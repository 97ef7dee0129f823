SPECIFICATION FairSpec
CONSTANTS
  Requests = {r1, r2}
  Txs = {t1}
  Webhooks = {"funded", "released", "cancelled"}
  HashedEvents = {"funded"}
  MaxVersion = 4
  MaxFailures = 1
INVARIANTS TypeOK ConfirmedIsPaid
PROPERTIES MovesAreAllowed ConfirmedAtPrice SubmittedEnds
CHECK_DEADLOCK FALSE
