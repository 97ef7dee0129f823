SPECIFICATION Spec
CONSTANTS
  Requests = {r1, r2}
  Txs = {t1,t2}
  Webhooks = {"funded", "released", "cancelled"}
  HashedEvents = {"funded"}
  MaxVersion = 4
  MaxFailures = 0
SYMMETRY Symmetry
INVARIANTS PaidOnce
CHECK_DEADLOCK FALSE
