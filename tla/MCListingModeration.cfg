SPECIFICATION FairSpec
CONSTANTS
  Reports = {r1, r2}
  Requests = {q1, q2}
  Visitors = {v1}
INVARIANTS TypeOK
PROPERTIES DecidedOnce HiddenLeavesPublic
