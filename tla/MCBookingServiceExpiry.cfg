SPECIFICATION FairSpec
CONSTANTS
  Requests = {r1, r2}
  Ops = {"confirm", "expire"}
  MaxCrashes = 1
PROPERTIES HoldsExpire
CHECK_DEADLOCK FALSE
