SPECIFICATION FairSpec
CONSTANTS
  Requests = {r1, r2}
  Bodies = {b1, b2}
  MaxBookings = 3
  MaxFailures = 2
INVARIANTS TypeOK OneAnswer OneHolder
PROPERTIES ClaimsEnd
