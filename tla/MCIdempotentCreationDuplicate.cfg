SPECIFICATION Spec
CONSTANTS
  Requests = {r1, r2}
  Bodies = {b1, b2}
  MaxBookings = 2
  MaxFailures = 0
INVARIANTS NoDuplicate
