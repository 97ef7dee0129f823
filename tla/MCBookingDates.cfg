SPECIFICATION Spec
CONSTANTS
  Bookings = {b1, b2}
  Proposals = {p1}
  Requests = {r1, r2}
  Stays <- TwoNights
SYMMETRY Symmetry
CONSTRAINT NothingLapsed
INVARIANTS TypeOK NoDateOverlap
PROPERTIES CalendarPromise
CHECK_DEADLOCK FALSE
