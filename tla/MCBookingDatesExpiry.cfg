SPECIFICATION FairSpec
CONSTANTS
  Bookings = {b1}
  Proposals = {p1, p2}
  Requests = {r1, r2}
  Stays <- OneNight
PROPERTIES AnswersStand ProposalsEnd
CHECK_DEADLOCK FALSE
