SPECIFICATION Spec
CONSTANTS
  Terms = {blank, t1, t2}
  Complete = {t1, t2}
  Requests = {q1, q2}
  Guests = {g1}
  MaxWrites = 5
SYMMETRY Symmetry
INVARIANTS TypeOK VersionsNumbered
PROPERTIES VersionsKept SavesWhatItSaw
CHECK_DEADLOCK FALSE
