SPECIFICATION Spec
CONSTANTS
  Requests = {r1, r2}
  Ops = {"confirm", "cancel", "complete", "dispute", "raiseDispute", "resolve", "expire"}
  MaxCrashes = 0
SYMMETRY Symmetry
VIEW WithoutHistory
INVARIANTS TypeOK ClaimsAreBacked
PROPERTIES OutcomePromise
CHECK_DEADLOCK FALSE
