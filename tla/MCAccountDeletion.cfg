SPECIFICATION FairSpec
CONSTANTS
  Deletions = {d1, d2}
  Exports = {x1}
  Transient = {"notifications"}
  Workers = {w1, w2}
  Clients = {c1}
  MaxFailures = 1
INVARIANTS TypeOK CompletedIsWiped
PROPERTIES ErasurePromise DeletionsEnd
