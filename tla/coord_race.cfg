SPECIFICATION Spec
CONSTANTS
  Sessions = {s1}
  Clients = {c1, c2}
  WorkerConns = {k1, k2}
  Tasks = {t1}
  None = None
  MaxInFlight = 2
  DbMayFail = TRUE
SYMMETRY Symmetry
INVARIANT RecordsWellFormed
PROPERTY ReplayCompletionKeepsHolder
