SPECIFICATION Spec
CONSTANTS
  Sessions = {s1, s2}
  Clients = {c1, c2}
  WorkerConns = {k1, k2}
  Tasks = {t1}
  None = None
  MaxInFlight = 1
  DbMayFail = FALSE
SYMMETRY Symmetry
INVARIANT RowsAgree
PROPERTIES ImplementsContract   DeletedStaysDeleted
