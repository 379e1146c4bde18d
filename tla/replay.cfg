SPECIFICATION Spec
CONSTANTS
  Conns = {h1, w1}
  Sockets = {w1}
  None = None
  MaxOut = 2
INVARIANT NothingIsDropped
PROPERTIES ReplayGoesFirst 
CHECK_DEADLOCK FALSE
