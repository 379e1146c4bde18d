SPECIFICATION Spec
CONSTANTS
  Retain = 2
  Padded = {1}
  CacheMax = 3
  CacheKeep = 2
  MaxOut = 4
  MaxPages = 3
  MaxLinks = 3
  MaxFails = 1
  MaxKills = 1
INVARIANTS TypeOK CacheHoldsStream 
PROPERTIES QueuedIsPainted
CHECK_DEADLOCK FALSE
