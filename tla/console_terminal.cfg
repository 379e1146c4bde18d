SPECIFICATION Spec
CONSTANTS
  Sessions = {s1, s2}
  Slots = 2
  MaxDrops = 1
INVARIANTS
  InstalledIsCurrent
  
PROPERTIES
  
  
  OutageIsShown
