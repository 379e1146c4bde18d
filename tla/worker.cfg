SPECIFICATION Spec
CONSTANTS
  MaxRuns = 3
  MaxLinks = 3
  MaxCommands = 3
  MaxRestarts = 1
INVARIANTS TypeOK LiveShellIsHeld HeldIsLive GhostsExpire
CHECK_DEADLOCK FALSE
