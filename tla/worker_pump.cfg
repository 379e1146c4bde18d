SPECIFICATION Spec
CONSTANTS
  MaxRuns = 2
  MaxLinks = 2
  MaxCommands = 3
  MaxRestarts = 0
INVARIANT HeldShellIsRead
CHECK_DEADLOCK FALSE
