SPECIFICATION LaunchSpec
CONSTANTS
  Tabs = {t1, t2}
  MaxLaunches = 3
  MaxRestarts = 1
INVARIANTS
  SharedLaunchIsSingle
  RetryIsFresh
