CONSTANTS
  Restores = {a}
  Pods = {p1}
  MaxWrites = 1
  MaxHasty = 0
  MaxFaults = 1
SPECIFICATION FairSpec
PROPERTIES ReleasedWhenRestored LockReleased RestoresComplete
CHECK_DEADLOCK FALSE
