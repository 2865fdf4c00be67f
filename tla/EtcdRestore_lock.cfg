CONSTANTS
  Restores = {a, b}
  Pods = {p1}
  MaxWrites = 0
  MaxHasty = 0
  MaxFaults = 0
SPECIFICATION FairSpec
INVARIANTS TypeOK DestroysOnlyWithLock PausedOnlyByRestore
PROPERTIES VolumesKept ReleasedWhenRestored LockReleased RestoresComplete
CHECK_DEADLOCK FALSE
