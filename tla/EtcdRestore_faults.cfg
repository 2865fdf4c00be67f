CONSTANTS
  Restores = {a}
  Pods = {p1, p2, p3}
  MaxWrites = 0
  MaxHasty = 1
  MaxFaults = 1
SPECIFICATION Spec
SYMMETRY Symmetry
INVARIANTS OldDataGone
PROPERTIES VolumesKept ReleasedWhenRestored
CHECK_DEADLOCK FALSE
