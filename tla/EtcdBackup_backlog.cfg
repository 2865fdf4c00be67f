SPECIFICATION Spec
CONSTANTS
  SpecKeep = 1
  KeepIsSet = TRUE
  OneShot = FALSE
  HasDelete = FALSE
  HasCleanup = FALSE
  ClusterStays = TRUE
  MaxBackups = 4
  MaxTicks = 4
  MaxFaults = 0
INVARIANTS
  TypeOK
  ScheduledInOrder
  TrackedBackupsBounded
CHECK_DEADLOCK FALSE
