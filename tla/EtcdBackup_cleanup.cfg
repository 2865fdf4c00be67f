SPECIFICATION FairSpec
CONSTANTS
  SpecKeep = 0
  KeepIsSet = TRUE
  OneShot = TRUE
  HasDelete = FALSE
  HasCleanup = TRUE
  ClusterStays = FALSE
  MaxBackups = 1
  MaxTicks = 1
  MaxFaults = 3
INVARIANTS
  CleanupComesLast
  KeptBackupsStored
PROPERTIES
  DeletionCompletes
CHECK_DEADLOCK FALSE
