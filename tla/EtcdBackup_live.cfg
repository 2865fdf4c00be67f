SPECIFICATION FairSpec
CONSTANTS
  SpecKeep = 1
  KeepIsSet = TRUE
  OneShot = FALSE
  HasDelete = TRUE
  HasCleanup = FALSE
  ClusterStays = FALSE
  MaxBackups = 2
  MaxTicks = 2
  MaxFaults = 1
INVARIANTS
  KeptBackupsStored
  NoForgottenJobs
PROPERTIES
  RemovedBeforeForgotten
  DeletionCompletes
  BackupsFinish
CHECK_DEADLOCK FALSE
