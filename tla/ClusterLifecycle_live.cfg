CONSTANTS
  Providers = {"vsphere"}
  Recorded = {{}}
  Services = {}
  Used = {"nodes"}
  EtcdBackupRestore = TRUE
  MaxFaults = 1
SPECIFICATION FairSpec
PROPERTIES ImplementsTeardown DeletionCompletes
CHECK_DEADLOCK FALSE
