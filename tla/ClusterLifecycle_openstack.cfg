CONSTANTS
  Providers = {"openstack"}
  Recorded = {{"sg", "subnet", "router"}}
  Services = {}
  Used = {}
  EtcdBackupRestore = FALSE
  MaxFaults = 1
SPECIFICATION FairSpec
PROPERTY CleanUpIdempotent
CHECK_DEADLOCK FALSE
