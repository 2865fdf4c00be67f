CONSTANTS
  Providers = {"aws"}
  Recorded = {{"sg", "role", "profile"}}
  Services = {"s"}
  Used = {"nodes"}
  EtcdBackupRestore = FALSE
  MaxFaults = 0
SPECIFICATION Spec
PROPERTY BalancersAwaited
CHECK_DEADLOCK FALSE
