CONSTANTS
  Providers = {"aws"}
  Recorded = {{"sg", "role", "profile"}}
  Services = {"s"}
  Used = {"volumes", "configs", "constraints"}
  EtcdBackupRestore = TRUE
  MaxFaults = 0
SPECIFICATION Spec
INVARIANTS TypeOK CredentialsLast
PROPERTIES ImplementsTeardown NoVolumesLeft
CHECK_DEADLOCK FALSE
