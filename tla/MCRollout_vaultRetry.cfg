SPECIFICATION Spec
CONSTANTS
  MaxServers = 3
  Installed = 3
  ReplicaChoices = {3}
  RollingUpdate = TRUE
  VaultEnabled = TRUE
  SleepCoversSync = TRUE
  MaxConfigs = 1
  MaxSecretEdits = 1
  MaxFailures = 1
  MaxPodFailures = 0
  MaxRestarts = 0
INVARIANTS OneByOne
CHECK_DEADLOCK FALSE
