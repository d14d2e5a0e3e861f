SPECIFICATION Spec
CONSTANTS
  MaxServers = 3
  Installed = 3
  ReplicaChoices = {1}
  RollingUpdate = TRUE
  VaultEnabled = FALSE
  SleepCoversSync = TRUE
  MaxConfigs = 2
  MaxSecretEdits = 0
  MaxFailures = 1
  MaxPodFailures = 0
  MaxRestarts = 0
INVARIANTS ExcessScaledDown
CHECK_DEADLOCK FALSE
