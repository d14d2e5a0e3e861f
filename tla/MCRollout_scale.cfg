SPECIFICATION Spec
CONSTANTS
  MaxServers = 3
  Installed = 0
  ReplicaChoices = {1, 3}
  RollingUpdate = TRUE
  VaultEnabled = TRUE
  SleepCoversSync = TRUE
  MaxConfigs = 2
  MaxSecretEdits = 1
  MaxFailures = 0
  MaxPodFailures = 1
  MaxRestarts = 0
INVARIANTS RestIsCurrent ExcessScaledDown
PROPERTIES Progress
CHECK_DEADLOCK FALSE
