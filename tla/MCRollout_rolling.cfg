SPECIFICATION Spec
CONSTANTS
  MaxServers = 3
  Installed = 3
  ReplicaChoices = {3}
  RollingUpdate = TRUE
  VaultEnabled = FALSE
  SleepCoversSync = TRUE
  MaxConfigs = 3
  MaxSecretEdits = 1
  MaxFailures = 1
  MaxPodFailures = 0
  MaxRestarts = 1
INVARIANTS TypeOK OnlyCurrentDisrupted PassedAreReady RestIsCurrent
PROPERTIES Completes
CHECK_DEADLOCK FALSE
