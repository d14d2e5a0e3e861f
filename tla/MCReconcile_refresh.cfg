SPECIFICATION Spec
CONSTANTS
  Servers = 1
  VaultEnabled = TRUE
  WaitForPodsReady = FALSE
  AllowRevert = FALSE
  InitialSections = {"global", "vaultSecretManagement", "monitoring", "backupDaemon"}
  EditableSections = {}
  EditableSecrets = {"backupDaemonSecret"}
  MaxEdits = 1
  MaxSecretEdits = 1
  MaxFailures = 0
  MaxCrashes = 0
INVARIANTS AllRefreshed
CHECK_DEADLOCK FALSE
