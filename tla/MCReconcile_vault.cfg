SPECIFICATION Spec
CONSTANTS
  Servers = 1
  VaultEnabled = TRUE
  WaitForPodsReady = FALSE
  AllowRevert = FALSE
  InitialSections = {"global", "vaultSecretManagement", "zooKeeper", "monitoring", "backupDaemon"}
  EditableSections = {}
  EditableSecrets = {"zooKeeperSecret", "monitoringSecret", "s3AliasesSecret"}
  MaxEdits = 1
  MaxSecretEdits = 1
  MaxFailures = 1
  MaxCrashes = 1
INVARIANTS QuietRestarted QuietRefreshed
PROPERTIES Progress Settles
CHECK_DEADLOCK FALSE
