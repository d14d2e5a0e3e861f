SPECIFICATION Spec
CONSTANTS
  Servers = 1
  VaultEnabled = FALSE
  WaitForPodsReady = FALSE
  AllowRevert = TRUE
  InitialSections = {"global", "vaultSecretManagement", "zooKeeper"}
  EditableSections = {"zooKeeper"}
  EditableSecrets = {}
  MaxEdits = 3
  MaxSecretEdits = 0
  MaxFailures = 1
  MaxCrashes = 0
INVARIANTS QuietApplied
CHECK_DEADLOCK FALSE
