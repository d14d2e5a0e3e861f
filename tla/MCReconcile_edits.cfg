SPECIFICATION Spec
CONSTANTS
  Servers = 2
  VaultEnabled = FALSE
  WaitForPodsReady = TRUE
  AllowRevert = FALSE
  InitialSections = {"global", "vaultSecretManagement", "zooKeeper", "backupDaemon", "integrationTests"}
  EditableSections = {"zooKeeper", "global", "monitoring"}
  EditableSecrets = {}
  MaxEdits = 2
  MaxSecretEdits = 0
  MaxFailures = 2
  MaxCrashes = 1
INVARIANTS TypeOK HashesVouch GateSound QuietApplied OutcomeConsistent
PROPERTIES SuccessfulMeansApplied
CHECK_DEADLOCK FALSE
