SPECIFICATION Spec
CONSTANTS
    Services = {"zooKeeper", "backupDaemon"}
    Servers = 1
    WritePolicies = TRUE
    VaultGenerates = FALSE
    Preloaded = TRUE
    EditableSecrets = {"backupDaemon"}
    Supplies <- SomeSupplies
    MayRemove = FALSE
    MaxVersion = 3
    MaxUpdates = 1
    MaxFaults = 0
PROPERTIES EveryRefreshServed
CHECK_DEADLOCK FALSE
