SPECIFICATION Spec
CONSTANTS
    Services = {"zooKeeper", "monitoring", "backupDaemon"}
    Servers = 2
    WritePolicies = TRUE
    VaultGenerates = TRUE
    Preloaded = FALSE
    EditableSecrets = {"zooKeeper", "backupDaemon"}
    Supplies <- SomeSupplies
    MayRemove = TRUE
    MaxVersion = 5
    MaxUpdates = 1
    MaxFaults = 1
INVARIANTS TypeOK RotatedOnRequest RunnableWhenDeployed RestartedAfterRotation ReportedAtRest NamesAccounted
PROPERTIES HandoverKept
CHECK_DEADLOCK FALSE
