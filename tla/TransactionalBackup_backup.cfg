SPECIFICATION Spec
CONSTANTS
    Servers = {"zk1", "zk2"}
    Leader = "zk1"
    MaxBackups = 2
    MaxTxns = 2
    MaxSnapshots = 1
    MaxFaults = 1
    UnknownTxns = {1}
INVARIANTS TypeOK BackupIsOfOneMoment RecoveredEverywhere LeavesNothing
PROPERTIES Ends
CHECK_DEADLOCK FALSE
