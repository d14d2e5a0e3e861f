SPECIFICATION Spec
CONSTANTS
    Keys = {"owner"}
    MaxServers = 2
    ReplicaChoices = {1, 2}
    StorageTypes = {"standalone", "storage_class", "predefined_claim"}
    VolumeChoices = {0, 1}
    AllowRevert = TRUE
    MaxEdits = 4
    MaxFaults = 1
INVARIANTS TypeOK ClaimsFollowSpec RetriesComplete
PROPERTIES PredefinedKept Progress Settles
CHECK_DEADLOCK FALSE
