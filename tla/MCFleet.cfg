SPECIFICATION FairSpec
CONSTANTS
    MaxServers = 2
    Replicas <- MCReplicas
    PrioritizeAllowed = TRUE
    AgePriority = "oldest_first"
    MaxEdits = 1
    MaxDisturbances = 1
INVARIANTS
    TypeOK
    OnlyUnseenLeftBehind
    SelectionIsCorrect
    AdmittedSpecsWork
PROPERTIES
    NewServersAreOwned
    FleetDeletionCompletes
    FleetSettles
CHECK_DEADLOCK FALSE
