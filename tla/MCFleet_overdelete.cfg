SPECIFICATION Spec
CONSTANTS
    MaxServers = 3
    Replicas = {0, 1, 2}
    PrioritizeAllowed = TRUE
    AgePriority = "oldest_first"
    MaxEdits = 1
    MaxDisturbances = 0
PROPERTIES
    ScaleDownKeepsReplicas
CHECK_DEADLOCK FALSE
