SPECIFICATION FairSpec
CONSTANTS
    MaxFleets = 2
    Templates = {v1, v2}
    Replicas = {1, 2}
    MaxEdits = 1
    MaxDisturbances = 1
INVARIANTS
    TypeOK
    OnlyUnseenLeftBehind
PROPERTIES
    UpgradeKeepsAFleet
    GametypeDeletionCompletes
    UpgradeSettles
CHECK_DEADLOCK FALSE
