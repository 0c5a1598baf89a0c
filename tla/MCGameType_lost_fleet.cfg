SPECIFICATION FairSpec
CONSTANTS
    MaxFleets = 2
    Templates = {v1}
    Replicas = {1}
    MaxEdits = 0
    MaxDisturbances = 1
PROPERTIES
    FleetIsReplaced
CHECK_DEADLOCK FALSE
