SPECIFICATION Spec
CONSTANTS
    MaxFleets = 2
    Templates = {v1, v2}
    Replicas = {1}
    MaxEdits = 1
    MaxDisturbances = 1
PROPERTIES
    UpgradeLeavesAFleet
CHECK_DEADLOCK FALSE
