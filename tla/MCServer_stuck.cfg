SPECIFICATION FairSpec
CONSTANTS
    MaxEdits = 0
    MaxEvictions = 0
    MaxFaults = 0
PROPERTIES
    EveryDeletionCompletes
CHECK_DEADLOCK FALSE
