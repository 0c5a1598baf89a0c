SPECIFICATION FairSpec
CONSTANTS
    MaxEdits = 0
    MaxEvictions = 0
    MaxFaults = 1
INVARIANTS
    ServerInv
PROPERTIES
    ImplementsServerLife
    PodEventuallyProtected
    DeletionCompletes
CHECK_DEADLOCK FALSE
