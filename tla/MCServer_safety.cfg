SPECIFICATION Spec
CONSTANTS
    MaxEdits = 1
    MaxEvictions = 1
    MaxFaults = 0
INVARIANTS
    TypeOK
    LivePodIsOwned
    DeletionIsJustified
PROPERTIES
    PodReleasedInOrder
CHECK_DEADLOCK FALSE
