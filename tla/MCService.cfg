SPECIFICATION FairSpec
CONSTANTS
    Objects <- FewObjects
    Owner <- MCOwner
    MaxUid <- MCMaxUid
    Requests <- MCRequests
    MaxRequests = 2
    Keys = {"server", "fleet", "k"}
    MaxFaults = 1
INVARIANTS
    TypeOK
    OnlyDoomedPodsAreTold
PROPERTIES
    LabelWritesAreIsolated
    ForcedServerGoes
CHECK_DEADLOCK FALSE
