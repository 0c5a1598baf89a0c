SPECIFICATION Spec
CONSTANTS
    Objects <- AllObjects
    Owner <- MCOwner
    MaxUid <- MCMaxUid
    Requests <- MCRequests
    MaxRequests = 1
    Keys = {"server", "fleet", "k"}
    MaxFaults = 0
INVARIANT
    ForcedFleetTellsServers
CHECK_DEADLOCK FALSE
