SPECIFICATION Spec
CONSTANTS
    MaxFaults = 2
    MaxSignals = 2
INVARIANTS
    SignalsOwnChild
    OneProcessPerService
    DataServiceOutlivesClient
    LeftBehind
PROPERTIES
    ShutdownEnds
CHECK_DEADLOCK FALSE
