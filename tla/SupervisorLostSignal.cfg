SPECIFICATION Spec
CONSTANTS
    MaxFaults = 1
    MaxSignals = 0
CHECK_DEADLOCK FALSE
PROPERTIES
    DeadServiceReplaced
