SPECIFICATION FairSpec
CONSTANTS
    Client = {c1, c2}
    c1 = c1
    c2 = c2
    kagent = kagent
    k1 = k1
    k2 = k2
    kother = kother
    None = None
    MaxAttempts = 2
    Setups <- MCSetups
INVARIANTS
    PeersAgree
    IvUsedOnce
PROPERTIES
    StartEnds
    HandshakesEnd
CHECK_DEADLOCK FALSE
