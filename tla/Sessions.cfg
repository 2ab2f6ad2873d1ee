SPECIFICATION Spec
CONSTANTS
    c1 = c1
    c2 = c2
    e1 = e1
    e2 = e2
    t1 = t1
    t2 = t2
    t3 = t3
    t4 = t4
    a1 = a1
    a2 = a2
    b1 = b1
    b2 = b2
    s1 = s1
    verb1 = verb1
    ZeroUuid = ZeroUuid
    FFUuid = FFUuid
    RootBlock = RootBlock
    Client <- MCClient
    Setups <- MCSetups
    Capability <- MCCapability
    ExtCapability <- MCExtCapability
    Db <- MCDb
    Chain <- MCChain
INVARIANTS
    ResponsesAreTrue
    ContextsMatchConnections
    RoutesAreLive
PROPERTIES
    RequestsAnswered
    ConnectionsReleased
CHECK_DEADLOCK FALSE
