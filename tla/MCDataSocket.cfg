SPECIFICATION SocketSpec
CONSTANTS
    app = app
    AppCap <- MCAppCap
    RootCreate = RootCreate
    ReduceCaps = ReduceCaps
    ChildCreate = ChildCreate
    ChildClose = ChildClose
    MaxChildContexts = 2
    Capacity = 3
    Requests <- MCRequests
    MaxOutstanding = 2
INVARIANTS
    ResponsesInOrder
    NothingStranded
    SlotsAccountedFor
PROPERTIES
    AuthorityOnlyShrinks
    RequestsServed
CHECK_DEADLOCK FALSE
