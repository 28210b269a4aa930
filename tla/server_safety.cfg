SPECIFICATION Spec
VIEW View
CONSTANTS
    ClientsMax = 3
    CallsInDisconnected = FALSE
    StaleNumbers = FALSE
INVARIANTS
    TypeOK
    ListsWellFormed
    KnownClientsServed
    DescriptorsOwned
    BroadcastReachesAll
    StopCloses
PROPERTY
    ImplementsLifecycle
CHECK_DEADLOCK FALSE
