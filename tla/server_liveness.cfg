SPECIFICATION FairSpec
CONSTANTS
    ClientsMax = 2
    CallsInDisconnected = FALSE
    StaleNumbers = FALSE
PROPERTY
    PendingIsReported
CHECK_DEADLOCK FALSE
