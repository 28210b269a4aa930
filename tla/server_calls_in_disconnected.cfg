SPECIFICATION Spec
CONSTANTS
    ClientsMax = 3
    CallsInDisconnected = TRUE
    StaleNumbers = FALSE
PROPERTY
    ReportedOnce
CHECK_DEADLOCK FALSE
