SPECIFICATION FairSpec
CONSTANTS
    Fds = {f1, f2, f3, f4}
    NoFd = NoFd
    MaxFaults = 3
    MaxAppFds = 2
    SendsWhileDisconnected = FALSE
    StopsInCallback = FALSE
    TimerFaults = FALSE
INVARIANTS
    Inductive
    OwnsItsFields
    NoLeak
    NeverStranded
    StoppedIsQuiet
    FirstCauseReported
PROPERTIES
    ImplementsLifecycle
    Reconnects
    PendingIsReported
