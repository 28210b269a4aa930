SPECIFICATION FairSpec
CONSTANTS
    MaxFaults = 4
    SendsWhileDisconnected = FALSE
INVARIANTS
    Inductive
    OneWayOn
    FirstCauseReported
PROPERTIES
    KeepsLifecycle
    Reconnects
    SilentPeerNoticed
