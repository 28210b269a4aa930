SPECIFICATION FairSpec
CONSTANTS
    MaxFaults = 4
INVARIANTS
    TypeOK
    StopEndsTask
    NoLeak
    Watched
PROPERTIES
    KeepsLifecycle
    Reconnects
    SilentPeerNoticed
