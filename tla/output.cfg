SPECIFICATION FairSpec
CONSTANTS
    MaxMessage = 3
    MaxProduced = 8
    LateErrors = FALSE
    SendsToPending = FALSE
INVARIANTS
    InOrder
    EpolloutWhileQueued
    NoUseAfterFree
PROPERTY
    Delivered
