SPECIFICATION Spec
CONSTANTS
    MaxMessage = 3
    MaxProduced = 6
    LateErrors = TRUE
    SendsToPending = FALSE
INVARIANT
    NoUseAfterFree
