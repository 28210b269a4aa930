SPECIFICATION Spec
CONSTANTS
    MaxFaults = 0
INVARIANT
    StoppedIsQuiet
