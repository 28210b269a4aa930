SPECIFICATION Spec
CONSTANTS
    Period = 8
    Timeout = 12
    Delay = 2
    Late = 1
INVARIANTS
    Inductive
    NoFalseAlarm
    NoticedInTime
