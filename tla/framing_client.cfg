SPECIFICATION Spec
CONSTANTS
    BufSize = 7
    Payloads = {0, 1, 2, 3, 4}
    Types = {2, 4}
    Data = {0, 1}
    Side = "client"
INVARIANT
    DeliveredIntact
