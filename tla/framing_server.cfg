SPECIFICATION Spec
CONSTANTS
    BufSize = 261
    Payloads = {0, 1, 255, 256, 257, 258}
    Types = {1, 3}
    Data = {0, 255}
    Side = "server"
INVARIANTS
    DeliveredIntact
    ReadsFitBuffer
