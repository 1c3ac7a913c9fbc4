CONSTANTS
    MAX_NUM_CONNECTIONS = 2
    Peer = {p1}
    NoPeer = NoPeer
    Backlog = 0
    BufLen = 1
    UINT_MAX = 7
    MaxArrivals = 2
    DataPackets = 1
    MaxWrites = 2
    MaxOpens = 1
    Hangups = FALSE
    Refusals = TRUE
SPECIFICATION Spec
INVARIANTS DataInOrder
PROPERTIES CloseReturns ArrivalTaken
CHECK_DEADLOCK FALSE
