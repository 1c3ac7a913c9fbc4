CONSTANTS
    MAX_NUM_CONNECTIONS = 3
    Peer = {p1, p2}
    NoPeer = NoPeer
    Backlog = 1
    BufLen = 1
    UINT_MAX = 7
    MaxArrivals = 2
    DataPackets = 0
    MaxWrites = 0
    MaxOpens = 1
    Hangups = TRUE
    Refusals = FALSE
SYMMETRY Clients
SPECIFICATION Spec
INVARIANTS TypeOK NoLostWakeup PendingIsQueued HandedOutOnce
CHECK_DEADLOCK FALSE
