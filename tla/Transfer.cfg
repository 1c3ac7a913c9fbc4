SPECIFICATION TransferSpec
CONSTANTS
    WINLEN = 2
    MAXLEN = 2
    MAXRETRY = 0
    ISN <- SmallISN
    MaxBytes <- BothWays
    MaxFaults = 1
    Closers = {}
    EagerTimers = TRUE
    LongRto = FALSE
    Refusable = FALSE
INVARIANTS StreamPrefix Retained WithinWindow AckedDelivered TransferInv
PROPERTIES NumbersAdvance ImplementsByteStream
CHECK_DEADLOCK FALSE
