SPECIFICATION Spec
CONSTANTS
    WINLEN = 2
    MAXLEN = 2
    MAXRETRY = 0
    ISN <- SmallISN
    MaxBytes <- OneByte
    MaxFaults = 1
    Closers = {}
    EagerTimers = FALSE
    LongRto = FALSE
    Refusable = FALSE
INVARIANT AckedDelivered
CHECK_DEADLOCK FALSE
