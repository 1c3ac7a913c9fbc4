SPECIFICATION Spec
CONSTANTS
    WINLEN = 2
    MAXLEN = 2
    MAXRETRY = 0
    ISN <- SmallISN
    MaxBytes <- FewBytes
    MaxFaults = 1
    Closers = {"active", "passive"}
    EagerTimers = FALSE
    LongRto = FALSE
    Refusable = TRUE
INVARIANTS SeqNamesByte EofComplete NoCrash
PROPERTIES ExitDelivers CloseCompletes HandshakeCompletes
CHECK_DEADLOCK FALSE
