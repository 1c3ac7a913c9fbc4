SPECIFICATION Spec
CONSTANTS
    User = {"amy", "rory"}
    NoOne = NoOne
    Nick = {"a", "r"}
    Chan = {"#x"}
    Talkers = {"amy", "rory"}
    Commands = {"NICK", "USER", "QUIT", "EOF", "LUSERS"}
    MaxCmds = 3
    Veterans <- OneVeteran
    Lobby = "#x"
    NickOf <- OneNick
    FailingSends = FALSE
    UINT_MOD = 16
INVARIANTS RegisteredCounted
CHECK_DEADLOCK FALSE
