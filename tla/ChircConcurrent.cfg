SPECIFICATION Spec
CONSTANTS
    User = {"amy", "rory", "eve"}
    NoOne = NoOne
    Nick = {"a", "r"}
    Chan = {"#x"}
    Talkers = {"rory", "eve"}
    Commands = {"USER", "JOIN", "PART", "PRIVMSG", "TOPIC", "LIST", "NAMES",
                "NAMES c", "WHO", "WHO c", "LUSERS", "NOTICE"}
    MaxCmds = 3
    Veterans <- TwoVeterans
    Lobby = "#x"
    NickOf <- TwoNicks
    FailingSends = FALSE
    UINT_MOD = 16
PROPERTIES CommandsEnd
CHECK_DEADLOCK FALSE
