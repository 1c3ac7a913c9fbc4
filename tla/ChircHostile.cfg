SPECIFICATION Spec
CONSTANTS
    User = {"amy", "rory"}
    NoOne = NoOne
    Nick = {"a", "r"}
    Chan = {"#x"}
    Talkers = {"amy", "rory"}
    Commands = {"NICK", "USER", "JOIN", "PART", "QUIT", "EOF", "PRIVMSG", "NOTICE",
                "TOPIC", "LIST", "LIST c", "NAMES", "NAMES c", "WHO", "WHO c",
                "WHOIS", "LUSERS", "MODE", "PING", "MOTD", "AWAY", "OPER", "UNKNOWN"}
    MaxCmds = 3
    Veterans <- OneVeteran
    Lobby = "#x"
    NickOf <- OneNick
    FailingSends = TRUE
    UINT_MOD = 16
INVARIANTS TypeOK NoSelfDeadlock ChannelsConsistent UniqueNicks  NumusersAccounted
CHECK_DEADLOCK FALSE
