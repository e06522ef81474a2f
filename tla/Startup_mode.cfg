SPECIFICATION FairSpec
CONSTANTS
    Procs = {1, 2}
    Adapters = {"a", "b"}
    MethodOf <- MCMethodOf
    MaxEdits = 2
    MaxHups = 1
    MaxKills = 1
    Systemd = Systemd
    Foreign = Foreign
    None = None
CHECK_DEADLOCK FALSE
INVARIANTS SocketModeSet
