SPECIFICATION FairSpec
CONSTANTS
    Clients = {c1, c2, c3}
    MAX_CONNECTIONS = 2
    NoClient = NoClient
CHECK_DEADLOCK FALSE
INVARIANTS PermitsExact
PROPERTIES ShutdownEnds SignalsServed ServedInTurn FinishedAreJoined
