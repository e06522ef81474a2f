SPECIFICATION FairSpec
CONSTANTS
    ONE = 2
    MS_PER_SEC = 2
    U64_MAX = 15
    Conns <- MCConns
    c1 = c1
    c2 = c2
    Callers <- MCCallers
    AlwaysAllowed = {0}
    Root = 0
    Uids = {1}
    Methods = {"pin"}
    Nonces = {n1, n2}
    Snapshots <- TwoSnapshots
    Results <- FourResults
    REQUIRE_ATTESTATION = TRUE
    MAX_RESULT_AGE_SECS = 1
    Nows = {1, 9}
    MaxRequests = 2
    MaxReloads = 1
    Nil = Nil
CHECK_DEADLOCK FALSE
INVARIANTS GrantsJustified OneGrantPerNonce RepliesRecorded NoNonceLeft
PROPERTY ComesToResponse
