SPECIFICATION FairSpec
CONSTANTS
    Nonces = {n1, n2}
    Uids = {u1, u2}
    NONCE_TTL = 2
    MAX_PENDING = 2
    MAX_PENDING_PER_UID = 1
    MaxClock = 4
    MaxIssued = 2
INVARIANTS CountsExact WithinLimits
PROPERTIES LedgerSpec RemovalsTimely EventuallyRemoved
