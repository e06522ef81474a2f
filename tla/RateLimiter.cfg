SPECIFICATION LimiterSpec
CONSTANTS
    Uids = {u1, u2, u3}
    Tasks = {t1, t2}
    MAX_PER_SEC = 1
    RATE_WINDOW = 1
    STALE_AFTER = 3
    MAX_TRACKED_UIDS = 2
    MaxDelay = 1
    MaxClock = 4
SYMMETRY Symmetry
INVARIANTS TableBounded RateBound
