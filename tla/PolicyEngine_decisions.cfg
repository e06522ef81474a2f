SPECIFICATION EngineSpec
CONSTANTS
    ONE = 2
    MS_PER_SEC = 2
    U64_MAX = 15
    Rules <- SomeRules
    MaxRules = 3
    Results <- SomeResults
    Uids = {1}
    Caps = {2, 8}
    Nows = {2, 4, 5, 15}
INVARIANTS AllowsWhatIsPermitted OrderIrrelevant
