SPECIFICATION FairSpec
CONSTANTS
    MaxLoads = 2
    StartMayFail = TRUE
INVARIANTS
    ExecReturnsLocked
