SPECIFICATION FairSpec
CONSTANTS
    MaxLoads = 3
    StartMayFail = FALSE
INVARIANTS
    HostAsleep
    OneWaiter
PROPERTIES
    StopCompletes
