SPECIFICATION FairSpec
CONSTANTS
    MaxLoads = 3
    StartMayFail = TRUE
INVARIANTS
    IInv
    InstanceIsReady
PROPERTIES
    LoadCompletes
    Terminates
