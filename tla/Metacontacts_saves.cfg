SPECIFICATION FairSpec
CONSTANTS
    JID = {j1, j2}
    Tag = {t1}
    MaxListed = 3
    MaxChanges = 5
    Other = Other
    Gone = Gone
    None = None
CHECK_DEADLOCK FALSE
INVARIANTS
    TypeOK
    SavedUnlessFailed
PROPERTIES
    WritesBehind
    ChangesReachServer
