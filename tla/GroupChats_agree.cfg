SPECIFICATION Spec
CONSTANTS
    Nick = {a, b}
    None = None
    MaxChats = 2
    MaxStreams = 2
    MaxBusy = 2
    MaxSame = 1
INVARIANTS TypeOK JoinedHasChat ListsAgree ConnectedIsActive
SYMMETRY Nicknames
CHECK_DEADLOCK FALSE
