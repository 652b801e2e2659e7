SPECIFICATION Spec
CONSTANTS
    Nick = {a, b}
    None = None
    MaxChats = 2
    MaxStreams = 2
    MaxBusy = 3
    MaxSame = 1
INVARIANTS OneChatOfRoom
CHECK_DEADLOCK FALSE
