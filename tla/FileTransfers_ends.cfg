SPECIFICATION Spec
CONSTANTS
    Kind = {"incoming", "file", "folder"}
    Sizes = {0, 1, 3, 5}
    SendBuffer = 2
    MaxQueue = 3
INVARIANTS TypeOK Settled CompletedIsWhole CancelStops
CHECK_DEADLOCK FALSE
