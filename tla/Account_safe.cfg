SPECIFICATION Spec
CONSTANTS
    Online = {on, away}
    Offline = off
    Connecting = conn
    Iface = {i1}
    Remote = {r1}
    Configured = cfgd
    MaxCalls = 2
    MaxNotes = 1
    MaxSoon = 2
    Patient = {"timers"}
    None = none
INVARIANTS TypeOK StreamsCleaned OfflineSticks ShownIsCores ReconnectsByTimer
CHECK_DEADLOCK FALSE
