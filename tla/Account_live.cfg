SPECIFICATION FairSpec
CONSTANTS
    Online = {on}
    Offline = off
    Connecting = conn
    Iface = {i1}
    Remote = {r1}
    Configured = cfgd
    MaxCalls = 1
    MaxNotes = 1
    MaxSoon = 2
    Patient = {"user", "timers"}
    None = none
PROPERTY ReconnectionEnds
CHECK_DEADLOCK FALSE
