SPECIFICATION Spec
CONSTANTS
    Address = {x, y}
    MaxContacts = 2
    MaxEntries = 2
    MaxChats = 2
    MaxQueue = 2
    None = None
INVARIANT EntriesMatch
CHECK_DEADLOCK FALSE
