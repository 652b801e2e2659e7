SPECIFICATION Spec
CONSTANTS
    a1 = a1  a2 = a2  c1 = c1  c2 = c2  c3 = c3  e1 = e1  e2 = e2  e3 = e3
    g1 = g1  g2 = g2  j1 = j1  j2 = j2  J1 = J1
    Account = {a1, a2}
    Contact = {c1, c2}
    Entry = {e1, e2}
    UserGroup = {g1}
    GroupName = {"friends"}
    Tag = {"t1"}
    JID = {j1}
    Address = {j1, J1}
    ContactName = {"ana"}
    Transport = {j1, J1}
    Bare <- Spelled
    None = "none"
SYMMETRY Objects
CHECK_DEADLOCK FALSE
INVARIANTS
    TypeOK
    EntriesLinked
    EntryHasAccount
    OneEntryFound
    TagsIndexed
