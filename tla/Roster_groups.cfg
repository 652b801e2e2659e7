SPECIFICATION Spec
CONSTANTS
    a1 = a1  a2 = a2  c1 = c1  c2 = c2  c3 = c3  e1 = e1  e2 = e2  e3 = e3
    g1 = g1  g2 = g2  j1 = j1  j2 = j2  J1 = J1
    Account = {a1}
    Contact = {c1}
    Entry = {e1, e2}
    UserGroup = {g1, g2}
    GroupName = {"friends", "work"}
    Tag = {}
    JID = {j1, j2}
    Address = {j1, j2}
    ContactName = {}
    Transport = {}
    Bare <- Plain
    None = "none"
SYMMETRY Objects
CHECK_DEADLOCK FALSE
INVARIANTS
    GroupsLinked
    ContactHasGroup
    MainGroupShown
