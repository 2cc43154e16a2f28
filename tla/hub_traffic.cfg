SPECIFICATION Spec
CONSTANTS
    Agents = {a1, a2}
    Admins = {}
    Conns = {c1, c2, c3}
    Sids = {s1}
    u1 = u1
    u2 = u2
    Users = {u1, u2}
    SuperUsers = {}
    RemoteUsers = {u1}
    UserOf <- MCUserOf
    NoUser = NoUser
    NoId = NoId
    NoConn = NoConn
    Overlap = TRUE
    DbOutcomes = {TRUE}
    Traffic = {"clipboard", "chat"}
    MaxInputs = 1
    MaxConnects = 1
    MaxCrashes = 0
SYMMETRY Sym
VIEW HubView
INVARIANTS
    OneStraggler
    SummaryComplete
PROPERTIES
    DeliveredToParty
CHECK_DEADLOCK FALSE
