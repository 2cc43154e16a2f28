SPECIFICATION Spec
CONSTANTS
    Agents = {a1, a2}
    Admins = {w1}
    Conns = {c1, c2, c3, c4}
    Sids = {s1}
    u1 = u1
    u2 = u2
    Users = {u1, u2}
    SuperUsers = {}
    RemoteUsers = {u2}
    UserOf <- MCUserOf
    NoUser = NoUser
    NoId = NoId
    NoConn = NoConn
    Overlap = FALSE
    DbOutcomes = {TRUE}
    Traffic = {}
    MaxInputs = 0
    MaxConnects = 1
    MaxCrashes = 1
SYMMETRY Sym
VIEW HubView
INVARIANTS
    RoutableWhileOpen
    
CHECK_DEADLOCK FALSE
