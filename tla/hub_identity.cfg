SPECIFICATION Spec
CONSTANTS
    Agents = {a1, a2}
    Admins = {}
    Conns = {c1, c2}
    Sids = {s1}
    u1 = u1
    u2 = u2
    Users = {u1, u2}
    SuperUsers = {}
    RemoteUsers = {u1}
    UserOf <- MCUserOf
    NoUser = NoUser
    NoId = NoId
    NoConn = NoConn
    Overlap = TRUE
    DbOutcomes = {TRUE}
    Traffic = {}
    MaxInputs = 0
    MaxConnects = 1
    MaxCrashes = 0
VIEW HubView
INVARIANT
    IdentityBound
CHECK_DEADLOCK FALSE
