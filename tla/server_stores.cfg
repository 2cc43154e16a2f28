SPECIFICATION StoresSpec
CONSTANTS
    Endpoints = {e1}
    Owners = {o1}
    NoOwner = NoOwner
    NoEndpoint = NoEndpoint
    Handlers = {h1, h2}
    Jobs = {j1, j2}
    OnlineTimeout = 1
    MaxElapsed = 2
    MaxRestarts = 1
    Ids = {1, 2, 3}
    NoId = 0
    Names = {"superadmin", "admin", "amy", "bob"}
    NoName = "none"
    Passwords = {"default", "old"}
    NewPasswords = {"default"}
    LegacyUsers = {"superadmin", "amy"}
    Creations <- MCCreations
    Patches <- MCPatches
    Requests = {r1, r2}
    FixedSecret = FALSE
    CliName = "amy"
    Databases = {"credential", "roles"}
    MaxRequests = 2
    MaxStops = 1
    MaxDbFailures = 2
SYMMETRY Symmetry
INVARIANTS
    StoresTypeOK
    OfflineUntilHeard
    NamesUnique
    OneSuperadmin
    
PROPERTIES
    RemovalSticks
    
CHECK_DEADLOCK FALSE
