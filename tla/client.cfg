SPECIFICATION ClientSpec
CONSTANTS
    Sessions = {s1, s2}
    NoSession = NoSession
    InFlight = 2
    MaxClicks = 2
    MaxLosses = 1
    Tokens = {t1, t2}
    NoToken = NoToken
    MaxHolders = 1
    MaxReports = 2
    MaxFaults = 1
    Viewers = {v1}
    NoViewer = NoViewer
    Pictures = {p1, p2}
    NoPicture = NoPicture
    Qualities <- MCQualities
    Modes = {"legacy", "frameskip"}
    Interval <- MCInterval
    LowInterval = 2
    Keyframe = 3
    IdleSkips = 1
    IdleInterval = 2
    EncodeTimes = {100, 250}
    Dirtiness = {50}
    WindowLength = 2
    StarveFrames = 1
    Horizon = 6
    Texts = {"a", "A", "big"}
    TooBig = {"big"}
    Normal <- MCNormal
    MaxSessions = 2
    MaxCopies = 2
    MaxBusy = 1
    InTransit = 1
    Spots = {"p"}
    NoSpot = "nowhere"
    Buttons = {"L", "R"}
    Modifiers = {"ctrl"}
    Printables = {"c"}
    Named = {}
    MaxActs = 4
    MaxGaps = 1
    Size <- MCSize
    MaxFile = 2
    MaxTransfers = 2
    MaxMeetings = 1
    MaxFailures = 1
    Versions = {1, 2}
    MaxAsked = 2
INVARIANTS
    ClientTypeOK
    
    OutputIsOurs
    StaleAtMostKeyframe
    ManualWins
    
    UpdateGate
PROPERTIES
    LinkComesBack
    
    ClipboardSettles
    OnlyCopiedMeanwhile
CHECK_DEADLOCK FALSE
