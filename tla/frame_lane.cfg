SPECIFICATION FairSpec
CONSTANTS
    Controls = {k1, k2}
    Senders = {p1, p2}
    NoControl = NoControl
    MaxQueue = 2
    MaxFrames = 3
INVARIANTS
    OneFrameAhead
    DropIsExact
PROPERTIES
    KeepsPromise
    ControlsArrive
    NewestArrives
CHECK_DEADLOCK FALSE
