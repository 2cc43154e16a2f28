CONSTANTS
    Versions = {1, 2}
    MaxAsked = 2
SPECIFICATION UpdateSpec
INVARIANT NothingInterrupted
CHECK_DEADLOCK FALSE
