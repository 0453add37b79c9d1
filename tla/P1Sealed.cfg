SPECIFICATION FairSpec
CONSTANTS
    e1 = e1
    e2 = e2
    f1 = f1
    f2 = f2
    Event <- MCEvent
    Foreign <- MCForeign
    Commit = Commit
    Null = Null
    None = None
    MaxMoves = 0
    MaxFaults = 1
PROPERTY ExactRetryHeals
CHECK_DEADLOCK FALSE
