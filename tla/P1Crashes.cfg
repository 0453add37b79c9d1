SPECIFICATION FairSpec
CONSTANTS
    e1 = e1
    e2 = e2
    f1 = f1
    f2 = f2
    Event <- MCEvent
    Foreign <- MCForeign
    Commit = Commit
    Null = Null
    None = None
    MaxMoves = 3
    MaxFaults = 3
INVARIANTS
    OneOutcome
    CommitIsDurable
PROPERTIES
    RetryHeals
\* a root whose retry is refused, and a cycle that is over, stop
CHECK_DEADLOCK FALSE
