SPECIFICATION FairSpec
CONSTANTS
    Proc = {p1, p2, p3}
    NoNonce = NoNonce
    NoProc = NoProc
    Slots = 3
    Repeats = {p1, p2, p3}
    Calls <- Budget
    Unlucky = {p1, p2, p3}
    Late = {p3}
    ReaperCost = 2
    MaxFaults = 3
INVARIANTS
    MutualExclusion
PROPERTIES
    ImplementsAtomicLock
    StaleWriterReaped
