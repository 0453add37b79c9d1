SPECIFICATION FairSpec
CONSTANTS
    Proc = {p1, p2}
    Reader = {}
    Op = {a, b}
    Steps = 2
    WitnessAt = 1
    Resumable = {a, b}
    Audited = {}
    NoProc = NoProc
    NoOp = NoOp
    NoVector = NoVector
    MaxGen = 7
    MaxFaults = 2
INVARIANTS
    PartialIsBound
PROPERTIES
    ClosesWholeOrPristine
    RetryHeals
