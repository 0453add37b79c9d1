SPECIFICATION Spec
CONSTANTS
    Proc = {p1, p2}
    Reader = {r1}
    Op = {a, b}
    Steps = 2
    WitnessAt = 1
    Resumable = {}
    Audited = {b}
    NoProc = NoProc
    NoOp = NoOp
    NoVector = NoVector
    MaxGen = 5
    MaxFaults = 1
SYMMETRY Symmetry
INVARIANTS
    ReadIsCommitted
    CrashReadIsOneState
PROPERTIES
    ImplementsAtomicStore
