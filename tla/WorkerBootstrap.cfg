SPECIFICATION FairSpec
CONSTANTS
    p1 = p1
    p2 = p2
    a = a
    b = b
    Proc = {p1, p2}
    Op = {a, b}
    Git = Git
    Nil = Nil
    MaxInode = 5
    Caller = p1
    Serves <- Asked
    MaxFaults = 2
INVARIANTS
    NoBackfill
PROPERTIES
    AttachKeepsPreimages
    RetryCloses
CHECK_DEADLOCK FALSE
