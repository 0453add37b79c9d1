SPECIFICATION Spec
CONSTANTS
    create = create
    move = move
    A = A
    B = B
    Zero = Zero
    Git = Git
    None = None
    Tx = {create, move}
    Oid = {Zero, A, B}
    Old <- OldOf
    New <- NewOf
    Preserve = {move}
    MaxGit = 2
    MaxCrash = 1
PROPERTIES
    ImplementsAtomicRef
    GitKeepsItsLocks
    LocksFreed
CHECK_DEADLOCK FALSE
