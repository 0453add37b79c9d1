SPECIFICATION Spec
CONSTANTS
    Task = {1, 2}
    None = None
    Probed = FALSE
    MaxMint = 2
    MaxEpoch = 1
    MaxFaults = 1
INVARIANTS
    OneLineage
    NewestDecides
    BootstrapOnce
    SuccessionOpen
PROPERTIES
    ImplementsAtomicForeman
    RetryFinishes
CHECK_DEADLOCK FALSE
