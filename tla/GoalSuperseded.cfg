SPECIFICATION Spec
CONSTANTS
    Task = {1, 2}
    None = None
    Probed = FALSE
    MaxMint = 3
    MaxEpoch = 1
    MaxFaults = 1
INVARIANT
    SupersededRefused
CHECK_DEADLOCK FALSE
