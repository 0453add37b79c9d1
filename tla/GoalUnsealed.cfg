SPECIFICATION Spec
CONSTANTS
    Task = {1, 2}
    None = None
    Probed = TRUE
    MaxMint = 2
    MaxEpoch = 0
    MaxFaults = 1
PROPERTY
    ExactRetryCleans
CHECK_DEADLOCK FALSE
