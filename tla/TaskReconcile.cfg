SPECIFICATION Spec
CONSTANTS
    Policies = {TRUE}
    Hold = {}
    None = None
    MaxAttempt = 3
    MaxCycle = 2
    MaxHead = 0
    MaxEpoch = 1
    MaxFaults = 1
INVARIANT ReconcileRetires
CHECK_DEADLOCK FALSE
