SPECIFICATION Spec
CONSTANTS
    Policies = {TRUE, FALSE}
    Hold = {"hard","soft"}
    None = None
    MaxAttempt = 3
    MaxCycle = 2
    MaxHead = 1
    MaxEpoch = 1
    MaxFaults = 2
CONSTRAINT Histories
INVARIANTS
    AcceptedOnCurrent
    RecoveredSourceIsReal
    LostIsPending
CHECK_DEADLOCK FALSE
