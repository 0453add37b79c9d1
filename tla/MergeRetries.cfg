SPECIFICATION FairSpec
CONSTANTS
    Runner = {p, q}
    None = None
    MaxFaults = 2
    MaxDrift = 1
INVARIANTS
    ReceiptIsExact
PROPERTIES
    RetryCloses
\* a request that is refused for good, and one that is closed, stop
CHECK_DEADLOCK FALSE
