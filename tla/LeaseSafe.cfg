SPECIFICATION Spec
CONSTANTS
    l1 = l1
    l2 = l2
    r1 = r1
    Lease = {l1, l2}
    Session = {l1, l2}
    Resource = {r1}
    Owner <- MCOwner
    On <- MCOn
    Ttl = 2
    Term = 2
    None = None
    MaxTime = 2
    MaxRevision = 2
    MaxFaults = 1
INVARIANTS
    ExclusiveUse
    PendingOwnsTheTail
PROPERTIES
    AcceptedFromLive
SYMMETRY Leases
CHECK_DEADLOCK FALSE
