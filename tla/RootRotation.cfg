SPECIFICATION Spec
CONSTANTS
    Proc = {p1, p2}
    Version = {1, 2, 3}
    Rotation <- MCRotation
    None = None
    MaxWrites = 2
    MaxFaults = 2
PROPERTIES
    ImplementsAtomicProtocol
    RotationRecovers
CHECK_DEADLOCK FALSE
