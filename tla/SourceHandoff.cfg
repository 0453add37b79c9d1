SPECIFICATION FairSpec
CONSTANTS
    None = None
    MaxFaults = 3
    MaxDrift = 2
    Plan <- MCPlan
INVARIANTS
    SnapshotIsReal
    IndexBehindTree
    NoResidue
PROPERTIES
    EditsKept
    CheckpointUnderFence
    HandoffCompletes
\* a completed handoff, and one that is refused for good, stop
CHECK_DEADLOCK FALSE
