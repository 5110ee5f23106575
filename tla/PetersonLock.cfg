SPECIFICATION LockFairSpec
CONSTANT MAX = 3
INVARIANTS
    MutualExclusion
    SumIsExact
PROPERTIES
    EveryThreadFinishes
\* The threads end.
CHECK_DEADLOCK FALSE
