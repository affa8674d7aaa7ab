SPECIFICATION Spec
CONSTANTS
    p1 = p1
    p2 = p2
    Operator = Operator
    Nobody = Nobody
    NoLock = NoLock
    Pids <- TwoPids
    Kinds <- AllKinds
    MaxWrites = 2
SYMMETRY PidSymmetry
CHECK_DEADLOCK FALSE
INVARIANTS TypeOK LockHeld OneScheduler
PROPERTIES GuardedWrites FreshWrites
