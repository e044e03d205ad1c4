SPECIFICATION FairSpec
CONSTANTS
    Workers = {k1, k2, k3}
    MaxTasks = 4
INVARIANTS
    NoTouchAfterFree
    FibreInOnePlace
PROPERTIES
    JoinIsComplete
    WaitReturns
CHECK_DEADLOCK FALSE
