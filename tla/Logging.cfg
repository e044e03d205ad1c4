SPECIFICATION FairSpec
CONSTANTS
    Producers = {app, job, lane}
    Waiters = {w}
    Capacity = 2
    Hole = hole
    Lane = lane
    Publishers = {gpu}
    Flushers = {owner, tool}
    Owner = owner
    ChannelCapacity = 1
    Workloads <- MCWorkloads
INVARIANTS
    InClaimOrder
    IdleIsABarrier
    NothingLostAtShutdown
    QuiesceSilences
    FlushDrains
    EveryOccurrenceCounted
PROPERTIES
    IdleWaitReturns
    FlushReturns
CHECK_DEADLOCK FALSE
