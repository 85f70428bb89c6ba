CONSTANTS
    Closure = {f1, f2}
    Shared = {f1, f2}
    SharedOf <- OwnCode
    Loop = {l1}
    DepthOf <- Siblings
    MaxNesting = 1
    Job = {j1, j2}
    NULL = NULL
    InputCapacity = 1
    OsrCapacity = 1
    ConcurrentOsr = FALSE
    Block = FALSE
    Delay = FALSE

SPECIFICATION FairSpec
PROPERTIES
    FlushReturns
    StopReturns
    QueuedFunctionResolved
CHECK_DEADLOCK FALSE
