CONSTANTS
    a = a
    b = b
    a1 = a1
    b1 = b1
    b2 = b2
    Thread = {a, b}
    StackLimit = {a1, b1, b2}
    StackOf <- Stacks
    Flag = {"PREEMPT", "TERMINATE", "DEBUGBREAK", "INSTALL_CODE"}
    Interrupt = Interrupt
    Illegal = Illegal
    NoThread = NoThread
    MaxScopes <- ThreeAndTwo
SPECIFICATION FairSpec
INVARIANTS
    GuardInv
    LimitShowsRequest
PROPERTIES
    PendingSpec
    RequestHandled
