CONSTANTS
    Closure = {f1, f2}
    Shared = {s1}
    SharedOf <- OneCode
    Loop = {l1, l2}
    DepthOf <- Siblings
    MaxNesting = 1
    Job = {j1, j2, j3}
    NULL = NULL
    InputCapacity = 2
    OsrCapacity = 2
    ConcurrentOsr = TRUE
    Block = TRUE
    Delay = TRUE
SYMMETRY OsrSymmetry
SPECIFICATION Spec
INVARIANTS
    JobsAccounted
    CompileNextHasJob
    NoStrandedFunction
    NoLostInstallRequest
    NothingLeftBehind
    OneOsrJobPerEntry
    BackEdgesRevertible
CHECK_DEADLOCK FALSE
