CONSTANTS
    Node = {n1, n2, n3, n4}
    Record = {r1, r2}
    NULL = NULL
    Nothing = Nothing
SPECIFICATION FairSpec
INVARIANTS
    NoDanglingPointer
PROPERTIES
    FifoSpec
    EnqueueReturns
CHECK_DEADLOCK FALSE
