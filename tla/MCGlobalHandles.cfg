CONSTANTS
    Block = {b1, b2, b3}
    Size = 1
    NULL = NULL
    MaxPasses = 2
SYMMETRY BlockSymmetry
VIEW Relevant
SPECIFICATION Spec
INVARIANTS
    NodesAccounted
    NewSpaceNodesComplete
PROPERTY NothingLeftPending
