CONSTANTS
    large = large
    cell = cell
    o1 = o1
    o2 = o2
    n1 = n1
    n2 = n2
    Large = large
    LargeLength = 2
    Cells = {}
    Old = {o1}
    Semi <- Semispaces
    Capacity = 2
    NULL = NULL
    Free = Free
    Filler = Filler
SPECIFICATION Spec
INVARIANTS
    DequeHoldsGrey
    ReachableIntact
