CONSTANTS
    large = large
    cell = cell
    o1 = o1
    o2 = o2
    n1 = n1
    n2 = n2
    Large = large
    LargeLength = 1
    Cells = {cell}
    Old = {o1, o2}
    Semi <- NoSemispaces
    Capacity = 2
    NULL = NULL
    Free = Free
    Filler = Filler
SYMMETRY OldSymmetry
SPECIFICATION Spec
INVARIANTS
    BlackSeesNoWhite
    ReachableIntact
PROPERTY PauseMakesProgress
