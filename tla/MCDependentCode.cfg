CONSTANTS
    Info = {a1, a2}
    CodeObject = {c1}
    NULL = NULL
    kGroupCount = 3
    MaxUses = 2
SYMMETRY AddressSymmetry
SPECIFICATION DependentSpec
INVARIANTS
    NobodyForgotten
    NoDanglingEntry
PROPERTY GroupsSpec
