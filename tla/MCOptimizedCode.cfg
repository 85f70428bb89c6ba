CONSTANTS
    f1 = f1
    f2 = f2
    f3 = f3
    x1 = x1
    x2 = x2
    Closure = {f1, f2, f3}
    Context = {x1, x2}
    ContextOf <- TwoContexts
    Code = {c1, c2, c3}
    Full = Full
    InQueue = InQueue
    Dead = Dead
    MaxFrames = 2
    MaxJobs = 2
SYMMETRY CodeSymmetry
SPECIFICATION Spec
INVARIANTS
    FunctionsListed
    CodeAccounted
PROPERTY MarkingUnlinks
