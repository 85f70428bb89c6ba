CONSTANTS
    Length = 2
    Uninitialized = Uninitialized
    MaxEvents = 3
    MaxVmTicks = 2
SPECIFICATION FairSpec
INVARIANTS
    SymbolizedInOrder
    DrainedAtExit
PROPERTIES
    RingSpec
    StopReturns
