SPECIFICATION FairSpec
CONSTANTS
    LenMod = 32
    SizeMod = 512
    HeapSize = 4
    MaxRoots = 2
    RefLengths = {2}
    BinLengths = {0}
    UsedSlots = {2}
    Compacting = TRUE
INVARIANTS HeapWalkable NoDanglingReference
PROPERTIES CollectionIsExact FailsOnlyWhenFull CollectorIsInvisible AllocationReturns
