SPECIFICATION BenchSpec
CONSTANTS
    LenMod = 32
    SizeMod = 512
    HeapSize = 12
    MaxRoots = 1
    RefLengths = {4}
    BinLengths <- MCChildSizes
    UsedSlots = {}
    Compacting = FALSE
    RUNS = 2
    MAX_CHILD_SIZE = 11
    ROOT_SIZE = 4
    ITERATIONS = 12
    SLOT_STRIDE = 3
INVARIANTS NeverOutOfMemory LiveBlocksAreInTable
PROPERTIES SameTable BenchEnds
