SPECIFICATION GenBenchSpec
CONSTANTS
    LenMod = 32
    SizeMod = 512
    HeapSize = 11
    MaxRoots = 1
    RefLengths = {2}
    BinLengths <- MCChildSizes
    UsedSlots = {}
    Compacting = FALSE
    Half = 3
    Ages = {32}
    RUNS = 2
    MAX_CHILD_SIZE = 5
    ROOT_SIZE = 2
    ITERATIONS = 5
    SLOT_STRIDE = 3
PROPERTIES SameTable BenchEnds
