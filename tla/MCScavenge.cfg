SPECIFICATION GenSpec
CONSTANTS
    LenMod = 32
    SizeMod = 512
    HeapSize = 8
    MaxRoots = 1
    RefLengths = {2}
    BinLengths = {0}
    UsedSlots = {2}
    Compacting = FALSE
    Half = 3
    Ages = {32}
INVARIANTS GenTypeOK RememberedSetComplete
PROPERTIES ScavengeIsExact BackOutLeavesNoTrace CollectorIsInvisible
