SPECIFICATION TlhSpec
CONSTANTS
    t1 = t1
    t2 = t2
    Thread = {t1, t2}
    N = 4
    ChunkSize = 3
    Sizes <- MCSizes
SYMMETRY Symmetry
INVARIANTS OneOwner RefArraysStartNull
