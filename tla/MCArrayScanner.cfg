SPECIFICATION FairSpec
CONSTANTS
    Ref = {r1, r2}
    Null = Null
    MaxLength = 3
    SLOT_SIZE = 8
    Budgets = {0, 4, 8, 12, 100}
INVARIANTS NoAssertFails EachSlotOnce NoEdgeLost BytesAddUp PausesWithWorkLeft
PROPERTIES EnumeratesSlots ScanCompletes
