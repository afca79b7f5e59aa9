SPECIFICATION Spec
CONSTANTS
    SetSize = 3
    LIST_ENTRIES_PER_BLOCK = 2
    IntBits = 32
    InitListBlocks = {1, 3}
    MaxListBlocks = 11
    MaxFree = 4
INVARIANTS
    TypeOK
    EntriesAreExact
    SummariesAreExact
PROPERTIES
    IdsAreFresh
    GrowsOnlyWhenFull
