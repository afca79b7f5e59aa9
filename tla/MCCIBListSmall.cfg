SPECIFICATION Spec
CONSTANTS
    SetSize = 8
    LIST_ENTRIES_PER_BLOCK = 3
    IntBits = 4
    InitListBlocks = {1, 3}
    MaxListBlocks = 4
    MaxFree = 9
INVARIANT
    SummariesAreExact
PROPERTY
    IdsAreFresh
