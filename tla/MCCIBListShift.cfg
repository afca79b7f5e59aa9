SPECIFICATION Spec
CONSTANTS
    SetSize = 4
    LIST_ENTRIES_PER_BLOCK = 2
    IntBits = 2
    InitListBlocks = {1}
    MaxListBlocks = 4
    MaxFree = 2
PROPERTY
    IdsAreFresh
