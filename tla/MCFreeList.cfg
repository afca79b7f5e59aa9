SPECIFICATION Spec
CONSTANTS
    FREE_LIST_MAX_ENTRIES = 2
    InitListBlocks = {1, 2}
    InitNodeBlocks = {0, 1, 2, 4}
    MaxMDBlocks = 8
INVARIANTS
    TypeOK
    NoBlockLostOrShared
    CountersAreExact
    BlocksKeepTheirNames
    IInv
PROPERTY
    ImplementsPool
CHECK_DEADLOCK FALSE
