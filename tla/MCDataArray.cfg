SPECIFICATION Spec
CONSTANTS
    MD_FREE_LIST_ENTRIES = 4
    Paths = {p1, p2, p3}
    Sizes = {100, 992, 2100}
    Compress = {TRUE, FALSE}
    BatchSizes = {0, 1, 2, 3}
    MaxDataBlocks = 7
    NoData = NoData
SYMMETRY PathSymmetry
INVARIANTS
    TypeOK
    PartitionIsTiled
    BoundaryTagsAgree
    FilesAreIntact
    FreeListIsSorted
    FreeChunksAreMerged
    IdleMeansTrimmed
PROPERTIES
    TakesBestFit
    LinksStayWhole
