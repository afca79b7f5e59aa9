SPECIFICATION Spec
CONSTANTS
    MD_FREE_LIST_ENTRIES = 2
    Paths = {p1, p2, p3, p4, p5}
    Sizes = {100, 1500}
    Compress = {FALSE}
    BatchSizes = {1, 5}
    MaxDataBlocks = 9
    NoData = NoData
SYMMETRY PathSymmetry
INVARIANT
    FilesAreIntact
CHECK_DEADLOCK FALSE
