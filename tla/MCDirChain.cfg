SPECIFICATION Spec
CONSTANTS
    NODE_ENTRIES = 2
    Names = {n1, n2, n3, n4, n5}
    NoName = NoName
    MaxBlock = 3
SYMMETRY NameSymmetry
INVARIANTS
    TypeOK
    LookupIsExact
    CountsAreExact
    LinksStayInOwnedBlocks
CHECK_DEADLOCK FALSE
