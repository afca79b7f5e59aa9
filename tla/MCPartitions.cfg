SPECIFICATION Spec
CONSTANTS
    MaxData = 4
    MaxMD = 5
    MaxBy = 3
INVARIANTS
    TypeOK
    PartitionsAreIntact
    RecoverableOutsideWindows
    LostInWindows
    AccessesAreMapped
