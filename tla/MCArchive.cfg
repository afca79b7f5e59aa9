SPECIFICATION Spec
CONSTANTS
    BaseDir <- MCBase
    Disks <- MCDisks
    Arguments <- MCArguments
    Paths <- MCPaths
    Absent = Absent
    MaxNodes = 3
INVARIANTS
    TypeOK
    WholeUnlessLost
    LostInWindows
    EachPathOldOrNew
PROPERTY
    InsertionsEnd
