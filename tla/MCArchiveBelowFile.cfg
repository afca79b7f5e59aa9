SPECIFICATION Spec
CONSTANTS
    BaseDir <- MCBase
    Disks <- MCDisks
    Arguments <- MCArguments
    Paths <- MCPaths
    Absent = Absent
    MaxNodes = 3
INVARIANT
    NothingBelowFiles
