SPECIFICATION Spec
CONSTANTS
    NODE_ENTRIES = 1
    Names = {n1, n2, n3}
    NoName = NoName
    MaxBlock = 3
PROPERTY
    DeletionTerminates
CHECK_DEADLOCK FALSE
