SPECIFICATION Spec
CONSTANTS
    Sources <- MCSources
    Pids <- MCPids
    Requests <- MCRequests
    InTheWay <- MCInTheWay
    Nothing = Nothing
    Overrun = Overrun
    UINT64 = 10
INVARIANTS
    TypeOK
    EveryChildIsCounted
    SourceIsLeftAsItWas
    RoundTrip
CHECK_DEADLOCK FALSE
