SPECIFICATION FairSpec
CONSTANTS
    Calls <- MCCalls
    Conns <- MCConns
    Requests <- MCRequests
    MaxRows = 1
    None = None
INVARIANTS
    ConnectionsAreReturned
    LooksLeaveNoTrace
    OkIsKept
PROPERTIES
    CloseEndsAll
\* Every call comes to its answer.
CHECK_DEADLOCK FALSE
