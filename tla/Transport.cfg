\* Three calls, so that several streams can wait for readiness at the same time.
SPECIFICATION FairSpec
CONSTANTS
    Streams = {s1, s2, s3}
\* The process may end, and without calls nothing is left to do.
CHECK_DEADLOCK FALSE
INVARIANTS
    TypeOK
    UsedTransportStays
    AcceptIsSafe
    WaitersCalled
PROPERTIES
    
    CloseEnds
