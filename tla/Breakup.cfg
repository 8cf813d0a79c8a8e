SPECIFICATION Spec
CONSTANTS
    Peers = {p1, p2}
    Workers = 2
    Candidates = 1
    Pings = 2
    Faults = TRUE
CHECK_DEADLOCK FALSE
INVARIANTS
    TypeOK
    
    
    ReadyAfterExchange
    
    
