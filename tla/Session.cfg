SPECIFICATION FairSpec
CONSTANTS
    Peers = {p1, p2, p3}
    Workers = 2
    Candidates = 1
    Pings = 1
    Faults = FALSE
CHECK_DEADLOCK FALSE
PROPERTIES
    SessionEstablishes
