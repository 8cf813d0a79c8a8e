SPECIFICATION Spec
CONSTANTS
    Peers = {p1, p2}
    Workers = 2
    Candidates = 1
    Pings = 0
    Faults = FALSE
CHECK_DEADLOCK FALSE
INVARIANTS
    ReadyWhenSignaled
