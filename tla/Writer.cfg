SPECIFICATION FairSpec
CONSTANTS
    Workers = {w1, w2}
    Texts = {"register", "offer", "candidate"}
    Faults = TRUE
    Null = Null
CHECK_DEADLOCK FALSE
INVARIANTS
    TypeOK
    OneWriteAtATime
    WireInPushOrder
    BufferIsServed
PROPERTIES
    ImplementsTextFifo
    SilentAfterError
    EveryTextIsWritten
