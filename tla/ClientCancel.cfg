SPECIFICATION Spec
CONSTANTS
    Ops = {"call", "cancel"}
    Batch <- MCCancelBatch
    Requires <- MCNoRequires
    Replies <- MCAnyReplies
    ReplyAfter = 3
    IsClient = TRUE
    Faults = {"close", "pull", "exit"}
    Null = Null
CHECK_DEADLOCK FALSE
INVARIANTS
    TypeOK
    PairedInOrder
    IssuerRunsOnce
    
    CallbackTargetLives
    CancelIsNeverReleased
PROPERTIES
    ImplementsRecvPairing
