SPECIFICATION Spec
CONSTANTS
    Ops = {"call", "cancel"}
    Batch <- MCCancelBatch
    Requires <- MCNoRequires
    Replies <- MCUnaryReplies
    ReplyAfter = 3
    IsClient = TRUE
    Faults = {}
    Null = Null
CHECK_DEADLOCK FALSE
INVARIANTS
    NoBatchDropped
