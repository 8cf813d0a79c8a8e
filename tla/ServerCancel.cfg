SPECIFICATION Spec
CONSTANTS
    Ops <- MCServerOps
    Batch <- MCServerBatch
    Requires <- MCServerRequires
    Replies <- MCAnyReplies
    ReplyAfter = 0
    IsClient = FALSE
    Faults = {"close"}
    Null = Null
\* A call that is over, or that hangs, has nothing left to do.
CHECK_DEADLOCK FALSE
INVARIANTS
    ServerPerformsOnce
PROPERTIES
    LostCallHangs
