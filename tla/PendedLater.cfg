SPECIFICATION FairSpec
CONSTANTS
    Ops = {"call"}
    Batch <- MCClientBatch
    Requires <- MCNoRequires
    Replies <- MCUnaryReplies
    ReplyAfter = 3
    IsClient = TRUE
    Faults = {}
    Null = Null
CHECK_DEADLOCK FALSE
PROPERTIES
    PendedBatchRuns
