\* Seven tokens hold every delimiter of the grammar, four entries over three keys every
\* order and repetition of keys that matters.
SPECIFICATION Spec
CONSTANTS
    Tokens = {"wss", ":", "/", "@"}
    MaxTokens = 7
    Keys = {1, 2, 3}
    MaxEntries = 4
\* The inputs are bounded.
CHECK_DEADLOCK FALSE
INVARIANTS
    ConnectsAsWritten
    NothingLost
    MetadataArrives
    LastValueArrives
