\* One call with every way to finish it and with failing message sources.
SPECIFICATION FairSpec
CONSTANTS
    Faults = {"pull"}
    Null = Null
\* A call that is over, or that hangs, has nothing left to do.
CHECK_DEADLOCK FALSE
INVARIANTS
    MismatchExplained
    FramesEndToEnd
    ServerNeverStrands
    EndNeedsThreeFrames
PROPERTIES
    WellFramedCallEnds
