\* Two backends and two files: four writers, and a channel for four errors.
CONSTANTS
    b1 = b1
    b2 = b2
    Backend <- TwoBackends
    Output <- TwoFiles
    RemoveFails = TRUE
SPECIFICATION FairSpec
\* A job ends.
CHECK_DEADLOCK FALSE
INVARIANTS
    TypeOK
    SuccessMeansAllStored
    ReportNeverBlocks
    NoSendOnClosed
PROPERTIES
    PromiseKept
    SeenByQueue
    BodyEnds
    WritersEnd
    CancelledBeforeWritingFails
