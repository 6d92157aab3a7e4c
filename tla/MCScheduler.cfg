\* Two directories, two worker slots, a list of up to three entries: a batch can
\* be larger than the slots, and entries of one directory can be in one batch or
\* in two.
CONSTANTS
    d1 = d1
    d2 = d2
    Dir <- MCDir
    MaxWorkers = 2
    QueueBound = 3
SPECIFICATION FairSpec
\* Without a cancel every worker ends up parked at the receive on cleanupDone.
CHECK_DEADLOCK FALSE
INVARIANTS
    TypeOK
    SlotsAccountedFor
    ActiveIsLive
    LoneWorkerIsRegistered
    ReturnsOnlyWhenCancelled
    ProcessingIsUnderway
    BatchIsQueueFront
    PendingIsQueued
    CancelOnlyOfDoubled
PROPERTIES
    PendingStartsIfCancelled
