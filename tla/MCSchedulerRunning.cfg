CONSTANTS
    d1 = d1
    d2 = d2
    Dir <- MCDir
    MaxWorkers = 1
    QueueBound = 2
SPECIFICATION Spec
CHECK_DEADLOCK FALSE
PROPERTY
    RunningIsNotCancelled
