\* One of each kind of test, one server that dies.
CONSTANTS
    CaseBound = 1
    Setups <- Invocations
    MaxDeaths = 1
SPECIFICATION FairSpec
\* The process ends, or has nothing to do while a timer keeps it.
CHECK_DEADLOCK FALSE
INVARIANTS
    TypeOK
    OwnServer
    GreenIsComplete
    PassedMeansMended
    OneVerdictPerServer
PROPERTIES
    ProcessEnds
