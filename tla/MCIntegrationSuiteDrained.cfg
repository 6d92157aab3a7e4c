\* Every disagreement mended, one server that dies.
CONSTANTS
    CaseBound = 1
    Setups <- Swallowing
    MaxDeaths = 1
SPECIFICATION Spec
CHECK_DEADLOCK FALSE
INVARIANT AllSuitesRun
