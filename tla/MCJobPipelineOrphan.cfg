SPECIFICATION Spec
CONSTANTS
    b1 = b1
    b2 = b2
    Backend <- TwoBackends
    Output <- TwoFiles
    RemoveFails = FALSE
INVARIANTS
    CancelLeavesNothing
CHECK_DEADLOCK FALSE
