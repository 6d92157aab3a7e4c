\* The same instance as MCUpload.cfg.
CONSTANTS
    r1 = r1
    r2 = r2
    r3 = r3
    alice = alice
    None = None
    Broken = Broken
    Request <- Requests
    Subject <- Subjects
    User <- Users
    SuffixBound = 3
SPECIFICATION Spec
\* Every request is answered and every job ends.
CHECK_DEADLOCK FALSE
INVARIANTS
    SameUserOnce
