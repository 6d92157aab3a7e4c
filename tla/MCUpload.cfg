\* Three requests give at most the numbers 1 to 3.
CONSTANTS
    r1 = r1
    r2 = r2
    r3 = r3
    alice = alice
    None = None
    Broken = Broken
    Request <- Requests
    Subject <- Subjects
    User <- Users
    SuffixBound = 3
SPECIFICATION Spec
\* Every request is answered and every job ends.
CHECK_DEADLOCK FALSE
INVARIANTS
    TypeOK
    SharedOnlyByRace
    OwnNameExcludesUser
    QueuedIsIntact
