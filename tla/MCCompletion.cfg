\* One key that two uploads can share, two clients.
CONSTANTS
    h1 = h1
    h2 = h2
    c1 = c1
    c2 = c2
    None = None
    Hash <- OneHash
    Client <- Clients
    MaxAge = 1
    MaxTime = 2
    Faulty <- FaultyStores
    MaxErrors = 1
    MaxWait = 1
    MaxRuns = 2
SPECIFICATION FairSpec
\* When the clock stops and the clients have ended only the cleaner goes on.
CHECK_DEADLOCK FALSE
INVARIANTS
    TypeOK
    AnswerOfSomeRun
PROPERTIES
    DeletedWasOld
    AgedIsRemoved
    WaitEnds
