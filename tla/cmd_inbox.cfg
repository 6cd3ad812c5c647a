SPECIFICATION Spec
CONSTANTS
    good = good
    bad = bad
    r1 = r1
    w1 = w1
    w2 = w2
    Nobody = Nobody
    Commands <- GoodAndBad
    Malformed <- OneBad
    Requeues <- OneRequeue
    Workers <- TwoWorkers
    Mode = "api"
    LoseRequests = TRUE
    DatabaseFails = TRUE
    ProjectorFails = TRUE
    Retention = TRUE
INVARIANTS TypeOK NothingLost LeaseExclusive
PROPERTY FinishedStaysFinished
SYMMETRY WorkerSymmetry
CHECK_DEADLOCK FALSE
