SPECIFICATION FairSpec
CONSTANTS
    good = good
    bad = bad
    r1 = r1
    w1 = w1
    w2 = w2
    Nobody = Nobody
    Commands <- GoodAndBad
    Malformed <- OneBad
    Requeues <- None
    Workers <- OneWorker
    Mode = "auto"
    LoseRequests = TRUE
    DatabaseFails = TRUE
    ProjectorFails = FALSE
    Retention = FALSE
INVARIANT OnlyAdmissible
PROPERTY KeepsPromise
CHECK_DEADLOCK FALSE
