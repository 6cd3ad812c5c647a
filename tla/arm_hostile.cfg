SPECIFICATION Spec
CONSTANTS
    a1 = a1
    t1 = t1
    t2 = t2
    NoArm = NoArm
    NoTask = NoTask
    NoCall = NoCall
    Arms <- OneArm
    Tasks <- TwoTasks
    StartupDelay = 0
    AckDelay = 0
    ReconnectDelay = 0
    BusyDelay = 0
    LoseEffects = TRUE
    OtherWriters = TRUE
    StrayReports = TRUE
    Sent <- EveryEvent
    MaxRestarts = 1
SYMMETRY TaskSymmetry
INVARIANTS TypeOK NoWaitWithoutDeadline
PROPERTY CompletedStaysCompleted
CHECK_DEADLOCK FALSE
