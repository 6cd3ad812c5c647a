SPECIFICATION FairSpec
CONSTANTS
    a1 = a1
    t1 = t1
    t2 = t2
    NoArm = NoArm
    NoTask = NoTask
    NoCall = NoCall
    Arms <- OneArm
    Tasks <- OneTask
    StartupDelay = 1
    AckDelay = 1
    ReconnectDelay = 1
    BusyDelay = 2
    LoseEffects = FALSE
    OtherWriters = TRUE
    StrayReports = FALSE
    Sent <- EveryEvent
    MaxRestarts = 0
PROPERTIES DeadlinesRunDown WaitsEnd
CHECK_DEADLOCK FALSE
