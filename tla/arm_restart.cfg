SPECIFICATION FairSpec
CONSTANTS
    a1 = a1
    t1 = t1
    t2 = t2
    NoArm = NoArm
    NoTask = NoTask
    NoCall = NoCall
    Arms <- OneArm
    Tasks <- OneTask
    StartupDelay = 1
    AckDelay = 2
    ReconnectDelay = 2
    BusyDelay = 3
    LoseEffects = FALSE
    OtherWriters = FALSE
    StrayReports = FALSE
    Sent <- BrainEvents
    MaxRestarts = 1
PROPERTY WaitsEnd
CHECK_DEADLOCK FALSE
