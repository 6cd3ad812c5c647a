SPECIFICATION Spec
CONSTANTS
    a1 = a1
    a2 = a2
    s1 = s1
    s2 = s2
    NoArm = NoArm
    NoServer = NoServer
    NoJob = NoJob
    Arms <- TwoArms
    Servers <- TwoServers
    MaxArms = 1
    QueueBound = 1
    MishapBound = 2
SYMMETRY Symmetry
INVARIANTS TypeOK Recoverable OneServer CapacityKept HostCapacity RowsTrue
PROPERTY KilledStaysKilled
