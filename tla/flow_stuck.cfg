SPECIFICATION Spec
CONSTANTS
    work = work
    v1 = v1
    q1 = q1
    a1 = a1
    a2 = a2
    Nobody = Nobody
    NoReport = NoReport
    Work <- OneWork
    Validations <- OneValidation
    Verifications <- None
    Of <- OfOne
    Arms <- TwoArms
    TopK = 1
    MaxInbox = 1
    UserMoves <- None
    FoundWorking <- None
    ValidatorsJudge = FALSE
    SeesSilence = FALSE
    Redelivers = FALSE
    CrashDuring <- None
    PlanFails = FALSE
INVARIANT CompletingFollowed
SYMMETRY ArmSymmetry
CHECK_DEADLOCK FALSE
