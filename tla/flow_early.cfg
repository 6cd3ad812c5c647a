SPECIFICATION Spec
CONSTANTS
    work = work
    v1 = v1
    q1 = q1
    a1 = a1
    a2 = a2
    Nobody = Nobody
    NoReport = NoReport
    Work <- OneWork
    Validations <- OneValidation
    Verifications <- None
    Of <- OfOne
    Arms <- TwoArms
    TopK = 1
    MaxInbox = 1
    UserMoves <- None
    FoundWorking <- TwoArms
    ValidatorsJudge = TRUE
    SeesSilence = FALSE
    Redelivers = FALSE
    CrashDuring <- None
    PlanFails = FALSE
INVARIANT AcceptedByHuman
SYMMETRY ArmSymmetry
CHECK_DEADLOCK FALSE
