SPECIFICATION Spec
CONSTANTS
    work = work
    v1 = v1
    q1 = q1
    a1 = a1
    a2 = a2
    Nobody = Nobody
    NoReport = NoReport
    Work <- OneWork
    Validations <- OneValidation
    Verifications <- OneVerification
    Of <- OfEither
    Arms <- TwoArms
    TopK = 1
    MaxInbox = 1
    UserMoves <- AllMoves
    FoundWorking <- TwoArms
    ValidatorsJudge = TRUE
    SeesSilence = TRUE
    Redelivers = TRUE
    CrashDuring <- Repeated
    PlanFails = TRUE
INVARIANTS TypeOK AssigneeFits CompletingFollowed HumanGate
PROPERTY AcceptsByApproval
SYMMETRY ArmSymmetry
CHECK_DEADLOCK FALSE
