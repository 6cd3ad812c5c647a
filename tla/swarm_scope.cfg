SPECIFICATION Spec
CONSTANTS
    b1 = b1
    b2 = b2
    x = x
    y = y
    early = early
    late = late
    NoProposal = NoProposal
    Brains <- OneBrain
    Targets <- TwoTargets
    Evidence <- TwoEvents
    Proposals <- BugProposals
    At <- EarlyAndLate
    Cooldown = 2
    MaxTime = 2
INVARIANT ScopeBlocked
CHECK_DEADLOCK FALSE
