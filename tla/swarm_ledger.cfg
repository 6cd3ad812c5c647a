SPECIFICATION Spec
CONSTANTS
    b1 = b1
    b2 = b2
    x = x
    y = y
    early = early
    late = late
    NoProposal = NoProposal
    Brains <- TwoBrains
    Targets <- TwoTargets
    Evidence <- TwoEvents
    Proposals <- ArmXProposals
    At <- EarlyAndLate
    Cooldown = 2
    MaxTime = 2
INVARIANTS TypeOK OneUnderWay Spaced
PROPERTY KeepsPromise
SYMMETRY BrainSymmetry
CHECK_DEADLOCK FALSE
