--------------------------- MODULE MCSwarmActions ---------------------------
(* Small instances of SwarmActions for TLC. *)
EXTENDS SwarmActions, TLC

CONSTANTS b1, b2, x, y, early, late

OneBrain == {b1}
TwoBrains == {b1, b2}
TwoTargets == {x, y}
TwoEvents == {early, late}
EarlyAndLate == early :> 0 @@ late :> 1

Proposal(action, target, event) == [action |-> action, target |-> target, evidence |-> event]
ArmXProposals ==
    {Proposal("prompt_arm", x, early), Proposal("stop_arm", x, early),
     Proposal("prompt_arm", x, late)}
BugProposals ==
    {Proposal("create_bug", x, early), Proposal("create_bug", y, early),
     Proposal("create_bug", y, late)}

BrainSymmetry == Permutations(TwoBrains)
=============================================================================
