----------------------------- MODULE MCTaskFlow -----------------------------
(* Small instances of TaskFlow for TLC. *)
EXTENDS TaskFlow, TLC

CONSTANTS work, v1, q1, a1, a2

OneWork == {work}
OneValidation == {v1}
OneVerification == {q1}
None == {}
OfEither == [f \in {v1, q1} |-> work]
OfOne == [f \in {v1} |-> work]
TwoArms == {a1, a2}
AllMoves == {"pending", "cancelled"}
Repeated == {"announced", "validation", "verdict", "request", "blocking", "resuming"}

ArmSymmetry == Permutations(TwoArms)
=============================================================================
