------------------------------ MODULE MCArmHost ------------------------------
(* Small instances of ArmHost for TLC. *)
EXTENDS ArmHost, TLC

CONSTANTS a1, a2, s1, s2

TwoArms == {a1, a2}
TwoServers == {s1, s2}

Symmetry == Permutations({a1, a2}) \cup Permutations({s1, s2})
=============================================================================
