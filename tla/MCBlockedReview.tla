-------------------------- MODULE MCBlockedReview --------------------------
(* Small instances of BlockedReview for TLC. *)
EXTENDS BlockedReview, TLC

CONSTANTS t1, t2, a1, a2

TwoTasks == {t1, t2}
TwoArms == {a1, a2}
=============================================================================
