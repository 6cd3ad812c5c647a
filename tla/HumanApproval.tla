--------------------------- MODULE HumanApproval ---------------------------
(***************************************************************************)
(* What the gate behind validated work promises (brain/brain.ts: "Put      *)
(* validated work behind an explicit, auditable human approval gate").     *)
(* Work is accepted by a validation it has passed and an approval that a   *)
(* human gave, and each of them accepts work once.  A human may approve at *)
(* any time: an approval that is still unread when the work passes another *)
(* validation counts for that one.                                         *)
(***************************************************************************)
CONSTANT Work

VARIABLES
    validated,  \* the work that passed a validation no human has answered yet
    granted,    \* the work with an approval that has not been used yet
    accepted    \* the work that counts as done

vars == <<validated, granted, accepted>>

Init == validated = {} /\ granted = {} /\ accepted = {}

Validate(w) ==
    /\ validated' = validated \cup {w}
    /\ accepted' = accepted \ {w}
    /\ UNCHANGED granted

Approve(w) ==
    /\ granted' = granted \cup {w}
    /\ UNCHANGED <<validated, accepted>>

Accept(w) ==
    /\ w \in validated \cap granted
    /\ validated' = validated \ {w}
    /\ granted' = granted \ {w}
    /\ accepted' = accepted \cup {w}

\* A human refuses the work, or the answer is lost.
Dismiss(w) ==
    /\ validated' = validated \ {w}
    /\ accepted' \in {accepted, accepted \ {w}}
    /\ UNCHANGED granted

\* The approval is not what decides.
Waste(w) ==
    /\ granted' = granted \ {w}
    /\ validated' \in {validated, validated \ {w}}
    /\ UNCHANGED accepted

Withdraw(w) ==
    /\ accepted' = accepted \ {w}
    /\ UNCHANGED <<validated, granted>>

Next ==
    \E w \in Work :
        \/ Validate(w)
        \/ Approve(w)
        \/ Accept(w)
        \/ Dismiss(w) \/ Waste(w)
        \/ Withdraw(w)

Spec == Init /\ [][Next]_vars
=============================================================================
