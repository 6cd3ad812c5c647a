---------------------------- MODULE ReviewLeases ----------------------------
(***************************************************************************)
(* What the review leases of blocked tasks promise                         *)
(* (docs/guides/task-workflow.md): "each available arm receives at most    *)
(* one review assignment", and an abandoned review becomes eligible again  *)
(* because its lease ends.  A lease is never taken over: it ends first,    *)
(* and the task is then leased again, to that arm or to another.           *)
(***************************************************************************)
CONSTANTS Tasks, Arms, NoArm

VARIABLE reviewer   \* the arm that holds the lease of each task, or NoArm

vars == <<reviewer>>

Init == reviewer = [t \in Tasks |-> NoArm]

Grant(t, arm) ==
    /\ reviewer[t] = NoArm
    /\ \A u \in Tasks : reviewer[u] # arm
    /\ reviewer' = [reviewer EXCEPT ![t] = arm]

End(ended) ==
    reviewer' = [t \in Tasks |-> IF t \in ended THEN NoArm ELSE reviewer[t]]

Next ==
    \/ \E t \in Tasks, arm \in Arms : Grant(t, arm)
    \/ \E ended \in SUBSET Tasks : End(ended)

Spec == Init /\ [][Next]_vars
=============================================================================
