----------------------------- MODULE AtMostOnce -----------------------------
(***************************************************************************)
(* What the ledger of the swarm evaluator promises (brain/swarm/README):   *)
(* "conservative at-most-once dispatch for a reserved operation, not a     *)
(* claim of exactly-once effects".  An operation is reserved before        *)
(* anything is done about it, and is done once or never.                   *)
(***************************************************************************)
EXTENDS Naturals

CONSTANT Operations

VARIABLES
    reserved,  \* the operations somebody was allowed to execute
    times      \* how often each was executed

vars == <<reserved, times>>

Init == reserved = {} /\ times = [o \in Operations |-> 0]

Reserve(o) ==
    /\ o \notin reserved
    /\ reserved' = reserved \cup {o}
    /\ UNCHANGED times

Execute(o) ==
    /\ o \in reserved
    /\ times[o] = 0
    /\ times' = [times EXCEPT ![o] = 1]
    /\ UNCHANGED reserved

Next == \E o \in Operations : Reserve(o) \/ Execute(o)

Spec == Init /\ [][Next]_vars
=============================================================================
