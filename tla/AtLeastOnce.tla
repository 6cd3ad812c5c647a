----------------------------- MODULE AtLeastOnce -----------------------------
(***************************************************************************)
(* What the Brain's inbox promises to those who send commands to it: a     *)
(* command that entered the command stream is settled, that is handled,    *)
(* failed with its error on record, or kept as a dead letter; a settled    *)
(* command stays settled.  How often a command is handled is not promised. *)
(***************************************************************************)
CONSTANT Commands

VARIABLES
    stored,  \* the commands the system has taken responsibility for
    settled  \* those whose fate is on record

avars == <<stored, settled>>

TypeInvariant == stored \subseteq Commands /\ settled \subseteq stored

Init == stored = {} /\ settled = {}

Store(c) ==
    /\ c \notin stored
    /\ stored' = stored \cup {c}
    /\ UNCHANGED settled

Settle(c) ==
    /\ c \in stored \ settled
    /\ settled' = settled \cup {c}
    /\ UNCHANGED stored

\* A malformed command is refused and kept as a dead letter at once.
Refuse(c) ==
    /\ c \notin stored
    /\ stored' = stored \cup {c}
    /\ settled' = settled \cup {c}

Next == \E c \in Commands : Store(c) \/ Settle(c) \/ Refuse(c)

Spec == Init /\ [][Next]_avars /\ \A c \in Commands : WF_avars(Settle(c))
==============================================================================
