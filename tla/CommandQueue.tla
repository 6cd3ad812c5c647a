---------------------------- MODULE CommandQueue ----------------------------
(***************************************************************************)
(* The way of a command from an arm to the Brain.  sendToBrain (mcp/utils) *)
(* tries the API server, then NATS, then the API again, then a file; the   *)
(* API validates and publishes to the JetStream stream coleo-commands; the *)
(* projector in the API server copies the stream to the table messages;    *)
(* Brain processes list that table, lease a row, handle it and report its  *)
(* status, all over HTTP requests that may be lost before or after they    *)
(* took effect.  Dead letters are rows of their own that an operator may   *)
(* requeue, and a retention job deletes what is old and finished.          *)
(*                                                                         *)
(* bun:sqlite is synchronous, so a route that does not await is one step.  *)
(* The list of a worker is a set: created_at, by which it is sorted, is    *)
(* the sender's clock, and no order between two senders follows from it.   *)
(* Rows addressed to an arm have no reader and are left out.               *)
(***************************************************************************)
EXTENDS Naturals, FiniteSets

CONSTANTS
    Commands,       \* the ids of the envelopes that are sent
    Malformed,      \* those that validateCommandEnvelope refuses
    Requeues,       \* bound: the ids of requeued dead letters
    Workers,        \* the Brain processes
    Nobody,         \* no row, no command
    Mode,           \* COLEO_MCP_COMMAND_PUBLISH_MODE
    LoseRequests,   \* whether a request or its answer may be lost
    DatabaseFails,  \* whether a write of the projector may throw
    ProjectorFails, \* whether the projector's loop may end by an error
    Retention       \* whether rows and stream entries get 7 days old

ASSUME CommandAssumption ==
    /\ Malformed \subseteq Commands
    /\ Commands \cap Requeues = {}
    /\ Nobody \notin Commands \cup Requeues
ASSUME ModeAssumption == Mode \in {"api", "nats", "auto"}
ASSUME SwitchAssumption ==
    {LoseRequests, DatabaseFails, ProjectorFails, Retention} \subseteq BOOLEAN

VARIABLES
    sender,     \* how far sendToBrain got with each command
    stored,     \* history: the commands the stream has ever stored
    window,     \* the commands whose id the stream still deduplicates
    copies,     \* the entries of the stream the projector has not acknowledged
    projector,  \* whether the projector's loop runs
    inbox,      \* status of the rows of table messages with to_id = brain
    dead,       \* the commands with a row with to_id = brain.deadletter
    source,     \* the command each requeued row was made from
    old,        \* the rows and stream entries older than 7 days
    listed,     \* the rows a worker has listed and not got to
    holding,    \* the row a worker is handling
    current     \* the workers that took their lease less than 5 minutes ago

streamVars == <<stored, window, copies>>
workerVars == <<listed, holding, current>>
vars == <<sender, streamVars, projector, inbox, dead, source, old, workerVars>>

Ids == Commands \cup Requeues
Attempts == {"publish", "direct", "queue"}
Finished == {"completed", "failed"}
Leasable == {"pending", "stale"}  \* stale: processing for over 5 minutes
Statuses == {"absent", "processing", "purged"} \cup Leasable \cup Finished

TypeOK ==
    /\ sender \in [Commands -> {"unsent", "sent", "file"} \cup Attempts]
    /\ stored \subseteq Commands
    /\ window \subseteq Commands
    /\ copies \in [Commands -> Nat]
    /\ projector \in {"running", "stopped"}
    /\ inbox \in [Ids -> Statuses]
    /\ dead \subseteq Commands
    /\ source \in [Requeues -> Commands \cup {Nobody}]
    /\ old \subseteq Ids
    /\ listed \in [Workers -> SUBSET Ids]
    /\ holding \in [Workers -> Ids \cup {Nobody}]
    /\ current \subseteq Workers

Init ==
    /\ sender = [c \in Commands |-> "unsent"]
    /\ stored = {} /\ window = {} /\ copies = [c \in Commands |-> 0]
    /\ projector = "running"
    /\ inbox = [i \in Ids |-> "absent"]
    /\ dead = {} /\ source = [r \in Requeues |-> Nobody] /\ old = {}
    /\ listed = [w \in Workers |-> {}]
    /\ holding = [w \in Workers |-> Nobody]
    /\ current = {}

-----------------------------------------------------------------------------
(* The sender: sendToBrain, and the routes it calls *)

FirstAttempt == IF Mode = "nats" THEN "direct" ELSE "publish"
NextAttempt(attempt) ==
    CASE attempt = "publish" /\ Mode = "auto" -> "direct"
      [] attempt = "queue"                    -> "file"
      [] OTHER                                -> "queue"

Sends(c, state) == sender' = [sender EXCEPT ![c] = state]
GivesUp(c) == Sends(c, NextAttempt(sender[c]))

Send(c) ==
    /\ sender[c] = "unsent"
    /\ Sends(c, FirstAttempt)
    /\ UNCHANGED <<streamVars, projector, inbox, dead, source, old, workerVars>>

\* An attempt fails before it reaches the API, or the API before the stream.
Unreached(c) ==
    /\ LoseRequests
    /\ sender[c] \in Attempts
    /\ GivesUp(c)
    /\ UNCHANGED <<streamVars, projector, inbox, dead, source, old, workerVars>>

\* ingestCommand: a malformed envelope becomes a dead letter and is answered
\* 400, after which the sender tries its next path all the same.
Refused(c) ==
    /\ sender[c] \in {"publish", "queue"} /\ c \in Malformed
    /\ GivesUp(c)
    /\ dead' = dead \cup {c}
    /\ UNCHANGED <<streamVars, projector, inbox, source, old, workerVars>>

\* The envelope's id is the message id of the stream, which drops a second
\* publication of it for two minutes.  The direct path does not validate.
Publish(c, answered) ==
    /\ sender[c] \in Attempts
    /\ sender[c] = "direct" \/ c \notin Malformed
    /\ \/ answered /\ Sends(c, "sent")
       \/ ~answered /\ LoseRequests /\ GivesUp(c)
    /\ stored' = stored \cup {c}
    /\ window' = window \cup {c}
    /\ copies' = [copies EXCEPT ![c] = IF c \in window THEN @ ELSE @ + 1]
    /\ UNCHANGED <<projector, inbox, dead, source, old, workerVars>>

CloseWindow(c) ==
    /\ c \in window
    /\ window' = window \ {c}
    /\ UNCHANGED <<sender, stored, copies, projector, inbox, dead, source, old,
                   workerVars>>

-----------------------------------------------------------------------------
(* The projector: startBrainMessageBridge *)

\* An acknowledgement that is lost, or that a crash of the API server comes
\* before, leaves the entry to be delivered again.
Acknowledge(c, arrives) ==
    copies' = [copies EXCEPT ![c] = IF arrives THEN @ - 1 ELSE @]

UpsertReplacing(i) == inbox' = [inbox EXCEPT ![i] = "pending"]

\* INSERT OR IGNORE
Upsert(i) ==
    inbox' = [inbox EXCEPT ![i] = IF @ \in {"absent", "purged"} THEN "pending" ELSE @]

DeliveredAcked(c) ==
    /\ projector = "running" /\ c \in stored
    /\ UNCHANGED <<sender, stored, window, projector, source, old, workerVars>>

Delivered(c) ==
    /\ projector = "running" /\ copies[c] > 0
    /\ UNCHANGED <<sender, stored, window, projector, source, old, workerVars>>

ProjectUnchecked(c, acked) ==
    /\ Delivered(c)
    /\ Upsert(c)
    /\ Acknowledge(c, acked)
    /\ UNCHANGED dead

Project(c, acked) ==
    /\ Delivered(c)
    /\ IF c \in Malformed THEN dead' = dead \cup {c} /\ UNCHANGED inbox
                          ELSE Upsert(c) /\ UNCHANGED dead
    /\ Acknowledge(c, acked)

ProjectFailingDropped(c, acked) ==
    /\ DatabaseFails
    /\ Delivered(c)
    /\ Acknowledge(c, acked)
    /\ UNCHANGED <<inbox, dead>>

\* The insertion throws: the command becomes a dead letter whatever it is.
ProjectFailing(c, acked) ==
    /\ DatabaseFails
    /\ Delivered(c)
    /\ dead' = dead \cup {c}
    /\ Acknowledge(c, acked)
    /\ UNCHANGED inbox

\* The fetch throws, or the insertion and then the dead letter's: nothing is
\* acknowledged, the loop ends, and only a new API server starts another.
ProjectorStop ==
    /\ ProjectorFails
    /\ projector = "running" /\ projector' = "stopped"
    /\ UNCHANGED <<sender, streamVars, inbox, dead, source, old, workerVars>>

RestartApi ==
    /\ projector = "stopped" /\ projector' = "running"
    /\ UNCHANGED <<sender, streamVars, inbox, dead, source, old, workerVars>>

-----------------------------------------------------------------------------
(* The Brain: processArmQueue, and the routes under /internal/messages *)

WorkerFrame == UNCHANGED <<sender, streamVars, projector, dead, source, old>>

Idle(w) == holding[w] = Nobody /\ listed[w] = {}
Unlist(w, i) == listed' = [listed EXCEPT ![w] = @ \ {i}]
PendingOnly == {i \in Ids : inbox[i] = "pending"}
Pending == {i \in Ids : inbox[i] \in Leasable}

\* A request that fails is answered null, which lists nothing.
List(w) ==
    /\ Idle(w) /\ Pending # {}
    /\ listed' = [listed EXCEPT ![w] = Pending]
    /\ UNCHANGED <<inbox, holding, current>>
    /\ WorkerFrame

LeaseRow(i) == inbox' = [inbox EXCEPT ![i] = "processing"]
MayLeaseHeld(i) == inbox[i] \in Leasable \cup {"processing"}
MayLease(i) == inbox[i] \in Leasable

Lease(w, i) ==
    /\ holding[w] = Nobody /\ i \in listed[w] /\ MayLease(i)
    /\ LeaseRow(i)
    /\ Unlist(w, i)
    /\ holding' = [holding EXCEPT ![w] = i]
    /\ current' = current \cup {w}
    /\ WorkerFrame

\* Another worker was faster, or the row is finished or gone since.
LeaseRefused(w, i) ==
    /\ holding[w] = Nobody /\ i \in listed[w] /\ ~MayLease(i)
    /\ Unlist(w, i)
    /\ UNCHANGED <<inbox, holding, current>>
    /\ WorkerFrame

\* No answer within two seconds counts as a refusal, also if the row was leased.
LeaseUnanswered(w, i) ==
    /\ LoseRequests
    /\ holding[w] = Nobody /\ i \in listed[w]
    /\ (MayLease(i) /\ LeaseRow(i)) \/ UNCHANGED inbox
    /\ Unlist(w, i)
    /\ UNCHANGED <<holding, current>>
    /\ WorkerFrame

ExpireLease(i) ==
    /\ inbox[i] = "processing"
    /\ inbox' = [inbox EXCEPT ![i] = "stale"]
    /\ current' = {w \in current : holding[w] # i}
    /\ UNCHANGED <<listed, holding>>
    /\ WorkerFrame

\* The handler returns or throws, and the worker reports completed or failed;
\* the route updates the row by its id, whoever holds the lease by now.
SetStatus(i, ok) ==
    inbox' = [inbox EXCEPT ![i] = IF @ \in {"absent", "purged"} THEN @
                                  ELSE IF ok THEN "completed" ELSE "failed"]

Release(w) ==
    /\ holding[w] # Nobody
    /\ holding' = [holding EXCEPT ![w] = Nobody]
    /\ current' = current \ {w}
    /\ UNCHANGED listed
    /\ WorkerFrame

Finish(w, ok) ==
    /\ Release(w)
    /\ SetStatus(holding[w], ok)

\* The report is lost; nobody looks at its answer.
FinishUnreported(w) ==
    /\ LoseRequests
    /\ Release(w)
    /\ UNCHANGED inbox

Crash(w) ==
    /\ ~Idle(w)
    /\ holding' = [holding EXCEPT ![w] = Nobody]
    /\ listed' = [listed EXCEPT ![w] = {}]
    /\ current' = current \ {w}
    /\ UNCHANGED inbox
    /\ WorkerFrame

-----------------------------------------------------------------------------
(* Operators and time *)

\* The requeued row gets a fresh id; the dead letter stays where it is.
Requeue(c, r) ==
    /\ c \in dead \ Malformed
    /\ inbox[r] = "absent"
    /\ inbox' = [inbox EXCEPT ![r] = "pending"]
    /\ source' = [source EXCEPT ![r] = c]
    /\ UNCHANGED <<sender, streamVars, projector, dead, old, workerVars>>

\* The limits of the stream drop the entry at the age at which retention may
\* delete the row.
Age(i) ==
    /\ Retention
    /\ i \notin old
    /\ IF i \in Commands THEN sender[i] \in {"sent", "file"} /\ i \notin window
                          ELSE inbox[i] # "absent"
    /\ old' = old \cup {i}
    /\ copies' = [c \in Commands |-> IF c = i THEN 0 ELSE copies[c]]
    /\ UNCHANGED <<sender, stored, window, projector, inbox, dead, source,
                   workerVars>>

\* After a poll, once an hour: rows of either kind go when they are finished and
\* old.  A dead letter is younger than its command, by any amount.
Cleanup(w) ==
    /\ Idle(w)
    /\ inbox' = [i \in Ids |-> IF i \in old /\ inbox[i] \in Finished
                               THEN "purged" ELSE inbox[i]]
    /\ \E gone \in SUBSET (dead \cap old) : dead' = dead \ gone
    /\ UNCHANGED <<sender, streamVars, projector, source, old, workerVars>>

-----------------------------------------------------------------------------
SenderStep(c) ==
    \/ Send(c) \/ Unreached(c) \/ Refused(c) \/ CloseWindow(c)
    \/ \E answered \in BOOLEAN : Publish(c, answered)

ProjectorStep(c) ==
    \E acked \in BOOLEAN : Project(c, acked) \/ ProjectFailing(c, acked)

Settles(w) == \E ok \in BOOLEAN : Finish(w, ok)

WorkerStep(w) ==
    \/ List(w) \/ Settles(w) \/ FinishUnreported(w) \/ Crash(w) \/ Cleanup(w)
    \/ \E i \in Ids : Lease(w, i) \/ LeaseRefused(w, i) \/ LeaseUnanswered(w, i)

Next ==
    \/ \E c \in Commands : SenderStep(c) \/ ProjectorStep(c)
    \/ ProjectorStop \/ RestartApi
    \/ \E w \in Workers : WorkerStep(w)
    \/ \E i \in Ids : ExpireLease(i) \/ Age(i)
    \/ \E c \in Commands, r \in Requeues : Requeue(c, r)

Spec == Init /\ [][Next]_vars

\* The stream delivers until acknowledged; leases expire by the clock; some
\* Brain keeps polling; a request, and a handler, that is tried over and over
\* succeeds some time.  Neither a sender, an operator nor a restart is fair.
Fairness ==
    /\ \A c \in Commands : SF_vars(ProjectorStep(c))
    /\ \A i \in Ids : WF_vars(ExpireLease(i))
    /\ WF_vars(\E w \in Workers : List(w))
    /\ \A w \in Workers : WF_vars(\E i \in Ids : LeaseRefused(w, i) \/ LeaseUnanswered(w, i))
    /\ \A i \in Ids : SF_vars(\E w \in Workers : Lease(w, i))
    /\ \A i \in Ids : SF_vars(\E w \in Workers : holding[w] = i /\ Settles(w))

FairSpec == Spec /\ Fairness

-----------------------------------------------------------------------------
(* Properties *)

\* A command that the stream stored, or that its sender was told is accepted, is
\* somewhere until it is 7 days old: still to be delivered, a row of the inbox,
\* or a dead letter.  The projector acknowledges only after one of its two
\* insertions, and no insertion overwrites a row.
NothingLost ==
    \A c \in stored \cup {d \in Commands : sender[d] = "sent"} :
        copies[c] > 0 \/ inbox[c] # "absent" \/ c \in dead \cup old

\* "Only allowlisted brain message types are accepted for to=brain": whichever
\* path it takes, a malformed command never becomes a row that a Brain handles.
Origin(i) == IF i \in Requeues THEN source[i] ELSE i
OnlyAdmissible == \A i \in Ids : inbox[i] # "absent" => Origin(i) \notin Malformed

\* Of the workers that handle the same row at the same time, all but one took
\* their lease over 5 minutes ago: acquireMessageLease gives a lease to one.
LeaseExclusive ==
    \A v, w \in current : v # w => holding[v] # holding[w]

\* A row that is completed or failed is never leased again, neither by a worker
\* with an old list nor because the stream delivers its command once more.
Settled(i) == inbox[i] \in Finished \cup {"purged"}
FinishedStaysFinished ==
    [][\A i \in Ids : Settled(i) => Settled(i)']_vars

\* The inbox keeps the promise of AtLeastOnce.  A command counts as settled
\* when its row is finished or it has become a dead letter.
Promise == INSTANCE AtLeastOnce WITH
    stored <- stored \cup dead,
    settled <- {c \in Commands : c \in dead \/ Settled(c)}
KeepsPromise == Promise!Spec
=============================================================================
