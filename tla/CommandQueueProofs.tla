-------------------------- MODULE CommandQueueProofs --------------------------
(***************************************************************************)
(* What TLAPS proves of CommandQueue for any commands, workers and         *)
(* requeued rows, every publish mode, and every combination of faults.     *)
(***************************************************************************)
EXTENDS CommandQueue, TLAPS

-----------------------------------------------------------------------------
(* Type correctness *)

LEMMA SenderTypes ==
    ASSUME TypeOK, NEW c \in Commands, SenderStep(c)
    PROVE  TypeOK'
  <1>1. NextAttempt(sender[c]) \in Attempts \cup {"file"}
    BY DEF NextAttempt, Attempts
  <1>2. CASE Send(c)
    BY <1>2 DEF Send, Sends, FirstAttempt, TypeOK, streamVars, workerVars, Attempts
  <1>3. CASE Unreached(c)
    BY <1>1, <1>3 DEF Unreached, GivesUp, Sends, TypeOK, streamVars, workerVars
  <1>4. CASE Refused(c)
    BY <1>1, <1>4 DEF Refused, GivesUp, Sends, TypeOK, streamVars, workerVars
  <1>5. CASE CloseWindow(c)
    BY <1>5 DEF CloseWindow, TypeOK, workerVars
  <1>6. ASSUME NEW answered \in BOOLEAN, Publish(c, answered)
        PROVE  TypeOK'
    <2>1. sender' \in [Commands -> {"unsent", "sent", "file"} \cup Attempts]
      BY <1>1, <1>6 DEF Publish, GivesUp, Sends, TypeOK
    <2>2. copies' \in [Commands -> Nat]
      BY <1>6 DEF Publish, TypeOK
    <2> QED
      BY <1>6, <2>1, <2>2 DEF Publish, TypeOK, workerVars
  <1> QED
    BY <1>2, <1>3, <1>4, <1>5, <1>6 DEF SenderStep

LEMMA ProjectorTypes ==
    ASSUME TypeOK, NEW c \in Commands, ProjectorStep(c)
    PROVE  TypeOK'
  <1>1. c \in Ids
    BY DEF Ids
  <1>2. ASSUME NEW acked \in BOOLEAN, Delivered(c), Acknowledge(c, acked)
        PROVE  copies' \in [Commands -> Nat]
    BY <1>2 DEF Delivered, Acknowledge, TypeOK
  <1>3. ASSUME NEW acked \in BOOLEAN, Project(c, acked)
        PROVE  TypeOK'
    <2>1. inbox' \in [Ids -> Statuses]
      BY <1>1, <1>3 DEF Project, Upsert, TypeOK, Statuses, Leasable
    <2> QED
      BY <1>2, <1>3, <2>1 DEF Project, Delivered, TypeOK, workerVars
  <1>4. ASSUME NEW acked \in BOOLEAN, ProjectFailing(c, acked)
        PROVE  TypeOK'
    BY <1>2, <1>4 DEF ProjectFailing, Delivered, TypeOK, workerVars
  <1> QED
    BY <1>3, <1>4 DEF ProjectorStep

LEMMA WorkerTypes ==
    ASSUME TypeOK, NEW w \in Workers, WorkerStep(w)
    PROVE  TypeOK'
  <1> USE DEF TypeOK, WorkerFrame, streamVars
  <1>1. CASE List(w)
    BY <1>1 DEF List, Pending
  <1>2. ASSUME NEW ok \in BOOLEAN, Finish(w, ok)
        PROVE  TypeOK'
    <2>1. inbox' \in [Ids -> Statuses]
      BY <1>2 DEF Finish, SetStatus, Statuses, Finished
    <2> QED
      BY <1>2, <2>1 DEF Finish, Release
  <1>3. CASE Crash(w)
    BY <1>3 DEF Crash
  <1>4. CASE Cleanup(w)
    <2>1. inbox' \in [Ids -> Statuses]
      BY <1>4 DEF Cleanup, Statuses
    <2> QED
      BY <1>4, <2>1 DEF Cleanup, workerVars
  <1>5. CASE FinishUnreported(w)
    BY <1>5 DEF FinishUnreported, Release
  <1>6. ASSUME NEW i \in Ids, Lease(w, i) \/ LeaseRefused(w, i) \/ LeaseUnanswered(w, i)
        PROVE  TypeOK'
    <2>1. inbox' \in [Ids -> Statuses]
      BY <1>6 DEF Lease, LeaseRefused, LeaseUnanswered, LeaseRow, Statuses
    <2>2. listed' \in [Workers -> SUBSET Ids]
      BY <1>6 DEF Lease, LeaseRefused, LeaseUnanswered, Unlist
    <2> QED
      BY <1>6, <2>1, <2>2 DEF Lease, LeaseRefused, LeaseUnanswered
  <1> QED
    BY <1>1, <1>2, <1>3, <1>4, <1>5, <1>6 DEF WorkerStep, Settles

LEMMA TypeStep ==
    ASSUME TypeOK, [Next]_vars
    PROVE  TypeOK'
  <1>1. ASSUME NEW i \in Ids, ExpireLease(i)
        PROVE  TypeOK'
    BY <1>1 DEF ExpireLease, TypeOK, WorkerFrame, streamVars, Statuses, Leasable
  <1>2. ASSUME NEW i \in Ids, Age(i)
        PROVE  TypeOK'
    <2>1. copies' \in [Commands -> Nat]
      BY <1>2 DEF Age, TypeOK
    <2> QED
      BY <1>2, <2>1 DEF Age, TypeOK, workerVars
  <1>3. ASSUME NEW c \in Commands, NEW r \in Requeues, Requeue(c, r)
        PROVE  TypeOK'
    <2>1. r \in Ids
      BY DEF Ids
    <2> QED
      BY <1>3, <2>1 DEF Requeue, TypeOK, streamVars, workerVars, Statuses, Leasable
  <1>4. CASE ProjectorStop
    BY <1>4 DEF ProjectorStop, TypeOK, streamVars, workerVars
  <1>5. CASE RestartApi
    BY <1>5 DEF RestartApi, TypeOK, streamVars, workerVars
  <1>6. CASE UNCHANGED vars
    BY <1>6 DEF vars, TypeOK, streamVars, workerVars
  <1> QED
    BY <1>1, <1>2, <1>3, <1>4, <1>5, <1>6, SenderTypes, ProjectorTypes, WorkerTypes DEF Next

\* Every reachable state has its type: no acknowledgement is counted twice, and
\* every status a route writes is one the queries know.
THEOREM TypeCorrect == Spec => []TypeOK
  <1>1. Init => TypeOK
    BY DEF Init, TypeOK, Statuses
  <1>2. TypeOK /\ [Next]_vars => TypeOK'
    BY TypeStep
  <1> QED
    BY <1>1, <1>2, PTL DEF Spec

-----------------------------------------------------------------------------
(* No command is lost *)

\* The stream deduplicates only ids it has stored, and a sender is told that a
\* command is accepted only when it is: so dropping a duplicate loses nothing.
Known ==
    /\ window \subseteq stored
    /\ \A c \in Commands : sender[c] = "sent" => c \in stored

KeptInv == TypeOK /\ Known /\ NothingLost

LEMMA KeptBySender ==
    ASSUME KeptInv, NEW c \in Commands, SenderStep(c)
    PROVE  (Known /\ NothingLost)'
  <1> USE DEF KeptInv, TypeOK, Known, NothingLost
  <1>1. NextAttempt(sender[c]) # "sent" /\ FirstAttempt # "sent"
    BY DEF NextAttempt, FirstAttempt
  <1>2. CASE Send(c)
    BY <1>1, <1>2 DEF Send, Sends, streamVars
  <1>3. CASE Unreached(c)
    BY <1>1, <1>3 DEF Unreached, GivesUp, Sends, streamVars
  <1>4. CASE Refused(c)
    BY <1>1, <1>4 DEF Refused, GivesUp, Sends, streamVars
  <1>5. CASE CloseWindow(c)
    BY <1>5 DEF CloseWindow
  <1>6. ASSUME NEW answered \in BOOLEAN, Publish(c, answered)
        PROVE  (Known /\ NothingLost)'
    <2>1. \A d \in Commands \ {c} : sender'[d] = sender[d] /\ copies'[d] = copies[d]
      BY <1>6 DEF Publish, Sends, GivesUp
    <2>2. copies'[c] > 0 \/ inbox'[c] # "absent" \/ c \in (dead \cup old)'
      <3>1. CASE c \in window
        BY <1>6, <3>1 DEF Publish
      <3>2. CASE c \notin window
        BY <1>6, <3>2 DEF Publish
      <3> QED
        BY <3>1, <3>2
    <2> QED
      BY <1>6, <2>1, <2>2 DEF Publish
  <1> QED
    BY <1>2, <1>3, <1>4, <1>5, <1>6 DEF SenderStep

LEMMA KeptByProjector ==
    ASSUME KeptInv, NEW c \in Commands, ProjectorStep(c)
    PROVE  (Known /\ NothingLost)'
  <1> USE DEF KeptInv, TypeOK, Known, NothingLost
  <1>1. \A i \in Ids : inbox[i] # "absent" => inbox'[i] # "absent"
    BY DEF ProjectorStep, Project, ProjectFailing, Upsert
  <1>2. inbox'[c] # "absent" \/ c \in dead'
    BY DEF ProjectorStep, Project, ProjectFailing, Upsert, Ids
  <1>3. /\ dead \subseteq dead' /\ old' = old
        /\ UNCHANGED <<sender, stored, window>>
        /\ \A d \in Commands \ {c} : copies'[d] = copies[d]
    BY DEF ProjectorStep, Project, ProjectFailing, Delivered, Acknowledge
  <1> QED
    BY <1>1, <1>2, <1>3 DEF Ids

LEMMA KeptByWorker ==
    ASSUME KeptInv, NEW w \in Workers, WorkerStep(w)
    PROVE  (Known /\ NothingLost)'
  <1> USE DEF KeptInv, TypeOK, Known, NothingLost
  <1>1. \A i \in Ids : inbox[i] # "absent" => inbox'[i] # "absent"
    BY DEF WorkerStep, List, Settles, Finish, SetStatus, FinishUnreported, Crash, Cleanup,
           Lease, LeaseRow, LeaseRefused, LeaseUnanswered
  <1>2. UNCHANGED <<sender, stored, window, copies, old>> /\ dead \cup old \subseteq (dead \cup old)'
    BY DEF WorkerStep, List, Settles, Finish, FinishUnreported, Release, Crash, Cleanup,
           Lease, LeaseRefused, LeaseUnanswered, WorkerFrame, streamVars
  <1> QED
    BY <1>1, <1>2 DEF Ids

LEMMA KeptStep ==
    ASSUME KeptInv, [Next]_vars
    PROVE  KeptInv'
  <1> USE DEF KeptInv, TypeOK, Known, NothingLost
  <1>1. ASSUME NEW i \in Ids, ExpireLease(i)
        PROVE  (Known /\ NothingLost)'
    BY <1>1 DEF ExpireLease, WorkerFrame, streamVars, Ids
  <1>2. ASSUME NEW i \in Ids, Age(i)
        PROVE  (Known /\ NothingLost)'
    BY <1>2 DEF Age, Ids
  <1>3. ASSUME NEW c \in Commands, NEW r \in Requeues, Requeue(c, r)
        PROVE  (Known /\ NothingLost)'
    BY <1>3 DEF Requeue, streamVars, Ids
  <1>4. ASSUME ProjectorStop \/ RestartApi
        PROVE  (Known /\ NothingLost)'
    BY <1>4 DEF ProjectorStop, RestartApi, streamVars
  <1>5. ASSUME UNCHANGED vars
        PROVE  (Known /\ NothingLost)'
    BY <1>5 DEF vars, streamVars
  <1>6. (Known /\ NothingLost)'
    BY <1>1, <1>2, <1>3, <1>4, <1>5, KeptBySender, KeptByProjector, KeptByWorker DEF Next
  <1>7. TypeOK'
    BY TypeStep
  <1> QED
    BY <1>6, <1>7

\* A command the stream stored stays to be delivered, a row or a dead letter
\* until it is 7 days old, whatever is lost, repeated or restarted.
THEOREM NoCommandLost == Spec => []NothingLost
  <1>1. Init => KeptInv
    BY DEF Init, KeptInv, TypeOK, Known, NothingLost, Statuses
  <1>2. KeptInv /\ [Next]_vars => KeptInv'
    BY KeptStep
  <1>3. KeptInv => NothingLost
    BY DEF KeptInv
  <1> QED
    BY <1>1, <1>2, <1>3, PTL DEF Spec

-----------------------------------------------------------------------------
(* Leases, and rows that are finished *)

\* A purged row is old, and what is old is neither in the stream nor about to be
\* published again: no delivery can bring a purged row back.
Aged ==
    /\ \A i \in Ids : inbox[i] = "purged" => i \in old
    /\ \A c \in Commands \cap old : copies[c] = 0 /\ sender[c] \in {"sent", "file"}

\* A worker with a current lease handles a row that nobody else may lease.
Leased ==
    \A w \in current :
        holding[w] \in Ids /\ inbox[holding[w]] \notin {"absent", "pending", "stale"}

LeaseInv == TypeOK /\ Aged /\ Leased /\ LeaseExclusive

LEMMA AgedStep ==
    ASSUME TypeOK, Aged, [Next]_vars
    PROVE  Aged'
  <1> USE DEF TypeOK, Aged
  <1>1. ASSUME NEW c \in Commands, SenderStep(c)
        PROVE  Aged'
    <2>1. \A d \in Commands \cap old : sender'[d] = sender[d] /\ copies'[d] = copies[d]
      BY <1>1 DEF SenderStep, Send, Unreached, Refused, CloseWindow, Publish, GivesUp, Sends,
                  streamVars, Attempts
    <2> QED
      BY <1>1, <2>1 DEF SenderStep, Send, Unreached, Refused, CloseWindow, Publish
  <1>2. ASSUME NEW c \in Commands, ProjectorStep(c)
        PROVE  Aged'
    <2>1. c \notin old /\ old' = old /\ sender' = sender
      BY <1>2 DEF ProjectorStep, Project, ProjectFailing, Delivered
    <2>2. \A d \in Commands \ {c} : copies'[d] = copies[d]
      BY <1>2 DEF ProjectorStep, Project, ProjectFailing, Acknowledge
    <2>3. \A i \in Ids : inbox'[i] = "purged" => inbox[i] = "purged"
      BY <1>2 DEF ProjectorStep, Project, ProjectFailing, Upsert
    <2> QED
      BY <2>1, <2>2, <2>3
  <1>3. ASSUME NEW w \in Workers, WorkerStep(w)
        PROVE  Aged'
    <2>1. UNCHANGED <<sender, copies, old>>
      BY <1>3 DEF WorkerStep, List, Settles, Finish, FinishUnreported, Release, Crash, Cleanup,
                  Lease, LeaseRefused, LeaseUnanswered, WorkerFrame, streamVars
    <2>2. \A i \in Ids : inbox'[i] = "purged" => inbox[i] = "purged" \/ i \in old
      BY <1>3 DEF WorkerStep, List, Settles, Finish, SetStatus, FinishUnreported, Crash,
                  Cleanup, Lease, LeaseRow, LeaseRefused, LeaseUnanswered
    <2> QED
      BY <2>1, <2>2
  <1>4. ASSUME NEW i \in Ids, ExpireLease(i)
        PROVE  Aged'
    BY <1>4 DEF ExpireLease, WorkerFrame, streamVars
  <1>5. ASSUME NEW i \in Ids, Age(i)
        PROVE  Aged'
    BY <1>5 DEF Age
  <1>6. ASSUME NEW c \in Commands, NEW r \in Requeues, Requeue(c, r)
        PROVE  Aged'
    BY <1>6 DEF Requeue, streamVars
  <1>7. CASE ProjectorStop \/ RestartApi \/ UNCHANGED vars
    BY <1>7 DEF ProjectorStop, RestartApi, vars, streamVars
  <1> QED
    BY <1>1, <1>2, <1>3, <1>4, <1>5, <1>6, <1>7 DEF Next

\* Workers that handle nothing hold Nobody, which is not a row.
LEMMA NobodyIsNoRow == Nobody \notin Ids
  BY CommandAssumption DEF Ids

LEMMA LeasedStep ==
    ASSUME LeaseInv, [Next]_vars
    PROVE  (Leased /\ LeaseExclusive)'
  <1> USE DEF LeaseInv, TypeOK, Leased, LeaseExclusive
  <1>1. ASSUME NEW c \in Commands, SenderStep(c)
        PROVE  (Leased /\ LeaseExclusive)'
    BY <1>1 DEF SenderStep, Send, Unreached, Refused, CloseWindow, Publish, workerVars
  <1>2. ASSUME NEW c \in Commands, ProjectorStep(c)
        PROVE  (Leased /\ LeaseExclusive)'
    <2>1. inbox[c] # "purged"
      BY <1>2 DEF ProjectorStep, Project, ProjectFailing, Delivered, Aged, Ids
    <2>2. \A i \in Ids : inbox[i] # "absent" => inbox'[i] = inbox[i]
      BY <1>2, <2>1 DEF ProjectorStep, Project, ProjectFailing, Upsert
    <2> QED
      BY <1>2, <2>2 DEF ProjectorStep, Project, ProjectFailing, Delivered, workerVars
  <1>3. ASSUME NEW w \in Workers, List(w) \/ Crash(w)
        PROVE  (Leased /\ LeaseExclusive)'
    BY <1>3 DEF List, Crash
  <1>4. ASSUME NEW w \in Workers, NEW ok \in BOOLEAN, Release(w),
               SetStatus(holding[w], ok) \/ UNCHANGED inbox
        PROVE  (Leased /\ LeaseExclusive)'
    BY <1>4 DEF Release, SetStatus
  <1>5. ASSUME NEW w \in Workers, Cleanup(w)
        PROVE  (Leased /\ LeaseExclusive)'
    BY <1>5 DEF Cleanup, workerVars
  <1>6. ASSUME NEW w \in Workers, NEW i \in Ids, Lease(w, i)
        PROVE  (Leased /\ LeaseExclusive)'
    <2>1. \A v \in current : holding[v] # i /\ v # w
      BY <1>6, NobodyIsNoRow DEF Lease, MayLease, Leasable
    <2> QED
      BY <1>6, <2>1 DEF Lease, LeaseRow
  <1>7. ASSUME NEW w \in Workers, NEW i \in Ids, LeaseRefused(w, i) \/ LeaseUnanswered(w, i)
        PROVE  (Leased /\ LeaseExclusive)'
    BY <1>7 DEF LeaseRefused, LeaseUnanswered, LeaseRow
  <1>8. ASSUME NEW i \in Ids, ExpireLease(i)
        PROVE  (Leased /\ LeaseExclusive)'
    BY <1>8 DEF ExpireLease
  <1>9. ASSUME NEW i \in Ids, Age(i)
        PROVE  (Leased /\ LeaseExclusive)'
    BY <1>9 DEF Age, workerVars
  <1>10. ASSUME NEW c \in Commands, NEW r \in Requeues, Requeue(c, r)
         PROVE  (Leased /\ LeaseExclusive)'
    BY <1>10 DEF Requeue, workerVars
  <1>11. CASE ProjectorStop \/ RestartApi \/ UNCHANGED vars
    BY <1>11 DEF ProjectorStop, RestartApi, vars, workerVars
  <1> QED
    BY <1>1, <1>2, <1>3, <1>4, <1>5, <1>6, <1>7, <1>8, <1>9, <1>10, <1>11
       DEF Next, WorkerStep, Settles, Finish, FinishUnreported

LEMMA LeaseInvariant == Spec => []LeaseInv
  <1>1. Init => LeaseInv
    BY DEF Init, LeaseInv, TypeOK, Aged, Leased, LeaseExclusive, Statuses
  <1>2. LeaseInv /\ [Next]_vars => LeaseInv'
    BY TypeStep, AgedStep, LeasedStep DEF LeaseInv
  <1> QED
    BY <1>1, <1>2, PTL DEF Spec

\* However many Brains poll the inbox, a row has one holder of a current lease.
THEOREM OneLeaseHolder == Spec => []LeaseExclusive
  <1>1. LeaseInv => LeaseExclusive
    BY DEF LeaseInv
  <1> QED
    BY <1>1, LeaseInvariant, PTL

\* No step takes a finished row back, the redelivery of its command included.
THEOREM FinishedForGood == Spec => FinishedStaysFinished
  <1> DEFINE Kept == \A i \in Ids : Settled(i) => Settled(i)'
  <1>1. ASSUME LeaseInv, [Next]_vars
        PROVE  [Kept]_vars
    <2> USE <1>1 DEF LeaseInv, TypeOK, Settled, Finished
    <2>1. ASSUME NEW c \in Commands, ProjectorStep(c)
          PROVE  Kept
      <3>1. inbox[c] # "purged"
        BY <2>1 DEF ProjectorStep, Project, ProjectFailing, Delivered, Aged, Ids
      <3> QED
        BY <2>1, <3>1 DEF ProjectorStep, Project, ProjectFailing, Upsert
    <2>2. ASSUME NEW w \in Workers, WorkerStep(w)
          PROVE  Kept
      BY <2>2 DEF WorkerStep, List, Settles, Finish, SetStatus, FinishUnreported, Crash,
                  Cleanup, Lease, MayLease, Leasable, LeaseRow, LeaseRefused, LeaseUnanswered
    <2>3. ASSUME NEW i \in Ids, ExpireLease(i)
          PROVE  Kept
      BY <2>3 DEF ExpireLease
    <2>4. ASSUME NEW c \in Commands, NEW r \in Requeues, Requeue(c, r)
          PROVE  Kept
      BY <2>4 DEF Requeue
    <2>5. ASSUME UNCHANGED inbox
          PROVE  Kept
      BY <2>5
    <2> QED
      BY <2>1, <2>2, <2>3, <2>4, <2>5
         DEF Next, SenderStep, Send, Unreached, Refused, CloseWindow, Publish, Age,
             ProjectorStop, RestartApi
  <1>2. LeaseInv /\ [Next]_vars => [Kept]_vars
    BY <1>1
  <1> QED
    BY <1>2, LeaseInvariant, PTL DEF Spec, FinishedStaysFinished

-----------------------------------------------------------------------------
(* Admission *)

LEMMA AdmissionStep ==
    ASSUME TypeOK, OnlyAdmissible, [Next]_vars
    PROVE  OnlyAdmissible'
  <1> USE DEF TypeOK, OnlyAdmissible, Origin
  <1>1. ASSUME NEW c \in Commands, ProjectorStep(c)
        PROVE  OnlyAdmissible'
    <2>1. \A i \in Ids : inbox'[i] # "absent" => inbox[i] # "absent" \/ i \in Commands \ Malformed
      BY <1>1 DEF ProjectorStep, Project, ProjectFailing, Upsert
    <2>2. source' = source
      BY <1>1 DEF ProjectorStep, Project, ProjectFailing, Delivered
    <2> QED
      BY <2>1, <2>2, CommandAssumption DEF Ids
  <1>2. ASSUME NEW w \in Workers, WorkerStep(w)
        PROVE  OnlyAdmissible'
    <2>1. \A i \in Ids : inbox'[i] # "absent" => inbox[i] # "absent"
      <3>1. ASSUME NEW i \in Ids, Lease(w, i) \/ LeaseRefused(w, i) \/ LeaseUnanswered(w, i)
            PROVE  \A j \in Ids : inbox'[j] # "absent" => inbox[j] # "absent"
        BY <3>1 DEF Lease, MayLease, Leasable, LeaseRow, LeaseRefused, LeaseUnanswered
      <3>2. CASE Settles(w)
        BY <3>2 DEF Settles, Finish, SetStatus
      <3>3. CASE Cleanup(w)
        BY <3>3 DEF Cleanup, Finished
      <3> QED
        BY <1>2, <3>1, <3>2, <3>3 DEF WorkerStep, List, FinishUnreported, Crash
    <2>2. source' = source
      BY <1>2 DEF WorkerStep, List, Settles, Finish, FinishUnreported, Release, Crash, Cleanup,
                  Lease, LeaseRefused, LeaseUnanswered, WorkerFrame
    <2> QED
      BY <2>1, <2>2
  <1>3. ASSUME NEW i \in Ids, ExpireLease(i)
        PROVE  OnlyAdmissible'
    BY <1>3 DEF ExpireLease, WorkerFrame
  <1>4. ASSUME NEW c \in Commands, NEW r \in Requeues, Requeue(c, r)
        PROVE  OnlyAdmissible'
    <2>1. \A i \in Ids \ {r} : inbox'[i] = inbox[i] /\ Origin(i)' = Origin(i)
      BY <1>4 DEF Requeue
    <2>2. Origin(r)' = c
      BY <1>4 DEF Requeue
    <2> QED
      BY <1>4, <2>1, <2>2 DEF Requeue
  <1>5. ASSUME UNCHANGED <<inbox, source>>
        PROVE  OnlyAdmissible'
    BY <1>5
  <1> QED
    BY <1>1, <1>2, <1>3, <1>4, <1>5
       DEF Next, SenderStep, Send, Unreached, Refused, CloseWindow, Publish, Age,
           ProjectorStop, RestartApi, vars

\* No path, the direct one and the requeue of a dead letter included, puts a
\* malformed command in front of a handler.
THEOREM AdmissionControlled == Spec => []OnlyAdmissible
  <1>1. Init => TypeOK /\ OnlyAdmissible
    BY DEF Init, TypeOK, Statuses, OnlyAdmissible
  <1>2. TypeOK /\ OnlyAdmissible /\ [Next]_vars => (TypeOK /\ OnlyAdmissible)'
    BY TypeStep, AdmissionStep
  <1> QED
    BY <1>1, <1>2, PTL DEF Spec

-----------------------------------------------------------------------------
(* The promise *)

\* What is in the stream or in the inbox was stored.
Traced ==
    \A c \in Commands : copies[c] > 0 \/ inbox[c] # "absent" => c \in stored

PromiseInv == TypeOK /\ Traced /\ old = {} /\ \A i \in Ids : inbox[i] # "purged"

LEMMA PromiseInvStep ==
    ASSUME Retention = FALSE, PromiseInv, [Next]_vars
    PROVE  PromiseInv'
  <1> USE DEF PromiseInv, TypeOK, Traced
  <1>1. ASSUME NEW c \in Commands, SenderStep(c)
        PROVE  (Traced /\ old = {} /\ \A i \in Ids : inbox[i] # "purged")'
    BY <1>1 DEF SenderStep, Send, Unreached, Refused, CloseWindow, Publish, streamVars
  <1>2. ASSUME NEW c \in Commands, ProjectorStep(c)
        PROVE  (Traced /\ old = {} /\ \A i \in Ids : inbox[i] # "purged")'
    <2>1. c \in stored /\ stored' = stored /\ old' = old
      BY <1>2 DEF ProjectorStep, Project, ProjectFailing, Delivered
    <2>2. \A d \in Commands \ {c} : copies'[d] = copies[d]
      BY <1>2 DEF ProjectorStep, Project, ProjectFailing, Acknowledge
    <2>3. \A i \in Ids : /\ i # c => inbox'[i] = inbox[i]
                         /\ inbox'[i] # "purged"
      BY <1>2 DEF ProjectorStep, Project, ProjectFailing, Upsert
    <2> QED
      BY <2>1, <2>2, <2>3 DEF Ids
  <1>3. ASSUME NEW w \in Workers, WorkerStep(w)
        PROVE  (Traced /\ old = {} /\ \A i \in Ids : inbox[i] # "purged")'
    <2>1. \A i \in Ids : /\ inbox'[i] # "absent" => inbox[i] # "absent"
                         /\ inbox'[i] # "purged"
      BY <1>3 DEF WorkerStep, List, Settles, Finish, SetStatus, FinishUnreported, Crash,
                  Cleanup, Lease, MayLease, Leasable, LeaseRow, LeaseRefused, LeaseUnanswered
    <2>2. UNCHANGED <<stored, copies, old>>
      BY <1>3 DEF WorkerStep, List, Settles, Finish, FinishUnreported, Release, Crash, Cleanup,
                  Lease, LeaseRefused, LeaseUnanswered, WorkerFrame, streamVars
    <2> QED
      BY <2>1, <2>2 DEF Ids
  <1>4. ASSUME NEW i \in Ids, ExpireLease(i)
        PROVE  (Traced /\ old = {} /\ \A j \in Ids : inbox[j] # "purged")'
    BY <1>4 DEF ExpireLease, WorkerFrame, streamVars, Ids
  <1>5. ASSUME NEW i \in Ids, Age(i)
        PROVE  FALSE
    BY <1>5 DEF Age
  <1>6. ASSUME NEW c \in Commands, NEW r \in Requeues, Requeue(c, r)
        PROVE  (Traced /\ old = {} /\ \A i \in Ids : inbox[i] # "purged")'
    BY <1>6, CommandAssumption DEF Requeue, streamVars, Ids
  <1>7. ASSUME ProjectorStop \/ RestartApi \/ UNCHANGED vars
        PROVE  (Traced /\ old = {} /\ \A i \in Ids : inbox[i] # "purged")'
    BY <1>7 DEF ProjectorStop, RestartApi, vars, streamVars
  <1>8. TypeOK'
    BY TypeStep
  <1> QED
    BY <1>1, <1>2, <1>3, <1>4, <1>5, <1>6, <1>7, <1>8 DEF Next

\* The values that the variables of AtLeastOnce take.
StoredBar == stored \cup dead
SettledBar == {c \in Commands : c \in dead \/ Settled(c)}

LEMMA PromiseStep ==
    ASSUME PromiseInv, [Next]_vars
    PROVE  [Promise!Next]_(Promise!avars)
  <1> USE DEF PromiseInv, TypeOK, Settled, Finished
  <1> SUFFICES \/ UNCHANGED <<StoredBar, SettledBar>>
               \/ \E c \in Commands :
                    \/ c \notin StoredBar /\ StoredBar' = StoredBar \cup {c}
                         /\ SettledBar' \in {SettledBar, SettledBar \cup {c}}
                    \/ c \in StoredBar \ SettledBar /\ UNCHANGED StoredBar
                         /\ SettledBar' = SettledBar \cup {c}
    BY DEF Promise!Next, Promise!avars, Promise!Store, Promise!Settle, Promise!Refuse,
           StoredBar, SettledBar, Settled, Finished
  <1> USE DEF StoredBar, SettledBar
  <1>1. ASSUME NEW c \in Commands, Refused(c)
        PROVE  StoredBar' = StoredBar \cup {c} /\ SettledBar' = SettledBar \cup {c}
    BY <1>1 DEF Refused, streamVars
  <1>2. ASSUME NEW c \in Commands, NEW answered \in BOOLEAN, Publish(c, answered)
        PROVE  StoredBar' = StoredBar \cup {c} /\ SettledBar' = SettledBar
    BY <1>2 DEF Publish
  <1>3. ASSUME NEW c \in Commands, ProjectorStep(c)
        PROVE  /\ c \in StoredBar /\ StoredBar' = StoredBar
               /\ SettledBar' \in {SettledBar, SettledBar \cup {c}}
    <2>1. c \in stored /\ stored' = stored /\ dead' \in {dead, dead \cup {c}}
      BY <1>3 DEF ProjectorStep, Project, ProjectFailing, Delivered, Traced
    <2>2. \A i \in Ids : Settled(i)' <=> Settled(i)
      BY <1>3 DEF ProjectorStep, Project, ProjectFailing, Upsert
    <2> QED
      BY <2>1, <2>2 DEF Ids
  <1>4. ASSUME NEW w \in Workers, WorkerStep(w)
        PROVE  /\ UNCHANGED StoredBar
               /\ \/ UNCHANGED SettledBar
                  \/ \E c \in StoredBar : SettledBar' = SettledBar \cup {c}
    <2>1. UNCHANGED <<stored, dead>>
      BY <1>4 DEF WorkerStep, List, Settles, Finish, FinishUnreported, Release, Crash, Cleanup,
                  Lease, LeaseRefused, LeaseUnanswered, WorkerFrame, streamVars
    <2>2. CASE \E ok \in BOOLEAN : Finish(w, ok)
      <3>1. PICK ok \in BOOLEAN : Finish(w, ok)
        BY <2>2
      <3>2. PICK i \in Ids : i = holding[w]
        BY <3>1, <1>4 DEF Finish, Release
      <3>3. /\ inbox' = [inbox EXCEPT ![i] = inbox'[i]]
            /\ inbox[i] = "absent" => inbox'[i] = "absent"
            /\ inbox[i] # "absent" => inbox'[i] \in Finished
        BY <3>1, <3>2 DEF Finish, SetStatus
      <3>4. \A j \in Ids \ {i} : Settled(j)' <=> Settled(j)
        BY <3>2, <3>3
      <3>5. CASE inbox[i] = "absent"
        BY <2>1, <3>2, <3>3, <3>4, <3>5 DEF Ids
      <3>6. CASE inbox[i] # "absent"
        <4>1. Settled(i)'
          BY <3>3, <3>6
        <4>2. CASE i \in Commands
          <5>1. i \in StoredBar
            BY <3>6, <4>2 DEF Traced
          <5>2. SettledBar' = SettledBar \cup {i}
            BY <2>1, <3>4, <4>1, <4>2 DEF Ids
          <5> QED
            BY <2>1, <5>1, <5>2
        <4>3. CASE i \notin Commands
          BY <2>1, <3>4, <4>3 DEF Ids
        <4> QED
          BY <4>2, <4>3
      <3> QED
        BY <3>5, <3>6
    <2>3. CASE ~ \E ok \in BOOLEAN : Finish(w, ok)
      <3>1. \A i \in Ids : Settled(i)' <=> Settled(i)
        BY <1>4, <2>3 DEF WorkerStep, List, Settles, FinishUnreported, Crash, Cleanup, Lease,
                          MayLease, Leasable, LeaseRow, LeaseRefused, LeaseUnanswered
      <3> QED
        BY <2>1, <3>1 DEF Ids
    <2> QED
      BY <2>2, <2>3
  <1>5. ASSUME NEW i \in Ids, ExpireLease(i)
        PROVE  UNCHANGED <<StoredBar, SettledBar>>
    BY <1>5 DEF ExpireLease, WorkerFrame, streamVars, Ids
  <1>6. ASSUME NEW c \in Commands, NEW r \in Requeues, Requeue(c, r)
        PROVE  UNCHANGED <<StoredBar, SettledBar>>
    BY <1>6, CommandAssumption DEF Requeue, streamVars, Ids
  <1>7. ASSUME UNCHANGED <<stored, dead, inbox>>
        PROVE  UNCHANGED <<StoredBar, SettledBar>>
    BY <1>7
  <1>8. SettledBar \subseteq StoredBar /\ StoredBar \subseteq Commands
    BY DEF Traced, Ids
  <1> QED
    BY <1>1, <1>2, <1>3, <1>4, <1>5, <1>6, <1>7, <1>8
       DEF Next, SenderStep, Send, Unreached, CloseWindow, Age, ProjectorStop, RestartApi,
           vars, streamVars

\* Without the retention limits, every step of the queue is a step that the
\* promise AtLeastOnce allows: nothing settled comes undone, nothing is settled
\* that was not stored.  (That what is stored is settled is left to TLC.)
THEOREM PromiseKept ==
    ASSUME Retention = FALSE
    PROVE  Spec => Promise!Init /\ [][Promise!Next]_(Promise!avars)
  <1>1. Init => PromiseInv /\ Promise!Init
    BY CommandAssumption DEF Init, PromiseInv, TypeOK, Traced, Statuses, Promise!Init, Settled,
                             Finished, Ids
  <1>2. PromiseInv /\ [Next]_vars => PromiseInv'
    BY PromiseInvStep
  <1>3. PromiseInv /\ [Next]_vars => [Promise!Next]_(Promise!avars)
    BY PromiseStep
  <1> QED
    BY <1>1, <1>2, <1>3, PTL DEF Spec
=============================================================================
