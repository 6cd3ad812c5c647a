-------------------------- MODULE ArmLifecycleProofs --------------------------
(***************************************************************************)
(* What TLAPS proves of ArmLifecycle for any number of arms and tasks, any *)
(* delays, and every combination of lost requests, other writers, stray    *)
(* reports and restarts.                                                   *)
(***************************************************************************)
EXTENDS ArmLifecycle, TLAPS

-----------------------------------------------------------------------------
(* Type correctness *)

\* A call in progress has the types of its parts.
LEMMA CallTypes ==
    ASSUME TypeOK, call # NoCall
    PROVE  /\ call.arm \in Arms /\ call.by \in Callers
           /\ call.event \in Events /\ call.ctx \in Rows
           /\ Held \in Tasks \cup {NoTask}
           /\ call.event.type \in TaskEvents => call.event.task \in Tasks
  <1>1. call \in Calls
    BY DEF TypeOK
  <1> QED
    BY <1>1 DEF Calls, Held, Rows, Events, TaskEvents, PlainEvents

\* A handler that writes a state and a task and returns timers and effects of
\* their types keeps the types of all variables.
LEMMA HandlerTypes ==
    ASSUME TypeOK, call # NoCall,
           NEW state \in States, NEW held \in Tasks \cup {NoTask},
           NEW delayed \in [Arms -> [TimerKeys -> Nat \cup {NoTimer}]],
           NEW after \in Seq(Effects),
           Persist(state, held), Return(delayed, after)
    PROVE  TypeOK'
  <1>1. call.arm \in Arms /\ call.by \in Callers
    BY CallTypes
  <1>2. row' \in [Arms -> Rows]
    <2>1. [state |-> state, task |-> held] \in Rows
      BY DEF Rows
    <2> QED
      BY <1>1, <2>1 DEF Persist, TypeOK
  <1>3. effects' \in [Arms -> [Callers -> Seq(Effects)]]
    BY <1>1 DEF Return, TypeOK
  <1> QED
    BY <1>2, <1>3 DEF Return, TypeOK

LEMMA ScheduleType ==
    ASSUME TypeOK, call # NoCall, NEW key \in TimerKeys, NEW delay \in Nat
    PROVE  Schedule(key, delay) \in [Arms -> [TimerKeys -> Nat \cup {NoTimer}]]
  BY CallTypes DEF Schedule, TypeOK

\* The side effects the handlers return are sequences of effects.
LEMMA EffectTypes ==
    ASSUME NEW t \in Tasks \cup {NoTask}, NEW status \in TaskStatuses
    PROVE  /\ << >> \in Seq(Effects)
           /\ <<UpdateTask(t, status)>> \in Seq(Effects)
           /\ <<ReleaseTask(t)>> \in Seq(Effects)
           /\ <<MarkStopped>> \in Seq(Effects)
           /\ <<UpdateTask(t, status), MarkStopped>> \in Seq(Effects)
           /\ <<ReleaseTask(t), MarkStopped>> \in Seq(Effects)
           /\ <<ReleaseTask(t)>> \o <<MarkStopped>> \in Seq(Effects)
           /\ << >> \o <<MarkStopped>> \in Seq(Effects)
  <1>1. UpdateTask(t, status) \in Effects /\ UpdateTask(t, "pending") \in Effects
    BY DEF UpdateTask, Effects, TaskStatuses
  <1>2. MarkStopped \in Effects
    BY DEF MarkStopped, Effects
  <1> QED
    BY <1>1, <1>2 DEF ReleaseTask

\* The facts about a call that every handler needs.
LEMMA HandlerFacts ==
    ASSUME TypeOK, Handle
    PROVE  /\ call # NoCall
           /\ Held \in Tasks \cup {NoTask}
           /\ call.event.type \in TaskEvents => call.event.task \in Tasks
           /\ timers \in [Arms -> [TimerKeys -> Nat \cup {NoTimer}]]
           /\ << >> \in Seq(Effects)
           /\ \A t \in Tasks \cup {NoTask}, status \in TaskStatuses :
                <<UpdateTask(t, status)>> \in Seq(Effects)
           /\ \A status \in TaskStatuses :
                <<UpdateTask(Held, status), MarkStopped>> \in Seq(Effects)
           /\ <<MarkStopped>> \in Seq(Effects)
           /\ <<ReleaseTask(Held)>> \in Seq(Effects)
           /\ <<ReleaseTask(Held), MarkStopped>> \in Seq(Effects)
           /\ IfHeld(ReleaseTask(Held)) \o <<MarkStopped>> \in Seq(Effects)
  <1>1. call # NoCall
    BY DEF Handle, FromSpawning, FromStarting, FromIdle, TaskAssigned, FromTaskAssigned,
           HeartbeatWhileAssigned, AssignmentTimeout, TaskReported, FromWorking,
           FromDisconnected, FromStopped, FromError, On
  <1>2. Held \in Tasks \cup {NoTask}
    BY <1>1, CallTypes
  <1> QED
    BY <1>1, <1>2, CallTypes, EffectTypes DEF TypeOK, IfHeld, TaskStatuses

LEMMA HandlePreservesTypes ==
    ASSUME TypeOK, Handle
    PROVE  TypeOK'
  <1> USE HandlerFacts
  <1>1. CASE FromSpawning
    <2>1. Schedule("startup", StartupDelay) \in [Arms -> [TimerKeys -> Nat \cup {NoTimer}]]
      BY ScheduleType, DelayAssumption DEF TimerKeys
    <2> QED
      BY <1>1, <2>1, HandlerTypes DEF FromSpawning, States
  <1>2. CASE FromStarting
    BY <1>2, HandlerTypes DEF FromStarting, States
  <1>r. Schedule("reconnect", ReconnectDelay) \in [Arms -> [TimerKeys -> Nat \cup {NoTimer}]]
    BY ScheduleType, DelayAssumption DEF TimerKeys
  <1>3. CASE FromIdle
    <2>1. Schedule("task_ack", AckDelay) \in [Arms -> [TimerKeys -> Nat \cup {NoTimer}]]
      BY ScheduleType, DelayAssumption DEF TimerKeys
    <2>2. CASE TaskAssigned
      <3>1. call.event.task \in Tasks
        BY <2>2 DEF TaskAssigned, On, TaskEvents
      <3> QED
        BY <2>1, <2>2, <3>1, HandlerTypes DEF TaskAssigned, States
    <2>3. CASE ~TaskAssigned
      BY <1>3, <1>r, <2>3, HandlerTypes DEF FromIdle, States
    <2> QED
      BY <2>2, <2>3
  <1>t. ASSUME NEW state, NEW type \in TaskEvents, NEW status \in TaskStatuses,
               TaskReported(state, type, status)
        PROVE  TypeOK'
    <2>1. call.event.task \in Tasks
      BY <1>t DEF TaskReported, On
    <2> QED
      BY <1>t, <2>1, HandlerTypes DEF TaskReported, States
  <1>4. CASE FromTaskAssigned
    <2>1. CASE HeartbeatWhileAssigned \/ AssignmentTimeout
      BY <2>1, HandlerTypes DEF HeartbeatWhileAssigned, AssignmentTimeout, States
    <2>2. CASE \/ TaskReported("task_assigned", "TASK_COMPLETED", "completed")
               \/ TaskReported("task_assigned", "TASK_FAILED", "failed")
      BY <1>t, <2>2 DEF TaskEvents, TaskStatuses
    <2>3. <<UpdateTask(Held, "in_progress")>> \in Seq(Effects)
      BY DEF TaskStatuses
    <2> QED
      BY <1>4, <1>r, <2>1, <2>2, <2>3, HandlerTypes DEF FromTaskAssigned, States
  <1>f. /\ <<UpdateTask(Held, "failed")>> \in Seq(Effects)
        /\ <<UpdateTask(Held, "failed"), MarkStopped>> \in Seq(Effects)
    BY DEF TaskStatuses
  <1>5. CASE FromWorking
    <2>1. Schedule("reconnect", BusyDelay) \in [Arms -> [TimerKeys -> Nat \cup {NoTimer}]]
      BY ScheduleType, DelayAssumption DEF TimerKeys
    <2>2. CASE \/ \E state : TaskReported(state, "TASK_COMPLETED", "completed")
               \/ TaskReported("working", "TASK_FAILED", "failed")
      BY <1>t, <2>2 DEF TaskEvents, TaskStatuses
    <2>3. CASE \E state \in {"working", "completing"} : On(state, "HEARTBEAT")
                /\ Persist(call.ctx.state, Held) /\ Return(timers, << >>)
      BY <2>3, HandlerTypes DEF On, States
    <2> QED
      BY <1>5, <1>f, <2>1, <2>2, <2>3, HandlerTypes DEF FromWorking, States
  <1>6. CASE FromDisconnected
    <2>1. CASE TaskReported("disconnected", "TASK_COMPLETED", "completed")
      BY <1>t, <2>1 DEF TaskEvents, TaskStatuses
    <2>2. CASE Held = NoTask
      BY <1>6, <2>1, <2>2, HandlerTypes DEF FromDisconnected, States
    <2>3. CASE Held # NoTask
      BY <1>6, <2>1, <2>3, HandlerTypes DEF FromDisconnected, States
    <2> QED
      BY <2>2, <2>3
  <1>7. CASE FromStopped
    BY <1>7, HandlerTypes DEF FromStopped, States
  <1>8. CASE FromError
    BY <1>8, HandlerTypes DEF FromError, States
  <1> QED
    BY <1>1, <1>2, <1>3, <1>4, <1>5, <1>6, <1>7, <1>8 DEF Handle

\* Freeing a row keeps its type, and moves it out of an occupied state at most.
LEMMA FreedFacts ==
    ASSUME TypeOK, NEW a \in Arms, NEW t \in Tasks, FreeRow(a, t)
    PROVE  /\ row' \in [Arms -> Rows]
           /\ row'[a] = Freed(row[a], t)
           /\ \A b \in Arms \ {a} : row'[b] = row[b]
           /\ \A b \in Arms : row'[b].state \in {row[b].state, "idle"}
  <1>1. \A r \in Rows : Freed(r, t) \in Rows /\ Freed(r, t).state \in {r.state, "idle"}
    BY DEF Freed, Rows, States
  <1> QED
    BY <1>1 DEF FreeRow, TypeOK

\* A PATCH of a task, from whichever client, writes the task, and frees at most the row
\* of the arm that had it.
LEMMA PatchFacts ==
    ASSUME TypeOK, NEW t \in Tasks, NEW status \in TaskStatuses, PatchTask(t, status)
    PROVE  \/ UNCHANGED row
           \/ /\ status \in Releasing \ Synced /\ task[t].owner \in Arms
              /\ FreeRow(task[t].owner, t)
  BY DEF PatchTask, TypeOK, TaskRows

LEMMA PatchTypes ==
    ASSUME TypeOK, NEW t \in Tasks, NEW status \in TaskStatuses, PatchTask(t, status)
    PROVE  /\ row' \in [Arms -> Rows] /\ task' \in [Tasks -> TaskRows]
           /\ clearing' \subseteq Arms \X Tasks
  <1>1. row' \in [Arms -> Rows]
    BY PatchFacts, FreedFacts DEF TypeOK
  <1>2. task' \in [Tasks -> TaskRows]
    <2>1. /\ [status |-> status, owner |-> NoArm] \in TaskRows
          /\ [task[t] EXCEPT !.status = status] \in TaskRows
      BY DEF TypeOK, TaskRows
    <2>2. \/ task' = [task EXCEPT ![t] = [status |-> status, owner |-> NoArm]]
          \/ task' = [task EXCEPT ![t] = [task[t] EXCEPT !.status = status]]
      BY DEF PatchTask
    <2> QED
      BY <2>1, <2>2 DEF TypeOK
  <1>3. clearing' \subseteq Arms \X Tasks
    <2>1. \/ UNCHANGED clearing
          \/ /\ task[t].owner # NoArm
             /\ clearing' = clearing \cup {<<task[t].owner, t>>}
      BY DEF PatchTask
    <2>2. task[t].owner # NoArm => <<task[t].owner, t>> \in Arms \X Tasks
      BY DEF TypeOK, TaskRows
    <2> QED
      BY <2>1, <2>2 DEF TypeOK
  <1> QED
    BY <1>1, <1>2, <1>3

THEOREM TypeCorrect == Spec => []TypeOK
  <1>1. Init => TypeOK
    BY NullAssumption, SwitchAssumption
       DEF Init, TypeOK, Rows, NoRow, TaskRows, TaskStatuses
  <1>2. TypeOK /\ [Next]_vars => TypeOK'
    <2> SUFFICES ASSUME TypeOK, [Next]_vars
                 PROVE  TypeOK'
      OBVIOUS
    <2>1. ASSUME NEW a \in Arms, NEW event \in Events, Submit(a, event)
          PROVE  TypeOK'
      BY <2>1 DEF Submit, Read, TypeOK, Calls, Callers, Faults
    <2>2. ASSUME NEW a \in Arms, NEW t \in Tasks,
                 ClearRow(a, t) \/ Claim(a, t) \/ Acknowledge(a, t)
          PROVE  TypeOK'
      <3>1. CASE ClearRow(a, t)
        <4>1. row' \in [Arms -> Rows]
          BY <3>1, FreedFacts DEF ClearRow
        <4>2. clearing' \subseteq Arms \X Tasks
          BY <3>1 DEF ClearRow, TypeOK
        <4> QED
          BY <3>1, <4>1, <4>2 DEF ClearRow, TypeOK
      <3>2. CASE Claim(a, t) \/ Acknowledge(a, t)
        <4>1. \A status \in {"claimed", "in_progress"} :
                 [task EXCEPT ![t] = [status |-> status, owner |-> a]] \in [Tasks -> TaskRows]
          BY DEF TypeOK, TaskRows, TaskStatuses
        <4>2. faults' \subseteq Faults
          BY <3>2 DEF Claim, Acknowledge, TypeOK, Faults
        <4> QED
          BY <3>2, <4>1, <4>2 DEF Claim, Acknowledge, TypeOK
      <3> QED
        BY <2>2, <3>1, <3>2
    <2>3. ASSUME NEW a \in Arms, NEW key \in TimerKeys, Expire(a, key)
          PROVE  TypeOK'
      <3>1. Plain("TIMEOUT") \in Events
        BY DEF Events, PlainEvents, Plain
      <3> QED
        BY <2>3, <3>1 DEF Expire, Read, TypeOK, Calls, Callers
    <2>4. CASE Handle
      BY <2>4, HandlePreservesTypes
    <2>5. ASSUME NEW a \in Arms, NEW caller \in Callers, RunEffect(a, caller)
          PROVE  TypeOK'
      <3>1. effects[a][caller] \in Seq(Effects) /\ effects[a][caller] # << >>
        BY <2>5 DEF RunEffect, Quiet, TypeOK
      <3>2. /\ Head(effects[a][caller]) \in Effects
            /\ Tail(effects[a][caller]) \in Seq(Effects)
        BY <3>1
      <3>3. effects' \in [Arms -> [Callers -> Seq(Effects)]]
        BY <2>5, <3>2 DEF RunEffect, Await, TypeOK
      <3>4. /\ row' \in [Arms -> Rows] /\ task' \in [Tasks -> TaskRows]
            /\ clearing' \subseteq Arms \X Tasks
        BY <2>5, <3>2, PatchTypes DEF RunEffect, TypeOK, Effects
      <3> QED
        BY <2>5, <3>3, <3>4 DEF RunEffect, TypeOK
    <2>6. ASSUME NEW a \in Arms, NEW caller \in Callers, LoseEffect(a, caller)
          PROVE  TypeOK'
      <3>1. effects[a][caller] \in Seq(Effects) /\ effects[a][caller] # << >>
        BY <2>6 DEF LoseEffect, Quiet, TypeOK
      <3> QED
        BY <2>6, <3>1 DEF LoseEffect, Await, TypeOK, Faults
    <2>7. ASSUME NEW t \in Tasks, NEW status \in Releasing, OtherPatch(t, status)
          PROVE  TypeOK'
      <3>1. /\ row' \in [Arms -> Rows] /\ task' \in [Tasks -> TaskRows]
            /\ clearing' \subseteq Arms \X Tasks
        BY <2>7, PatchTypes DEF OtherPatch, Releasing, TaskStatuses
      <3> QED
        BY <2>7, <3>1 DEF OtherPatch, TypeOK, Faults
    <2>8. ASSUME NEW a \in Arms, NEW state \in States, InitializeArm(a, state)
          PROVE  TypeOK'
      BY <2>8 DEF InitializeArm, TypeOK, Rows
    <2>9. ASSUME NEW a \in Arms, DeleteArm(a)
          PROVE  TypeOK'
      BY <2>9 DEF DeleteArm, TypeOK, Rows, NoRow
    <2>10. CASE Restart
      BY <2>10, SwitchAssumption DEF Restart, TypeOK
    <2>11. CASE Tick
      BY <2>11 DEF Tick, TypeOK, NoTimer
    <2>12. CASE UNCHANGED vars
      BY <2>12 DEF vars, TypeOK
    <2> QED
      BY <2>1, <2>2, <2>3, <2>4, <2>5, <2>6, <2>7, <2>8, <2>9, <2>10, <2>11, <2>12
         DEF Next
  <1> QED
    BY <1>1, <1>2, PTL DEF Spec

-----------------------------------------------------------------------------
(* Every wait has a deadline *)

Armed(a, state) ==
    \A key \in TimerKeys : Waiting(state, key) => timers[a][key] # NoTimer

FiringIn(a, state) ==
    /\ call # NoCall
    /\ call.arm = a /\ call.by = "timer" /\ call.ctx.state = state

\* A transition of the poll loop that read a waiting state will write it back only
\* while its timer is armed: the Brain does not run timers between read and write.
DeadlineInv ==
    restarts = 0 =>
        /\ \A a \in Arms : Armed(a, row[a].state) \/ FiringIn(a, row[a].state)
        /\ call # NoCall /\ call.by = "loop" => Armed(call.arm, call.ctx.state)
        /\ call # NoCall /\ call.by = "timer" => call.event.type = "TIMEOUT"

LEMMA DeadlineInvImplies == TypeOK /\ DeadlineInv => NoWaitWithoutDeadline
  BY DEF DeadlineInv, NoWaitWithoutDeadline, Armed, FiringIn

\* A handler that leaves a state in which nothing waits, or one whose timer it arms
\* or keeps armed, keeps the invariant.
LEMMA HandlerKeepsDeadlines ==
    ASSUME TypeOK, DeadlineInv, restarts = 0, call # NoCall,
           NEW state \in States, NEW held \in Tasks \cup {NoTask},
           NEW delayed \in [Arms -> [TimerKeys -> Nat \cup {NoTimer}]],
           NEW after \in Seq(Effects),
           Persist(state, held), Return(delayed, after),
           \A key \in TimerKeys : Waiting(state, key) => delayed[call.arm][key] # NoTimer,
           \A a \in Arms \ {call.arm} : delayed[a] = timers[a]
    PROVE  DeadlineInv'
  <1>1. call.arm \in Arms
    BY CallTypes
  <1>2. row'[call.arm].state = state /\ \A a \in Arms \ {call.arm} : row'[a] = row[a]
    BY <1>1 DEF Persist, TypeOK
  <1>3. timers' = delayed /\ call' = NoCall
    BY DEF Return
  <1>4. \A a \in Arms \ {call.arm} : Armed(a, row[a].state)
    BY DEF DeadlineInv, FiringIn
  <1>5. \A a \in Arms \ {call.arm} : Armed(a, row[a].state)'
    BY <1>2, <1>3, <1>4 DEF Armed
  <1>6. \A key \in TimerKeys :
            Waiting(row'[call.arm].state, key) => timers'[call.arm][key] # NoTimer
    BY <1>2, <1>3
  <1>7. \A a \in Arms : Armed(a, row[a].state)'
    BY <1>5, <1>6 DEF Armed
  <1> QED
    BY <1>3, <1>7 DEF DeadlineInv

\* A handler whose new state is not a waiting one, and that arms a timer of its arm
\* at most, keeps the invariant.
LEMMA SettledKeepsDeadlines ==
    ASSUME TypeOK, DeadlineInv, restarts = 0, Handle,
           NEW state \in States \ {"task_assigned", "disconnected"},
           NEW held \in Tasks \cup {NoTask}, NEW after \in Seq(Effects),
           Persist(state, held),
           \/ Return(timers, after)
           \/ Return(Schedule("startup", StartupDelay), after)
    PROVE  DeadlineInv'
  <1>1. \A key \in TimerKeys : ~Waiting(state, key)
    BY DEF Waiting
  <1>2. CASE Return(timers, after)
    BY <1>1, <1>2, HandlerFacts, HandlerKeepsDeadlines
  <1>3. CASE Return(Schedule("startup", StartupDelay), after)
    <2>1. Schedule("startup", StartupDelay) \in [Arms -> [TimerKeys -> Nat \cup {NoTimer}]]
      BY HandlerFacts, ScheduleType, DelayAssumption DEF TimerKeys
    <2>2. \A a \in Arms \ {call.arm} : Schedule("startup", StartupDelay)[a] = timers[a]
      BY HandlerFacts DEF Schedule
    <2> QED
      BY <1>1, <1>3, <2>1, <2>2, HandlerFacts, HandlerKeepsDeadlines
  <1> QED
    BY <1>2, <1>3

\* A handler that enters a waiting state and arms the timer that ends the wait.
LEMMA WaitKeepsDeadlines ==
    ASSUME TypeOK, DeadlineInv, restarts = 0, Handle,
           NEW state \in States, NEW held \in Tasks \cup {NoTask},
           NEW key \in TimerKeys, NEW delay \in Nat,
           \A k \in TimerKeys : Waiting(state, k) => k = key,
           Persist(state, held), Return(Schedule(key, delay), << >>)
    PROVE  DeadlineInv'
  <1>1. call.arm \in Arms
    BY HandlerFacts, CallTypes
  <1>2. Schedule(key, delay) \in [Arms -> [TimerKeys -> Nat \cup {NoTimer}]]
    BY HandlerFacts, ScheduleType
  <1>3. /\ \A a \in Arms \ {call.arm} : Schedule(key, delay)[a] = timers[a]
        /\ Schedule(key, delay)[call.arm][key] = delay
    BY <1>1, HandlerFacts DEF Schedule
  <1>4. delay # NoTimer
    BY DEF NoTimer
  <1> QED
    BY <1>2, <1>3, <1>4, HandlerFacts, HandlerKeepsDeadlines

LEMMA HandleKeepsDeadlines ==
    ASSUME TypeOK, DeadlineInv, restarts = 0, Handle
    PROVE  DeadlineInv'
  <1> USE HandlerFacts
  <1>1. CASE FromSpawning
    BY <1>1, SettledKeepsDeadlines DEF FromSpawning, States
  <1>2. CASE FromStarting
    BY <1>2, SettledKeepsDeadlines DEF FromStarting, States
  <1>t. ASSUME NEW state, NEW type \in TaskEvents, NEW status \in TaskStatuses,
               TaskReported(state, type, status)
        PROVE  DeadlineInv'
    <2>1. call.event.task \in Tasks
      BY <1>t DEF TaskReported, On
    <2> QED
      BY <1>t, <2>1, SettledKeepsDeadlines DEF TaskReported, States
  <1>d. ASSUME NEW delay \in {ReconnectDelay, BusyDelay}, Persist("disconnected", Held),
               Return(Schedule("reconnect", delay), << >>)
        PROVE  DeadlineInv'
    BY <1>d, WaitKeepsDeadlines, DelayAssumption DEF Waiting, States, TimerKeys
  <1>3. CASE FromIdle
    <2>1. CASE TaskAssigned
      <3>1. call.event.task \in Tasks
        BY <2>1 DEF TaskAssigned, On, TaskEvents
      <3> QED
        BY <2>1, <3>1, WaitKeepsDeadlines, DelayAssumption
           DEF TaskAssigned, Waiting, States, TimerKeys
    <2> QED
      BY <1>3, <1>d, <2>1, SettledKeepsDeadlines DEF FromIdle, States
  <1>4. CASE FromTaskAssigned
    <2>1. ASSUME On("task_assigned", "HEARTBEAT") \/ On("task_assigned", "TASK_ACKNOWLEDGED"),
                 Persist("task_assigned", Held), Return(timers, << >>)
          PROVE  DeadlineInv'
      <3>1. call.by \in Callers
        BY CallTypes
      <3>2. Armed(call.arm, "task_assigned")
        BY <2>1, <3>1 DEF On, DeadlineInv, Callers
      <3> QED
        BY <2>1, <3>2, HandlerKeepsDeadlines DEF Armed, States
    <2>2. CASE AssignmentTimeout
      BY <2>2, SettledKeepsDeadlines DEF AssignmentTimeout, States
    <2>3. CASE \/ TaskReported("task_assigned", "TASK_COMPLETED", "completed")
               \/ TaskReported("task_assigned", "TASK_FAILED", "failed")
      BY <1>t, <2>3 DEF TaskEvents, TaskStatuses
    <2>4. <<UpdateTask(Held, "in_progress")>> \in Seq(Effects)
      BY DEF TaskStatuses
    <2> QED
      BY <1>4, <1>d, <2>1, <2>2, <2>3, <2>4, SettledKeepsDeadlines
         DEF FromTaskAssigned, HeartbeatWhileAssigned, States
  <1>f. /\ <<UpdateTask(Held, "failed")>> \in Seq(Effects)
        /\ <<UpdateTask(Held, "failed"), MarkStopped>> \in Seq(Effects)
    BY DEF TaskStatuses
  <1>5. CASE FromWorking
    <2>1. CASE \/ \E state : TaskReported(state, "TASK_COMPLETED", "completed")
               \/ TaskReported("working", "TASK_FAILED", "failed")
      BY <1>t, <2>1 DEF TaskEvents, TaskStatuses
    <2>2. CASE \E state \in {"working", "completing"} : On(state, "HEARTBEAT")
                /\ Persist(call.ctx.state, Held) /\ Return(timers, << >>)
      BY <2>2, SettledKeepsDeadlines DEF On, States
    <2> QED
      BY <1>5, <1>d, <1>f, <2>1, <2>2, SettledKeepsDeadlines DEF FromWorking, States
  <1>6. CASE FromDisconnected
    <2>1. CASE TaskReported("disconnected", "TASK_COMPLETED", "completed")
      BY <1>t, <2>1 DEF TaskEvents, TaskStatuses
    <2>2. CASE Held = NoTask
      BY <1>6, <2>1, <2>2, SettledKeepsDeadlines DEF FromDisconnected, States
    <2>3. CASE Held # NoTask
      BY <1>6, <2>1, <2>3, SettledKeepsDeadlines DEF FromDisconnected, States
    <2> QED
      BY <2>2, <2>3
  <1>7. CASE FromStopped
    BY <1>7, SettledKeepsDeadlines DEF FromStopped, States
  <1>8. CASE FromError
    BY <1>8, SettledKeepsDeadlines DEF FromError, States
  <1> QED
    BY <1>1, <1>2, <1>3, <1>4, <1>5, <1>6, <1>7, <1>8 DEF Handle

\* The API only moves a row out of a waiting state.
LEMMA FreedKeepsDeadlines ==
    ASSUME TypeOK, DeadlineInv, UNCHANGED <<timers, call, restarts>>,
           \A a \in Arms : row'[a].state \in {row[a].state, "idle"}
    PROVE  DeadlineInv'
  <1>1. \A key \in TimerKeys : ~Waiting("idle", key)
    BY DEF Waiting
  <1>2. ASSUME restarts = 0, NEW a \in Arms
        PROVE  (Armed(a, row[a].state) \/ FiringIn(a, row[a].state))'
    <2>1. CASE row'[a].state = "idle"
      BY <1>1, <2>1 DEF Armed
    <2>2. CASE row'[a].state = row[a].state
      BY <1>2, <2>2 DEF DeadlineInv, Armed, FiringIn
    <2> QED
      BY <2>1, <2>2
  <1> QED
    BY <1>2 DEF DeadlineInv, Armed

LEMMA PatchKeepsDeadlines ==
    ASSUME TypeOK, DeadlineInv, NEW t \in Tasks, NEW status \in TaskStatuses,
           PatchTask(t, status), UNCHANGED <<timers, call, restarts>>
    PROVE  DeadlineInv'
  BY PatchFacts, FreedFacts, FreedKeepsDeadlines

\* In one run of the Brain no arm waits for an acknowledgement or for a reconnect
\* without the timer that ends the wait.
THEOREM DeadlinesHold == Spec => []NoWaitWithoutDeadline
  <1>1. Init => DeadlineInv
    BY DEF Init, DeadlineInv, Armed, Waiting, NoRow
  <1>2. TypeOK /\ DeadlineInv /\ [Next]_vars => DeadlineInv'
    <2> SUFFICES ASSUME TypeOK, DeadlineInv, [Next]_vars, restarts' = 0
                 PROVE  DeadlineInv'
      BY DEF DeadlineInv
    <2>0. restarts = 0
      <3>1. Handle => UNCHANGED restarts
        BY DEF Handle, FromSpawning, FromStarting, FromIdle, TaskAssigned, FromTaskAssigned,
               HeartbeatWhileAssigned, AssignmentTimeout, TaskReported, FromWorking,
               FromDisconnected, FromStopped, FromError, Return
      <3>2. Next => UNCHANGED restarts \/ restarts' = restarts + 1
        BY <3>1 DEF Next, Submit, Expire, RunEffect, LoseEffect, OtherPatch, ClearRow, Claim,
               Acknowledge, InitializeArm, DeleteArm, Restart, Tick
      <3>3. restarts \in Nat
        BY SwitchAssumption DEF TypeOK
      <3> QED
        BY <3>2, <3>3 DEF vars
    <2>c. call = NoCall => \A a \in Arms : Armed(a, row[a].state)
      BY <2>0 DEF DeadlineInv, FiringIn
    <2>1. ASSUME NEW a \in Arms, NEW event \in Events, Submit(a, event)
          PROVE  DeadlineInv'
      BY <2>1, <2>c DEF Submit, LoopFree, Read, DeadlineInv, Armed
    <2>2. ASSUME NEW a \in Arms, NEW t \in Tasks,
                 ClearRow(a, t) \/ Claim(a, t) \/ Acknowledge(a, t)
          PROVE  DeadlineInv'
      <3>1. CASE ClearRow(a, t)
        BY <3>1, FreedFacts, FreedKeepsDeadlines DEF ClearRow
      <3>2. CASE Claim(a, t) \/ Acknowledge(a, t)
        BY <3>2, FreedKeepsDeadlines DEF Claim, Acknowledge
      <3> QED
        BY <2>2, <3>1, <3>2
    <2>3. ASSUME NEW a \in Arms, NEW key \in TimerKeys, Expire(a, key)
          PROVE  DeadlineInv'
      <3>1. \A b \in Arms : Armed(b, row[b].state)
        BY <2>3, <2>c DEF Expire
      <3>2. /\ \A b \in Arms \ {a} : timers'[b] = timers[b]
            /\ \A k \in TimerKeys \ {key} : timers'[a][k] = timers[a][k]
        BY <2>3 DEF Expire, TypeOK
      <3>3. UNCHANGED row
        BY <2>3 DEF Expire
      <3>4. \A b \in Arms \ {a} : Armed(b, row[b].state)'
        BY <3>1, <3>2, <3>3 DEF Armed
      <3>5. CASE "TIMEOUT" \in Handled(row[a].state)
        <4>1. call' = [by |-> "timer", arm |-> a, event |-> Plain("TIMEOUT"), ctx |-> row[a]]
          BY <2>3, <3>5 DEF Expire, Read
        <4>2. call' \in Calls
          BY <2>3, <4>1 DEF Calls, Callers, Events, PlainEvents, Plain, TypeOK
        <4>3. FiringIn(a, row[a].state)'
          BY <3>3, <4>1, <4>2, CallAssumption DEF FiringIn
        <4> QED
          BY <3>4, <4>1, <4>3 DEF DeadlineInv, Plain
      <3>6. CASE "TIMEOUT" \notin Handled(row[a].state)
        <4>1. \A k \in TimerKeys : ~Waiting(row[a].state, k)
          <5>1. "TIMEOUT" \in Handled("task_assigned")
            BY DEF Handled
          <5>2. "TIMEOUT" \in Handled("disconnected")
            BY DEF Handled
          <5> QED
            BY <3>6, <5>1, <5>2 DEF Waiting
        <4>2. Armed(a, row[a].state)'
          BY <3>3, <4>1 DEF Armed
        <4>3. call' = NoCall
          BY <2>3, <3>6 DEF Expire
        <4> QED
          BY <3>4, <4>2, <4>3 DEF DeadlineInv
      <3> QED
        BY <3>5, <3>6
    <2>4. CASE Handle
      BY <2>0, <2>4, HandleKeepsDeadlines
    <2>5. ASSUME NEW a \in Arms, NEW caller \in Callers, RunEffect(a, caller)
          PROVE  DeadlineInv'
      <3>1. effects[a][caller] \in Seq(Effects) /\ effects[a][caller] # << >>
        BY <2>5 DEF RunEffect, Quiet, TypeOK
      <3>2. Head(effects[a][caller]) \in Effects
        BY <3>1
      <3>3. UNCHANGED <<timers, call, restarts>>
        BY <2>5 DEF RunEffect
      <3>4. CASE UNCHANGED row
        BY <3>3, <3>4 DEF DeadlineInv, Armed, FiringIn
      <3>5. CASE \E t \in Tasks, status \in TaskStatuses : PatchTask(t, status)
        BY <3>3, <3>5, PatchKeepsDeadlines
      <3> QED
        BY <2>5, <3>2, <3>4, <3>5 DEF RunEffect, Effects
    <2>6. ASSUME NEW a \in Arms, NEW caller \in Callers, LoseEffect(a, caller)
          PROVE  DeadlineInv'
      BY <2>6 DEF LoseEffect, DeadlineInv, Armed, FiringIn
    <2>7. ASSUME NEW t \in Tasks, NEW status \in Releasing, OtherPatch(t, status)
          PROVE  DeadlineInv'
      BY <2>7, PatchKeepsDeadlines DEF OtherPatch, Releasing, TaskStatuses
    <2>8. ASSUME NEW a \in Arms, NEW state \in States, InitializeArm(a, state)
          PROVE  DeadlineInv'
      <3>1. \A key \in TimerKeys : ~Waiting(row'[a].state, key)
        BY <2>8 DEF InitializeArm, Waiting, TypeOK
      <3>2. \A b \in Arms \ {a} : row'[b] = row[b]
        BY <2>8 DEF InitializeArm, TypeOK
      <3>3. call = NoCall /\ UNCHANGED <<timers, call>>
        BY <2>8 DEF InitializeArm, LoopFree
      <3> QED
        BY <2>c, <3>1, <3>2, <3>3 DEF DeadlineInv, Armed
    <2>9. ASSUME NEW a \in Arms, DeleteArm(a)
          PROVE  DeadlineInv'
      <3>1. \A key \in TimerKeys : ~Waiting(row'[a].state, key)
        BY <2>9 DEF DeleteArm, Waiting, NoRow, TypeOK
      <3>2. \A b \in Arms \ {a} : row'[b] = row[b] /\ timers'[b] = timers[b]
        BY <2>9 DEF DeleteArm, TypeOK
      <3>3. call = NoCall /\ UNCHANGED call
        BY <2>9 DEF DeleteArm, LoopFree
      <3> QED
        BY <2>c, <3>1, <3>2, <3>3 DEF DeadlineInv, Armed
    <2>10. CASE Restart
      BY <2>0, <2>10 DEF Restart
    <2>11. CASE Tick
      <3>1. \A a \in Arms, key \in TimerKeys :
              timers[a][key] # NoTimer => timers'[a][key] # NoTimer
        BY <2>11 DEF Tick, TypeOK, NoTimer
      <3>2. UNCHANGED <<row, call, restarts>>
        BY <2>11 DEF Tick
      <3>3. call # NoCall => call.arm \in Arms
        BY CallTypes
      <3> QED
        BY <3>1, <3>2, <3>3 DEF DeadlineInv, Armed, FiringIn
    <2>12. CASE UNCHANGED vars
      BY <2>12 DEF vars, DeadlineInv, Armed, FiringIn
    <2> QED
      BY <2>1, <2>2, <2>3, <2>4, <2>5, <2>6, <2>7, <2>8, <2>9, <2>10, <2>11, <2>12
         DEF Next
  <1> QED
    BY <1>1, <1>2, TypeCorrect, DeadlineInvImplies, PTL DEF Spec

-----------------------------------------------------------------------------
(* No deadline is put off *)

\* While the Brain is between the read and the write of a transition, the row can
\* only be freed by the API.
CallCurrent == call # NoCall => row[call.arm].state \in {call.ctx.state, "idle"}

WaitsShorten ==
    \A a \in Arms, key \in TimerKeys :
        Waiting(row[a].state, key) /\ row'[a].state = row[a].state =>
            timers'[a][key] <= timers[a][key]

LEMMA TimersOrdered ==
    ASSUME TypeOK, NEW a \in Arms, NEW key \in TimerKeys
    PROVE  timers[a][key] \in Int /\ timers[a][key] <= timers[a][key] /\ NoTimer <= timers[a][key]
  BY DEF TypeOK, NoTimer

LEMMA PatchFrees ==
    ASSUME TypeOK, NEW t \in Tasks, NEW status \in TaskStatuses, PatchTask(t, status)
    PROVE  \A a \in Arms : row'[a].state \in {row[a].state, "idle"}
  BY PatchFacts, FreedFacts

\* What a handler may do to the timers: nothing, or it sets one that the state it read
\* does not wait for, or one of a wait that begins.
LEMMA HandlersSchedule ==
    ASSUME Handle
    PROVE  \/ UNCHANGED timers
           \/ /\ timers' = Schedule("startup", StartupDelay)
              /\ call.ctx.state = "spawning"
           \/ /\ timers' = Schedule("task_ack", AckDelay)
              /\ call.ctx.state = "idle"
           \/ \E delay \in {ReconnectDelay, BusyDelay} :
                 /\ timers' = Schedule("reconnect", delay)
                 /\ call.ctx.state \in {"idle", "task_assigned", "working"}
  BY DEF Handle, FromSpawning, FromStarting, FromIdle, TaskAssigned, FromTaskAssigned,
         HeartbeatWhileAssigned, AssignmentTimeout, TaskReported, FromWorking,
         FromDisconnected, FromStopped, FromError, On, Return

LEMMA HandleShortens ==
    ASSUME TypeOK, CallCurrent, Handle
    PROVE  WaitsShorten
  <1>1. /\ call # NoCall /\ call.arm \in Arms /\ call.ctx.state \in States \cup {"absent"}
    BY HandlerFacts, CallTypes DEF Rows
  <1>2. row[call.arm].state \in {call.ctx.state, "idle"}
    BY <1>1 DEF CallCurrent
  <1>3. ASSUME NEW key \in TimerKeys, NEW delay,
               timers' = Schedule(key, delay), ~Waiting(row[call.arm].state, key)
        PROVE  WaitsShorten
    <2>1. \A a \in Arms, k \in TimerKeys :
            timers'[a][k] = IF a = call.arm /\ k = key THEN delay ELSE timers[a][k]
      BY <1>1, <1>3 DEF Schedule, TypeOK
    <2> QED
      BY <1>3, <2>1, TimersOrdered DEF WaitsShorten
  <1>4. CASE UNCHANGED timers
    BY <1>4, TimersOrdered DEF WaitsShorten
  <1>5. CASE timers' = Schedule("startup", StartupDelay)
    BY <1>3, <1>5 DEF Waiting, TimerKeys
  <1>6. CASE timers' = Schedule("task_ack", AckDelay) /\ call.ctx.state = "idle"
    BY <1>2, <1>3, <1>6 DEF Waiting, TimerKeys
  <1>7. CASE \E delay \in {ReconnectDelay, BusyDelay} :
               /\ timers' = Schedule("reconnect", delay)
               /\ call.ctx.state \in {"idle", "task_assigned", "working"}
    BY <1>2, <1>3, <1>7 DEF Waiting, TimerKeys
  <1> QED
    BY <1>4, <1>5, <1>6, <1>7, HandlersSchedule

LEMMA CallStaysCurrent ==
    ASSUME TypeOK, CallCurrent, [Next]_vars
    PROVE  CallCurrent'
  <1>1. ASSUME call = NoCall, NEW a \in Arms, NEW caller, NEW event,
               Read(caller, a, event) \/ UNCHANGED call, UNCHANGED row
        PROVE  CallCurrent'
    BY <1>1 DEF Read, CallCurrent
  <1>2. CASE \/ \E a \in Arms, event \in Events : Submit(a, event)
             \/ \E a \in Arms, key \in TimerKeys : Expire(a, key)
    BY <1>1, <1>2 DEF Submit, Expire, LoopFree
  <1>3. CASE call' = NoCall
    BY <1>3 DEF CallCurrent
  <1>4. CASE Handle
    BY <1>3, <1>4 DEF Handle, FromSpawning, FromStarting, FromIdle, TaskAssigned,
           FromTaskAssigned, HeartbeatWhileAssigned, AssignmentTimeout, TaskReported,
           FromWorking, FromDisconnected, FromStopped, FromError, Return
  <1>5. ASSUME UNCHANGED call, \A a \in Arms : row'[a].state \in {row[a].state, "idle"}
        PROVE  CallCurrent'
    BY <1>5, CallTypes DEF CallCurrent
  <1>6. CASE \E a \in Arms, caller \in Callers : RunEffect(a, caller)
    <2> PICK a \in Arms, caller \in Callers : RunEffect(a, caller)
      BY <1>6
    <2>1. Head(effects[a][caller]) \in Effects
      <3>1. effects[a][caller] \in Seq(Effects) /\ effects[a][caller] # << >>
        BY DEF RunEffect, Quiet, TypeOK
      <3> QED BY <3>1
    <2>2. CASE UNCHANGED row
      BY <1>5, <2>2 DEF RunEffect
    <2>3. CASE \E t \in Tasks, status \in TaskStatuses : PatchTask(t, status)
      BY <1>5, <2>3, PatchFrees DEF RunEffect
    <2> QED
      BY <2>1, <2>2, <2>3 DEF RunEffect, Effects
  <1>7. CASE \E t \in Tasks, status \in Releasing : OtherPatch(t, status)
    BY <1>5, <1>7, PatchFrees DEF OtherPatch, Releasing, TaskStatuses
  <1>8. CASE \/ \E a \in Arms, caller \in Callers : LoseEffect(a, caller)
             \/ Tick \/ UNCHANGED vars
    BY <1>5, <1>8 DEF LoseEffect, Tick, vars
  <1>10. CASE \E a \in Arms, t \in Tasks : ClearRow(a, t)
    BY <1>5, <1>10, FreedFacts DEF ClearRow
  <1>11. CASE \E a \in Arms, t \in Tasks : Claim(a, t) \/ Acknowledge(a, t)
    BY <1>5, <1>11 DEF Claim, Acknowledge
  <1>9. CASE \/ \E a \in Arms, state \in States : InitializeArm(a, state)
             \/ \E a \in Arms : DeleteArm(a)
             \/ Restart
    BY <1>3, <1>9 DEF InitializeArm, DeleteArm, LoopFree, Restart
  <1> QED
    BY <1>2, <1>4, <1>6, <1>7, <1>8, <1>9, <1>10, <1>11 DEF Next

LEMMA StepShortens ==
    ASSUME TypeOK, CallCurrent, [Next]_vars
    PROVE  WaitsShorten
  <1>1. CASE Handle
    BY <1>1, HandleShortens
  <1>2. CASE UNCHANGED timers
    BY <1>2, TimersOrdered DEF WaitsShorten
  <1>3. CASE \/ \E a \in Arms, key \in TimerKeys : Expire(a, key)
             \/ \E a \in Arms : DeleteArm(a)
             \/ Restart
    <2>1. \A a \in Arms, key \in TimerKeys : timers'[a][key] \in {timers[a][key], NoTimer}
      <3>1. CASE \E a \in Arms, key \in TimerKeys : Expire(a, key)
        BY <3>1 DEF Expire, TypeOK
      <3>2. CASE \E a \in Arms : DeleteArm(a)
        BY <3>2 DEF DeleteArm, TypeOK
      <3>3. CASE Restart
        BY <3>3 DEF Restart
      <3> QED
        BY <1>3, <3>1, <3>2, <3>3
    <2> QED
      BY <2>1, TimersOrdered DEF WaitsShorten
  <1>4. CASE Tick
    BY <1>4, TimersOrdered DEF Tick, WaitsShorten
  <1> QED
    BY <1>1, <1>2, <1>3, <1>4
       DEF Next, vars, Submit, RunEffect, LoseEffect, OtherPatch, ClearRow, Claim,
           Acknowledge, InitializeArm

\* The time left of a wait only gets shorter, for any arms and delays, whatever is
\* reported, lost or written by others.
THEOREM DeadlinesRunDownHolds == Spec => DeadlinesRunDown
  <1>1. Init => CallCurrent
    BY DEF Init, CallCurrent
  <1>2. TypeOK /\ CallCurrent /\ [Next]_vars => CallCurrent'
    BY CallStaysCurrent
  <1>3. TypeOK /\ CallCurrent /\ [Next]_vars => WaitsShorten
    BY StepShortens
  <1>4. WaitsShorten =>
          \A a \in Arms, key \in TimerKeys :
            Waiting(row[a].state, key) /\ row'[a].state = row[a].state =>
                timers'[a][key] <= timers[a][key]
    BY DEF WaitsShorten
  <1> QED
    BY <1>1, <1>2, <1>3, <1>4, TypeCorrect, PTL DEF Spec, DeadlinesRunDown
=============================================================================
