----------------------------- MODULE ArmLifecycle -----------------------------
(***************************************************************************)
(* The lifecycle of an arm: the class ArmStateMachine that the Brain runs  *)
(* (brain/arm-state-machine.ts), its rows in the table arm_state_machine,  *)
(* its in-memory timers, and the side effects it makes the Brain send to   *)
(* the API server.                                                         *)
(*                                                                         *)
(* A call of transition() has three stages.  It reads the row of the arm   *)
(* over HTTP (Submit, Expire), writes the row that the handler of          *)
(* (state, event) returns (the handlers below), and then                   *)
(* awaits the side effects one by one (RunEffect).  The first two stages   *)
(* are synchronous curl calls that block the Brain, but not the API        *)
(* server: a request of another client can run between them.  The third    *)
(* yields, so the callback of a timer can interleave with the poll loop.   *)
(*                                                                         *)
(* Claims and acknowledgements write the task alone, never the row; the    *)
(* only writers of a row besides the machine are the PATCHes that take the *)
(* assignment of a task away (PatchTask, ClearRow).                        *)
(*                                                                         *)
(* Timers count in units of a minute; a timer at 0 is due and fires        *)
(* whenever the event loop gets to it.  With delays of 0 a timer may fire  *)
(* at any time after it is set, which covers every timing.                 *)
(*                                                                         *)
(* The columns that no handler reads (previous_state, the timestamps, the  *)
(* error and heartbeat counters, the subject) are left out.                *)
(***************************************************************************)
EXTENDS Integers, Sequences

CONSTANTS
    Arms,            \* the arms that have, or may get, a row
    Tasks,           \* the tasks they may be assigned
    NoArm,           \* assigned_to IS NULL
    NoTask,          \* current_task_id IS NULL
    NoCall,          \* no call of transition() is between its read and its write
    StartupDelay,    \* 60000 ms
    AckDelay,        \* 180000 ms
    ReconnectDelay,  \* 300000 ms
    BusyDelay,       \* 600000 ms, "longer timeout for working arms"
    LoseEffects,     \* whether a request to the API may fail
    OtherWriters,    \* whether other clients PATCH tasks
    StrayReports,    \* whether events may name a task that is not theirs to name
    Sent,            \* the types of the events that callers send to the machine
    MaxRestarts      \* bound: restarts of the Brain

ASSUME NullAssumption == NoArm \notin Arms /\ NoTask \notin Tasks
ASSUME DelayAssumption ==
    {StartupDelay, AckDelay, ReconnectDelay, BusyDelay} \subseteq Nat
ASSUME SwitchAssumption ==
    /\ {LoseEffects, OtherWriters, StrayReports} \subseteq BOOLEAN
    /\ MaxRestarts \in Nat

VARIABLES
    row,       \* the table arm_state_machine
    task,      \* status and assigned_to in the table tasks
    clearing,  \* PATCHes that wrote the task and have still to clear the arm's row
    timers,    \* pendingTimeouts: minutes left of each key, or NoTimer
    call,      \* the transition() between its read and its write
    effects,   \* the side effects each caller has still to await
    restarts,  \* how often the Brain has restarted
    faults     \* history: what the environment has done so far, see Faults

vars == <<row, task, clearing, timers, call, effects, restarts, faults>>

-----------------------------------------------------------------------------
(* Types *)

States == {"spawning", "starting", "idle", "task_assigned", "working",
           "completing", "disconnected", "stopped", "error"}
Rows == [state: States \cup {"absent"}, task: Tasks \cup {NoTask}]
NoRow == [state |-> "absent", task |-> NoTask]

TimerKeys == {"startup", "task_ack", "reconnect"}
Callers == {"loop", "timer"}
NoTimer == -1

\* Here draft and blocked behave like failed, and cancelled like completed.
TaskStatuses == {"pending", "claimed", "in_progress", "completed", "failed"}
TaskRows == [status: TaskStatuses, owner: Arms \cup {NoArm}]

PlainEvents == {"SPAWN", "PROCESS_STARTED", "HARNESS_CONNECTED", "HEARTBEAT",
                "CONNECTION_LOST", "CONNECTION_RESTORED", "STOP", "ERROR",
                "TIMEOUT"}
TaskEvents == {"TASK_ASSIGNED", "TASK_ACKNOWLEDGED", "TASK_COMPLETED",
               "TASK_FAILED"}
Events == [type: PlainEvents, task: {NoTask}] \cup [type: TaskEvents, task: Tasks]
Plain(type) == [type |-> type, task |-> NoTask]

Calls == [by: Callers, arm: Arms, event: Events, ctx: Rows]

ASSUME CallAssumption == NoCall \notin Calls
ASSUME SentAssumption == Sent \subseteq (PlainEvents \cup TaskEvents) \ {"TIMEOUT"}

\* UPDATE_TASK_STATUS and RELEASE_TASK are a PATCH of the task, the second to
\* pending; MARK_ARM_STOPPED is a PATCH of the arm.
Effects == [kind: {"task"}, task: Tasks \cup {NoTask}, status: TaskStatuses]
             \cup [kind: {"stop"}, task: {NoTask}, status: {"pending"}]
UpdateTask(t, status) == [kind |-> "task", task |-> t, status |-> status]
ReleaseTask(t) == UpdateTask(t, "pending")
MarkStopped == [kind |-> "stop", task |-> NoTask, status |-> "pending"]

\* An effect was lost; a client or a stray report interfered with a task.
Faults == {"lost", "foreign"}

TypeOK ==
    /\ row \in [Arms -> Rows]
    /\ task \in [Tasks -> TaskRows]
    /\ clearing \subseteq Arms \X Tasks
    /\ timers \in [Arms -> [TimerKeys -> Nat \cup {NoTimer}]]
    /\ call \in Calls \cup {NoCall}
    /\ effects \in [Arms -> [Callers -> Seq(Effects)]]
    /\ restarts \in 0..MaxRestarts
    /\ faults \subseteq Faults

-----------------------------------------------------------------------------
(* Starting a call *)

Quiet(a, caller) == effects[a][caller] = << >>

\* The poll loop awaits each transition, side effects included, before the next.
LoopFree == call = NoCall /\ \A a \in Arms : Quiet(a, "loop")

Read(caller, a, event) ==
    call' = [by |-> caller, arm |-> a, event |-> event, ctx |-> row[a]]

\* The events each state has a handler for.  Any other event is an invalid
\* transition: the call returns an error after its read and changes nothing.
Handled(state) ==
    CASE state = "spawning"      -> {"PROCESS_STARTED", "ERROR", "TIMEOUT", "STOP"}
      [] state = "starting"      -> {"HARNESS_CONNECTED", "HEARTBEAT", "ERROR",
                                     "TIMEOUT", "STOP"}
      [] state = "idle"          -> {"TASK_ASSIGNED", "HEARTBEAT", "CONNECTION_LOST",
                                     "STOP", "ERROR"}
      [] state = "task_assigned" -> {"TASK_ACKNOWLEDGED", "HEARTBEAT", "TIMEOUT",
                                     "CONNECTION_LOST", "STOP", "TASK_COMPLETED",
                                     "TASK_FAILED"}
      [] state = "working"       -> {"HEARTBEAT", "TASK_COMPLETED", "TASK_FAILED",
                                     "CONNECTION_LOST", "STOP", "ERROR"}
      [] state = "completing"    -> {"HEARTBEAT", "TASK_COMPLETED", "STOP"}
      [] state = "disconnected"  -> {"CONNECTION_RESTORED", "HARNESS_CONNECTED",
                                     "HEARTBEAT", "TIMEOUT", "STOP", "TASK_COMPLETED"}
      [] state = "stopped"       -> {"SPAWN"}
      [] state = "error"         -> {"STOP", "SPAWN"}
      [] OTHER                   -> {}

\* A side effect about the task is awaited.
Pending(t) == \E a \in Arms, caller \in Callers :
                 ~Quiet(a, caller) /\ Head(effects[a][caller]).task = t

\* A report that does not name the task of the row; an assignment of a task that the
\* arm has not claimed, or that an effect is about to take away.
Stray(a, event) ==
    IF event.type = "TASK_ASSIGNED"
      THEN task[event.task] # [status |-> "claimed", owner |-> a] \/ Pending(event.task)
      ELSE event.task \notin {NoTask, row[a].task}

\* An event is passed to the arm's machine.
Submit(a, event) ==
    /\ LoopFree
    /\ event.type \in Sent \cap Handled(row[a].state)
    /\ Stray(a, event) => StrayReports
    /\ Read("loop", a, event)
    /\ faults' = IF Stray(a, event) THEN faults \cup {"foreign"} ELSE faults
    /\ UNCHANGED <<row, task, clearing, timers, effects, restarts>>

\* The callback of a timer.  Bound: the effects of the last callback for the arm
\* have ended; they take seconds, the delays are minutes.
Expire(a, key) ==
    /\ call = NoCall
    /\ timers[a][key] = 0
    /\ Quiet(a, "timer")
    /\ timers' = [timers EXCEPT ![a][key] = NoTimer]
    /\ IF "TIMEOUT" \in Handled(row[a].state) THEN Read("timer", a, Plain("TIMEOUT"))
                                              ELSE UNCHANGED call
    /\ UNCHANGED <<row, task, clearing, effects, restarts, faults>>

-----------------------------------------------------------------------------
(* The handlers: each writes the row from the context that was read *)

On(state, type) ==
    /\ call # NoCall
    /\ call.ctx.state = state
    /\ call.event.type = type

Persist(state, held) ==
    row' = [row EXCEPT ![call.arm] = [state |-> state, task |-> held]]

Return(delayed, after) ==
    /\ timers' = delayed
    /\ effects' = [effects EXCEPT ![call.arm][call.by] = after]
    /\ call' = NoCall
    /\ UNCHANGED <<task, clearing, restarts, faults>>

Schedule(key, delay) == [timers EXCEPT ![call.arm][key] = delay]

Held == call.ctx.task

FromSpawning ==
    \/ /\ On("spawning", "PROCESS_STARTED")
       /\ Persist("starting", Held)
       /\ Return(Schedule("startup", StartupDelay), << >>)
    \/ /\ On("spawning", "ERROR") \/ On("spawning", "TIMEOUT")
       /\ Persist("error", Held)
       /\ Return(timers, << >>)
    \/ /\ On("spawning", "STOP")
       /\ Persist("stopped", Held)
       /\ Return(timers, << >>)

FromStarting ==
    \/ /\ On("starting", "HARNESS_CONNECTED") \/ On("starting", "HEARTBEAT")
       /\ Persist("idle", Held)
       /\ Return(timers, << >>)
    \/ /\ On("starting", "ERROR") \/ On("starting", "TIMEOUT")
       /\ Persist("error", Held)
       /\ Return(timers, << >>)
    \/ /\ On("starting", "STOP")
       /\ Persist("stopped", Held)
       /\ Return(timers, << >>)

\* Slip: the assignment forgets to schedule the acknowledgement timeout.
TaskAssignedUntimed ==
    /\ On("idle", "TASK_ASSIGNED")
    /\ Persist("task_assigned", call.event.task)
    /\ Return(timers, << >>)

TaskAssigned ==
    /\ On("idle", "TASK_ASSIGNED")
    /\ Persist("task_assigned", call.event.task)
    /\ Return(Schedule("task_ack", AckDelay), << >>)

FromIdle ==
    \/ TaskAssigned
    \/ /\ On("idle", "HEARTBEAT")
       /\ Persist("idle", Held)
       /\ Return(timers, << >>)
    \/ /\ On("idle", "CONNECTION_LOST")
       /\ Persist("disconnected", Held)
       /\ Return(Schedule("reconnect", ReconnectDelay), << >>)
    \/ /\ On("idle", "STOP")
       /\ Persist("stopped", Held)
       /\ Return(timers, <<MarkStopped>>)
    \/ /\ On("idle", "ERROR")
       /\ Persist("error", Held)
       /\ Return(timers, << >>)

\* The arm reports on its task; the machine takes the task of the event, not the
\* one of its row, and is idle.
TaskReported(state, type, status) ==
    /\ On(state, type)
    /\ Persist("idle", NoTask)
    /\ Return(timers, <<UpdateTask(call.event.task, status)>>)

\* Slip: a heartbeat gives the arm another three minutes to acknowledge.
HeartbeatExtends ==
    /\ On("task_assigned", "HEARTBEAT")
    /\ Persist("task_assigned", Held)
    /\ Return(Schedule("task_ack", AckDelay), << >>)

HeartbeatWhileAssigned ==
    /\ On("task_assigned", "HEARTBEAT")
    /\ Persist("task_assigned", Held)
    /\ Return(timers, << >>)

\* Slip: the row keeps the task it releases.
AssignmentTimeoutKeepsTask ==
    /\ On("task_assigned", "TIMEOUT")
    /\ Persist("idle", Held)
    /\ Return(timers, <<ReleaseTask(Held)>>)

\* The handler does not look at which timer it was.
AssignmentTimeout ==
    /\ On("task_assigned", "TIMEOUT")
    /\ Persist("idle", NoTask)
    /\ Return(timers, <<ReleaseTask(Held)>>)

FromTaskAssigned ==
    \/ /\ On("task_assigned", "TASK_ACKNOWLEDGED")
       /\ call.event.task = Held
       /\ Persist("working", Held)
       /\ Return(timers, <<UpdateTask(Held, "in_progress")>>)
    \/ /\ On("task_assigned", "TASK_ACKNOWLEDGED")
       /\ call.event.task # Held
       /\ Persist("task_assigned", Held)
       /\ Return(timers, << >>)
    \/ HeartbeatWhileAssigned
    \/ AssignmentTimeout
    \/ /\ On("task_assigned", "CONNECTION_LOST")
       /\ Persist("disconnected", Held)
       /\ Return(Schedule("reconnect", ReconnectDelay), << >>)
    \/ /\ On("task_assigned", "STOP")
       /\ Persist("stopped", Held)
       /\ Return(timers, <<ReleaseTask(Held), MarkStopped>>)
    \/ TaskReported("task_assigned", "TASK_COMPLETED", "completed")
    \/ TaskReported("task_assigned", "TASK_FAILED", "failed")

\* working, and completing: "future: verification workflow", which no handler enters.
FromWorking ==
    \/ /\ \E state \in {"working", "completing"} : On(state, "HEARTBEAT")
       /\ Persist(call.ctx.state, Held)
       /\ Return(timers, << >>)
    \/ \E state \in {"working", "completing"} :
            TaskReported(state, "TASK_COMPLETED", "completed")
    \/ TaskReported("working", "TASK_FAILED", "failed")
    \/ /\ On("working", "CONNECTION_LOST")
       /\ Persist("disconnected", Held)
       /\ Return(Schedule("reconnect", BusyDelay), << >>)
    \/ /\ \E state \in {"working", "completing"} : On(state, "STOP")
       /\ Persist("stopped", Held)
       /\ Return(timers, IF call.ctx.state = "working"
                           THEN <<UpdateTask(Held, "failed"), MarkStopped>>
                           ELSE <<MarkStopped>>)
    \/ /\ On("working", "ERROR")
       /\ Persist("error", Held)
       /\ Return(timers, <<UpdateTask(Held, "failed")>>)

IfHeld(effect) == IF Held = NoTask THEN << >> ELSE <<effect>>

\* An arm that comes back with a task is working on it, whatever it did before.
FromDisconnected ==
    \/ /\ \E type \in {"CONNECTION_RESTORED", "HARNESS_CONNECTED", "HEARTBEAT"} :
            On("disconnected", type)
       /\ Persist(IF Held # NoTask THEN "working" ELSE "idle", Held)
       /\ Return(timers, << >>)
    \/ /\ On("disconnected", "TIMEOUT") \/ On("disconnected", "STOP")
       /\ Persist("stopped", Held)
       /\ Return(timers, IfHeld(ReleaseTask(Held)) \o <<MarkStopped>>)
    \/ TaskReported("disconnected", "TASK_COMPLETED", "completed")

FromStopped ==
    /\ On("stopped", "SPAWN")
    /\ Persist("spawning", NoTask)
    /\ Return(timers, << >>)

\* Unlike stopped, error spawns with the task it failed with.
FromError ==
    \/ /\ On("error", "STOP")
       /\ Persist("stopped", Held)
       /\ Return(timers, <<MarkStopped>>)
    \/ /\ On("error", "SPAWN")
       /\ Persist("spawning", Held)
       /\ Return(timers, << >>)

Handle ==
    \/ FromSpawning \/ FromStarting \/ FromIdle \/ FromTaskAssigned \/ FromWorking
    \/ FromDisconnected \/ FromStopped \/ FromError

-----------------------------------------------------------------------------
(* The API server *)

\* A task set to one of these statuses loses its assignment.
Releasing == {"pending", "completed", "failed"}
Occupied == {"task_assigned", "working", "completing", "disconnected"}

\* The row of the arm a released task was assigned to, if it still names it.
Freed(r, t) ==
    IF r.task # t THEN r
    ELSE [r EXCEPT !.task = NoTask,
                   !.state = IF @ \in Occupied THEN "idle" ELSE @]

FreeRow(a, t) == row' = [row EXCEPT ![a] = Freed(@, t)]

\* The PATCH to one of these also ticks the line of the plan, and awaits it.
Synced == Releasing \ {"failed"}

\* PATCH /api/tasks/:id with a status, and no arm or a null one.  The task is written
\* first; the row of the arm it was assigned to is cleared at the end of the handler,
\* after the plan file.  Bound: PATCHes of one arm's task that are between the two are
\* counted once.
PatchTask(t, status) ==
    IF status \in Releasing
      THEN /\ task' = [task EXCEPT ![t] = [status |-> status, owner |-> NoArm]]
           /\ LET owner == task[t].owner
              IN  \/ /\ owner # NoArm /\ status \in Synced
                     /\ clearing' = clearing \cup {<<owner, t>>}
                     /\ UNCHANGED row
                  \/ /\ owner # NoArm /\ status \notin Synced
                     /\ FreeRow(owner, t)
                     /\ UNCHANGED clearing
                  \/ owner = NoArm /\ UNCHANGED <<row, clearing>>
      ELSE /\ task' = [task EXCEPT ![t].status = status]
           /\ UNCHANGED <<row, clearing>>

\* The plan file is written, and the handler goes on with the arm that it read first.
ClearRow(a, t) ==
    /\ <<a, t>> \in clearing
    /\ FreeRow(a, t)
    /\ clearing' = clearing \ {<<a, t>>}
    /\ UNCHANGED <<task, timers, call, effects, restarts, faults>>

Await(a, caller) == effects' = [effects EXCEPT ![a][caller] = Tail(@)]

\* A side effect reaches the API, which may run it while the Brain is between
\* a read and a write.  The PATCH of an undefined task answers 404, and the one that
\* marks the arm stopped is of the table arms, which the machine does not read.  The
\* Brain waits for the answer two seconds, the row may or may not be cleared by then.
RunEffect(a, caller) ==
    /\ ~Quiet(a, caller)
    /\ LET effect == Head(effects[a][caller])
       IN  \/ /\ effect.kind = "task" /\ effect.task # NoTask
              /\ PatchTask(effect.task, effect.status)
           \/ /\ effect.kind = "stop" \/ effect.task = NoTask
              /\ UNCHANGED <<row, task, clearing>>
    /\ Await(a, caller)
    /\ UNCHANGED <<timers, call, restarts, faults>>

\* apiRequest() returns null when the API is away or slow; nobody looks at it.
LoseEffect(a, caller) ==
    /\ LoseEffects
    /\ call = NoCall
    /\ ~Quiet(a, caller)
    /\ Await(a, caller)
    /\ faults' = faults \cup {"lost"}
    /\ UNCHANGED <<row, task, clearing, timers, call, restarts>>

\* Another client, the web UI for one, sets the status of a task; it may do so
\* while the Brain is between the read and the write of a transition.
OtherPatch(t, status) ==
    /\ OtherWriters
    /\ status \in Releasing
    /\ PatchTask(t, status)
    /\ faults' = faults \cup {"foreign"}
    /\ UNCHANGED <<timers, call, effects, restarts>>

\* The Brain gives a task to the arm that claims it: one that nobody has, or the
\* arm's own once more.
Claim(a, t) ==
    /\ LoopFree
    /\ task[t] = [status |-> "pending", owner |-> NoArm] \/ task[t].owner = a
    /\ task' = [task EXCEPT ![t] = [status |-> "claimed", owner |-> a]]
    /\ UNCHANGED <<row, clearing, timers, call, effects, restarts, faults>>

\* The Brain writes the acknowledgement of an arm to the task, whatever the machine
\* made of it, and whatever has become of the task.
Acknowledge(a, t) ==
    /\ LoopFree
    /\ task[t].owner # a => StrayReports
    /\ task' = [task EXCEPT ![t] = [status |-> "in_progress", owner |-> a]]
    /\ faults' = IF task[t].owner # a THEN faults \cup {"foreign"} ELSE faults
    /\ UNCHANGED <<row, clearing, timers, call, effects, restarts>>

-----------------------------------------------------------------------------
(* The Brain around the machine *)

\* Slip: loadArms() passes the status of the arm on unmapped.
InitializeUnmapped(a, state) ==
    /\ LoopFree
    /\ row[a].state = "absent" /\ state \in {"idle", "starting", "working"}
    /\ row' = [row EXCEPT ![a] = [state |-> IF state = "working" THEN "busy" ELSE state,
                                  task |-> NoTask]]
    /\ UNCHANGED <<task, clearing, timers, call, effects, restarts, faults>>

\* loadArms() gives a row to an arm that has none, after the status in arms;
\* scanForRunningArms() starts a live process afresh that was stopped or failed.
InitializeArm(a, state) ==
    /\ LoopFree
    /\ \/ row[a].state = "absent" /\ state \in {"idle", "starting", "working"}
       \/ row[a].state \in {"stopped", "error"} /\ state = "idle"
    /\ row' = [row EXCEPT ![a] = [state |-> state, task |-> NoTask]]
    /\ UNCHANGED <<task, clearing, timers, call, effects, restarts, faults>>

DeleteArm(a) ==
    /\ LoopFree
    /\ row[a].state \in {"stopped", "error"}
    /\ row' = [row EXCEPT ![a] = NoRow]
    /\ timers' = [timers EXCEPT ![a] = [key \in TimerKeys |-> NoTimer]]
    /\ UNCHANGED <<task, clearing, call, effects, restarts, faults>>

\* shutdown() or a crash: the timers, the call and the effects are gone.
Restart ==
    /\ restarts < MaxRestarts
    /\ restarts' = restarts + 1
    /\ timers' = [a \in Arms |-> [key \in TimerKeys |-> NoTimer]]
    /\ call' = NoCall
    /\ effects' = [a \in Arms |-> [caller \in Callers |-> << >>]]
    /\ UNCHANGED <<row, task, clearing, faults>>

Tick ==
    /\ \E a \in Arms, key \in TimerKeys : timers[a][key] > 0
    /\ timers' = [a \in Arms |-> [key \in TimerKeys |->
                    IF timers[a][key] > 0 THEN timers[a][key] - 1 ELSE timers[a][key]]]
    /\ UNCHANGED <<row, task, clearing, call, effects, restarts, faults>>

Init ==
    /\ row = [a \in Arms |-> NoRow]
    /\ task = [t \in Tasks |-> [status |-> "pending", owner |-> NoArm]]
    /\ clearing = {}
    /\ timers = [a \in Arms |-> [key \in TimerKeys |-> NoTimer]]
    /\ call = NoCall
    /\ effects = [a \in Arms |-> [caller \in Callers |-> << >>]]
    /\ restarts = 0
    /\ faults = {}

Next ==
    \/ \E a \in Arms, event \in Events : Submit(a, event)
    \/ \E a \in Arms, key \in TimerKeys : Expire(a, key)
    \/ Handle
    \/ \E a \in Arms, caller \in Callers : RunEffect(a, caller) \/ LoseEffect(a, caller)
    \/ \E t \in Tasks, status \in Releasing : OtherPatch(t, status)
    \/ \E a \in Arms, t \in Tasks : ClearRow(a, t) \/ Claim(a, t) \/ Acknowledge(a, t)
    \/ \E a \in Arms, state \in States : InitializeArm(a, state)
    \/ \E a \in Arms : DeleteArm(a)
    \/ Restart
    \/ Tick

Spec == Init /\ [][Next]_vars

\* Time passes, a call ends, a request ends, and the event loop runs a timer that
\* is due between two other calls (strong fairness: a call in progress disables it).
Fairness ==
    /\ WF_vars(Tick)
    /\ WF_vars(Handle)
    /\ \A a \in Arms, key \in TimerKeys : SF_vars(Expire(a, key))
    /\ \A a \in Arms, caller \in Callers : WF_vars(RunEffect(a, caller))
    /\ \A a \in Arms, t \in Tasks : WF_vars(ClearRow(a, t))

FairSpec == Spec /\ Fairness

-----------------------------------------------------------------------------
(* Properties *)

Waiting(state, key) == \/ state = "task_assigned" /\ key = "task_ack"
                       \/ state = "disconnected" /\ key = "reconnect"

\* In one run of the Brain, a row that waits for an acknowledgement or for the
\* arm to come back always has the timer that ends the wait, or that timer has
\* just fired and its TIMEOUT is about to be handled in that state.  Heartbeats,
\* acknowledgements of another task, and the API writing the row under a
\* transition in progress never leave a wait without its end.
NoWaitWithoutDeadline ==
    restarts = 0 =>
        \A a \in Arms, key \in TimerKeys :
            Waiting(row[a].state, key) =>
                \/ timers[a][key] # NoTimer
                \/ /\ call # NoCall
                   /\ call.arm = a /\ call.by = "timer" /\ call.ctx.state = row[a].state

\* As long as nobody else interferes, a task that was reported complete is never
\* failed, nor put back to pending by a timer or a stop that was under way, although
\* timers are never cancelled, effects get lost and the Brain restarts.
CompletedStaysCompleted ==
    [][faults' \subseteq {"lost"} =>
         \A t \in Tasks : task[t].status = "completed" => task'[t].status = "completed"]_vars

\* As long as a row waits, the time it still waits for only gets shorter: nothing an
\* arm that does not do its part sends or is sent, no report that comes late or names
\* another task, and no write of the API under a transition, puts the deadline off.
DeadlinesRunDown ==
    [][\A a \in Arms, key \in TimerKeys :
         Waiting(row[a].state, key) /\ row'[a].state = row[a].state =>
             timers'[a][key] <= timers[a][key]]_vars

\* Every wait ends: an assigned task is acknowledged, finished or released, and a
\* disconnected arm comes back or is stopped.
WaitsEnd ==
    \A a \in Arms, s \in {"task_assigned", "disconnected"} :
        (row[a].state = s) ~> (row[a].state # s)
=============================================================================
