---------------------------- MODULE ArmTasksProofs ----------------------------
(***************************************************************************)
(* What TLAPS proves of ArmLifecycle about the tasks: who holds them, and  *)
(* what the side effects under way will do to them, for any number of arms *)
(* and tasks and any delays.                                               *)
(***************************************************************************)
EXTENDS ArmLifecycleProofs, SequenceTheorems

-----------------------------------------------------------------------------
(* The invariant *)

Active == {"claimed", "in_progress"}

\* The next side effect of a caller is about a task.
Due(a, caller, t) == effects[a][caller] # << >> /\ effects[a][caller][1].task = t
Status(a, caller) == effects[a][caller][1].status

\* At most two effects are awaited, and the second marks the arm stopped.
Short(s) == Len(s) <= 2 /\ (Len(s) = 2 => s[2] = MarkStopped)
Tidy == \A a \in Arms, caller \in Callers : Short(effects[a][caller])

\* Only a task that is taken has an assignee, and what a row holds is its arm's, but
\* for a stopped row that has still to be cleared.
Owned ==
    /\ \A t \in Tasks : task[t].owner # NoArm => task[t].status \in Active
    /\ \A a \in Arms, t \in Tasks :
         row[a].task = t => task[t].owner = a \/ row[a].state = "stopped"

\* The states in which a row may hold a task that an effect with this status is about:
\* a release finds it in a stopped row at most, or in a failed one that is cleared with
\* the task, and an acknowledgement in a working one.
Holding(caller, status) ==
    IF status \in Releasing
      THEN {"stopped"} \cup (IF caller = "loop" /\ status = "failed" THEN {"error"} ELSE {})
      ELSE {"working"}

\* An effect is about a task of its arm that no other effect is about.
Disposed(a, caller, t) ==
    /\ task[t].owner = a
    /\ \A other \in Callers \ {caller} : ~Due(a, other, t)
    /\ Status(a, caller) \notin Releasing => caller = "loop"
    /\ row[a].task = t => row[a].state \in Holding(caller, Status(a, caller))
Disposing ==
    \A a \in Arms, caller \in Callers, t \in Tasks : Due(a, caller, t) => Disposed(a, caller, t)

\* A call in progress has no effects yet.  Unless it read a stopped row, the task it
\* read or the one that it was told to take is its arm's, and no effect is about it.
CallQuiet ==
    /\ Quiet(call.arm, call.by)
    /\ call.by = "loop" => \A a \in Arms : Quiet(a, "loop")
    /\ call.by = "timer" => call.event.type = "TIMEOUT" /\ call.ctx.state # "stopped"
Free(t) ==
    task[t].owner = call.arm /\ \A caller \in Callers : ~Due(call.arm, caller, t)
CallReads ==
    call.ctx.state # "stopped" => \A t \in Tasks : call.ctx.task = t => Free(t)
CallNames ==
    IF call.event.type = "TASK_ASSIGNED"
      THEN call.by = "loop" /\ call.ctx.state = "idle" /\ Free(call.event.task)
      ELSE call.event.task \in {NoTask, call.ctx.task}
Calling == call # NoCall => CallQuiet /\ CallReads /\ CallNames

Undisturbed == Tidy /\ Owned /\ Disposing /\ Calling
HoldInv == faults \subseteq {"lost"} => Undisturbed

-----------------------------------------------------------------------------
(* The handlers *)

\* What a handler writes is right for the tasks: it keeps the task it read or the
\* one that was assigned, and its first effect is about the task it read.
Careful(state, held, after) ==
    /\ Short(after)
    /\ held # NoTask =>
         \/ held = Held /\ call.ctx.state # "stopped"
         \/ held = call.event.task /\ call.event.type = "TASK_ASSIGNED" /\ after = << >>
    /\ after # << >> /\ after[1].task # NoTask =>
         /\ after[1].task = Held /\ call.ctx.state # "stopped"
         /\ after[1].status \notin Releasing => call.by = "loop"
         /\ held = Held => state \in Holding(call.by, after[1].status)

\* What a handler changes.
LEMMA HandlerEffect ==
    ASSUME TypeOK, call # NoCall,
           NEW state \in States, NEW held \in Tasks \cup {NoTask},
           NEW delayed, NEW after \in Seq(Effects),
           Persist(state, held), Return(delayed, after)
    PROVE  /\ row'[call.arm] = [state |-> state, task |-> held]
           /\ \A a \in Arms \ {call.arm} : row'[a] = row[a]
           /\ effects'[call.arm][call.by] = after
           /\ \A a \in Arms, caller \in Callers :
                a # call.arm \/ caller # call.by => effects'[a][caller] = effects[a][caller]
           /\ call' = NoCall /\ UNCHANGED <<task, restarts, faults>>
  <1>1. call.arm \in Arms /\ call.by \in Callers
    BY CallTypes
  <1> QED
    BY <1>1 DEF Persist, Return, TypeOK

LEMMA HandlerKeepsHold ==
    ASSUME TypeOK, Undisturbed, call # NoCall,
           NEW state \in States, NEW held \in Tasks \cup {NoTask},
           NEW delayed, NEW after \in Seq(Effects),
           Persist(state, held), Return(delayed, after), Careful(state, held, after)
    PROVE  Undisturbed'
  <1>0. /\ row'[call.arm] = [state |-> state, task |-> held]
        /\ \A a \in Arms \ {call.arm} : row'[a] = row[a]
        /\ effects'[call.arm][call.by] = after
        /\ \A a \in Arms, caller \in Callers :
             a # call.arm \/ caller # call.by => effects'[a][caller] = effects[a][caller]
        /\ call' = NoCall /\ UNCHANGED <<task, restarts, faults>>
    BY HandlerEffect
  <1>1. /\ call.arm \in Arms /\ call.by \in Callers /\ Held \in Tasks \cup {NoTask}
        /\ Held = call.ctx.task
    BY CallTypes DEF Held
  <1>2. CallQuiet /\ CallReads /\ CallNames
    BY DEF Undisturbed, Calling
  <1>3. Tidy'
    BY <1>1, <1>0 DEF Undisturbed, Tidy, Careful
  <1>h. ASSUME NEW t \in Tasks, held = t
        PROVE  Free(t)
    BY <1>1, <1>2, <1>h, NullAssumption DEF Careful, CallReads, CallNames
  <1>4. Owned'
    BY <1>1, <1>h, <1>0 DEF Undisturbed, Owned, Free
  <1>5. ASSUME NEW t \in Tasks, after # << >>, after[1].task = t
        PROVE  t = Held /\ Free(t)
    BY <1>1, <1>2, <1>5, NullAssumption DEF Careful, CallReads
  <1>6. Disposing'
    <2> SUFFICES ASSUME NEW a \in Arms, NEW caller \in Callers, NEW t \in Tasks,
                        Due(a, caller, t)'
                 PROVE  Disposed(a, caller, t)'
      BY DEF Disposing
    <2>1. CASE a # call.arm
      <3>1. Due(a, caller, t) /\ Disposed(a, caller, t)
        BY <2>1, <1>0 DEF Due, Undisturbed, Disposing
      <3> QED
        BY <2>1, <3>1, <1>0 DEF Disposed, Due, Status
    <2>2. CASE a = call.arm /\ caller = call.by
      <3>1. after # << >> /\ after[1].task = t /\ t = Held /\ Free(t)
        BY <1>5, <2>2, <1>0 DEF Due
      <3>2. \A other \in Callers \ {caller} : ~Due(a, other, t)'
        BY <2>2, <3>1, <1>0 DEF Due, Free
      <3>3. task'[t].owner = a
        BY <2>2, <3>1, <1>0 DEF Free
      <3>4. /\ after[1].status \notin Releasing => call.by = "loop"
            /\ held = t => state \in Holding(call.by, after[1].status)
        BY <3>1, NullAssumption DEF Careful
      <3> QED
        BY <2>2, <3>2, <3>3, <3>4, <1>0 DEF Disposed, Status
    <2>3. CASE a = call.arm /\ caller # call.by
      <3>1. Due(a, caller, t) /\ Disposed(a, caller, t)
        BY <2>3, <1>0 DEF Due, Undisturbed, Disposing
      <3>2. held # t
        BY <1>h, <2>3, <3>1 DEF Free
      <3>3. \A other \in Callers \ {caller} : ~Due(a, other, t)'
        <4>1. \A other \in Callers : other = call.by => ~Due(a, other, t)'
          BY <1>5, <2>3, <3>1, <1>0 DEF Due, Free
        <4> QED
          BY <2>3, <3>1, <4>1, <1>0 DEF Disposed, Due
      <3> QED
        BY <2>3, <3>1, <3>2, <3>3, <1>0 DEF Disposed, Status
    <2> QED
      BY <2>1, <2>2, <2>3
  <1>7. Calling'
    BY <1>0 DEF Calling
  <1> QED
    BY <1>3, <1>4, <1>6, <1>7 DEF Undisturbed

\* The obligation of a handler: what it writes is careful.
LEMMA HandlerKeeps ==
    ASSUME TypeOK, Undisturbed, Handle,
           NEW state \in States, NEW held \in Tasks \cup {NoTask},
           NEW delayed, NEW after \in Seq(Effects),
           Persist(state, held), Return(delayed, after), Careful(state, held, after)
    PROVE  Undisturbed'
  BY HandlerFacts, HandlerKeepsHold

\* What the machine knows of the call it handles.
LEMMA CallFacts ==
    ASSUME TypeOK, Undisturbed, Handle
    PROVE  /\ call.event.type # "TIMEOUT" => call.by = "loop"
           /\ call.event.type \in TaskEvents \ {"TASK_ASSIGNED"} =>
                call.event.task \in {NoTask, Held}
  <1>1. call # NoCall /\ call.by \in Callers
    BY HandlerFacts, CallTypes
  <1>2. CallQuiet /\ CallNames
    BY <1>1 DEF Undisturbed, Calling
  <1> QED
    BY <1>1, <1>2 DEF CallQuiet, CallNames, Callers, Held

\* A handler that leaves the task to the row, or lets it go where there is none.
LEMMA QuietHandler ==
    ASSUME TypeOK, Undisturbed, Handle,
           NEW state \in States, NEW held \in Tasks \cup {NoTask},
           NEW delayed, NEW after \in {<< >>, <<MarkStopped>>},
           Persist(state, held), Return(delayed, after),
           \/ held = NoTask
           \/ held = Held /\ call.ctx.state # "stopped"
           \/ held = call.event.task /\ call.event.type = "TASK_ASSIGNED" /\ after = << >>
    PROVE  Undisturbed'
  <1>1. after \in Seq(Effects)
    BY HandlerFacts
  <1>2. Short(after) /\ (after # << >> => after[1].task = NoTask)
    BY DEF Short, MarkStopped
  <1>3. Careful(state, held, after)
    BY <1>2 DEF Careful
  <1> QED
    BY <1>1, <1>3, HandlerKeeps

\* A handler whose first effect disposes of the task it read.
LEMMA DisposingHandler ==
    ASSUME TypeOK, Undisturbed, Handle,
           NEW state \in States, NEW held \in {NoTask, Held},
           NEW delayed, NEW after \in Seq(Effects), NEW status \in TaskStatuses,
           Persist(state, held), Return(delayed, after),
           Short(after), after # << >>, after[1].task = Held, after[1].status = status,
           call.ctx.state # "stopped",
           status \notin Releasing => call.by = "loop",
           held = NoTask \/ state \in Holding(call.by, status)
    PROVE  Undisturbed'
  <1>1. held \in Tasks \cup {NoTask}
    BY HandlerFacts
  <1>2. Careful(state, held, after)
    BY DEF Careful
  <1> QED
    BY <1>1, <1>2, HandlerKeeps

LEMMA EffectHandler ==
    ASSUME TypeOK, Undisturbed, Handle,
           NEW state \in States, NEW held \in {NoTask, Held},
           NEW delayed, NEW status \in TaskStatuses,
           NEW after \in {<<UpdateTask(Held, status)>>, <<UpdateTask(Held, status), MarkStopped>>},
           Persist(state, held), Return(delayed, after),
           call.ctx.state # "stopped",
           status \notin Releasing => call.by = "loop",
           held = NoTask \/ state \in Holding(call.by, status)
    PROVE  Undisturbed'
  <1>1. after \in Seq(Effects)
    BY HandlerFacts
  <1>2. /\ Short(after) /\ after # << >>
        /\ after[1].task = Held /\ after[1].status = status
    <2>1. CASE after = <<UpdateTask(Held, status)>>
      BY <2>1 DEF Short, UpdateTask
    <2>2. CASE after = <<UpdateTask(Held, status), MarkStopped>>
      BY <2>2 DEF Short, UpdateTask
    <2> QED
      BY <2>1, <2>2
  <1> QED
    BY <1>1, <1>2, DisposingHandler

LEMMA HandleKeeps ==
    ASSUME TypeOK, Undisturbed, Handle
    PROVE  Undisturbed'
  <1> USE HandlerFacts, CallFacts DEF On
  <1>1. CASE FromSpawning
    BY <1>1, QuietHandler DEF FromSpawning, States
  <1>2. CASE FromStarting
    BY <1>2, QuietHandler DEF FromStarting, States
  <1>t. ASSUME NEW state, NEW type \in {"TASK_COMPLETED", "TASK_FAILED"},
               NEW status \in {"completed", "failed"}, state # "stopped",
               TaskReported(state, type, status)
        PROVE  Undisturbed'
    <2>1. call.event.task = Held /\ call.ctx.state = state /\ call.event.type = type
      BY <1>t, NullAssumption DEF TaskReported, TaskEvents
    <2>2. status \in TaskStatuses \cap Releasing
      BY DEF TaskStatuses, Releasing
    <2> QED
      BY <1>t, <2>1, <2>2, EffectHandler DEF TaskReported, States, Holding
  <1>3. CASE FromIdle
    <2>1. CASE TaskAssigned
      <3>1. call.event.task \in Tasks /\ call.ctx.state = "idle"
        BY <2>1 DEF TaskAssigned, TaskEvents
      <3> QED
        BY <2>1, <3>1, QuietHandler DEF TaskAssigned, States
    <2> QED
      BY <1>3, <2>1, QuietHandler DEF FromIdle, States
  <1>4. CASE FromTaskAssigned
    <2>1. CASE HeartbeatWhileAssigned
      BY <2>1, QuietHandler DEF HeartbeatWhileAssigned, States
    <2>2. "pending" \in TaskStatuses \cap Releasing /\ "in_progress" \in TaskStatuses \ Releasing
      BY DEF TaskStatuses, Releasing
    <2>3. CASE AssignmentTimeout
      BY <2>2, <2>3, EffectHandler DEF AssignmentTimeout, ReleaseTask, States, Holding
    <2>4. CASE \/ TaskReported("task_assigned", "TASK_COMPLETED", "completed")
               \/ TaskReported("task_assigned", "TASK_FAILED", "failed")
      BY <1>t, <2>4
    <2>5. CASE On("task_assigned", "TASK_ACKNOWLEDGED") /\ Persist("working", Held)
                /\ Return(timers, <<UpdateTask(Held, "in_progress")>>)
      BY <2>2, <2>5, EffectHandler DEF States, Holding
    <2>6. CASE On("task_assigned", "STOP") /\ Persist("stopped", Held)
                /\ Return(timers, <<ReleaseTask(Held), MarkStopped>>)
      BY <2>2, <2>6, EffectHandler DEF ReleaseTask, States, Holding
    <2>7. CASE On("task_assigned", "TASK_ACKNOWLEDGED") /\ Persist("task_assigned", Held)
                /\ Return(timers, << >>)
      BY <2>7, QuietHandler DEF States
    <2>8. CASE On("task_assigned", "CONNECTION_LOST") /\ Persist("disconnected", Held)
                /\ Return(Schedule("reconnect", ReconnectDelay), << >>)
      BY <2>8, QuietHandler DEF States
    <2> QED
      BY <1>4, <2>1, <2>3, <2>4, <2>5, <2>6, <2>7, <2>8 DEF FromTaskAssigned
  <1>5. CASE FromWorking
    <2>1. "failed" \in TaskStatuses \cap Releasing
      BY DEF TaskStatuses, Releasing
    <2>2. CASE \/ \E state \in {"working", "completing"} :
                     TaskReported(state, "TASK_COMPLETED", "completed")
               \/ TaskReported("working", "TASK_FAILED", "failed")
      BY <1>t, <2>2
    <2>3. CASE \E state \in {"working", "completing"} : On(state, "HEARTBEAT")
                /\ Persist(call.ctx.state, Held) /\ Return(timers, << >>)
      BY <2>3, QuietHandler DEF States
    <2>4. CASE On("working", "CONNECTION_LOST") /\ Persist("disconnected", Held)
                /\ Return(Schedule("reconnect", BusyDelay), << >>)
      BY <2>4, QuietHandler DEF States
    <2>5. CASE On("working", "STOP") /\ Persist("stopped", Held)
                /\ Return(timers, <<UpdateTask(Held, "failed"), MarkStopped>>)
      BY <2>1, <2>5, EffectHandler DEF States, Holding
    <2>6. CASE On("completing", "STOP") /\ Persist("stopped", Held)
                /\ Return(timers, <<MarkStopped>>)
      BY <2>6, QuietHandler DEF States
    <2>7. CASE On("working", "ERROR") /\ Persist("error", Held)
                /\ Return(timers, <<UpdateTask(Held, "failed")>>)
      BY <2>1, <2>7, EffectHandler DEF States, Holding
    <2> QED
      BY <1>5, <2>2, <2>3, <2>4, <2>5, <2>6, <2>7 DEF FromWorking
  <1>6. CASE FromDisconnected
    <2>1. CASE TaskReported("disconnected", "TASK_COMPLETED", "completed")
      BY <1>t, <2>1
    <2>2. CASE \E type \in {"CONNECTION_RESTORED", "HARNESS_CONNECTED", "HEARTBEAT"} :
                  /\ On("disconnected", type)
                  /\ Persist(IF Held # NoTask THEN "working" ELSE "idle", Held)
                  /\ Return(timers, << >>)
      <3>1. call.ctx.state = "disconnected" /\ call.event.type # "TASK_ASSIGNED"
        BY <2>2
      <3>2. CASE Held = NoTask
        BY <2>2, <3>1, <3>2, QuietHandler DEF States
      <3>3. CASE Held # NoTask
        BY <2>2, <3>1, <3>3, QuietHandler DEF States
      <3> QED
        BY <3>2, <3>3
    <2>3. CASE /\ On("disconnected", "TIMEOUT") \/ On("disconnected", "STOP")
               /\ Persist("stopped", Held)
               /\ Return(timers, IfHeld(ReleaseTask(Held)) \o <<MarkStopped>>)
      <3>1. call.ctx.state = "disconnected" /\ call.event.type # "TASK_ASSIGNED"
        BY <2>3
      <3>2. CASE Held = NoTask
        <4>1. IfHeld(ReleaseTask(Held)) \o <<MarkStopped>> = <<MarkStopped>>
          BY <3>2 DEF IfHeld
        <4> QED
          BY <2>3, <3>1, <3>2, <4>1, QuietHandler DEF States
      <3>3. CASE Held # NoTask
        <4> DEFINE release == <<ReleaseTask(Held)>>
                   stop == <<MarkStopped>>
        <4>1. IfHeld(ReleaseTask(Held)) = release
          BY <3>3 DEF IfHeld
        <4>2. release \in Seq(Effects) /\ stop \in Seq(Effects)
          OBVIOUS
        <4>3. /\ Len(release) = 1 /\ release[1] = ReleaseTask(Held)
              /\ Len(stop) = 1 /\ stop[1] = MarkStopped
          OBVIOUS
        <4>4. /\ ReleaseTask(Held).task = Held /\ ReleaseTask(Held).status = "pending"
              /\ "pending" \in TaskStatuses \cap Releasing
          BY DEF ReleaseTask, UpdateTask, TaskStatuses, Releasing
        <4> HIDE DEF release, stop
        <4>5. /\ release \o stop \in Seq(Effects) /\ Len(release \o stop) = 2
              /\ (release \o stop)[1] = release[1] /\ (release \o stop)[2] = stop[1]
          <5>1. /\ release \o stop \in Seq(Effects)
                /\ Len(release \o stop) = Len(release) + Len(stop)
                /\ \A i \in 1 .. Len(release) + Len(stop) : (release \o stop)[i] =
                      IF i <= Len(release) THEN release[i] ELSE stop[i - Len(release)]
            BY <4>2, ConcatProperties, Zenon
          <5>2. 1 \in 1..2 /\ 2 \in 1..2 /\ ~(2 <= 1) /\ 2 - 1 = 1 /\ 1 + 1 = 2 /\ 1 <= 1
            OBVIOUS
          <5> QED
            BY <4>3, <5>1, <5>2
        <4>6. Short(release \o stop) /\ release \o stop # << >>
          <5>1. Len(release \o stop) <= 2 /\ (release \o stop)[2] = MarkStopped
            BY <4>3, <4>5
          <5>2. release \o stop # << >>
            BY <4>5
          <5> QED
            BY <5>1, <5>2 DEF Short
        <4>7. Return(timers, release \o stop)
          BY <2>3, <4>1 DEF stop
        <4> QED
          BY <2>3, <3>1, <4>3, <4>4, <4>5, <4>6, <4>7, DisposingHandler DEF States, Holding
      <3> QED
        BY <3>2, <3>3
    <2> QED
      BY <1>6, <2>1, <2>2, <2>3 DEF FromDisconnected
  <1>7. CASE FromStopped
    BY <1>7, QuietHandler DEF FromStopped, States
  <1>8. CASE FromError
    BY <1>8, QuietHandler DEF FromError, States
  <1> QED
    BY <1>1, <1>2, <1>3, <1>4, <1>5, <1>6, <1>7, <1>8 DEF Handle

-----------------------------------------------------------------------------
(* Effects carried out or lost *)

\* What is left of at most two effects is nothing, or marks the arm stopped.
LEMMA ShortTail ==
    ASSUME NEW s \in Seq(Effects), s # << >>, Short(s)
    PROVE  Short(Tail(s)) /\ (Tail(s) # << >> => Tail(s)[1].task = NoTask)
  <1>1. Len(s) \in Nat \ {0} /\ Len(s) <= 2
    BY EmptySeq DEF Short
  <1>2. /\ Tail(s) \in Seq(Effects) /\ Len(Tail(s)) = Len(s) - 1
        /\ \A i \in 1..Len(Tail(s)) : Tail(s)[i] = s[i + 1]
    BY HeadTailProperties
  <1>3. Len(Tail(s)) <= 1
    BY <1>1, <1>2
  <1>4. Short(Tail(s))
    BY <1>2, <1>3 DEF Short
  <1>5. ASSUME Tail(s) # << >>
        PROVE  Tail(s)[1].task = NoTask
    <2>1. Len(Tail(s)) = 1 /\ Len(s) = 2
      BY <1>1, <1>2, <1>3, <1>5, EmptySeq
    <2>2. Tail(s)[1] = s[2]
      BY <1>2, <2>1
    <2>3. MarkStopped.task = NoTask
      BY DEF MarkStopped
    <2> QED
      BY <2>1, <2>2, <2>3 DEF Short
  <1> QED
    BY <1>4, <1>5

\* When an effect is no longer awaited, no task is due for its caller, and every
\* other caller's effects are what they were.
LEMMA AwaitFacts ==
    ASSUME TypeOK, Tidy, NEW a \in Arms, NEW caller \in Callers, ~Quiet(a, caller),
           Await(a, caller)
    PROVE  /\ Tidy'
           /\ \A t \in Tasks : ~Due(a, caller, t)'
           /\ \A b \in Arms, other \in Callers :
                b # a \/ other # caller => effects'[b][other] = effects[b][other]
           /\ \A b \in Arms, other \in Callers : Quiet(b, other) => Quiet(b, other)'
  <1>1. /\ effects[a][caller] \in Seq(Effects)
        /\ effects[a][caller] # << >> /\ Short(effects[a][caller])
    BY DEF TypeOK, Tidy, Quiet
  <1>2. /\ effects'[a][caller] = Tail(effects[a][caller])
        /\ \A b \in Arms, other \in Callers :
             b # a \/ other # caller => effects'[b][other] = effects[b][other]
    BY DEF Await, TypeOK
  <1>3. \A s \in Seq(Effects) : s # << >> /\ Short(s) =>
            Short(Tail(s)) /\ (Tail(s) # << >> => Tail(s)[1].task = NoTask)
    BY ShortTail
  <1> QED
    BY <1>1, <1>2, <1>3, NullAssumption DEF Tidy, Due, Quiet

\* A call in progress does not notice what happens to tasks that are not its own.
LEMMA CallingKept ==
    ASSUME TypeOK, Undisturbed, UNCHANGED call,
           \A b \in Arms, other \in Callers : Quiet(b, other) => Quiet(b, other)',
           \A t \in Tasks : call # NoCall /\ Free(t) => Free(t)'
    PROVE  Calling'
  <1> SUFFICES ASSUME call # NoCall
               PROVE  CallQuiet' /\ CallReads' /\ CallNames'
    BY DEF Calling
  <1>1. /\ call.arm \in Arms /\ call.by \in Callers
        /\ call.event.type \in TaskEvents => call.event.task \in Tasks
    BY CallTypes
  <1>2. CallQuiet /\ CallReads /\ CallNames
    BY DEF Undisturbed, Calling
  <1>3. CallQuiet'
    <2>1. "loop" \in Callers
      BY DEF Callers
    <2> QED
      BY <1>1, <1>2, <2>1 DEF CallQuiet, Quiet
  <1>4. CallReads'
    BY <1>2 DEF CallReads
  <1>5. CallNames'
    BY <1>1, <1>2 DEF CallNames, TaskEvents
  <1> QED
    BY <1>3, <1>4, <1>5

\* An effect without a task, or one that is lost, changes who is due and no more.
LEMMA IdleAwaitKeeps ==
    ASSUME TypeOK, Undisturbed, NEW a \in Arms, NEW caller \in Callers, ~Quiet(a, caller),
           Await(a, caller), UNCHANGED <<row, task, call>>
    PROVE  Undisturbed'
  <1>1. /\ Tidy'
        /\ \A t \in Tasks : ~Due(a, caller, t)'
        /\ \A b \in Arms, other \in Callers :
             b # a \/ other # caller => effects'[b][other] = effects[b][other]
        /\ \A b \in Arms, other \in Callers : Quiet(b, other) => Quiet(b, other)'
    BY AwaitFacts DEF Undisturbed
  <1>2. \A b \in Arms, other \in Callers, t \in Tasks :
            Due(b, other, t)' => Due(b, other, t) /\ effects'[b][other] = effects[b][other]
    BY <1>1 DEF Due
  <1>3. Owned'
    BY DEF Undisturbed, Owned
  <1>4. Disposing'
    BY <1>2 DEF Undisturbed, Disposing, Disposed, Status
  <1>5. Calling'
    <2>1. \A t \in Tasks : call # NoCall /\ Free(t) => Free(t)'
      BY <1>2, CallTypes DEF Free
    <2> QED
      BY <1>1, <2>1, CallingKept
  <1> QED
    BY <1>1, <1>3, <1>4, <1>5 DEF Undisturbed

\* The PATCH of an effect about a task: it was the only one, and what it writes
\* disturbs neither the other effects nor a call in progress.
LEMMA PatchKeeps ==
    ASSUME TypeOK, Undisturbed, NEW a \in Arms, NEW caller \in Callers, NEW t \in Tasks,
           NEW status \in TaskStatuses,
           Due(a, caller, t), effects[a][caller][1].status = status,
           PatchTask(t, status), Await(a, caller), UNCHANGED call
    PROVE  Undisturbed'
  <1>1. /\ task[t].owner = a
        /\ \A other \in Callers \ {caller} : ~Due(a, other, t)
        /\ row[a].task = t => row[a].state \in Holding(caller, status)
    BY DEF Undisturbed, Disposing, Disposed, Status
  <1>2. ~Quiet(a, caller)
    BY DEF Due, Quiet
  <1>3. /\ Tidy'
        /\ \A u \in Tasks : ~Due(a, caller, u)'
        /\ \A b \in Arms, other \in Callers :
             b # a \/ other # caller => effects'[b][other] = effects[b][other]
        /\ \A b \in Arms, other \in Callers : Quiet(b, other) => Quiet(b, other)'
    BY <1>2, AwaitFacts DEF Undisturbed
  <1>4. \A b \in Arms, other \in Callers, u \in Tasks :
            Due(b, other, u)' <=> Due(b, other, u) /\ (b # a \/ other # caller)
    BY <1>3 DEF Due
  <1>5. \A b \in Arms, other \in Callers, u \in Tasks :
            Due(b, other, u) /\ (b # a \/ other # caller) => u # t
    BY <1>1 DEF Undisturbed, Disposing, Disposed
  <1>6. /\ \A u \in Tasks \ {t} : task'[u] = task[u]
        /\ status \in Releasing => task'[t].owner = NoArm
        /\ status \notin Releasing => task'[t].owner = a /\ task'[t].status \in Active
    <2>1. status \notin Releasing => status \in Active
      BY DEF TaskStatuses, Releasing, Active
    <2>2. IF status \in Releasing
            THEN task' = [task EXCEPT ![t] = [status |-> status, owner |-> NoArm]]
            ELSE task' = [task EXCEPT ![t].status = status]
      BY DEF PatchTask
    <2> QED
      BY <1>1, <2>1, <2>2 DEF TypeOK, TaskRows
  <1>7. \A b \in Arms : /\ row'[b] = row[b] \/ (row[b].task = t /\ row'[b].task = NoTask)
                        /\ row'[b].task = t /\ status \in Releasing => row[b].state = "stopped"
    <2>1. \A b \in Arms : row[b] \in Rows
      BY DEF TypeOK
    <2>2. ASSUME NEW b \in Arms, row[b].task = t, status \in Synced
          PROVE  row[b].state = "stopped"
      BY <1>1, <2>2 DEF Undisturbed, Owned, Synced, Holding
    <2>3. ASSUME NEW b \in Arms, row[b].task = t, status \in Releasing \ Synced, b # a
          PROVE  row[b].state = "stopped"
      BY <1>1, <2>3 DEF Undisturbed, Owned
    <2>4. CASE status \in Releasing \ Synced
      <3>1. row' = [row EXCEPT ![a] = Freed(row[a], t)]
        BY <1>1, <2>4, NullAssumption DEF PatchTask, FreeRow
      <3>2. \A b \in Arms : row'[b] = IF b = a THEN Freed(row[a], t) ELSE row[b]
        BY <3>1 DEF TypeOK
      <3>3. row[a].task = t => Freed(row[a], t).task = NoTask
        BY <2>1 DEF Freed, Rows
      <3>4. row[a].task # t => Freed(row[a], t) = row[a]
        BY DEF Freed
      <3> QED
        BY <2>3, <2>4, <3>2, <3>3, <3>4, NullAssumption
    <2>5. CASE status \notin Releasing \/ status \in Synced
      <3>1. UNCHANGED row
        BY <2>5 DEF PatchTask, Synced
      <3> QED
        BY <2>2, <2>5, <3>1 DEF Synced
    <2> QED
      BY <2>4, <2>5
  <1>8. Owned'
    <2>1. ASSUME NEW b \in Arms, NEW u \in Tasks, row'[b].task = u
          PROVE  task'[u].owner = b \/ row'[b].state = "stopped"
      <3>1. row'[b] = row[b]
        BY <1>7, <2>1, NullAssumption
      <3>2. task[u].owner = b \/ row[b].state = "stopped"
        BY <2>1, <3>1 DEF Undisturbed, Owned
      <3>3. u = t /\ status \in Releasing => row[b].state = "stopped"
        BY <1>7, <2>1
      <3> QED
        BY <1>1, <1>6, <3>1, <3>2, <3>3
    <2>2. \A u \in Tasks : task'[u].owner # NoArm => task'[u].status \in Active
      BY <1>6 DEF Undisturbed, Owned
    <2> QED
      BY <2>1, <2>2 DEF Owned
  <1>9. Disposing'
    <2> SUFFICES ASSUME NEW b \in Arms, NEW other \in Callers, NEW u \in Tasks,
                        Due(b, other, u)'
                 PROVE  Disposed(b, other, u)'
      BY DEF Disposing
    <2>1. /\ Due(b, other, u) /\ u # t /\ Disposed(b, other, u)
          /\ effects'[b][other] = effects[b][other]
      BY <1>3, <1>4, <1>5 DEF Undisturbed, Disposing
    <2>2. task'[u].owner = b
      BY <1>6, <2>1 DEF Disposed
    <2>4. row'[b] = row[b] \/ (row[b].task = t /\ row'[b].task = NoTask)
      BY <1>7
    <2>3. \A third \in Callers \ {other} : ~Due(b, third, u)'
      BY <1>4, <2>1 DEF Disposed
    <2> QED
      BY <2>1, <2>2, <2>3, <2>4, NullAssumption DEF Disposed, Status
  <1>10. Calling'
    <2>1. ASSUME NEW u \in Tasks, call # NoCall, Free(u)
          PROVE  Free(u)'
      <3>1. call.arm \in Arms
        BY <2>1, CallTypes
      <3>2. u # t
        BY <1>1, <2>1, <3>1 DEF Free
      <3> QED
        BY <1>4, <1>6, <2>1, <3>1, <3>2 DEF Free
    <2> QED
      BY <1>3, <2>1, CallingKept
  <1> QED
    BY <1>3, <1>8, <1>9, <1>10 DEF Undisturbed

-----------------------------------------------------------------------------
(* The invariant is kept *)

\* What has happened stays so.
LEMMA HistoryGrows ==
    ASSUME [Next]_vars
    PROVE  faults \subseteq faults'
  <1>1. Handle => UNCHANGED faults
    BY DEF Handle, FromSpawning, FromStarting, FromIdle, TaskAssigned, FromTaskAssigned,
           HeartbeatWhileAssigned, AssignmentTimeout, TaskReported, FromWorking,
           FromDisconnected, FromStopped, FromError, Return
  <1> QED
    BY <1>1 DEF vars, Next, Submit, Expire, RunEffect, LoseEffect, OtherPatch, ClearRow,
           Claim, Acknowledge, InitializeArm, DeleteArm, Restart, Tick

\* A transition of the loop starts with no effect of the loop awaited; unless the arm
\* was stopped, no effect of a timer is about the task it read.
LEMMA SubmitKeeps ==
    ASSUME TypeOK, Undisturbed, NEW a \in Arms, NEW event \in Events, Submit(a, event),
           ~Stray(a, event)
    PROVE  Undisturbed'
  <1>1. /\ call = NoCall /\ \A b \in Arms : Quiet(b, "loop")
        /\ call' = [by |-> "loop", arm |-> a, event |-> event, ctx |-> row[a]]
        /\ UNCHANGED <<row, task, effects>>
        /\ event.type \in Handled(row[a].state)
    BY DEF Submit, LoopFree, Read
  <1>2. Tidy' /\ Owned' /\ Disposing'
    BY <1>1 DEF Undisturbed, Tidy, Owned, Disposing, Disposed, Due, Status
  <1>3. CallQuiet'
    BY <1>1 DEF CallQuiet, Quiet
  <1>4. CallReads'
    <2> SUFFICES ASSUME row[a].state # "stopped", NEW t \in Tasks, row[a].task = t
                 PROVE  task[t].owner = a /\ \A caller \in Callers : ~Due(a, caller, t)
      BY <1>1 DEF CallReads, Free, Due
    <2>1. task[t].owner = a
      BY DEF Undisturbed, Owned
    <2>2. ASSUME NEW caller \in Callers, Due(a, caller, t)
          PROVE  FALSE
      <3>1. caller = "timer"
        BY <1>1, <2>2 DEF Due, Quiet, Callers
      <3>2. Disposed(a, caller, t)
        BY <2>2 DEF Undisturbed, Disposing
      <3> QED
        BY <3>1, <3>2 DEF Disposed, Holding
    <2> QED
      BY <2>1, <2>2
  <1>5. CallNames'
    <2>1. CASE event.type = "TASK_ASSIGNED"
      <3>1. /\ task[event.task] = [status |-> "claimed", owner |-> a]
            /\ ~Pending(event.task)
        BY <2>1 DEF Stray
      <3>2. \A caller \in Callers : ~Due(a, caller, event.task)
        BY <3>1 DEF Pending, Due, Quiet, TypeOK
      <3>3. row[a].state = "idle"
        BY <1>1, <2>1 DEF Handled, TypeOK, Rows, States
      <3> QED
        BY <1>1, <2>1, <3>1, <3>2, <3>3 DEF CallNames, Free, Due
    <2>2. CASE event.type # "TASK_ASSIGNED"
      BY <1>1, <2>2 DEF CallNames, Stray
    <2> QED
      BY <2>1, <2>2
  <1> QED
    BY <1>2, <1>3, <1>4, <1>5 DEF Undisturbed, Calling

LEMMA ExpireKeeps ==
    ASSUME TypeOK, Undisturbed, NEW a \in Arms, NEW key \in TimerKeys, Expire(a, key)
    PROVE  Undisturbed'
  <1>1. call = NoCall /\ Quiet(a, "timer") /\ UNCHANGED <<row, task, effects>>
    BY DEF Expire
  <1>2. Tidy' /\ Owned' /\ Disposing'
    BY <1>1 DEF Undisturbed, Tidy, Owned, Disposing, Disposed, Due, Status
  <1>3. CASE "TIMEOUT" \in Handled(row[a].state)
    <2>1. call' = [by |-> "timer", arm |-> a, event |-> Plain("TIMEOUT"), ctx |-> row[a]]
      BY <1>3 DEF Expire, Read
    <2>2. row[a].state \notin {"stopped", "error", "working"}
      BY <1>3 DEF Handled
    <2>3. ASSUME NEW t \in Tasks, row[a].task = t
          PROVE  task[t].owner = a /\ \A caller \in Callers : ~Due(a, caller, t)
      <3>1. \A caller \in Callers : Holding(caller, Status(a, caller))
                                      \subseteq {"stopped", "error", "working"}
        BY DEF Holding
      <3> QED
        BY <2>2, <2>3, <3>1 DEF Undisturbed, Owned, Disposing, Disposed
    <2>4. CallQuiet' /\ CallReads' /\ CallNames'
      BY <1>1, <2>1, <2>2, <2>3 DEF CallQuiet, CallReads, CallNames, Free, Quiet, Due, Plain
    <2> QED
      BY <1>2, <2>4 DEF Undisturbed, Calling
  <1>4. CASE "TIMEOUT" \notin Handled(row[a].state)
    BY <1>1, <1>2, <1>4 DEF Expire, Undisturbed, Calling
  <1> QED
    BY <1>3, <1>4

\* A row that lets its task go, or that is written afresh or deleted, disturbs nothing.
LEMMA EmptyRowKeeps ==
    ASSUME TypeOK, Undisturbed, UNCHANGED <<task, call, effects>>,
           \A b \in Arms : row'[b] = row[b] \/ row'[b].task = NoTask
    PROVE  Undisturbed'
  <1>1. Tidy' /\ Owned'
    BY NullAssumption DEF Undisturbed, Tidy, Owned
  <1>2. Disposing'
    BY NullAssumption DEF Undisturbed, Disposing, Disposed, Due, Status
  <1>3. Calling'
    BY DEF Undisturbed, Calling, CallQuiet, CallReads, CallNames, Free, Quiet, Due
  <1> QED
    BY <1>1, <1>2, <1>3 DEF Undisturbed

\* A claim or an acknowledgement of the arm's own task: no effect is about a task
\* that nobody had.
LEMMA TakenKeeps ==
    ASSUME TypeOK, Undisturbed, NEW a \in Arms, NEW t \in Tasks,
           task[t].owner \in {a, NoArm}, task'[t].owner = a, task'[t].status \in Active,
           \A u \in Tasks \ {t} : task'[u] = task[u],
           LoopFree, UNCHANGED <<row, call, effects>>
    PROVE  Undisturbed'
  <1>1. \A b \in Arms, u \in Tasks : task[u].owner = b => task'[u].owner = b
    BY NullAssumption
  <1>2. Tidy' /\ Calling'
    BY DEF Undisturbed, Tidy, LoopFree, Calling
  <1>3. Owned'
    BY <1>1 DEF Undisturbed, Owned
  <1>4. Disposing'
    BY <1>1 DEF Undisturbed, Disposing, Disposed, Due, Status
  <1> QED
    BY <1>2, <1>3, <1>4 DEF Undisturbed

\* The effect that reaches the API is about a task, or changes none.
LEMMA RunEffectKeeps ==
    ASSUME TypeOK, Undisturbed, NEW a \in Arms, NEW caller \in Callers, RunEffect(a, caller)
    PROVE  Undisturbed'
  <1> DEFINE effect == effects[a][caller][1]
  <1>1. effects[a][caller] \in Seq(Effects) /\ effects[a][caller] # << >>
    BY DEF RunEffect, Quiet, TypeOK
  <1>2. effect \in Effects /\ Head(effects[a][caller]) = effect
    BY <1>1
  <1>3. Await(a, caller) /\ UNCHANGED call /\ ~Quiet(a, caller)
    BY DEF RunEffect
  <1>4. CASE effect.kind = "task" /\ effect.task # NoTask
    <2>1. effect.task \in Tasks /\ effect.status \in TaskStatuses
      BY <1>2, <1>4 DEF Effects
    <2>2. PatchTask(effect.task, effect.status)
      BY <1>2, <1>4 DEF RunEffect
    <2>3. Due(a, caller, effect.task)
      BY <1>1 DEF Due
    <2> QED
      BY <1>3, <2>1, <2>2, <2>3, PatchKeeps
  <1>5. CASE ~(effect.kind = "task" /\ effect.task # NoTask)
    <2>1. UNCHANGED <<row, task>>
      BY <1>2, <1>5 DEF RunEffect, Effects
    <2> QED
      BY <1>3, <2>1, IdleAwaitKeeps
  <1> QED
    BY <1>4, <1>5

\* Every step that leaves the tasks to the arms keeps the invariant.
LEMMA StepKeeps ==
    ASSUME TypeOK, Undisturbed, [Next]_vars, faults' \subseteq {"lost"}
    PROVE  Undisturbed'
  <1>1. ASSUME NEW a \in Arms, NEW event \in Events, Submit(a, event)
        PROVE  Undisturbed'
    <2>1. ~Stray(a, event)
      BY <1>1 DEF Submit
    <2> QED
      BY <1>1, <2>1, SubmitKeeps
  <1>2. ASSUME NEW a \in Arms, NEW t \in Tasks, Claim(a, t) \/ Acknowledge(a, t)
        PROVE  Undisturbed'
    <2>1. /\ task[t].owner \in {a, NoArm} /\ LoopFree /\ UNCHANGED <<row, call, effects>>
          /\ \/ task' = [task EXCEPT ![t] = [status |-> "claimed", owner |-> a]]
             \/ task' = [task EXCEPT ![t] = [status |-> "in_progress", owner |-> a]]
      BY <1>2 DEF Claim, Acknowledge
    <2>2. task'[t].owner = a /\ task'[t].status \in Active
      BY <2>1 DEF TypeOK, Active
    <2>3. \A u \in Tasks \ {t} : task'[u] = task[u]
      BY <2>1 DEF TypeOK
    <2> QED
      BY <2>1, <2>2, <2>3, TakenKeeps
  <1>3. ASSUME NEW a \in Arms, NEW key \in TimerKeys, Expire(a, key)
        PROVE  Undisturbed'
    BY <1>3, ExpireKeeps
  <1>4. CASE Handle
    BY <1>4, HandleKeeps
  <1>5. ASSUME NEW a \in Arms, NEW caller \in Callers, RunEffect(a, caller)
        PROVE  Undisturbed'
    BY <1>5, RunEffectKeeps
  <1>6. ASSUME NEW a \in Arms, NEW caller \in Callers, LoseEffect(a, caller)
        PROVE  Undisturbed'
    BY <1>6, IdleAwaitKeeps DEF LoseEffect
  <1>7. ASSUME NEW t \in Tasks, NEW status \in Releasing, OtherPatch(t, status)
        PROVE  FALSE
    BY <1>7 DEF OtherPatch
  <1>8. ASSUME NEW a \in Arms, NEW t \in Tasks, ClearRow(a, t)
        PROVE  Undisturbed'
    <2>1. row' = [row EXCEPT ![a] = Freed(row[a], t)] /\ UNCHANGED <<task, call, effects>>
      BY <1>8 DEF ClearRow, FreeRow
    <2>2. Freed(row[a], t) = row[a] \/ Freed(row[a], t).task = NoTask
      BY DEF Freed, TypeOK, Rows
    <2>3. \A b \in Arms : row'[b] = row[b] \/ row'[b].task = NoTask
      BY <2>1, <2>2 DEF TypeOK
    <2> QED
      BY <2>1, <2>3, EmptyRowKeeps
  <1>9. ASSUME NEW a \in Arms, NEW state \in States, InitializeArm(a, state) \/ DeleteArm(a)
        PROVE  Undisturbed'
    <2>1. \A b \in Arms : row'[b] = row[b] \/ row'[b].task = NoTask
      BY <1>9 DEF InitializeArm, DeleteArm, NoRow, TypeOK
    <2> QED
      BY <1>9, <2>1, EmptyRowKeeps DEF InitializeArm, DeleteArm
  <1>10. CASE Restart
    BY <1>10 DEF Restart, Undisturbed, Tidy, Short, Owned, Disposing, Due, Calling
  <1>11. CASE Tick \/ UNCHANGED vars
    BY <1>11, EmptyRowKeeps DEF Tick, vars
  <1>12. "idle" \in States
    BY DEF States
  <1> QED
    BY <1>1, <1>2, <1>3, <1>4, <1>5, <1>6, <1>7, <1>8, <1>9, <1>10, <1>11, <1>12 DEF Next

LEMMA HoldInvHolds == Spec => []HoldInv
  <1>1. Init => HoldInv
    BY NullAssumption
       DEF Init, NoRow, HoldInv, Undisturbed, Tidy, Short, Owned, Disposing, Due, Calling
  <1>2. TypeOK /\ HoldInv /\ [Next]_vars => HoldInv'
    BY HistoryGrows, StepKeeps DEF HoldInv
  <1> QED
    BY <1>1, <1>2, TypeCorrect, PTL DEF Spec

\* As long as nobody else changes tasks, completed work stays completed, although
\* timers are never cancelled, effects get lost and the Brain restarts.
THEOREM CompletedForGood == Spec => CompletedStaysCompleted
  <1>1. ASSUME TypeOK, Undisturbed, [Next]_vars, faults' \subseteq {"lost"},
               NEW t \in Tasks, task[t].status = "completed"
        PROVE  task'[t].status = "completed"
    <2>1. task[t].owner = NoArm
      BY <1>1 DEF Undisturbed, Owned, Active
    <2>2. ASSUME NEW a \in Arms, NEW u \in Tasks, Claim(a, u) \/ Acknowledge(a, u)
          PROVE  task'[t] = task[t]
      <3>1. u # t
        BY <1>1, <2>1, <2>2, NullAssumption DEF Claim, Acknowledge
      <3>2. \E new : task' = [task EXCEPT ![u] = new]
        BY <2>2 DEF Claim, Acknowledge
      <3>3. \A new : [task EXCEPT ![u] = new][t] = task[t]
        BY <1>1, <3>1 DEF TypeOK
      <3> QED
        BY <3>2, <3>3
    <2>3. ASSUME NEW a \in Arms, NEW caller \in Callers, RunEffect(a, caller)
          PROVE  task'[t] = task[t]
      <3>1. ~Due(a, caller, t)
        BY <1>1, <2>1, NullAssumption DEF Undisturbed, Disposing, Disposed
      <3>2. effects[a][caller] \in Seq(Effects) /\ effects[a][caller] # << >>
        BY <1>1, <2>3 DEF RunEffect, Quiet, TypeOK
      <3>3. Head(effects[a][caller]).task # t
        BY <3>1, <3>2 DEF Due
      <3> DEFINE u == Head(effects[a][caller]).task
      <3>4. \/ task' = task
            \/ \E new : task' = [task EXCEPT ![u] = new]
        <4>1. \A status : PatchTask(u, status) => \E new : task' = [task EXCEPT ![u] = new]
          <5> TAKE status
          <5>1. CASE status \in Releasing
            BY <5>1 DEF PatchTask
          <5>2. CASE status \notin Releasing
            <6>1. [task EXCEPT ![u].status = status]
                    = [task EXCEPT ![u] = [task[u] EXCEPT !.status = status]]
              OBVIOUS
            <6> HIDE DEF u
            <6> QED
              BY <5>2, <6>1 DEF PatchTask
          <5> QED
            BY <5>1, <5>2
        <4> QED
          BY <2>3, <4>1 DEF RunEffect
      <3>5. \A new : [task EXCEPT ![u] = new][t] = task[t]
        BY <1>1, <3>3 DEF TypeOK
      <3> HIDE DEF u
      <3> QED
        BY <3>4, <3>5
    <2>4. Handle => UNCHANGED task
      BY DEF Handle, FromSpawning, FromStarting, FromIdle, TaskAssigned, FromTaskAssigned,
             HeartbeatWhileAssigned, AssignmentTimeout, TaskReported, FromWorking,
             FromDisconnected, FromStopped, FromError, Return
    <2>5. \A u \in Tasks, status \in Releasing : ~OtherPatch(u, status)
      BY <1>1 DEF OtherPatch
    <2> QED
      BY <1>1, <2>2, <2>3, <2>4, <2>5
         DEF Next, vars, Submit, Expire, LoseEffect, ClearRow, InitializeArm, DeleteArm,
             Restart, Tick
  <1>2. TypeOK /\ HoldInv /\ [Next]_vars =>
          [faults' \subseteq {"lost"} =>
             \A t \in Tasks : task[t].status = "completed" => task'[t].status = "completed"]_vars
    <2> SUFFICES ASSUME TypeOK, HoldInv, [Next]_vars, faults' \subseteq {"lost"},
                        NEW t \in Tasks, task[t].status = "completed"
                 PROVE  task'[t].status = "completed"
      OBVIOUS
    <2>1. Undisturbed
      BY HistoryGrows DEF HoldInv
    <2> QED
      BY <1>1, <2>1
  <1> QED
    BY <1>2, TypeCorrect, HoldInvHolds, PTL DEF Spec, CompletedStaysCompleted
=============================================================================
