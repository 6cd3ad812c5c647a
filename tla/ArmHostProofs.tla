----------------------------- MODULE ArmHostProofs -----------------------------
(***************************************************************************)
(* What TLAPS proves of ArmHost for any number of arms and servers, any    *)
(* capacity, any queue and any combination of mishaps.                     *)
(***************************************************************************)
EXTENDS ArmHost, FiniteSetTheorems, SequenceTheorems, TLAPS

-----------------------------------------------------------------------------
(* Type correctness *)

\* The parts of a job, and a job that is not awaited.
LEMMA JobTypes ==
    ASSUME TypeOK, job # NoJob
    PROVE  /\ job \in Jobs
           /\ job.arm \in Arms /\ job.stage \in Stages /\ job.server \in MaybeServer
           /\ job.awaited \in BOOLEAN
  BY DEF TypeOK, Jobs

LEMMA JobUpdates ==
    ASSUME TypeOK, job # NoJob, NEW stage \in Stages
    PROVE  /\ [job EXCEPT !.awaited = FALSE] \in Jobs
           /\ [job EXCEPT !.stage = stage] \in Jobs
           /\ \A s \in Servers : [job EXCEPT !.stage = stage, !.server = s] \in Jobs
  BY JobTypes DEF Jobs, MaybeServer

\* A command that is taken from the queue leaves a queue of commands.
LEMMA HeadTypes ==
    ASSUME TypeOK, queue # << >>
    PROVE  /\ Head(queue) \in Commands /\ Tail(queue) \in Seq(Commands)
           /\ Head(queue).arm \in Arms /\ Head(queue).awaited \in BOOLEAN
  <1>1. queue \in Seq(Commands)
    BY DEF TypeOK
  <1>2. Head(queue) \in Commands /\ Tail(queue) \in Seq(Commands)
    BY <1>1, HeadTailProperties
  <1> QED
    BY <1>2 DEF Commands

\* A command stays a command when its route gives it up.
LEMMA QueuedTypes ==
    ASSUME TypeOK, NEW i \in DOMAIN queue
    PROVE  /\ queue[i] \in Commands /\ queue[i].arm \in Arms
           /\ [queue[i] EXCEPT !.awaited = FALSE] \in Commands
           /\ i \in 1..Len(queue)
  <1>1. queue \in Seq(Commands)
    BY DEF TypeOK
  <1>2. i \in 1..Len(queue) /\ queue[i] \in Commands
    BY <1>1, LenProperties, ElementOfSeq
  <1> QED
    BY <1>2 DEF Commands

\* The step begins to handle a command, in a stage and with a server.
LEMMA HandlingTypes ==
    ASSUME TypeOK, queue # << >>, NEW stage \in Stages, NEW s \in MaybeServer,
           Handling(stage, s)
    PROVE  job' \in Jobs
  BY HeadTypes DEF Handling, Jobs

LEMMA RowTypes ==
    ASSUME TypeOK, NEW a \in Arms, NEW status \in RowStates, Heard(a, status)
    PROVE  row' \in [Arms -> RowStates]
  BY DEF Heard, TypeOK

LEMMA MishapTypes ==
    ASSUME TypeOK, NEW kinds \in SUBSET Mishaps, Mishap(kinds)
    PROVE  mishaps' \subseteq Mishaps
  BY DEF Mishap, TypeOK

\* A job has a server once it has launched one, or is to kill one.
ServerKnown == job # NoJob => (job.stage = "checking" <=> job.server = NoServer)

\* The two together are inductive: a confirmed kill is of a server.
Typed == TypeOK /\ ServerKnown

LEMMA TypedStep ==
    ASSUME Typed, [Next]_vars
    PROVE  Typed'
  <1> TypeOK /\ ServerKnown
    BY DEF Typed
  <1>1. TypeOK'
    <2> USE DEF daemon, host, api
    <2>1. CASE Start \/ Load \/ Ready
      BY <2>1 DEF Start, Load, Ready, TypeOK, Phases, MaybeServer
    <2>2. CASE Stop
      <3>1. mishaps' \subseteq Mishaps
        BY <2>2, MishapTypes DEF Stop, Mishaps
      <3>2. AwaitedKills \subseteq Arms
        BY DEF AwaitedKills
      <3> QED
        BY <2>2, <3>1, <3>2 DEF Stop, TypeOK, Phases, NoServers, MaybeServer
    <2>3. ASSUME NEW a \in Arms, Adopt(a) \/ Skip(a)
          PROVE  TypeOK'
      <3>1. CASE Adopt(a)
        BY <3>1, RowTypes DEF Adopt, TypeOK, MaybeServer, RowStates
      <3>2. CASE Skip(a)
        <4>1. mishaps' \subseteq Mishaps
          BY <3>2, MishapTypes DEF Skip, Mishaps
        <4> QED
          BY <3>2, <4>1 DEF Skip, TypeOK, MaybeServer
      <3> QED
        BY <2>3, <3>1, <3>2
    <2>4. ASSUME NEW a \in Arms, AskSpawn(a)
          PROVE  TypeOK'
      <3>1. [kind |-> "spawn", arm |-> a, awaited |-> FALSE] \in Commands
        BY DEF Commands
      <3>2. row' \in [Arms -> RowStates]
        BY <2>4, RowTypes DEF AskSpawn, TypeOK, RowStates
      <3>3. queue' \in Seq(Commands)
        BY <2>4, <3>1 DEF AskSpawn, Send, TypeOK
      <3> QED
        BY <2>4, <3>2, <3>3 DEF AskSpawn, TypeOK
    <2>5. ASSUME NEW a \in Arms, AskKill(a)
          PROVE  TypeOK'
      <3>1. [kind |-> "kill", arm |-> a, awaited |-> TRUE] \in Commands
        BY DEF Commands
      <3>2. CASE Send([kind |-> "kill", arm |-> a, awaited |-> TRUE]) /\ UNCHANGED <<row, late, mishaps>>
        BY <2>5, <3>1, <3>2 DEF AskKill, Send, TypeOK
      <3>3. CASE late' = late \cup {a} /\ UNCHANGED <<queue, row, mishaps>>
        BY <2>5, <3>3 DEF AskKill, TypeOK
      <3>4. CASE Heard(a, "stopped") /\ Mishap({"unmapped"}) /\ UNCHANGED <<queue, late>>
        <4>1. mishaps' \subseteq Mishaps
          BY <3>4, MishapTypes DEF Mishaps
        <4> QED
          BY <2>5, <3>4, <4>1, RowTypes DEF AskKill, TypeOK, RowStates
      <3> QED
        BY <2>5, <3>2, <3>3, <3>4 DEF AskKill
    <2>6. ASSUME NEW a \in Arms, TimeOutLost(a) \/ StatusChange(a) \/ KillNowhere(a)
          PROVE  TypeOK'
      <3>1. CASE TimeOutLost(a)
        <4>1. mishaps' \subseteq Mishaps
          BY <3>1, MishapTypes DEF TimeOutLost, Mishaps
        <4> QED
          BY <3>1, <4>1, RowTypes DEF TimeOutLost, TypeOK, RowStates
      <3>2. CASE StatusChange(a) \/ KillNowhere(a)
        BY <3>2, RowTypes DEF StatusChange, KillNowhere, TypeOK, RowStates
      <3> QED
        BY <2>6, <3>1, <3>2
    <2>7. ASSUME NEW i \in DOMAIN queue, TimeOutQueued(i)
          PROVE  TypeOK'
      <3>1. queue[i].arm \in Arms /\ [queue[i] EXCEPT !.awaited = FALSE] \in Commands
        BY QueuedTypes
      <3>2. queue' = [queue EXCEPT ![i] = [queue[i] EXCEPT !.awaited = FALSE]]
        BY <2>7 DEF TimeOutQueued
      <3>3. queue' \in Seq(Commands)
        BY <3>1, <3>2, QueuedTypes, ExceptSeq DEF TypeOK
      <3> QED
        BY <2>7, <3>1, <3>3, RowTypes DEF TimeOutQueued, TypeOK, RowStates
    <2>8. CASE TimeOutJob
      <3>1. job # NoJob
        BY <2>8 DEF TimeOutJob
      <3>2. [job EXCEPT !.awaited = FALSE] \in Jobs /\ job.arm \in Arms
        BY <3>1, JobTypes DEF Jobs
      <3> QED
        BY <2>8, <3>2, RowTypes DEF TimeOutJob, TypeOK, RowStates
    <2>9. CASE RestartApi
      <3>1. \A i \in DOMAIN queue : [queue[i] EXCEPT !.awaited = FALSE] \in Commands
        BY QueuedTypes
      <3>2. queue' \in Seq(Commands)
        <4>1. Len(queue) \in Nat /\ DOMAIN queue = 1..Len(queue)
          BY LenProperties DEF TypeOK
        <4>2. queue' \in [1..Len(queue) -> Commands]
          BY <2>9, <3>1, <4>1 DEF RestartApi
        <4> QED
          BY <4>1, <4>2, SeqDef
      <3>3. job' \in Jobs \cup {NoJob}
        BY <2>9, JobTypes DEF RestartApi, Jobs
      <3> QED
        BY <2>9, <3>2, <3>3 DEF RestartApi, TypeOK
    <2>10. CASE Heartbeat \/ \E arms \in SUBSET Arms : Evict(arms)
      BY <2>10 DEF Heartbeat, Evict, Managed, TypeOK
    <2>11. CASE BeginSpawn
      <3>1. queue # << >>
        BY <2>11 DEF BeginSpawn, Take
      <3>2. job' \in Jobs
        BY <2>11, <3>1, HandlingTypes DEF BeginSpawn, Stages, MaybeServer
      <3>3. mishaps' \subseteq Mishaps
        BY <2>11, MishapTypes DEF BeginSpawn, Mishaps
      <3> QED
        BY <2>11, <3>1, <3>2, <3>3, HeadTypes DEF BeginSpawn, Take, TypeOK
    <2>12. CASE RefuseSpawn
      BY <2>12, HeadTypes DEF RefuseSpawn, Take, TypeOK
    <2>13. CASE BeginKill
      <3>1. queue # << >>
        BY <2>13 DEF BeginKill, Take
      <3>2. job' \in Jobs
        BY <2>13, <3>1, HeadTypes, HandlingTypes DEF BeginKill, Stages, TypeOK
      <3> QED
        BY <2>13, <3>1, <3>2, HeadTypes DEF BeginKill, Take, TypeOK
    <2>14. CASE RefuseKill
      BY <2>14, HeadTypes, RowTypes DEF RefuseKill, Take, TypeOK, RowStates
    <2>15. ASSUME NEW s \in Servers, Launch(s) \/ Exit(s) \/ Die(s)
          PROVE  TypeOK'
      <3>1. CASE Launch(s)
        <4>1. job # NoJob
          BY <3>1 DEF Launch, At
        <4>2. job' \in Jobs /\ job.arm \in Arms
          BY <3>1, <4>1, JobTypes, JobUpdates DEF Launch, Stages
        <4> QED
          BY <3>1, <4>2 DEF Launch, TypeOK
      <3>2. CASE Die(s)
        <4>1. mishaps' \subseteq Mishaps
          BY <3>2, MishapTypes DEF Die, Mishaps
        <4> QED
          BY <3>2, <4>1 DEF Die, TypeOK
      <3>3. CASE Exit(s)
        BY <3>3 DEF Exit, TypeOK
      <3> QED
        BY <2>15, <3>1, <3>2, <3>3
    <2>16. CASE FailSpawn
      <3>1. mishaps' \subseteq Mishaps /\ live' \subseteq Servers
        BY <2>16, MishapTypes DEF FailSpawn, Mishaps, TypeOK
      <3> QED
        BY <2>16, <3>1 DEF FailSpawn, TypeOK
    <2>17. CASE Manage
      <3>1. job # NoJob
        BY <2>17 DEF Manage, At
      <3>2. job' \in Jobs /\ job.server \in MaybeServer
        BY <2>17, <3>1, JobTypes, JobUpdates DEF Manage, Stages, Jobs
      <3> QED
        BY <2>17, <3>2 DEF Manage, TypeOK
    <2>18. CASE Record
      <3>1. job # NoJob
        BY <2>18 DEF Record, At
      <3>2. mishaps' \subseteq Mishaps
        BY <2>18, MishapTypes DEF Record, Mishaps, TypeOK
      <3>3. record' \in [Arms -> MaybeServer]
        BY <2>18, <3>1, JobTypes DEF Record, TypeOK
      <3> QED
        BY <2>18, <3>1, <3>2, <3>3, JobTypes, RowTypes DEF Record, TypeOK, RowStates
    <2>19. CASE HarnessKill
      <3>1. job # NoJob
        BY <2>19 DEF HarnessKill, At
      <3>2. told' \subseteq Servers
        BY <2>19, <3>1, JobTypes DEF HarnessKill, At, ServerKnown, MaybeServer, TypeOK
      <3>3. job' \in Jobs
        BY <2>19, <3>1, JobTypes DEF HarnessKill, Jobs, Stages
      <3> QED
        BY <2>19, <3>2, <3>3 DEF HarnessKill, TypeOK
    <2>20. CASE Forget
      <3>1. job.arm \in Arms /\ job.server \in Servers
        BY <2>20, JobTypes DEF Forget, At, ServerKnown, MaybeServer
      <3>2. row' \in [Arms -> RowStates]
        BY <2>20, <3>1, RowTypes DEF Forget, RowStates
      <3> QED
        BY <2>20, <3>1, <3>2 DEF Forget, TypeOK, MaybeServer
    <2>21. CASE UNCHANGED vars
      BY <2>21 DEF vars, TypeOK
    <2> QED
      BY <2>1, <2>2, <2>3, <2>4, <2>5, <2>6, <2>7, <2>8, <2>9, <2>10, <2>11, <2>12, <2>13,
         <2>14, <2>15, <2>16, <2>17, <2>18, <2>19, <2>20, <2>21 DEF Next
  <1>2. ServerKnown'
    <2> SUFFICES ASSUME job' # NoJob
                 PROVE  (job'.stage = "checking" <=> job'.server = NoServer)
      BY DEF ServerKnown
    <2>1. CASE UNCHANGED job
      BY <2>1 DEF ServerKnown
    <2>2. CASE TimeOutJob \/ RestartApi
      BY <2>2, JobTypes DEF TimeOutJob, RestartApi, ServerKnown, Jobs
    <2>3. CASE BeginSpawn
      BY <2>3 DEF BeginSpawn, Handling
    <2>4. CASE BeginKill
      BY <2>4 DEF BeginKill, Handling
    <2>5. ASSUME NEW s \in Servers, Launch(s)
          PROVE  (job'.stage = "checking" <=> job'.server = NoServer)
      BY <2>5, JobTypes, NullAssumption DEF Launch, At, Jobs
    <2>6. CASE Manage \/ HarnessKill
      BY <2>6, JobTypes DEF Manage, HarnessKill, At, ServerKnown, Jobs
    <2>7. CASE Stop \/ FailSpawn \/ Record \/ Forget
      BY <2>7 DEF Stop, FailSpawn, Record, Forget
    <2> QED
      BY <2>1, <2>2, <2>3, <2>4, <2>5, <2>6, <2>7
      DEF Next, vars, daemon, Start, Load, Ready, Adopt, Skip, AskSpawn, AskKill, TimeOutLost,
          KillNowhere, StatusChange, TimeOutQueued, Heartbeat, Evict, RefuseSpawn, RefuseKill,
          Exit, Die
  <1> QED
    BY <1>1, <1>2 DEF Typed

LEMMA TypedHolds == Spec => []Typed
  <1>1. Init => Typed
    BY DEF Init, Typed, ServerKnown, TypeOK, Phases, RowStates, NoServers, MaybeServer
  <1> QED
    BY <1>1, TypedStep, PTL DEF Spec

\* Every variable keeps its type: what the daemon manages and records is a server or
\* none, and a kill that is confirmed is the kill of a server.
THEOREM TypeCorrect == Spec => []TypeOK
  BY TypedHolds, PTL DEF Typed

-----------------------------------------------------------------------------
(* What the steps share *)

\* Job and mishaps after a step that leaves the daemon where it was.
SameJob ==
    IF job = NoJob THEN job' = NoJob
    ELSE /\ job' # NoJob
         /\ job'.arm = job.arm /\ job'.stage = job.stage /\ job'.server = job.server

\* A step of the API server or of the transport: it changes rows, mapping and queue.
Outside ==
    /\ UNCHANGED <<phase, managed, todo, record, started, live, told, killed>>
    /\ SameJob

\* Mishaps only grow, so that what holds without some kinds held without them before.
LEMMA MishapsGrow ==
    ASSUME [Next]_vars, NEW kinds, Without(kinds)'
    PROVE  Without(kinds)
  <1>1. mishaps \subseteq mishaps'
    BY DEF Next, vars, daemon, host, api, Mishap, Start, Load, Ready, Stop, Adopt, Skip,
           AskSpawn, AskKill, KillNowhere, TimeOutLost, StatusChange, TimeOutQueued, TimeOutJob,
           RestartApi, Heartbeat, Evict, BeginSpawn, RefuseSpawn, BeginKill, RefuseKill, Launch,
           Exit, Die,
           FailSpawn, Manage, Record, HarnessKill, Forget
  <1> QED
    BY <1>1 DEF Without

\* Which steps are outside steps.
LEMMA OutsideSteps ==
    ASSUME TypeOK,
           \/ \E a \in Arms : \/ AskSpawn(a) \/ AskKill(a) \/ KillNowhere(a)
                              \/ TimeOutLost(a) \/ StatusChange(a)
           \/ \E i \in DOMAIN queue : TimeOutQueued(i)
           \/ TimeOutJob \/ RestartApi \/ Heartbeat
           \/ \E arms \in SUBSET Arms : Evict(arms)
           \/ RefuseSpawn \/ RefuseKill
           \/ UNCHANGED vars
    PROVE  Outside
  <1> USE DEF Outside, daemon, host, api
  <1>1. CASE TimeOutJob \/ RestartApi
    <2>1. SameJob
      BY <1>1, JobTypes, JobAssumption DEF TimeOutJob, RestartApi, SameJob, Jobs
    <2> QED
      BY <1>1, <2>1 DEF TimeOutJob, RestartApi
  <1>2. CASE UNCHANGED vars
    BY <1>2 DEF vars, SameJob
  <1>3. CASE \E a \in Arms : \/ AskSpawn(a) \/ AskKill(a) \/ KillNowhere(a)
                             \/ TimeOutLost(a) \/ StatusChange(a)
    BY <1>3 DEF AskSpawn, AskKill, KillNowhere, TimeOutLost, StatusChange, SameJob
  <1>4. CASE \/ \E i \in DOMAIN queue : TimeOutQueued(i)
             \/ Heartbeat \/ \E arms \in SUBSET Arms : Evict(arms)
             \/ RefuseSpawn \/ RefuseKill
    BY <1>4 DEF TimeOutQueued, Heartbeat, Evict, RefuseSpawn, RefuseKill, Take, SameJob
  <1> QED
    BY <1>1, <1>2, <1>3, <1>4

\* The steps one by one, the outside ones taken together.
LEMMA Steps ==
    ASSUME TypeOK, [Next]_vars
    PROVE  \/ Outside
           \/ Start \/ Load \/ Ready \/ Stop
           \/ \E a \in Arms : Adopt(a) \/ Skip(a)
           \/ BeginSpawn \/ BeginKill
           \/ \E s \in Servers : Launch(s) \/ Exit(s) \/ Die(s)
           \/ FailSpawn \/ Manage \/ Record \/ HarnessKill \/ Forget
  BY OutsideSteps DEF Next

\* A job that goes on to another stage.
LEMMA StageJob ==
    ASSUME TypeOK, job # NoJob, NEW stage \in Stages, job' = [job EXCEPT !.stage = stage]
    PROVE  /\ job' # NoJob /\ job'.stage = stage
           /\ job'.arm = job.arm /\ job'.server = job.server
  <1>1. job \in Jobs /\ job' \in Jobs
    BY JobTypes, JobUpdates
  <1> QED
    BY <1>1, JobAssumption DEF Jobs

\* The job of a spawn once its server is launched.
LEMMA LaunchJob ==
    ASSUME TypeOK, NEW s \in Servers, Launch(s)
    PROVE  /\ job # NoJob /\ job.arm \in Arms
           /\ job' # NoJob /\ job'.arm = job.arm /\ job'.stage = "launching" /\ job'.server = s
  <1>1. job # NoJob /\ job \in Jobs /\ job.arm \in Arms
    BY JobTypes DEF Launch, At
  <1>2. job' = [job EXCEPT !.stage = "launching", !.server = s]
    BY DEF Launch
  <1>3. job' \in Jobs
    BY <1>1, <1>2, JobUpdates DEF Stages
  <1> QED
    BY <1>1, <1>2, <1>3, JobAssumption DEF Jobs

-----------------------------------------------------------------------------
(* Servers belong to the arm they were started for *)

SpawnStages == {"checking", "launching", "recording"}
KillStages == {"killing", "forgetting"}

\* What the daemon manages, records or is about to adopt for an arm, and the server of
\* its job, were started for that arm; a server that runs was started.
Owned ==
    /\ \A a \in Arms : /\ managed[a] # NoServer => started[managed[a]] = a
                       /\ record[a] # NoServer => started[record[a]] = a
                       /\ todo[a] # NoServer => started[todo[a]] = a
    /\ job # NoJob /\ job.server # NoServer => started[job.server] = job.arm
    /\ \A s \in live \cup told \cup killed : started[s] # NoArm

LEMMA OwnedInit == Init => Owned
  BY DEF Init, Owned, NoServers

LEMMA OwnedStep ==
    ASSUME Typed, Owned, [Next]_vars
    PROVE  Owned'
  <1> TypeOK /\ ServerKnown
    BY DEF Typed
  <1> USE DEF host, api, At
  <1>1. CASE Outside
    BY <1>1 DEF Outside, SameJob, Owned
  <1>2. CASE Start \/ Load \/ Ready
    BY <1>2 DEF Start, Load, Ready, Owned, TypeOK
  <1>3. CASE Stop
    BY <1>3 DEF Stop, Owned, NoServers
  <1>4. ASSUME NEW a \in Arms, Adopt(a) \/ Skip(a)
        PROVE  Owned'
    BY <1>4 DEF Adopt, Skip, Owned, TypeOK
  <1>5. CASE BeginSpawn
    BY <1>5 DEF BeginSpawn, Handling, Owned
  <1>6. CASE BeginKill
    <2>1. Head(queue).arm \in Arms
      BY <1>6, HeadTypes DEF BeginKill, Take
    <2> QED
      BY <1>6, <2>1 DEF BeginKill, Handling, Owned
  <1>7. ASSUME NEW s \in Servers, Launch(s)
        PROVE  Owned'
    <2>1. job \in Jobs /\ job.arm \in Arms
      BY <1>7, JobTypes DEF Launch
    <2>2. started' = [started EXCEPT ![s] = job.arm] /\ started[s] = NoArm
      BY <1>7 DEF Launch
    <2>3. job' # NoJob /\ job'.server = s /\ job'.arm = job.arm
      BY <1>7, LaunchJob
    <2>4. \A a \in Arms : /\ managed[a] \in MaybeServer /\ record[a] \in MaybeServer
                          /\ todo[a] \in MaybeServer
      BY DEF TypeOK
    <2>5. UNCHANGED <<managed, record, todo, told, killed>> /\ live' = live \cup {s}
      BY <1>7 DEF Launch
    <2> QED
      BY <2>1, <2>2, <2>3, <2>4, <2>5, NullAssumption DEF Owned, TypeOK, MaybeServer
  <1>8. ASSUME NEW s \in Servers, Exit(s) \/ Die(s)
        PROVE  Owned'
    BY <1>8 DEF Exit, Die, daemon, Owned
  <1>9. CASE FailSpawn
    BY <1>9 DEF FailSpawn, Owned
  <1>10. CASE Manage
    <2>1. job \in Jobs
      BY <1>10, JobTypes DEF Manage
    <2> QED
      BY <1>10, <2>1, JobTypes DEF Manage, Owned, TypeOK, Jobs
  <1>11. CASE Record
    <2>1. job \in Jobs
      BY <1>11, JobTypes DEF Record
    <2> QED
      BY <1>11, <2>1 DEF Record, Owned, TypeOK, Jobs
  <1>12. CASE HarnessKill
    <2>1. job \in Jobs /\ job.server # NoServer
      BY <1>12, JobTypes DEF HarnessKill, ServerKnown
    <2> QED
      BY <1>12, <2>1, NullAssumption DEF HarnessKill, Owned, TypeOK, Jobs
  <1>13. CASE Forget
    <2>1. job \in Jobs /\ job.server # NoServer
      BY <1>13, JobTypes DEF Forget, ServerKnown
    <2> QED
      BY <1>13, <2>1, NullAssumption DEF Forget, Owned, TypeOK, Jobs
  <1> QED
    BY <1>1, <1>2, <1>3, <1>4, <1>5, <1>6, <1>7, <1>8, <1>9, <1>10, <1>11, <1>12, <1>13, Steps

-----------------------------------------------------------------------------
(* A run of the daemon *)

\* What is left of a run of the daemon when it is down, that records to adopt are there
\* while it adopts, and that the server of a spawn was not told to stop.
Phased ==
    /\ phase = "down" => managed = NoServers /\ job = NoJob
    /\ phase # "adopting" => todo = NoServers
    /\ At({"launching", "recording"}) => job.server \notin told

LEMMA PhasedInit == Init => Phased
  BY DEF Init, Phased, At, NoServers

LEMMA PhasedStep ==
    ASSUME Typed, Phased, Owned, [Next]_vars
    PROVE  Phased'
  <1> TypeOK /\ ServerKnown
    BY DEF Typed
  <1> USE DEF host, api, At
  <1>1. CASE Outside
    BY <1>1 DEF Outside, SameJob, Phased
  <1>2. CASE Start \/ Load
    BY <1>2 DEF Start, Load, Phased
  <1>3. CASE Ready \/ Stop
    BY <1>3 DEF Ready, Stop, Phased, NoServers
  <1>4. ASSUME NEW a \in Arms, Adopt(a) \/ Skip(a)
        PROVE  Phased'
    BY <1>4 DEF Adopt, Skip, Phased
  <1>5. CASE BeginSpawn \/ BeginKill
    BY <1>5 DEF BeginSpawn, BeginKill, Take, Running, Handling, Phased
  <1>6. ASSUME NEW s \in Servers, Launch(s)
        PROVE  Phased'
    <2>1. job # NoJob /\ job'.server = s
      BY <1>6, LaunchJob
    <2>2. s \notin told /\ UNCHANGED <<phase, managed, todo, told>>
      BY <1>6 DEF Launch, Owned
    <2> QED
      BY <2>1, <2>2 DEF Phased
  <1>7. ASSUME NEW s \in Servers, Exit(s) \/ Die(s)
        PROVE  Phased'
    BY <1>7 DEF Exit, Die, daemon, Phased
  <1>8. CASE FailSpawn \/ Record
    BY <1>8 DEF FailSpawn, Record, Phased
  <1>9. CASE Manage
    <2>1. job'.server = job.server /\ job # NoJob
      BY <1>9, StageJob DEF Manage, Stages
    <2> QED
      BY <1>9, <2>1 DEF Manage, Phased
  <1>10. CASE HarnessKill
    <2>1. job # NoJob /\ job'.stage = "forgetting"
      BY <1>10, StageJob DEF HarnessKill, Stages
    <2> QED
      BY <1>10, <2>1 DEF HarnessKill, Phased
  <1>11. CASE Forget
    BY <1>11 DEF Forget, Phased
  <1> QED
    BY <1>1, <1>2, <1>3, <1>4, <1>5, <1>6, <1>7, <1>8, <1>9, <1>10, <1>11, Steps

\* The three together, on which everything below rests.
Sound == Typed /\ Owned /\ Phased

LEMMA SoundHolds == Spec => []Sound
  <1>1. Init => Owned /\ Phased
    BY OwnedInit, PhasedInit
  <1>2. Typed /\ Owned /\ Phased /\ [Next]_vars => Owned' /\ Phased'
    BY OwnedStep, PhasedStep
  <1> QED
    BY <1>1, <1>2, TypedHolds, PTL DEF Spec, Sound

-----------------------------------------------------------------------------
(* The daemon manages what it has records of *)

\* The order of things while no spawn is accepted before the records are adopted: there
\* is nothing to manage before, what is to be adopted is recorded and not managed, and a
\* kill is handled on the session the arm still has.
Orderly ==
    Without({"early"}) =>
        /\ phase \in {"down", "loading"} => managed = NoServers /\ job = NoJob
        /\ phase # "ready" => ~At(SpawnStages)
        /\ \A a \in Arms : /\ todo[a] \in {NoServer, record[a]}
                           /\ managed[a] # NoServer => todo[a] = NoServer
        /\ At(KillStages \cup {"recording"}) => managed[job.arm] = job.server
        /\ At({"checking", "launching"}) => managed[job.arm] = NoServer

LEMMA OrderlyInit == Init => Orderly
  BY DEF Init, Orderly, At, NoServers

LEMMA OrderlyStep ==
    ASSUME Sound, Orderly, [Next]_vars
    PROVE  Orderly'
  <1> SUFFICES ASSUME Without({"early"})'
               PROVE  Orderly'
    BY DEF Orderly
  <1> TypeOK /\ ServerKnown /\ Owned /\ Phased /\ Without({"early"})
    BY MishapsGrow DEF Sound, Typed
  <1> USE NullAssumption DEF host, api, At, SpawnStages, KillStages, Managed
  <1>1. CASE Outside
    BY <1>1 DEF Outside, SameJob, Orderly
  <1>2. CASE Start
    BY <1>2 DEF Start, Orderly
  <1>3. CASE Load
    BY <1>3 DEF Load, Orderly, NoServers, TypeOK
  <1>4. CASE Ready \/ Stop
    BY <1>4 DEF Ready, Stop, Orderly, NoServers
  <1>5. ASSUME NEW a \in Arms, Adopt(a)
        PROVE  Orderly'
    <2>1. /\ phase = "adopting" /\ managed' = [managed EXCEPT ![a] = todo[a]]
          /\ todo' = [todo EXCEPT ![a] = NoServer] /\ UNCHANGED <<phase, job, record>>
      BY <1>5 DEF Adopt
    <2>2. todo[a] # NoServer
      BY <1>5 DEF Adopt, TypeOK
    <2>3. ~At(SpawnStages) /\ (At(KillStages) => managed[job.arm] = job.server /\ job.server # NoServer)
      BY <2>1 DEF Orderly, ServerKnown
    <2>4. At(KillStages) => job.arm # a
      BY <2>2, <2>3 DEF Orderly
    <2>5. mishaps' = mishaps
      BY <1>5 DEF Adopt
    <2> QED
      BY <2>1, <2>3, <2>4, <2>5 DEF Orderly, TypeOK
  <1>6. ASSUME NEW a \in Arms, Skip(a)
        PROVE  Orderly'
    BY <1>6, JobTypes DEF Skip, Orderly, TypeOK
  <1>7. CASE BeginSpawn
    <2>1. phase = "ready"
      BY <1>7 DEF BeginSpawn, Mishap, Without
    <2> QED
      BY <1>7, <2>1 DEF BeginSpawn, Take, Handling, Orderly
  <1>8. CASE BeginKill
    <2>1. Head(queue).arm \in Arms /\ managed[Head(queue).arm] # NoServer
      BY <1>8, HeadTypes DEF BeginKill, Take
    <2>2. phase \in {"adopting", "ready"}
      BY <1>8, <2>1 DEF BeginKill, Orderly, NoServers, TypeOK, Phases
    <2> QED
      BY <1>8, <2>1, <2>2 DEF BeginKill, Take, Handling, Orderly
  <1>9. ASSUME NEW s \in Servers, Launch(s)
        PROVE  Orderly'
    <2>1. job \in Jobs /\ job'.stage = "launching" /\ job'.arm = job.arm
      BY <1>9, JobTypes DEF Launch, Jobs
    <2> QED
      BY <1>9, <2>1 DEF Launch, Orderly
  <1>10. ASSUME NEW s \in Servers, Exit(s) \/ Die(s)
         PROVE  Orderly'
    BY <1>10 DEF Exit, Die, daemon, Orderly
  <1>11. CASE FailSpawn
    BY <1>11 DEF FailSpawn, Orderly
  <1>12. CASE Manage
    <2>1. job \in Jobs /\ job'.stage = "recording" /\ job'.arm = job.arm /\ job'.server = job.server
      BY <1>12, JobTypes DEF Manage, Jobs
    <2>2. todo = NoServers
      BY <1>12 DEF Manage, Orderly, Phased
    <2> QED
      BY <1>12, <2>1, <2>2, JobTypes DEF Manage, Orderly, NoServers, TypeOK
  <1>13. CASE Record
    <2>1. todo = NoServers
      BY <1>13 DEF Record, Orderly, Phased
    <2> QED
      BY <1>13, <2>1 DEF Record, Orderly, NoServers
  <1>14. CASE HarnessKill
    <2>1. job \in Jobs /\ job'.stage = "forgetting" /\ job'.arm = job.arm /\ job'.server = job.server
      BY <1>14, JobTypes DEF HarnessKill, Jobs
    <2> QED
      BY <1>14, <2>1 DEF HarnessKill, Orderly
  <1>15. CASE Forget
    <2>1. job # NoJob /\ job.arm \in Arms /\ job.server # NoServer /\ managed[job.arm] = job.server
      BY <1>15, JobTypes DEF Forget, Orderly, ServerKnown
    <2>2. todo[job.arm] = NoServer
      BY <2>1 DEF Orderly
    <2> QED
      BY <1>15, <2>1, <2>2 DEF Forget, Orderly, NoServers, TypeOK
  <1> QED
    BY <1>1, <1>2, <1>3, <1>4, <1>5, <1>6, <1>7, <1>8, <1>9, <1>10, <1>11, <1>12, <1>13,
       <1>14, <1>15, Steps

LEMMA OrderlyHolds == Spec => []Orderly
  BY OrderlyInit, OrderlyStep, SoundHolds, PTL DEF Spec

LEMMA RecoverableStep ==
    ASSUME Sound, Orderly, Recoverable, [Next]_vars
    PROVE  Recoverable'
  <1> SUFFICES ASSUME Without({"unrecorded", "early"})', NEW a \in Arms, managed'[a] \in live'
               PROVE  \/ record'[a] = managed'[a]
                      \/ At({"recording"})' /\ job'.arm = a /\ job'.server = managed'[a]
    BY DEF Recoverable
  <1> TypeOK /\ ServerKnown /\ Owned /\ Without({"unrecorded", "early"}) /\ Without({"early"})
    BY MishapsGrow DEF Sound, Typed, Without
  <1> USE NullAssumption DEF host, api, At
  <1>1. CASE Outside
    BY <1>1 DEF Outside, SameJob, Recoverable
  <1>2. CASE Start \/ Load \/ Ready
    BY <1>2 DEF Start, Load, Ready, Recoverable
  <1>3. CASE Stop
    BY <1>3 DEF Stop, NoServers, TypeOK
  <1>4. ASSUME NEW b \in Arms, Adopt(b) \/ Skip(b)
        PROVE  \/ record'[a] = managed'[a]
               \/ At({"recording"})' /\ job'.arm = a /\ job'.server = managed'[a]
    BY <1>4 DEF Adopt, Skip, Recoverable, Orderly, TypeOK
  <1>5. CASE BeginSpawn \/ BeginKill
    <2>1. job = NoJob /\ UNCHANGED <<managed, record, live>>
      BY <1>5 DEF BeginSpawn, BeginKill, Take
    <2> QED
      BY <2>1 DEF Recoverable
  <1>6. ASSUME NEW s \in Servers, Launch(s)
        PROVE  record'[a] = managed'[a]
    BY <1>6, JobTypes DEF Launch, Recoverable, Owned
  <1>7. ASSUME NEW s \in Servers, Exit(s) \/ Die(s)
        PROVE  \/ record'[a] = managed'[a]
               \/ At({"recording"})' /\ job'.arm = a /\ job'.server = managed'[a]
    BY <1>7 DEF Exit, Die, daemon, Recoverable
  <1>8. CASE FailSpawn
    BY <1>8 DEF FailSpawn, Recoverable
  <1>9. CASE Manage
    <2>1. job \in Jobs /\ job'.stage = "recording" /\ job'.arm = job.arm /\ job'.server = job.server
      BY <1>9, JobTypes DEF Manage, Jobs
    <2> QED
      BY <1>9, <2>1, JobAssumption, JobTypes, JobUpdates
      DEF Manage, Recoverable, TypeOK, Stages, MaybeServer
  <1>10. CASE Record
    <2>1. record' = [record EXCEPT ![job.arm] = job.server]
      BY <1>10 DEF Record, Mishap, Without
    <2> QED
      BY <1>10, <2>1, JobTypes DEF Record, Recoverable, Orderly, KillStages, TypeOK
  <1>11. CASE HarnessKill
    BY <1>11 DEF HarnessKill, Recoverable
  <1>12. CASE Forget
    BY <1>12 DEF Forget, Recoverable, TypeOK
  <1> QED
    BY <1>1, <1>2, <1>3, <1>4, <1>5, <1>6, <1>7, <1>8, <1>9, <1>10, <1>11, <1>12, Steps

\* At whatever moment the daemon stops, an arm that it managed and whose server runs is
\* in the records a restarted daemon reads, unless the record could not be written or
\* is just being written.
THEOREM RecoverableHolds == Spec => []Recoverable
  <1>1. Init => Recoverable
    BY NullAssumption DEF Init, Recoverable, NoServers
  <1>2. Sound /\ Orderly /\ Recoverable /\ [Next]_vars => Recoverable'
    BY RecoverableStep
  <1> QED
    BY <1>1, <1>2, SoundHolds, OrderlyHolds, PTL DEF Spec

-----------------------------------------------------------------------------
(* A server whose kill was confirmed stays out *)

\* A killed server is not managed, not recorded, and so not to be adopted, and not that
\* of a spawn.
Gone ==
    Without({"early"}) =>
        \A s \in killed : /\ \A a \in Arms : managed[a] # s /\ record[a] # s
                          /\ At(SpawnStages) => job.server # s

LEMMA GoneInit == Init => Gone
  BY DEF Init, Gone

LEMMA GoneStep ==
    ASSUME Sound, Orderly, Gone, [Next]_vars
    PROVE  Gone'
  <1> SUFFICES ASSUME Without({"early"})'
               PROVE  Gone'
    BY DEF Gone
  <1> TypeOK /\ ServerKnown /\ Owned /\ Without({"early"})
    BY MishapsGrow DEF Sound, Typed
  <1> USE NullAssumption DEF host, api, At, SpawnStages
  <1>1. CASE Outside
    BY <1>1 DEF Outside, SameJob, Gone
  <1>2. CASE Start \/ Load \/ Ready
    BY <1>2 DEF Start, Load, Ready, Gone
  <1>3. CASE Stop
    BY <1>3 DEF Stop, Gone, NoServers, TypeOK
  <1>4. ASSUME NEW a \in Arms, Adopt(a) \/ Skip(a)
        PROVE  Gone'
    BY <1>4 DEF Adopt, Skip, Gone, Orderly, TypeOK
  <1>5. CASE BeginSpawn \/ BeginKill
    BY <1>5 DEF BeginSpawn, BeginKill, Handling, Gone, TypeOK
  <1>6. ASSUME NEW s \in Servers, Launch(s)
        PROVE  Gone'
    <2>1. job # NoJob /\ job'.server = s
      BY <1>6, LaunchJob
    <2>2. s \notin killed /\ UNCHANGED <<managed, record, killed>>
      BY <1>6 DEF Launch, Owned
    <2> QED
      BY <2>1, <2>2 DEF Gone
  <1>7. ASSUME NEW s \in Servers, Exit(s) \/ Die(s)
        PROVE  Gone'
    BY <1>7 DEF Exit, Die, daemon, Gone
  <1>8. CASE FailSpawn
    BY <1>8 DEF FailSpawn, Gone
  <1>9. CASE Manage
    <2>1. job'.server = job.server
      BY <1>9, StageJob DEF Manage, Stages
    <2> QED
      BY <1>9, <2>1 DEF Manage, Gone, TypeOK
  <1>10. CASE Record
    BY <1>10 DEF Record, Gone, TypeOK
  <1>11. CASE HarnessKill
    <2>1. job'.stage = "forgetting"
      BY <1>11, StageJob DEF HarnessKill, Stages
    <2> QED
      BY <1>11, <2>1 DEF HarnessKill, Gone
  <1>12. CASE Forget
    <2>1. job.server \in Servers /\ started[job.server] = job.arm
      BY <1>12, JobTypes DEF Forget, ServerKnown, MaybeServer, Owned
    <2>2. \A a \in Arms : managed'[a] # job.server /\ record'[a] # job.server
      BY <1>12, <2>1 DEF Forget, Owned, TypeOK
    <2>3. \A s \in killed, a \in Arms : managed'[a] # s /\ record'[a] # s
      BY <1>12 DEF Forget, Gone, TypeOK
    <2> QED
      BY <1>12, <2>2, <2>3 DEF Forget, Gone
  <1> QED
    BY <1>1, <1>2, <1>3, <1>4, <1>5, <1>6, <1>7, <1>8, <1>9, <1>10, <1>11, <1>12, Steps

LEMMA GoneHolds == Spec => []Gone
  BY GoneInit, GoneStep, SoundHolds, OrderlyHolds, PTL DEF Spec

\* Once the daemon has confirmed the kill of a server it never manages that server again,
\* though the server may go on running and the daemon may stop and start at any step of
\* the kill: while no spawn is accepted before the records are adopted, the kill finds
\* the record read already, and removes it before it is confirmed.
THEOREM KilledForGood == Spec => KilledStaysKilled
  <1>1. Sound /\ Orderly /\ Gone /\ [Next]_vars =>
            [Without({"early"}) =>
                \A a \in Arms : managed'[a] # managed[a] => managed'[a] \notin killed]_vars
    <2> SUFFICES ASSUME TypeOK, ServerKnown, Orderly, Gone, [Next]_vars, Without({"early"}),
                        NEW a \in Arms, managed'[a] # managed[a]
                 PROVE  managed'[a] \notin killed
      BY DEF Sound, Typed
    <2> USE NullAssumption
    <2>1. CASE Stop \/ Forget
      BY <2>1 DEF Stop, Forget, NoServers, TypeOK
    <2>2. ASSUME NEW b \in Arms, Adopt(b)
          PROVE  managed'[a] \notin killed
      BY <2>2 DEF Adopt, TypeOK, Orderly, Gone
    <2>3. CASE Manage
      BY <2>3 DEF Manage, TypeOK, Gone, At, SpawnStages
    <2> QED
      BY <2>1, <2>2, <2>3, Steps
      DEF Outside, Start, Load, Ready, Skip, BeginSpawn, BeginKill, Launch, Exit, Die, daemon,
          FailSpawn, Record, HarnessKill
  <1> QED
    BY <1>1, SoundHolds, OrderlyHolds, GoneHolds, PTL DEF Spec, KilledStaysKilled

-----------------------------------------------------------------------------
(* The capacity *)

\* Every record of a server that runs belongs to an arm that is managed, or is about to
\* be read or adopted.
Adoptable ==
    Without({"early", "skipped"}) =>
        \A a \in Arms : record[a] \in live =>
            managed[a] # NoServer \/ phase \in {"down", "loading"} \/ todo[a] = record[a]

LEMMA AdoptableInit == Init => Adoptable
  BY DEF Init, Adoptable

LEMMA AdoptableStep ==
    ASSUME Sound, Orderly, Adoptable, [Next]_vars
    PROVE  Adoptable'
  <1> SUFFICES ASSUME Without({"early", "skipped"})', NEW a \in Arms, record'[a] \in live',
                      managed'[a] = NoServer, phase' \notin {"down", "loading"}
               PROVE  todo'[a] = record'[a]
    BY DEF Adoptable
  <1> TypeOK /\ ServerKnown /\ Owned /\ Without({"early", "skipped"}) /\ Without({"early"})
    BY MishapsGrow DEF Sound, Typed, Without
  <1> USE NullAssumption DEF host, api, At
  <1>1. CASE Outside
    BY <1>1 DEF Outside, Adoptable
  <1>2. CASE Start \/ Load \/ Stop
    BY <1>2 DEF Start, Load, Stop, TypeOK
  <1>3. CASE Ready
    BY <1>3 DEF Ready, Adoptable, NoServers, TypeOK
  <1>4. ASSUME NEW b \in Arms, Adopt(b)
        PROVE  todo'[a] = record'[a]
    BY <1>4 DEF Adopt, Adoptable, TypeOK
  <1>5. ASSUME NEW b \in Arms, Skip(b)
        PROVE  todo'[a] = record'[a]
    <2>1. todo[b] \notin live
      BY <1>5 DEF Skip, Mishap, Without
    <2> QED
      BY <1>5, <2>1 DEF Skip, Adoptable, TypeOK
  <1>6. CASE BeginSpawn \/ BeginKill
    BY <1>6 DEF BeginSpawn, BeginKill, Adoptable
  <1>7. ASSUME NEW s \in Servers, Launch(s)
        PROVE  todo'[a] = record'[a]
    BY <1>7 DEF Launch, Adoptable, Owned
  <1>8. ASSUME NEW s \in Servers, Exit(s) \/ Die(s)
        PROVE  todo'[a] = record'[a]
    BY <1>8 DEF Exit, Die, daemon, Adoptable
  <1>9. CASE FailSpawn \/ HarnessKill
    BY <1>9 DEF FailSpawn, HarnessKill, Adoptable
  <1>10. CASE Manage
    BY <1>10, JobTypes DEF Manage, Adoptable, ServerKnown, TypeOK
  <1>11. CASE Record
    <2>1. managed[job.arm] # NoServer
      BY <1>11, JobTypes DEF Record, Orderly, ServerKnown, KillStages
    <2> QED
      BY <1>11, <2>1 DEF Record, Adoptable, TypeOK
  <1>12. CASE Forget
    BY <1>12, JobTypes DEF Forget, Adoptable, TypeOK
  <1> QED
    BY <1>1, <1>2, <1>3, <1>4, <1>5, <1>6, <1>7, <1>8, <1>9, <1>10, <1>11, <1>12, Steps

LEMMA AdoptableHolds == Spec => []Adoptable
  BY AdoptableInit, AdoptableStep, SoundHolds, OrderlyHolds, PTL DEF Spec

\* An accepted spawn finds no server of its arm recorded and running.
LEMMA SpawnUnrecorded ==
    ASSUME Sound, Orderly, Adoptable, BeginSpawn, Without({"early", "skipped"})'
    PROVE  /\ phase = "ready" /\ todo = NoServers
           /\ Head(queue).arm \in Arms /\ record[Head(queue).arm] \notin live
           /\ \A a \in Arms : record[a] \in live => managed[a] # NoServer
  <1>1. phase = "ready" /\ Without({"early", "skipped"})
    BY DEF BeginSpawn, Mishap, Without
  <1>2. todo = NoServers
    BY <1>1 DEF Sound, Phased
  <1>3. Head(queue).arm \in Arms /\ managed[Head(queue).arm] = NoServer
    BY HeadTypes DEF BeginSpawn, Take, Sound, Typed
  <1>4. \A a \in Arms : record[a] \in live => managed[a] # NoServer
    BY <1>1, <1>2, NullAssumption DEF Adoptable, NoServers, Sound, Typed, TypeOK
  <1> QED
    BY <1>1, <1>2, <1>3, <1>4

\* The arms that take, or will take, a place: managed, recorded with a server that runs,
\* or being started.
Counted ==
    {a \in Arms : \/ managed[a] # NoServer
                  \/ record[a] \in live
                  \/ At({"checking", "launching"}) /\ job.arm = a}

Counting == Without({"early", "skipped"}) => Cardinality(Counted) <= MaxArms

\* Apart from the beginning of a spawn no step adds to them.
LEMMA CountedShrinks ==
    ASSUME Sound, Orderly, [Next]_vars, Without({"early"})', ~BeginSpawn
    PROVE  Counted' \subseteq Counted
  <1> SUFFICES ASSUME NEW a \in Counted'
               PROVE  a \in Counted
    OBVIOUS
  <1> TypeOK /\ ServerKnown /\ Owned /\ Without({"early"}) /\ a \in Arms
    BY MishapsGrow DEF Sound, Typed, Counted
  <1> USE NullAssumption DEF host, api, At, Counted
  <1>1. CASE Outside
    BY <1>1 DEF Outside, SameJob
  <1>2. CASE Start \/ Load \/ Ready \/ Stop
    BY <1>2 DEF Start, Load, Ready, Stop, NoServers
  <1>3. ASSUME NEW b \in Arms, Adopt(b) \/ Skip(b)
        PROVE  a \in Counted
    BY <1>3 DEF Adopt, Skip, Orderly, TypeOK
  <1>4. CASE BeginKill
    BY <1>4 DEF BeginKill, Handling
  <1>5. ASSUME NEW s \in Servers, Launch(s)
        PROVE  a \in Counted
    <2>1. job \in Jobs /\ job'.arm = job.arm
      BY <1>5, JobTypes DEF Launch, Jobs
    <2> QED
      BY <1>5, <2>1 DEF Launch, Owned
  <1>6. ASSUME NEW s \in Servers, Exit(s) \/ Die(s)
        PROVE  a \in Counted
    BY <1>6 DEF Exit, Die, daemon
  <1>7. CASE FailSpawn
    BY <1>7 DEF FailSpawn
  <1>8. CASE Manage
    <2>1. job \in Jobs /\ job'.stage = "recording"
      BY <1>8, JobTypes DEF Manage, Jobs
    <2> QED
      BY <1>8, <2>1 DEF Manage, TypeOK
  <1>9. CASE Record
    <2>1. managed[job.arm] # NoServer
      BY <1>9, JobTypes DEF Record, Orderly, ServerKnown, KillStages
    <2> QED
      BY <1>9, <2>1 DEF Record, TypeOK
  <1>10. CASE HarnessKill
    <2>1. job \in Jobs /\ job'.stage = "forgetting"
      BY <1>10, JobTypes DEF HarnessKill, Jobs
    <2> QED
      BY <1>10, <2>1 DEF HarnessKill
  <1>11. CASE Forget
    BY <1>11 DEF Forget, TypeOK
  <1> QED
    BY <1>1, <1>2, <1>3, <1>4, <1>5, <1>6, <1>7, <1>8, <1>9, <1>10, <1>11, Steps

LEMMA CountingStep ==
    ASSUME Sound, Orderly, Adoptable, Counting, [Next]_vars
    PROVE  Counting'
  <1> SUFFICES ASSUME Without({"early", "skipped"})'
               PROVE  Cardinality(Counted') <= MaxArms
    BY DEF Counting
  <1>1. Without({"early", "skipped"}) /\ Without({"early"})'
    BY MishapsGrow DEF Without
  <1>2. Cardinality(Counted) <= MaxArms /\ IsFiniteSet(Counted) /\ Cardinality(Counted) \in Nat
    BY <1>1, BoundAssumption, FS_Subset, FS_CardinalityType DEF Counting, Counted
  <1>3. CASE ~BeginSpawn
    <2>1. Cardinality(Counted') <= Cardinality(Counted) /\ Cardinality(Counted') \in Nat
      BY <1>1, <1>2, <1>3, CountedShrinks, FS_Subset, FS_CardinalityType
    <2> QED
      BY <1>2, <2>1, BoundAssumption
  <1>4. CASE BeginSpawn
    <2>1. IsFiniteSet(Managed) /\ Cardinality(Managed) \in Nat /\ Cardinality(Managed) < MaxArms
      BY <1>4, BoundAssumption, FS_Subset, FS_CardinalityType DEF Managed, BeginSpawn, Room
    <2>2. Counted' = Managed \cup {Head(queue).arm}
      <3>1. /\ job' # NoJob /\ job'.arm = Head(queue).arm /\ job'.stage = "checking"
            /\ UNCHANGED <<managed, record, live>>
        <4>1. queue # << >>
          BY <1>4 DEF BeginSpawn, Take
        <4>2. job' \in Jobs
          BY <1>4, <4>1, HandlingTypes DEF BeginSpawn, Stages, MaybeServer, Sound, Typed
        <4> QED
          BY <1>4, <4>2, JobAssumption DEF BeginSpawn, Handling, host
      <3>2. \A a \in Arms : record[a] \in live => managed[a] # NoServer
        BY <1>4, SpawnUnrecorded
      <3>3. Head(queue).arm \in Arms
        BY <1>4, SpawnUnrecorded
      <3>4. At({"checking", "launching"})'
        BY <3>1 DEF At
      <3>5. \A a \in Arms : record'[a] \in live' => managed'[a] # NoServer
        BY <3>1, <3>2
      <3>6. \A a \in Arms : a \in Counted' <=> managed[a] # NoServer \/ Head(queue).arm = a
        BY <3>1, <3>4, <3>5 DEF Counted
      <3> QED
        BY <3>3, <3>6 DEF Counted, Managed
    <2>3. \/ Cardinality(Counted') = Cardinality(Managed)
          \/ Cardinality(Counted') = Cardinality(Managed) + 1
      BY <2>1, <2>2, FS_AddElement
    <2> QED
      BY <2>1, <2>3, BoundAssumption
  <1> QED
    BY <1>3, <1>4

LEMMA CountingHolds == Spec => []Counting
  <1>1. Init => Counting
    <2> SUFFICES ASSUME Init
                 PROVE  Counting
      OBVIOUS
    <2>1. Counted = {}
      BY NullAssumption DEF Init, Counted, NoServers, At
    <2> QED
      BY <2>1, FS_EmptySet, BoundAssumption DEF Counting
  <1> QED
    BY <1>1, CountingStep, SoundHolds, OrderlyHolds, AdoptableHolds, PTL DEF Spec

\* A daemon that adopts every record of a server that runs, and spawns nothing before it
\* has, manages no more arms than its capacity, the one it is starting included.
THEOREM CapacityHolds == Spec => []CapacityKept
  <1>1. Sound /\ Orderly /\ Counting => CapacityKept
    <2> SUFFICES ASSUME Sound, Orderly, Counting, Without({"early", "skipped"})
                 PROVE  Cardinality(Managed) + (IF At({"checking", "launching"}) THEN 1 ELSE 0) <= MaxArms
      BY DEF CapacityKept
    <2>1. /\ IsFiniteSet(Counted) /\ Cardinality(Counted) \in Nat
          /\ IsFiniteSet(Managed) /\ Cardinality(Managed) \in Nat
          /\ Cardinality(Counted) <= MaxArms
      BY BoundAssumption, FS_Subset, FS_CardinalityType DEF Counted, Managed, Counting
    <2>2. CASE At({"checking", "launching"})
      <3>1. job.arm \in Arms /\ job.arm \notin Managed
        BY <2>2, JobTypes DEF At, Orderly, Without, Managed, Sound, Typed
      <3>2. Managed \cup {job.arm} \subseteq Counted
        BY <2>2, <3>1 DEF Counted, Managed
      <3>3. /\ Cardinality(Managed \cup {job.arm}) = Cardinality(Managed) + 1
            /\ IsFiniteSet(Managed \cup {job.arm})
        BY <2>1, <3>1, FS_AddElement
      <3>4. Cardinality(Managed \cup {job.arm}) <= Cardinality(Counted)
        BY <2>1, <3>2, FS_Subset
      <3> QED
        BY <2>1, <2>2, <3>3, <3>4, BoundAssumption
    <2>3. CASE ~At({"checking", "launching"})
      <3>1. Cardinality(Managed) <= Cardinality(Counted)
        BY <2>1, FS_Subset DEF Counted, Managed
      <3> QED
        BY <2>1, <2>3, <3>1, BoundAssumption
    <2> QED
      BY <2>2, <2>3
  <1> QED
    BY <1>1, SoundHolds, OrderlyHolds, CountingHolds, PTL

-----------------------------------------------------------------------------
(* One server for each arm *)

\* Every server that is to run is recorded for its arm, or is being started; an arm that
\* is being started has no recorded server that runs; a kill has told its server before it
\* forgets it; what runs and is managed is recorded.
Accounted ==
    Without({"early", "skipped", "unrecorded", "orphaned", "survived"}) =>
        /\ \A s \in Wanted : \/ record[started[s]] = s
                             \/ At({"launching", "recording"}) /\ job.server = s
        /\ At(SpawnStages) => record[job.arm] \notin live
        /\ At({"forgetting"}) => job.server \notin Wanted
        /\ \A a \in Arms : record[a] \in live /\ managed[a] # NoServer => managed[a] = record[a]

LEMMA AccountedInit == Init => Accounted
  BY DEF Init, Accounted, Wanted, At

LEMMA AccountedStep ==
    ASSUME Sound, Orderly, Adoptable, Accounted, [Next]_vars
    PROVE  Accounted'
  <1> SUFFICES ASSUME Without({"early", "skipped", "unrecorded", "orphaned", "survived"})'
               PROVE  Accounted'
    BY DEF Accounted
  <1>0. /\ Without({"early", "skipped", "unrecorded", "orphaned", "survived"})
        /\ Without({"early"}) /\ Without({"early", "skipped"})'
    BY MishapsGrow DEF Without
  <1> TypeOK /\ ServerKnown /\ Owned
    BY DEF Sound, Typed
  <1> USE <1>0, NullAssumption DEF host, api, At, SpawnStages, Wanted
  <1>1. CASE Outside
    BY <1>1 DEF Outside, SameJob, Accounted
  <1>2. CASE Start \/ Load \/ Ready
    BY <1>2 DEF Start, Load, Ready, Accounted
  <1>3. CASE Stop
    <2>1. ~At({"launching", "recording"}) \/ job.server \notin live
      BY <1>3 DEF Stop, Mishap, Without
    <2> QED
      BY <1>3, <2>1 DEF Stop, Accounted, NoServers
  <1>4. ASSUME NEW a \in Arms, Adopt(a)
        PROVE  Accounted'
    BY <1>4 DEF Adopt, Accounted, Orderly, TypeOK
  <1>5. ASSUME NEW a \in Arms, Skip(a)
        PROVE  Accounted'
    BY <1>5 DEF Skip, Accounted
  <1>6. CASE BeginSpawn
    <2>1. record[Head(queue).arm] \notin live
      BY <1>6, SpawnUnrecorded
    <2> QED
      BY <1>6, <2>1 DEF BeginSpawn, Take, Handling, Accounted
  <1>7. CASE BeginKill
    BY <1>7 DEF BeginKill, Take, Handling, Accounted
  <1>8. ASSUME NEW s \in Servers, Launch(s)
        PROVE  Accounted'
    <2>1. /\ job.arm \in Arms /\ job' # NoJob /\ job'.stage = "launching"
          /\ job'.server = s /\ job'.arm = job.arm
      BY <1>8, LaunchJob
    <2>2. /\ \A a \in Arms : record[a] # s
          /\ \A r \in live : r # s /\ started[r] \in Arms
      BY <1>8 DEF Launch, Owned, TypeOK
    <2>3. \A r \in live : started'[r] = started[r]
      BY <1>8, <2>2 DEF Launch, TypeOK
    <2>4. ~At({"launching", "recording"}) /\ record[job.arm] \notin live
      BY <1>8 DEF Launch, Accounted
    <2>5. UNCHANGED <<record, managed, told>> /\ live' = live \cup {s}
      BY <1>8 DEF Launch
    <2> QED
      BY <2>1, <2>2, <2>3, <2>4, <2>5 DEF Accounted
  <1>9. ASSUME NEW s \in Servers, Exit(s) \/ Die(s)
        PROVE  Accounted'
    BY <1>9 DEF Exit, Die, daemon, Accounted
  <1>10. CASE FailSpawn
    <2>1. live' = live \ {job.server}
      BY <1>10 DEF FailSpawn, Mishap, Without
    <2>2. \A s \in Wanted' : record[started[s]] = s
      BY <1>10, <2>1 DEF FailSpawn, Accounted
    <2> QED
      BY <1>10, <2>1, <2>2 DEF FailSpawn, Accounted
  <1>11. CASE Manage
    <2>1. job \in Jobs /\ job'.stage = "recording" /\ job'.arm = job.arm /\ job'.server = job.server
      BY <1>11, JobTypes DEF Manage, Jobs
    <2>2. managed' = [managed EXCEPT ![job.arm] = job.server] /\ record[job.arm] \notin live
      BY <1>11 DEF Manage, Accounted
    <2>3. \A s \in Wanted : record[started[s]] = s \/ job.server = s
      BY DEF Accounted
    <2>4. \A a \in Arms : record[a] \in live /\ managed'[a] # NoServer => managed'[a] = record[a]
      BY <2>2 DEF Accounted, TypeOK
    <2>5. job' # NoJob /\ UNCHANGED <<record, started, live, told>>
      BY <1>11, <2>1, JobAssumption, JobUpdates DEF Manage, Stages
    <2> QED
      BY <2>1, <2>2, <2>3, <2>4, <2>5 DEF Accounted
  <1>12. CASE Record
    <2>1. record' = [record EXCEPT ![job.arm] = job.server] /\ job.server \in live
      BY <1>12 DEF Record, Mishap, Without
    <2>2. managed[job.arm] = job.server /\ started[job.server] = job.arm /\ job.arm \in Arms
      BY <1>12, <2>1, JobTypes DEF Record, Orderly, KillStages, Owned, TypeOK
    <2>3. \A s \in Wanted : s # job.server => record[started[s]] = s /\ started[s] # job.arm
      BY <1>12 DEF Record, Accounted
    <2> QED
      BY <1>12, <2>1, <2>2, <2>3 DEF Record, Accounted, TypeOK
  <1>13. CASE HarnessKill
    <2>1. job \in Jobs /\ job'.stage = "forgetting" /\ job'.server = job.server
      BY <1>13, JobTypes DEF HarnessKill, Jobs
    <2>2. told' = told \cup {job.server} /\ UNCHANGED <<record, started, managed, live>>
      BY <1>13 DEF HarnessKill
    <2>3. ~At({"launching", "recording"})
      BY <1>13 DEF HarnessKill
    <2> QED
      BY <2>1, <2>2, <2>3 DEF Accounted
  <1>14. CASE Forget
    <2>1. /\ job.arm \in Arms /\ managed[job.arm] = job.server /\ job.server # NoServer
          /\ job.server \notin Wanted
      BY <1>14, JobTypes DEF Forget, Orderly, KillStages, ServerKnown, Accounted
    <2>2. record[job.arm] \notin Wanted
      BY <2>1 DEF Accounted
    <2>3. \A s \in Wanted : record[started[s]] = s /\ started[s] # job.arm
      BY <1>14, <2>2 DEF Forget, Accounted
    <2> QED
      BY <1>14, <2>1, <2>3 DEF Forget, Accounted, TypeOK
  <1> QED
    BY <1>1, <1>2, <1>3, <1>4, <1>5, <1>6, <1>7, <1>8, <1>9, <1>10, <1>11, <1>12, <1>13,
       <1>14, Steps

LEMMA AccountedHolds == Spec => []Accounted
  BY AccountedInit, AccountedStep, SoundHolds, OrderlyHolds, AdoptableHolds, PTL DEF Spec

\* An arm never has two servers that run and that nobody told to stop, however often the
\* daemon restarted and whatever command timed out and was handled all the same, unless a
\* server was started before the records were adopted, overlooked, not recorded, or not
\* cleaned up.  (One that was told to stop may run beside its successor.)
THEOREM OneServerHolds == Spec => []OneServer
  <1>1. Sound /\ Accounted => OneServer
    <2> SUFFICES ASSUME Sound, Accounted,
                        Without({"early", "skipped", "unrecorded", "orphaned", "survived"}),
                        NEW s \in Wanted, NEW r \in Wanted, started[s] = started[r]
                 PROVE  s = r
      BY DEF OneServer
    <2>1. \A q \in Wanted : \/ record[started[q]] = q
                            \/ /\ At({"launching", "recording"}) /\ job.server = q
                               /\ started[q] = job.arm /\ record[job.arm] \notin live
      BY NullAssumption DEF Accounted, Wanted, At, SpawnStages, Sound, Owned, Typed, TypeOK
    <2> QED
      BY <2>1 DEF Wanted
  <1> QED
    BY <1>1, SoundHolds, AccountedHolds, PTL

\* The servers that run and that nobody told to stop were started for different arms, each
\* of which is counted, so that there are no more of them than the capacity: beside those
\* that are stopping, what a failed spawn, a lost kill or a stop of the daemon leaves
\* behind never uses the machine beyond it.
THEOREM HostCapacityHolds == Spec => []HostCapacity
  <1>1. Sound /\ Orderly /\ Accounted /\ Counting /\ OneServer => HostCapacity
    <2> SUFFICES ASSUME Sound, Orderly, Accounted, Counting, OneServer,
                        Without({"early", "skipped", "unrecorded", "orphaned", "survived"})
                 PROVE  Cardinality(Wanted) <= MaxArms
      BY DEF HostCapacity
    <2> DEFINE owner == [s \in Wanted |-> started[s]]
    <2>1. \A s \in Wanted : started[s] \in Counted
      <3> TAKE s \in Wanted
      <3>1. s \in Servers /\ s \in live /\ started[s] \in Arms
        BY DEF Wanted, Sound, Owned, Typed, TypeOK
      <3>2. CASE record[started[s]] = s
        BY <3>1, <3>2 DEF Counted
      <3>3. CASE At({"launching", "recording"}) /\ job.server = s
        <4>1. started[s] = job.arm
          BY <3>1, <3>3, NullAssumption DEF At, Sound, Owned
        <4>2. CASE At({"launching"})
          BY <3>1, <4>1, <4>2 DEF At, Counted
        <4>3. CASE At({"recording"})
          <5>1. managed[job.arm] # NoServer
            BY <3>1, <3>3, <4>3, NullAssumption DEF At, Orderly, Without
          <5> QED
            BY <3>1, <4>1, <5>1 DEF Counted
        <4> QED
          BY <3>3, <4>2, <4>3 DEF At
      <3> QED
        BY <3>2, <3>3 DEF Accounted
    <2>2. owner \in Injection(Wanted, Counted)
      BY <2>1 DEF OneServer, Injection, IsInjective
    <2>3. IsFiniteSet(Counted) /\ Cardinality(Counted) \in Nat
      BY BoundAssumption, FS_Subset, FS_CardinalityType DEF Counted
    <2>4. IsFiniteSet(Wanted) /\ Cardinality(Wanted) <= Cardinality(Counted)
      BY <2>2, <2>3, FS_Injection
    <2>5. Cardinality(Wanted) \in Nat
      BY <2>4, FS_CardinalityType
    <2>6. Cardinality(Counted) <= MaxArms
      BY DEF Counting, Without
    <2> QED
      BY <2>3, <2>4, <2>5, <2>6, BoundAssumption
  <1> QED
    BY <1>1, SoundHolds, OrderlyHolds, AccountedHolds, CountingHolds, OneServerHolds, PTL

-----------------------------------------------------------------------------
(* The rows of the arms *)

\* Only kills are awaited.
AwaitedAreKills ==
    /\ \A i \in DOMAIN queue : queue[i].awaited => queue[i].kind = "kill"
    /\ job # NoJob /\ job.awaited => At(KillStages)

\* A kill of the arm waits in the queue.
KillQueued(a) == \E i \in DOMAIN queue : queue[i].kind = "kill" /\ queue[i].arm = a

KillUnderWay(a) == KillQueued(a) \/ (At(KillStages) /\ job.arm = a)

\* A row that says "running" is that of a recorded server that runs, or its spawn or kill
\* is about to end; a session has its server until a kill ends it; only a kill about to end
\* has told a server to stop that is managed or recorded; and the row of a session says
\* anything else only while its kill, or the end of its spawn, is under way.
RowOf(a) ==
    /\ row[a] = "running" =>
           record[a] \in live \/ (At({"recording", "forgetting"}) /\ job.arm = a)
    /\ managed[a] # NoServer =>
           managed[a] \in live \/ (At({"forgetting"}) /\ job.arm = a)
    /\ managed[a] \in told \/ record[a] \in told => At({"forgetting"}) /\ job.arm = a
    /\ managed[a] # NoServer /\ row[a] # "running" =>
           KillUnderWay(a) \/ (At({"recording"}) /\ job.arm = a)

Rowed == mishaps = {} => \A a \in Arms : RowOf(a)

\* The queue is a sequence of commands, and what joining and leaving it do to its kills.
LEMMA QueueIndices ==
    ASSUME TypeOK
    PROVE  Len(queue) \in Nat /\ DOMAIN queue = 1..Len(queue)
  BY LenProperties DEF TypeOK

LEMMA SendKeeps ==
    ASSUME TypeOK, NEW command \in Commands, queue' = Append(queue, command)
    PROVE  /\ Len(queue) + 1 \in DOMAIN queue' /\ queue'[Len(queue) + 1] = command
           /\ \A i \in DOMAIN queue : i \in DOMAIN queue' /\ queue'[i] = queue[i]
           /\ \A i \in DOMAIN queue' : queue'[i] = command \/ (i \in DOMAIN queue /\ queue'[i] = queue[i])
  <1>1. queue \in Seq(Commands)
    BY DEF TypeOK
  <1> QED
    BY <1>1, QueueIndices, AppendProperties

LEMMA TakeKeeps ==
    ASSUME TypeOK, queue # << >>, queue' = Tail(queue)
    PROVE  /\ \A i \in DOMAIN queue' : i + 1 \in DOMAIN queue /\ queue'[i] = queue[i + 1]
           /\ \A i \in DOMAIN queue : i # 1 => i - 1 \in DOMAIN queue' /\ queue'[i - 1] = queue[i]
           /\ Head(queue) = queue[1] /\ 1 \in DOMAIN queue
  <1>1. queue \in Seq(Commands)
    BY DEF TypeOK
  <1>2. Len(queue) \in Nat \ {0} /\ DOMAIN queue = 1..Len(queue)
    BY <1>1, QueueIndices, EmptySeq
  <1>3. /\ Tail(queue) \in Seq(Commands) /\ Len(Tail(queue)) = Len(queue) - 1
        /\ \A i \in 1..Len(Tail(queue)) : Tail(queue)[i] = queue[i + 1]
    BY <1>1, HeadTailProperties
  <1>4. DOMAIN queue' = 1..(Len(queue) - 1)
    BY <1>3, LenProperties
  <1> QED
    BY <1>1, <1>2, <1>3, <1>4

LEMMA AwaitedStep ==
    ASSUME Typed, AwaitedAreKills, [Next]_vars
    PROVE  AwaitedAreKills'
  <1> TypeOK /\ ServerKnown
    BY DEF Typed
  <1>1. \A i \in DOMAIN queue' : queue'[i].awaited => queue'[i].kind = "kill"
    <2>1. CASE UNCHANGED queue
      BY <2>1 DEF AwaitedAreKills
    <2>2. CASE \E a \in Arms : AskSpawn(a)
      <3>1. PICK a \in Arms : AskSpawn(a)
        BY <2>2
      <3>2. [kind |-> "spawn", arm |-> a, awaited |-> FALSE] \in Commands
        BY DEF Commands
      <3> QED
        BY <3>1, <3>2, SendKeeps DEF AskSpawn, Send, AwaitedAreKills
    <2>3. CASE \E a \in Arms : AskKill(a)
      <3>1. PICK a \in Arms : AskKill(a)
        BY <2>3
      <3>2. [kind |-> "kill", arm |-> a, awaited |-> TRUE] \in Commands
        BY DEF Commands
      <3>3. \/ UNCHANGED queue
            \/ queue' = Append(queue, [kind |-> "kill", arm |-> a, awaited |-> TRUE])
        BY <3>1 DEF AskKill, Send
      <3> QED
        BY <2>1, <3>2, <3>3, SendKeeps DEF AwaitedAreKills
    <2>4. CASE \E i \in DOMAIN queue : TimeOutQueued(i)
      BY <2>4, QueuedTypes DEF TimeOutQueued, AwaitedAreKills, Commands
    <2>5. CASE RestartApi
      BY <2>5, QueuedTypes DEF RestartApi, AwaitedAreKills, Commands
    <2>6. CASE Stop
      BY <2>6 DEF Stop
    <2>7. CASE BeginSpawn \/ RefuseSpawn \/ BeginKill \/ RefuseKill
      <3>1. queue # << >> /\ queue' = Tail(queue)
        BY <2>7 DEF BeginSpawn, RefuseSpawn, BeginKill, RefuseKill, Take
      <3> QED
        BY <3>1, TakeKeeps DEF AwaitedAreKills
    <2> QED
      BY <2>1, <2>2, <2>3, <2>4, <2>5, <2>6, <2>7
      DEF Next, vars, daemon, Start, Load, Ready, Adopt, Skip, TimeOutLost, KillNowhere, StatusChange,
          TimeOutJob, Heartbeat, Evict, Launch, Exit, Die, FailSpawn, Manage, Record, HarnessKill,
          Forget
  <1>2. ASSUME job' # NoJob, job'.awaited
        PROVE  At(KillStages)'
    <2> USE DEF At, KillStages
    <2>1. CASE UNCHANGED job
      BY <1>2, <2>1 DEF AwaitedAreKills
    <2>2. CASE TimeOutJob \/ RestartApi
      BY <1>2, <2>2, JobTypes DEF TimeOutJob, RestartApi, Jobs
    <2>3. CASE BeginSpawn
      <3>1. Head(queue).kind = "spawn" /\ job'.awaited = Head(queue).awaited /\ queue # << >>
            /\ queue' = Tail(queue)
        BY <2>3 DEF BeginSpawn, Take, Handling
      <3> QED
        BY <1>2, <3>1, TakeKeeps DEF AwaitedAreKills
    <2>4. CASE BeginKill
      BY <1>2, <2>4 DEF BeginKill, Handling
    <2>5. ASSUME NEW s \in Servers, Launch(s)
          PROVE  At(KillStages)'
      BY <1>2, <2>5, JobTypes DEF Launch, Jobs, AwaitedAreKills
    <2>6. CASE Manage \/ HarnessKill
      BY <1>2, <2>6, JobTypes DEF Manage, HarnessKill, Jobs, AwaitedAreKills
    <2>7. CASE Stop \/ FailSpawn \/ Record \/ Forget
      BY <1>2, <2>7 DEF Stop, FailSpawn, Record, Forget
    <2> QED
      BY <2>1, <2>2, <2>3, <2>4, <2>5, <2>6, <2>7
      DEF Next, vars, daemon, Start, Load, Ready, Adopt, Skip, AskSpawn, AskKill, TimeOutLost,
          KillNowhere, StatusChange, TimeOutQueued, Heartbeat, Evict, RefuseSpawn, RefuseKill,
          Exit, Die
  <1> QED
    BY <1>1, <1>2 DEF AwaitedAreKills

LEMMA AwaitedHolds == Spec => []AwaitedAreKills
  <1>1. Init => AwaitedAreKills
    BY DEF Init, AwaitedAreKills
  <1> QED
    BY <1>1, AwaitedStep, TypedHolds, PTL DEF Spec

\* A kill stays in the queue until it is handled, or the daemon stops.
LEMMA KillsStay ==
    ASSUME TypeOK, [Next]_vars, ~Stop, NEW a \in Arms, KillQueued(a)
    PROVE  \/ KillQueued(a)'
           \/ BeginKill /\ Head(queue).arm = a
           \/ managed[a] = NoServer /\ RefuseKill
  <1> PICK i \in DOMAIN queue : queue[i].kind = "kill" /\ queue[i].arm = a
    BY DEF KillQueued
  <1> USE DEF KillQueued
  <1>1. CASE UNCHANGED queue
    BY <1>1
  <1>2. CASE \E b \in Arms : AskSpawn(b) \/ AskKill(b)
    <2>1. PICK b \in Arms : AskSpawn(b) \/ AskKill(b)
      BY <1>2
    <2>2. /\ [kind |-> "spawn", arm |-> b, awaited |-> FALSE] \in Commands
          /\ [kind |-> "kill", arm |-> b, awaited |-> TRUE] \in Commands
      BY DEF Commands
    <2>3. UNCHANGED queue \/ \E command \in Commands : queue' = Append(queue, command)
      BY <2>1, <2>2 DEF AskSpawn, AskKill, Send
    <2> QED
      BY <1>1, <2>3, SendKeeps
  <1>3. CASE \E j \in DOMAIN queue : TimeOutQueued(j)
    BY <1>3, QueuedTypes DEF TimeOutQueued, Commands
  <1>4. CASE RestartApi
    BY <1>4, QueuedTypes DEF RestartApi, Commands
  <1>5. CASE BeginSpawn \/ RefuseSpawn \/ BeginKill \/ RefuseKill
    <2>1. queue # << >> /\ queue' = Tail(queue)
      BY <1>5 DEF BeginSpawn, RefuseSpawn, BeginKill, RefuseKill, Take
    <2>2. CASE i # 1
      <3>1. i - 1 \in DOMAIN queue' /\ queue'[i - 1] = queue[i]
        BY <2>1, <2>2, TakeKeeps
      <3> QED
        BY <3>1
    <2>3. CASE i = 1
      <3>1. Head(queue).kind = "kill" /\ Head(queue).arm = a
        BY <2>1, <2>3, TakeKeeps
      <3> QED
        BY <1>5, <3>1 DEF BeginSpawn, RefuseSpawn, RefuseKill, Take
    <2> QED
      BY <2>2, <2>3
  <1> QED
    BY <1>1, <1>2, <1>3, <1>4, <1>5
    DEF Next, vars, daemon, Start, Load, Ready, Adopt, Skip, TimeOutLost, KillNowhere, StatusChange,
        TimeOutJob, Heartbeat, Evict, Launch, Exit, Die, FailSpawn, Manage, Record, HarnessKill, Forget

\* What an outside step does to a row while nothing goes wrong: it changes one that does not
\* say "running" to another such, it stops the row of an arm whose kill is under way, or
\* which is not managed, or hears of a server that runs.
LEMMA RowChanges ==
    ASSUME Typed, AwaitedAreKills, [Next]_vars, Outside, mishaps' = {}, NEW a \in Arms
    PROVE  \/ row'[a] = row[a]
           \/ row'[a] # "running" /\ row[a] # "running"
           \/ row'[a] = "stopped" /\ (managed[a] = NoServer \/ KillUnderWay(a)')
           \/ row'[a] = "running" /\ managed[a] \in live
  <1> TypeOK /\ ServerKnown
    BY DEF Typed
  <1> SUFFICES ASSUME row'[a] # row[a], row'[a] = "running" \/ row[a] = "running"
               PROVE  \/ row'[a] = "stopped" /\ (managed[a] = NoServer \/ KillUnderWay(a)')
                      \/ row'[a] = "running" /\ managed[a] \in live
    OBVIOUS
  <1> USE NullAssumption DEF Heard, host, api, KillUnderWay, KillQueued
  <1>1. ASSUME NEW b \in Arms, AskKill(b)
        PROVE  FALSE
    BY <1>1 DEF AskKill, Mishap
  <1>2. ASSUME NEW b \in Arms, TimeOutLost(b)
        PROVE  FALSE
    BY <1>2 DEF TimeOutLost, Mishap
  <1>3. ASSUME NEW b \in Arms, StatusChange(b)
        PROVE  row'[a] = "running" /\ managed[a] \in live
    BY <1>3 DEF StatusChange, TypeOK
  <1>4. ASSUME NEW i \in DOMAIN queue, TimeOutQueued(i)
        PROVE  row'[a] = "stopped" /\ KillUnderWay(a)'
    <2>1. queue[i].kind = "kill" /\ queue[i].arm \in Arms /\ queue[i] \in Commands
      BY <1>4, QueuedTypes DEF TimeOutQueued, AwaitedAreKills
    <2>2. queue[i].arm = a /\ row'[a] = "stopped"
      BY <1>4, <2>1 DEF TimeOutQueued, TypeOK
    <2>3. i \in DOMAIN queue' /\ queue'[i].kind = "kill" /\ queue'[i].arm = a
      BY <1>4, <2>1, <2>2 DEF TimeOutQueued, Commands
    <2> QED
      BY <2>2, <2>3
  <1>5. CASE TimeOutJob
    <2>1. job # NoJob /\ job.arm \in Arms /\ At(KillStages)
      BY <1>5, JobTypes DEF TimeOutJob, AwaitedAreKills
    <2>2. job.arm = a /\ row'[a] = "stopped"
      BY <1>5, <2>1 DEF TimeOutJob, TypeOK
    <2>3. At(KillStages)' /\ job'.arm = a
      BY <2>1, <2>2 DEF Outside, SameJob, At
    <2> QED
      BY <2>2, <2>3
  <1>6. CASE RefuseKill
    <2>1. Head(queue).arm \in Arms
      BY <1>6, HeadTypes DEF RefuseKill, Take
    <2> QED
      BY <1>6, <2>1 DEF RefuseKill, TypeOK
  <1>7. ASSUME NEW b \in Arms, Adopt(b)
        PROVE  FALSE
    BY <1>7 DEF Adopt, Outside, TypeOK
  <1>8. CASE Record \/ Forget
    BY <1>8 DEF Record, Forget, Outside, SameJob, At
  <1>9. ASSUME NEW b \in Arms, AskSpawn(b) \/ KillNowhere(b)
        PROVE  FALSE
    BY <1>9 DEF AskSpawn, KillNowhere, TypeOK
  <1> QED
    BY <1>1, <1>2, <1>3, <1>4, <1>5, <1>6, <1>7, <1>8, <1>9
    DEF Next, vars, Start, Load, Ready, Stop, Skip, RestartApi, Heartbeat, Evict,
        BeginSpawn, RefuseSpawn, BeginKill, Launch, Exit, Die, FailSpawn, Manage, HarnessKill

LEMMA RowedStep ==
    ASSUME Sound, Orderly, Recoverable, Accounted, AwaitedAreKills, Rowed, [Next]_vars
    PROVE  Rowed'
  <1> SUFFICES ASSUME mishaps' = {}, NEW a \in Arms
               PROVE  RowOf(a)'
    BY DEF Rowed
  <1>0. /\ mishaps = {} /\ Without({"early"}) /\ Without({"unrecorded", "early"})
        /\ Without({"early", "skipped", "unrecorded", "orphaned", "survived"})
    BY MishapsGrow DEF Without
  <1> TypeOK /\ ServerKnown /\ Owned /\ Typed
    BY DEF Sound, Typed
  <1>1. RowOf(a)
    BY <1>0 DEF Rowed
  <1>2. KillQueued(a) /\ managed[a] # NoServer /\ ~Stop =>
            KillQueued(a)' \/ (BeginKill /\ Head(queue).arm = a)
    BY KillsStay
  <1> USE NullAssumption DEF host, api, At, RowOf, KillUnderWay, KillStages
  <1>3. CASE Outside
    <2>1. \/ row'[a] = row[a]
          \/ row'[a] # "running" /\ row[a] # "running"
          \/ row'[a] = "stopped" /\ (managed[a] = NoServer \/ KillUnderWay(a)')
          \/ row'[a] = "running" /\ managed[a] \in live
      BY <1>0, <1>3, RowChanges
    <2>2. UNCHANGED <<managed, record, live, told>> /\ SameJob
      BY <1>3 DEF Outside
    <2>3. managed[a] \in live => record[a] = managed[a] \/ (At({"recording"}) /\ job.arm = a)
      BY <1>0 DEF Recoverable
    <2>4. ~BeginKill
      <3> SUFFICES ASSUME BeginKill
                   PROVE  FALSE
        OBVIOUS
      <3>1. queue # << >> /\ job = NoJob
        BY DEF BeginKill, Take
      <3>2. job' \in Jobs
        BY <3>1, HeadTypes, HandlingTypes DEF BeginKill, Stages, TypeOK
      <3> QED
        BY <2>2, <3>1, <3>2, JobAssumption DEF SameJob
    <2>5. Stop => managed'[a] = NoServer
      BY DEF Stop, NoServers
    <2> QED
      BY <1>1, <1>2, <2>1, <2>2, <2>3, <2>4, <2>5 DEF SameJob
  <1>4. CASE Start \/ Load \/ Ready
    BY <1>1, <1>4 DEF Start, Load, Ready, KillQueued
  <1>5. CASE Stop
    <2>1. managed'[a] = NoServer /\ UNCHANGED <<row, record, live, told>> /\ told \subseteq Servers
      BY <1>5 DEF Stop, NoServers, TypeOK
    <2>2. ~At({"forgetting"}) /\ (At({"recording"}) => job.server \notin live)
      BY <1>0, <1>5 DEF Stop, Mishap
    <2>3. At({"recording"}) /\ job.arm = a => managed[a] = job.server /\ job.server # NoServer
      BY <1>0 DEF Orderly, ServerKnown
    <2>4. ~(At({"recording"}) /\ job.arm = a)
      BY <1>1, <2>2, <2>3
    <2> QED
      BY <1>1, <2>1, <2>2, <2>4
  <1>6. ASSUME NEW b \in Arms, Adopt(b)
        PROVE  RowOf(a)'
    <2>1. record[b] = todo[b]
      BY <1>0, <1>6 DEF Adopt, Orderly, TypeOK
    <2> QED
      BY <1>1, <1>6, <2>1 DEF Adopt, Heard, TypeOK, KillQueued
  <1>7. ASSUME NEW b \in Arms, Skip(b)
        PROVE  RowOf(a)'
    BY <1>1, <1>7 DEF Skip, KillQueued
  <1>8. CASE BeginSpawn \/ BeginKill
    <2>1. job = NoJob /\ UNCHANGED <<managed, row, record, live, told>> /\ queue # << >>
      BY <1>8 DEF BeginSpawn, BeginKill, Take
    <2>2. ~Stop
      BY <1>8 DEF Stop, BeginSpawn, BeginKill, Take, Running
    <2>3. BeginKill => job' # NoJob /\ job'.stage \in KillStages /\ job'.arm = Head(queue).arm
      <3> SUFFICES ASSUME BeginKill
                   PROVE  job' # NoJob /\ job'.stage \in KillStages /\ job'.arm = Head(queue).arm
        OBVIOUS
      <3>1. job' \in Jobs
        BY <2>1, HeadTypes, HandlingTypes DEF BeginKill, Stages, TypeOK
      <3> QED
        BY <3>1, JobAssumption DEF BeginKill, Handling
    <2> QED
      BY <1>1, <1>2, <2>1, <2>2, <2>3
  <1>9. ASSUME NEW s \in Servers, Launch(s)
         PROVE  RowOf(a)'
    BY <1>1, <1>9 DEF Launch, KillQueued
  <1>10. ASSUME NEW s \in Servers, Die(s)
         PROVE  FALSE
    BY <1>10 DEF Die, Mishap
  <1>16. ASSUME NEW s \in Servers, Exit(s)
         PROVE  RowOf(a)'
    <2>1. live' = live \ {s} /\ s \in told /\ UNCHANGED <<managed, row, record, told, job, queue>>
      BY <1>16 DEF Exit, daemon
    <2> QED
      BY <1>1, <2>1 DEF KillQueued
  <1>11. CASE FailSpawn
    <2>1. live' = live \ {job.server}
      BY <1>0, <1>11 DEF FailSpawn, Mishap
    <2>2. job.server \in live => job.arm \in Arms /\ started[job.server] = job.arm
      BY <1>11, JobTypes DEF FailSpawn, Owned, TypeOK
    <2>3. managed[job.arm] = NoServer /\ record[job.arm] \notin live
      BY <1>0, <1>11 DEF FailSpawn, Orderly, Accounted, SpawnStages
    <2>4. job.server \in live => managed[a] # job.server /\ record[a] # job.server
      BY <2>2, <2>3 DEF Owned, TypeOK
    <2> QED
      BY <1>1, <1>11, <2>1, <2>4 DEF FailSpawn, KillQueued
  <1>12. CASE Manage
    <2>1. job'.stage = "recording" /\ job'.arm = job.arm /\ job' # NoJob
      BY <1>12, StageJob DEF Manage, Stages
    <2>2. job.server \notin told
      BY <1>12 DEF Manage, Sound, Phased
    <2> QED
      BY <1>1, <1>12, <2>1, <2>2 DEF Manage, KillQueued, TypeOK
  <1>13. CASE Record
    <2>1. record' = [record EXCEPT ![job.arm] = job.server] /\ job.server \in live
      BY <1>0, <1>13 DEF Record, Mishap
    <2>2. job.server \notin told
      BY <1>13 DEF Record, Sound, Phased
    <2> QED
      BY <1>1, <1>13, <2>1, <2>2 DEF Record, Heard, KillQueued, TypeOK
  <1>14. CASE HarnessKill
    <2>1. told' = told \cup {job.server} /\ UNCHANGED <<managed, row, record, queue, live>>
      BY <1>14 DEF HarnessKill, daemon
    <2>2. job'.stage = "forgetting" /\ job'.arm = job.arm /\ job' # NoJob /\ job # NoJob
      BY <1>14, StageJob DEF HarnessKill, Stages
    <2>3. managed[a] = job.server \/ record[a] = job.server => job.arm = a
      BY <1>14, <2>2 DEF HarnessKill, ServerKnown, Owned, TypeOK
    <2>4. KillQueued(a)' <=> KillQueued(a)
      BY <2>1 DEF KillQueued
    <2> QED
      BY <1>1, <1>14, <2>1, <2>2, <2>3, <2>4 DEF HarnessKill
  <1>15. CASE Forget
    BY <1>1, <1>15 DEF Forget, Heard, KillQueued, TypeOK
  <1> QED
    BY <1>3, <1>4, <1>5, <1>6, <1>7, <1>8, <1>9, <1>10, <1>11, <1>12, <1>13, <1>14, <1>15,
       <1>16, Steps

\* As long as nothing goes wrong, a daemon with nothing left to do manages exactly the
\* arms whose row says that they run: through every restart of the daemon and of the API
\* server, every kill that timed out before it was handled, every spawn that was refused
\* or failed, and every lost heartbeat.
THEOREM RowsAreTrue == Spec => []RowsTrue
  <1>1. Init => Rowed
    BY NullAssumption DEF Init, Rowed, RowOf, NoServers
  <1>2. Sound /\ Orderly /\ Recoverable /\ Accounted /\ AwaitedAreKills /\ Rowed /\ [Next]_vars
            => Rowed'
    BY RowedStep
  <1>3. Sound /\ Adoptable /\ Rowed => RowsTrue
    <2> SUFFICES ASSUME Sound, Adoptable, Rowed, phase = "ready", job = NoJob, queue = << >>,
                        mishaps = {}, NEW a \in Arms
                 PROVE  row[a] = "running" <=> managed[a] # NoServer
      BY DEF RowsTrue
    <2>1. /\ row[a] = "running" => record[a] \in live
          /\ ~(managed[a] # NoServer /\ row[a] # "running")
      BY DEF Rowed, RowOf, At, KillUnderWay, KillQueued
    <2>2. record[a] \in live => managed[a] # NoServer
      <3>1. todo[a] = NoServer /\ live \subseteq Servers
        BY DEF Sound, Phased, NoServers, Typed, TypeOK
      <3> QED
        BY <3>1, NullAssumption DEF Adoptable, Without
    <2> QED
      BY <2>1, <2>2
  <1> QED
    BY <1>1, <1>2, <1>3, SoundHolds, OrderlyHolds, RecoverableHolds, AccountedHolds,
       AdoptableHolds, AwaitedHolds, PTL DEF Spec
=============================================================================
