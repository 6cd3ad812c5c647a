-------------------------------- MODULE ArmHost --------------------------------
(***************************************************************************)
(* One Arm Host: the daemon ArmAgent (agent/arm-agent.ts) with the arms it *)
(* manages, the servers its harness starts for them (harness/opencode-api  *)
(* .ts), the records from which a restarted daemon adopts the servers that *)
(* still run (agent/arm-recovery.ts), and what the API server knows of it: *)
(* the mapping of the ArmClient (nats/arm-client.ts) and the rows of the   *)
(* table arms that the routes spawn and kill and the arm events write.     *)
(*                                                                         *)
(* The daemon handles its commands one at a time: the loop of subscribe()  *)
(* awaits each handler.  It subscribes before it adopts, so that commands  *)
(* and the adoption interleave at every await.  A command for a daemon     *)
(* that is down is lost, and so are those it had received when it stops;   *)
(* whoever asked learns of it by a timeout, after which a command that was *)
(* only slow is handled all the same.                                      *)
(*                                                                         *)
(* The events and answers of the daemon reach the API server in order and  *)
(* at once; what takes time is the command.  Prompts, aborts and queries   *)
(* change nothing that is modelled here, hosts do not depend on each other.*)
(***************************************************************************)
EXTENDS Integers, Sequences, FiniteSets

CONSTANTS
    Arms,        \* the arms that are spawned on this host
    Servers,     \* the server processes the harness may start
    NoArm,       \* the arm of a server that was not started
    NoServer,    \* an arm without a server, a record or a session
    NoJob,       \* no command is being handled
    MaxArms,     \* the capacity of the daemon
    QueueBound,  \* bound: commands received and not begun
    MishapBound  \* bound: kinds of mishaps in one behaviour

ASSUME NullAssumption == NoArm \notin Arms /\ NoServer \notin Servers
ASSUME BoundAssumption ==
    /\ MaxArms \in Nat \ {0} /\ QueueBound \in Nat /\ MishapBound \in Nat
    /\ IsFiniteSet(Arms)

VARIABLES
    phase,    \* of the daemon, see Phases
    managed,  \* managedArms: the server of the session of each arm
    job,      \* the command being handled
    queue,    \* the commands received and not begun
    todo,     \* the verified records still to adopt
    record,   \* the files under run/arm-recovery
    started,  \* the arm each server was started for
    live,     \* the servers that run
    told,     \* the servers that were told to stop, whether they still run or not
    row,      \* status in the table arms, see RowStates
    mapped,   \* armToAgent of the ArmClient
    late,     \* the arms whose kill was lost and has not timed out
    mishaps,  \* history: what went wrong so far, see Mishaps
    killed    \* history: the servers whose kill the daemon has confirmed

daemon == <<phase, managed, job, queue, todo>>
host == <<record, started, live, told>>
api == <<row, mapped, late>>
vars == <<daemon, host, api, mishaps, killed>>

-----------------------------------------------------------------------------
(* Types *)

\* A daemon that runs has subscribed and not read the records, is adopting them
\* one by one, or has adopted them.
Phases == {"down", "loading", "adopting", "ready"}
Running == phase # "down"

MaybeServer == Servers \cup {NoServer}
NoServers == [a \in Arms |-> NoServer]

\* "awaited": the route that sent a kill still waits for the answer.  The answer
\* to a spawn tells the API server nothing that the arm events do not.
Commands == [kind: {"spawn", "kill"}, arm: Arms, awaited: BOOLEAN]

\* Where the handler of a spawn or a kill stands.
Stages == {"checking", "launching", "recording", "killing", "forgetting"}
Jobs == [arm: Arms, awaited: BOOLEAN, stage: Stages, server: MaybeServer]

\* An arm has no row before it is registered, and one that says that it is starting
\* until the host is heard of.  "running" is whatever a host may say of a session.
RowStates == {"none", "starting", "stopped", "running"}

Mishaps == {
    "early",       \* a spawn was accepted before the records were adopted
    "skipped",     \* a server that runs was not adopted
    "unrecorded",  \* a started server could not be recorded
    "orphaned",    \* the daemon stopped before it recorded a started server
    "survived",    \* a server that did not get ready was not stopped
    "died",        \* a server stopped by itself
    "unmapped",    \* the ArmClient did not know the host of an arm to kill
    "lost"}        \* a kill was lost with the daemon, or half done

TypeOK ==
    /\ phase \in Phases
    /\ managed \in [Arms -> MaybeServer]
    /\ job \in Jobs \cup {NoJob}
    /\ queue \in Seq(Commands)
    /\ todo \in [Arms -> MaybeServer]
    /\ record \in [Arms -> MaybeServer]
    /\ started \in [Servers -> Arms \cup {NoArm}]
    /\ live \subseteq Servers
    /\ told \subseteq Servers
    /\ row \in [Arms -> RowStates]
    /\ mapped \subseteq Arms
    /\ late \subseteq Arms
    /\ mishaps \subseteq Mishaps
    /\ killed \subseteq Servers

ASSUME JobAssumption == NoJob \notin Jobs

Init ==
    /\ phase = "down"
    /\ managed = NoServers
    /\ job = NoJob /\ queue = << >>
    /\ todo = NoServers
    /\ record = NoServers
    /\ started = [s \in Servers |-> NoArm]
    /\ live = {} /\ told = {}
    /\ row = [a \in Arms |-> "none"]
    /\ mapped = {} /\ late = {}
    /\ mishaps = {} /\ killed = {}

\* What goes wrong is remembered.
Mishap(kinds) ==
    /\ mishaps' = mishaps \cup kinds
    /\ kinds = {} \/ Cardinality(mishaps') <= MishapBound

Managed == {a \in Arms : managed[a] # NoServer}
At(stages) == job # NoJob /\ job.stage \in stages

\* Slip: the status of the session is passed on unmapped.
HeardUnmapped(a, status) ==
    row' = [row EXCEPT ![a] = IF status = "running" THEN "busy" ELSE status]

\* The API server hears of an arm, by an event or an answer.
Heard(a, status) == row' = [row EXCEPT ![a] = status]

-----------------------------------------------------------------------------
(* The daemon starts, adopts what runs, and stops *)

Start ==
    /\ phase = "down"
    /\ phase' = "loading"
    /\ UNCHANGED <<managed, job, queue, todo, host, api, mishaps, killed>>

\* loadOwnedArms(): the records whose process still has the recorded identity.
Load ==
    /\ phase = "loading"
    /\ phase' = "adopting"
    /\ todo' = [a \in Arms |-> IF record[a] \in live THEN record[a] ELSE NoServer]
    /\ UNCHANGED <<managed, job, queue, host, api, mishaps, killed>>

\* Slip: an adopted arm is not announced.
AdoptSilently(a) ==
    /\ phase = "adopting"
    /\ todo[a] \in live
    /\ managed' = [managed EXCEPT ![a] = todo[a]]
    /\ todo' = [todo EXCEPT ![a] = NoServer]
    /\ UNCHANGED <<phase, job, queue, host, api, mishaps, killed>>

\* recover() reattaches to the server on the recorded port, without a look at the
\* capacity or at a session the arm may have by now.
Adopt(a) ==
    /\ phase = "adopting"
    /\ todo[a] \in live
    /\ managed' = [managed EXCEPT ![a] = todo[a]]
    /\ todo' = [todo EXCEPT ![a] = NoServer]
    /\ Heard(a, "running")
    /\ mapped' = mapped \cup {a}
    /\ UNCHANGED <<phase, job, queue, host, late, mishaps, killed>>

\* recover() returns null: the server is unhealthy, too slow, or gone.
Skip(a) ==
    /\ phase = "adopting"
    /\ todo[a] # NoServer
    /\ Mishap(IF todo[a] \in live THEN {"skipped"} ELSE {})
    /\ todo' = [todo EXCEPT ![a] = NoServer]
    /\ UNCHANGED <<phase, managed, job, queue, host, api, killed>>

Ready ==
    /\ phase = "adopting"
    /\ todo = NoServers
    /\ phase' = "ready"
    /\ UNCHANGED <<managed, job, queue, todo, host, api, mishaps, killed>>

AwaitedKills ==
    {a \in Arms : \/ \E i \in DOMAIN queue : queue[i].arm = a /\ queue[i].awaited
                  \/ job # NoJob /\ job.arm = a /\ job.awaited}

\* stop() or a crash.  The servers keep running.
Stop ==
    /\ Running
    /\ Mishap(IF At({"launching", "recording"}) /\ job.server \in live THEN {"orphaned"}
              ELSE IF At({"forgetting"}) THEN {"lost"} ELSE {})
    /\ phase' = "down"
    /\ managed' = NoServers
    /\ job' = NoJob /\ queue' = << >>
    /\ todo' = NoServers
    /\ late' = late \cup AwaitedKills
    /\ UNCHANGED <<host, row, mapped, killed>>

-----------------------------------------------------------------------------
(* The API server asks *)

Send(command) == Len(queue) < QueueBound /\ queue' = Append(queue, command)

\* POST /api/arms/:id/spawn registers an arm it does not know, as POST /api/arms does,
\* before it chooses a host, and leaves that row as it is when no host is found, or the
\* host refuses or fails.  Nothing checks where the arm runs.
AskSpawn(a) ==
    /\ \/ row[a] = "none" /\ Heard(a, "starting")
       \/ row[a] # "none" /\ UNCHANGED row
    /\ \/ Running /\ Send([kind |-> "spawn", arm |-> a, awaited |-> FALSE])
       \/ UNCHANGED queue
    /\ UNCHANGED <<phase, managed, job, todo, host, mapped, late, mishaps, killed>>

\* POST /api/arms/:id/kill of an arm whose row names no host stops the row.
KillNowhere(a) ==
    /\ row[a] = "starting"
    /\ Heard(a, "stopped")
    /\ UNCHANGED <<daemon, host, mapped, late, mishaps, killed>>

\* POST /api/arms/:id/kill of an arm whose row names this host.  Without a mapping
\* the client refuses, and the route stops the row all the same.
AskKill(a) ==
    /\ row[a] = "running"
    /\ \/ /\ a \in mapped /\ Running
          /\ Send([kind |-> "kill", arm |-> a, awaited |-> TRUE])
          /\ UNCHANGED <<row, late, mishaps>>
       \/ /\ a \in mapped /\ ~Running
          /\ late' = late \cup {a}
          /\ UNCHANGED <<queue, row, mishaps>>
       \/ /\ a \notin mapped
          /\ Heard(a, "stopped")
          /\ Mishap({"unmapped"})
          /\ UNCHANGED <<queue, late>>
    /\ UNCHANGED <<phase, managed, job, todo, host, mapped, killed>>

\* The route gives a kill up after 30 s and stops the row: of a command that the
\* daemon has, or of one that was lost with it.
TimeOutQueued(i) ==
    /\ queue[i].awaited
    /\ queue' = [queue EXCEPT ![i].awaited = FALSE]
    /\ Heard(queue[i].arm, "stopped")
    /\ UNCHANGED <<phase, managed, job, todo, host, mapped, late, mishaps, killed>>

TimeOutJob ==
    /\ job # NoJob /\ job.awaited
    /\ job' = [job EXCEPT !.awaited = FALSE]
    /\ Heard(job.arm, "stopped")
    /\ UNCHANGED <<phase, managed, queue, todo, host, mapped, late, mishaps, killed>>

TimeOutLost(a) ==
    /\ a \in late
    /\ late' = late \ {a}
    /\ Heard(a, "stopped")
    /\ Mishap({"lost"})
    /\ UNCHANGED <<daemon, host, mapped, killed>>

\* The API server restarts: its mapping and the requests it was serving are gone.
RestartApi ==
    /\ mapped' = {} /\ late' = {}
    /\ queue' = [i \in DOMAIN queue |-> [queue[i] EXCEPT !.awaited = FALSE]]
    /\ job' = IF job = NoJob THEN NoJob ELSE [job EXCEPT !.awaited = FALSE]
    /\ UNCHANGED <<phase, managed, todo, host, row, mishaps, killed>>

\* A silent or unreachable host loses the mapping of the arms last listed for it.
Evict(arms) ==
    /\ mapped' = mapped \ arms
    /\ UNCHANGED <<daemon, host, row, late, mishaps, killed>>

Heartbeat ==
    /\ Running
    /\ mapped' = mapped \cup Managed
    /\ UNCHANGED <<daemon, host, row, late, mishaps, killed>>

\* The arm becomes busy or idle, and the event sets its row to that.
StatusChange(a) ==
    /\ managed[a] \in live
    /\ ~(At({"forgetting"}) /\ job.arm = a)
    /\ Heard(a, "running")
    /\ mapped' = mapped \cup {a}
    /\ UNCHANGED <<daemon, host, late, mishaps, killed>>

-----------------------------------------------------------------------------
(* The daemon handles a command *)

Take(kind) == /\ Running /\ job = NoJob /\ queue # << >>
               /\ Head(queue).kind = kind
               /\ queue' = Tail(queue)

Handling(stage, server) ==
    job' = [arm |-> Head(queue).arm, awaited |-> Head(queue).awaited,
            stage |-> stage, server |-> server]

\* Slip: the capacity is compared inclusively.
RoomAtCapacity == Cardinality(Managed) <= MaxArms

\* No spawn is pending beside the one that is handled, so that the two checks of
\* the capacity are one.
Room == Cardinality(Managed) < MaxArms

BeginSpawn ==
    /\ Take("spawn")
    /\ Room /\ managed[Head(queue).arm] = NoServer
    /\ Handling("checking", NoServer)
    /\ Mishap(IF phase = "ready" THEN {} ELSE {"early"})
    /\ UNCHANGED <<phase, managed, todo, host, api, killed>>

RefuseSpawn ==
    /\ Take("spawn")
    /\ ~Room \/ managed[Head(queue).arm] # NoServer
    /\ UNCHANGED <<phase, managed, job, todo, host, api, mishaps, killed>>

\* The kill goes to the session the arm has now.
BeginKill ==
    /\ Take("kill")
    /\ LET a == Head(queue).arm
       IN  /\ managed[a] # NoServer
           /\ Handling("killing", managed[a])
    /\ UNCHANGED <<phase, managed, todo, host, api, mishaps, killed>>

\* The route that waits for the answer stops the row although the kill failed.
RefuseKill ==
    /\ Take("kill")
    /\ managed[Head(queue).arm] = NoServer
    /\ IF Head(queue).awaited THEN Heard(Head(queue).arm, "stopped") ELSE UNCHANGED row
    /\ UNCHANGED <<phase, managed, job, todo, host, mapped, late, mishaps, killed>>

\* The model may be used; the harness starts a server and waits until it is ready.
Launch(s) ==
    /\ At({"checking"})
    /\ started[s] = NoArm
    /\ started' = [started EXCEPT ![s] = job.arm]
    /\ live' = live \cup {s}
    /\ job' = [job EXCEPT !.stage = "launching", !.server = s]
    /\ UNCHANGED <<phase, managed, queue, todo, record, told, api, mishaps, killed>>

\* Slip: a failed launch is not reaped.
FailSpawnLeavesServer ==
    /\ At({"checking", "launching"})
    /\ job' = NoJob
    /\ UNCHANGED <<phase, managed, queue, todo, host, api, mishaps, killed>>

\* The model is refused, or the server does not get ready and is stopped, which
\* may fail in turn.
FailSpawn ==
    /\ At({"checking", "launching"})
    /\ \/ live' = live \ {job.server} /\ UNCHANGED mishaps
       \/ job.server \in live /\ UNCHANGED live /\ Mishap({"survived"})
    /\ job' = NoJob
    /\ UNCHANGED <<phase, managed, queue, todo, record, started, told, api, killed>>

Manage ==
    /\ At({"launching"})
    /\ job.server \in live
    /\ managed' = [managed EXCEPT ![job.arm] = job.server]
    /\ job' = [job EXCEPT !.stage = "recording"]
    /\ UNCHANGED <<phase, queue, todo, host, api, mishaps, killed>>

\* Slip: a record that exists is not replaced.
RecordOnce ==
    /\ At({"recording"})
    /\ record' = IF record[job.arm] = NoServer THEN [record EXCEPT ![job.arm] = job.server]
                                               ELSE record
    /\ Heard(job.arm, "running")
    /\ mapped' = mapped \cup {job.arm}
    /\ job' = NoJob
    /\ UNCHANGED <<phase, managed, queue, todo, started, live, told, late, mishaps, killed>>

\* A failure to record is logged.  The event says that the arm was spawned.
Record ==
    /\ At({"recording"})
    /\ \/ /\ job.server \in live
          /\ record' = [record EXCEPT ![job.arm] = job.server]
          /\ UNCHANGED mishaps
       \/ Mishap({"unrecorded"}) /\ UNCHANGED record
    /\ Heard(job.arm, "running")
    /\ mapped' = mapped \cup {job.arm}
    /\ job' = NoJob
    /\ UNCHANGED <<phase, managed, queue, todo, started, live, told, late, killed>>

\* With a handle on the process it is sent SIGTERM; without one, as after an adoption,
\* the server is only asked to dispose of its instance.  Errors are swallowed, and in
\* neither case does anybody wait until the server has stopped, or see to it.
HarnessKill ==
    /\ At({"killing"})
    /\ told' = told \cup {job.server}
    /\ job' = [job EXCEPT !.stage = "forgetting"]
    /\ UNCHANGED <<phase, managed, queue, todo, record, started, live, api, mishaps, killed>>

\* A server that was told to stop does so, some time or never.
Exit(s) ==
    /\ s \in live \cap told
    /\ live' = live \ {s}
    /\ UNCHANGED <<daemon, record, started, told, api, mishaps, killed>>

\* Slip: the record outlives the kill.
ForgetSessionOnly ==
    /\ At({"forgetting"})
    /\ managed' = [managed EXCEPT ![job.arm] = NoServer]
    /\ Heard(job.arm, "stopped")
    /\ mapped' = mapped \ {job.arm}
    /\ job' = NoJob
    /\ killed' = killed \cup {job.server}
    /\ UNCHANGED <<phase, queue, todo, record, started, live, told, late, mishaps>>

\* forgetOwnedArm(), then the session, then the event and the answer.
Forget ==
    /\ At({"forgetting"})
    /\ record' = [record EXCEPT ![job.arm] = NoServer]
    /\ managed' = [managed EXCEPT ![job.arm] = NoServer]
    /\ Heard(job.arm, "stopped")
    /\ mapped' = mapped \ {job.arm}
    /\ job' = NoJob
    /\ killed' = killed \cup {job.server}
    /\ UNCHANGED <<phase, queue, todo, started, live, told, late, mishaps>>

\* A server crashes, or is stopped by somebody else.
Die(s) ==
    /\ s \in live
    /\ live' = live \ {s}
    /\ Mishap({"died"})
    /\ UNCHANGED <<daemon, record, started, told, api, killed>>

Next ==
    \/ Start \/ Load \/ Ready \/ Stop
    \/ \E a \in Arms : Adopt(a) \/ Skip(a)
    \/ \E a \in Arms : \/ AskSpawn(a) \/ AskKill(a) \/ KillNowhere(a) \/ TimeOutLost(a)
                       \/ StatusChange(a)
    \/ \E i \in DOMAIN queue : TimeOutQueued(i)
    \/ TimeOutJob \/ RestartApi \/ Heartbeat
    \/ \E arms \in SUBSET Arms : Evict(arms)
    \/ BeginSpawn \/ RefuseSpawn \/ BeginKill \/ RefuseKill
    \/ \E s \in Servers : Launch(s) \/ Exit(s) \/ Die(s)
    \/ FailSpawn \/ Manage \/ Record \/ HarnessKill \/ Forget

Spec == Init /\ [][Next]_vars

-----------------------------------------------------------------------------
(* Properties *)

Without(kinds) == mishaps \cap kinds = {}

\* Whenever the daemon stops, it adopts every arm again: an arm it manages whose
\* server runs has a record of that server, or the record is being written.
Recoverable ==
    Without({"unrecorded", "early"}) =>
        \A a \in Arms :
            managed[a] \in live =>
                \/ record[a] = managed[a]
                \/ At({"recording"}) /\ job.arm = a /\ job.server = managed[a]

\* The servers that run and are meant to: nobody told them to stop.
Wanted == live \ told

\* Restarts of the daemon, timeouts and kills that come late never leave two servers
\* of one arm running that nobody told to stop, unless a server was started early,
\* overlooked, not recorded, or not cleaned up.
OneServer ==
    Without({"early", "skipped", "unrecorded", "orphaned", "survived"}) =>
        \A s, r \in Wanted : started[s] = started[r] => s = r

\* A daemon that adopts every record, and spawns nothing before, never manages more
\* arms than its capacity, the one it is starting included.
CapacityKept ==
    Without({"early", "skipped"}) =>
        Cardinality(Managed) + (IF At({"checking", "launching"}) THEN 1 ELSE 0) <= MaxArms

\* Nor does the host: what the daemon counts are its sessions, what uses the machine
\* up are servers, and beside those that are stopping neither a failed spawn nor a
\* restart leaves one more.
HostCapacity ==
    Without({"early", "skipped", "unrecorded", "orphaned", "survived"}) =>
        Cardinality(Wanted) <= MaxArms

\* When nothing is under way, the row of an arm says that it runs if and only if the
\* daemon manages it, whatever timed out, and however often daemon and API restarted.
\* A row that a spawn without success left at "starting" is of an arm nobody manages.
RowsTrue ==
    /\ phase = "ready" /\ job = NoJob /\ queue = << >> /\ late = {}
    /\ mishaps = {}
    => \A a \in Arms : row[a] = "running" <=> managed[a] # NoServer

\* A server whose kill was confirmed is never managed again, though it may go on running
\* and the daemon may have stopped at any step of the kill, unless it was started before
\* the records were read: its record may then have been read before the kill.
KilledStaysKilled ==
    [][Without({"early"}) =>
          \A a \in Arms : managed'[a] # managed[a] => managed'[a] \notin killed]_vars
=============================================================================
