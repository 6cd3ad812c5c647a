# Coleo in TLA+

Coleo coordinates coding agents ("arms").  A Brain process plans and reviews, an
API server owns the SQLite database, arms run on hosts and report through MCP
tools, and NATS JetStream carries commands and events.  This directory holds the
specification of the parts where processes, timers and messages meet, the
instances TLC checks, and the theorems TLAPS proves.

Paths below are relative to `src/server/src/` unless they start with `src/`.

    tlc -workers 2 -config arm_hostile.cfg MCArmLifecycle   # model-check a run
    tlapm ArmLifecycleProofs.tla                            # check the proofs

## Contents

1. [The system](#1-the-system)
2. [What is hard about it](#2-what-is-hard-about-it)
3. [Modules](#3-modules)
4. [Runs, bounds and fairness](#4-runs-bounds-and-fairness)
5. [Theorems](#5-theorems)
6. [Where code and documents disagree](#6-where-code-and-documents-disagree)
7. [What is left out](#7-what-is-left-out)
8. [Plan](#8-plan)

## 1. The system

| Component | State it keeps | Operations | What makes it correct |
|---|---|---|---|
| Arm state machine (`brain/arm-state-machine.ts`) | one row per arm in `arm_state_machine`; timers in the Brain's memory | `transition` (13 events, 9 states), `initializeArm`, `deleteArm`, timer callbacks, five kinds of side effect | a waiting arm has a timer; waits end; a late event never takes back a finished task |
| Command queue (`mcp/utils.ts`, `nats/command-stream.ts`, `api/command-ingest.ts`, `api/brain-message-bridge.ts`, `db/state.ts`, `api/routes/brain.ts`) | stream `coleo-commands`; table `messages` (inbox and dead letters); a fallback directory | send over API, NATS or file; project; list, lease, complete, fail; requeue; clean up | an accepted command is never lost; one current lease per row; what is finished stays finished; nothing malformed is admitted |
| Task board (`api/routes/tasks.ts`, `db/transactions.ts`, handlers in `brain/brain.ts`) | table `tasks`: status, assignee, review metadata; status reports; mail threads | claim, acknowledge, report, validate, verify, approve, release, cancel, block | assignee and status agree; reported work is never forgotten; only a human accepts work |
| Blocked-task review (`brain/brain.ts`, `brain/blocked-task-workflow.ts`, `api/routes/tasks.ts`, `api/routes/task-discussions.ts`) | the blocker in `tasks`: category, reason, reviewer, next review | gate, resume, lease to an arm, take its report, postpone, release after a bug | an arm has one review at a time; an open gate holds nothing; what the Brain makes of a task fits what it read of it; a due task is not starved |
| Task dependencies (`api/routes/tasks.ts`) | `dependencies`, `dependency_blocked` | set, check for cycles, unblock | acyclic; a task is blocked exactly while something it depends on is open |
| File claims (`mcp/tools/file-claim-tools.ts`, `arm/claim-enforcement.ts`, `api/claim-cleanup.ts`) | table of claims | claim, transfer, release, expire | no two conflicting claims; a dead arm's claims go |
| Brain loop (`brain/brain.ts`, `api/routes/brain.ts`) | running, paused, planning gate | start, stop, pause, poll | one poll at a time; nothing is handed out while the plan is unusable |
| Permission engine (`brain/permission-engine.ts`) | rules, decisions | decide | the most specific rule wins |
| Arm agent (`agent/arm-agent.ts`, `agent/arm-recovery.ts`, `harness/opencode-api.ts`, `nats/arm-client.ts`, `api/routes/arms.ts`) | live sessions; a recovery record per arm on disk; which host has which arm; the table `arms` | start, stop, spawn, kill, prompt, recover | what runs can be adopted again; an arm has one server that is to run; the capacity holds; rows are true |
| Event store (`nats/event-store.ts`, `nats/status-consumer.ts`) | events | append, query | order of the stream |
| Swarm actions (`brain/swarm/runner.ts`, `db/swarm-actions.ts`, `api/routes/brain-swarm.ts`) | table of receipts `brain_swarm_actions` | propose, reserve, dispatch, finish, reconcile | an action runs at most once for its evidence; one at a time in a scope, a cooldown apart |
| Bugs and escalations | bugs, escalations | claim, resolve, escalate | as for tasks |
| Proposals | proposals, votes | vote, decide | one vote each |
| Harness manager, health monitor, mail, migrations, vector index, clients | processes; event windows; maildir; schema; embeddings; none | | |

**How they interact.**  The Brain has no database of its own: everything it knows
it reads and writes by HTTP requests to the API server, some of them synchronous
`curl` calls that block its event loop (the state machine's reads and writes),
the others awaited.  The API server is a single event loop over synchronous
SQLite, so a route is atomic up to its first `await`.  Arms never talk to the
Brain directly: an MCP tool sends a command (`claim_task`, `complete_task`, ...),
the command becomes a row of the Brain's inbox, and a poll of the Brain handles
it.  A handler of the Brain calls the arm's state machine, whose side effects are
PATCHes of the task board; a PATCH that ends an assignment in turn writes the
arm's row of the state machine, after it has awaited the plan file.  Besides, the
Brain acts on its own: it ticks off what the plan ticks off, completes the task of
an arm that went silent, and blocks the task of one that it stops.  Humans use the API and answer by mail.

Arms run on hosts.  The daemon of a host takes spawn and kill commands over NATS
one at a time, starts a server process for each arm and writes a recovery record
of it; the routes of the API server send these commands, wait for the answer with
a limit, and learn the rest from the daemon's heartbeats and arm events.  Each
Brain also has a runner that lets an evaluator propose interventions, reserves
them in the API server's ledger, and carries them out through the same routes
that users call.

## 2. What is hard about it

`PROJECT.json` lists every hazard with its line.  They fall into these groups:

* **Timers against transitions.**  Timers are never cancelled; the handler of
  TIMEOUT does not look at which timer fired; a callback runs between the row a
  transition wrote and the side effects it has still to make.
* **Read, then write.**  A transition reads a row and writes it back in two
  requests; the planning gate, the review queue and a worker of the inbox work
  down a list fetched earlier and write without an expected version.  Other PATCHes
  of the Brain follow no read at all.
* **At-least-once commands.**  Answers, reports and acknowledgements get lost; the
  sender retries on another path; leases expire under slow handlers; a handled
  command is handled once more, perhaps in the next round of validation.
* **Handlers in several PATCHes.**  A completion report, a verdict and an approval
  are two to four writes each, and a PATCH that ends an assignment writes the task
  and the arm's row with an `await` in between, with a crash possible between any two, and users
  moving the same task meanwhile.
* **Several processes want the same.**  Two Brains evaluate the same window and
  reserve actions about one arm; two daemons' lives, a spawn and an adoption ask
  for the same arm.
* **Effects after their timeout.**  A dispatch, a spawn or a kill that was given up
  is carried out all the same; a daemon dies with the commands it had received; a
  server that was told to stop runs on.
* **Nobody is left waiting.**  Assigned arms, stored commands, completing work and
  due reviews all depend on something else that happens later.

## 3. Modules

| Module | What it models | Role |
|---|---|---|
| `ArmLifecycle` | the state machine, its timers and effects | core |
| `CommandQueue` | a command from the sender to the Brain's inbox | core |
| `AtLeastOnce` | what the inbox promises | abstract specification of `CommandQueue` |
| `TaskFlow` | a task from its claim to its acceptance | composes what arms, Brain, users and the gate do to the board |
| `HumanApproval` | what the gate behind validated work promises | abstract specification of `TaskFlow` |
| `BlockedReview` | blocked tasks: the planning gate and the reviews | TaskFlow's `blocked` in detail |
| `ReviewLeases` | what the leases of reviews promise | abstract specification of `BlockedReview` |
| `SwarmActions` | the runners of several Brains and the ledger | core |
| `AtMostOnce` | what the ledger promises | abstract specification of `SwarmActions` |
| `ArmHost` | the daemon of a host, its servers and records, and what the API server knows of them | core |
| `MCArmLifecycle`, `MCCommandQueue`, ... | instances for TLC, one per module | |
| `ArmLifecycleProofs`, `ArmTasksProofs`, `CommandQueueProofs`, `TaskFlowProofs`, `SwarmActionsProofs`, `ArmHostProofs`, `BlockedReviewProofs` | theorems | |

Definitions whose comment begins with *Slip* or whose name says what they get
wrong (`ReleasedKept`, `MayLeaseHeld`, ...) are variants of the definition they
stand before.  No action uses them; `PROJECT.json` names them as mutations that
the properties detect.

### ArmLifecycle

| Model | Code |
|---|---|
| `row[a]` | `state` and `current_task_id` of the row in `arm_state_machine` |
| `task[t]` | `status` and `assigned_to` in `tasks` |
| `clearing` | PATCHes that wrote the task, await the plan file, and have still to free the row of the arm it was assigned to |
| `timers[a][key]` | `pendingTimeouts`, by arm and key `startup`, `task_ack`, `reconnect` |
| `call` | the `transition()` that has read its context and not yet written |
| `effects[a][caller]` | the side effects still awaited, by the poll loop or by a timer's callback |
| `Submit`, `Expire` | the read at the start of `transition()` |
| `FromIdle`, `FromWorking`, ... | the handlers of the table `TRANSITIONS`, one definition per state |
| `RunEffect`, `LoseEffect` | one side effect, carried out by `brain.ts` through the API, or lost |
| `PatchTask`, `ClearRow`, `OtherPatch` | `PATCH /api/tasks/:id`: the task, and after the plan file the arm's row |
| `Claim`, `Acknowledge` | `claimTaskForArm` and `updateTaskStatus`, which write the task and never the row |
| `InitializeArm`, `DeleteArm`, `Restart` | `loadArms`, `scanForRunningArms`, `deleteArm`, `shutdown` or a crash |
| `faults` | history: a request was lost, or somebody else wrote; the properties about tasks say which of these they allow |

The three stages of a transition are three steps because only the first two are
synchronous in the Brain, and even these are two requests as the API sees it.
Timers count down in units of a minute.  With every delay set to 0 a timer may
fire at any moment after it was set, which includes every real timing; real
delays are used only where liveness needs the clock.

The class handles thirteen events and `brain.ts` sends six of them: TASK_ACKNOWLEDGED,
TASK_COMPLETED, HEARTBEAT, STOP, CONNECTION_LOST, CONNECTION_RESTORED (`BrainEvents`).
TASK_ASSIGNED has no caller: a claim writes the task, and the row stays `idle` or
`working` with no task.  So a task that is taken need not be held by a row, and no
property says so.  The constant `Sent` says which events arrive: `arm_restart` has
those of the Brain, so that its trace is one of the program; the safety runs have
all of them (`EveryEvent`), the interface the class and its tests offer, since what
holds for more callers holds for fewer.

### CommandQueue and AtLeastOnce

| Model | Code |
|---|---|
| `sender[c]` | how far `sendToBrain` got: `publish`, `direct` (NATS), `queue`, `file` |
| `stored`, `window`, `copies` | the stream: what it ever stored (a history variable), what it still deduplicates, entries not acknowledged |
| `projector` | the loop of `startBrainMessageBridge` |
| `inbox`, `dead`, `source`, `old` | rows of `messages` for `brain`, dead letters, requeued rows, age over 7 days |
| `listed`, `holding`, `current` | a Brain's list, the row it handles, whether its lease is under 5 minutes old |
| `Send` to `Publish` | `sendToBrain` and the routes it calls |
| `Project`, `ProjectFailing`, `ProjectorStop` | the three ways `projectCommandMessage` ends |
| `List`, `Lease`, `LeaseRefused`, `LeaseUnanswered`, `Finish`, `FinishUnreported`, `Crash` | `processArmQueue` with the answers of its requests |
| `ExpireLease`, `Age`, `Cleanup`, `Requeue` | the stale threshold, retention, the dead-letter route |

`AtLeastOnce` says what those who send commands may rely on: a stored command is
eventually settled and stays settled.  `Promise` maps it: stored is what the
stream stored or a dead letter records, settled is a finished row or a dead
letter.

### TaskFlow and HumanApproval

| Model | Code |
|---|---|
| `tasks[t]` | `status`, `assigned_to`, and the human review in `metadata` |
| `report[w]` | the latest status report about `w` that lists issues; its verification task has an id made from it |
| `inbox` | commands to the Brain not yet completed |
| `asked`, `replies` | the work whose latest request for approval is out, unread answers |
| `gate`, `brain` | the planning gate; what the Brain is doing between two PATCHes |
| `HandleClaim` | `claim_task`: `assignTask` with `enforceTopKClaim` |
| `HandleAcknowledge` | `updateTaskStatus` |
| `ReportCompletion`, `Announce`, `ReportAnnounced`, `CreateValidation` | `completeTask` and `initiateTaskValidation`, PATCH by PATCH |
| `ReportIssues`, `CompleteWithIssues` | the branch of `completeTask` for reports with issues |
| `HandleVerdict`, `Judge`, `RequestApproval` | `handleTaskValidation`, `requestHumanTaskApproval` |
| `BeginCompletion`, `Silences` | `completeTask` is called for a command, or by `checkStuckArms` for an arm that went silent, with no command |
| `Reply` | a mail of a human that names the task, whether or not one was asked for |
| `Answer`, `FinalizeApproved` | what the Brain makes of it: it counts if the review is pending; `finalizeTaskCompletion` |
| `PlanFailure`, `GateTask`, `GateDone`, `PlanMended` | the gate that blocks and resumes open tasks |
| `Crash` | the Brain dies between two PATCHes of a handler; a command stays in the inbox, a silent completion is gone |

`HumanApproval` has validated work, approvals and accepted work.  Accepting uses up
both a passed validation and an approval, and work that is taken up again needs
both again.  `Approval` maps it: work is validated while its review is pending or is
just being accepted, granted are the unread approvals in `replies`, and work is
accepted when it is `completed` without issues and no completion of it is being
handled (while one is, `flow_early` applies).  `HumanGate` looks at the review in a
row's metadata, which may be an old one; the refinement says that each acceptance
has a validation and an approval of its own, in every round of the same work.  It
does not say that the approval was given for that validation, because nothing in
the code does: `processHumanMail` asks for a pending review and the id of the task,
so an answer that was sent late, twice, or without a request counts for whatever
review is pending when it is read.

### BlockedReview and ReviewLeases

| Model | Code |
|---|---|
| `task[t]` | `status`, `blocked_category` (and whether the reason carries the marker of the gate), `blocked_review_arm_id`, whether the next review is the gate's year 9999 |
| `due`, `ahead` | blocked tasks whose `blocked_recheck_at` has passed, and the order of the review queue among them |
| `pc`, `list`, `plan`, `held` | where one poll of the Brain stands, and what it fetched or parsed and has still to act on |
| `GateFails`, `Gate`, `GateShut`, `GateOpens`, `Resume`, `Resumed` | `blockTasksForPlanningFailure`, `resumePlanningBlockedTasks`, one PATCH per step |
| `BeginReport`, `ReviewUnblocks`, `ReviewCancels`, `ReviewPostpones`, `HumanNotified` | `handleBlockedTaskReview` and its branches |
| `ReadPlan`, `Tick` | `syncPlanTasks`: what the plan ticks off is completed, from a list fetched before |
| `BeginRelease`, `BeginHandBack`, `Release`, `BlockRunnable` | `checkResolvedBugsAndResumeTasks`; the task a bug report hands back; the tasks `assignTasks` blocks for a bug or a claim |
| `PlanReviews`, `Lease`, `Prompted`, `NotPrompted` | the hand-out of reviews: list, PATCH with a lease of 30 minutes, prompt |
| `ReEvaluate`, `Unblock` | `reEvaluatePlanProgress`: listed tasks whose dependencies are met |
| `Regardless` | the Brain's PATCHes without a look at the task: `updateTaskStatus`, status reports, completions and verdicts, `handleStuckArm`, `killZombieArm` |
| `TimerFires` | a timer of the arm state machine releases or fails a task, between any two calls |
| `Claims`, `UserMoves`, `UserBlocks`, `Comment`, `TimePasses` | what arms, users, comments and the clock do between two calls |
| `stale`, `edited` | history: what was changed since the Brain last read, other than by the steps that follow the read; whose blocker a user wrote |

Times are abstracted to what the queue can tell apart: a next review has passed,
has not, or never does.  `Leave` and `Join` keep the order by time without
numbers, so no bound on the clock is needed and the liveness property is about
all of time.

The Brain's PATCHes fall in two classes.  Most follow a read: of a list, of the plan,
of the task in hand.  `HeedsWhatItRead` says of these that they fit the row they
meet, unless it was changed after the read by anybody, the Brain's own other PATCHes
included.  The others follow no read; `Regardless` lets them set any status of
any task at any point of the inbox stage.  Of them nothing can be said but that the
leases, the gate and the queue survive them, which the other properties do.

`ReviewLeases` grants a lease of a task while nobody holds one of it, to an arm that
holds none, and ends any leases at any moment.  `Leases` maps it: the holder of a
lease is the reviewer of a blocked task whose next review has not come yet.  Where
`OneReviewPerArm` compares two leases of a state, the refinement compares a state
with the next: no step takes a task over from a reviewer whose lease still runs.

### SwarmActions and AtMostOnce

| Model | Code |
|---|---|
| `ledger[k]` | the row of `brain_swarm_actions` with dedup key `k`: status, scope, proposal, time of the last update |
| `runner[b]` | the poll of a Brain's `SwarmRunner`: idle, polling, or engaged in one proposal |
| `used[b]` | `usedTargets` of that poll |
| `flying` | dispatches whose request may still take effect |
| `Propose`, `Reserve` | `reserveSwarmAction` with `execute` off or on; the answer may be lost |
| `Cancel`, `dispatchSwarmAction`, `Land`, `Miss`, `TimeOut`, `Finish` | the rest of `runner.ts`: the last check before a dispatch, the request, its effect or failure, its limit of 15 seconds, the report of the outcome |
| `Abandon` | a crash of the Brain, or an error that ends the poll |
| `Reconcile` | `POST /actions/:id/reconcile` by an operator |
| `landings`, `landedAt`, `hasty` | history: how often and when an action took effect; the rows an operator decided before, or against, their outcome |

`AtMostOnce` has two actions: an operation is reserved once, and then executed
once or never.  `Ledger` maps it: reserved is every row beyond `proposed`, times
is how often the dispatch took effect.  A dispatch that lands after its timeout,
its Brain's death or its reconciliation must still be a step of it.

### ArmHost

| Model | Code |
|---|---|
| `phase` | the daemon: down, subscribed and not yet read the records, adopting, ready |
| `managed` | `managedArms`: the server of each arm's session |
| `job`, `queue` | the command whose handler runs, and those that wait behind it |
| `todo` | the verified records still to adopt |
| `record`, `started`, `live`, `told` | files under `run/arm-recovery`; processes, and which of them were told to stop |
| `row`, `mapped`, `late` | the table `arms`: no row, `starting` as the spawn route registers it, `stopped`, or `running` for whatever a host says of a session; `armToAgent` of the `ArmClient`; kills that are lost and have not timed out |
| `Start`, `Load`, `Adopt`, `Skip`, `Ready`, `Stop` | the daemon's life and `recoverExistingArms` |
| `BeginSpawn`, `Launch`, `Manage`, `Record`, `FailSpawn`, `RefuseSpawn` | `handleSpawn` and the harness, await by await |
| `BeginKill`, `HarnessKill`, `Forget`, `RefuseKill` | `handleKill`: SIGTERM, or only a request if the session was adopted, and no waiting |
| `Exit`, `Die` | a server that was told to stop does, some time or never; another one crashes |
| `AskSpawn`, `AskKill`, `KillNowhere`, `TimeOutQueued`, `TimeOutJob`, `TimeOutLost` | the routes and their limits; the spawn route registers an unknown arm before it looks for a host, a kill of such a row stops the row only |
| `RestartApi`, `Evict`, `Heartbeat`, `StatusChange` | what the API server knows and forgets |
| `mishaps`, `killed` | history: which kinds of things went wrong; servers whose kill was confirmed |

The code cannot keep its promises whatever happens: a host that is switched off
between the start of a process and its record has lost that process.  Each
property therefore names the *mishaps* under which it is not claimed, and no
other: "`OneServer` unless a server was started early, overlooked, not recorded,
orphaned or not cleaned up" is a statement about every interleaving of restarts,
timeouts and late commands that has none of these.

A kill is no mishap, and it does not end the server: `HarnessKill` only adds it to
`told`, and it stays in `live` until `Exit`, which may never happen.  `OneServer` and
`HostCapacity` are therefore about `Wanted`, the servers that run and that nobody
told to stop; a killed one may run beside its successor, beyond the capacity.
`KilledStaysKilled` holds whether or not it stops.

**How the modules meet.**  TaskFlow's inbox is CommandQueue's seen from the Brain:
a set of commands each of which may be handled again (`Redelivers`), which is
exactly what `AtLeastOnce` promises and no more.  `Announce` is ArmLifecycle's
`TaskReported("working", "TASK_COMPLETED", "completed")` with its effect: the
only way the arm's machine writes the board during a report.  Without an
assignment sent through the machine a row can say `working`, for an arm that was
found busy, until its first report, or `disconnected`; in the other states it can
have, TASK_COMPLETED is an invalid transition and writes nothing.  `FoundWorking` is
the set of arms for which one of the two may be the case.

TaskFlow's gate blocks and resumes one task per step, in any order with everything
else; BlockedReview has the lists these steps work down and what the blocker
says, and leaves out who works on an open task.  SwarmActions' dispatches end in
the routes of the others: `stop_arm` is ArmHost's `AskKill`, `update_task` one of
the users' moves of TaskFlow and BlockedReview.  ArmHost's `row` is the table
`arms`; the row of ArmLifecycle is another table, which the daemon's events never
touch.

## 4. Runs, bounds and fairness

### Arms

| Run | Shows | Distinct states |
|---|---|---|
| `arm_hostile` | one arm, two tasks, every event, any timing, lost requests, other writers, stray reports, one restart: in one run of the Brain every wait has a timer; while nobody else wrote, no effect of the machine takes completed work back | 1 780 410 |
| `arm_waits` | real delays and a fair clock, every event, other clients releasing tasks: the time left of a wait only gets shorter, and every wait ends | 95 118 |
| `arm_restart` | *violated on purpose*: an arm that was found at work loses its connection, the Brain restarts, and the row stays `disconnected` | up to the counterexample |

One arm is enough where arms only share the poll loop, since a wait is a matter
of one row, its timers and its calls; the theorems are for any number of them.
Two tasks let a report name the wrong one and a
stale effect hit the next assignment.  One restart lets rows outlive timers.
Effects of a timer are bounded by letting a callback start only after those of
the last one for the arm have ended: they take seconds, the delays minutes.
PATCHes of one arm's task that await the plan file are counted once (`clearing` is
a set).

The history variable `faults` lets one run check properties that each allow
different faults.  `CompletedStaysCompleted` allows lost requests and restarts; it
excludes other writers, who may reopen a task at will, reports for a task that the
row does not hold, an acknowledgement of a task that is not the arm's, which
`updateTaskStatus` writes all the same (section 6), and an assignment through the
machine of a task that the arm has not claimed.
In `arm_waits` every delay is one tick, that of a busy arm two: whether a wait ends
depends on a timer being there and not on its length, and with timers as short
as each other any of them may be the one that is due.

`DeadlinesRunDown` is the safety half of `WaitsEnd` and needs real delays too: with a
delay of 0 there is no time that a heartbeat, or a report for another task, could
put off.  It is what makes `WF Tick` enough for the wait to end.

*Fairness* (`arm_waits`, `arm_restart`): time passes (`WF Tick`); a transition
that has read its context goes on (`WF Handle`); a request ends
(`WF RunEffect`), and so does the writing of a plan file (`WF ClearRow`); a due
timer is run by the event loop some time although calls
keep coming (`SF Expire`; strong because `Expire` is disabled while a call is
between read and write).  No event of an arm, user or the loop is fair.

### Commands

| Run | Shows | Distinct states |
|---|---|---|
| `cmd_inbox` | a good and a malformed command over the default path, a requeued dead letter, two Brains, every fault and retention: nothing is lost, leases are exclusive, finished rows stay finished | 451 248 |
| `cmd_promise` | all three paths enabled: nothing malformed is admitted, and the queue implements `AtLeastOnce`, liveness included | 13 442 |

Commands do not interact except in a worker's list, so one of each kind, plus a
requeued row, covers the pairs of rows in a list.  Two workers are what exclusive
leases need; they are symmetric.  `Requeues` bounds how often an operator
requeues.  `copies` needs no bound: a sender publishes at most three times.
`cmd_promise` runs one worker, which expires its own lease and crashes like two.
It has no retention, because the promise is about rows while they are kept, and
a projector that does not stop, because only an unscheduled restart of the API
server would start it again; `cmd_inbox` has both.

*Fairness*: JetStream delivers an entry until it is acknowledged and a request
tried for ever succeeds some time (`SF ProjectorStep`); leases expire by the
clock (`WF ExpireLease`); some Brain keeps polling (`WF` of `List` over all
workers), finishes its list (`WF` of refusals) and gets a lease, and a handler
that is run again and again returns or throws and reports it (`SF Lease`,
`SF Settles`).  Senders, operators, crashes and restarts are not fair.

### Tasks

| Run | Shows | Distinct states |
|---|---|---|
| `flow_gate` | one work, one validation, one verification, two arms, redelivery, silent completions, answers at any time, users, planning failures, crashes: assignees fit, completing work is followed up, only humans accept, and each acceptance uses up a validation and an approval (`HumanApproval` is implemented) | 504 650 |
| `flow_stuck` | *violated on purpose*: an arm that ends its validation with `complete_task` strands the work | up to the counterexample |
| `flow_early` | *violated on purpose*: the report of an arm found at work marks the work completed at once | up to the counterexample |
| `review_queue` | two blocked tasks, two reviewing arms, users, late reports, leases that run out, a planning gate, PATCHes without a look, restarts: no arm has two reviews, no lease is granted over another (`ReviewLeases` is implemented), an open gate holds nothing, a PATCH that follows a read fits what was read, a due task gets its turn | 46 764 |

*Bounds of TaskFlow.*  Work items do not interact except through the rank of a
claim, which is left open (`MayBeRefused`), so one work is instantiated and `TopK`
is 1.  `Validations` and `Verifications` are the ids that may be created: one
validation, whose messages may still come in the next round of the work, and the
verification of one status report.  `MaxInbox` is the number of commands in the
inbox, the one in hand included; silent completions and replies need no room in it,
and the theorems have no such bounds.
`FoundWorking` contains all arms.  `CrashDuring` (`Repeated` in the MC module)
holds every job but `approved`, `issues` and `silent`: a crash in these does lose
the follow-up, or leaves announced work accepted (section 6), and the theorems name
the same assumptions.  `ValidatorsJudge` says that no validation ends by a
completion, neither the arm's nor a silent one; it is true except in `flow_stuck`.

*Bounds of BlockedReview.*  None but the numbers of tasks and arms: the order of
the queue and an arm with two tasks need two, and the bound on a plan is the number
of tasks.

*Liveness.*  TaskFlow has safety properties only: whether a human answers, or an
arm claims a validation, is up to them.  `DueIsReviewed` brings its condition
with it: if reviews are handed out again and again, and from some time on nobody
comments on a task, then it does not stay due for ever.  Nothing else is assumed:
whether an idle arm exists, and whether a poll gets as far as the reviews, are
not the queue's to decide; that the queue passes over nobody is.

### Actions and hosts

| Run | Shows | Distinct states |
|---|---|---|
| `swarm_ledger` | two Brains, prompts and stops of one arm on two events, lost answers, timeouts, crashes, late effects, an operator: the ledger implements `AtMostOnce`; one dispatch in a scope at a time; effects in a scope are a cooldown and newer evidence apart | 571 295 |
| `swarm_scope` | *violated on purpose*: two reports of a bug from one event, about different targets, leave two unresolved actions in one scope | up to the counterexample |
| `host_life` | one host, two arms, two servers, capacity one: the daemon and the API server stop and start, commands wait, time out, get lost and come late, rows are left at `starting`, servers die, or stop long after they were told to: what the daemon manages and what the host is to run fit the capacity, what runs can be adopted, rows are true, kills are final | 1 750 930 |

`swarm_ledger` needs two Brains for a race, a prompt and a stop because they share
a scope but no key, and two events because a cooldown is about older and newer
evidence.  `MaxTime` is a clock of 0, 1, 2 with a cooldown of 2 (its end and one
tick before it both occur); events happen at 0 and 1.

`host_life`: `QueueBound` 1 lets one command wait behind the one in hand,
`MishapBound` 2 lets two kinds of mishap meet; `MaxArms` 1 with two arms is a full
host.  Two servers are the two of one arm, or one of each; the theorems have no
bounds.

Deadlock is checked in `host_life` and `review_queue`, in whose systems something
can always happen.  It is not in the others: an arm that is deleted and never
started again, a queue with nothing to do, a board whose work is finished and a
ledger whose clock is at its bound may stop.

## 5. Theorems

All are invariance or step theorems; each is for every value of the constants
that the named assumptions of the module allow.

| Theorem | States | Argument |
|---|---|---|
| `ArmLifecycleProofs!TypeCorrect` | `[]TypeOK` | `HandlerFacts` collects what every handler writes (a row, a timer table, at most two effects), so the cases of the table are gone through once |
| `ArmLifecycleProofs!DeadlinesHold` | `[]NoWaitWithoutDeadline` | `DeadlineInv` |
| `ArmLifecycleProofs!DeadlinesRunDownHolds` | `DeadlinesRunDown` | step property, from `CallCurrent` |
| `ArmTasksProofs!CompletedForGood` | `CompletedStaysCompleted` | step property, from `KeptInv` |
| `CommandQueueProofs!TypeCorrect` | `[]TypeOK` | by the four groups of steps |
| `CommandQueueProofs!NoCommandLost` | `[]NothingLost` | `KeptInv` |
| `CommandQueueProofs!OneLeaseHolder` | `[]LeaseExclusive` | `LeaseInv` |
| `CommandQueueProofs!FinishedForGood` | `FinishedStaysFinished` | step property, from `LeaseInv` |
| `CommandQueueProofs!AdmissionControlled` | `[]OnlyAdmissible` | a requeued row's source is a well-formed dead letter |
| `CommandQueueProofs!PromiseKept` | `Init` and `[Next]` of the queue map to those of `AtLeastOnce` | `PromiseInv`; assumes no retention |
| `TaskFlowProofs!TypeCorrect` | `[]TypeOK` | |
| `TaskFlowProofs!AssigneesFit` | `[]AssigneeFits` | `AssigneeInv`: every row that is written fits |
| `TaskFlowProofs!HumansDecide` | `[]HumanGate` | `GateInv`; assumes no crash in a silent completion, or no arm found working |
| `TaskFlowProofs!AcceptedOnlyByHuman` | `[]AcceptedByHuman` | `GateInv`; assumes that no arm was found working, the one cause of `flow_early` |
| `TaskFlowProofs!AcceptanceByApproval` | `AcceptsByApproval`: the flow implements `HumanApproval` | `UseInv`; assumes the same |
| `TaskFlowProofs!CompletingIsFollowed` | `[]CompletingFollowed` | `FollowInv`; assumes `ValidatorsJudge` and no crash in `approved`, `issues` or `silent` |
| `BlockedReviewProofs!TypeCorrect` | `[]TypeOK` | `Typed` |
| `BlockedReviewProofs!OneReviewPerArmHolds` | `[]OneReviewPerArm` | `PlanIsFree` |
| `BlockedReviewProofs!LeasesExcludeHolds` | `LeasesExclude`: the queue implements `ReviewLeases` | `PlanTasksFree`, with `PlanIsFree` |
| `BlockedReviewProofs!OpenGateHoldsNothingHolds` | `[]OpenGateHoldsNothing` | `Waiting` |
| `BlockedReviewProofs!HeedsWhatItReadHolds` | `HeedsWhatItRead` | step property, from `ReadHolds` |
| `SwarmActionsProofs!TypeCorrect` | `[]TypeOK` | |
| `SwarmActionsProofs!DispatchedAtMostOnce` | `KeepsPromise`: the ledger implements `AtMostOnce` | `OnceInv` |
| `SwarmActionsProofs!OneUnderWayHolds` | `[]OneUnderWay` | `ScopeInv` |
| `SwarmActionsProofs!EffectsSpaced` | `[]Spaced` | `SpacedInv` |
| `ArmHostProofs!TypeCorrect` | `[]TypeOK` | `Typed` |
| `ArmHostProofs!RecoverableHolds` | `[]Recoverable` | inductive on `Sound` and `Orderly` |
| `ArmHostProofs!OneServerHolds` | `[]OneServer` | `Accounted`, on `Adoptable` |
| `ArmHostProofs!CapacityHolds` | `[]CapacityKept` | `Counting`, on `Adoptable` |
| `ArmHostProofs!HostCapacityHolds` | `[]HostCapacity` | no induction of its own: the servers that run and are to run map one to one into `Counted` |
| `ArmHostProofs!RowsAreTrue` | `[]RowsTrue` | `Rowed`, on `Accounted` and `Recoverable` |
| `ArmHostProofs!KilledForGood` | `KilledStaysKilled` | step property, from `Gone` |

The strengthenings, and why the properties are not inductive alone:

* **`DeadlineInv`.**  `NoWaitWithoutDeadline` speaks of rows, but a transition
  writes a row from the context it read earlier.  The invariant adds that the
  context of a loop's call is armed too (no timer runs between read and write),
  and that a timer's call is a TIMEOUT, which leaves every waiting state.
* **`CallCurrent`.**  A handler sets the timer of a wait only when it enters that wait
  from another state, which it decides by the context it read.  The row may have
  changed since; the invariant says that it still has the state of the context,
  or was freed by the API and is `idle`, so a row that waits already is not entered
  again.
* **`HoldInv`.**  Completed work is safe if it has no assignee left and nothing that is
  about to be written names it.  The invariant describes what may still be written:
  only a task that is taken has an assignee, and a row that still names another
  one's task is stopped and about to be freed (`Owned`); a caller has at most two
  effects, only the first about a task (`Tidy`); no task is disposed of twice, and
  none that a row still holds (`Disposing`); and what a call has read is still true
  of the row or can no longer do harm (`Calling`).  It holds through lost requests,
  restarts, claims and rows that are freed late, since a late clearing only takes a
  task out of a row.  What a handler returns is characterised once (`Careful`), so the
  table of thirteen events in nine states is gone through once.
* **`KeptInv` of the queue** adds `Known`: the stream deduplicates only what it stored, and a
  sender is told "accepted" only of what is stored.  Otherwise dropping a
  duplicate could drop the only copy.
* **`LeaseInv`** adds `Leased` (a row with a current holder may be leased by
  nobody) and `Aged` (a purged row is old, and what is old is neither in the
  stream nor with a sender that will publish it).  Without `Aged` a late delivery
  could bring a purged row back as pending.
* **`PromiseInv`** adds that what is in the stream or the inbox was stored, so a
  row is settled only after it was stored.
* **`GateInv`** adds `JobPasses`: what each job in progress is about to complete
  may be completed, and a completion that marked its work completed is still in the
  inbox or, if it is a silent one, still in hand.  `ReportsStay` and `PassesStay` say what a step must do for the gate:
  no report of unaccepted work leaves, no row that passes is overwritten by one
  that does not.
* **`UseInv`** adds to the types what a job in hand stands for (`JobUses`): the approval
  that is being finalised is still unread, and work whose validation is being
  created is not completed.
  Then each step of the flow is one step of `HumanApproval` or none; a crash in an
  approval leaves it unread, so it is used when the reply is read again.
* **`FollowInv`** adds `Sound`: the command of a job is in the inbox
  unless it is a silent one
  (`JobsBacked`), what commands name exists (`NamesExist`), nobody reports a
  validation complete (`Judged`), and a report with issues is about its own work
  (`OwnReports`).  `Good(w)` strengthens the property where the
  work has a verification: a repeated report then does nothing, so it must not
  be the only thing that follows the work up.
* **`PlanIsFree`.**  No arm has two leases because the arms of the plan that is
  being handed out have none: reports, restarts and users only end reviews
  meanwhile, and the plan names each arm once.
* **`PlanTasksFree`** says the same of the tasks: those still to be handed out are
  different and leased by nobody, so that `Lease` is a step `Grant` of
  `ReviewLeases` and every other step one that ends leases, or a stutter.
* **`Waiting`** says where the tasks are that are still held back: of the gate's own
  category or edited by a user, and while the gate opens among those still to
  come in the list.
* **`ReadHolds`** is the memory of the Brain against the board: what it listed, plans
  to hand out or holds in hand has the status it was listed with unless it is
  `stale`; a change beside the poll makes stale what it changes, and a step of the
  poll changes the one task that it takes off its list.
* **`OnceInv`**: only what was granted is engaged, in flight or has landed; what is in
  flight or reserved and not sent has not landed; and two runners are never
  engaged in one key.
* **`ScopeInv`** restates `OneUnderWay` for the rows of the ledger, where a
  reservation can see it, and adds that a row whose outcome is open is
  unresolved unless an operator was hasty.  It fails for the actions whose key
  does not name their target (see `swarm_scope`), so the properties are about the
  others.
* **`SpacedInv`** adds what a reservation has seen: an effect came before its row was
  resolved, and an unresolved row in the scope of a landed one was reserved a
  cooldown later and on newer evidence.
* **The host.**  `Sound` holds whatever goes wrong: a session, a record and a job name
  servers of their own arm (`Owned`), and which of them exist in which phase
  (`Phased`).
  `Orderly` is what one may add while no spawn comes early: sessions agree with
  the records they were adopted from and a kill meets the session it was sent
  for; with it `Recoverable` is inductive, and so is `Gone`: no session, no record and
  no spawn names a killed server, from which `KilledStaysKilled` follows.  `Adoptable` says that the record of a
  server that runs is managed or about to be read or adopted; `Counting`, that
  arms managed, so recorded, or being started fit the capacity together, which
  is `CapacityKept` with the daemon's future counted in; `Accounted`, that a
  server that is to run is recorded or the one being started, and that a kill has
  told its server before it forgets it, from which, with
  `OneServer`, follows `HostCapacity`: each server belongs to one of the arms
  that `Counting` counts, and no two to the same; `Rowed`, that a row that
  differs from the daemon has the job or a kill under way that corrects it.

**Only model-checked:** liveness, that is `WaitsEnd`, `DueIsReviewed` and the
fairness part of the queue's `KeepsPromise`, which is beyond the prover.  Every
invariant and step property of a passing run is a theorem.

## 6. Where code and documents disagree

Shown by a run that is expected to be violated:

1. `arm_restart`.  Timers live in memory and are not set again when a Brain
   starts on existing rows (`brain/arm-state-machine.ts:719`, `:817`), so an
   arm whose connection was lost stays `disconnected` for ever.  The file's header says the
   machine "Survives process restarts and handles network disconnects
   gracefully".
2. `flow_stuck`.  An arm that ends its validation task with `complete_task`, the
   tool every prompt names, finishes the follow-up only; the work stays
   `completing` with nothing under way (`brain/brain.ts:3626`).
3. `flow_early`.  When an arm's machine says `working`, its report of completion
   PATCHes the work to `completed` before it is PATCHed to `completing`
   (`brain/brain.ts:3408`, `brain/arm-state-machine.ts:346`), past the human gate
   of `brain/brain.ts:3373`.  `HumanGate` shows that this lasts only while the
   report is being handled, or is handled again after a crash, and the theorem
   `AcceptedOnlyByHuman` that nothing else breaks the property: it holds for every
   behaviour in which the Brain found no arm at work.
4. `swarm_scope`.  A row that was only proposed keeps its scope when it is promoted
   with a proposal about another target (`db/swarm-actions.ts:54`); then two
   unresolved actions are about one scope, which `brain/swarm/README.md:103` rules
   out.

Noticed while modelling, without a run of their own:

* The TIMEOUT handlers do not check which timer fired
  (`brain/arm-state-machine.ts:265`, `:371`, `:472`): the startup timer can
  release an assignment before its three minutes are over.
* STOP or ERROR of a working arm without a task updates a task without an id
  (`:379`); the request answers 404 and changes nothing.
* Nobody sends TASK_ASSIGNED, so no row reaches `task_assigned`, and the three minutes
  to acknowledge a task are in force for no arm (`brain/brain.ts:2343`).
* After a reconnection an arm that had not acknowledged its task is `working`
  (`:427`); `src/docs/architecture/components.md:262` says *previous*.
* A crash between the two PATCHes of an approval (`brain/brain.ts:4772`, `:4789`)
  leaves the work `completing` with an approved review that nobody finalises; a
  crash after a verification task was created (`:4267`) leaves the original open.
* A silent completion (`brain/brain.ts:7757`) is a `completeTask` with no command in the
  inbox.  A crash between its PATCHes leaves the work `completing` with nothing under
  way; if the arm's machine had announced it, the work stays `completed` without a
  human.  With `"silent"` in `CrashDuring` TLC finds both within five steps.  A silent
  completion of a validation task strands the work as in `flow_stuck`.
* An answer to a request for approval counts for the review that is pending when it
  is read (`brain/brain.ts:1413`): one that was given for an earlier round of the work
  approves a later one.
* An acknowledgement that is handled again takes completed work back to
  `in_progress` (`brain/brain.ts:2444`); so does any late status report, and one
  that says `blocked` blocks it.
* When the API paths fail, `sendToBrain` writes the command to a directory that
  nothing reads any more, and returns as if it were sent (`mcp/utils.ts:391`;
  `src/.project/plans/brain-api-boundary-execution-plan.md:41` plans the removal).
* The lease of a review is written from a list that was read before other
  requests (`brain/brain.ts:8393`): a task that was completed meanwhile becomes
  blocked again.
* The row of a reviewer keeps its current task after a user has unblocked it: a
  restart (`brain/brain.ts:7731`) or a kill of a zombie (`:8337`) of that arm
  then blocks work another arm is doing, or work that is done.  So may any PATCH of the
  Brain that follows the word of an arm; `HeedsWhatItRead` does not speak of these.
* The edit form sends category and reason of a blocked task as they are shown
  (`src/clients/web/src/components/TaskModal.tsx:173`): one that the planning
  gate blocked and whose reason was rewritten is neither resumed with the others
  nor reviewed.  This is `edited` in `OpenGateHoldsNothing`.
* A human reply to a task under review changes no review time
  (`api/routes/task-discussions.ts:250`); `src/docs/guides/task-workflow.md:75`
  says it moves the next review to now.  A reply to a task that is due already
  moves it to the end of the queue, which is why `DueIsReviewed` asks that
  comments end.
* Turning `task_auto_discover` off while the gate is closed reports success
  without resuming what the gate blocked (`brain/brain.ts:9320`).
* A daemon accepts a spawn while it is still adopting (`agent/arm-agent.ts:251`),
  and compares the capacity with what it has adopted so far (`:391`, `:955`), so it
  may come to manage more than the "Maximum concurrent arms" of
  `src/docs/architecture/nats-agents.md:126`.  This is the mishap `early`; a spawn
  accepted before the records are read can also be killed and, from the records read
  in between, adopted again.
* A kill sends SIGTERM and waits for nothing (`harness/opencode-api.ts:638`); where the
  start of a server fails, `stopFailedOpenCodeProcess` escalates to SIGKILL
  (`harness/opencode-startup.ts:61`).  The kill of an adopted session has no process to
  signal.  The server may run on beside its successor.
* The spawn route leaves the row of a new arm at `starting` when no host is found or the
  spawn fails (`api/routes/arms.ts:1744`, `:2131`).
* An update of one claim hides others: `claim_file` looks at the first claim of a
  file, which may be the arm's own, before it grants an exclusive one
  (`mcp/tools/file-claim-tools.ts:60`); it grants `write` beside another arm's
  `exclusive`, after which the check of a write finds the arm's own claim and
  allows it (`arm/claim-enforcement.ts:80`).

## 7. What is left out

Within the modelled components:

* *ArmLifecycle*: `previous_state`, timestamps, error and heartbeat counters,
  which no handler reads.
* *CommandQueue*: rows addressed to arms, which nothing polls; the order by
  `created_at`, which is the sender's clock (a list is a set); a dead letter that
  cannot be written at the ingress; a request that takes effect after its
  sender's timeout and further steps.  `task_deleted`, which the API inserts
  directly, enters the inbox as a requeued row does.
* *TaskFlow*: arms' rows other than `FoundWorking`; dependencies and other
  reasons to be blocked; drafts, failed tasks, commit tasks; lost PATCHes;
  `completed_with_issues` reports; `status_update` commands (no tool sends them);
  plan files, whose ticked lines complete a pending task (`syncPlanTasks`,
  `brain/brain.ts:9476`); users who complete tasks or cancel follow-ups, who then
  decide themselves; that a completion is only taken for silent with some
  confidence, which is a choice here; several Brains, whose leases are CommandQueue's matter.

* *BlockedReview*: PATCHes that fail; who is idle, which is a choice; the limit of
  500 rows of a list; `task_auto_discover` off; which arm works on an open task,
  and the release by its owner, which TaskFlow has.
* *SwarmActions*: what the evaluator and its models conclude, the thresholds, the
  version of the target and the mode, which only make fewer reservations; changes of the
  cooldown, which each request carries and which is the poll interval times the window
  of the Brain's configuration (`brain/swarm/runner.ts:130`), so that what is proved of
  the spacing is for one configuration; the rows of the Inbox that mirror the ledger.  Evidence is not dated in the future.
* *ArmHost*: prompts, aborts and queries; sessions in a TUI; the choice among hosts
  and a second host; the route that recovers an arm by hand.  Events and answers
  of a daemon arrive at once and in order; at most one kill per arm is lost at a
  time.  A record that is to be removed is removed: `forgetOwnedArm` swallows a failure
  (`agent/arm-recovery.ts:50`) and the kill is confirmed all the same, after which the
  next daemon would adopt the server if it still ran.  The deletion of an arm's row
  (`DELETE /api/arms/:id`, which asks for a stopped one).

Components without a module, and why:

* *Task dependencies*: the cycle check is a graph search inside one synchronous
  request, and unblocking is one of the moves of others in BlockedReview.
* *File claims*: check and insertion are separate requests without a lock or
  constraint, so there is no exclusion to state that the code keeps.
* *Brain loop and control*: the modules contain what they need of it (one
  transition, message and PATCH at a time; nothing is read before the plan is
  synchronised; reviews come last).  Start, stop and pause are left out.
* *Permission engine*, *proposals*, *bugs and escalations*: a pure function of
  rules; a count of votes; the task board's claim logic repeated.
* *Event store, harness manager, health monitor, mail, migrations, vector index,
  clients*: I/O around external programs, run sequentially, or without state that
  others rely on.

Hazards that stay without a property: the two requests of `claim_file`; the
fallback file; and `withTransaction`, which is given an asynchronous function and
commits at its first `await` (`db/transactions.ts:346`).

## 8. Plan

Done, in this order: `ArmLifecycle`, `CommandQueue` with `AtLeastOnce`, `TaskFlow`,
`SwarmActions` with `AtMostOnce`, `ArmHost`, `BlockedReview`, each with its
theorems, and the theorem about tasks of `ArmLifecycle`; then `HumanApproval` and
`ReviewLeases` with the proofs that `TaskFlow` and `BlockedReview` implement them,
and the theorems about deadlines and about the servers of a host.

What would come next:

1. `BrainControl`: start, stop, pause and resume, and the table `arms` with all
   its writers, composed with `ArmHost`.
2. The cycle check of dependencies and the precedence of permission rules as
   functions, each against a reference definition over small inputs.
3. The other statuses of the documented board (`HumanApproval` has the acceptance of
   work) as an abstract specification that TaskFlow implements up to the cases of
   section 6.
4. `KeepsPromise` of the queue for any retention, with a weaker `AtLeastOnce` in
   which a row that is no longer kept may be settled by its age.
