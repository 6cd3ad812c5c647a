--------------------------- MODULE BlockedReview ---------------------------
(***************************************************************************)
(* The blocked-task review queue: one poll of the Brain after another      *)
(* (brain/brain.ts) over the blocked tasks of the board                    *)
(* (api/routes/tasks.ts), while users, arms and the clock change the same  *)
(* tasks between any two of its calls.                                     *)
(*                                                                         *)
(* The Brain lists tasks once and then PATCHes them one by one: it closes  *)
(* what the plan ticks off, gates all work when the plan cannot be read    *)
(* and resumes it when it can, applies the reviews the arms reported,      *)
(* takes back what a bug stands in the way of or no longer does, blocks    *)
(* runnable tasks behind bugs and file claims, and leases due tasks to     *)
(* idle arms.  Its other PATCHes do not look at the task at all: they      *)
(* follow the word of an arm, or what the Brain believes an arm works on.  *)
(*                                                                         *)
(* A next-review time is abstracted to what the queue can tell apart: it   *)
(* has passed (the task is due, behind the tasks whose time passed before) *)
(* or not yet, or it is the year 9999 of a planning gate (parked).  Who is *)
(* idle is a choice: harness events change that at any moment.             *)
(***************************************************************************)
EXTENDS Naturals, Sequences, FiniteSets

CONSTANTS
    Tasks,
    Arms,
    NoArm,    \* a task nobody reviews
    Nothing   \* a Brain that holds no review result

ASSUME TasksAssumption == IsFiniteSet(Tasks) /\ Nothing \notin Tasks
ASSUME ArmsAssumption == NoArm \notin Arms

VARIABLES
    task,    \* the rows of the board
    due,     \* blocked tasks whose next-review time has passed
    ahead,   \* which due tasks are to be reviewed before each
    pc,      \* where the poll of the Brain is
    list,    \* the listed tasks it has not come to yet
    plan,    \* the reviews it has still to hand out
    held,    \* the review result, or the task, it is dealing with
    stale,   \* history: what was changed, other than by the steps that
             \* work off what the Brain read, since it last read
    edited   \* history: tasks whose blocker a user wrote

boardVars == <<task, due, ahead>>
brainVars == <<pc, list, plan, held>>
vars == <<boardVars, brainVars, stale, edited>>

-----------------------------------------------------------------------------
(* Tasks and the queue *)

\* done: completed or failed, which the handling of a bug leaves alone.
Open == {"pending", "active", "done", "cancelled"}

\* gate: category planning with the marker of the gate in the reason;
\* planning: the category alone, after the reason was rewritten.
Categories == {"gate", "planning", "other"}

Opened(status) ==
    [status |-> status, category |-> "none", reviewer |-> NoArm, parked |-> FALSE]
Blocked(category, reviewer, parked) ==
    [status |-> "blocked", category |-> category, reviewer |-> reviewer, parked |-> parked]

\* Neither the gate nor an edit of its blockers meets a task under review.
TaskRows ==
    {row \in [status: Open \cup {"blocked"}, category: Categories \cup {"none"},
               reviewer: Arms \cup {NoArm}, parked: BOOLEAN] :
        /\ row.status # "blocked" => row = Opened(row.status)
        /\ row.status = "blocked" => row.category \in Categories
        /\ row.reviewer # NoArm => row.category = "other" /\ ~row.parked}

IsBlocked(t) == task[t].status = "blocked"

\* Slip: a review is made whether or not it is time for it.
ReviewableAnyTime(t) == IsBlocked(t) /\ task[t].category = "other"

Reviewable(t) == t \in due /\ task[t].category = "other"

\* Slip: a task that leaves the queue stays in front of the others.
LeaveInFront(t) ==
    /\ due' = due \ {t}
    /\ ahead' = [u \in Tasks |-> IF u = t THEN {} ELSE ahead[u]]

\* The next review of t is later, or there is none.
Leave(t) ==
    /\ due' = due \ {t}
    /\ ahead' = [u \in Tasks |-> IF u = t THEN {} ELSE ahead[u] \ {t}]

\* The next review of t is now.
Join(t) ==
    /\ due' = due \cup {t}
    /\ ahead' = [u \in Tasks |-> IF u = t THEN due \ {t} ELSE ahead[u] \ {t}]

\* PATCH with a status other than blocked clears every field of the blocker.
SetOpen(t, status) ==
    /\ task' = [task EXCEPT ![t] = Opened(status)]
    /\ Leave(t)

\* PATCH with status blocked and a category: a task that was blocked keeps
\* its reviewer and its next review, another starts with neither.
SetBlocked(t, category) ==
    /\ task' = [task EXCEPT ![t] =
                  IF IsBlocked(t) THEN [@ EXCEPT !.category = category]
                  ELSE Blocked(category, NoArm, FALSE)]
    /\ UNCHANGED <<due, ahead>>

\* PATCH that also names the reviewer and a next review that is not yet.
SetReviewer(t, reviewer) ==
    /\ task' = [task EXCEPT ![t] = Blocked("other", reviewer, FALSE)]
    /\ Leave(t)

-----------------------------------------------------------------------------
(* The Brain *)

Outcomes == {"unblocked", "irrelevant", "still_blocked", "needs_human"}
Results == [task: Tasks, arm: Arms, outcome: Outcomes]
Stages == {"sync", "ticking", "gating", "resuming", "inbox", "deciding", "notifying",
           "releasing", "assigning", "reviewing", "prompting", "reevaluating"}

TypeOK ==
    /\ task \in [Tasks -> TaskRows]
    /\ due \subseteq {t \in Tasks : IsBlocked(t) /\ ~task[t].parked}
    /\ ahead \in [Tasks -> SUBSET due]
    /\ \A t \in Tasks : t \notin ahead[t] /\ (t \notin due => ahead[t] = {})
    /\ pc \in Stages
    /\ list \subseteq Tasks
    /\ plan \in Seq([task: Tasks, arm: Arms])
    /\ held \in Results \cup Tasks \cup {Nothing}
    /\ pc \in {"deciding", "notifying"} => held \in Results
    /\ pc = "releasing" => held \in Tasks
    /\ pc = "prompting" => plan # <<>>
    /\ stale \subseteq Tasks /\ edited \subseteq Tasks

Init ==
    /\ task = [t \in Tasks |-> Opened("pending")]
    /\ due = {}
    /\ ahead = [t \in Tasks |-> {}]
    /\ pc = "sync"
    /\ list = {}
    /\ plan = <<>>
    /\ held = Nothing
    /\ stale = {}
    /\ edited = {}

At(stage) == pc = stage
GoTo(stage) == pc' = stage

\* The Brain lists tasks, or reads one, and goes on to work on them.
Reads(stage, tasks) ==
    /\ GoTo(stage)
    /\ list' = tasks
    /\ stale' = {}
    /\ UNCHANGED <<boardVars, plan, held, edited>>

\* It has come to task t of its list.
NextIs(t) ==
    /\ t \in list
    /\ list' = list \ {t}
    /\ UNCHANGED <<pc, plan, held, stale, edited>>

(* syncPlanTasks: what the plan ticks off, among the tasks listed before *)

ReadPlan ==
    /\ At("sync")
    /\ Reads("ticking", {t \in Tasks : task[t].status = "pending"})

Tick(t) ==
    /\ At("ticking")
    /\ NextIs(t)
    /\ SetOpen(t, "done")

(* It fails, sooner or later: every unblocked task goes behind the planning gate *)

\* Slip: the gate takes the tasks that were blocked before, too.
GateFailsForAll ==
    /\ At("sync") \/ At("ticking")
    /\ Reads("gating", {t \in Tasks : task[t].status \notin {"done", "cancelled"}})

GateFails ==
    /\ At("sync") \/ At("ticking")
    /\ Reads("gating", {t \in Tasks : task[t].status \in {"pending", "active"}})

\* The PATCH names a next review, and no reviewer.
Gate(t) ==
    /\ At("gating")
    /\ NextIs(t)
    /\ task' = [task EXCEPT ![t] =
                  Blocked("gate", IF IsBlocked(t) THEN @.reviewer ELSE NoArm, TRUE)]
    /\ Leave(t)

GateShut ==
    /\ At("gating") /\ list = {}
    /\ GoTo("sync")
    /\ UNCHANGED <<boardVars, list, plan, held, stale, edited>>

(* It succeeds: what the gate blocked is resumed *)

\* Slip: only what still waits for the year 9999 counts as the gate's.
GatedForever(t) == IsBlocked(t) /\ task[t].category = "gate" /\ task[t].parked

Gated(t) == IsBlocked(t) /\ task[t].category = "gate"

GateOpens ==
    /\ At("ticking")
    /\ Reads("resuming", {t \in Tasks : Gated(t)})

Resume(t) ==
    /\ At("resuming")
    /\ NextIs(t)
    /\ SetOpen(t, "pending")

Resumed ==
    /\ At("resuming") /\ list = {}
    /\ GoTo("inbox")
    /\ UNCHANGED <<boardVars, list, plan, held, stale, edited>>

(* handleBlockedTaskReview: the task is read, then PATCHed *)

\* A report of any arm about any task, on time, late or repeated; one about
\* a task that is not blocked, or is another's to review, changes nothing.
BeginReport(t, arm, outcome) ==
    /\ At("inbox")
    /\ IsBlocked(t) /\ task[t].reviewer = arm
    /\ GoTo("deciding")
    /\ held' = [task |-> t, arm |-> arm, outcome |-> outcome]
    /\ stale' = {}
    /\ UNCHANGED <<boardVars, list, plan, edited>>

Decided(stage) ==
    /\ GoTo(stage)
    /\ held' = IF stage = "inbox" THEN Nothing ELSE held
    /\ UNCHANGED <<list, plan, stale, edited>>

ReviewUnblocks ==
    /\ At("deciding") /\ held.outcome = "unblocked"
    /\ SetOpen(held.task, "pending")
    /\ Decided("inbox")

ReviewCancels ==
    /\ At("deciding") /\ held.outcome = "irrelevant"
    /\ SetOpen(held.task, "cancelled")
    /\ Decided("inbox")

\* The category is the one reported or the one read, and neither is planning.
ReviewPostpones ==
    /\ At("deciding") /\ held.outcome \in {"still_blocked", "needs_human"}
    /\ SetReviewer(held.task, NoArm)
    /\ Decided(IF held.outcome = "needs_human" THEN "notifying" ELSE "inbox")

\* After the mail to the human the blocker is written once more.
HumanNotified ==
    /\ At("notifying")
    /\ SetBlocked(held.task, "other")
    /\ Decided("inbox")

(* A bug is resolved, or reported with medium priority: the task it names *)
(* is read, then PATCHed                                                  *)

BeginRelease(t) ==
    /\ At("inbox")
    /\ IsBlocked(t) /\ task[t].category = "other"
    /\ GoTo("releasing")
    /\ held' = t
    /\ stale' = {}
    /\ UNCHANGED <<boardVars, list, plan, edited>>

BeginHandBack(t) ==
    /\ At("inbox")
    /\ task[t].status # "done"
    /\ GoTo("releasing")
    /\ held' = t
    /\ stale' = {}
    /\ UNCHANGED <<boardVars, list, plan, edited>>

Release ==
    /\ At("releasing")
    /\ SetOpen(held, "pending")
    /\ Decided("inbox")

(* assignTasks: pending tasks that a bug or a file claim blocks *)

Assign ==
    /\ At("inbox")
    /\ Reads("assigning", {t \in Tasks : task[t].status = "pending"})

BlockRunnable(t) ==
    /\ At("assigning")
    /\ NextIs(t)
    /\ SetBlocked(t, "other")

(* reviewBlockedTasks *)

UnderReview(t, arm) == IsBlocked(t) /\ task[t].reviewer = arm /\ t \notin due
\* Slip: an arm is free as soon as it is idle.
ReservedByNobody == {}

Reserved == {arm \in Arms : \E t \in Tasks : UnderReview(t, arm)}

\* Slip: the tasks are taken in any order.
OldestOrNot(n) ==
    {line \in [1..n -> {t \in Tasks : Reviewable(t)}] :
        \A i, j \in 1..n : line[i] = line[j] => i = j}

\* The n tasks that come first in the queue, in its order.
Oldest(n) ==
    {line \in [1..n -> {t \in Tasks : Reviewable(t)}] :
        \A i \in 1..n :
            {u \in ahead[line[i]] : Reviewable(u)} = {line[j] : j \in 1..(i - 1)}}

Distinct(n, arms) ==
    {who \in [1..n -> arms] : \A i, j \in 1..n : who[i] = who[j] => i = j}

\* One due task for each idle arm that has no review under way: n is the
\* smaller of the two numbers, and which arms are idle is a choice.
PlanReviews(n) ==
    /\ At("assigning")
    /\ \E line \in Oldest(n), who \in Distinct(n, Arms \ Reserved) :
          plan' = [i \in 1..n |-> [task |-> line[i], arm |-> who[i]]]
    /\ GoTo("reviewing")
    /\ list' = {}
    /\ stale' = {}
    /\ UNCHANGED <<boardVars, held, edited>>

Lease ==
    /\ At("reviewing") /\ plan # <<>>
    /\ SetReviewer(Head(plan).task, Head(plan).arm)
    /\ GoTo("prompting")
    /\ UNCHANGED <<list, plan, held, stale, edited>>

Prompted ==
    /\ At("prompting")
    /\ plan' = Tail(plan)
    /\ GoTo("reviewing")
    /\ UNCHANGED <<boardVars, list, held, stale, edited>>

NotPrompted ==
    /\ At("prompting")
    /\ SetReviewer(Head(plan).task, NoArm)
    /\ plan' = Tail(plan)
    /\ GoTo("reviewing")
    /\ UNCHANGED <<list, held, stale, edited>>

(* reEvaluatePlanProgress: listed tasks whose dependencies are met *)

ReEvaluate ==
    /\ At("reviewing") /\ plan = <<>>
    /\ Reads("reevaluating", {t \in Tasks : task[t].status \in {"pending", "blocked"}})

Unblock(t) ==
    /\ At("reevaluating")
    /\ NextIs(t)
    /\ SetOpen(t, "pending")

EndPoll ==
    /\ At("reevaluating")
    /\ GoTo("sync")
    /\ list' = {}
    /\ UNCHANGED <<boardVars, plan, held, stale, edited>>

\* The Brain stops between two calls; the next one starts with a poll.
Restart ==
    /\ ~At("sync")
    /\ GoTo("sync")
    /\ list' = {} /\ plan' = <<>> /\ held' = Nothing
    /\ UNCHANGED <<boardVars, stale, edited>>

-----------------------------------------------------------------------------
(* The Brain, without a look at the task *)

\* The row of t changes, and not by what the Brain read.
Unseen(t) ==
    /\ stale' = stale \cup {t}
    /\ UNCHANGED brainVars

\* The word of an arm or of a human (updateTaskStatus, a status report, a
\* completion and the verdicts on it, update_task of the assistant's output)
\* and the end of an arm (handleStuckArm, killZombieArm): the task gets the
\* status that follows from them, whatever its status is.
Regardless(t) ==
    /\ At("inbox")
    /\ SetBlocked(t, "other") \/ \E status \in Open : SetOpen(t, status)
    /\ Unseen(t)
    /\ UNCHANGED edited

\* A timer of the arm state machine releases the task of its arm, or fails it.
TimerFires(t) ==
    /\ SetOpen(t, "pending") \/ SetOpen(t, "done")
    /\ Unseen(t)
    /\ UNCHANGED edited

-----------------------------------------------------------------------------
(* Arms, users and the clock *)

Claims(t) ==
    /\ task[t].status = "pending"
    /\ SetOpen(t, "active")
    /\ Unseen(t)
    /\ UNCHANGED edited

\* The web controls, and the API that unblocks the dependents of a task.
UserMoves(t, status) ==
    /\ status \in {"pending", "done", "cancelled"}
    /\ SetOpen(t, status)
    /\ Unseen(t)
    /\ UNCHANGED edited

\* The edit form: the category stays, or becomes one other than planning;
\* a rewritten reason loses the marker of the gate.
UserBlocks(t, category) ==
    /\ category = "other" \/ (IsBlocked(t) /\ category = "planning" /\ Gated(t))
    /\ SetBlocked(t, category)
    /\ edited' = edited \cup {t}
    /\ Unseen(t)

\* A human reply asks for a review now, unless one is (or was) under way.
Comment(t) ==
    /\ IsBlocked(t) /\ task[t].reviewer = NoArm
    /\ task' = [task EXCEPT ![t] = Blocked(@.category, NoArm, FALSE)]
    /\ Join(t)
    /\ UNCHANGED <<brainVars, stale, edited>>

\* The next-review time of t passes: of a lease, a back-off or a new block.
TimePasses(t) ==
    /\ IsBlocked(t) /\ ~task[t].parked /\ t \notin due
    /\ Join(t)
    /\ UNCHANGED <<task, brainVars, stale, edited>>

-----------------------------------------------------------------------------

Poll ==
    \/ ReadPlan \/ GateFails \/ GateShut \/ GateOpens \/ Resumed
    \/ \E t \in Tasks :
          \/ Tick(t) \/ Gate(t) \/ Resume(t) \/ BlockRunnable(t) \/ Unblock(t)
          \/ BeginRelease(t) \/ BeginHandBack(t)
    \/ \E t \in Tasks, arm \in Arms, outcome \in Outcomes : BeginReport(t, arm, outcome)
    \/ ReviewUnblocks \/ ReviewCancels \/ ReviewPostpones \/ HumanNotified \/ Release
    \/ Assign
    \/ \E n \in 0..Cardinality(Tasks) : PlanReviews(n)
    \/ Lease \/ Prompted \/ NotPrompted \/ ReEvaluate \/ EndPoll

World(t) ==
    \/ Claims(t)
    \/ \E status \in Open : UserMoves(t, status)
    \/ \E category \in Categories : UserBlocks(t, category)
    \/ Comment(t) \/ TimePasses(t)

\* What changes a task beside the steps that work off what the Brain read.
Beside(t) == Regardless(t) \/ TimerFires(t) \/ World(t)

Next == Poll \/ Restart \/ (\E t \in Tasks : Beside(t))

Spec == Init /\ [][Next]_vars

-----------------------------------------------------------------------------
(* Properties *)

\* docs/guides/task-workflow.md:57: "Each available arm receives at most one
\* review assignment": no arm holds two leases that have not run out, whatever
\* happened to its first task, its report or its status since.
OneReviewPerArm ==
    \A arm \in Arms : \A t, u \in Tasks :
        UnderReview(t, arm) /\ UnderReview(u, arm) => t = u

\* Nor does an arm take a task over from another: the queue implements ReviewLeases,
\* in which a lease of a task is granted only while nobody holds one of it, and to an
\* arm that holds none.
LeaseOf(t) == IF IsBlocked(t) /\ t \notin due THEN task[t].reviewer ELSE NoArm
Leases == INSTANCE ReviewLeases WITH reviewer <- [t \in Tasks |-> LeaseOf(t)]
LeasesExclude == Leases!Spec

\* Once the planning gate has opened, no task waits for it any longer: what is
\* parked until the year 9999, or of the category planning that no review is
\* made of, is a blocker some user edited in the meantime.
OpenGateHoldsNothing ==
    pc \notin {"sync", "ticking", "gating", "resuming"} =>
        \A t \in Tasks :
            IsBlocked(t) /\ (task[t].parked \/ task[t].category # "other") => t \in edited

\* What the Brain may make of a row it looked at: what is done stays done, no
\* task is claimed for an arm, only pending work is ticked off, only blocked
\* work is cancelled, and a blocker that is not the gate's does not become its.
Allowed(row, new) ==
    /\ row.status = "done" => new = row
    /\ new.status = "active" => row.status = "active"
    /\ new.status = "done" => row.status \in {"pending", "done"}
    /\ new.status = "cancelled" => row.status \in {"blocked", "cancelled"}
    /\ row.status = "blocked" /\ row.category # "gate" => new.category # "gate"

\* The Brain's PATCHes carry no expected version.  Those it makes because of
\* what it read (every one but Regardless and TimerFires, which never look)
\* are right for the row they meet unless the row was changed after the read:
\* by a user, an arm, or the Brain itself without a look.  Never do they
\* overrule a status because the Brain forgets what it read, or what its own
\* earlier PATCHes of the same list made of it.
HeedsWhatItRead ==
    [][brainVars' # brainVars =>
          \A t \in Tasks \ stale : Allowed(task[t], task'[t])]_vars

\* A due task does not starve: while reviews are handed out again and again
\* and nobody comments on it any more, its turn comes, or it leaves the queue.
DueIsReviewed ==
    \A t \in Tasks :
        []<><<Lease>>_vars /\ <>[][~Comment(t)]_vars => []<>~Reviewable(t)

=============================================================================
