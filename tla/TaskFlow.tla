------------------------------ MODULE TaskFlow ------------------------------
(***************************************************************************)
(* The way of a task from a claim to its acceptance.  Arms send commands,  *)
(* which the Brain takes from its inbox one at a time and, as CommandQueue *)
(* shows, possibly more than once; a handler writes tasks by several       *)
(* PATCHes and may crash between two of them.  Work that is reported       *)
(* complete waits in completing for the verdict of another arm, which      *)
(* works on a follow-up task, and then for the reply of a human.  Where an *)
(* arm seems to have finished without a word, the Brain completes its task *)
(* by itself, with no command to come back to after a crash.  A poll       *)
(* synchronises the plan first: as long as that fails, every open task is  *)
(* blocked and neither mail nor inbox is read.  Users of the API move      *)
(* tasks at any time.                                                      *)
(*                                                                         *)
(* One Brain is modelled: leases are the matter of CommandQueue.  Left     *)
(* out are the arms' own rows (ArmLifecycle has them), dependencies and    *)
(* other reasons to be blocked, drafts, commit tasks, and PATCHes that do  *)
(* not arrive.                                                             *)
(***************************************************************************)
EXTENDS Naturals, FiniteSets

CONSTANTS
    Work,           \* the tasks of the plan
    Validations,    \* bound: the ids of validation tasks
    Verifications,  \* bound: the ids of verification tasks, one for a report
    Of,             \* source_ref: the work a follow-up is about
    Arms,
    Nobody,
    NoReport,       \* no status report lists issues
    TopK,           \* claim_top_k
    MaxInbox,       \* bound: commands that wait at the same time
    UserMoves,      \* the statuses that users of the API set
    FoundWorking,   \* the arms that were busy when the Brain first saw them, or whose
                    \* connection may be lost
    ValidatorsJudge,\* whether a validation ends by the verdict of an arm only
    SeesSilence,    \* whether the Brain completes the tasks of silent arms
    Redelivers,     \* whether a handled command may be delivered again
    CrashDuring,    \* the jobs in which the Brain may crash, see Job
    PlanFails       \* whether the plan may be found unusable

FollowUps == Validations \cup Verifications
Tasks == Work \cup FollowUps

ASSUME TaskAssumption ==
    /\ Work \cap FollowUps = {} /\ Validations \cap Verifications = {}
    /\ Of \in [FollowUps -> Work]
    /\ Nobody \notin Arms /\ FoundWorking \subseteq Arms /\ NoReport \notin Verifications
    /\ UserMoves \subseteq {"pending", "cancelled"}
ASSUME NumberAssumption == TopK \in Nat /\ MaxInbox \in Nat

VARIABLES
    tasks,   \* the rows of table tasks
    report,  \* of each work, the latest status report that lists issues
    inbox,   \* the commands to the Brain that are not yet completed
    asked,   \* the work with a request for approval that is not out of date
    replies, \* the unread replies of humans
    gate,    \* whether planning succeeded last
    brain    \* what the Brain is doing between two PATCHes

vars == <<tasks, report, inbox, asked, replies, gate, brain>>

Reports == [kind : {"claim", "acknowledge", "complete"}, arm : Arms, task : Tasks]
Verdicts == [kind : {"verdict"}, arm : Arms, task : Tasks, approved : BOOLEAN]
Messages == Reports \cup Verdicts

\* In place of a command: an arm has gone silent on its task.
Silences == [kind : {"silent"}, task : Tasks]
Replies == [task : Work, approved : BOOLEAN]

Held == {"claimed", "in_progress"}
Gone == {"absent", "completed", "cancelled"}
Statuses == {"pending", "blocked", "completing"} \cup Held \cup Gone
Rows == [status : Statuses, holder : Arms \cup {Nobody},
         review : {"none", "pending", "approved", "rejected"}]

Idle == [step |-> "idle"]
Jobs == {Idle}
        \cup [step : {"announced", "validation", "issues"}, message : Reports \cup Silences]
        \cup [step : {"verdict", "request"}, message : Verdicts]
        \cup [step : {"approved"}, reply : Replies]
        \cup [step : {"blocking", "resuming"}, left : SUBSET Tasks]

TypeOK ==
    /\ tasks \in [Tasks -> Rows]
    /\ report \in [Work -> Verifications \cup {NoReport}]
    /\ inbox \subseteq Messages
    /\ asked \subseteq Work
    /\ replies \subseteq Replies
    /\ gate \in {"open", "closed"}
    /\ brain \in Jobs

New(status) == [status |-> status, holder |-> Nobody, review |-> "none"]

Init ==
    /\ tasks = [t \in Tasks |-> New(IF t \in Work THEN "pending" ELSE "absent")]
    /\ report = [w \in Work |-> NoReport] /\ inbox = {} /\ asked = {} /\ replies = {}
    /\ gate = "open" /\ brain = Idle

-----------------------------------------------------------------------------
(* Writes of table tasks *)

Exists(t) == tasks[t].status # "absent"

\* The work a task is about: itself, unless it is a follow-up.
About(t) == IF t \in FollowUps THEN Of[t] ELSE t

Put(t, row) == tasks' = [tasks EXCEPT ![t] = row]

ReleasedKept(row, status) == [row EXCEPT !.status = status]
ReleasedEmpty(row, status) == [row EXCEPT !.status = status, !.holder = ""]

\* PATCH to a status that ends an assignment: no assignee has to be given.
Released(row, status) == [row EXCEPT !.status = status, !.holder = Nobody]

\* completing does not end an assignment by itself: here the PATCH clears it.
Reported(row) == [row EXCEPT !.status = "completing", !.holder = Nobody]

UnderReviewUnmarked(row) == [row EXCEPT !.status = "completing"]
UnderReviewUnlessApproved(row) ==
    IF row.review = "approved" THEN Released(row, "completed")
    ELSE [row EXCEPT !.status = "completing", !.review = "pending"]
AcceptedAtOnce(row) == Released(row, "completed")

\* requestHumanTaskApproval leaves the assignee as it is.
UnderReview(row) == [row EXCEPT !.status = "completing", !.review = "pending"]

Finalized(row) == Released(row, "completed")
Assigned(row, status, arm) == [row EXCEPT !.status = status, !.holder = arm]

-----------------------------------------------------------------------------
(* The arms and the human *)

Tell(message) ==
    /\ message \notin inbox /\ Cardinality(inbox) < MaxInbox
    /\ inbox' = inbox \cup {message}
    /\ UNCHANGED <<tasks, report, asked, replies, gate, brain>>

SendClaim(arm, t) ==
    /\ tasks[t].status = "pending"
    /\ Tell([kind |-> "claim", arm |-> arm, task |-> t])

SendAcknowledge(arm, t) ==
    /\ tasks[t].holder = arm /\ tasks[t].status = "claimed"
    /\ Tell([kind |-> "acknowledge", arm |-> arm, task |-> t])

SendComplete(arm, t) ==
    /\ tasks[t].holder = arm /\ tasks[t].status \in Held
    /\ ValidatorsJudge => t \in Work \cup Verifications
    /\ Tell([kind |-> "complete", arm |-> arm, task |-> t])

\* The verdict names the follow-up the arm works on, or the work itself.
SendVerdict(arm, f, t, approved) ==
    /\ tasks[f].holder = arm /\ tasks[f].status \in Held
    /\ t \in {f, Of[f]}
    /\ Tell([kind |-> "verdict", arm |-> arm, task |-> t, approved |-> approved])

\* A status report is stored that says issues_found, needs_review or
\* completed_with_issues.  It goes by the id of its verification task: a new one.
ReportStatus(w, f) ==
    /\ Of[f] = w /\ ~Exists(f)
    /\ report' = [report EXCEPT ![w] = f]
    /\ UNCHANGED <<tasks, inbox, asked, replies, gate, brain>>

\* A human may answer at any time, the same request twice or an old one, or without
\* having been asked: what counts is the task that the mail names.
Reply(w, approved) ==
    /\ replies' = replies \cup {[task |-> w, approved |-> approved]}
    /\ UNCHANGED <<tasks, report, inbox, asked, gate, brain>>

\* A user, or a sweep of the Brain, returns a task to the queue or gives work
\* up.  That a user cancels a follow-up is left out: it is then the user who
\* decides what becomes of the work.
Move(t, status) ==
    /\ status \in UserMoves /\ Exists(t)
    /\ status = "cancelled" => t \in Work
    /\ Put(t, Released(tasks[t], status))
    /\ UNCHANGED <<report, inbox, asked, replies, gate, brain>>

-----------------------------------------------------------------------------
(* The handlers of the Brain *)

Begin(message, kind) ==
    /\ gate = "open" /\ brain = Idle
    /\ message \in inbox /\ message.kind = kind
    /\ UNCHANGED <<report, replies, gate>>

\* completeTask() is called for a report, and by checkStuckArms() for what the Brain
\* believes an arm to be at, which can be any task it was ever told of.
BeginCompletion(message) ==
    /\ gate = "open" /\ brain = Idle
    /\ \/ message \in inbox /\ message.kind = "complete"
       \/ /\ SeesSilence /\ message \in Silences /\ Exists(message.task)
          /\ ValidatorsJudge => message.task \notin Validations
    /\ UNCHANGED <<report, replies, gate>>

\* The message's status becomes completed, or the report of it is lost; if there is
\* a message.
Close(message) ==
    /\ brain' = Idle
    /\ \/ inbox' = inbox \ {message}
       \/ Redelivers /\ UNCHANGED inbox

Claimable(t) == tasks[t].status = "pending" /\ tasks[t].holder = Nobody

\* enforceTopKClaim: the order of the queue is left open, so that a claim may
\* be refused for its rank whenever TopK other tasks are claimable.
MayClaim(arm, t) == tasks[t].holder = arm \/ Claimable(t)
MayBeRefused(arm, t) ==
    /\ tasks[t].holder # arm
    /\ Claimable(t) => Cardinality({u \in Tasks \ {t} : Claimable(u)}) >= TopK

\* The arm that holds the task claims it again, whatever its status is.
HandleClaim(message) ==
    /\ Begin(message, "claim")
    /\ \/ /\ MayClaim(message.arm, message.task)
          /\ Put(message.task, Assigned(tasks[message.task], "claimed", message.arm))
       \/ /\ MayBeRefused(message.arm, message.task)
          /\ UNCHANGED tasks
    /\ Close(message)
    /\ UNCHANGED asked

\* updateTaskStatus asks for neither the task's status nor its assignee.
HandleAcknowledge(message) ==
    /\ Begin(message, "acknowledge")
    /\ Put(message.task, Assigned(tasks[message.task], "in_progress", message.arm))
    /\ Close(message)
    /\ UNCHANGED asked

FinishFollowUp(message) ==
    /\ BeginCompletion(message) /\ message.task \in FollowUps
    /\ Put(message.task, Finalized(tasks[message.task]))
    /\ Close(message)
    /\ UNCHANGED asked

WithIssues == {w \in Work : report[w] # NoReport}

FreshFor(w, kind) == {f \in kind : Of[f] = w /\ ~Exists(f)}

\* Every report has a validation task of its own, with a new id.
BeginReport(message) ==
    /\ BeginCompletion(message) /\ message.task \in Work \ WithIssues
    /\ FreshFor(message.task, Validations) # {}
    /\ UNCHANGED <<inbox, asked>>

ReportCompletion(message) ==
    /\ BeginReport(message)
    /\ Put(message.task, Reported(tasks[message.task]))
    /\ brain' = [step |-> "validation", message |-> message]

\* First the machine of the arm is told.  If it says working, as it does for an
\* arm that was found busy until its first report, or disconnected, it marks the task
\* completed (ArmLifecycle); the other states it can be in have no such effect.
Announce(message) ==
    /\ BeginReport(message)
    /\ tasks[message.task].holder \in FoundWorking
    /\ Put(message.task, Finalized(tasks[message.task]))
    /\ brain' = [step |-> "announced", message |-> message]

ReportAnnounced ==
    /\ brain.step = "announced"
    /\ Put(brain.message.task, Reported(tasks[brain.message.task]))
    /\ brain' = [brain EXCEPT !.step = "validation"]
    /\ UNCHANGED <<report, inbox, asked, replies, gate>>

CreateValidation ==
    /\ brain.step = "validation"
    /\ \E f \in FreshFor(brain.message.task, Validations) : Put(f, New("pending"))
    /\ Close(brain.message)
    /\ UNCHANGED <<report, asked, replies, gate>>

Verified(w) == w \in WithIssues /\ Exists(report[w])

\* The id of a verification task is made from that of the latest report: if it exists,
\* nothing is done.  A status report completed_with_issues does the same when the Brain
\* reads it, which its silent completions stand for too.
ReportIssues(message) ==
    LET w == message.task IN
    /\ BeginCompletion(message) /\ w \in WithIssues
    /\ \/ /\ Verified(w)
          /\ Close(message)
          /\ UNCHANGED tasks
       \/ /\ ~Verified(w)
          /\ Put(report[w], New("pending"))
          /\ brain' = [step |-> "issues", message |-> message]
          /\ UNCHANGED inbox
    /\ UNCHANGED asked

CompleteWithIssues ==
    /\ brain.step = "issues"
    /\ Put(brain.message.task, Finalized(tasks[brain.message.task]))
    /\ Close(brain.message)
    /\ UNCHANGED <<report, asked, replies, gate>>

\* The follow-up of a verdict that names the work is the one the Brain
\* remembers the arm to work on, if it remembers any.
FollowUpOf(message) ==
    IF message.task \in FollowUps THEN {message.task}
    ELSE {f \in FollowUps : /\ Of[f] = message.task /\ Exists(f)
                            /\ tasks[f].holder \in {message.arm, Nobody}}

HandleVerdict(message) ==
    /\ Begin(message, "verdict")
    /\ \/ \E f \in FollowUpOf(message) : Put(f, Finalized(tasks[f]))
       \/ message.task \in Work /\ UNCHANGED tasks
    /\ brain' = [step |-> "verdict", message |-> message]
    /\ UNCHANGED <<inbox, asked>>

\* A new review makes an earlier request for approval out of date, here.
Judge ==
    LET w == About(brain.message.task) IN
    /\ brain.step = "verdict"
    /\ \/ /\ brain.message.approved
          /\ Put(w, UnderReview(tasks[w]))
          /\ asked' = asked \ {w}
          /\ brain' = [brain EXCEPT !.step = "request"]
          /\ UNCHANGED inbox
       \/ /\ ~brain.message.approved
          /\ Put(w, Released(tasks[w], "pending"))
          /\ Close(brain.message)
          /\ UNCHANGED asked
    /\ UNCHANGED <<report, replies, gate>>

RequestApproval ==
    /\ brain.step = "request"
    /\ asked' = asked \cup {About(brain.message.task)}
    /\ Close(brain.message)
    /\ UNCHANGED <<tasks, report, replies, gate>>

\* A reply that finds no pending review is added to the discussion only.
Answer(reply) ==
    LET w == reply.task IN
    /\ gate = "open" /\ brain = Idle /\ reply \in replies
    /\ \/ /\ tasks[w].review = "pending" /\ reply.approved
          /\ Put(w, [tasks[w] EXCEPT !.review = "approved"])
          /\ brain' = [step |-> "approved", reply |-> reply]
          /\ UNCHANGED replies
       \/ /\ tasks[w].review = "pending" /\ ~reply.approved
          /\ Put(w, [Released(tasks[w], "pending") EXCEPT !.review = "rejected"])
          /\ replies' = replies \ {reply}
          /\ UNCHANGED brain
       \/ /\ tasks[w].review # "pending"
          /\ replies' = replies \ {reply}
          /\ UNCHANGED <<tasks, brain>>
    /\ UNCHANGED <<report, inbox, asked, gate>>

FinalizeApproved ==
    /\ brain.step = "approved"
    /\ Put(brain.reply.task, Finalized(tasks[brain.reply.task]))
    /\ replies' = replies \ {brain.reply}
    /\ brain' = Idle
    /\ UNCHANGED <<report, inbox, asked, gate>>

-----------------------------------------------------------------------------
(* The planning gate, and crashes *)

\* The list is fetched once and worked down by PATCHes.
PlanFailure ==
    /\ PlanFails /\ brain = Idle
    /\ gate' = "closed"
    /\ brain' = [step |-> "blocking",
                 left |-> {t \in Tasks : tasks[t].status \in Held \cup {"pending", "completing"}}]
    /\ UNCHANGED <<tasks, report, inbox, asked, replies>>

PlanMended ==
    /\ gate = "closed" /\ brain = Idle
    /\ brain' = [step |-> "resuming", left |-> {t \in Tasks : tasks[t].status = "blocked"}]
    /\ UNCHANGED <<tasks, report, inbox, asked, replies, gate>>

Target == IF brain.step = "blocking" THEN "blocked" ELSE "pending"

GateTask(t) ==
    /\ brain.step \in {"blocking", "resuming"} /\ t \in brain.left
    /\ Put(t, Released(tasks[t], Target))
    /\ brain' = [brain EXCEPT !.left = @ \ {t}]
    /\ UNCHANGED <<report, inbox, asked, replies, gate>>

GateDone ==
    /\ brain.step \in {"blocking", "resuming"} /\ brain.left = {}
    /\ gate' = IF brain.step = "resuming" THEN "open" ELSE gate
    /\ brain' = Idle
    /\ UNCHANGED <<tasks, report, inbox, asked, replies>>

\* What the Brain is at: a completion that nobody reported goes by a name of its own.
Job ==
    IF brain.step \in {"announced", "validation", "issues"} /\ brain.message \in Silences
      THEN "silent" ELSE brain.step

\* A command or reply that was being handled stays and is handled again; a silent
\* completion is not resumed.
Crash ==
    /\ Job \in CrashDuring
    /\ brain' = Idle
    /\ UNCHANGED <<tasks, report, inbox, asked, replies, gate>>

-----------------------------------------------------------------------------

FromArms ==
    \/ \E w \in Work, f \in Verifications : ReportStatus(w, f)
    \/ \E arm \in Arms, t \in Tasks :
          \/ SendClaim(arm, t)
          \/ SendAcknowledge(arm, t)
          \/ SendComplete(arm, t)
          \/ \E f \in FollowUps, approved \in BOOLEAN : SendVerdict(arm, f, t, approved)

FromUsers ==
    \/ \E w \in Work, approved \in BOOLEAN : Reply(w, approved)
    \/ \E t \in Tasks, status \in UserMoves : Move(t, status)

Handlers ==
    \/ \E message \in inbox :
          \/ HandleClaim(message)
          \/ HandleAcknowledge(message)
          \/ HandleVerdict(message)
    \/ \E message \in inbox \cup Silences :
          \/ FinishFollowUp(message)
          \/ ReportCompletion(message)
          \/ Announce(message)
          \/ ReportIssues(message)
    \/ \E reply \in replies : Answer(reply)
    \/ ReportAnnounced
    \/ CreateValidation
    \/ CompleteWithIssues
    \/ Judge
    \/ RequestApproval
    \/ FinalizeApproved

Gate ==
    \/ PlanFailure
    \/ PlanMended
    \/ \E t \in Tasks : GateTask(t)
    \/ GateDone

Next == FromArms \/ FromUsers \/ Handlers \/ Gate \/ Crash
Spec == Init /\ [][Next]_vars

-----------------------------------------------------------------------------
(* Properties *)

\* A task has an assignee exactly while one can be at work on it: claimed and in
\* progress it has one, and in every status that ends an assignment it has none.
\* What is pending is thus always claimable, which a pending task with a
\* left-over assignee would never be again (enforceTopKClaim).
AssigneeFits ==
    \A t \in Tasks :
        /\ tasks[t].status \in Held => tasks[t].holder # Nobody
        /\ tasks[t].status \notin Held \cup {"completing"} => tasks[t].holder = Nobody

\* "completing: Work was reported complete and is waiting for validation or human
\* approval": something that can still decide about it is under way - a validation
\* task that is not finished, a command about it in the inbox, a request for approval
\* that a human can answer or a reply, or the Brain is at it: it has read the approval,
\* or is about to create the validation task.
UnderValidation(w) == \E f \in Validations : Of[f] = w /\ tasks[f].status \notin Gone
InMail(w) ==
    /\ tasks[w].review = "pending"
    /\ w \in asked \/ \E reply \in replies : reply.task = w
InInbox(w) ==
    \E message \in inbox :
        \/ message.kind = "verdict" /\ About(message.task) = w
        \/ message.kind = "complete" /\ message.task = w
Accepting(w) == brain.step = "approved" /\ brain.reply.task = w
AtHand(w) ==
    \/ Accepting(w)
    \/ brain.step = "validation" /\ brain.message.task = w
CompletingFollowed ==
    \A w \in Work : tasks[w].status = "completing" =>
        UnderValidation(w) \/ InMail(w) \/ InInbox(w) \/ AtHand(w)

\* "Put validated work behind an explicit, auditable human approval gate": work
\* that was completed without issues has an approved review.
ApprovedByHuman(w) == tasks[w].status = "completed" => tasks[w].review = "approved"
AcceptedByHuman == \A w \in Work \ WithIssues : ApprovedByHuman(w)

\* No verdict, redelivered command, silent completion, crash outside one, planning
\* failure or move of a user gets round that gate for good: completed work without an
\* approved review is always work whose completion is still being handled, or handled
\* again.
BeingReported(w) ==
    \/ \E message \in inbox : message.kind = "complete" /\ message.task = w
    \/ brain.step = "announced" /\ brain.message.task = w
HumanGate == \A w \in Work \ WithIssues : ApprovedByHuman(w) \/ BeingReported(w)

\* Nor does it wear off: the flow implements HumanApproval, in which work becomes
\* accepted only by a step that takes a passed validation and an approval of a human,
\* and uses up both; work that is taken up again has to pass both again.  Work counts
\* as validated while its review is open, and as accepted when it is completed, has no
\* issues and no completion of it is being handled.
Approval == INSTANCE HumanApproval WITH
    validated <- {w \in Work : tasks[w].review = "pending" \/ Accepting(w)},
    granted <- {w \in Work : [task |-> w, approved |-> TRUE] \in replies},
    accepted <- {w \in Work \ WithIssues : tasks[w].status = "completed" /\ ~BeingReported(w)}
AcceptsByApproval == Approval!Spec
=============================================================================
