--------------------------- MODULE TaskFlowProofs ---------------------------
(* What holds of TaskFlow for any work, arms and follow-ups. *)
EXTENDS TaskFlow, TLAPS

\* The work that a task is about is work.
LEMMA AboutWork ==
    ASSUME NEW t \in Tasks
    PROVE  About(t) \in Work
BY TaskAssumption DEF About, Tasks, FollowUps

\* A row stays a row when one of its fields is given another value.
LEMMA RowTypes ==
    ASSUME NEW row \in Rows, NEW status \in Statuses, NEW arm \in Arms
    PROVE  /\ Released(row, status) \in Rows
           /\ Reported(row) \in Rows
           /\ UnderReview(row) \in Rows
           /\ Finalized(row) \in Rows
           /\ Assigned(row, status, arm) \in Rows
           /\ New(status) \in Rows
BY DEF Rows, Statuses, Held, Gone, Released, Reported, UnderReview, Finalized,
       Assigned, New

\* The same rows without an arm at hand.
LEMMA UnheldTypes ==
    ASSUME NEW row \in Rows, NEW status \in Statuses
    PROVE  /\ Released(row, status) \in Rows
           /\ Reported(row) \in Rows
           /\ UnderReview(row) \in Rows
           /\ Finalized(row) \in Rows
           /\ New(status) \in Rows
           /\ [row EXCEPT !.review = "approved"] \in Rows
           /\ [Released(row, "pending") EXCEPT !.review = "rejected"] \in Rows
BY DEF Rows, Statuses, Held, Gone, Released, Reported, UnderReview, Finalized, New

\* Writing a row leaves the table well typed.
LEMMA PutTypes ==
    ASSUME tasks \in [Tasks -> Rows], NEW t \in Tasks, NEW row \in Rows, Put(t, row)
    PROVE  tasks' \in [Tasks -> Rows]
BY DEF Put

\* What a job carries follows from its step.
LEMMA JobShapes ==
    ASSUME brain \in Jobs
    PROVE  /\ brain.step \in {"announced", "validation", "issues"} =>
                brain.message \in Reports \cup Silences
           /\ brain.step \in {"verdict", "request"} => brain.message \in Verdicts
           /\ brain.step = "approved" => brain.reply \in Replies
           /\ brain.step \in {"blocking", "resuming"} => brain.left \in SUBSET Tasks
BY DEF Jobs, Idle

LEMMA IdleIsJob == Idle \in Jobs
BY DEF Jobs, Idle

\* After a command is closed the Brain is idle and the inbox has not grown.
LEMMA CloseTypes ==
    ASSUME NEW message, Close(message), inbox \subseteq Messages
    PROVE  inbox' \subseteq inbox /\ inbox' \subseteq Messages /\ brain' \in Jobs
BY IdleIsJob DEF Close

-----------------------------------------------------------------------------
(* Types *)

LEMMA TypeInit == Init => TypeOK
BY UnheldTypes, IdleIsJob DEF Init, TypeOK, New, Rows, Statuses, Held, Gone

LEMMA TypeFromArms ==
    ASSUME TypeOK, FromArms
    PROVE  TypeOK'
<1>1. CASE \E arm \in Arms, t \in Tasks :
              SendClaim(arm, t) \/ SendAcknowledge(arm, t) \/ SendComplete(arm, t)
  BY <1>1 DEF SendClaim, SendAcknowledge, SendComplete, Tell, TypeOK, Messages, Reports
<1>2. CASE \E w \in Work, f \in Verifications : ReportStatus(w, f)
  BY <1>2 DEF ReportStatus, TypeOK
<1>3. CASE \E arm \in Arms, t \in Tasks, f \in FollowUps, approved \in BOOLEAN :
              SendVerdict(arm, f, t, approved)
  BY <1>3 DEF SendVerdict, Tell, TypeOK, Messages, Verdicts
<1> QED BY <1>1, <1>2, <1>3 DEF FromArms

LEMMA TypeFromUsers ==
    ASSUME TypeOK, FromUsers
    PROVE  TypeOK'
<1>1. CASE \E w \in Work, approved \in BOOLEAN : Reply(w, approved)
  BY <1>1 DEF Reply, TypeOK, Replies
<1>2. CASE \E t \in Tasks, status \in UserMoves : Move(t, status)
  <2> PICK t \in Tasks, status \in UserMoves : Move(t, status) BY <1>2
  <2>1. status \in Statuses BY TaskAssumption DEF Statuses, Gone
  <2>2. tasks' \in [Tasks -> Rows]
    BY <2>1, UnheldTypes, PutTypes DEF Move, TypeOK
  <2> QED BY <2>2 DEF Move, TypeOK
<1> QED BY <1>1, <1>2 DEF FromUsers

\* The handlers that close their command in the same step.
LEMMA TypeHandleAtOnce ==
    ASSUME TypeOK, NEW message \in inbox,
           HandleClaim(message) \/ HandleAcknowledge(message)
    PROVE  TypeOK'
<1>1. message.task \in Tasks /\ message.arm \in Arms
  BY DEF TypeOK, Messages, Reports, Verdicts
<1>2. /\ Assigned(tasks[message.task], "claimed", message.arm) \in Rows
      /\ Assigned(tasks[message.task], "in_progress", message.arm) \in Rows
  BY <1>1, RowTypes DEF TypeOK, Statuses, Held
<1>3. tasks' \in [Tasks -> Rows]
  BY <1>1, <1>2, PutTypes DEF HandleClaim, HandleAcknowledge, TypeOK
<1>4. inbox' \subseteq Messages /\ brain' \in Jobs
  BY CloseTypes DEF HandleClaim, HandleAcknowledge, TypeOK
<1> QED BY <1>3, <1>4 DEF HandleClaim, HandleAcknowledge, Begin, TypeOK

\* A completion is about a task, whether it was reported or noticed.
LEMMA CompletionShape ==
    ASSUME TypeOK, NEW message \in inbox \cup Silences, BeginCompletion(message)
    PROVE  /\ message \in Reports \cup Silences /\ message.task \in Tasks
           /\ (message.kind = "complete" /\ message \in inbox) \/ message \in Silences
           /\ UNCHANGED <<report, replies, gate>>
BY DEF BeginCompletion, TypeOK, Messages, Reports, Verdicts, Silences

\* The task that the latest report with issues names.
LEMMA ReportNames ==
    ASSUME TypeOK, NEW w \in WithIssues
    PROVE  w \in Work /\ report[w] \in Verifications /\ report[w] \in Tasks
BY DEF TypeOK, WithIssues, Tasks, FollowUps

LEMMA TypeReport ==
    ASSUME TypeOK, NEW message \in inbox \cup Silences,
           \/ FinishFollowUp(message) \/ ReportCompletion(message)
           \/ Announce(message) \/ ReportIssues(message)
    PROVE  TypeOK'
<1>1. /\ message \in Reports \cup Silences /\ message.task \in Tasks
      /\ UNCHANGED <<report, replies, gate>>
  BY CompletionShape DEF FinishFollowUp, ReportCompletion, Announce, BeginReport, ReportIssues
<1>2. /\ Reported(tasks[message.task]) \in Rows /\ Finalized(tasks[message.task]) \in Rows
      /\ New("pending") \in Rows
  BY <1>1, UnheldTypes DEF TypeOK, Statuses
<1>3. tasks' \in [Tasks -> Rows]
  <2>1. CASE ReportIssues(message)
    BY <1>2, <2>1, ReportNames, PutTypes DEF ReportIssues, TypeOK
  <2>2. CASE FinishFollowUp(message) \/ ReportCompletion(message) \/ Announce(message)
    BY <1>1, <1>2, <2>2, PutTypes DEF FinishFollowUp, ReportCompletion, Announce, TypeOK
  <2> QED BY <2>1, <2>2
<1>4. inbox' \subseteq Messages /\ brain' \in Jobs
  BY <1>1, CloseTypes
     DEF FinishFollowUp, ReportCompletion, Announce, BeginReport, ReportIssues, TypeOK, Jobs
<1> QED BY <1>1, <1>3, <1>4
        DEF FinishFollowUp, ReportCompletion, Announce, BeginReport, ReportIssues, TypeOK

LEMMA TypeHandleVerdict ==
    ASSUME TypeOK, NEW message \in inbox, HandleVerdict(message)
    PROVE  TypeOK'
<1>1. message \in Verdicts
  BY DEF HandleVerdict, Begin, TypeOK, Messages, Reports, Verdicts
<1>2. FollowUpOf(message) \subseteq Tasks
  BY DEF FollowUpOf, Tasks
<1>3. tasks' \in [Tasks -> Rows]
  BY <1>2, UnheldTypes, PutTypes DEF HandleVerdict, TypeOK, Statuses, Gone
<1>4. brain' \in Jobs
  BY <1>1 DEF HandleVerdict, Jobs
<1> QED BY <1>3, <1>4 DEF HandleVerdict, Begin, TypeOK

LEMMA TypeContinue ==
    ASSUME TypeOK, ReportAnnounced \/ CreateValidation \/ CompleteWithIssues
    PROVE  TypeOK'
<1>1. brain.message \in Reports \cup Silences
  BY JobShapes DEF ReportAnnounced, CreateValidation, CompleteWithIssues, TypeOK
<1>2. brain.message.task \in Tasks BY <1>1 DEF Reports, Silences
<1>3. /\ Finalized(tasks[brain.message.task]) \in Rows
      /\ Reported(tasks[brain.message.task]) \in Rows /\ New("pending") \in Rows
  BY <1>2, UnheldTypes DEF TypeOK, Statuses
<1>4. tasks' \in [Tasks -> Rows]
  BY <1>2, <1>3, PutTypes
     DEF ReportAnnounced, CreateValidation, CompleteWithIssues, FreshFor, TypeOK, Tasks,
         FollowUps
<1>5. brain.step = "announced" => [brain EXCEPT !.step = "validation"] \in Jobs
  BY DEF TypeOK, Jobs, Idle
<1>6. inbox' \subseteq Messages /\ brain' \in Jobs
  BY <1>5, CloseTypes DEF ReportAnnounced, CreateValidation, CompleteWithIssues, TypeOK
<1> QED BY <1>4, <1>6 DEF ReportAnnounced, CreateValidation, CompleteWithIssues, TypeOK

LEMMA TypeJudge ==
    ASSUME TypeOK, Judge \/ RequestApproval
    PROVE  TypeOK'
<1> DEFINE w == About(brain.message.task)
<1>1. brain.message \in Verdicts BY JobShapes DEF Judge, RequestApproval, TypeOK
<1>2. w \in Work /\ w \in Tasks BY <1>1, AboutWork DEF Verdicts, Tasks
<1>3. UnderReview(tasks[w]) \in Rows /\ Released(tasks[w], "pending") \in Rows
  BY <1>2, UnheldTypes DEF TypeOK, Statuses
<1>4. tasks' \in [Tasks -> Rows]
  BY <1>2, <1>3, PutTypes DEF Judge, RequestApproval, TypeOK
<1>5. brain.step = "verdict" => [brain EXCEPT !.step = "request"] \in Jobs
  BY DEF TypeOK, Jobs, Idle
<1>6. inbox' \subseteq Messages /\ brain' \in Jobs
  BY <1>5, CloseTypes DEF Judge, RequestApproval, TypeOK
<1> QED BY <1>2, <1>4, <1>6 DEF Judge, RequestApproval, TypeOK

LEMMA TypeMail ==
    ASSUME TypeOK, FinalizeApproved \/ \E reply \in replies : Answer(reply)
    PROVE  TypeOK'
<1>1. CASE FinalizeApproved
  <2>1. brain.reply.task \in Tasks
    BY <1>1, JobShapes DEF FinalizeApproved, TypeOK, Replies, Tasks
  <2>2. tasks' \in [Tasks -> Rows]
    BY <1>1, <2>1, UnheldTypes, PutTypes DEF FinalizeApproved, TypeOK, Statuses, Gone
  <2> QED BY <1>1, <2>2, IdleIsJob DEF FinalizeApproved, TypeOK
<1>2. CASE \E reply \in replies : Answer(reply)
  <2> PICK reply \in replies : Answer(reply) BY <1>2
  <2>1. reply \in Replies /\ reply.task \in Tasks BY DEF TypeOK, Replies, Tasks
  <2>2. tasks' \in [Tasks -> Rows]
    BY <2>1, UnheldTypes, PutTypes DEF Answer, TypeOK, Statuses
  <2>3. brain' \in Jobs BY <2>1 DEF Answer, TypeOK, Jobs
  <2> QED BY <2>2, <2>3 DEF Answer, TypeOK
<1> QED BY <1>1, <1>2

LEMMA TypeGate ==
    ASSUME TypeOK, Gate \/ Crash
    PROVE  TypeOK'
<1>1. CASE PlanFailure \/ PlanMended
  BY <1>1 DEF PlanFailure, PlanMended, TypeOK, Jobs
<1>2. CASE \E t \in Tasks : GateTask(t)
  <2> PICK t \in Tasks : GateTask(t) BY <1>2
  <2>1. Target \in Statuses BY DEF Target, Statuses
  <2>2. tasks' \in [Tasks -> Rows] BY <2>1, UnheldTypes, PutTypes DEF GateTask, TypeOK
  <2>3. brain' \in Jobs BY DEF GateTask, TypeOK, Jobs, Idle
  <2> QED BY <2>2, <2>3 DEF GateTask, TypeOK
<1>3. CASE GateDone \/ Crash
  BY <1>3, IdleIsJob DEF GateDone, Crash, TypeOK
<1> QED BY <1>1, <1>2, <1>3 DEF Gate

LEMMA TypeStep == TypeOK /\ [Next]_vars => TypeOK'
<1> SUFFICES ASSUME TypeOK, [Next]_vars PROVE TypeOK' OBVIOUS
<1>1. CASE Handlers
  BY <1>1, TypeHandleAtOnce, TypeReport, TypeHandleVerdict, TypeContinue, TypeJudge,
     TypeMail DEF Handlers
<1>2. CASE UNCHANGED vars BY <1>2 DEF vars, TypeOK
<1> QED BY <1>1, <1>2, TypeFromArms, TypeFromUsers, TypeGate DEF Next

\* Every reachable state is well typed: rows, commands, replies and jobs.
THEOREM TypeCorrect == Spec => []TypeOK
BY TypeInit, TypeStep, PTL DEF Spec

-----------------------------------------------------------------------------
(* Assignees *)

RowFits(row) ==
    /\ row.status \in Held => row.holder # Nobody
    /\ row.status \notin Held \cup {"completing"} => row.holder = Nobody

AssigneeInv == TypeOK /\ \A t \in Tasks : RowFits(tasks[t])

\* Every value that a handler writes fits, whatever the row was.
LEMMA WrittenFits ==
    ASSUME NEW row \in Rows, NEW arm \in Arms, NEW status \in Statuses \ Held
    PROVE  /\ status # "completing" => RowFits(Released(row, status))
           /\ RowFits(Assigned(row, "claimed", arm))
           /\ RowFits(Assigned(row, "in_progress", arm))
BY TaskAssumption DEF Rows, Statuses, Held, RowFits, Released, Assigned

LEMMA UnheldFits ==
    ASSUME NEW row \in Rows
    PROVE  /\ RowFits(Reported(row))
           /\ RowFits(UnderReview(row))
           /\ RowFits(Finalized(row))
           /\ RowFits(New("pending"))
           /\ \A status \in {"pending", "blocked", "cancelled"} : RowFits(Released(row, status))
           /\ RowFits([Released(row, "pending") EXCEPT !.review = "rejected"])
           /\ RowFits(row) => RowFits([row EXCEPT !.review = "approved"])
BY DEF Rows, Held, RowFits, Reported, UnderReview, Finalized, New, Released

LEMMA PutFits ==
    ASSUME AssigneeInv, NEW t \in Tasks, NEW row, RowFits(row), Put(t, row)
    PROVE  \A u \in Tasks : RowFits(tasks'[u])
BY DEF AssigneeInv, TypeOK, Put

LEMMA FitsHandled ==
    ASSUME AssigneeInv, NEW message \in inbox,
           HandleClaim(message) \/ HandleAcknowledge(message) \/ HandleVerdict(message)
    PROVE  \A u \in Tasks : RowFits(tasks'[u])
<1>1. message.task \in Tasks /\ message.arm \in Arms
  BY DEF AssigneeInv, TypeOK, Messages, Reports, Verdicts
<1>2. tasks[message.task] \in Rows BY <1>1 DEF AssigneeInv, TypeOK
<1>3. CASE HandleClaim(message) \/ HandleAcknowledge(message)
  <2>1. /\ RowFits(Assigned(tasks[message.task], "claimed", message.arm))
        /\ RowFits(Assigned(tasks[message.task], "in_progress", message.arm))
    BY <1>1, <1>2, WrittenFits DEF Statuses, Held
  <2> QED BY <1>1, <1>3, <2>1, PutFits DEF HandleClaim, HandleAcknowledge, AssigneeInv
<1>4. CASE HandleVerdict(message)
  <2>1. FollowUpOf(message) \subseteq Tasks BY DEF FollowUpOf, Tasks
  <2>2. \A f \in Tasks : RowFits(Finalized(tasks[f]))
    BY UnheldFits DEF AssigneeInv, TypeOK
  <2> QED BY <1>4, <2>1, <2>2, PutFits DEF HandleVerdict, AssigneeInv
<1> QED BY <1>3, <1>4

LEMMA FitsCompleted ==
    ASSUME AssigneeInv, NEW message \in inbox \cup Silences,
           \/ FinishFollowUp(message) \/ ReportCompletion(message)
           \/ Announce(message) \/ ReportIssues(message)
    PROVE  \A u \in Tasks : RowFits(tasks'[u])
<1>1. message.task \in Tasks /\ tasks[message.task] \in Rows
  BY CompletionShape
     DEF FinishFollowUp, ReportCompletion, Announce, BeginReport, ReportIssues, AssigneeInv,
         TypeOK
<1>2. CASE FinishFollowUp(message) \/ ReportCompletion(message) \/ Announce(message)
  BY <1>1, <1>2, UnheldFits, PutFits DEF FinishFollowUp, ReportCompletion, Announce
<1>3. CASE ReportIssues(message)
  <2>1. UNCHANGED tasks \/ \E t \in Tasks : Put(t, New("pending"))
    BY <1>3, ReportNames DEF ReportIssues, AssigneeInv
  <2> QED BY <1>1, <2>1, UnheldFits, PutFits DEF AssigneeInv
<1> QED BY <1>2, <1>3

LEMMA FitsContinued ==
    ASSUME AssigneeInv,
           \/ ReportAnnounced \/ CreateValidation \/ CompleteWithIssues
           \/ Judge \/ RequestApproval
    PROVE  \A u \in Tasks : RowFits(tasks'[u])
<1>1. /\ brain.message \in Reports \cup Silences \cup Verdicts
      /\ brain.message.task \in Tasks
  BY JobShapes DEF ReportAnnounced, CreateValidation, CompleteWithIssues, Judge,
     RequestApproval, AssigneeInv, TypeOK, Reports, Silences, Verdicts
<1>2. About(brain.message.task) \in Tasks BY <1>1, AboutWork DEF Tasks
<1>3. /\ tasks[brain.message.task] \in Rows
      /\ tasks[About(brain.message.task)] \in Rows
  BY <1>1, <1>2 DEF AssigneeInv, TypeOK
<1> QED BY <1>1, <1>2, <1>3, UnheldFits, PutFits
        DEF ReportAnnounced, CreateValidation, CompleteWithIssues, Judge, RequestApproval, FreshFor,
            Tasks, FollowUps, AssigneeInv

LEMMA FitsMail ==
    ASSUME AssigneeInv, FinalizeApproved \/ \E reply \in replies : Answer(reply)
    PROVE  \A u \in Tasks : RowFits(tasks'[u])
<1>1. CASE FinalizeApproved
  <2>1. brain.reply.task \in Tasks
    BY <1>1, JobShapes DEF FinalizeApproved, AssigneeInv, TypeOK, Replies, Tasks
  <2> QED BY <1>1, <2>1, UnheldFits, PutFits DEF FinalizeApproved, AssigneeInv, TypeOK
<1>2. CASE \E reply \in replies : Answer(reply)
  <2> PICK reply \in replies : Answer(reply) BY <1>2
  <2>1. reply.task \in Tasks BY DEF AssigneeInv, TypeOK, Replies, Tasks
  <2>2. tasks[reply.task] \in Rows /\ RowFits(tasks[reply.task])
    BY <2>1 DEF AssigneeInv, TypeOK
  <2> QED BY <2>1, <2>2, UnheldFits, PutFits DEF Answer, AssigneeInv
<1> QED BY <1>1, <1>2

LEMMA AssigneeStep == AssigneeInv /\ [Next]_vars => AssigneeInv'
<1> SUFFICES ASSUME AssigneeInv, [Next]_vars PROVE AssigneeInv' OBVIOUS
<1>1. TypeOK' BY TypeStep DEF AssigneeInv
<1>2. CASE FromArms
  BY <1>1, <1>2 DEF FromArms, SendClaim, SendAcknowledge, SendComplete, SendVerdict,
     ReportStatus, Tell, AssigneeInv
<1>3. CASE FromUsers
  <2>1. CASE \E w \in Work, approved \in BOOLEAN : Reply(w, approved)
    BY <1>1, <2>1 DEF Reply, AssigneeInv
  <2>2. CASE \E t \in Tasks, status \in UserMoves : Move(t, status)
    <3> PICK t \in Tasks, status \in UserMoves : Move(t, status) BY <2>2
    <3>1. RowFits(Released(tasks[t], status))
      BY TaskAssumption, UnheldFits DEF AssigneeInv, TypeOK
    <3> QED BY <1>1, <3>1, PutFits DEF Move, AssigneeInv
  <2> QED BY <1>3, <2>1, <2>2 DEF FromUsers
<1>4. CASE Handlers
  BY <1>1, <1>4, FitsHandled, FitsCompleted, FitsContinued, FitsMail DEF Handlers, AssigneeInv
<1>5. CASE Gate \/ Crash
  <2>1. CASE \E t \in Tasks : GateTask(t)
    <3> PICK t \in Tasks : GateTask(t) BY <2>1
    <3>1. RowFits(Released(tasks[t], Target))
      BY UnheldFits DEF Target, AssigneeInv, TypeOK
    <3> QED BY <1>1, <3>1, PutFits DEF GateTask, AssigneeInv
  <2>2. CASE PlanFailure \/ PlanMended \/ GateDone \/ Crash
    BY <1>1, <2>2 DEF PlanFailure, PlanMended, GateDone, Crash, AssigneeInv
  <2> QED BY <1>5, <2>1, <2>2 DEF Gate
<1>6. CASE UNCHANGED vars BY <1>1, <1>6 DEF vars, AssigneeInv
<1> QED BY <1>2, <1>3, <1>4, <1>5, <1>6 DEF Next

\* A task has an assignee exactly while one can be at work on it.
THEOREM AssigneesFit == Spec => []AssigneeFits
<1>1. Init => AssigneeInv
  BY TypeInit DEF Init, AssigneeInv, RowFits, New, Held
<1>2. AssigneeInv => AssigneeFits BY DEF AssigneeInv, AssigneeFits, RowFits
<1> QED BY <1>1, <1>2, AssigneeStep, PTL DEF Spec

-----------------------------------------------------------------------------
(* The human gate *)

Passed(row) == row.status = "completed" => row.review = "approved"

\* What the Brain is about to complete may be completed, and what it was told to be
\* complete passes before its report leaves the inbox.
JobPasses ==
    /\ brain.step = "issues" => brain.message.task \in WithIssues
    /\ brain.step = "approved" => tasks[brain.reply.task].review = "approved"
    /\ brain.step \in {"announced", "validation"} =>
         /\ (brain.message \in inbox /\ brain.message.kind = "complete") \/ brain.message \in Silences
         /\ brain.message.task \in Work
    /\ brain.step = "announced" => FoundWorking # {}
    /\ brain.step = "validation" => Passed(tasks[brain.message.task])

GateInv ==
    /\ TypeOK
    /\ \A w \in Work \ WithIssues : Passed(tasks[w]) \/ BeingReported(w)
    /\ JobPasses

\* No report of work without WithIssues leaves the inbox.
ReportsStay ==
    \A m \in inbox \ inbox' : m.kind = "complete" => m.task \notin Work \ WithIssues

\* No work that passes gets a row that does not.
PassesStay == \A w \in Work \ WithIssues : Passed(tasks[w]) => Passed(tasks'[w])

LEMMA GateKept ==
    ASSUME GateInv, ReportsStay, PassesStay, WithIssues \subseteq WithIssues',
           brain.step # "announced" \/ UNCHANGED brain \/ Passed(tasks'[brain.message.task])
    PROVE  \A w \in Work \ WithIssues' : Passed(tasks'[w]) \/ BeingReported(w)'
BY DEF GateInv, ReportsStay, PassesStay, BeingReported

LEMMA WrittenPasses ==
    ASSUME NEW row \in Rows
    PROVE  /\ Passed(Reported(row))
           /\ Passed(UnderReview(row))
           /\ row.review = "approved" => Passed(Finalized(row))
           /\ Passed(New("pending"))
           /\ \A arm \in Arms, status \in Held : Passed(Assigned(row, status, arm))
           /\ \A status \in {"pending", "blocked", "cancelled"} :
                 /\ Passed(Released(row, status))
                 /\ Released(row, status).review = row.review
           /\ Passed([Released(row, "pending") EXCEPT !.review = "rejected"])
           /\ Passed([row EXCEPT !.review = "approved"])
           /\ [row EXCEPT !.review = "approved"].review = "approved"
BY DEF Rows, Held, Passed, Reported, UnderReview, Finalized, New, Released, Assigned

\* A row that passes may be written; of a follow-up, or of work with issues, any.
LEMMA PutPasses ==
    ASSUME GateInv, NEW t \in Tasks, NEW row, Put(t, row),
           Passed(row) \/ t \in FollowUps \/ t \in WithIssues
    PROVE  PassesStay
BY TaskAssumption DEF GateInv, TypeOK, Put, Tasks, PassesStay

LEMMA PassesHandled ==
    ASSUME GateInv, NEW message \in inbox,
           HandleClaim(message) \/ HandleAcknowledge(message) \/ HandleVerdict(message)
    PROVE  /\ \A w \in Work \ WithIssues' : Passed(tasks'[w]) \/ BeingReported(w)'
           /\ JobPasses'
           /\ PassesStay
<1>1. /\ message.task \in Tasks /\ message.arm \in Arms /\ tasks[message.task] \in Rows
  BY DEF GateInv, TypeOK, Messages, Reports, Verdicts
<1>2. UNCHANGED WithIssues /\ brain.step # "announced"
  BY DEF HandleClaim, HandleAcknowledge, HandleVerdict, Begin, WithIssues, Idle
<1>3. CASE HandleClaim(message) \/ HandleAcknowledge(message)
  <2>1. ReportsStay BY <1>3 DEF HandleClaim, HandleAcknowledge, Begin, Close, ReportsStay
  <2>2. PassesStay
    BY <1>1, <1>3, WrittenPasses, PutPasses
    DEF HandleClaim, HandleAcknowledge, Held, PassesStay
  <2>3. JobPasses' BY <1>3 DEF HandleClaim, HandleAcknowledge, Close, Idle, JobPasses
  <2> QED BY <1>2, <2>1, <2>2, <2>3, GateKept
<1>4. CASE HandleVerdict(message)
  <2>1. FollowUpOf(message) \subseteq FollowUps BY DEF FollowUpOf
  <2>2. PassesStay BY <1>4, <2>1, PutPasses DEF HandleVerdict, Tasks, PassesStay
  <2>3. JobPasses' BY <1>4 DEF HandleVerdict, JobPasses
  <2> QED BY <1>2, <1>4, <2>2, <2>3, GateKept DEF HandleVerdict, ReportsStay
<1> QED BY <1>3, <1>4

LEMMA PassesCompleted ==
    ASSUME GateInv, NEW message \in inbox \cup Silences,
           \/ FinishFollowUp(message) \/ ReportCompletion(message)
           \/ Announce(message) \/ ReportIssues(message)
    PROVE  /\ \A w \in Work \ WithIssues' : Passed(tasks'[w]) \/ BeingReported(w)'
           /\ JobPasses'
           /\ Announce(message) \/ PassesStay
<1>1. /\ message.task \in Tasks /\ tasks[message.task] \in Rows
      /\ (message \in inbox /\ message.kind = "complete") \/ message \in Silences
      /\ UNCHANGED report
  BY CompletionShape
     DEF FinishFollowUp, ReportCompletion, Announce, BeginReport, ReportIssues, GateInv, TypeOK
<1>2. UNCHANGED WithIssues /\ brain.step # "announced"
  BY <1>1 DEF FinishFollowUp, ReportCompletion, Announce, BeginReport, ReportIssues,
     BeginCompletion, WithIssues, Idle
<1>3. CASE FinishFollowUp(message)
  <2>1. ReportsStay BY <1>3, TaskAssumption DEF FinishFollowUp, Close, ReportsStay
  <2>2. PassesStay BY <1>1, <1>3, PutPasses DEF FinishFollowUp
  <2>3. JobPasses' BY <1>3 DEF FinishFollowUp, Close, Idle, JobPasses
  <2> QED BY <1>2, <2>1, <2>2, <2>3, GateKept
<1>4. CASE ReportCompletion(message)
  <2>1. /\ UNCHANGED inbox /\ message.task \in Work
        /\ brain' = [step |-> "validation", message |-> message]
    BY <1>4 DEF ReportCompletion, BeginReport
  <2>2. tasks'[message.task] = Reported(tasks[message.task])
    BY <1>1, <1>4 DEF ReportCompletion, Put, GateInv, TypeOK
  <2>3. PassesStay BY <1>1, <1>4, WrittenPasses, PutPasses DEF ReportCompletion
  <2>4. JobPasses' BY <1>1, <2>1, <2>2, WrittenPasses DEF JobPasses
  <2> QED BY <1>2, <2>1, <2>3, <2>4, GateKept DEF ReportsStay
<1>5. CASE Announce(message)
  <2>1. /\ UNCHANGED inbox /\ message.task \in Work /\ FoundWorking # {}
        /\ brain' = [step |-> "announced", message |-> message]
    BY <1>5 DEF Announce, BeginReport
  <2>2. \A u \in Tasks \ {message.task} : tasks'[u] = tasks[u]
    BY <1>5 DEF Announce, Put, GateInv, TypeOK
  <2>3. BeingReported(message.task)' BY <2>1 DEF BeingReported
  <2>4. \A w \in Work \ WithIssues' : Passed(tasks'[w]) \/ BeingReported(w)'
    BY <1>2, <2>1, <2>2, <2>3 DEF GateInv, BeingReported, Tasks
  <2> QED BY <1>1, <1>5, <2>1, <2>4 DEF JobPasses
<1>6. CASE ReportIssues(message)
  <2>1. ReportsStay BY <1>6 DEF ReportIssues, Close, ReportsStay
  <2>2. PassesStay
    <3>1. report[message.task] \in FollowUps /\ report[message.task] \in Tasks
      BY <1>6, ReportNames DEF ReportIssues, GateInv, FollowUps
    <3> QED BY <1>6, <3>1, PutPasses DEF ReportIssues, PassesStay
  <2>3. JobPasses' BY <1>2, <1>6 DEF ReportIssues, Close, Idle, JobPasses
  <2> QED BY <1>2, <2>1, <2>2, <2>3, GateKept
<1> QED BY <1>3, <1>4, <1>5, <1>6

LEMMA PassesContinued ==
    ASSUME GateInv,
           \/ ReportAnnounced \/ CreateValidation \/ CompleteWithIssues
           \/ Judge \/ RequestApproval
    PROVE  /\ \A w \in Work \ WithIssues' : Passed(tasks'[w]) \/ BeingReported(w)'
           /\ JobPasses'
           /\ PassesStay
<1>1. /\ brain.message \in Reports \cup Silences \cup Verdicts
      /\ brain.message.task \in Tasks
  BY JobShapes DEF ReportAnnounced, CreateValidation, CompleteWithIssues, Judge,
     RequestApproval, GateInv, TypeOK, Reports, Silences, Verdicts
<1>2. About(brain.message.task) \in Tasks BY <1>1, AboutWork DEF Tasks
<1>3. /\ tasks[About(brain.message.task)] \in Rows /\ tasks[brain.message.task] \in Rows
  BY <1>1, <1>2 DEF GateInv, TypeOK
<1>4. UNCHANGED WithIssues
  BY DEF ReportAnnounced, CreateValidation, CompleteWithIssues, Judge, RequestApproval,
     WithIssues
<1>5. CASE ReportAnnounced
  <2>1. /\ brain'.step = "validation" /\ brain'.message = brain.message /\ UNCHANGED inbox
    BY <1>5 DEF ReportAnnounced, GateInv, TypeOK, Jobs, Idle
  <2>2. tasks'[brain.message.task] = Reported(tasks[brain.message.task])
    BY <1>1, <1>5 DEF ReportAnnounced, Put, GateInv, TypeOK
  <2>3. PassesStay BY <1>1, <1>3, <1>5, WrittenPasses, PutPasses DEF ReportAnnounced
  <2>4. JobPasses'
    BY <1>3, <1>5, <2>1, <2>2, WrittenPasses DEF ReportAnnounced, GateInv, JobPasses
  <2> QED BY <1>3, <1>4, <2>1, <2>2, <2>3, <2>4, WrittenPasses, GateKept DEF ReportsStay
<1>6. CASE CreateValidation
  <2> PICK f \in FreshFor(brain.message.task, Validations) : Put(f, New("pending"))
    BY <1>6 DEF CreateValidation
  <2>1. f \in FollowUps /\ f \in Tasks /\ f \notin Work
    BY TaskAssumption DEF FreshFor, Tasks, FollowUps
  <2>2. \A w \in Work : tasks'[w] = tasks[w]
    BY <2>1 DEF Put, GateInv, TypeOK, Tasks
  <2>3. Passed(tasks[brain.message.task]) BY <1>6 DEF CreateValidation, GateInv, JobPasses
  <2>4. inbox \ {brain.message} \subseteq inbox' BY <1>6 DEF CreateValidation, Close
  <2>5. \A w \in Work \ WithIssues : Passed(tasks'[w]) \/ BeingReported(w)'
    BY <1>6, <2>2, <2>3, <2>4 DEF CreateValidation, GateInv, BeingReported
  <2>6. JobPasses' BY <1>6 DEF CreateValidation, Close, Idle, JobPasses
  <2>7. PassesStay BY <2>2 DEF PassesStay
  <2> QED BY <1>4, <2>5, <2>6, <2>7
<1>7. CASE CompleteWithIssues
  <2>1. brain.message.task \in WithIssues BY <1>7 DEF CompleteWithIssues, GateInv, JobPasses
  <2>2. ReportsStay BY <1>7, <2>1 DEF CompleteWithIssues, Close, ReportsStay
  <2>3. PassesStay BY <1>1, <1>7, <2>1, PutPasses DEF CompleteWithIssues
  <2>4. JobPasses' BY <1>7 DEF CompleteWithIssues, Close, Idle, JobPasses
  <2> QED BY <1>4, <1>7, <2>2, <2>3, <2>4, GateKept DEF CompleteWithIssues
<1>8. CASE Judge \/ RequestApproval
  <2>1. brain.message.kind = "verdict"
    BY <1>8, JobShapes DEF Judge, RequestApproval, GateInv, TypeOK, Verdicts
  <2>2. ReportsStay BY <1>8, <2>1 DEF Judge, RequestApproval, Close, ReportsStay
  <2>3. PassesStay
    BY <1>2, <1>3, <1>8, WrittenPasses, PutPasses DEF Judge, RequestApproval, PassesStay
  <2>4. brain'.step \in {"idle", "request"}
    BY <1>8 DEF Judge, RequestApproval, Close, Idle, GateInv, TypeOK, Jobs
  <2>5. JobPasses' BY <2>4 DEF JobPasses
  <2> QED BY <1>4, <1>8, <2>2, <2>3, <2>5, GateKept DEF Judge, RequestApproval
<1> QED BY <1>5, <1>6, <1>7, <1>8

LEMMA PassesMail ==
    ASSUME GateInv, FinalizeApproved \/ \E reply \in replies : Answer(reply)
    PROVE  /\ \A w \in Work \ WithIssues' : Passed(tasks'[w]) \/ BeingReported(w)'
           /\ JobPasses'
           /\ PassesStay
<1>1. UNCHANGED WithIssues /\ UNCHANGED inbox /\ brain.step # "announced"
  <2>1. UNCHANGED <<report, inbox>> BY DEF FinalizeApproved, Answer
  <2>2. brain.step = "approved" \/ brain = Idle BY DEF FinalizeApproved, Answer
  <2>3. brain.step # "announced" BY <2>2 DEF Idle
  <2> QED BY <2>1, <2>3 DEF WithIssues
<1>2. CASE FinalizeApproved
  <2>1. brain.reply.task \in Tasks
    BY <1>2, JobShapes DEF FinalizeApproved, GateInv, TypeOK, Replies, Tasks
  <2>2. Passed(Finalized(tasks[brain.reply.task]))
    BY <1>2, <2>1, WrittenPasses DEF FinalizeApproved, GateInv, TypeOK, JobPasses
  <2>3. PassesStay BY <1>2, <2>1, <2>2, PutPasses DEF FinalizeApproved
  <2>4. JobPasses' BY <1>2 DEF FinalizeApproved, JobPasses, Idle
  <2> QED BY <1>1, <2>3, <2>4, GateKept DEF ReportsStay
<1>3. CASE \E reply \in replies : Answer(reply)
  <2> PICK reply \in replies : Answer(reply) BY <1>3
  <2>1. reply.task \in Tasks BY DEF GateInv, TypeOK, Replies, Tasks
  <2>2. tasks[reply.task] \in Rows /\ tasks \in [Tasks -> Rows]
    BY <2>1 DEF GateInv, TypeOK
  <2>3. PassesStay BY <2>1, <2>2, WrittenPasses, PutPasses DEF Answer, PassesStay
  <2>4. JobPasses'
    <3>1. CASE brain' = Idle BY <3>1 DEF JobPasses, Idle
    <3>2. CASE /\ Put(reply.task, [tasks[reply.task] EXCEPT !.review = "approved"])
               /\ brain' = [step |-> "approved", reply |-> reply]
      <4>1. tasks'[reply.task] = [tasks[reply.task] EXCEPT !.review = "approved"]
        BY <2>1, <2>2, <3>2 DEF Put
      <4>2. tasks'[reply.task].review = "approved" BY <2>2, <4>1, WrittenPasses
      <4>3. brain'.step = "approved" /\ brain'.reply = reply BY <3>2
      <4> QED BY <4>2, <4>3 DEF JobPasses
    <3> QED BY <3>1, <3>2 DEF Answer
  <2> QED BY <1>1, <2>3, <2>4, GateKept DEF ReportsStay
<1> QED BY <1>2, <1>3

\* Reports of issues are never withdrawn.
LEMMA ArmsOnlyReport ==
    ASSUME TypeOK, FromArms
    PROVE  /\ UNCHANGED <<tasks, asked, replies, brain>>
           /\ inbox \subseteq inbox' /\ WithIssues \subseteq WithIssues'
           /\ UNCHANGED inbox \/ UNCHANGED report
<1>1. CASE \E w \in Work, f \in Verifications : ReportStatus(w, f)
  BY <1>1, TaskAssumption DEF ReportStatus, TypeOK, WithIssues
<1>2. CASE UNCHANGED report
  BY <1>2 DEF FromArms, SendClaim, SendAcknowledge, SendComplete, SendVerdict, ReportStatus,
     Tell, WithIssues
<1> QED BY <1>1, <1>2
        DEF FromArms, SendClaim, SendAcknowledge, SendComplete, SendVerdict, Tell

\* Where an announcement is all that may complete work before its approval.
Announced == \E message \in inbox \cup Silences : Announce(message)

\* A completion that no command would resume is not cut off after its announcement.
Unbroken == "silent" \notin CrashDuring \/ FoundWorking = {}

LEMMA GateStep ==
    ASSUME GateInv, [Next]_vars, Unbroken
    PROVE  GateInv' /\ WithIssues \subseteq WithIssues' /\ (Announced \/ PassesStay)
<1>1. TypeOK' BY TypeStep DEF GateInv
<1>2. CASE FromArms
  <2>1. UNCHANGED <<tasks, brain>> /\ inbox \subseteq inbox' /\ WithIssues \subseteq WithIssues'
    BY <1>2, ArmsOnlyReport DEF GateInv
  <2>2. ReportsStay /\ PassesStay BY <2>1 DEF ReportsStay, PassesStay
  <2>3. JobPasses' BY <2>1 DEF GateInv, JobPasses
  <2> QED BY <1>1, <2>1, <2>2, <2>3, GateKept DEF GateInv
<1>3. CASE FromUsers
  <2>1. CASE \E w \in Work, approved \in BOOLEAN : Reply(w, approved)
    BY <1>1, <2>1 DEF Reply, GateInv, JobPasses, BeingReported, PassesStay, WithIssues
  <2>2. CASE \E t \in Tasks, status \in UserMoves : Move(t, status)
    <3> PICK t \in Tasks, status \in UserMoves : Move(t, status) BY <2>2
    <3>1. /\ Passed(Released(tasks[t], status))
          /\ Released(tasks[t], status).review = tasks[t].review
      BY TaskAssumption, WrittenPasses DEF GateInv, TypeOK
    <3>2. \A u \in Tasks : /\ tasks'[u].review = tasks[u].review
                           /\ Passed(tasks[u]) => Passed(tasks'[u])
      BY <3>1 DEF Move, Put, GateInv, TypeOK
    <3>3. brain.step = "approved" => brain.reply.task \in Tasks
      BY JobShapes DEF GateInv, TypeOK, Replies, Tasks
    <3>4. UNCHANGED <<report, inbox, brain>> BY DEF Move
    <3>5. UNCHANGED WithIssues /\ UNCHANGED inbox /\ UNCHANGED brain BY <3>4 DEF WithIssues
    <3>6. JobPasses' BY <3>2, <3>3, <3>5 DEF GateInv, JobPasses, Tasks
    <3>7. PassesStay BY <3>2 DEF PassesStay, Tasks
    <3>8. ReportsStay BY <3>4 DEF ReportsStay
    <3> QED BY <1>1, <3>4, <3>5, <3>6, <3>7, <3>8, GateKept DEF GateInv
  <2> QED BY <1>3, <2>1, <2>2 DEF FromUsers
<1>4. CASE Handlers
  <2>1. UNCHANGED WithIssues
    BY <1>4 DEF Handlers, HandleClaim, HandleAcknowledge, FinishFollowUp, ReportCompletion,
       Announce, BeginReport, ReportIssues, HandleVerdict, Begin, Answer, ReportAnnounced,
       CreateValidation, CompleteWithIssues, Judge, RequestApproval, FinalizeApproved,
       BeginCompletion, WithIssues
  <2> QED BY <1>1, <1>4, <2>1, PassesHandled, PassesCompleted, PassesContinued, PassesMail
          DEF Handlers, GateInv, Announced
<1>5. CASE Gate \/ Crash
  <2>1. CASE \E t \in Tasks : GateTask(t)
    <3> PICK t \in Tasks : GateTask(t) BY <2>1
    <3>1. Passed(Released(tasks[t], Target))
      BY WrittenPasses DEF Target, GateInv, TypeOK
    <3>2. brain'.step \in {"blocking", "resuming"}
      BY DEF GateTask, GateInv, TypeOK, Jobs, Idle
    <3>3. PassesStay BY <3>1, PutPasses DEF GateTask
    <3>4. UNCHANGED WithIssues /\ brain.step # "announced" BY DEF GateTask, WithIssues
    <3>5. JobPasses' BY <3>2 DEF JobPasses
    <3> QED BY <1>1, <3>3, <3>4, <3>5, GateKept DEF GateTask, GateInv, ReportsStay
  <2>2. CASE PlanFailure \/ PlanMended \/ GateDone
    <3>1. UNCHANGED <<tasks, inbox, WithIssues>> /\ brain.step # "announced"
      BY <2>2 DEF PlanFailure, PlanMended, GateDone, WithIssues, Idle
    <3>2. JobPasses'
      BY <2>2 DEF PlanFailure, PlanMended, GateDone, Idle, JobPasses
    <3> QED BY <1>1, <3>1, <3>2, GateKept DEF GateInv, ReportsStay, PassesStay
  <2>3. CASE Crash
    <3>1. UNCHANGED <<tasks, inbox, WithIssues>> /\ brain' = Idle
      BY <2>3 DEF Crash, WithIssues
    <3>2. brain.step = "announced" =>
             brain.message \in inbox /\ brain.message.kind = "complete"
      BY <2>3 DEF Crash, Job, Unbroken, GateInv, JobPasses
    <3>3. \A w \in Work : BeingReported(w) => BeingReported(w)'
      BY <3>1, <3>2 DEF BeingReported
    <3>4. JobPasses' BY <3>1 DEF JobPasses, Idle
    <3> QED BY <1>1, <3>1, <3>3, <3>4 DEF GateInv, PassesStay
  <2> QED BY <1>5, <2>1, <2>2, <2>3 DEF Gate
<1>6. CASE UNCHANGED vars
  BY <1>1, <1>6 DEF vars, GateInv, JobPasses, BeingReported, PassesStay, WithIssues
<1> QED BY <1>2, <1>3, <1>4, <1>5, <1>6 DEF Next

\* Completed work without an approved review is always work whose completion is still
\* being handled, for any redelivery, planning failure and user, and for any crash but
\* one: between the announcement of a completion that no command asked for, to the
\* machine of an arm that was found busy, and the PATCH that takes it back.
THEOREM HumansDecide ==
    ASSUME Unbroken
    PROVE  Spec => []HumanGate
<1>1. Init => GateInv
  BY TypeInit, TaskAssumption DEF Init, GateInv, Passed, JobPasses, New, Idle, Tasks
<1>2. GateInv => HumanGate BY DEF GateInv, HumanGate, ApprovedByHuman, Passed
<1>3. GateInv /\ [Next]_vars => GateInv' BY GateStep
<1> QED BY <1>1, <1>2, <1>3, PTL DEF Spec

\* What a completion announced to the machine of an arm that was found busy does is
\* all that ever completes work ahead of its approval: where the Brain finds no arm
\* busy, the gate of brain.ts holds at every moment.
THEOREM AcceptedOnlyByHuman ==
    ASSUME FoundWorking = {}
    PROVE  Spec => []AcceptedByHuman
<1> DEFINE Inv == GateInv /\ AcceptedByHuman
<1>1. Init => Inv
  BY TypeInit, TaskAssumption
  DEF Init, GateInv, Passed, JobPasses, New, Idle, Tasks, AcceptedByHuman, ApprovedByHuman
<1>2. Inv /\ [Next]_vars => Inv'
  <2> SUFFICES ASSUME Inv, [Next]_vars PROVE Inv' OBVIOUS
  <2>1. GateInv' /\ WithIssues \subseteq WithIssues' /\ (Announced \/ PassesStay)
    BY GateStep DEF Unbroken
  <2>2. ~Announced BY DEF Announced, Announce
  <2>3. AcceptedByHuman'
    BY <2>1, <2>2 DEF PassesStay, Passed, AcceptedByHuman, ApprovedByHuman
  <2> QED BY <2>1, <2>3
<1> QED BY <1>1, <1>2, PTL DEF Spec

-----------------------------------------------------------------------------
(* Every acceptance uses up a passed validation and an approval *)

\* What the Brain has just read when it goes on: the approval is unread still, and work
\* whose validation it creates is not completed.
JobUses ==
    /\ brain.step = "approved" => brain.reply \in replies /\ brain.reply.approved
    /\ brain.step = "validation" => tasks[brain.message.task].status # "completed"

UseInv == GateInv /\ JobUses

\* A job that begins, or goes on, has what it needs.
LEMMA UseHandled ==
    ASSUME UseInv, Handlers
    PROVE  JobUses'
<1>1. CASE \E message \in inbox :
               HandleClaim(message) \/ HandleAcknowledge(message) \/ HandleVerdict(message)
  BY <1>1 DEF HandleClaim, HandleAcknowledge, HandleVerdict, Close, Idle, JobUses
<1>2. CASE \E message \in inbox \cup Silences : ReportCompletion(message)
  <2> PICK message \in inbox \cup Silences : ReportCompletion(message) BY <1>2
  <2>1. message.task \in Tasks BY DEF ReportCompletion, BeginReport, Tasks
  <2>2. tasks'[message.task].status # "completed"
    BY <2>1 DEF ReportCompletion, Put, Reported, UseInv, GateInv, TypeOK, Rows
  <2> QED BY <2>2 DEF ReportCompletion, JobUses
<1>3. CASE \E message \in inbox \cup Silences :
               FinishFollowUp(message) \/ Announce(message) \/ ReportIssues(message)
  BY <1>3 DEF FinishFollowUp, Announce, ReportIssues, Close, Idle, JobUses
<1>4. CASE \E reply \in replies : Answer(reply)
  <2> PICK reply \in replies : Answer(reply) BY <1>4
  <2> QED BY DEF Answer, JobUses, Idle
<1>5. CASE ReportAnnounced
  <2>1. brain.message.task \in Tasks
    BY <1>5 DEF ReportAnnounced, UseInv, GateInv, JobPasses, Tasks
  <2>2. tasks'[brain.message.task].status # "completed"
    BY <1>5, <2>1 DEF ReportAnnounced, Put, Reported, UseInv, GateInv, TypeOK, Rows
  <2>3. brain'.step = "validation" /\ brain'.message = brain.message
    BY <1>5 DEF ReportAnnounced, UseInv, GateInv, TypeOK, Jobs, Idle
  <2> QED BY <2>2, <2>3 DEF JobUses
<1>6. CASE CreateValidation \/ CompleteWithIssues \/ RequestApproval \/ FinalizeApproved
  BY <1>6 DEF CreateValidation, CompleteWithIssues, RequestApproval, FinalizeApproved,
     Close, Idle, JobUses
<1>7. CASE Judge
  <2>1. brain'.step \in {"idle", "request"}
    BY <1>7 DEF Judge, Close, Idle, UseInv, GateInv, TypeOK, Jobs
  <2> QED BY <2>1 DEF JobUses
<1> QED BY <1>1, <1>2, <1>3, <1>4, <1>5, <1>6, <1>7 DEF Handlers

LEMMA UseStep == UseInv /\ [Next]_vars /\ Unbroken => UseInv'
<1> SUFFICES ASSUME UseInv, [Next]_vars, Unbroken PROVE UseInv' OBVIOUS
<1>1. GateInv' BY GateStep DEF UseInv
<1>2. CASE FromArms
  <2>1. UNCHANGED <<tasks, brain, replies>>
    BY <1>2, ArmsOnlyReport DEF UseInv, GateInv
  <2> QED BY <1>1, <2>1 DEF UseInv, JobUses
<1>3. CASE \E w \in Work, approved \in BOOLEAN : Reply(w, approved)
  BY <1>1, <1>3 DEF Reply, UseInv, JobUses
<1>4. CASE \E t \in Tasks, status \in UserMoves : Move(t, status)
  <2> PICK t \in Tasks, status \in UserMoves : Move(t, status) BY <1>4
  <2>1. \A u \in Tasks : tasks'[u].status = "completed" => tasks[u].status = "completed"
    BY TaskAssumption DEF Move, Put, Released, UseInv, GateInv, TypeOK, Rows
  <2>2. brain.step = "validation" => brain.message.task \in Tasks
    BY DEF UseInv, GateInv, JobPasses, Tasks
  <2> QED BY <1>1, <2>1, <2>2 DEF Move, UseInv, JobUses
<1>5. CASE Handlers BY <1>1, <1>5, UseHandled DEF UseInv
<1>6. CASE \E t \in Tasks : GateTask(t)
  <2>1. brain'.step \in {"blocking", "resuming"}
    BY <1>6 DEF GateTask, UseInv, GateInv, TypeOK, Jobs, Idle
  <2> QED BY <1>1, <2>1 DEF UseInv, JobUses
<1>7. CASE PlanFailure \/ PlanMended \/ GateDone \/ Crash
  BY <1>1, <1>7 DEF PlanFailure, PlanMended, GateDone, Crash, Idle, UseInv, JobUses
<1>8. CASE UNCHANGED vars BY <1>1, <1>8 DEF vars, UseInv, JobUses
<1> QED BY <1>2, <1>3, <1>4, <1>5, <1>6, <1>7, <1>8 DEF Next, FromUsers, Gate

\* The work has passed a validation that no human has decided about for good.
Vetted(w) == tasks[w].review = "pending" \/ Accepting(w)

\* The work counts as accepted.
Settled(w) == w \notin WithIssues /\ tasks[w].status = "completed" /\ ~BeingReported(w)

\* Validations and approvals stay, and no work counts as accepted that did not; only t
\* may have ceased to.
Quiet(t) ==
    /\ UNCHANGED replies
    /\ \A u \in Work : Vetted(u)' <=> Vetted(u)
    /\ \A u \in Work : Settled(u)' => Settled(u)
    /\ \A u \in Work \ {t} : Settled(u) => Settled(u)'

LEMMA QuietSteps ==
    ASSUME NEW t, Quiet(t)
    PROVE  [Approval!Next]_Approval!vars
<1>1. {w \in Work : tasks'[w].review = "pending" \/ Accepting(w)'}
      = {w \in Work : tasks[w].review = "pending" \/ Accepting(w)}
  BY DEF Quiet, Vetted
<1>2. CASE t \in Work
  <2>1. CASE Settled(t) /\ ~Settled(t)'
    BY <1>1, <1>2, <2>1 DEF Quiet, Settled, Approval!Next, Approval!Withdraw
  <2>2. CASE ~(Settled(t) /\ ~Settled(t)')
    BY <1>1, <2>2 DEF Quiet, Settled, Approval!vars
  <2> QED BY <2>1, <2>2
<1>3. CASE t \notin Work
  BY <1>1, <1>3 DEF Quiet, Settled, Approval!vars
<1> QED BY <1>2, <1>3

\* The Brain neither was nor is about to accept work.
Elsewhere == brain.step # "approved" /\ brain'.step # "approved"

\* A row is written that keeps the review and does not say completed, or that of a
\* follow-up or of work with issues, while reports of completion stay.
LEMMA QuietWrites ==
    ASSUME TypeOK, NEW t \in Tasks, NEW row, Put(t, row),
           row.status # "completed" \/ t \in FollowUps \/ t \in WithIssues,
           row.review = tasks[t].review \/ t \in FollowUps,
           UNCHANGED WithIssues, UNCHANGED replies, Elsewhere \/ UNCHANGED brain,
           \A w \in Work \ WithIssues : w # t => (BeingReported(w)' <=> BeingReported(w))
    PROVE  Quiet(t)
<1>1. \A u \in Tasks : tasks'[u] = IF u = t THEN row ELSE tasks[u]
  BY DEF Put, TypeOK
<1>2. \A u \in Work : Accepting(u)' <=> Accepting(u) BY DEF Elsewhere, Accepting
<1>3. \A u \in Work : tasks'[u].review = tasks[u].review
  BY <1>1, TaskAssumption DEF Tasks
<1>4. \A u \in Work : Vetted(u)' <=> Vetted(u) BY <1>2, <1>3 DEF Vetted
<1>5. \A u \in Work \ {t} : Settled(u)' <=> Settled(u) BY <1>1 DEF Settled, Tasks
<1>6. t \in Work => ~Settled(t)' BY <1>1, TaskAssumption DEF Settled
<1> QED BY <1>4, <1>5, <1>6 DEF Quiet

\* Nothing is written, and no completion ceases to be reported.
LEMMA QuietIdles ==
    ASSUME UNCHANGED tasks, UNCHANGED WithIssues, UNCHANGED replies,
           Elsewhere \/ UNCHANGED brain,
           \A w \in Work \ WithIssues : BeingReported(w)' <=> BeingReported(w)
    PROVE  \E t : Quiet(t)
<1>1. \A u \in Work : Accepting(u)' <=> Accepting(u) BY DEF Elsewhere, Accepting
<1>2. Quiet(Nobody) BY <1>1 DEF Quiet, Vetted, Settled
<1> QED BY <1>2

\* A command that does not report completion may be closed.
LEMMA OtherCloses ==
    ASSUME NEW message \in inbox, message.kind # "complete", Close(message),
           brain.step # "announced"
    PROVE  \A w \in Work : BeingReported(w)' <=> BeingReported(w)
BY DEF Close, Idle, BeingReported

\* The commands whose handling is begun, other than reports of completion.
LEMMA QuietHandled ==
    ASSUME UseInv, NEW message \in inbox,
           HandleClaim(message) \/ HandleAcknowledge(message) \/ HandleVerdict(message)
    PROVE  \E t : Quiet(t)
<1> DEFINE t == message.task
<1>1. /\ TypeOK /\ t \in Tasks /\ message.arm \in Arms /\ tasks[t] \in Rows
  BY DEF UseInv, GateInv, TypeOK, Messages, Reports, Verdicts
<1>2. UNCHANGED <<report, replies>> /\ brain = Idle
  BY DEF HandleClaim, HandleAcknowledge, HandleVerdict, Begin
<1>3. UNCHANGED WithIssues /\ UNCHANGED replies BY <1>2 DEF WithIssues
<1>4. Elsewhere /\ brain.step # "announced"
  BY <1>2 DEF HandleClaim, HandleAcknowledge, HandleVerdict, Close, Idle, Elsewhere
<1>5. CASE HandleClaim(message) \/ HandleAcknowledge(message)
  <2>1. \A w \in Work : BeingReported(w)' <=> BeingReported(w)
    BY <1>4, <1>5, OtherCloses DEF HandleClaim, HandleAcknowledge, Begin
  <2>2. \A status \in Held :
            /\ Assigned(tasks[t], status, message.arm).status # "completed"
            /\ Assigned(tasks[t], status, message.arm).review = tasks[t].review
    BY <1>1 DEF Assigned, Held, Rows
  <2>3. CASE UNCHANGED tasks BY <1>3, <1>4, <2>1, <2>3, QuietIdles
  <2> QED BY <1>1, <1>3, <1>4, <1>5, <2>1, <2>2, <2>3, QuietWrites
          DEF HandleClaim, HandleAcknowledge, Held
<1>6. CASE HandleVerdict(message)
  <2>1. FollowUpOf(message) \subseteq FollowUps BY DEF FollowUpOf
  <2>2. \A w \in Work : BeingReported(w)' <=> BeingReported(w)
    BY <1>4, <1>6 DEF HandleVerdict, BeingReported
  <2>3. CASE UNCHANGED tasks BY <1>3, <1>4, <2>2, <2>3, QuietIdles
  <2> QED BY <1>1, <1>3, <1>4, <1>6, <2>1, <2>2, <2>3, QuietWrites DEF HandleVerdict, Tasks
<1> QED BY <1>5, <1>6

\* The completions that begin, reported or noticed.
LEMMA QuietCompleted ==
    ASSUME UseInv, NEW message \in inbox \cup Silences,
           \/ FinishFollowUp(message) \/ ReportCompletion(message)
           \/ Announce(message) \/ ReportIssues(message)
    PROVE  \E t : Quiet(t)
<1> DEFINE t == message.task
<1>1. /\ TypeOK /\ t \in Tasks /\ tasks[t] \in Rows /\ brain = Idle
      /\ UNCHANGED <<report, replies>>
  BY CompletionShape
     DEF FinishFollowUp, ReportCompletion, Announce, BeginReport, ReportIssues,
         BeginCompletion, UseInv, GateInv, TypeOK
<1>2. UNCHANGED WithIssues /\ UNCHANGED replies BY <1>1 DEF WithIssues
<1>3. Elsewhere /\ brain.step # "announced"
  BY <1>1 DEF FinishFollowUp, ReportCompletion, Announce, ReportIssues, Close, Idle, Elsewhere
<1>4. CASE FinishFollowUp(message)
  <2>1. t \in FollowUps /\ Put(t, Finalized(tasks[t])) /\ Close(message)
    BY <1>4 DEF FinishFollowUp
  <2>2. \A w \in Work : BeingReported(w)' <=> BeingReported(w)
    BY <1>3, <2>1, TaskAssumption DEF Close, Idle, BeingReported
  <2> QED BY <1>1, <1>2, <1>3, <2>1, <2>2, QuietWrites
<1>5. CASE ReportCompletion(message)
  <2>1. Reported(tasks[t]).status # "completed" /\ Reported(tasks[t]).review = tasks[t].review
    BY <1>1 DEF Reported, Rows
  <2>2. \A w \in Work : BeingReported(w)' <=> BeingReported(w)
    BY <1>3, <1>5 DEF ReportCompletion, BeginReport, BeingReported
  <2> QED BY <1>1, <1>2, <1>3, <1>5, <2>1, <2>2, QuietWrites DEF ReportCompletion
<1>6. CASE Announce(message)
  <2>1. UNCHANGED inbox /\ brain' = [step |-> "announced", message |-> message]
    BY <1>6 DEF Announce, BeginReport
  <2>2. BeingReported(t)' BY <2>1 DEF BeingReported
  <2>3. \A w \in Work \ {t} : BeingReported(w)' <=> BeingReported(w)
    BY <1>3, <2>1 DEF BeingReported
  <2>4. \A u \in Tasks \ {t} : tasks'[u] = tasks[u]
    BY <1>1, <1>6 DEF Announce, Put, TypeOK
  <2>5. tasks'[t].review = tasks[t].review
    BY <1>1, <1>6 DEF Announce, Put, Finalized, Released, TypeOK, Rows
  <2>6. \A u \in Work : Vetted(u)' <=> Vetted(u)
    BY <1>3, <2>4, <2>5 DEF Elsewhere, Vetted, Accepting, Tasks
  <2>7. Quiet(t) BY <1>2, <2>2, <2>3, <2>4, <2>6 DEF Quiet, Settled, Tasks
  <2> QED BY <2>7
<1>7. CASE ReportIssues(message)
  <2>1. \A w \in Work \ WithIssues : BeingReported(w)' <=> BeingReported(w)
    BY <1>3, <1>7 DEF ReportIssues, Close, Idle, BeingReported
  <2>2. CASE UNCHANGED tasks BY <1>2, <1>3, <2>1, <2>2, QuietIdles
  <2>3. CASE Put(report[t], New("pending"))
    <3>1. report[t] \in FollowUps /\ report[t] \in Tasks
      BY <1>1, <1>7, ReportNames DEF ReportIssues, FollowUps
    <3> QED BY <1>1, <1>2, <1>3, <2>1, <2>3, <3>1, QuietWrites
  <2> QED BY <1>7, <2>2, <2>3 DEF ReportIssues
<1> QED BY <1>4, <1>5, <1>6, <1>7

\* The verdict that fails a validation.
Refuses == Judge /\ ~brain.message.approved

\* The jobs that go on, except the verdict that passes a validation and the acceptance.
LEMMA QuietContinued ==
    ASSUME UseInv,
           \/ ReportAnnounced \/ CreateValidation \/ CompleteWithIssues \/ RequestApproval
           \/ Refuses
    PROVE  \E t : Quiet(t)
<1>1. /\ TypeOK /\ brain.message \in Reports \cup Silences \cup Verdicts
      /\ brain.message.task \in Tasks
  BY JobShapes DEF ReportAnnounced, CreateValidation, CompleteWithIssues, Refuses, Judge,
     RequestApproval, UseInv, GateInv, TypeOK, Reports, Silences, Verdicts
<1>2. /\ tasks[brain.message.task] \in Rows
      /\ About(brain.message.task) \in Tasks /\ tasks[About(brain.message.task)] \in Rows
  BY <1>1, AboutWork DEF TypeOK, Tasks
<1>3. UNCHANGED <<report, replies>>
  BY DEF ReportAnnounced, CreateValidation, CompleteWithIssues, Refuses, Judge,
     RequestApproval
<1>4. UNCHANGED WithIssues /\ UNCHANGED replies BY <1>3 DEF WithIssues
<1>5. Elsewhere
  <2>1. CASE ReportAnnounced
    BY <1>1, <2>1 DEF ReportAnnounced, Elsewhere, TypeOK, Jobs, Idle
  <2>2. CASE ~ReportAnnounced
    BY <2>2 DEF CreateValidation, CompleteWithIssues, RequestApproval, Refuses, Judge, Close,
       Idle, Elsewhere
  <2> QED BY <2>1, <2>2
<1>6. CASE ReportAnnounced
  <2>1. /\ Reported(tasks[brain.message.task]).status # "completed"
        /\ Reported(tasks[brain.message.task]).review = tasks[brain.message.task].review
    BY <1>2 DEF Reported, Rows
  <2>2. brain'.step = "validation" /\ brain.step = "announced" /\ UNCHANGED inbox
    BY <1>1, <1>6 DEF ReportAnnounced, TypeOK, Jobs, Idle
  <2>3. \A w \in Work : w # brain.message.task => (BeingReported(w)' <=> BeingReported(w))
    BY <2>2 DEF BeingReported
  <2> QED BY <1>1, <1>4, <1>5, <1>6, <2>1, <2>3, QuietWrites DEF ReportAnnounced
<1>7. CASE CreateValidation
  <2> DEFINE t == brain.message.task
  <2>1. t \in Work /\ tasks[t].status # "completed"
    BY <1>7 DEF CreateValidation, UseInv, GateInv, JobPasses, JobUses
  <2>2. \A w \in Work : tasks'[w] = tasks[w]
    BY <1>1, <1>7, TaskAssumption
    DEF CreateValidation, FreshFor, Put, TypeOK, Tasks, FollowUps
  <2>3. \A w \in Work \ {t} : BeingReported(w)' <=> BeingReported(w)
    BY <1>7 DEF CreateValidation, Close, Idle, BeingReported
  <2>4. \A u \in Work : Vetted(u)' <=> Vetted(u)
    BY <1>5, <2>2 DEF Elsewhere, Vetted, Accepting
  <2>5. Quiet(t) BY <1>4, <2>1, <2>2, <2>3, <2>4 DEF Quiet, Settled
  <2> QED BY <2>5
<1>8. CASE CompleteWithIssues
  <2>1. brain.message.task \in WithIssues
    BY <1>8 DEF CompleteWithIssues, UseInv, GateInv, JobPasses
  <2>2. Finalized(tasks[brain.message.task]).review = tasks[brain.message.task].review
    BY <1>2 DEF Finalized, Released, Rows
  <2>3. \A w \in Work : w # brain.message.task => (BeingReported(w)' <=> BeingReported(w))
    BY <1>8 DEF CompleteWithIssues, Close, Idle, BeingReported
  <2> QED BY <1>1, <1>4, <1>5, <1>8, <2>1, <2>2, <2>3, QuietWrites DEF CompleteWithIssues
<1>9. CASE RequestApproval \/ Refuses
  <2>1. brain.message.kind = "verdict" /\ brain.step # "announced"
    BY <1>9, JobShapes DEF Refuses, Judge, RequestApproval, UseInv, GateInv, TypeOK, Verdicts
  <2>2. \A w \in Work : BeingReported(w)' <=> BeingReported(w)
    BY <1>9, <2>1 DEF Refuses, Judge, RequestApproval, Close, Idle, BeingReported
  <2>3. CASE RequestApproval BY <1>4, <1>5, <2>2, <2>3, QuietIdles DEF RequestApproval
  <2>4. CASE Refuses
    <3> DEFINE w == About(brain.message.task)
    <3>1. Put(w, Released(tasks[w], "pending")) BY <2>4 DEF Refuses, Judge
    <3>2. /\ Released(tasks[w], "pending").status # "completed"
          /\ Released(tasks[w], "pending").review = tasks[w].review
      BY <1>2 DEF Released, Rows
    <3> HIDE DEF w
    <3> QED BY <1>1, <1>2, <1>4, <1>5, <2>2, <3>1, <3>2, QuietWrites DEF w
  <2> QED BY <1>9, <2>3, <2>4
<1> QED BY <1>6, <1>7, <1>8, <1>9

LEMMA JudgeValidates ==
    ASSUME UseInv, Judge, brain.message.approved
    PROVE  [Approval!Next]_Approval!vars
<1> DEFINE w == About(brain.message.task)
           Done == {u \in Work \ WithIssues : tasks[u].status = "completed" /\ ~BeingReported(u)}
<1>1. TypeOK /\ w \in Work /\ w \in Tasks /\ tasks[w] \in Rows
  BY JobShapes, AboutWork DEF Judge, UseInv, GateInv, TypeOK, Verdicts, Tasks
<1>2. /\ UNCHANGED <<report, replies, inbox>> /\ Put(w, UnderReview(tasks[w]))
      /\ brain.step = "verdict" /\ brain'.step = "request"
  BY <1>1 DEF Judge, TypeOK, Jobs, Idle
<1>3. UNCHANGED WithIssues /\ \A u \in Work : BeingReported(u)' <=> BeingReported(u)
  BY <1>2 DEF WithIssues, BeingReported
<1>4. /\ tasks'[w].review = "pending" /\ tasks'[w].status # "completed"
      /\ \A u \in Work \ {w} : tasks'[u] = tasks[u]
  BY <1>1, <1>2 DEF Put, UnderReview, TypeOK, Tasks, Rows
<1>5. {u \in Work \ WithIssues' : tasks'[u].status = "completed" /\ ~BeingReported(u)'}
      = Done \ {w}
  BY <1>3, <1>4
<1>6. {u \in Work : tasks'[u].review = "pending" \/ Accepting(u)'}
      = {u \in Work : tasks[u].review = "pending" \/ Accepting(u)} \cup {w}
  BY <1>1, <1>2, <1>4 DEF Accepting
<1>7. \E u \in Work : Approval!Validate(u)
  BY <1>1, <1>2, <1>5, <1>6 DEF Approval!Validate
<1> QED BY <1>7 DEF Approval!Next

LEMMA ReplyApproves ==
    ASSUME TypeOK, NEW w \in Work, NEW approved \in BOOLEAN, Reply(w, approved)
    PROVE  [Approval!Next]_Approval!vars
<1>1. UNCHANGED <<tasks, report, brain, inbox>> BY DEF Reply
<1>2. /\ UNCHANGED WithIssues
      /\ \A u \in Work : BeingReported(u)' <=> BeingReported(u)
      /\ \A u \in Work : Accepting(u)' <=> Accepting(u)
  BY <1>1 DEF WithIssues, BeingReported, Accepting
<1>3. CASE approved
  <2>1. {u \in Work : [task |-> u, approved |-> TRUE] \in replies'}
        = {u \in Work : [task |-> u, approved |-> TRUE] \in replies} \cup {w}
    BY <1>3 DEF Reply
  <2>2. Approval!Approve(w) BY <1>1, <1>2, <2>1 DEF Approval!Approve
  <2> QED BY <2>2 DEF Approval!Next
<1>4. CASE ~approved
  <2>1. {u \in Work : [task |-> u, approved |-> TRUE] \in replies'}
        = {u \in Work : [task |-> u, approved |-> TRUE] \in replies}
    BY <1>4 DEF Reply
  <2> QED BY <1>1, <1>2, <2>1 DEF Approval!vars
<1> QED BY <1>3, <1>4

\* Taking a reply from the mail takes the approval it gives, if it gives one.
LEMMA ReplyTaken ==
    ASSUME NEW reply \in Replies, reply \in replies, replies' = replies \ {reply}
    PROVE  LET given(answers) == {w \in Work : [task |-> w, approved |-> TRUE] \in answers} IN
           /\ reply.approved => /\ reply.task \in given(replies)
                                /\ given(replies') = given(replies) \ {reply.task}
           /\ ~reply.approved => given(replies') = given(replies)
<1>1. CASE reply.approved
  <2>1. \A w \in Work : reply = [task |-> w, approved |-> TRUE] <=> w = reply.task
    BY <1>1 DEF Replies
  <2>2. reply.task \in Work BY DEF Replies
  <2> QED BY <1>1, <2>1, <2>2
<1>2. CASE ~reply.approved
  BY <1>2 DEF Replies
<1> QED BY <1>1, <1>2

LEMMA AnswerSteps ==
    ASSUME TypeOK, NEW reply \in replies, Answer(reply)
    PROVE  [Approval!Next]_Approval!vars
<1> DEFINE w == reply.task
<1>1. /\ reply \in Replies /\ w \in Work /\ w \in Tasks /\ tasks[w] \in Rows
  BY DEF TypeOK, Replies, Tasks
<1>2. UNCHANGED <<report, inbox>> /\ brain = Idle BY DEF Answer
<1>3. UNCHANGED WithIssues /\ \A u \in Work : ~Accepting(u)
  BY <1>2 DEF WithIssues, Accepting, Idle
<1>4. brain' = Idle \/ brain' = [step |-> "approved", reply |-> reply]
  BY <1>2 DEF Answer
<1>5. \A u \in Work : BeingReported(u)' <=> BeingReported(u)
  BY <1>2, <1>4 DEF BeingReported, Idle
<1>6. CASE tasks[w].review = "pending" /\ reply.approved
  <2>1. /\ Put(w, [tasks[w] EXCEPT !.review = "approved"]) /\ UNCHANGED replies
        /\ brain' = [step |-> "approved", reply |-> reply]
    BY <1>6 DEF Answer
  <2>2. /\ \A u \in Work : tasks'[u].status = tasks[u].status
        /\ \A u \in Work \ {w} : tasks'[u].review = tasks[u].review
        /\ tasks'[w].review = "approved"
    BY <1>1, <2>1 DEF Put, TypeOK, Tasks, Rows
  <2>3. \A u \in Work : (tasks'[u].review = "pending" \/ Accepting(u)')
                        <=> (tasks[u].review = "pending" \/ Accepting(u))
    BY <1>3, <1>6, <2>1, <2>2 DEF Accepting
  <2> QED BY <1>3, <1>5, <2>1, <2>2, <2>3 DEF Approval!vars
<1>7. CASE tasks[w].review = "pending" /\ ~reply.approved
  <2>1. /\ Put(w, [Released(tasks[w], "pending") EXCEPT !.review = "rejected"])
        /\ replies' = replies \ {reply} /\ UNCHANGED brain
    BY <1>7 DEF Answer
  <2>2. /\ tasks'[w].status = "pending" /\ tasks'[w].review = "rejected"
        /\ \A u \in Work \ {w} : tasks'[u] = tasks[u]
    BY <1>1, <2>1 DEF Put, Released, TypeOK, Tasks, Rows
  <2>3. {u \in Work \ WithIssues' : tasks'[u].status = "completed" /\ ~BeingReported(u)'}
        = {u \in Work \ WithIssues : tasks[u].status = "completed" /\ ~BeingReported(u)} \ {w}
    BY <1>3, <1>5, <2>2
  <2>4. {u \in Work : tasks'[u].review = "pending" \/ Accepting(u)'}
        = {u \in Work : tasks[u].review = "pending" \/ Accepting(u)} \ {w}
    BY <1>2, <1>3, <2>1, <2>2 DEF Accepting, Idle
  <2>5. Approval!Dismiss(w)
    BY <1>1, <1>7, <2>1, <2>3, <2>4, ReplyTaken DEF Approval!Dismiss
  <2> QED BY <1>1, <2>5 DEF Approval!Next
<1>8. CASE tasks[w].review # "pending"
  <2>1. UNCHANGED tasks /\ UNCHANGED brain /\ replies' = replies \ {reply}
    BY <1>8 DEF Answer
  <2>2. \A u \in Work : Accepting(u)' <=> Accepting(u) BY <2>1 DEF Accepting
  <2>3. CASE reply.approved
    <3>1. Approval!Waste(w)
      BY <1>1, <1>3, <1>5, <2>1, <2>2, <2>3, ReplyTaken DEF Approval!Waste
    <3> QED BY <1>1, <3>1 DEF Approval!Next
  <2>4. CASE ~reply.approved
    BY <1>1, <1>3, <1>5, <2>1, <2>2, <2>4, ReplyTaken DEF Approval!vars
  <2> QED BY <2>3, <2>4
<1> QED BY <1>6, <1>7, <1>8 DEF Answer

LEMMA AcceptanceUses ==
    ASSUME UseInv, FinalizeApproved
    PROVE  [Approval!Next]_Approval!vars
<1> DEFINE w == brain.reply.task
           Done == {u \in Work \ WithIssues : tasks[u].status = "completed" /\ ~BeingReported(u)}
           Passing == {u \in Work : tasks[u].review = "pending" \/ Accepting(u)}
<1>1. /\ TypeOK /\ brain.reply \in replies /\ brain.reply.approved
      /\ brain.reply \in Replies /\ w \in Work /\ w \in Tasks
      /\ brain.step = "approved" /\ tasks[w].review = "approved"
  BY DEF FinalizeApproved, UseInv, GateInv, JobPasses, JobUses, TypeOK, Replies, Tasks
<1>2. UNCHANGED <<report, inbox>> /\ replies' = replies \ {brain.reply} /\ brain' = Idle
  BY DEF FinalizeApproved
<1>3. /\ UNCHANGED WithIssues
      /\ \A u \in Work : BeingReported(u)' <=> BeingReported(u)
      /\ \A u \in Work : ~Accepting(u)' /\ (Accepting(u) <=> u = w)
  BY <1>1, <1>2 DEF WithIssues, BeingReported, Accepting, Idle
<1>4. \A u \in Work :
          /\ tasks'[u].status = IF u = w THEN "completed" ELSE tasks[u].status
          /\ tasks'[u].review = tasks[u].review
  BY <1>1 DEF FinalizeApproved, Put, Finalized, Released, TypeOK, Tasks, Rows
<1>5. {u \in Work : tasks'[u].review = "pending" \/ Accepting(u)'} = Passing \ {w}
  BY <1>1, <1>3, <1>4
<1>6. w \in Passing BY <1>1, <1>3
<1>7. CASE w \notin WithIssues /\ ~BeingReported(w)
  <2>1. {u \in Work \ WithIssues' : tasks'[u].status = "completed" /\ ~BeingReported(u)'}
        = Done \cup {w}
    BY <1>1, <1>3, <1>4, <1>7
  <2>2. \E u \in Work : Approval!Accept(u)
    BY <1>1, <1>2, <1>5, <1>6, <2>1, ReplyTaken DEF Approval!Accept
  <2> QED BY <2>2 DEF Approval!Next
<1>8. CASE w \in WithIssues \/ BeingReported(w)
  <2>1. {u \in Work \ WithIssues' : tasks'[u].status = "completed" /\ ~BeingReported(u)'} = Done
    BY <1>1, <1>3, <1>4, <1>8
  <2>2. \E u \in Work : Approval!Waste(u)
    BY <1>1, <1>2, <1>5, <2>1, ReplyTaken DEF Approval!Waste
  <2> QED BY <2>2 DEF Approval!Next
<1> QED BY <1>7, <1>8

\* A crash between the two PATCHes of an acceptance dismisses the validation.
LEMMA CrashDismisses ==
    ASSUME UseInv, Crash, Unbroken
    PROVE  [Approval!Next]_Approval!vars
<1> DEFINE Passing == {u \in Work : tasks[u].review = "pending" \/ Accepting(u)}
<1>1. UNCHANGED <<tasks, report, inbox, replies>> /\ brain' = Idle BY DEF Crash
<1>2. UNCHANGED WithIssues /\ \A u \in Work : ~Accepting(u)'
  BY <1>1 DEF WithIssues, Accepting, Idle
<1>3. brain.step = "announced" => brain.message \in inbox /\ brain.message.kind = "complete"
  BY DEF Crash, Job, Unbroken, UseInv, GateInv, JobPasses
<1>4. \A u \in Work : BeingReported(u)' <=> BeingReported(u)
  BY <1>1, <1>3 DEF BeingReported, Idle
<1>5. CASE brain.step = "approved" /\ tasks[brain.reply.task].review # "pending"
  <2> DEFINE w == brain.reply.task
  <2>1. w \in Work BY <1>5, JobShapes DEF UseInv, GateInv, TypeOK, Replies
  <2>2. {u \in Work : tasks'[u].review = "pending" \/ Accepting(u)'} = Passing \ {w}
    BY <1>1, <1>2, <1>5 DEF Accepting
  <2>3. {u \in Work \ WithIssues' : tasks'[u].status = "completed" /\ ~BeingReported(u)'}
        = {u \in Work \ WithIssues : tasks[u].status = "completed" /\ ~BeingReported(u)}
    BY <1>1, <1>2, <1>4
  <2>4. \E u \in Work : Approval!Dismiss(u)
    BY <1>1, <2>1, <2>2, <2>3 DEF Approval!Dismiss
  <2> QED BY <2>4 DEF Approval!Next
<1>6. CASE ~(brain.step = "approved" /\ tasks[brain.reply.task].review # "pending")
  <2>1. {u \in Work : tasks'[u].review = "pending" \/ Accepting(u)'} = Passing
    BY <1>1, <1>2, <1>6 DEF Accepting
  <2> QED BY <1>1, <1>2, <1>4, <2>1 DEF Approval!vars
<1> QED BY <1>5, <1>6

\* Users, arms and the gate only ever withdraw what was accepted.
LEMMA QuietOthers ==
    ASSUME TypeOK,
           FromArms \/ (\E t \in Tasks, status \in UserMoves : Move(t, status)) \/ Gate
    PROVE  \E t : Quiet(t)
<1>1. CASE \E w \in Work, f \in Verifications : ReportStatus(w, f)
  <2> PICK w \in Work, f \in Verifications : ReportStatus(w, f) BY <1>1
  <2>1. /\ UNCHANGED <<tasks, inbox, replies, brain>> /\ report' = [report EXCEPT ![w] = f]
        /\ f # NoReport /\ report \in [Work -> Verifications \cup {NoReport}]
    BY TaskAssumption DEF ReportStatus, TypeOK
  <2>2. \A u \in Work : u \in WithIssues' <=> u \in WithIssues \/ u = w
    BY <2>1 DEF WithIssues
  <2>3. Quiet(w) BY <2>1, <2>2 DEF Quiet, Vetted, Accepting, Settled, BeingReported
  <2> QED BY <2>3
<1>2. CASE \E message : Tell(message)
  <2> PICK message : Tell(message) BY <1>2
  <2>1. UNCHANGED <<tasks, report, replies, brain>> /\ inbox' = inbox \cup {message}
    BY DEF Tell
  <2>2. UNCHANGED WithIssues BY <2>1 DEF WithIssues
  <2>3. Quiet(message.task)
    BY <2>1, <2>2 DEF Quiet, Vetted, Accepting, Settled, BeingReported
  <2> QED BY <2>3
<1>3. CASE \E t \in Tasks, status \in UserMoves : Move(t, status)
  <2> PICK t \in Tasks, status \in UserMoves : Move(t, status) BY <1>3
  <2>1. /\ Released(tasks[t], status).status # "completed"
        /\ Released(tasks[t], status).review = tasks[t].review
    BY TaskAssumption DEF Released, TypeOK, Rows
  <2>2. UNCHANGED <<report, inbox, replies, brain>> BY DEF Move
  <2>3. /\ UNCHANGED WithIssues /\ UNCHANGED replies /\ UNCHANGED brain
        /\ \A w \in Work : BeingReported(w)' <=> BeingReported(w)
    BY <2>2 DEF WithIssues, BeingReported
  <2> QED BY <2>1, <2>3, QuietWrites DEF Move
<1>4. CASE \E t \in Tasks : GateTask(t)
  <2> PICK t \in Tasks : GateTask(t) BY <1>4
  <2>1. /\ Released(tasks[t], Target).status # "completed"
        /\ Released(tasks[t], Target).review = tasks[t].review
    BY DEF Released, Target, TypeOK, Rows
  <2>2. UNCHANGED <<report, inbox, replies>> /\ brain'.step = brain.step
    BY DEF GateTask, TypeOK, Jobs, Idle
  <2>3. /\ UNCHANGED WithIssues /\ UNCHANGED replies /\ Elsewhere
        /\ \A w \in Work : BeingReported(w)' <=> BeingReported(w)
    BY <2>2 DEF GateTask, WithIssues, BeingReported, Elsewhere
  <2> QED BY <2>1, <2>3, QuietWrites DEF GateTask
<1>5. CASE PlanFailure \/ PlanMended \/ GateDone
  <2>1. UNCHANGED <<tasks, report, inbox, replies>>
    BY <1>5 DEF PlanFailure, PlanMended, GateDone
  <2>2. /\ brain.step \in {"idle", "blocking", "resuming"}
        /\ brain'.step \in {"idle", "blocking", "resuming"}
    BY <1>5 DEF PlanFailure, PlanMended, GateDone, Idle
  <2>3. /\ UNCHANGED tasks /\ UNCHANGED WithIssues /\ UNCHANGED replies /\ Elsewhere
        /\ \A w \in Work : BeingReported(w)' <=> BeingReported(w)
    BY <2>1, <2>2 DEF WithIssues, BeingReported, Elsewhere
  <2> QED BY <2>3, QuietIdles
<1>6. CASE FromArms
  BY <1>1, <1>2, <1>6 DEF FromArms, SendClaim, SendAcknowledge, SendComplete, SendVerdict
<1> QED BY <1>3, <1>4, <1>5, <1>6 DEF Gate

LEMMA ApprovalSteps == UseInv /\ [Next]_vars /\ Unbroken => [Approval!Next]_Approval!vars
<1> SUFFICES ASSUME UseInv, [Next]_vars, Unbroken PROVE [Approval!Next]_Approval!vars
  OBVIOUS
<1>1. TypeOK BY DEF UseInv, GateInv
<1>2. CASE Handlers
  <2>1. CASE \/ \E message \in inbox : HandleClaim(message) \/ HandleAcknowledge(message)
                                       \/ HandleVerdict(message)
             \/ \E message \in inbox \cup Silences :
                   \/ FinishFollowUp(message) \/ ReportCompletion(message)
                   \/ Announce(message) \/ ReportIssues(message)
    BY <2>1, QuietHandled, QuietCompleted, QuietSteps
  <2>2. CASE \/ ReportAnnounced \/ CreateValidation \/ CompleteWithIssues \/ RequestApproval
             \/ Refuses
    BY <2>2, QuietContinued, QuietSteps
  <2>3. CASE Judge /\ ~Refuses BY <2>3, JudgeValidates DEF Refuses
  <2>4. CASE FinalizeApproved \/ \E reply \in replies : Answer(reply)
    BY <1>1, <2>4, AnswerSteps, AcceptanceUses
  <2> QED BY <1>2, <2>1, <2>2, <2>3, <2>4 DEF Handlers
<1>3. CASE FromUsers
  BY <1>1, <1>3, ReplyApproves, QuietOthers, QuietSteps DEF FromUsers
<1>4. CASE FromArms \/ Gate
  BY <1>1, <1>4, QuietOthers, QuietSteps
<1>5. CASE Crash BY <1>5, CrashDismisses
<1>6. CASE UNCHANGED vars
  <2>1. UNCHANGED <<tasks, report, inbox, replies, brain>> BY <1>6 DEF vars
  <2>2. /\ UNCHANGED WithIssues
        /\ \A w \in Work : BeingReported(w)' <=> BeingReported(w)
        /\ \A w \in Work : Accepting(w)' <=> Accepting(w)
    BY <2>1 DEF WithIssues, BeingReported, Accepting
  <2> QED BY <2>1, <2>2 DEF Approval!vars
<1> QED BY <1>2, <1>3, <1>4, <1>5, <1>6 DEF Next

\* Work is accepted only by using up a validation that it passed and an approval that a
\* human gave, round after round: the flow implements HumanApproval, for any redelivery,
\* silent completion, planning failure and user, and for any crash but the one that
\* HumansDecide excludes.
THEOREM AcceptanceByApproval ==
    ASSUME Unbroken
    PROVE  Spec => AcceptsByApproval
<1>1. Init => UseInv
  BY TypeInit, TaskAssumption
  DEF Init, UseInv, GateInv, Passed, JobPasses, JobUses, New, Idle, Tasks
<1>2. Init => Approval!Init
  BY DEF Init, Approval!Init, New, Tasks, Accepting, Idle
<1>3. UseInv /\ [Next]_vars => UseInv' BY UseStep
<1>4. UseInv /\ [Next]_vars => [Approval!Next]_Approval!vars BY ApprovalSteps
<1> QED BY <1>1, <1>2, <1>3, <1>4, PTL DEF Spec, AcceptsByApproval, Approval!Spec
-----------------------------------------------------------------------------
(* Completing work is followed up *)

Followed(w) == UnderValidation(w) \/ InMail(w) \/ InInbox(w) \/ AtHand(w)

\* The same without counting on a report of completion that is handled again.
Decided(w) ==
    \/ UnderValidation(w) \/ InMail(w) \/ AtHand(w)
    \/ \E message \in inbox : message.kind = "verdict" /\ About(message.task) = w

\* The Brain is about to complete the work.
Continuing(w) == brain.step = "issues" /\ brain.message.task = w

\* With a verification task a repeated report of completion does nothing, so that
\* completing work must be followed up without one.
Good(w) ==
    tasks[w].status = "completing" =>
        /\ Followed(w)
        /\ Verified(w) => Decided(w) \/ Continuing(w)

\* The command of a job is in the inbox until the job is done, unless there is none.
JobsBacked ==
    /\ brain.step \in {"verdict", "request"} => brain.message \in inbox
    /\ brain.step \in {"announced", "validation", "issues"} =>
         /\ (brain.message \in inbox /\ brain.message.kind = "complete") \/ brain.message \in Silences
         /\ brain.message.task \in Work
    /\ brain.step \in {"announced", "validation"} => ~Verified(brain.message.task)
    /\ brain.step = "request" => tasks[About(brain.message.task)].review = "pending"

\* What commands and jobs name exists.
NamesExist ==
    /\ \A w \in Work : Exists(w)
    /\ \A message \in inbox : Exists(message.task)
    /\ brain.step \in {"blocking", "resuming"} => \A t \in brain.left : Exists(t)

\* A validation is never reported complete without a verdict.
Judged == \A message \in inbox : message.kind = "complete" => message.task \notin Validations

\* The reports of different work have different ids.
OwnReports == \A w \in WithIssues : Of[report[w]] = w

Sound == JobsBacked /\ NamesExist /\ Judged /\ OwnReports
FollowInv == TypeOK /\ Sound /\ \A w \in Work : Good(w)

\* The validations of w that are open stay open.
KeepsOpen(w) ==
    \A f \in Validations :
        Of[f] = w /\ tasks[f].status \notin Gone => tasks'[f].status \notin Gone

\* A step that decides nothing about w keeps it followed: at most one command
\* leaves the inbox, and that is about other work.
LEMMA FollowedKept ==
    ASSUME NEW w \in Work, NEW message, inbox \ {message} \subseteq inbox',
           KeepsOpen(w), InMail(w) => InMail(w)', AtHand(w) => AtHand(w)',
           message \in inbox' \/ ~(message.kind = "verdict" /\ About(message.task) = w)
    PROVE  /\ Decided(w) => Decided(w)'
           /\ /\ Followed(w)
              /\ message \in inbox' \/ ~(message.kind = "complete" /\ message.task = w)
              => Followed(w)'
BY DEF KeepsOpen, Followed, Decided, UnderValidation, InInbox

LEMMA DecidedIsFollowed ==
    ASSUME NEW w \in Work, Decided(w)
    PROVE  Followed(w)
BY DEF Followed, Decided, InInbox

\* A row that is written keeps the others, and keeps open what was open.
LEMMA PutKeeps ==
    ASSUME TypeOK, NEW t \in Tasks, NEW row, Put(t, row)
    PROVE  /\ tasks'[t] = row
           /\ \A u \in Tasks \ {t} : tasks'[u] = tasks[u]
BY DEF TypeOK, Put

LEMMA PutKeepsOpen ==
    ASSUME TypeOK, NEW t \in Tasks, NEW row, Put(t, row), NEW w \in Work,
           t \notin Validations \/ Of[t] # w \/ row.status \notin Gone
    PROVE  KeepsOpen(w)
BY PutKeeps DEF KeepsOpen, Tasks, FollowUps

\* Whether there is a verification task for the latest report of some work depends on
\* the report and on that task.
LEMMA VerifiedKept ==
    ASSUME TypeOK, NEW w \in Work, UNCHANGED report,
           w \in WithIssues => Exists(report[w])' = Exists(report[w])
    PROVE  Verified(w)' = Verified(w)
BY DEF Verified, WithIssues

\* Writing an existing row neither creates nor deletes one.
LEMMA PutKeepsExistence ==
    ASSUME TypeOK, NEW t \in Tasks, NEW row, Put(t, row), Exists(t), row.status # "absent",
           UNCHANGED report
    PROVE  /\ \A u \in Tasks : Exists(u)' = Exists(u)
           /\ \A w \in Work : Verified(w)' = Verified(w)
<1>1. \A u \in Tasks : Exists(u)' = Exists(u) BY PutKeeps DEF Exists
<1>2. \A w \in WithIssues : report[w] \in Tasks BY ReportNames
<1> QED BY <1>1, <1>2, VerifiedKept

\* What a written row says.
LEMMA RowValues ==
    ASSUME NEW row \in Rows, NEW arm \in Arms, NEW status \in Statuses
    PROVE  /\ Assigned(row, status, arm).status = status
           /\ Assigned(row, status, arm).review = row.review
BY DEF Rows, Assigned

LEMMA UnheldValues ==
    ASSUME NEW row \in Rows, NEW status \in Statuses
    PROVE  /\ Released(row, status).status = status
           /\ Released(row, status).review = row.review
           /\ Reported(row).status = "completing" /\ Reported(row).review = row.review
           /\ UnderReview(row).status = "completing" /\ UnderReview(row).review = "pending"
           /\ Finalized(row).status = "completed" /\ Finalized(row).review = row.review
           /\ New(status).status = status
           /\ [row EXCEPT !.review = "approved"].status = row.status
           /\ [Released(row, "pending") EXCEPT !.review = "rejected"].status = "pending"
BY DEF Rows, Statuses, Released, Reported, UnderReview, Finalized, New

\* Work is good after a step that decides nothing about it.
LEMMA GoodKept ==
    ASSUME NEW w \in Work, Good(w), NEW message,
           Verified(w)' => Verified(w),
           tasks'[w].status = "completing" => tasks[w].status = "completing",
           inbox \ {message} \subseteq inbox',
           KeepsOpen(w), InMail(w) => InMail(w)', AtHand(w) => AtHand(w)',
           tasks'[w].status = "completing" => (Continuing(w) => Continuing(w)'),
           \/ message \in inbox'
           \/ /\ ~(message.kind = "verdict" /\ About(message.task) = w)
              /\ ~(message.kind = "complete" /\ message.task = w)
    PROVE  Good(w)'
<1>1. CASE tasks'[w].status = "completing"
  <2>1. Followed(w)' BY <1>1, FollowedKept DEF Good
  <2>2. Decided(w) => Decided(w)' BY FollowedKept
  <2> QED BY <1>1, <2>1, <2>2 DEF Good
<1>2. CASE tasks'[w].status # "completing" BY <1>2 DEF Good
<1> QED BY <1>1, <1>2

\* Work that is decided on is good.
LEMMA GoodDecided ==
    ASSUME NEW w \in Work, Decided(w)'
    PROVE  Good(w)'
BY DEF Good, Followed, Decided, InInbox

LEMMA GoodFromArms ==
    ASSUME FollowInv, FromArms, ValidatorsJudge
    PROVE  Sound' /\ \A w \in Work : Good(w)'
<1>1. /\ UNCHANGED <<tasks, asked, replies, brain>> /\ inbox \subseteq inbox'
      /\ TypeOK
  BY ArmsOnlyReport DEF FollowInv
<1>2. \A message \in inbox' \ inbox :
         /\ Exists(message.task)
         /\ message.kind = "complete" => message.task \notin Validations
  <2>1. CASE \E arm \in Arms, t \in Tasks :
                SendClaim(arm, t) \/ SendAcknowledge(arm, t) \/ SendComplete(arm, t)
    BY <2>1, TaskAssumption DEF SendClaim, SendAcknowledge, SendComplete, Tell, Exists, Held,
       FollowUps
  <2>2. CASE \E arm \in Arms, t \in Tasks, f \in FollowUps, approved \in BOOLEAN :
                SendVerdict(arm, f, t, approved)
    <3> PICK arm \in Arms, t \in Tasks, f \in FollowUps, approved \in BOOLEAN :
                SendVerdict(arm, f, t, approved)
      BY <2>2
    <3>1. Exists(f) /\ Exists(Of[f])
      BY TaskAssumption DEF SendVerdict, Held, Exists, FollowInv, Sound, NamesExist
    <3> QED BY <3>1 DEF SendVerdict, Tell
  <2>3. CASE \E w \in Work, f \in Verifications : ReportStatus(w, f)
    BY <2>3 DEF ReportStatus
  <2> QED BY <2>1, <2>2, <2>3 DEF FromArms
<1>3. /\ \A w \in Work : Verified(w)' => Verified(w)
      /\ OwnReports'
  <2>1. CASE \E v \in Work, f \in Verifications : ReportStatus(v, f)
    <3> PICK v \in Work, f \in Verifications : ReportStatus(v, f) BY <2>1
    <3>1. /\ Of[f] = v /\ ~Exists(f) /\ report' = [report EXCEPT ![v] = f]
          /\ report \in [Work -> Verifications \cup {NoReport}] /\ UNCHANGED tasks
      BY <1>1 DEF ReportStatus, TypeOK
    <3>2. report'[v] = f /\ \A w \in Work \ {v} : report'[w] = report[w] BY <3>1
    <3> QED BY <3>1, <3>2 DEF Verified, Exists, WithIssues, OwnReports, FollowInv, Sound
  <2>2. CASE UNCHANGED report
    BY <1>1, <2>2 DEF Verified, Exists, WithIssues, OwnReports, FollowInv, Sound
  <2> QED BY <1>1, <2>1, <2>2, ArmsOnlyReport
          DEF FromArms, SendClaim, SendAcknowledge, SendComplete, SendVerdict, Tell
<1>4. Sound'
  <2>1. JobsBacked' BY <1>1, <1>3 DEF FollowInv, Sound, JobsBacked
  <2>2. NamesExist' BY <1>1, <1>2 DEF FollowInv, Sound, NamesExist, Exists
  <2> QED BY <1>1, <1>2, <1>3, <2>1, <2>2 DEF FollowInv, Sound, Judged
<1>5. ASSUME NEW w \in Work PROVE Good(w)'
  <2>1. /\ Verified(w)' => Verified(w)
        /\ (InMail(w) => InMail(w)')
        /\ (AtHand(w) => AtHand(w)') /\ (Continuing(w) => Continuing(w)')
        /\ KeepsOpen(w)
    BY <1>1, <1>3 DEF InMail, AtHand, Accepting, Continuing, KeepsOpen
  <2>2. tasks[w].status = "completing" => Followed(w)'
    BY <1>1, <2>1 DEF FollowInv, Good, Followed, UnderValidation, InInbox
  <2>3. Decided(w) => Decided(w)'
    BY <1>1, <2>1 DEF Decided, UnderValidation
  <2> QED BY <1>1, <2>1, <2>2, <2>3 DEF FollowInv, Good
<1> QED BY <1>4, <1>5

LEMMA GoodFromUsers ==
    ASSUME FollowInv, FromUsers
    PROVE  Sound' /\ \A w \in Work : Good(w)'
<1>1. CASE \E w \in Work, approved \in BOOLEAN : Reply(w, approved)
  <2> PICK v \in Work, approved \in BOOLEAN : Reply(v, approved) BY <1>1
  <2>1. /\ UNCHANGED <<tasks, report, inbox, asked, brain>> /\ replies \subseteq replies'
    BY DEF Reply
  <2>2. UNCHANGED WithIssues /\ \A w \in Work : Verified(w)' = Verified(w)
    BY <2>1 DEF WithIssues, Verified, Exists
  <2>3. Sound'
    BY <2>1, <2>2 DEF FollowInv, Sound, JobsBacked, NamesExist, Judged, OwnReports, Exists
  <2>4. ASSUME NEW w \in Work PROVE Good(w)'
    <3>1. (InMail(w) => InMail(w)') /\ KeepsOpen(w) /\ AtHand(w)' = AtHand(w)
          /\ Continuing(w)' = Continuing(w)
      BY <2>1 DEF InMail, KeepsOpen, AtHand, Accepting, Continuing
    <3>2. (Decided(w) => Decided(w)') /\ (Followed(w) => Followed(w)')
      BY <2>1, <3>1 DEF Decided, Followed, UnderValidation, InInbox
    <3> QED BY <2>1, <2>2, <3>1, <3>2 DEF FollowInv, Good
  <2> QED BY <2>3, <2>4
<1>2. CASE \E t \in Tasks, status \in UserMoves : Move(t, status)
  <2> PICK t \in Tasks, status \in UserMoves : Move(t, status) BY <1>2
  <2> DEFINE row == Released(tasks[t], status)
  <2>1. /\ TypeOK /\ Put(t, row) /\ Exists(t)
        /\ UNCHANGED <<report, inbox, asked, replies, brain>>
    BY DEF Move, FollowInv
  <2>2. /\ row.status = status /\ row.review = tasks[t].review
        /\ status \in {"pending", "cancelled"}
        /\ status = "cancelled" => t \in Work
    BY TaskAssumption, UnheldValues DEF Move, FollowInv, TypeOK, Statuses, Gone
  <2>3. /\ \A u \in Tasks : Exists(u)' = Exists(u) /\ tasks'[u].review = tasks[u].review
        /\ \A w \in Work : Verified(w)' = Verified(w)
    BY <2>1, <2>2, PutKeeps, PutKeepsExistence
  <2>4. Sound'
    <3>1. brain.step = "request" => About(brain.message.task) \in Tasks
      BY <2>1, JobShapes, AboutWork DEF TypeOK, Verdicts, Tasks
    <3>2. JobsBacked' BY <2>1, <2>3, <3>1 DEF FollowInv, Sound, JobsBacked
    <3>6. OwnReports' BY <2>1 DEF FollowInv, Sound, OwnReports, WithIssues
    <3>3. \A message \in inbox : message.task \in Tasks
      BY <2>1 DEF TypeOK, Messages, Reports, Verdicts
    <3>4. brain.step \in {"blocking", "resuming"} => brain.left \subseteq Tasks
      BY <2>1, JobShapes DEF TypeOK
    <3>5. NamesExist' BY <2>1, <2>3, <3>3, <3>4 DEF FollowInv, Sound, NamesExist, Tasks
    <3> QED BY <2>1, <3>2, <3>5, <3>6 DEF FollowInv, Sound, Judged
  <2>5. ASSUME NEW w \in Work PROVE Good(w)'
    <3>1. KeepsOpen(w)
      BY <2>1, <2>2, TaskAssumption, PutKeepsOpen DEF Gone, FollowUps
    <3>2. tasks'[w].status = "completing" => tasks[w].status = "completing"
      BY <2>1, <2>2, PutKeeps DEF Tasks
    <3>3. (InMail(w) => InMail(w)') /\ (AtHand(w) => AtHand(w)')
          /\ (Continuing(w) => Continuing(w)')
      BY <2>1, <2>3 DEF InMail, AtHand, Accepting, Continuing, Tasks
    <3>4. (Decided(w) => Decided(w)') /\ (Followed(w) => Followed(w)')
      BY <2>1, <3>1, <3>3 DEF KeepsOpen, Decided, Followed, UnderValidation, InInbox
    <3> QED BY <2>1, <2>3, <3>2, <3>3, <3>4 DEF FollowInv, Good
  <2> QED BY <2>4, <2>5
<1> QED BY <1>1, <1>2 DEF FromUsers

\* What the handlers of commands, and of completions that were not reported, have in
\* common.
LEMMA HandlerFrame ==
    ASSUME FollowInv, NEW message \in inbox \cup Silences,
           \/ HandleClaim(message) \/ HandleAcknowledge(message)
           \/ FinishFollowUp(message) \/ ReportCompletion(message) \/ Announce(message)
           \/ ReportIssues(message) \/ HandleVerdict(message)
    PROVE  /\ brain = Idle /\ UNCHANGED report /\ UNCHANGED asked /\ UNCHANGED replies
           /\ UNCHANGED WithIssues
           /\ inbox' \subseteq inbox /\ inbox \ {message} \subseteq inbox'
           /\ message.task \in Tasks /\ tasks[message.task] \in Rows /\ Exists(message.task)
           /\ \A m \in inbox : m.task \in Tasks
<1>1. UNCHANGED <<report, replies>> /\ brain = Idle /\ UNCHANGED asked
  BY DEF HandleClaim, HandleAcknowledge, FinishFollowUp, ReportCompletion, Announce,
     BeginReport, ReportIssues, HandleVerdict, Begin, BeginCompletion
<1>2. inbox' \subseteq inbox /\ inbox \ {message} \subseteq inbox'
  BY DEF HandleClaim, HandleAcknowledge, FinishFollowUp, ReportCompletion, Announce,
     BeginReport, ReportIssues, HandleVerdict, Close
<1>3. \A m \in inbox : m.task \in Tasks /\ Exists(m.task)
  BY DEF FollowInv, Sound, NamesExist, TypeOK, Messages, Reports, Verdicts
<1>4. message \in inbox \/ BeginCompletion(message)
  BY DEF HandleClaim, HandleAcknowledge, FinishFollowUp, ReportCompletion, Announce,
     BeginReport, ReportIssues, HandleVerdict, Begin
<1>5. message.task \in Tasks /\ Exists(message.task)
  BY <1>3, <1>4 DEF BeginCompletion, Silences
<1> QED BY <1>1, <1>2, <1>3, <1>5 DEF FollowInv, TypeOK, WithIssues

\* A completion that is not reported has no part in what the inbox says.
LEMMA SilentCompletion ==
    ASSUME FollowInv, NEW message \in inbox \cup Silences, BeginCompletion(message)
    PROVE  /\ message.kind # "verdict"
           /\ (message \in inbox /\ message.kind = "complete") \/ message \in Silences
           /\ ValidatorsJudge => message.task \notin Validations
BY DEF BeginCompletion, Silences, FollowInv, Sound, Judged

\* A handler that leaves the Brain idle, and every task where it was, is sound.
LEMMA SoundIdle ==
    ASSUME FollowInv, brain' = Idle, inbox' \subseteq inbox, UNCHANGED report,
           \A u \in Tasks : Exists(u) => Exists(u)',
           \A m \in inbox : m.task \in Tasks
    PROVE  Sound'
BY DEF FollowInv, Sound, JobsBacked, NamesExist, Judged, OwnReports, WithIssues, Idle, Tasks

\* A step that leaves the reports of issues alone, and adds nothing to the inbox.
LEMMA SoundKept ==
    ASSUME FollowInv, UNCHANGED report, inbox' \subseteq inbox, JobsBacked', NamesExist'
    PROVE  Sound'
BY DEF FollowInv, Sound, Judged, OwnReports, WithIssues

\* Work is good after a step that leaves the inbox alone and decides nothing.
LEMMA GoodApart ==
    ASSUME NEW w \in Work, Good(w), UNCHANGED inbox,
           Verified(w)' => Verified(w),
           tasks'[w].status = "completing" => tasks[w].status = "completing",
           KeepsOpen(w), InMail(w) => InMail(w)', AtHand(w) => AtHand(w)',
           ~Continuing(w)
    PROVE  Good(w)'
<1>1. (Decided(w) => Decided(w)') /\ (Followed(w) => Followed(w)')
  BY DEF KeepsOpen, Decided, Followed, UnderValidation, InInbox
<1> QED BY <1>1 DEF Good

LEMMA GoodAssigned ==
    ASSUME FollowInv, NEW message \in inbox,
           HandleClaim(message) \/ HandleAcknowledge(message)
    PROVE  Sound' /\ \A w \in Work : Good(w)'
<1> DEFINE t == message.task
<1>1. /\ message.kind \in {"claim", "acknowledge"} /\ brain' = Idle /\ message.arm \in Arms
  BY DEF HandleClaim, HandleAcknowledge, Begin, Close, FollowInv, TypeOK, Messages, Reports,
     Verdicts
<1>2. CASE UNCHANGED tasks
  <2>1. Sound' BY <1>1, <1>2, HandlerFrame, SoundIdle DEF Exists
  <2>2. ASSUME NEW w \in Work PROVE Good(w)'
    <3>1. /\ InMail(w)' = InMail(w) /\ ~AtHand(w) /\ ~Continuing(w)
          /\ Verified(w)' = Verified(w) /\ KeepsOpen(w)
      BY <1>2, HandlerFrame DEF InMail, AtHand, Accepting, Continuing, Idle, Verified, Exists, KeepsOpen
    <3> QED BY <1>1, <1>2, <3>1, HandlerFrame, GoodKept DEF FollowInv
  <2> QED BY <2>1, <2>2
<1>3. CASE \E status \in Held : Put(t, Assigned(tasks[t], status, message.arm))
  <2> PICK status \in Held : Put(t, Assigned(tasks[t], status, message.arm)) BY <1>3
  <2> DEFINE row == Assigned(tasks[t], status, message.arm)
  <2>1. TypeOK /\ t \in Tasks /\ Exists(t) /\ Put(t, row) BY HandlerFrame DEF FollowInv
  <2>2. row.status = status /\ row.review = tasks[t].review
    BY <1>1, HandlerFrame, RowValues DEF Statuses
  <2>3. row.status \notin Gone \cup {"completing"} BY <2>2 DEF Held, Gone
  <2>4. /\ \A u \in Tasks : Exists(u)' = Exists(u) /\ tasks'[u].review = tasks[u].review
        /\ \A w \in Work : Verified(w)' = Verified(w)
    BY <2>1, <2>2, <2>3, HandlerFrame, PutKeeps, PutKeepsExistence DEF Gone
  <2>5. Sound' BY <1>1, <2>4, HandlerFrame, SoundIdle
  <2>6. ASSUME NEW w \in Work PROVE Good(w)'
    <3>1. KeepsOpen(w) BY <2>1, <2>3, PutKeepsOpen
    <3>2. InMail(w)' = InMail(w) /\ ~AtHand(w) /\ ~Continuing(w)
      BY <2>4, HandlerFrame DEF InMail, AtHand, Accepting, Continuing, Idle, Tasks
    <3>3. tasks'[w].status = "completing" => tasks[w].status = "completing"
      BY <2>1, <2>3, PutKeeps DEF Tasks
    <3> QED BY <1>1, <2>4, <3>1, <3>2, <3>3, HandlerFrame, GoodKept DEF FollowInv
  <2> QED BY <2>5, <2>6
<1> QED BY <1>2, <1>3 DEF HandleClaim, HandleAcknowledge, Held

LEMMA GoodFinished ==
    ASSUME FollowInv, ValidatorsJudge, NEW message \in inbox \cup Silences,
           FinishFollowUp(message)
    PROVE  Sound' /\ \A w \in Work : Good(w)'
<1> DEFINE t == message.task
           row == Finalized(tasks[t])
<1>1. /\ message.kind # "verdict" /\ brain' = Idle
      /\ t \in FollowUps /\ t \notin Validations /\ t \notin Work
      /\ Put(t, row)
  BY SilentCompletion, TaskAssumption DEF FinishFollowUp, Close
<1>2. TypeOK /\ t \in Tasks /\ Exists(t) /\ row.status = "completed"
  BY HandlerFrame, UnheldValues DEF FollowInv, Statuses
<1>3. /\ \A u \in Tasks : Exists(u)' = Exists(u)
      /\ \A w \in Work : Verified(w)' = Verified(w)
  BY <1>1, <1>2, HandlerFrame, PutKeepsExistence
<1>4. Sound' BY <1>1, <1>3, HandlerFrame, SoundIdle
<1>5. ASSUME NEW w \in Work PROVE Good(w)'
  <2>1. KeepsOpen(w) BY <1>1, <1>2, PutKeepsOpen
  <2>2. tasks'[w] = tasks[w] BY <1>1, <1>2, PutKeeps DEF Tasks
  <2>3. InMail(w)' = InMail(w) /\ ~AtHand(w) /\ ~Continuing(w)
    BY <2>2, HandlerFrame DEF InMail, AtHand, Accepting, Continuing, Idle
  <2> QED BY <1>1, <1>3, <2>1, <2>2, <2>3, HandlerFrame, GoodKept DEF FollowInv
<1> QED BY <1>4, <1>5

LEMMA GoodReported ==
    ASSUME FollowInv, NEW message \in inbox \cup Silences, ReportCompletion(message)
    PROVE  Sound' /\ \A w \in Work : Good(w)'
<1> DEFINE t == message.task
           row == Reported(tasks[t])
<1>1. /\ (message \in inbox /\ message.kind = "complete") \/ message \in Silences
      /\ t \in Work \ WithIssues /\ Put(t, row)
      /\ brain' = [step |-> "validation", message |-> message] /\ UNCHANGED inbox
  BY SilentCompletion DEF ReportCompletion, BeginReport
<1>2. /\ TypeOK /\ t \in Tasks /\ Exists(t) /\ row.status = "completing"
      /\ row.review = tasks[t].review
  BY HandlerFrame, UnheldValues DEF FollowInv, Statuses
<1>3. /\ \A u \in Tasks : Exists(u)' = Exists(u)
      /\ \A w \in Work : Verified(w)' = Verified(w)
  BY <1>1, <1>2, HandlerFrame, PutKeepsExistence
<1>4. ~Verified(t)' BY <1>1, <1>3 DEF Verified
<1>5. Sound'
  <2>1. JobsBacked' BY <1>1, <1>4 DEF JobsBacked, Verified, Exists, WithIssues
  <2>2. NamesExist'
    BY <1>1, <1>3, HandlerFrame DEF NamesExist, FollowInv, Sound, Tasks
  <2> QED BY <1>1, <2>1, <2>2, HandlerFrame, SoundKept
<1>6. ASSUME NEW w \in Work PROVE Good(w)'
  <2>1. CASE w = t
    <3>1. AtHand(w)' BY <1>1, <2>1 DEF AtHand
    <3> QED BY <3>1, GoodDecided DEF Decided
  <2>2. CASE w # t
    <3>1. KeepsOpen(w) /\ tasks'[w] = tasks[w]
      BY <1>1, <1>2, <2>2, PutKeepsOpen, PutKeeps DEF Tasks, Gone
    <3>2. /\ InMail(w)' = InMail(w) /\ ~AtHand(w) /\ ~Continuing(w)
      BY <3>1, HandlerFrame DEF InMail, AtHand, Accepting, Continuing, Idle
    <3> QED BY <1>1, <1>3, <3>1, <3>2, HandlerFrame, GoodApart DEF FollowInv
  <2> QED BY <2>1, <2>2
<1> QED BY <1>5, <1>6

LEMMA GoodAnnounced ==
    ASSUME FollowInv, NEW message \in inbox \cup Silences, Announce(message)
    PROVE  Sound' /\ \A w \in Work : Good(w)'
<1> DEFINE t == message.task
           row == Finalized(tasks[t])
<1>1. /\ (message \in inbox /\ message.kind = "complete") \/ message \in Silences
      /\ t \in Work \ WithIssues /\ Put(t, row)
      /\ brain' = [step |-> "announced", message |-> message] /\ UNCHANGED inbox
  BY SilentCompletion DEF Announce, BeginReport
<1>2. /\ TypeOK /\ t \in Tasks /\ Exists(t) /\ row.status = "completed"
  BY HandlerFrame, UnheldValues DEF FollowInv, Statuses
<1>3. /\ \A u \in Tasks : Exists(u)' = Exists(u)
      /\ \A w \in Work : Verified(w)' = Verified(w)
  BY <1>1, <1>2, HandlerFrame, PutKeepsExistence
<1>4. ~Verified(t)' BY <1>1, <1>3 DEF Verified
<1>5. Sound'
  <2>1. JobsBacked' BY <1>1, <1>4 DEF JobsBacked, Verified, Exists, WithIssues
  <2>2. NamesExist'
    BY <1>1, <1>3, HandlerFrame DEF NamesExist, FollowInv, Sound, Tasks
  <2> QED BY <1>1, <2>1, <2>2, HandlerFrame, SoundKept
<1>6. ASSUME NEW w \in Work PROVE Good(w)'
  <2>1. CASE w = t BY <1>1, <1>2, <2>1, PutKeeps DEF Good
  <2>2. CASE w # t
    <3>1. KeepsOpen(w) /\ tasks'[w] = tasks[w]
      BY <1>1, <1>2, <2>2, TaskAssumption, PutKeepsOpen, PutKeeps DEF Tasks, FollowUps
    <3>2. /\ InMail(w)' = InMail(w) /\ ~AtHand(w) /\ ~Continuing(w)
      BY <3>1, HandlerFrame DEF InMail, AtHand, Accepting, Continuing, Idle
    <3> QED BY <1>1, <1>3, <3>1, <3>2, HandlerFrame, GoodApart DEF FollowInv
  <2> QED BY <2>1, <2>2
<1> QED BY <1>5, <1>6

LEMMA GoodIssues ==
    ASSUME FollowInv, NEW message \in inbox \cup Silences, ReportIssues(message)
    PROVE  Sound' /\ \A w \in Work : Good(w)'
<1> DEFINE t == message.task
<1>1. /\ (message \in inbox /\ message.kind = "complete") \/ message \in Silences
      /\ message.kind # "verdict" /\ t \in WithIssues /\ t \in Work
  BY SilentCompletion DEF ReportIssues, WithIssues
<1>2. CASE Verified(t) /\ Close(message) /\ UNCHANGED tasks
  <2>1. brain' = Idle BY <1>2 DEF Close
  <2>2. Sound' BY <1>2, <2>1, HandlerFrame, SoundIdle DEF Exists
  <2>3. ASSUME NEW w \in Work PROVE Good(w)'
    <3>1. /\ InMail(w)' = InMail(w) /\ ~AtHand(w) /\ ~Continuing(w)
          /\ Verified(w)' = Verified(w) /\ KeepsOpen(w)
      BY <1>2, HandlerFrame DEF InMail, AtHand, Accepting, Continuing, Idle, Verified, Exists,
         KeepsOpen
    <3>2. CASE w # t
      BY <1>1, <1>2, <3>1, <3>2, HandlerFrame, GoodKept DEF FollowInv
    <3>3. CASE w = t
      <4>1. tasks[w].status = "completing" => Decided(w)
        BY <1>2, <3>1, <3>3 DEF FollowInv, Good
      <4>2. Decided(w) => Decided(w)'
        BY <1>1, <3>1, HandlerFrame, FollowedKept DEF FollowInv
      <4> QED BY <1>2, <4>1, <4>2, GoodDecided DEF Good
    <3> QED BY <3>2, <3>3
  <2> QED BY <2>2, <2>3
<1>3. CASE /\ ~Verified(t)
           /\ Put(report[t], New("pending"))
           /\ brain' = [step |-> "issues", message |-> message]
           /\ UNCHANGED inbox
  <2> DEFINE f == report[t]
  <2>1. /\ TypeOK /\ f \in Tasks /\ f \notin Validations /\ f \notin Work
        /\ \A w \in WithIssues : report[w] = f => w = t
    BY <1>1, ReportNames, TaskAssumption DEF FollowInv, Sound, OwnReports, FollowUps
  <2> HIDE DEF f
  <2>2. tasks'[f].status = "pending" /\ \A u \in Tasks \ {f} : tasks'[u] = tasks[u]
    BY <1>3, <2>1, PutKeeps DEF New, f
  <2>3. \A u \in Tasks : Exists(u) => Exists(u)' BY <2>1, <2>2 DEF Exists
  <2>4. Sound'
    <3>1. JobsBacked' BY <1>1, <1>3 DEF JobsBacked
    <3>2. NamesExist'
      BY <1>3, <2>3, HandlerFrame DEF NamesExist, FollowInv, Sound, Tasks
    <3> QED BY <1>3, <3>1, <3>2, HandlerFrame, SoundKept
  <2>5. ASSUME NEW w \in Work PROVE Good(w)'
    <3>1. KeepsOpen(w) BY <1>3, <2>1, PutKeepsOpen DEF f
    <3>2. tasks'[w] = tasks[w] BY <2>1, <2>2 DEF Tasks
    <3>3. InMail(w)' = InMail(w) /\ ~AtHand(w) /\ ~Continuing(w)
      BY <3>2, HandlerFrame DEF InMail, AtHand, Accepting, Continuing, Idle
    <3>4. CASE w # t
      <4>1. w \in WithIssues => Exists(report[w])' = Exists(report[w])
        BY <2>1, <2>2, <3>4, ReportNames, HandlerFrame DEF Exists
      <4>2. Verified(w)' = Verified(w) BY <2>1, <4>1, HandlerFrame, VerifiedKept
      <4> QED BY <1>1, <1>3, <3>1, <3>2, <3>3, <4>2, HandlerFrame, GoodApart DEF FollowInv
    <3>5. CASE w = t
      <4>1. tasks'[w].status = "completing" => Followed(w)'
        BY <1>3, <3>1, <3>2, <3>3
           DEF FollowInv, Good, Followed, UnderValidation, InInbox, KeepsOpen
      <4>2. Continuing(w)' BY <1>3, <3>5 DEF Continuing
      <4> QED BY <4>1, <4>2 DEF Good
    <3> QED BY <3>4, <3>5
  <2> QED BY <2>4, <2>5
<1> QED BY <1>2, <1>3 DEF ReportIssues

LEMMA GoodVerdict ==
    ASSUME FollowInv, NEW message \in inbox, HandleVerdict(message)
    PROVE  Sound' /\ \A w \in Work : Good(w)'
<1> DEFINE v == About(message.task)
<1>1. /\ message.kind = "verdict" /\ UNCHANGED inbox
      /\ brain' = [step |-> "verdict", message |-> message]
  BY DEF HandleVerdict, Begin
<1>2. TypeOK /\ v \in Work /\ UNCHANGED report BY HandlerFrame, AboutWork DEF FollowInv
<1>3. /\ \A u \in Tasks : Exists(u) = Exists(u)' /\ tasks'[u].review = tasks[u].review
      /\ \A w \in Work : Verified(w)' = Verified(w) /\ tasks'[w] = tasks[w]
      /\ \A w \in Work : w # v => KeepsOpen(w)
  <2>1. CASE UNCHANGED tasks
    BY <1>2, <2>1 DEF Exists, Verified, WithIssues, KeepsOpen
  <2>2. CASE \E f \in FollowUpOf(message) : Put(f, Finalized(tasks[f]))
    <3> PICK f \in FollowUpOf(message) : Put(f, Finalized(tasks[f])) BY <2>2
    <3>1. f \in FollowUps /\ Of[f] = v /\ Exists(f)
      BY HandlerFrame, TaskAssumption DEF FollowUpOf, About
    <3>2. f \in Tasks /\ f \notin Work /\ tasks[f] \in Rows
      BY <1>2, <3>1, TaskAssumption DEF Tasks, TypeOK
    <3>3. /\ Finalized(tasks[f]).status = "completed"
          /\ Finalized(tasks[f]).review = tasks[f].review
      BY <3>2, UnheldValues DEF Statuses
    <3>4. \A w \in Work : w # v => KeepsOpen(w) BY <1>2, <3>1, <3>2, PutKeepsOpen
    <3> QED BY <1>2, <3>1, <3>2, <3>3, <3>4, PutKeeps, PutKeepsExistence DEF Tasks
  <2> QED BY <2>1, <2>2 DEF HandleVerdict
<1>4. Sound'
  <2>1. JobsBacked' BY <1>1 DEF JobsBacked
  <2>2. NamesExist' BY <1>1, <1>3, HandlerFrame DEF NamesExist, FollowInv, Sound, Tasks
  <2> QED BY <1>1, <1>2, <2>1, <2>2, SoundKept
<1>5. ASSUME NEW w \in Work PROVE Good(w)'
  <2>1. CASE w = v
    <3>1. Decided(w)' BY <1>1, <2>1 DEF Decided
    <3> QED BY <3>1, GoodDecided
  <2>2. CASE w # v
    <3>1. InMail(w)' = InMail(w) /\ ~AtHand(w) /\ ~Continuing(w)
      BY <1>3, HandlerFrame DEF InMail, AtHand, Accepting, Continuing, Idle
    <3> QED BY <1>1, <1>3, <2>2, <3>1, HandlerFrame, GoodKept DEF FollowInv
  <2> QED BY <2>1, <2>2
<1> QED BY <1>4, <1>5

\* What the second steps of a handler have in common.
LEMMA JobFrame ==
    ASSUME FollowInv,
           \/ ReportAnnounced \/ CreateValidation \/ CompleteWithIssues
           \/ Judge \/ RequestApproval
    PROVE  /\ UNCHANGED report /\ UNCHANGED replies /\ UNCHANGED WithIssues
           /\ inbox' \subseteq inbox /\ inbox \ {brain.message} \subseteq inbox'
           /\ brain.message.task \in Tasks /\ About(brain.message.task) \in Work
           /\ \A m \in inbox : m.task \in Tasks
           /\ brain.step # "approved"
<1>1. UNCHANGED report /\ UNCHANGED replies /\ brain.step # "approved"
  BY DEF ReportAnnounced, CreateValidation, CompleteWithIssues, Judge, RequestApproval
<1>2. inbox' \subseteq inbox /\ inbox \ {brain.message} \subseteq inbox'
  BY DEF ReportAnnounced, CreateValidation, CompleteWithIssues, Judge, RequestApproval, Close
<1>3. \A m \in inbox : m.task \in Tasks
  BY DEF FollowInv, TypeOK, Messages, Reports, Verdicts
<1>4. brain.message.task \in Tasks
  BY JobShapes DEF ReportAnnounced, CreateValidation, CompleteWithIssues, Judge,
     RequestApproval, FollowInv, TypeOK, Reports, Silences, Verdicts
<1> QED BY <1>1, <1>2, <1>3, <1>4, AboutWork DEF WithIssues

LEMMA GoodReportAnnounced ==
    ASSUME FollowInv, ReportAnnounced
    PROVE  Sound' /\ \A w \in Work : Good(w)'
<1> DEFINE t == brain.message.task
           row == Reported(tasks[t])
<1>1. /\ t \in Work /\ ~Verified(t) /\ Put(t, row)
      /\ UNCHANGED inbox /\ UNCHANGED asked /\ brain.step = "announced"
      /\ (brain.message \in inbox /\ brain.message.kind = "complete") \/ brain.message \in Silences
  BY DEF ReportAnnounced, FollowInv, Sound, JobsBacked
<1>2. brain'.step = "validation" /\ brain'.message = brain.message
  BY DEF ReportAnnounced, FollowInv, TypeOK, Jobs, Idle
<1>3. /\ TypeOK /\ t \in Tasks /\ t \notin Validations /\ Exists(t) /\ tasks[t] \in Rows
  BY <1>1, TaskAssumption DEF FollowInv, Tasks, FollowUps, Sound, NamesExist, TypeOK
<1>4. row.status = "completing" BY <1>3, UnheldValues DEF Statuses
<1>5. /\ \A u \in Tasks : Exists(u)' = Exists(u)
      /\ \A w \in Work : Verified(w)' = Verified(w)
  BY <1>1, <1>3, <1>4, JobFrame, PutKeepsExistence
<1>6. Sound'
  <2>1. ASSUME NEW w \in Work, w = t PROVE ~Verified(w)' BY <1>1, <1>5, <2>1
  <2>2. JobsBacked' BY <1>1, <1>2, <2>1 DEF JobsBacked
  <2>3. NamesExist'
    BY <1>1, <1>2, <1>5, JobFrame DEF NamesExist, FollowInv, Sound, Tasks
  <2> QED BY <1>1, <2>2, <2>3, JobFrame, SoundKept
<1>7. ASSUME NEW w \in Work PROVE Good(w)'
  <2>1. CASE w = t
    <3>1. AtHand(w)' BY <1>2, <2>1 DEF AtHand
    <3> QED BY <3>1, GoodDecided DEF Decided
  <2>2. CASE w # t
    <3>1. KeepsOpen(w) /\ tasks'[w] = tasks[w]
      BY <1>1, <1>3, <2>2, PutKeepsOpen, PutKeeps DEF Tasks
    <3>2. InMail(w)' = InMail(w) /\ ~AtHand(w) /\ ~Continuing(w)
      BY <1>1, <3>1, JobFrame DEF InMail, AtHand, Accepting, Continuing
    <3> QED BY <1>1, <1>5, <3>1, <3>2, GoodApart DEF FollowInv
  <2> QED BY <2>1, <2>2
<1> QED BY <1>6, <1>7

LEMMA GoodCreated ==
    ASSUME FollowInv, CreateValidation
    PROVE  Sound' /\ \A w \in Work : Good(w)'
<1> DEFINE t == brain.message.task
<1>1. /\ brain' = Idle /\ UNCHANGED asked /\ brain.step = "validation"
      /\ t \in Work /\ brain.message.kind # "verdict"
  BY DEF CreateValidation, Close, FollowInv, Sound, JobsBacked, Silences
<1> PICK f \in FreshFor(t, Validations) : Put(f, New("pending")) BY DEF CreateValidation
<1>2. /\ TypeOK /\ f \in Tasks /\ f \in Validations /\ f \notin Verifications /\ f \notin Work
      /\ Of[f] = t
  BY TaskAssumption DEF FreshFor, FollowInv, Tasks, FollowUps
<1>3. tasks'[f].status = "pending" /\ \A u \in Tasks \ {f} : tasks'[u] = tasks[u]
  BY <1>2, PutKeeps DEF New
<1>4. \A u \in Tasks : Exists(u) => Exists(u)' BY <1>2, <1>3 DEF Exists
<1>5. \A w \in Work : Verified(w)' = Verified(w)
  <2>1. \A w \in WithIssues : Exists(report[w])' = Exists(report[w])
    BY <1>2, <1>3, ReportNames, JobFrame DEF Exists
  <2> QED BY <1>2, <2>1, JobFrame, VerifiedKept
<1>6. Sound' BY <1>1, <1>4, JobFrame, SoundIdle
<1>7. ASSUME NEW w \in Work PROVE Good(w)'
  <2>1. CASE w = t
    <3>1. UnderValidation(w)' BY <1>2, <1>3, <2>1 DEF UnderValidation, Gone
    <3> QED BY <3>1, GoodDecided DEF Decided
  <2>2. CASE w # t
    <3>1. KeepsOpen(w) /\ tasks'[w] = tasks[w]
      BY <1>2, <1>3, <2>2, PutKeepsOpen DEF Tasks
    <3>2. InMail(w)' = InMail(w) /\ ~AtHand(w) /\ ~Continuing(w)
      BY <1>1, <2>2, <3>1, JobFrame DEF InMail, AtHand, Accepting, Continuing
    <3> QED BY <1>1, <1>5, <2>2, <3>1, <3>2, JobFrame, GoodKept DEF FollowInv
  <2> QED BY <2>1, <2>2
<1> QED BY <1>6, <1>7

LEMMA GoodWithIssues ==
    ASSUME FollowInv, CompleteWithIssues
    PROVE  Sound' /\ \A w \in Work : Good(w)'
<1> DEFINE t == brain.message.task
           row == Finalized(tasks[t])
<1>1. /\ brain' = Idle /\ UNCHANGED asked /\ brain.step = "issues"
      /\ brain.message.kind # "verdict" /\ t \in Work /\ Put(t, row)
  BY DEF CompleteWithIssues, Close, FollowInv, Sound, JobsBacked, Silences
<1>2. /\ TypeOK /\ t \in Tasks /\ t \notin Validations /\ Exists(t) /\ tasks[t] \in Rows
  BY <1>1, TaskAssumption DEF FollowInv, Tasks, FollowUps, Sound, NamesExist, TypeOK
<1>3. row.status = "completed" BY <1>2, UnheldValues DEF Statuses
<1>4. /\ \A u \in Tasks : Exists(u)' = Exists(u)
      /\ \A w \in Work : Verified(w)' = Verified(w)
  BY <1>1, <1>2, <1>3, JobFrame, PutKeepsExistence
<1>5. Sound' BY <1>1, <1>4, JobFrame, SoundIdle
<1>6. ASSUME NEW w \in Work PROVE Good(w)'
  <2>1. CASE w = t
    BY <1>1, <1>2, <1>3, <2>1, PutKeeps DEF Good
  <2>2. CASE w # t
    <3>1. KeepsOpen(w) /\ tasks'[w] = tasks[w]
      BY <1>1, <1>2, <2>2, PutKeepsOpen, PutKeeps DEF Tasks
    <3>2. InMail(w)' = InMail(w) /\ ~AtHand(w) /\ ~Continuing(w)
      BY <1>1, <2>2, <3>1, JobFrame DEF InMail, AtHand, Accepting, Continuing
    <3> QED BY <1>1, <1>4, <2>2, <3>1, <3>2, JobFrame, GoodKept DEF FollowInv
  <2> QED BY <2>1, <2>2
<1> QED BY <1>5, <1>6

LEMMA GoodJudge ==
    ASSUME FollowInv, Judge
    PROVE  Sound' /\ \A w \in Work : Good(w)'
<1> DEFINE m == brain.message
           v == About(m.task)
<1>1. /\ TypeOK /\ brain.step = "verdict" /\ m.kind = "verdict" /\ m \in inbox
      /\ v \in Work /\ v \in Tasks /\ v \notin Validations
  BY JobFrame, JobShapes, TaskAssumption
     DEF Judge, FollowInv, TypeOK, Verdicts, Tasks, FollowUps, Sound, JobsBacked
<1>2. Exists(v) /\ tasks[v] \in Rows
  BY <1>1 DEF FollowInv, Sound, NamesExist, TypeOK
<1>3. CASE m.approved
  <2> DEFINE row == UnderReview(tasks[v])
  <2>1. /\ Put(v, row) /\ UNCHANGED inbox /\ brain' = [brain EXCEPT !.step = "request"]
        /\ asked' = asked \ {v}
        /\ row.status = "completing" /\ row.review = "pending"
    BY <1>2, <1>3, UnheldValues DEF Judge, Statuses
  <2>2. brain'.step = "request" /\ brain'.message = m
    BY <1>1, <2>1 DEF TypeOK, Jobs, Idle
  <2>3. /\ \A u \in Tasks : Exists(u)' = Exists(u)
        /\ \A w \in Work : Verified(w)' = Verified(w)
    BY <1>1, <1>2, <2>1, JobFrame, PutKeepsExistence
  <2>4. tasks'[v] = row /\ \A u \in Tasks \ {v} : tasks'[u] = tasks[u]
    BY <1>1, <2>1, PutKeeps
  <2>5. Sound'
    <3>1. JobsBacked' BY <1>1, <2>1, <2>2, <2>4 DEF JobsBacked, About
    <3>2. NamesExist'
      BY <2>1, <2>2, <2>3, JobFrame DEF NamesExist, FollowInv, Sound, Tasks
    <3> QED BY <2>1, <3>1, <3>2, JobFrame, SoundKept
  <2>6. ASSUME NEW w \in Work PROVE Good(w)'
    <3>1. CASE w = v
      <4>1. Decided(w)' BY <1>1, <2>1, <3>1 DEF Decided, About
      <4> QED BY <4>1, GoodDecided
    <3>2. CASE w # v
      <4>1. KeepsOpen(w) /\ tasks'[w] = tasks[w]
        BY <1>1, <2>1, <2>4, <3>2, PutKeepsOpen DEF Tasks
      <4>2. InMail(w)' = InMail(w) /\ ~AtHand(w) /\ ~Continuing(w)
        BY <1>1, <2>1, <3>2, <4>1, JobFrame DEF InMail, AtHand, Accepting, Continuing
      <4> QED BY <2>1, <2>3, <4>1, <4>2, GoodApart DEF FollowInv
    <3> QED BY <3>1, <3>2
  <2> QED BY <2>5, <2>6
<1>4. CASE ~m.approved
  <2> DEFINE row == Released(tasks[v], "pending")
  <2>1. Put(v, row) /\ brain' = Idle /\ row.status = "pending" /\ UNCHANGED asked
    BY <1>2, <1>4, UnheldValues DEF Judge, Close, Statuses
  <2>2. /\ \A u \in Tasks : Exists(u)' = Exists(u)
        /\ \A w \in Work : Verified(w)' = Verified(w)
    BY <1>1, <1>2, <2>1, JobFrame, PutKeepsExistence
  <2>3. tasks'[v] = row /\ \A u \in Tasks \ {v} : tasks'[u] = tasks[u]
    BY <1>1, <2>1, PutKeeps
  <2>4. Sound' BY <2>1, <2>2, JobFrame, SoundIdle
  <2>5. ASSUME NEW w \in Work PROVE Good(w)'
    <3>1. CASE w = v BY <2>1, <2>3, <3>1 DEF Good
    <3>2. CASE w # v
      <4>1. KeepsOpen(w) /\ tasks'[w] = tasks[w]
        BY <1>1, <2>1, <2>3, <3>2, PutKeepsOpen DEF Tasks
      <4>2. InMail(w)' = InMail(w) /\ ~AtHand(w) /\ ~Continuing(w)
        BY <1>1, <2>1, <4>1, JobFrame DEF InMail, AtHand, Accepting, Continuing
      <4> QED BY <1>1, <2>2, <3>2, <4>1, <4>2, JobFrame, GoodKept DEF FollowInv
    <3> QED BY <3>1, <3>2
  <2> QED BY <2>4, <2>5
<1> QED BY <1>3, <1>4

LEMMA GoodRequested ==
    ASSUME FollowInv, RequestApproval
    PROVE  Sound' /\ \A w \in Work : Good(w)'
<1> DEFINE m == brain.message
           v == About(m.task)
<1>1. /\ brain.step = "request" /\ m.kind = "verdict" /\ tasks[v].review = "pending"
      /\ asked' = asked \cup {v} /\ brain' = Idle /\ UNCHANGED tasks
  BY JobShapes
     DEF RequestApproval, Close, FollowInv, TypeOK, Verdicts, Sound, JobsBacked
<1>2. \A w \in Work : Verified(w)' = Verified(w) /\ KeepsOpen(w)
  BY <1>1, JobFrame DEF Verified, WithIssues, Exists, KeepsOpen
<1>3. Sound' BY <1>1, JobFrame, SoundIdle DEF Exists
<1>4. ASSUME NEW w \in Work PROVE Good(w)'
  <2>1. CASE w = v
    <3>1. InMail(w)' BY <1>1, <2>1 DEF InMail
    <3> QED BY <3>1, GoodDecided DEF Decided
  <2>2. CASE w # v
    <3>1. (InMail(w) => InMail(w)') /\ ~AtHand(w) /\ ~Continuing(w)
      BY <1>1, JobFrame DEF InMail, AtHand, Accepting, Continuing
    <3> QED BY <1>1, <1>2, <2>2, <3>1, JobFrame, GoodKept DEF FollowInv
  <2> QED BY <2>1, <2>2
<1> QED BY <1>3, <1>4

LEMMA GoodAnswered ==
    ASSUME FollowInv, NEW reply \in replies, Answer(reply)
    PROVE  Sound' /\ \A w \in Work : Good(w)'
<1> DEFINE v == reply.task
<1>1. /\ TypeOK /\ brain = Idle /\ UNCHANGED report /\ UNCHANGED inbox /\ UNCHANGED asked
      /\ v \in Work /\ v \in Tasks /\ v \notin Validations
      /\ \A m \in inbox : m.task \in Tasks
  BY TaskAssumption
     DEF Answer, FollowInv, TypeOK, Replies, Tasks, FollowUps, Messages, Reports, Verdicts
<1>2. Exists(v) /\ tasks[v] \in Rows
  BY <1>1 DEF FollowInv, Sound, NamesExist, TypeOK
<1>3. ASSUME NEW w \in Work PROVE ~AtHand(w) /\ ~Continuing(w)
  BY <1>1 DEF AtHand, Accepting, Continuing, Idle
<1>4. \A other \in replies : other.task # v => other \in replies'
  BY DEF Answer
<1>5. CASE /\ Put(v, [tasks[v] EXCEPT !.review = "approved"])
           /\ brain' = [step |-> "approved", reply |-> reply]
  <2>1. [tasks[v] EXCEPT !.review = "approved"].status = tasks[v].status
    BY <1>2 DEF Rows
  <2>2. /\ \A u \in Tasks : Exists(u)' = Exists(u)
        /\ \A w \in Work : Verified(w)' = Verified(w)
    BY <1>1, <1>2, <1>5, <2>1, PutKeepsExistence DEF Exists
  <2>3. Sound'
    BY <1>1, <1>5, <2>2, SoundKept DEF FollowInv, Sound, JobsBacked, NamesExist, Tasks
  <2>4. ASSUME NEW w \in Work PROVE Good(w)'
    <3>1. CASE w = v
      <4>1. Decided(w)' BY <1>5, <3>1 DEF Decided, AtHand, Accepting
      <4> QED BY <4>1, GoodDecided
    <3>2. CASE w # v
      <4>1. KeepsOpen(w) /\ tasks'[w] = tasks[w]
        BY <1>1, <1>5, <3>2, PutKeepsOpen, PutKeeps DEF Tasks
      <4>2. InMail(w) => InMail(w)' BY <1>1, <1>4, <3>2, <4>1 DEF InMail
      <4> QED BY <1>1, <1>3, <2>2, <4>1, <4>2, GoodApart DEF FollowInv
    <3> QED BY <3>1, <3>2
  <2> QED BY <2>3, <2>4
<1>6. CASE /\ Put(v, [Released(tasks[v], "pending") EXCEPT !.review = "rejected"])
           /\ UNCHANGED brain
  <2> DEFINE row == [Released(tasks[v], "pending") EXCEPT !.review = "rejected"]
  <2>1. row.status = "pending" BY <1>2, UnheldValues DEF Statuses
  <2>2. /\ \A u \in Tasks : Exists(u)' = Exists(u)
        /\ \A w \in Work : Verified(w)' = Verified(w)
    BY <1>1, <1>2, <1>6, <2>1, PutKeepsExistence
  <2>3. Sound' BY <1>1, <1>6, <2>2, SoundIdle
  <2>4. ASSUME NEW w \in Work PROVE Good(w)'
    <3>1. CASE w = v
      <4>1. tasks'[w].status = "pending" BY <1>1, <1>6, <2>1, <3>1, PutKeeps
      <4> QED BY <4>1 DEF Good
    <3>2. CASE w # v
      <4>1. KeepsOpen(w) /\ tasks'[w] = tasks[w]
        BY <1>1, <1>6, <3>2, PutKeepsOpen, PutKeeps DEF Tasks
      <4>2. InMail(w) => InMail(w)' BY <1>1, <1>4, <3>2, <4>1 DEF InMail
      <4> QED BY <1>1, <1>3, <2>2, <4>1, <4>2, GoodApart DEF FollowInv
    <3> QED BY <3>1, <3>2
  <2> QED BY <2>3, <2>4
<1>7. CASE tasks[v].review # "pending" /\ UNCHANGED <<tasks, brain>>
  <2>1. Sound' BY <1>1, <1>7, SoundIdle DEF Exists
  <2>2. ASSUME NEW w \in Work PROVE Good(w)'
    <3>1. Verified(w)' = Verified(w) /\ KeepsOpen(w) /\ (InMail(w) => InMail(w)')
      BY <1>1, <1>4, <1>7 DEF Verified, WithIssues, Exists, KeepsOpen, InMail
    <3> QED BY <1>1, <1>3, <1>7, <3>1, GoodApart DEF FollowInv
  <2> QED BY <2>1, <2>2
<1> QED BY <1>5, <1>6, <1>7 DEF Answer

LEMMA GoodFinalized ==
    ASSUME FollowInv, FinalizeApproved
    PROVE  Sound' /\ \A w \in Work : Good(w)'
<1> DEFINE v == brain.reply.task
           row == Finalized(tasks[v])
<1>1. /\ TypeOK /\ brain.step = "approved" /\ brain' = Idle
      /\ UNCHANGED report /\ UNCHANGED inbox /\ UNCHANGED asked
      /\ replies' = replies \ {brain.reply}
      /\ v \in Work /\ v \in Tasks /\ v \notin Validations /\ Put(v, row)
      /\ \A m \in inbox : m.task \in Tasks
  BY TaskAssumption, JobShapes
     DEF FinalizeApproved, FollowInv, TypeOK, Replies, Tasks, FollowUps, Messages, Reports,
         Verdicts
<1>2. Exists(v) /\ tasks[v] \in Rows
  BY <1>1 DEF FollowInv, Sound, NamesExist, TypeOK
<1>3. row.status = "completed" BY <1>2, UnheldValues DEF Statuses
<1>4. /\ \A u \in Tasks : Exists(u)' = Exists(u)
      /\ \A w \in Work : Verified(w)' = Verified(w)
  BY <1>1, <1>2, <1>3, PutKeepsExistence
<1>5. Sound' BY <1>1, <1>4, SoundIdle
<1>6. ASSUME NEW w \in Work PROVE Good(w)'
  <2>1. CASE w = v
    <3>1. tasks'[w].status = "completed" BY <1>1, <1>3, <2>1, PutKeeps
    <3> QED BY <3>1 DEF Good
  <2>2. CASE w # v
    <3>1. KeepsOpen(w) /\ tasks'[w] = tasks[w]
      BY <1>1, <2>2, PutKeepsOpen, PutKeeps DEF Tasks
    <3>2. (InMail(w) => InMail(w)') /\ ~AtHand(w) /\ ~Continuing(w)
      BY <1>1, <2>2, <3>1 DEF InMail, AtHand, Accepting, Continuing
    <3> QED BY <1>1, <1>4, <3>1, <3>2, GoodApart DEF FollowInv
  <2> QED BY <2>1, <2>2
<1> QED BY <1>5, <1>6

LEMMA GoodGate ==
    ASSUME FollowInv, Gate
    PROVE  Sound' /\ \A w \in Work : Good(w)'
<1>1. /\ TypeOK /\ UNCHANGED <<report, inbox, asked, replies>>
      /\ \A m \in inbox : m.task \in Tasks
      /\ \A w \in Work : ~AtHand(w) /\ ~Continuing(w)
  BY DEF Gate, PlanFailure, PlanMended, GateTask, GateDone, AtHand, Accepting, Continuing, Idle,
     FollowInv, TypeOK, Messages, Reports, Verdicts
<1>2. CASE UNCHANGED tasks /\ (PlanFailure \/ PlanMended \/ GateDone)
  <2>1. brain'.step \in {"blocking", "resuming"} => \A t \in brain'.left : Exists(t)'
    BY <1>2 DEF PlanFailure, PlanMended, GateDone, Idle, Exists, Held
  <2>2. brain'.step \in {"idle", "blocking", "resuming"}
    BY <1>2 DEF PlanFailure, PlanMended, GateDone, Idle
  <2>3. Sound'
    BY <1>1, <1>2, <2>1, <2>2, SoundKept DEF FollowInv, Sound, JobsBacked, NamesExist, Exists
  <2>4. ASSUME NEW w \in Work PROVE Good(w)'
    <3>1. Verified(w)' = Verified(w) /\ KeepsOpen(w) /\ InMail(w)' = InMail(w)
      BY <1>1, <1>2 DEF Verified, WithIssues, Exists, KeepsOpen, InMail
    <3> QED BY <1>1, <1>2, <3>1, GoodApart DEF FollowInv
  <2> QED BY <2>3, <2>4
<1>3. CASE \E t \in Tasks : GateTask(t)
  <2> PICK t \in Tasks : GateTask(t) BY <1>3
  <2> DEFINE row == Released(tasks[t], Target)
  <2>1. /\ Put(t, row) /\ row.status \in {"blocked", "pending"}
        /\ row.review = tasks[t].review
    BY <1>1, UnheldValues DEF GateTask, Target, TypeOK, Statuses
  <2>2. brain.left \subseteq Tasks /\ Exists(t)
    BY <1>1, JobShapes DEF GateTask, TypeOK, FollowInv, Sound, NamesExist
  <2>3. brain'.step \in {"blocking", "resuming"} /\ brain'.left = brain.left \ {t}
    BY <1>1 DEF GateTask, TypeOK, Jobs, Idle
  <2>4. /\ \A u \in Tasks : Exists(u)' = Exists(u) /\ tasks'[u].review = tasks[u].review
        /\ \A w \in Work : Verified(w)' = Verified(w)
    BY <1>1, <2>1, <2>2, PutKeeps, PutKeepsExistence
  <2>5. Sound'
    <3>1. JobsBacked' BY <2>3 DEF JobsBacked
    <3>2. \A u \in brain'.left : Exists(u)'
      BY <2>2, <2>3, <2>4 DEF GateTask, FollowInv, Sound, NamesExist
    <3>3. NamesExist' BY <1>1, <2>4, <3>2 DEF NamesExist, FollowInv, Sound, Tasks
    <3> QED BY <1>1, <3>1, <3>3, SoundKept
  <2>6. ASSUME NEW w \in Work PROVE Good(w)'
    <3>1. KeepsOpen(w) BY <1>1, <2>1, PutKeepsOpen DEF Gone
    <3>2. tasks'[w].status = "completing" => tasks[w].status = "completing"
      BY <1>1, <2>1, PutKeeps DEF Tasks
    <3>3. InMail(w)' = InMail(w) /\ (AtHand(w) => AtHand(w)')
      BY <1>1, <2>4 DEF InMail, Tasks
    <3> QED BY <1>1, <2>4, <3>1, <3>2, <3>3, GoodApart DEF FollowInv
  <2> QED BY <2>5, <2>6
<1> QED BY <1>2, <1>3 DEF Gate, PlanFailure, PlanMended, GateDone

\* What a crash may not cut off for completing work to be followed up: an approval, the
\* completion of work with issues, and a completion that no command would resume.
Resumed == CrashDuring \cap {"approved", "issues", "silent"} = {}

\* A crash loses the Brain's intention, not the command or reply it came from.
LEMMA GoodCrash ==
    ASSUME FollowInv, Crash, Resumed
    PROVE  Sound' /\ \A w \in Work : Good(w)'
<1>1. /\ UNCHANGED <<tasks, report, inbox, asked, replies>> /\ brain' = Idle
      /\ \A m \in inbox : m.task \in Tasks
  BY DEF Crash, FollowInv, TypeOK, Messages, Reports, Verdicts
<1>2. /\ brain.step \notin {"approved", "issues"}
      /\ brain.step = "validation" =>
           brain.message \in inbox /\ brain.message.kind = "complete"
  BY DEF Crash, Job, Resumed, FollowInv, Sound, JobsBacked
<1>3. Sound' BY <1>1, SoundIdle DEF Exists
<1>4. ASSUME NEW w \in Work PROVE Good(w)'
  <2>1. Verified(w)' = Verified(w) /\ KeepsOpen(w) /\ InMail(w)' = InMail(w)
    BY <1>1 DEF Verified, WithIssues, Exists, KeepsOpen, InMail
  <2>2. CASE AtHand(w)
    <3>1. brain.step = "validation" /\ brain.message.task = w
      BY <1>2, <2>2 DEF AtHand, Accepting
    <3>2. InInbox(w)' BY <1>1, <1>2, <3>1 DEF InInbox
    <3>3. ~Verified(w)' BY <2>1, <3>1 DEF FollowInv, Sound, JobsBacked
    <3> QED BY <3>2, <3>3 DEF Good, Followed
  <2>3. CASE ~AtHand(w)
    <3>1. ~Continuing(w) BY <1>2 DEF Continuing
    <3> QED BY <1>1, <2>1, <2>3, <3>1, GoodApart DEF FollowInv
  <2> QED BY <2>2, <2>3
<1> QED BY <1>3, <1>4

LEMMA FollowStep ==
    ASSUME ValidatorsJudge, Resumed
    PROVE  FollowInv /\ [Next]_vars => FollowInv'
<1> SUFFICES ASSUME FollowInv, [Next]_vars PROVE FollowInv' OBVIOUS
<1>1. TypeOK' BY TypeStep DEF FollowInv
<1>2. CASE FromArms \/ FromUsers BY <1>1, <1>2, GoodFromArms, GoodFromUsers DEF FollowInv
<1>3. CASE Handlers
  <2>1. CASE \E message \in inbox :
                HandleClaim(message) \/ HandleAcknowledge(message) \/ HandleVerdict(message)
    BY <1>1, <2>1, GoodAssigned, GoodVerdict DEF FollowInv
  <2>2. CASE \E message \in inbox \cup Silences :
                FinishFollowUp(message) \/ ReportCompletion(message)
                \/ Announce(message) \/ ReportIssues(message)
    BY <1>1, <2>2, GoodFinished, GoodReported, GoodAnnounced, GoodIssues DEF FollowInv
  <2>3. CASE \E reply \in replies : Answer(reply)
    BY <1>1, <2>3, GoodAnswered DEF FollowInv
  <2>4. CASE ReportAnnounced \/ CreateValidation \/ CompleteWithIssues \/ Judge
             \/ RequestApproval \/ FinalizeApproved
    BY <1>1, <2>4, GoodReportAnnounced, GoodCreated, GoodWithIssues, GoodJudge,
       GoodRequested, GoodFinalized
       DEF FollowInv
  <2> QED BY <1>3, <2>1, <2>2, <2>3, <2>4 DEF Handlers
<1>4. CASE Gate \/ Crash BY <1>1, <1>4, GoodGate, GoodCrash DEF FollowInv
<1>5. CASE UNCHANGED vars
  <2>1. UNCHANGED <<tasks, report, inbox, asked, replies, brain>> BY <1>5 DEF vars
  <2>2. UNCHANGED WithIssues /\ \A w \in Work : Verified(w)' = Verified(w)
    BY <2>1 DEF WithIssues, Verified, Exists
  <2>3. Sound'
    BY <2>1, <2>2 DEF FollowInv, Sound, JobsBacked, NamesExist, Judged, OwnReports, Exists
  <2>4. \A w \in Work : Good(w)'
    BY <2>1, <2>2
       DEF FollowInv, Good, Followed, Decided, UnderValidation, InMail, InInbox, AtHand,
           Accepting, Continuing
  <2> QED BY <1>1, <2>3, <2>4 DEF FollowInv
<1> QED BY <1>2, <1>3, <1>4, <1>5 DEF Next

\* Work that was reported complete, or that the Brain took for complete, is never
\* forgotten in completing, whatever commands are handled twice, tasks moved and polls
\* crashed, provided that validations end by the verdict of an arm and that the Brain
\* does not crash between the PATCHes of an approval, of the completion of work with
\* issues, or of a completion that no command asked for.
THEOREM CompletingIsFollowed ==
    ASSUME ValidatorsJudge, Resumed
    PROVE  Spec => []CompletingFollowed
<1>1. Init => FollowInv
  <2> SUFFICES ASSUME Init PROVE FollowInv OBVIOUS
  <2>1. WithIssues = {} BY DEF Init, WithIssues
  <2>2. Sound
    BY <2>1, TaskAssumption
    DEF Init, Sound, JobsBacked, NamesExist, Judged, OwnReports, Idle, Exists, New, Tasks
  <2>3. ASSUME NEW w \in Work PROVE Good(w)
    BY TaskAssumption DEF Init, Good, New, Tasks, FollowUps
  <2> QED BY <2>2, <2>3, TypeInit DEF FollowInv
<1>2. FollowInv => CompletingFollowed
  BY DEF FollowInv, Good, Followed, CompletingFollowed
<1>3. FollowInv /\ [Next]_vars => FollowInv' BY FollowStep
<1> QED BY <1>1, <1>2, <1>3, PTL DEF Spec
=============================================================================
