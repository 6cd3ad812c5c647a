------------------------ MODULE BlockedReviewProofs ------------------------
(***************************************************************************)
(* Theorems about BlockedReview, for any finite set of tasks and any arms. *)
(*                                                                         *)
(* The inductive invariant says, besides the types, that the gate's list   *)
(* names no task under review (GateMeetsNoReview), that the arms of a plan *)
(* differ and have no review under way (PlanIsFree), that a blocker no     *)
(* review is made of is the gate's or a user's and is on the list while    *)
(* the gate opens (Waiting), and that what the Brain read still holds for  *)
(* the tasks nobody else has changed (ReadHolds).                          *)
(***************************************************************************)
EXTENDS BlockedReview, FiniteSetTheorems, TLAPS

-----------------------------------------------------------------------------
(* Types *)

BoardOK ==
    /\ task \in [Tasks -> TaskRows]
    /\ due \subseteq {t \in Tasks : IsBlocked(t) /\ ~task[t].parked}
    /\ ahead \in [Tasks -> SUBSET due]
    /\ \A t \in Tasks : t \notin ahead[t] /\ (t \notin due => ahead[t] = {})

BrainOK ==
    /\ pc \in Stages
    /\ list \subseteq Tasks
    /\ plan \in Seq([task: Tasks, arm: Arms])
    /\ held \in Results \cup Tasks \cup {Nothing}
    /\ pc \in {"deciding", "notifying"} => held \in Results
    /\ pc = "releasing" => held \in Tasks
    /\ pc = "prompting" => plan # <<>>
    /\ stale \subseteq Tasks /\ edited \subseteq Tasks

\* While the gate goes down, no task it lists is under review.
GateMeetsNoReview == At("gating") => \A t \in list : task[t].reviewer = NoArm

LEMMA TypeParts == TypeOK <=> BoardOK /\ BrainOK
  BY DEF TypeOK, BoardOK, BrainOK

LEMMA RowFields ==
    ASSUME NEW row \in TaskRows
    PROVE  /\ row.status \in {"pending", "active", "done", "cancelled", "blocked"}
           /\ row.reviewer \in Arms \cup {NoArm}
           /\ row.parked \in BOOLEAN
           /\ row.status # "blocked" => row.reviewer = NoArm
           /\ row.status = "blocked" => row = Blocked(row.category, row.reviewer, row.parked)
           /\ row.status = "blocked" => row.category \in Categories
           /\ row.reviewer # NoArm => row.category = "other" /\ row.parked = FALSE
  BY DEF TaskRows, Open, Opened, Blocked

LEMMA OpenedIsRow ==
    ASSUME NEW status \in Open
    PROVE  Opened(status) \in TaskRows
  BY DEF TaskRows, Open, Opened

LEMMA BlockedIsRow ==
    ASSUME NEW category \in Categories, NEW reviewer \in Arms \cup {NoArm},
           NEW parked \in BOOLEAN,
           reviewer # NoArm => category = "other" /\ parked = FALSE
    PROVE  Blocked(category, reviewer, parked) \in TaskRows
  BY DEF TaskRows, Blocked, Open, Opened, Categories

\* A row changes and its task leaves the queue.
LEMMA LeaveTyped ==
    ASSUME BoardOK, NEW t \in Tasks, NEW row \in TaskRows,
           task' = [task EXCEPT ![t] = row], Leave(t)
    PROVE  BoardOK'
  <1>1. task' \in [Tasks -> TaskRows] /\ task'[t] = row /\ \A u \in Tasks \ {t} : task'[u] = task[u]
    BY DEF BoardOK
  <1>2. due' \subseteq {u \in Tasks : IsBlocked(u)' /\ ~task'[u].parked}
    BY <1>1 DEF BoardOK, Leave, IsBlocked
  <1>3. ahead' \in [Tasks -> SUBSET due']
    BY DEF BoardOK, Leave
  <1>4. \A u \in Tasks : u \notin ahead'[u] /\ (u \notin due' => ahead'[u] = {})
    BY DEF BoardOK, Leave
  <1> QED BY <1>1, <1>2, <1>3, <1>4 DEF BoardOK

\* A row changes and keeps its place in the queue.
LEMMA StayTyped ==
    ASSUME BoardOK, NEW t \in Tasks, NEW row \in TaskRows,
           task' = [task EXCEPT ![t] = row], UNCHANGED <<due, ahead>>,
           t \in due => row.status = "blocked" /\ ~row.parked
    PROVE  BoardOK'
  <1>1. task' \in [Tasks -> TaskRows] /\ task'[t] = row /\ \A u \in Tasks \ {t} : task'[u] = task[u]
    BY DEF BoardOK
  <1> QED BY <1>1 DEF BoardOK, IsBlocked

\* A blocked task joins the end of the queue.
LEMMA JoinTyped ==
    ASSUME BoardOK, NEW t \in Tasks, NEW row \in TaskRows,
           row.status = "blocked", ~row.parked,
           task' = [task EXCEPT ![t] = row], Join(t)
    PROVE  BoardOK'
  <1>1. task' \in [Tasks -> TaskRows] /\ task'[t] = row /\ \A u \in Tasks \ {t} : task'[u] = task[u]
    BY DEF BoardOK
  <1>2. due' \subseteq {u \in Tasks : IsBlocked(u)' /\ ~task'[u].parked}
    BY <1>1 DEF BoardOK, Join, IsBlocked
  <1>3. ahead' \in [Tasks -> SUBSET due']
    BY DEF BoardOK, Join
  <1>4. \A u \in Tasks : u \notin ahead'[u] /\ (u \notin due' => ahead'[u] = {})
    BY DEF BoardOK, Join
  <1> QED BY <1>1, <1>2, <1>3, <1>4 DEF BoardOK

LEMMA SetOpenTyped ==
    ASSUME BoardOK, NEW t \in Tasks, NEW status \in Open, SetOpen(t, status)
    PROVE  BoardOK'
  <1>1. Opened(status) \in TaskRows BY OpenedIsRow
  <1> QED BY <1>1, LeaveTyped DEF SetOpen

LEMMA SetReviewerTyped ==
    ASSUME BoardOK, NEW t \in Tasks, NEW reviewer \in Arms \cup {NoArm}, SetReviewer(t, reviewer)
    PROVE  BoardOK'
  <1>1. Blocked("other", reviewer, FALSE) \in TaskRows BY BlockedIsRow DEF Categories
  <1> QED BY <1>1, LeaveTyped DEF SetReviewer

LEMMA SetBlockedTyped ==
    ASSUME BoardOK, NEW t \in Tasks, NEW category \in {"planning", "other"}, SetBlocked(t, category),
           category = "planning" => task[t].reviewer = NoArm
    PROVE  BoardOK'
  <1> DEFINE row == IF IsBlocked(t) THEN [task[t] EXCEPT !.category = category]
                    ELSE Blocked(category, NoArm, FALSE)
  <1>0. task[t] \in TaskRows BY DEF BoardOK
  <1>1. CASE IsBlocked(t)
    <2>1. task[t] = Blocked(task[t].category, task[t].reviewer, task[t].parked)
      BY <1>0, <1>1, RowFields DEF IsBlocked
    <2>2. row = Blocked(category, task[t].reviewer, task[t].parked)
      BY <1>1, <2>1 DEF Blocked
    <2>3. task[t].reviewer = NoArm \/ (category = "other" /\ task[t].reviewer \in Arms /\ task[t].parked = FALSE)
      BY <1>0, RowFields
    <2>4. task[t].parked \in BOOLEAN BY <1>0, RowFields
    <2>5. row \in TaskRows BY <2>2, <2>3, <2>4, BlockedIsRow DEF Categories
    <2>6. t \in due => row.status = "blocked" /\ ~row.parked
      BY <2>2, <1>1 DEF BoardOK, Blocked
    <2>7. task' = [task EXCEPT ![t] = row] /\ UNCHANGED <<due, ahead>>
      BY DEF SetBlocked
    <2> QED BY <2>5, <2>6, <2>7, StayTyped
  <1>2. CASE ~IsBlocked(t)
    <2>1. row \in TaskRows BY <1>2, BlockedIsRow DEF Categories
    <2>2. t \notin due BY <1>2 DEF BoardOK
    <2>3. task' = [task EXCEPT ![t] = row] /\ UNCHANGED <<due, ahead>>
      BY DEF SetBlocked
    <2> QED BY <2>1, <2>2, <2>3, StayTyped
  <1> QED BY <1>1, <1>2

-----------------------------------------------------------------------------
(* What a step may do to reviewers *)

\* No task gets a reviewer, and no review is under way that was not before.
NoNewReview ==
    \A u \in Tasks :
        /\ task'[u].reviewer \in {task[u].reviewer, NoArm}
        /\ task'[u].reviewer # NoArm /\ u \notin due' => IsBlocked(u) /\ u \notin due

LEMMA SetOpenEndsReviews ==
    ASSUME BoardOK, NEW t \in Tasks, NEW status \in Open, SetOpen(t, status)
    PROVE  NoNewReview
  <1>1. \A u \in Tasks : task[u].reviewer # NoArm => IsBlocked(u)
    BY RowFields DEF BoardOK, IsBlocked
  <1> QED BY <1>1 DEF BoardOK, NoNewReview, SetOpen, Opened, Leave

LEMMA SetReviewerEndsReviews ==
    ASSUME BoardOK, NEW t \in Tasks, SetReviewer(t, NoArm)
    PROVE  NoNewReview
  <1>1. \A u \in Tasks : task[u].reviewer # NoArm => IsBlocked(u)
    BY RowFields DEF BoardOK, IsBlocked
  <1> QED BY <1>1 DEF BoardOK, NoNewReview, SetReviewer, Blocked, Leave

LEMMA SetBlockedKeepsReviews ==
    ASSUME BoardOK, NEW t \in Tasks, NEW category, SetBlocked(t, category)
    PROVE  NoNewReview
  <1>1. \A u \in Tasks : task[u].reviewer # NoArm => IsBlocked(u)
    BY RowFields DEF BoardOK, IsBlocked
  <1>2. \A u \in Tasks : task[u] = [status |-> task[u].status, category |-> task[u].category,
                                    reviewer |-> task[u].reviewer, parked |-> task[u].parked]
    BY DEF BoardOK, TaskRows
  <1>3. task'[t].reviewer \in {task[t].reviewer, NoArm}
    BY <1>2 DEF BoardOK, SetBlocked, Blocked
  <1>4. \A u \in Tasks \ {t} : task'[u] = task[u]
    BY DEF BoardOK, SetBlocked
  <1> QED BY <1>1, <1>3, <1>4 DEF NoNewReview, SetBlocked

LEMMA NothingKeepsReviews ==
    ASSUME BoardOK, UNCHANGED boardVars
    PROVE  NoNewReview
  <1>1. \A u \in Tasks : task[u].reviewer # NoArm => IsBlocked(u)
    BY RowFields DEF BoardOK, IsBlocked
  <1> QED BY <1>1 DEF NoNewReview, boardVars

\* What is under way after such a step was under way before it.
LEMMA ReviewsOnlyEnd ==
    ASSUME NoNewReview, NEW t \in Tasks, NEW arm \in Arms, UnderReview(t, arm)'
    PROVE  UnderReview(t, arm)
  BY ArmsAssumption DEF NoNewReview, UnderReview, IsBlocked

-----------------------------------------------------------------------------
(* The steps beside those that work off what the Brain read *)

\* A user edits the category of a task that nobody reviews.
LEMMA UserBlocksTyped ==
    ASSUME BoardOK, NEW t \in Tasks, NEW category \in Categories, UserBlocks(t, category)
    PROVE  BoardOK' /\ SetBlocked(t, category) /\ category \in {"planning", "other"}
  <1>1. category \in {"planning", "other"} /\ SetBlocked(t, category)
    BY DEF UserBlocks
  <1>2. category = "planning" => task[t].reviewer = NoArm
    BY RowFields DEF UserBlocks, Gated, BoardOK
  <1> QED BY <1>1, <1>2, SetBlockedTyped

LEMMA CommentTyped ==
    ASSUME BoardOK, NEW t \in Tasks, Comment(t)
    PROVE  BoardOK' /\ NoNewReview
  <1> DEFINE row == Blocked(task[t].category, NoArm, FALSE)
  <1>1. task[t].category \in Categories
    BY RowFields DEF Comment, IsBlocked, BoardOK
  <1>2. row \in TaskRows
    BY <1>1, BlockedIsRow
  <1>3. row.status = "blocked" /\ ~row.parked /\ row.reviewer = NoArm
    BY DEF Blocked
  <1>4. task' = [task EXCEPT ![t] = row] /\ Join(t)
    BY DEF Comment
  <1>5. BoardOK'
    <2> HIDE DEF row
    <2> QED BY <1>2, <1>3, <1>4, JoinTyped
  <1>6. \A u \in Tasks : task[u].reviewer # NoArm => IsBlocked(u)
    BY RowFields DEF BoardOK, IsBlocked
  <1> HIDE DEF row
  <1>7. task'[t] = row /\ \A u \in Tasks \ {t} : task'[u] = task[u]
    BY <1>4 DEF BoardOK
  <1>8. due \subseteq due'
    BY <1>4 DEF Join
  <1>9. NoNewReview
    BY <1>3, <1>6, <1>7, <1>8 DEF NoNewReview
  <1> QED BY <1>5, <1>9

LEMMA TimePassesTyped ==
    ASSUME BoardOK, NEW t \in Tasks, TimePasses(t)
    PROVE  BoardOK' /\ NoNewReview
  <1>1. task' = [task EXCEPT ![t] = task[t]] /\ task[t] \in TaskRows /\ Join(t)
    BY DEF TimePasses, BoardOK
  <1>2. BoardOK'
    BY <1>1, JoinTyped DEF TimePasses, IsBlocked
  <1>3. \A u \in Tasks : task[u].reviewer # NoArm => IsBlocked(u)
    BY RowFields DEF BoardOK, IsBlocked
  <1>4. NoNewReview
    BY <1>3 DEF NoNewReview, TimePasses, Join
  <1> QED BY <1>2, <1>4

\* Such a step changes one task, and what the Brain holds does not change.
LEMMA BesideTyped ==
    ASSUME BoardOK, BrainOK, NEW t \in Tasks, Beside(t)
    PROVE  /\ BoardOK' /\ BrainOK' /\ NoNewReview
           /\ UNCHANGED brainVars
           /\ edited \subseteq edited' /\ stale \subseteq stale'
           /\ \A u \in Tasks \ {t} : task'[u] = task[u]
  <1>1. ASSUME NEW status \in Open, SetOpen(t, status), Unseen(t), UNCHANGED edited
        PROVE  /\ BoardOK' /\ BrainOK' /\ NoNewReview
               /\ UNCHANGED brainVars
               /\ edited \subseteq edited' /\ stale \subseteq stale'
               /\ \A u \in Tasks \ {t} : task'[u] = task[u]
    <2>1. BoardOK' /\ NoNewReview
      BY <1>1, SetOpenTyped, SetOpenEndsReviews
    <2>2. \A u \in Tasks \ {t} : task'[u] = task[u]
      BY <1>1 DEF SetOpen, BoardOK
    <2> QED BY <1>1, <2>1, <2>2 DEF Unseen, BrainOK, brainVars
  <1>2. CASE Claims(t) \/ Regardless(t) \/ TimerFires(t)
    <2>1. CASE SetBlocked(t, "other")
      <3>1. BoardOK' /\ NoNewReview
        BY <2>1, SetBlockedTyped, SetBlockedKeepsReviews
      <3>2. \A u \in Tasks \ {t} : task'[u] = task[u]
        BY <2>1 DEF SetBlocked, BoardOK
      <3> QED BY <1>2, <3>1, <3>2 DEF Claims, Regardless, TimerFires, Unseen, BrainOK, brainVars
    <2>2. CASE \E status \in Open : SetOpen(t, status)
      BY <1>1, <1>2, <2>2 DEF Claims, Regardless, TimerFires
    <2> QED BY <1>2, <2>1, <2>2 DEF Claims, Regardless, TimerFires, Open
  <1>3. ASSUME NEW status \in Open, UserMoves(t, status)
        PROVE  /\ BoardOK' /\ BrainOK' /\ NoNewReview
               /\ UNCHANGED brainVars
               /\ edited \subseteq edited' /\ stale \subseteq stale'
               /\ \A u \in Tasks \ {t} : task'[u] = task[u]
    BY <1>1, <1>3 DEF UserMoves
  <1>4. ASSUME NEW category \in Categories, UserBlocks(t, category)
        PROVE  /\ BoardOK' /\ BrainOK' /\ NoNewReview
               /\ UNCHANGED brainVars
               /\ edited \subseteq edited' /\ stale \subseteq stale'
               /\ \A u \in Tasks \ {t} : task'[u] = task[u]
    <2>1. BoardOK' /\ SetBlocked(t, category)
      BY <1>4, UserBlocksTyped
    <2>2. NoNewReview
      BY <2>1, SetBlockedKeepsReviews
    <2>3. \A u \in Tasks \ {t} : task'[u] = task[u]
      BY <2>1 DEF SetBlocked, BoardOK
    <2> QED BY <1>4, <2>1, <2>2, <2>3 DEF UserBlocks, Unseen, BrainOK, brainVars
  <1>5. CASE Comment(t)
    <2>1. BoardOK' /\ NoNewReview
      BY <1>5, CommentTyped
    <2> QED BY <1>5, <2>1 DEF Comment, BoardOK, BrainOK, brainVars
  <1>6. CASE TimePasses(t)
    <2>1. BoardOK' /\ NoNewReview
      BY <1>6, TimePassesTyped
    <2> QED BY <1>6, <2>1 DEF TimePasses, BoardOK, BrainOK, brainVars
  <1> QED BY <1>2, <1>3, <1>4, <1>5, <1>6 DEF Beside, World

-----------------------------------------------------------------------------
(* The steps of the Brain *)

Reviews == [task: Tasks, arm: Arms]

\* Where a step leaves the types: every step but a lease ends reviews only.
Steps ==
    /\ BoardOK' /\ BrainOK' /\ GateMeetsNoReview'
    /\ Lease \/ NoNewReview

LEMMA HeadOfPlan ==
    ASSUME BrainOK, plan # <<>>
    PROVE  /\ Head(plan).task \in Tasks /\ Head(plan).arm \in Arms
           /\ Head(plan) = plan[1] /\ Len(plan) \in Nat /\ Len(plan) >= 1
           /\ Tail(plan) \in Seq(Reviews) /\ Len(Tail(plan)) = Len(plan) - 1
           /\ \A i \in 1..Len(Tail(plan)) : Tail(plan)[i] = plan[i + 1]
  <1>1. plan \in Seq(Reviews) BY DEF BrainOK, Reviews
  <1>2. Head(plan) \in Reviews BY <1>1
  <1> QED BY <1>1, <1>2 DEF Reviews

LEMMA PlanMade ==
    ASSUME NEW n \in 0..Cardinality(Tasks), PlanReviews(n)
    PROVE  /\ plan' \in Seq(Reviews) /\ n \in Nat /\ Len(plan') = n
           /\ \A i \in 1..n : Reviewable(plan'[i].task) /\ plan'[i].arm \notin Reserved
           /\ \A i, j \in 1..n : plan'[i].arm = plan'[j].arm => i = j
  <1>1. n \in Nat
    BY TasksAssumption, FS_CardinalityType
  <1>2. PICK line \in Oldest(n), who \in Distinct(n, Arms \ Reserved) :
          plan' = [i \in 1..n |-> [task |-> line[i], arm |-> who[i]]]
    BY DEF PlanReviews
  <1>3. line \in [1..n -> {t \in Tasks : Reviewable(t)}]
    BY DEF Oldest
  <1>4. who \in [1..n -> Arms \ Reserved] /\ \A i, j \in 1..n : who[i] = who[j] => i = j
    BY DEF Distinct
  <1>5. \A i \in 1..n : plan'[i] = [task |-> line[i], arm |-> who[i]]
    BY <1>2
  <1>6. \A i \in 1..n : [task |-> line[i], arm |-> who[i]] \in Reviews
    BY <1>3, <1>4 DEF Reviews
  <1>7. plan' \in Seq(Reviews) /\ Len(plan') = n
    BY <1>1, <1>2, <1>6
  <1> QED BY <1>1, <1>3, <1>4, <1>5, <1>7

LEMMA ListStepsTyped ==
    ASSUME BoardOK, BrainOK, GateMeetsNoReview,
           \/ ReadPlan \/ GateFails \/ GateShut \/ GateOpens \/ Resumed \/ Assign
           \/ Prompted \/ ReEvaluate \/ EndPoll \/ Restart
    PROVE  Steps
  <1>1. UNCHANGED boardVars /\ UNCHANGED edited
    BY DEF ReadPlan, ReEvaluate, GateFails, GateShut, GateOpens, Resumed, Assign, Prompted, EndPoll, Restart, Reads
  <1>2. BoardOK' /\ NoNewReview
    BY <1>1, NothingKeepsReviews DEF BoardOK, boardVars, IsBlocked
  <1>3. CASE GateFails
    <2>1. \A t \in Tasks : task[t].status \in {"pending", "active"} => task[t].reviewer = NoArm
      BY RowFields DEF BoardOK
    <2> QED BY <1>1, <1>2, <1>3, <2>1
            DEF GateFails, Reads, GoTo, At, BrainOK, GateMeetsNoReview, Stages, boardVars, Steps
  <1>4. CASE ReadPlan \/ GateShut \/ GateOpens \/ Resumed \/ Assign \/ ReEvaluate \/ EndPoll
    BY <1>2, <1>4 DEF ReadPlan, ReEvaluate, GateShut, GateOpens, Resumed, Assign, EndPoll, Reads, GoTo, At,
                      BrainOK, GateMeetsNoReview, Stages, Steps
  <1>5. CASE Prompted
    <2>1. plan # <<>>
      BY <1>5 DEF Prompted, At, BrainOK
    <2>2. plan' \in Seq(Reviews)
      BY <1>5, <2>1, HeadOfPlan DEF Prompted
    <2> QED BY <1>2, <1>5, <2>2
            DEF Prompted, GoTo, At, BrainOK, GateMeetsNoReview, Stages, Steps, Reviews
  <1>6. CASE Restart
    BY <1>2, <1>6 DEF Restart, GoTo, At, BrainOK, GateMeetsNoReview, Stages, Steps
  <1> QED BY <1>3, <1>4, <1>5, <1>6

LEMMA TaskStepsTyped ==
    ASSUME BoardOK, BrainOK, GateMeetsNoReview, NEW t \in Tasks,
           \/ Tick(t) \/ Gate(t) \/ Resume(t) \/ BlockRunnable(t) \/ Unblock(t)
           \/ BeginRelease(t) \/ BeginHandBack(t)
    PROVE  Steps
  <1>1. CASE Gate(t)
    <2>1. t \in list /\ task[t].reviewer = NoArm
      BY <1>1 DEF Gate, NextIs, GateMeetsNoReview, At
    <2>2. task' = [task EXCEPT ![t] = Blocked("gate", NoArm, TRUE)] /\ Leave(t)
      BY <1>1, <2>1 DEF Gate
    <2>3. Blocked("gate", NoArm, TRUE) \in TaskRows
      BY BlockedIsRow DEF Categories
    <2>4. BoardOK'
      BY <2>2, <2>3, LeaveTyped
    <2>5. task'[t].reviewer = NoArm /\ \A u \in Tasks \ {t} : task'[u] = task[u]
      BY <2>2 DEF BoardOK, Blocked
    <2>6. \A u \in Tasks : task[u].reviewer # NoArm => IsBlocked(u)
      BY RowFields DEF BoardOK, IsBlocked
    <2>7. NoNewReview
      BY <2>2, <2>5, <2>6 DEF NoNewReview, Leave
    <2>8. GateMeetsNoReview'
      BY <1>1, <2>5 DEF GateMeetsNoReview, Gate, NextIs, At, BrainOK
    <2> QED BY <1>1, <2>4, <2>7, <2>8 DEF Gate, NextIs, BrainOK, Steps
  <1>2. CASE Tick(t) \/ Resume(t) \/ Unblock(t)
    <2>1. BoardOK' /\ NoNewReview
      BY <1>2, SetOpenTyped, SetOpenEndsReviews DEF Tick, Resume, Unblock, Open
    <2> QED BY <1>2, <2>1 DEF Tick, Resume, Unblock, NextIs, BrainOK, Steps, GateMeetsNoReview, At
  <1>3. CASE BlockRunnable(t)
    <2>1. BoardOK' /\ NoNewReview
      BY <1>3, SetBlockedTyped, SetBlockedKeepsReviews DEF BlockRunnable
    <2> QED BY <1>3, <2>1 DEF BlockRunnable, NextIs, BrainOK, Steps, GateMeetsNoReview, At
  <1>4. CASE BeginRelease(t) \/ BeginHandBack(t)
    <2>1. BoardOK' /\ NoNewReview
      BY <1>4, NothingKeepsReviews DEF BeginRelease, BeginHandBack, BoardOK, boardVars, IsBlocked
    <2> QED BY <1>4, <2>1 DEF BeginRelease, BeginHandBack, GoTo, At, BrainOK, Steps, GateMeetsNoReview, Stages
  <1> QED BY <1>1, <1>2, <1>3, <1>4

LEMMA ResultStepsTyped ==
    ASSUME BoardOK, BrainOK, GateMeetsNoReview,
           ReviewUnblocks \/ ReviewCancels \/ ReviewPostpones \/ HumanNotified \/ Release
    PROVE  Steps
  <1>1. CASE ReviewUnblocks \/ ReviewCancels \/ ReviewPostpones \/ HumanNotified
    <2>1. held.task \in Tasks
      BY <1>1 DEF ReviewUnblocks, ReviewCancels, ReviewPostpones, HumanNotified, At, BrainOK, Results
    <2>2. BoardOK' /\ NoNewReview
      <3>1. CASE SetOpen(held.task, "pending") \/ SetOpen(held.task, "cancelled")
        BY <3>1, <2>1, SetOpenTyped, SetOpenEndsReviews DEF Open
      <3>2. CASE SetReviewer(held.task, NoArm)
        BY <3>2, <2>1, SetReviewerTyped, SetReviewerEndsReviews
      <3>3. CASE SetBlocked(held.task, "other")
        BY <3>3, <2>1, SetBlockedTyped, SetBlockedKeepsReviews
      <3> QED BY <1>1, <3>1, <3>2, <3>3
              DEF ReviewUnblocks, ReviewCancels, ReviewPostpones, HumanNotified
    <2>3. BrainOK' /\ GateMeetsNoReview'
      BY <1>1 DEF ReviewUnblocks, ReviewCancels, ReviewPostpones, HumanNotified, Decided,
                  GoTo, At, BrainOK, Stages, GateMeetsNoReview
    <2> QED BY <2>2, <2>3 DEF Steps
  <1>2. CASE Release
    <2>1. held \in Tasks
      BY <1>2 DEF Release, At, BrainOK
    <2>2. BoardOK' /\ NoNewReview
      BY <1>2, <2>1, SetOpenTyped, SetOpenEndsReviews DEF Release, Open
    <2> QED BY <1>2, <2>2 DEF Release, Decided, GoTo, At, BrainOK, Stages, GateMeetsNoReview, Steps
  <1> QED BY <1>1, <1>2

LEMMA BeginReportTyped ==
    ASSUME BoardOK, BrainOK, GateMeetsNoReview,
           NEW t \in Tasks, NEW arm \in Arms, NEW outcome \in Outcomes, BeginReport(t, arm, outcome)
    PROVE  Steps
  <1>1. BoardOK' /\ NoNewReview
    BY NothingKeepsReviews DEF BeginReport, BoardOK, boardVars, IsBlocked
  <1> QED BY <1>1 DEF BeginReport, GoTo, At, BrainOK, Results, Stages, GateMeetsNoReview, Steps

LEMMA PlanReviewsTyped ==
    ASSUME BoardOK, BrainOK, GateMeetsNoReview,
           NEW n \in 0..Cardinality(Tasks), PlanReviews(n)
    PROVE  Steps
  <1>1. BoardOK' /\ NoNewReview
    BY NothingKeepsReviews DEF PlanReviews, BoardOK, boardVars, IsBlocked
  <1>2. plan' \in Seq(Reviews)
    BY PlanMade
  <1> QED BY <1>1, <1>2
          DEF PlanReviews, GoTo, At, BrainOK, Stages, GateMeetsNoReview, Steps, Reviews

LEMMA LeaseTyped ==
    ASSUME BoardOK, BrainOK, Lease
    PROVE  BoardOK' /\ BrainOK' /\ GateMeetsNoReview'
  <1>1. Head(plan).task \in Tasks /\ Head(plan).arm \in Arms
    BY HeadOfPlan DEF Lease
  <1>2. BoardOK'
    BY <1>1, SetReviewerTyped DEF Lease
  <1> QED BY <1>2 DEF Lease, GoTo, At, BrainOK, Stages, GateMeetsNoReview

LEMMA NotPromptedTyped ==
    ASSUME BoardOK, BrainOK, NotPrompted
    PROVE  Steps
  <1>1. plan # <<>>
    BY DEF NotPrompted, At, BrainOK
  <1>2. Head(plan).task \in Tasks /\ plan' \in Seq(Reviews)
    BY <1>1, HeadOfPlan DEF NotPrompted
  <1>3. BoardOK' /\ NoNewReview
    BY <1>2, SetReviewerTyped, SetReviewerEndsReviews DEF NotPrompted
  <1> QED BY <1>2, <1>3 DEF NotPrompted, GoTo, At, BrainOK, Stages, GateMeetsNoReview, Steps, Reviews

LEMMA BesideSteps ==
    ASSUME BoardOK, BrainOK, GateMeetsNoReview, NEW t \in Tasks, Beside(t)
    PROVE  Steps
  <1>1. BoardOK' /\ BrainOK' /\ NoNewReview /\ UNCHANGED brainVars
    BY BesideTyped
  <1>2. GateMeetsNoReview'
    BY <1>1 DEF GateMeetsNoReview, NoNewReview, At, brainVars, BrainOK
  <1> QED BY <1>1, <1>2 DEF Steps

LEMMA NextSteps ==
    ASSUME BoardOK, BrainOK, GateMeetsNoReview, Next
    PROVE  Steps
  <1>1. CASE Lease
    BY <1>1, LeaseTyped DEF Steps
  <1>2. CASE \/ ReadPlan \/ GateFails \/ GateShut \/ GateOpens \/ Resumed \/ Assign
             \/ Prompted \/ ReEvaluate \/ EndPoll \/ Restart
    BY <1>2, ListStepsTyped
  <1>3. CASE \E t \in Tasks :
               \/ Tick(t) \/ Gate(t) \/ Resume(t) \/ BlockRunnable(t) \/ Unblock(t)
               \/ BeginRelease(t) \/ BeginHandBack(t)
    BY <1>3, TaskStepsTyped
  <1>4. CASE ReviewUnblocks \/ ReviewCancels \/ ReviewPostpones \/ HumanNotified \/ Release
    BY <1>4, ResultStepsTyped
  <1>5. CASE \E t \in Tasks, arm \in Arms, outcome \in Outcomes : BeginReport(t, arm, outcome)
    BY <1>5, BeginReportTyped
  <1>6. CASE \E n \in 0..Cardinality(Tasks) : PlanReviews(n)
    BY <1>6, PlanReviewsTyped
  <1>7. CASE NotPrompted
    BY <1>7, NotPromptedTyped
  <1>8. CASE \E t \in Tasks : Beside(t)
    BY <1>8, BesideSteps
  <1> QED BY <1>1, <1>2, <1>3, <1>4, <1>5, <1>6, <1>7, <1>8 DEF Next, Poll

LEMMA StutterSteps ==
    ASSUME BoardOK, BrainOK, GateMeetsNoReview, UNCHANGED vars
    PROVE  BoardOK' /\ BrainOK' /\ GateMeetsNoReview'
  BY DEF vars, boardVars, brainVars, BoardOK, BrainOK, GateMeetsNoReview, IsBlocked, At

Typed == BoardOK /\ BrainOK /\ GateMeetsNoReview

LEMMA InitTyped == Init => Typed
  <1> SUFFICES ASSUME Init PROVE Typed
    OBVIOUS
  <1>1. Opened("pending") \in TaskRows
    BY OpenedIsRow DEF Open
  <1>2. BoardOK
    BY <1>1 DEF Init, BoardOK
  <1>3. BrainOK /\ GateMeetsNoReview
    BY DEF Init, BrainOK, GateMeetsNoReview, At, Stages
  <1> QED BY <1>2, <1>3 DEF Typed

LEMMA TypedAlways == Spec => []Typed
  <1>1. Typed /\ [Next]_vars => Typed'
    BY NextSteps, StutterSteps DEF Typed, Steps
  <1> QED BY InitTyped, <1>1, PTL DEF Spec

\* Whatever is reported, edited or left behind, rows and queue stay well
\* formed: only blocked tasks that are not parked are due, the queue orders
\* due tasks only, and the gate never meets a task under review.
THEOREM TypeCorrect == Spec => []TypeOK
  <1>1. Typed => TypeOK
    BY TypeParts DEF Typed
  <1> QED BY <1>1, TypedAlways, PTL

-----------------------------------------------------------------------------
(* One review per arm *)

HasNoReview(arm) == \A t \in Tasks : ~UnderReview(t, arm)

\* HasNoReview of the next state, for an arm named in this one.
WillHaveNoReview(arm) ==
    \A t \in Tasks :
        ~(task'[t].status = "blocked" /\ task'[t].reviewer = arm /\ t \notin due')

\* The arms of a plan differ, and those still to be asked have no review.
PlanIsFree ==
    /\ \A i, j \in 1..Len(plan) : plan[i].arm = plan[j].arm => i = j
    /\ At("reviewing") => \A i \in 1..Len(plan) : HasNoReview(plan[i].arm)
    /\ At("prompting") => \A i \in 2..Len(plan) : HasNoReview(plan[i].arm)

LEMMA StillNoReview ==
    ASSUME NoNewReview, NEW arm \in Arms, HasNoReview(arm)
    PROVE  WillHaveNoReview(arm)
  BY ArmsAssumption DEF NoNewReview, HasNoReview, WillHaveNoReview, UnderReview, IsBlocked

LEMMA PlanArms ==
    ASSUME BrainOK
    PROVE  Len(plan) \in Nat /\ \A i \in 1..Len(plan) : plan[i] \in Reviews /\ plan[i].arm \in Arms
  <1>1. plan \in Seq(Reviews) BY DEF BrainOK, Reviews
  <1>2. Len(plan) \in Nat /\ \A i \in 1..Len(plan) : plan[i] \in Reviews
    BY <1>1
  <1> QED BY <1>2 DEF Reviews

\* A step that keeps the plan, or comes to its next review.
LEMMA PlanStaysFree ==
    ASSUME BrainOK, PlanIsFree, NoNewReview, plan' = plan,
           At("reviewing")' => At("reviewing"), At("prompting")' => At("prompting")
    PROVE  PlanIsFree'
  <1>1. \A i \in 1..Len(plan) : HasNoReview(plan[i].arm) => WillHaveNoReview(plan[i].arm)
    BY PlanArms, StillNoReview
  <1>2. \A i \in 2..Len(plan) : i \in 1..Len(plan)
    BY PlanArms
  <1> QED BY <1>1, <1>2
          DEF PlanIsFree, HasNoReview, WillHaveNoReview, UnderReview, IsBlocked

LEMMA PlanMovesOn ==
    ASSUME BrainOK, PlanIsFree, NoNewReview, At("prompting"), plan' = Tail(plan), At("reviewing")'
    PROVE  PlanIsFree'
  <1>1. plan # <<>>
    BY DEF BrainOK, At
  <1>2. /\ Len(plan) \in Nat /\ Len(plan') = Len(plan) - 1
        /\ \A i \in 1..Len(plan') : plan'[i] = plan[i + 1]
    BY <1>1, HeadOfPlan
  <1>3. \A i \in 2..Len(plan) : WillHaveNoReview(plan[i].arm)
    <2> TAKE i \in 2..Len(plan)
    <2>1. plan[i].arm \in Arms
      BY <1>2, PlanArms
    <2>2. HasNoReview(plan[i].arm)
      BY DEF PlanIsFree
    <2> QED BY <2>1, <2>2, StillNoReview
  <1>4. \A i \in 1..Len(plan') : WillHaveNoReview(plan'[i].arm)
    <2> TAKE i \in 1..Len(plan')
    <2>1. i + 1 \in 2..Len(plan) /\ plan'[i] = plan[i + 1]
      BY <1>2
    <2> QED BY <1>3, <2>1
  <1>5. \A i, j \in 1..Len(plan') : plan'[i].arm = plan'[j].arm => i = j
    <2> TAKE i, j \in 1..Len(plan')
    <2>1. i + 1 \in 1..Len(plan) /\ j + 1 \in 1..Len(plan)
      BY <1>2
    <2> QED BY <1>2, <2>1 DEF PlanIsFree
  <1>6. ~At("prompting")'
    BY DEF At
  <1> QED BY <1>4, <1>5, <1>6
          DEF PlanIsFree, HasNoReview, WillHaveNoReview, UnderReview, IsBlocked

\* A lease makes one review, of the arm the plan names first.
LEMMA LeaseMakesOne ==
    ASSUME BoardOK, BrainOK, Lease, NEW t \in Tasks, NEW arm \in Arms, UnderReview(t, arm)'
    PROVE  \/ t = Head(plan).task /\ arm = Head(plan).arm
           \/ t # Head(plan).task /\ UnderReview(t, arm)
  <1>1. Head(plan).task \in Tasks
    BY HeadOfPlan DEF Lease
  <1> QED BY <1>1 DEF Lease, SetReviewer, Leave, Blocked, UnderReview, IsBlocked, BoardOK

LEMMA LeaseKeepsPlan ==
    ASSUME BoardOK, BrainOK, PlanIsFree, Lease
    PROVE  PlanIsFree'
  <1>1. /\ plan' = plan /\ At("prompting")' /\ ~At("reviewing")'
        /\ At("reviewing") /\ plan # <<>>
    BY DEF Lease, GoTo, At
  <1>2. Head(plan) = plan[1] /\ Len(plan) \in Nat /\ Len(plan) >= 1
    BY <1>1, HeadOfPlan
  <1>3. ASSUME NEW i \in 2..Len(plan) PROVE WillHaveNoReview(plan[i].arm)
    <2>1. i \in 1..Len(plan) /\ plan[i].arm \in Arms /\ 1 \in 1..Len(plan) /\ i # 1
      BY <1>2, PlanArms
    <2>2. plan[i].arm # Head(plan).arm
      BY <1>2, <2>1 DEF PlanIsFree
    <2>3. HasNoReview(plan[i].arm)
      BY <1>1, <2>1 DEF PlanIsFree
    <2>4. PICK arm \in Arms : arm = plan[i].arm
      BY <2>1
    <2>5. \A t \in Tasks : ~UnderReview(t, arm)'
      BY <2>2, <2>3, <2>4, LeaseMakesOne DEF HasNoReview
    <2>6. WillHaveNoReview(arm)
      BY <2>5 DEF WillHaveNoReview, UnderReview, IsBlocked
    <2> QED BY <2>4, <2>6
  <1> QED BY <1>1, <1>3
          DEF PlanIsFree, HasNoReview, WillHaveNoReview, UnderReview, IsBlocked

LEMMA PlanIsMadeFree ==
    ASSUME BoardOK, NEW n \in 0..Cardinality(Tasks), PlanReviews(n)
    PROVE  PlanIsFree'
  <1>1. /\ plan' \in Seq(Reviews) /\ n \in Nat /\ Len(plan') = n
        /\ \A i \in 1..n : plan'[i].arm \notin Reserved
        /\ \A i, j \in 1..n : plan'[i].arm = plan'[j].arm => i = j
    BY PlanMade
  <1>2. At("reviewing")' /\ ~At("prompting")' /\ UNCHANGED boardVars
    BY DEF PlanReviews, GoTo, At
  <1>3. \A i \in 1..n : WillHaveNoReview(plan'[i].arm)
    <2> TAKE i \in 1..n
    <2>1. plan'[i].arm \in Arms
      <3>1. plan'[i] \in Reviews
        BY <1>1
      <3> QED BY <3>1 DEF Reviews
    <2>2. PICK arm \in Arms : arm = plan'[i].arm
      BY <2>1
    <2>3. HasNoReview(arm)
      BY <1>1, <2>2 DEF Reserved, HasNoReview
    <2>4. WillHaveNoReview(arm)
      BY <1>2, <2>3, NothingKeepsReviews, StillNoReview
    <2> QED BY <2>2, <2>4
  <1> QED BY <1>1, <1>2, <1>3
          DEF PlanIsFree, HasNoReview, WillHaveNoReview, UnderReview, IsBlocked

\* What other steps may do to a plan: keep it, come to its next review, or drop it.
PlanKept ==
    /\ plan' = plan
    /\ (At("reviewing"))' => At("reviewing")
    /\ (At("prompting"))' => At("prompting")
PlanAdvanced == At("prompting") /\ plan' = Tail(plan) /\ (At("reviewing"))'
PlanDropped == Len(plan') = 0 /\ pc' = "sync"

LEMMA PlanGoesOn ==
    ASSUME Typed, [Next]_vars, ~Lease, ~\E n \in 0..Cardinality(Tasks) : PlanReviews(n)
    PROVE  NoNewReview /\ (PlanKept \/ PlanAdvanced \/ PlanDropped)
  <1> USE DEF Typed
  <1>1. NoNewReview
    <2>1. CASE UNCHANGED vars
      BY <2>1, NothingKeepsReviews DEF vars
    <2> QED BY <2>1, NextSteps DEF Steps
  <1>2. CASE Prompted \/ NotPrompted
    BY <1>1, <1>2 DEF Prompted, NotPrompted, GoTo, At, PlanAdvanced
  <1>3. CASE Restart
    BY <1>1, <1>3 DEF Restart, GoTo, PlanDropped
  <1>4. CASE UNCHANGED vars
    BY <1>1, <1>4 DEF vars, brainVars, At, PlanKept
  <1>5. CASE \E t \in Tasks : Beside(t)
    <2>1. UNCHANGED brainVars
      BY <1>5, BesideTyped
    <2> QED BY <1>1, <2>1 DEF brainVars, At, PlanKept
  <1>6. CASE \/ ReadPlan \/ GateFails \/ GateShut \/ GateOpens \/ Resumed
             \/ \E t \in Tasks :
                  \/ Tick(t) \/ Gate(t) \/ Resume(t) \/ BlockRunnable(t) \/ Unblock(t)
                  \/ BeginRelease(t) \/ BeginHandBack(t)
             \/ \E t \in Tasks, arm \in Arms, outcome \in Outcomes : BeginReport(t, arm, outcome)
             \/ ReviewUnblocks \/ ReviewCancels \/ ReviewPostpones \/ HumanNotified \/ Release
             \/ Assign \/ ReEvaluate \/ EndPoll
    <2>1. plan' = plan /\ ~At("reviewing")' /\ ~At("prompting")'
      BY <1>6 DEF ReadPlan, Tick, Unblock, BeginHandBack, ReEvaluate, GateFails, GateShut, GateOpens, Resumed, Gate, Resume, BlockRunnable, BeginRelease,
                  BeginReport, ReviewUnblocks, ReviewCancels, ReviewPostpones, HumanNotified, Release,
                  Assign, EndPoll, Reads, NextIs, Decided, GoTo, At
    <2> QED BY <1>1, <2>1 DEF PlanKept
  <1> QED BY <1>2, <1>3, <1>4, <1>5, <1>6 DEF Next, Poll

LEMMA PlanIsFreeStep == Typed /\ PlanIsFree /\ [Next]_vars => PlanIsFree'
  <1> SUFFICES ASSUME Typed, PlanIsFree, [Next]_vars PROVE PlanIsFree'
    OBVIOUS
  <1>1. CASE Lease
    BY <1>1, LeaseKeepsPlan DEF Typed
  <1>2. CASE \E n \in 0..Cardinality(Tasks) : PlanReviews(n)
    BY <1>2, PlanIsMadeFree DEF Typed
  <1>3. CASE ~Lease /\ ~\E n \in 0..Cardinality(Tasks) : PlanReviews(n)
    <2>1. NoNewReview /\ (PlanKept \/ PlanAdvanced \/ PlanDropped)
      BY <1>3, PlanGoesOn
    <2>2. CASE PlanKept BY <2>1, <2>2, PlanStaysFree DEF PlanKept, Typed
    <2>3. CASE PlanAdvanced BY <2>1, <2>3, PlanMovesOn DEF PlanAdvanced, Typed
    <2>4. CASE PlanDropped BY <2>4 DEF PlanDropped, PlanIsFree, At
    <2> QED BY <2>1, <2>2, <2>3, <2>4
  <1> QED BY <1>1, <1>2, <1>3

LEMMA OneReviewStep ==
    Typed /\ PlanIsFree /\ OneReviewPerArm /\ [Next]_vars => OneReviewPerArm'
  <1> SUFFICES ASSUME Typed, PlanIsFree, OneReviewPerArm, [Next]_vars PROVE OneReviewPerArm'
    OBVIOUS
  <1> USE DEF Typed
  <1>1. CASE Lease
    <2>1. HasNoReview(Head(plan).arm) /\ Head(plan).arm \in Arms
      <3>1. Head(plan) = plan[1] /\ Len(plan) \in Nat /\ Len(plan) >= 1 /\ Head(plan).arm \in Arms
        BY <1>1, HeadOfPlan DEF Lease
      <3> QED BY <1>1, <3>1 DEF Lease, PlanIsFree
    <2> QED BY <1>1, <2>1, LeaseMakesOne DEF OneReviewPerArm, HasNoReview
  <1>2. CASE NoNewReview
    BY <1>2, ReviewsOnlyEnd DEF OneReviewPerArm
  <1>3. CASE UNCHANGED vars
    BY <1>3, NothingKeepsReviews, ReviewsOnlyEnd DEF vars, OneReviewPerArm
  <1> QED BY <1>1, <1>2, <1>3, NextSteps DEF Steps

\* However reports, restarts, expired leases and failed prompts interleave, no
\* arm ever holds two review leases at once.
THEOREM OneReviewPerArmHolds == Spec => []OneReviewPerArm
  <1>1. Init => PlanIsFree /\ OneReviewPerArm
    BY DEF Init, PlanIsFree, OneReviewPerArm, UnderReview, IsBlocked, Opened, At
  <1> QED BY <1>1, TypedAlways, PlanIsFreeStep, OneReviewStep, PTL DEF Spec

-----------------------------------------------------------------------------
(* Leases exclude one another *)

\* LeaseOf in the next state, for a task named in this one.
NextLeaseOf(t) ==
    IF task'[t].status = "blocked" /\ t \notin due' THEN task'[t].reviewer ELSE NoArm

\* The tasks of a plan differ, and nobody reviews those still to be leased.
PlanTasksFree ==
    /\ \A i, j \in 1..Len(plan) : plan[i].task = plan[j].task => i = j
    /\ At("reviewing") => \A i \in 1..Len(plan) : LeaseOf(plan[i].task) = NoArm
    /\ At("prompting") => \A i \in 2..Len(plan) : LeaseOf(plan[i].task) = NoArm

LEMMA PlanTasks ==
    ASSUME BrainOK
    PROVE  Len(plan) \in Nat /\ \A i \in 1..Len(plan) : plan[i].task \in Tasks
  BY PlanArms DEF Reviews

LEMMA LeasesEnd ==
    ASSUME NoNewReview, NEW t \in Tasks
    PROVE  NextLeaseOf(t) \in {LeaseOf(t), NoArm}
  BY DEF NoNewReview, NextLeaseOf, LeaseOf, IsBlocked

LEMMA TasksStayFree ==
    ASSUME BrainOK, PlanTasksFree, NoNewReview, plan' = plan,
           At("reviewing")' => At("reviewing"), At("prompting")' => At("prompting")
    PROVE  PlanTasksFree'
  <1>1. \A i \in 1..Len(plan) : LeaseOf(plan[i].task) = NoArm => NextLeaseOf(plan[i].task) = NoArm
    BY PlanTasks, LeasesEnd
  <1>2. \A i \in 2..Len(plan) : i \in 1..Len(plan)
    BY PlanTasks
  <1> QED BY <1>1, <1>2 DEF PlanTasksFree, NextLeaseOf, LeaseOf, IsBlocked

LEMMA TasksMoveOn ==
    ASSUME BrainOK, PlanTasksFree, NoNewReview, At("prompting"), plan' = Tail(plan),
           At("reviewing")'
    PROVE  PlanTasksFree'
  <1>1. plan # <<>>
    BY DEF BrainOK, At
  <1>2. /\ Len(plan) \in Nat /\ Len(plan') = Len(plan) - 1
        /\ \A i \in 1..Len(plan') : plan'[i] = plan[i + 1]
    BY <1>1, HeadOfPlan
  <1>3. \A i \in 2..Len(plan) : NextLeaseOf(plan[i].task) = NoArm
    <2> TAKE i \in 2..Len(plan)
    <2>1. plan[i].task \in Tasks
      BY <1>2, PlanTasks
    <2>2. LeaseOf(plan[i].task) = NoArm
      BY DEF PlanTasksFree
    <2> QED BY <2>1, <2>2, LeasesEnd
  <1>4. \A i \in 1..Len(plan') : NextLeaseOf(plan'[i].task) = NoArm
    <2> TAKE i \in 1..Len(plan')
    <2>1. i + 1 \in 2..Len(plan) /\ plan'[i] = plan[i + 1]
      BY <1>2
    <2> QED BY <1>3, <2>1
  <1>5. \A i, j \in 1..Len(plan') : plan'[i].task = plan'[j].task => i = j
    <2> TAKE i, j \in 1..Len(plan')
    <2>1. i + 1 \in 1..Len(plan) /\ j + 1 \in 1..Len(plan)
      BY <1>2
    <2> QED BY <1>2, <2>1 DEF PlanTasksFree
  <1>6. ~At("prompting")'
    BY DEF At
  <1> QED BY <1>4, <1>5, <1>6 DEF PlanTasksFree, NextLeaseOf, LeaseOf, IsBlocked

\* A lease makes one review, of the task the plan names first.
LEMMA LeaseGives ==
    ASSUME BoardOK, BrainOK, Lease, NEW t \in Tasks
    PROVE  NextLeaseOf(t) = IF t = Head(plan).task THEN Head(plan).arm ELSE LeaseOf(t)
  <1>1. Head(plan).task \in Tasks
    BY HeadOfPlan DEF Lease
  <1>2. task' = [task EXCEPT ![Head(plan).task] = Blocked("other", Head(plan).arm, FALSE)]
        /\ due' = due \ {Head(plan).task}
    BY DEF Lease, SetReviewer, Leave
  <1>3. task \in [Tasks -> TaskRows]
    BY DEF BoardOK
  <1>4. CASE t = Head(plan).task
    BY <1>1, <1>2, <1>3, <1>4 DEF Blocked, NextLeaseOf
  <1>5. CASE t # Head(plan).task
    BY <1>1, <1>2, <1>3, <1>5 DEF NextLeaseOf, LeaseOf, IsBlocked
  <1> QED BY <1>4, <1>5

LEMMA LeaseKeepsTasks ==
    ASSUME BoardOK, BrainOK, PlanTasksFree, Lease
    PROVE  PlanTasksFree'
  <1>1. /\ plan' = plan /\ At("prompting")' /\ ~At("reviewing")'
        /\ At("reviewing") /\ plan # <<>>
    BY DEF Lease, GoTo, At
  <1>2. Head(plan) = plan[1] /\ Len(plan) \in Nat /\ Len(plan) >= 1
    BY <1>1, HeadOfPlan
  <1>3. ASSUME NEW i \in 2..Len(plan) PROVE NextLeaseOf(plan[i].task) = NoArm
    <2>1. i \in 1..Len(plan) /\ plan[i].task \in Tasks /\ 1 \in 1..Len(plan) /\ i # 1
      BY <1>2, PlanTasks
    <2>2. plan[i].task # Head(plan).task
      BY <1>2, <2>1 DEF PlanTasksFree
    <2>3. LeaseOf(plan[i].task) = NoArm
      BY <1>1, <2>1 DEF PlanTasksFree
    <2> QED BY <2>1, <2>2, <2>3, LeaseGives
  <1> QED BY <1>1, <1>3 DEF PlanTasksFree, NextLeaseOf, LeaseOf, IsBlocked

\* The tasks that come first in the queue are due, and none comes twice.
LEMMA TasksAreMadeFree ==
    ASSUME BoardOK, NEW n \in 0..Cardinality(Tasks), PlanReviews(n)
    PROVE  PlanTasksFree'
  <1>1. PICK line \in Oldest(n), who \in Distinct(n, Arms \ Reserved) :
          plan' = [i \in 1..n |-> [task |-> line[i], arm |-> who[i]]]
    BY DEF PlanReviews
  <1>2. Len(plan') = n /\ \A i \in 1..n : plan'[i].task = line[i]
    BY <1>1, PlanMade
  <1>3. /\ \A i \in 1..n : line[i] \in due /\ line[i] \in Tasks /\ Reviewable(line[i])
        /\ \A i \in 1..n :
              {u \in ahead[line[i]] : Reviewable(u)} = {line[j] : j \in 1..(i - 1)}
    BY DEF Oldest, Reviewable
  <1>4. \A i, j \in 1..n : j < i => line[i] # line[j]
    <2> TAKE i, j \in 1..n
    <2> HAVE j < i
    <2>1. j \in 1..(i - 1) BY TasksAssumption, FS_CardinalityType
    <2>2. line[j] \in ahead[line[i]] BY <1>3, <2>1
    <2> QED BY <1>3, <2>2 DEF BoardOK
  <1>5. \A i, j \in 1..n : plan'[i].task = plan'[j].task => i = j
    BY <1>2, <1>4, TasksAssumption, FS_CardinalityType
  <1>6. \A i \in 1..n : NextLeaseOf(plan'[i].task) = NoArm
    BY <1>2, <1>3 DEF PlanReviews, boardVars, NextLeaseOf
  <1>7. ~At("prompting")'
    BY DEF PlanReviews, GoTo, At
  <1> QED BY <1>2, <1>5, <1>6, <1>7 DEF PlanTasksFree, NextLeaseOf, LeaseOf, IsBlocked

LEMMA PlanTasksFreeStep == Typed /\ PlanTasksFree /\ [Next]_vars => PlanTasksFree'
  <1> SUFFICES ASSUME Typed, PlanTasksFree, [Next]_vars PROVE PlanTasksFree'
    OBVIOUS
  <1>1. CASE Lease
    BY <1>1, LeaseKeepsTasks DEF Typed
  <1>2. CASE \E n \in 0..Cardinality(Tasks) : PlanReviews(n)
    BY <1>2, TasksAreMadeFree DEF Typed
  <1>3. CASE ~Lease /\ ~\E n \in 0..Cardinality(Tasks) : PlanReviews(n)
    <2>1. NoNewReview /\ (PlanKept \/ PlanAdvanced \/ PlanDropped)
      BY <1>3, PlanGoesOn
    <2>2. CASE PlanKept BY <2>1, <2>2, TasksStayFree DEF PlanKept, Typed
    <2>3. CASE PlanAdvanced BY <2>1, <2>3, TasksMoveOn DEF PlanAdvanced, Typed
    <2>4. CASE PlanDropped BY <2>4 DEF PlanDropped, PlanTasksFree, At
    <2> QED BY <2>1, <2>2, <2>3, <2>4
  <1> QED BY <1>1, <1>2, <1>3

LEMMA LeaseStep ==
    ASSUME Typed, PlanIsFree, PlanTasksFree, [Next]_vars
    PROVE  [Leases!Next]_Leases!vars
  <1>1. \A t \in Tasks : LeaseOf(t)' = NextLeaseOf(t)
    BY DEF LeaseOf, NextLeaseOf, IsBlocked
  <1>2. CASE Lease
    <2> DEFINE t == Head(plan).task
               arm == Head(plan).arm
    <2>1. /\ t \in Tasks /\ arm \in Arms /\ plan # <<>>
          /\ Head(plan) = plan[1] /\ Len(plan) \in Nat /\ Len(plan) >= 1
      BY <1>2, HeadOfPlan DEF Lease, Typed
    <2>2. LeaseOf(t) = NoArm /\ HasNoReview(arm)
      BY <1>2, <2>1 DEF Lease, PlanIsFree, PlanTasksFree
    <2>3. \A u \in Tasks : LeaseOf(u) # arm
      BY <2>1, <2>2, ArmsAssumption DEF HasNoReview, UnderReview, LeaseOf
    <2>4. \A u \in Tasks : LeaseOf(u)' = IF u = t THEN arm ELSE LeaseOf(u)
      BY <1>1, <1>2, LeaseGives DEF Typed
    <2>5. \E u \in Tasks, a \in Arms : Leases!Grant(u, a)
      BY <2>1, <2>2, <2>3, <2>4 DEF Leases!Grant
    <2> QED BY <2>5 DEF Leases!Next
  <1>3. CASE NoNewReview
    <2> DEFINE ended == {t \in Tasks : NextLeaseOf(t) = NoArm}
    <2>1. \A t \in Tasks : LeaseOf(t)' = IF t \in ended THEN NoArm ELSE LeaseOf(t)
      BY <1>1, <1>3, LeasesEnd
    <2>2. Leases!End(ended)
      BY <2>1 DEF Leases!End
    <2> QED BY <2>2 DEF Leases!Next
  <1>4. CASE UNCHANGED vars
    BY <1>3, <1>4, NothingKeepsReviews DEF vars, Typed
  <1> QED BY <1>2, <1>3, <1>4, NextSteps DEF Typed, Steps

\* However reports, restarts, expired leases, edits and failed prompts interleave, a
\* lease is granted only while nobody holds one of that task, and to an arm that
\* holds none: the queue implements ReviewLeases.
THEOREM LeasesExcludeHolds == Spec => LeasesExclude
  <1>1. Init => PlanIsFree /\ PlanTasksFree /\ Leases!Init
    BY DEF Init, PlanIsFree, PlanTasksFree, Leases!Init, LeaseOf, IsBlocked, Opened, At
  <1>2. Typed /\ PlanIsFree /\ PlanTasksFree /\ [Next]_vars => [Leases!Next]_Leases!vars
    BY LeaseStep
  <1> QED BY <1>1, <1>2, TypedAlways, PlanIsFreeStep, PlanTasksFreeStep, PTL
          DEF Spec, LeasesExclude, Leases!Spec

-----------------------------------------------------------------------------
(* What waits for the planning gate *)

\* No review is made of t, for now.
Kept(t) == IsBlocked(t) /\ (task[t].parked \/ task[t].category # "other")

Waiting ==
    /\ \A t \in Tasks : Kept(t) => Gated(t) \/ t \in edited
    /\ At("resuming") => \A t \in Tasks : Kept(t) => t \in list \cup edited
    /\ OpenGateHoldsNothing

LEMMA SetOpenKept ==
    ASSUME BoardOK, NEW t \in Tasks, NEW status \in Open, SetOpen(t, status),
           NEW u \in Tasks, Kept(u)'
    PROVE  u # t /\ Kept(u) /\ task'[u] = task[u]
  BY DEF BoardOK, SetOpen, Opened, Open, Kept, IsBlocked

LEMMA SetReviewerKept ==
    ASSUME BoardOK, NEW t \in Tasks, NEW reviewer, SetReviewer(t, reviewer),
           NEW u \in Tasks, Kept(u)'
    PROVE  u # t /\ Kept(u) /\ task'[u] = task[u]
  <1>1. ~Kept(t)'
    BY DEF BoardOK, SetReviewer, Blocked, Kept, IsBlocked
  <1>2. u # t
    BY <1>1
  <1> QED BY <1>2 DEF BoardOK, SetReviewer, Kept, IsBlocked

LEMMA SetBlockedKept ==
    ASSUME BoardOK, NEW t \in Tasks, SetBlocked(t, "other"), NEW u \in Tasks, Kept(u)'
    PROVE  Kept(u)
  <1>1. CASE u = t
    <2>1. CASE IsBlocked(t)
      <3>1. task[t] = [status |-> task[t].status, category |-> task[t].category,
                       reviewer |-> task[t].reviewer, parked |-> task[t].parked]
        BY DEF BoardOK, TaskRows
      <3>2. task'[t].category = "other" /\ task'[t].parked = task[t].parked
        BY <2>1, <3>1 DEF BoardOK, SetBlocked
      <3> QED BY <1>1, <2>1, <3>2 DEF Kept
    <2>2. CASE ~IsBlocked(t)
      <3>1. task'[t] = Blocked("other", NoArm, FALSE)
        BY <2>2 DEF BoardOK, SetBlocked
      <3> QED BY <1>1, <3>1 DEF Kept, Blocked
    <2> QED BY <2>1, <2>2
  <1>2. CASE u # t
    BY <1>2 DEF BoardOK, SetBlocked, Kept, IsBlocked
  <1> QED BY <1>1, <1>2

\* A comment brings the next review forward, and leaves the category.
LEMMA CommentKept ==
    ASSUME BoardOK, NEW t \in Tasks, Comment(t), NEW u \in Tasks, Kept(u)'
    PROVE  Kept(u) /\ (Gated(u) => Gated(u)')
  BY DEF BoardOK, Comment, Blocked, Kept, Gated, IsBlocked

LEMMA BesideWaits ==
    ASSUME Typed, Waiting, NEW t \in Tasks, Beside(t)
    PROVE  Waiting'
  <1> USE DEF Typed
  <1>1. UNCHANGED brainVars /\ edited \subseteq edited'
    BY BesideTyped
  <1>2. ASSUME \A u \in Tasks : Kept(u)' => u \in edited' \/ (Kept(u) /\ (Gated(u) => Gated(u)'))
        PROVE  Waiting'
    BY <1>1, <1>2 DEF Waiting, OpenGateHoldsNothing, Kept, IsBlocked, At, brainVars
  <1>3. CASE Claims(t) \/ TimerFires(t)
    <2>1. PICK status \in Open : SetOpen(t, status)
      BY <1>3 DEF Claims, TimerFires, Open
    <2> QED BY <1>2, <2>1, SetOpenKept DEF Gated, IsBlocked
  <1>4. ASSUME NEW status \in Open, UserMoves(t, status) PROVE Waiting'
    BY <1>2, <1>4, SetOpenKept DEF UserMoves, Gated, IsBlocked
  <1>5. CASE Regardless(t)
    <2>1. \A u \in Tasks : Kept(u) => u \in edited
      BY <1>5 DEF Regardless, At, Waiting, OpenGateHoldsNothing, Kept
    <2>2. \A u \in Tasks : Kept(u)' => Kept(u)
      BY <1>5, SetOpenKept, SetBlockedKept DEF Regardless
    <2> QED BY <1>1, <1>2, <2>1, <2>2
  <1>6. ASSUME NEW category \in Categories, UserBlocks(t, category) PROVE Waiting'
    <2>1. t \in edited' /\ \A u \in Tasks \ {t} : task'[u] = task[u]
      BY <1>6, BesideTyped DEF UserBlocks, World, Beside
    <2> QED BY <1>2, <2>1 DEF Kept, Gated, IsBlocked
  <1>7. CASE Comment(t)
    BY <1>2, <1>7, CommentKept
  <1>8. CASE TimePasses(t)
    BY <1>2, <1>8 DEF TimePasses, Kept, Gated, IsBlocked
  <1> QED BY <1>3, <1>4, <1>5, <1>6, <1>7, <1>8 DEF World, Beside

LEMMA WaitingStep == Typed /\ Waiting /\ [Next]_vars => Waiting'
  <1> SUFFICES ASSUME Typed, Waiting, [Next]_vars PROVE Waiting'
    OBVIOUS
  <1> USE DEF Typed
  <1>1. CASE \/ ReadPlan \/ GateFails \/ GateShut \/ GateOpens \/ Resumed \/ Assign
             \/ Prompted \/ ReEvaluate \/ EndPoll \/ Restart \/ UNCHANGED vars
             \/ \E t \in Tasks : BeginRelease(t) \/ BeginHandBack(t)
             \/ \E t \in Tasks, arm \in Arms, outcome \in Outcomes : BeginReport(t, arm, outcome)
             \/ \E n \in 0..Cardinality(Tasks) : PlanReviews(n)
    <2>1. UNCHANGED task /\ UNCHANGED edited
      BY <1>1 DEF ReadPlan, GateFails, GateShut, GateOpens, Resumed, Assign, Prompted, ReEvaluate,
                  EndPoll, Restart, BeginRelease, BeginHandBack, BeginReport, PlanReviews, Reads, boardVars, vars
    <2>2. CASE GateOpens
      BY <2>1, <2>2 DEF GateOpens, Reads, GoTo, At, Waiting, OpenGateHoldsNothing, Kept, Gated, IsBlocked
    <2>3. CASE Resumed
      BY <2>1, <2>3 DEF Resumed, GoTo, At, Waiting, OpenGateHoldsNothing, Kept, Gated, IsBlocked
    <2>4. CASE UNCHANGED vars
      BY <2>4 DEF vars, boardVars, brainVars, At, Waiting, OpenGateHoldsNothing, Kept, Gated, IsBlocked
    <2>5. CASE ReadPlan \/ GateFails \/ GateShut \/ Assign \/ Prompted \/ ReEvaluate \/ EndPoll \/ Restart
      BY <2>1, <2>5 DEF ReadPlan, ReEvaluate, GateFails, GateShut, Assign, Prompted, EndPoll, Restart, Reads, GoTo, At,
                        Waiting, OpenGateHoldsNothing, Kept, Gated, IsBlocked
    <2>6. CASE \/ \E t \in Tasks : BeginRelease(t) \/ BeginHandBack(t)
               \/ \E t \in Tasks, arm \in Arms, outcome \in Outcomes : BeginReport(t, arm, outcome)
               \/ \E n \in 0..Cardinality(Tasks) : PlanReviews(n)
      <3>1. /\ pc \notin {"sync", "ticking", "gating", "resuming"}
            /\ ~At("resuming")'
        BY <2>6 DEF BeginRelease, BeginHandBack, BeginReport, PlanReviews, GoTo, At
      <3> QED BY <2>1, <3>1 DEF Waiting, OpenGateHoldsNothing, Kept, Gated, IsBlocked
    <2> QED BY <1>1, <2>2, <2>3, <2>4, <2>5, <2>6
  <1>2. ASSUME NEW t \in Tasks, Gate(t) PROVE Waiting'
    <2>1. Gated(t)' /\ \A u \in Tasks \ {t} : task'[u] = task[u]
      BY <1>2 DEF Gate, Gated, IsBlocked, Blocked, BoardOK
    <2>2. At("gating")' /\ UNCHANGED edited
      BY <1>2 DEF Gate, NextIs, At
    <2> QED BY <2>1, <2>2 DEF Waiting, OpenGateHoldsNothing, Kept, Gated, IsBlocked, At
  <1>3. ASSUME NEW t \in Tasks, Resume(t) PROVE Waiting'
    <2>1. \A u \in Tasks : Kept(u)' => u # t /\ Kept(u) /\ task'[u] = task[u]
      BY <1>3, SetOpenKept DEF Resume, Open
    <2>2. At("resuming") /\ At("resuming")' /\ list' = list \ {t} /\ UNCHANGED edited
      BY <1>3 DEF Resume, NextIs, At
    <2> QED BY <2>1, <2>2 DEF Waiting, OpenGateHoldsNothing, Gated, IsBlocked, At
  <1>4. CASE \/ \E t \in Tasks : BlockRunnable(t) \/ Unblock(t)
             \/ ReviewUnblocks \/ ReviewCancels \/ ReviewPostpones \/ HumanNotified \/ Release
             \/ Lease \/ NotPrompted
    <2>1. /\ pc \notin {"sync", "ticking", "gating", "resuming"}
          /\ ~At("resuming")' /\ UNCHANGED edited
      BY <1>4 DEF BlockRunnable, Unblock, ReviewUnblocks, ReviewCancels, ReviewPostpones, HumanNotified,
                  Release, Lease, NotPrompted, NextIs, Decided, GoTo, At
    <2>2. \A u \in Tasks : Kept(u)' => Kept(u)
      <3>1. ASSUME NEW t \in Tasks, BlockRunnable(t) \/ Unblock(t)
            PROVE  \A u \in Tasks : Kept(u)' => Kept(u)
        BY <3>1, SetBlockedKept, SetOpenKept DEF BlockRunnable, Unblock, Open
      <3>2. CASE ReviewUnblocks \/ ReviewCancels \/ ReviewPostpones \/ HumanNotified
        <4>1. held.task \in Tasks
          BY <3>2 DEF ReviewUnblocks, ReviewCancels, ReviewPostpones, HumanNotified, At, BrainOK, Results
        <4>2. \/ SetOpen(held.task, "pending") \/ SetOpen(held.task, "cancelled")
              \/ SetReviewer(held.task, NoArm) \/ SetBlocked(held.task, "other")
          BY <3>2 DEF ReviewUnblocks, ReviewCancels, ReviewPostpones, HumanNotified
        <4> QED BY <4>1, <4>2, SetOpenKept, SetReviewerKept, SetBlockedKept DEF Open
      <3>3. CASE Release
        BY <3>3, SetOpenKept DEF Release, At, BrainOK, Open
      <3>4. CASE Lease \/ NotPrompted
        <4>1. Head(plan).task \in Tasks
          BY <3>4, HeadOfPlan DEF Lease, NotPrompted, At, BrainOK
        <4> QED BY <3>4, <4>1, SetReviewerKept DEF Lease, NotPrompted
      <3> QED BY <1>4, <3>1, <3>2, <3>3, <3>4
    <2>3. \A u \in Tasks : Kept(u) => u \in edited
      BY <2>1 DEF Waiting, OpenGateHoldsNothing, Kept
    <2> QED BY <2>1, <2>2, <2>3 DEF Waiting, OpenGateHoldsNothing, Kept, IsBlocked
  <1>5. CASE \E t \in Tasks : Beside(t)
    BY <1>5, BesideWaits
  <1>6. ASSUME NEW t \in Tasks, Tick(t) PROVE Waiting'
    <2>1. \A u \in Tasks : Kept(u)' => u # t /\ Kept(u) /\ task'[u] = task[u]
      BY <1>6, SetOpenKept DEF Tick, Open
    <2>2. At("ticking")' /\ UNCHANGED edited
      BY <1>6 DEF Tick, NextIs, At
    <2> QED BY <2>1, <2>2 DEF Waiting, OpenGateHoldsNothing, Gated, IsBlocked, At
  <1> QED BY <1>1, <1>2, <1>3, <1>4, <1>5, <1>6 DEF Next, Poll

\* When the gate has opened nothing is left behind it, except what a user
\* edited while it was blocked.
THEOREM OpenGateHoldsNothingHolds == Spec => []OpenGateHoldsNothing
  <1>1. Init => Waiting
    BY DEF Init, Waiting, OpenGateHoldsNothing, Kept, IsBlocked, Opened, At
  <1>2. Waiting => OpenGateHoldsNothing
    BY DEF Waiting
  <1> QED BY <1>1, <1>2, TypedAlways, WaitingStep, PTL DEF Spec

-----------------------------------------------------------------------------
(* What the Brain read *)

\* For the tasks nothing else has changed since, the Brain's read still holds.
ReadHolds ==
    /\ At("ticking") => \A t \in list \ stale : task[t].status = "pending"
    /\ At("reevaluating") => \A t \in list \ stale : task[t].status \in {"pending", "blocked"}
    /\ At("gating") => \A t \in list \ stale : task[t].status \in {"pending", "active"}
    /\ At("resuming") => \A t \in list \ stale : Gated(t)
    /\ At("assigning") => \A t \in list \ stale : task[t].status = "pending"
    /\ (At("deciding") \/ At("notifying")) /\ held.task \notin stale => IsBlocked(held.task)
    /\ At("releasing") /\ held \notin stale => task[held].status # "done"
    /\ At("reviewing") \/ At("prompting") =>
         \A i \in 1..Len(plan) : plan[i].task \notin stale => IsBlocked(plan[i].task)

\* Such a step leaves the status and the category of what is not stale alone.
LEMMA BesideKeepsUnstale ==
    ASSUME Typed, NEW t \in Tasks, Beside(t), NEW u \in Tasks \ stale'
    PROVE  task'[u].status = task[u].status /\ task'[u].category = task[u].category
  <1> USE DEF Typed
  <1>1. CASE u # t
    BY <1>1, BesideTyped
  <1>2. CASE u = t
    <2>1. Comment(t) \/ TimePasses(t)
      BY <1>2 DEF Beside, Regardless, TimerFires, World, Claims, UserMoves, UserBlocks, Unseen
    <2> QED BY <1>2, <2>1 DEF Comment, TimePasses, Blocked, BoardOK, IsBlocked
  <1> QED BY <1>1, <1>2

LEMMA BesideReadHolds ==
    ASSUME Typed, ReadHolds, NEW t \in Tasks, Beside(t)
    PROVE  ReadHolds'
  <1> USE DEF Typed
  <1>1. UNCHANGED brainVars /\ stale \subseteq stale'
    BY BesideTyped
  <1>2. \A u \in Tasks : u \notin stale' =>
          task'[u].status = task[u].status /\ task'[u].category = task[u].category
    BY BesideKeepsUnstale
  <1>3. \A u \in list : u \in Tasks
    BY DEF BrainOK
  <1>4. At("deciding") \/ At("notifying") => held.task \in Tasks
    BY DEF BrainOK, At, Results
  <1>5. At("releasing") => held \in Tasks
    BY DEF BrainOK, At
  <1>6. \A i \in 1..Len(plan) : plan[i].task \in Tasks
    BY PlanArms DEF Reviews
  <1>7. /\ pc' = pc /\ list' = list /\ held' = held /\ plan' = plan
    BY <1>1 DEF brainVars
  <1>8. At("gating")' => \A u \in (list \ stale)' : task'[u].status \in {"pending", "active"}
    BY <1>1, <1>2, <1>3, <1>7 DEF ReadHolds, At
  <1>9. At("resuming")' => \A u \in (list \ stale)' : task'[u].status = "blocked" /\ task'[u].category = "gate"
    BY <1>1, <1>2, <1>3, <1>7 DEF ReadHolds, At, Gated, IsBlocked
  <1>10. At("assigning")' => \A u \in (list \ stale)' : task'[u].status = "pending"
    BY <1>1, <1>2, <1>3, <1>7 DEF ReadHolds, At
  <1>11. (At("deciding") \/ At("notifying"))' /\ (held.task \notin stale)' => task'[held.task].status = "blocked"
    BY <1>1, <1>2, <1>4, <1>7 DEF ReadHolds, At, IsBlocked
  <1>12. At("releasing")' /\ (held \notin stale)' => task'[held].status # "done"
    BY <1>1, <1>2, <1>5, <1>7 DEF ReadHolds, At
  <1>13. (At("reviewing") \/ At("prompting"))' =>
           \A i \in 1..Len(plan) : plan[i].task \notin stale' => task'[plan[i].task].status = "blocked"
    BY <1>1, <1>2, <1>6, <1>7 DEF ReadHolds, At, IsBlocked
  <1>14. At("ticking")' => \A u \in (list \ stale)' : task'[u].status = "pending"
    BY <1>1, <1>2, <1>3, <1>7 DEF ReadHolds, At
  <1>15. At("reevaluating")' => \A u \in (list \ stale)' : task'[u].status \in {"pending", "blocked"}
    BY <1>1, <1>2, <1>3, <1>7 DEF ReadHolds, At
  <1> QED BY <1>7, <1>8, <1>9, <1>10, <1>11, <1>12, <1>13, <1>14, <1>15 DEF ReadHolds, Gated, IsBlocked

\* What a PATCH leaves: the other rows, and the status it sets.
LEMMA PatchedRows ==
    ASSUME BoardOK, NEW t \in Tasks
    PROVE  /\ \A status \in Open : SetOpen(t, status) =>
                 task'[t] = Opened(status) /\ \A u \in Tasks \ {t} : task'[u] = task[u]
           /\ \A reviewer \in Arms \cup {NoArm} : SetReviewer(t, reviewer) =>
                 /\ task'[t].status = "blocked" /\ task'[t].category = "other"
                 /\ \A u \in Tasks \ {t} : task'[u] = task[u]
           /\ SetBlocked(t, "other") =>
                 /\ task'[t].status = "blocked" /\ task'[t].category = "other"
                 /\ \A u \in Tasks \ {t} : task'[u] = task[u]
  <1>1. ASSUME NEW status \in Open, SetOpen(t, status)
        PROVE  task'[t] = Opened(status) /\ \A u \in Tasks \ {t} : task'[u] = task[u]
    BY <1>1 DEF SetOpen, BoardOK
  <1>2. ASSUME NEW reviewer \in Arms \cup {NoArm}, SetReviewer(t, reviewer)
        PROVE  /\ task'[t].status = "blocked" /\ task'[t].category = "other"
               /\ \A u \in Tasks \ {t} : task'[u] = task[u]
    BY <1>2 DEF SetReviewer, Blocked, BoardOK
  <1>3. ASSUME SetBlocked(t, "other")
        PROVE  /\ task'[t].status = "blocked" /\ task'[t].category = "other"
               /\ \A u \in Tasks \ {t} : task'[u] = task[u]
    <2>1. \A u \in Tasks \ {t} : task'[u] = task[u]
      BY <1>3 DEF SetBlocked, BoardOK
    <2>2. CASE IsBlocked(t)
      <3>1. task[t] = [status |-> task[t].status, category |-> task[t].category,
                       reviewer |-> task[t].reviewer, parked |-> task[t].parked]
        BY DEF BoardOK, TaskRows
      <3> QED BY <1>3, <2>1, <2>2, <3>1 DEF SetBlocked, BoardOK, IsBlocked
    <2>3. CASE ~IsBlocked(t)
      BY <1>3, <2>1, <2>3 DEF SetBlocked, BoardOK, Blocked
    <2> QED BY <2>2, <2>3
  <1> QED BY <1>1, <1>2, <1>3

LEMMA ReadHoldsStep == Typed /\ ReadHolds /\ [Next]_vars => ReadHolds'
  <1> SUFFICES ASSUME Typed, ReadHolds, [Next]_vars PROVE ReadHolds'
    OBVIOUS
  <1> USE DEF Typed
  <1>1. CASE ReadPlan \/ GateFails \/ GateOpens \/ Assign \/ ReEvaluate
    BY <1>1 DEF ReadPlan, ReEvaluate, GateFails, GateOpens, Assign, Reads, GoTo, At, ReadHolds, boardVars, Gated, IsBlocked
  <1>2. CASE GateShut \/ Resumed \/ EndPoll \/ Restart
    BY <1>2 DEF GateShut, Resumed, EndPoll, Restart, GoTo, At, ReadHolds
  <1>3. ASSUME NEW t \in Tasks,
               Tick(t) \/ Gate(t) \/ Resume(t) \/ BlockRunnable(t) \/ Unblock(t)
        PROVE  ReadHolds'
    <2>1. list' = list \ {t} /\ UNCHANGED <<pc, plan, held, stale>> /\ list \subseteq Tasks
      BY <1>3 DEF Tick, Gate, Resume, BlockRunnable, Unblock, NextIs, BrainOK
    <2>2. pc \in {"ticking", "gating", "resuming", "assigning", "reevaluating"}
      BY <1>3 DEF Tick, Gate, Resume, BlockRunnable, Unblock, At
    <2>3. \A u \in Tasks \ {t} : task'[u] = task[u]
      BY <1>3 DEF Tick, Gate, Resume, BlockRunnable, Unblock, SetOpen, SetBlocked, BoardOK
    <2> QED BY <2>1, <2>2, <2>3 DEF ReadHolds, At, Gated, IsBlocked
  <1>4. CASE \/ \E t \in Tasks : BeginRelease(t) \/ BeginHandBack(t)
             \/ \E t \in Tasks, arm \in Arms, outcome \in Outcomes : BeginReport(t, arm, outcome)
    BY <1>4 DEF BeginRelease, BeginHandBack, BeginReport, GoTo, At, ReadHolds, boardVars, IsBlocked
  <1>5. CASE ReviewUnblocks \/ ReviewCancels \/ HumanNotified \/ Release
    BY <1>5 DEF ReviewUnblocks, ReviewCancels, HumanNotified, Release, Decided, GoTo, At, ReadHolds
  <1>6. CASE ReviewPostpones
    <2>1. held.task \in Tasks /\ held' \in {held, Nothing} /\ (pc' = "notifying" => held' = held)
      BY <1>6 DEF ReviewPostpones, Decided, GoTo, At, BrainOK, Results
    <2>2. task'[held.task].status = "blocked"
      BY <1>6, <2>1, PatchedRows DEF ReviewPostpones
    <2> QED BY <1>6, <2>1, <2>2 DEF ReviewPostpones, Decided, GoTo, At, ReadHolds, IsBlocked
  <1>7. ASSUME NEW n \in 0..Cardinality(Tasks), PlanReviews(n) PROVE ReadHolds'
    <2>1. Len(plan') = n /\ \A i \in 1..n : Reviewable(plan'[i].task)
      BY <1>7, PlanMade
    <2>2. \A i \in 1..n : task[plan'[i].task].status = "blocked"
      BY <2>1 DEF Reviewable, BoardOK, IsBlocked
    <2> QED BY <1>7, <2>1, <2>2 DEF PlanReviews, GoTo, At, ReadHolds, boardVars, IsBlocked
  <1>8. CASE Lease
    <2>1. Head(plan).task \in Tasks /\ Head(plan).arm \in Arms
      BY <1>8, HeadOfPlan DEF Lease
    <2>2. /\ task'[Head(plan).task].status = "blocked"
          /\ \A u \in Tasks \ {Head(plan).task} : task'[u] = task[u]
      BY <1>8, <2>1, PatchedRows DEF Lease
    <2>3. \A i \in 1..Len(plan) : plan[i].task \in Tasks
      BY PlanArms DEF Reviews
    <2>4. \A i \in 1..Len(plan) : plan[i].task \notin stale => task'[plan[i].task].status = "blocked"
      BY <1>8, <2>2, <2>3 DEF Lease, ReadHolds, IsBlocked, At
    <2> QED BY <1>8, <2>4 DEF Lease, GoTo, At, ReadHolds, IsBlocked
  <1>9. CASE Prompted \/ NotPrompted
    <2>1. plan # <<>>
      BY <1>9 DEF Prompted, NotPrompted, At, BrainOK
    <2>2. /\ Head(plan).task \in Tasks /\ Len(plan) \in Nat
          /\ plan' = Tail(plan) /\ Len(plan') = Len(plan) - 1
          /\ \A i \in 1..Len(plan') : plan'[i] = plan[i + 1]
      BY <1>9, <2>1, HeadOfPlan DEF Prompted, NotPrompted
    <2>3. \A u \in Tasks : IsBlocked(u) => task'[u].status = "blocked"
      <3>1. CASE Prompted
        BY <3>1 DEF Prompted, boardVars, IsBlocked
      <3>2. CASE NotPrompted
        BY <2>2, <3>2, PatchedRows DEF NotPrompted, IsBlocked
      <3> QED BY <1>9, <3>1, <3>2
    <2>4. ASSUME NEW i \in 1..Len(plan'), plan'[i].task \notin stale
          PROVE  task'[plan'[i].task].status = "blocked"
      <3>1. i + 1 \in 1..Len(plan) /\ plan'[i] = plan[i + 1]
        BY <2>2
      <3>2. plan[i + 1].task \in Tasks
        BY <3>1, PlanArms DEF Reviews
      <3>3. IsBlocked(plan[i + 1].task)
        BY <1>9, <2>4, <3>1 DEF Prompted, NotPrompted, ReadHolds
      <3> QED BY <2>3, <3>1, <3>2, <3>3
    <2> QED BY <1>9, <2>4 DEF Prompted, NotPrompted, GoTo, At, ReadHolds, IsBlocked
  <1>10. CASE UNCHANGED vars
    BY <1>10 DEF vars, boardVars, brainVars, ReadHolds, At, Gated, IsBlocked
  <1>11. CASE \E t \in Tasks : Beside(t)
    BY <1>11, BesideReadHolds
  <1> QED BY <1>1, <1>2, <1>3, <1>4, <1>5, <1>6, <1>7, <1>8, <1>9, <1>10, <1>11 DEF Next, Poll

LEMMA SameRowAllowed == \A row : Allowed(row, row)
  BY DEF Allowed

LEMMA HeedsStep ==
    ASSUME Typed, ReadHolds, Next, brainVars' # brainVars, NEW t \in Tasks \ stale
    PROVE  Allowed(task[t], task'[t])
  <1> USE DEF Typed
  <1>1. CASE UNCHANGED task
    BY <1>1, SameRowAllowed
  <1>2. ASSUME NEW u \in Tasks, Gate(u) PROVE Allowed(task[t], task'[t])
    <2>1. /\ u \in list /\ At("gating")
          /\ task'[u].status = "blocked"
          /\ \A v \in Tasks \ {u} : task'[v] = task[v]
      BY <1>2 DEF Gate, NextIs, Blocked, BoardOK
    <2>2. t # u \/ task[t].status \in {"pending", "active"}
      BY <2>1 DEF ReadHolds
    <2> QED BY <2>1, <2>2, SameRowAllowed DEF Allowed
  <1>3. ASSUME NEW u \in Tasks, Resume(u) PROVE Allowed(task[t], task'[t])
    <2>1. /\ u \in list /\ At("resuming")
          /\ task'[u] = Opened("pending")
          /\ \A v \in Tasks \ {u} : task'[v] = task[v]
      BY <1>3, PatchedRows DEF Resume, NextIs, Open
    <2>2. t # u \/ task[t].status = "blocked"
      BY <2>1 DEF ReadHolds, Gated, IsBlocked
    <2> QED BY <2>1, <2>2, SameRowAllowed DEF Allowed, Opened
  <1>4. ASSUME NEW u \in Tasks, BlockRunnable(u) PROVE Allowed(task[t], task'[t])
    <2>1. /\ u \in list /\ At("assigning")
          /\ task'[u].status = "blocked"
          /\ \A v \in Tasks \ {u} : task'[v] = task[v]
      BY <1>4, PatchedRows DEF BlockRunnable, NextIs
    <2>2. t # u \/ task[t].status = "pending"
      BY <2>1 DEF ReadHolds
    <2> QED BY <2>1, <2>2, SameRowAllowed DEF Allowed
  <1>5. CASE ReviewUnblocks \/ ReviewCancels \/ ReviewPostpones \/ HumanNotified
    <2>1. held.task \in Tasks /\ (held.task \notin stale => task[held.task].status = "blocked")
      BY <1>5 DEF ReviewUnblocks, ReviewCancels, ReviewPostpones, HumanNotified, At, BrainOK,
                  Results, ReadHolds, IsBlocked
    <2>2. /\ \/ task'[held.task].status = "blocked" /\ task'[held.task].category = "other"
             \/ task'[held.task] = Opened("pending") \/ task'[held.task] = Opened("cancelled")
          /\ \A v \in Tasks \ {held.task} : task'[v] = task[v]
      BY <1>5, <2>1, PatchedRows
         DEF ReviewUnblocks, ReviewCancels, ReviewPostpones, HumanNotified, Open
    <2> QED BY <2>1, <2>2, SameRowAllowed DEF Allowed, Opened
  <1>6. CASE Release
    <2>1. held \in Tasks /\ (held \notin stale => task[held].status # "done")
      BY <1>6 DEF Release, At, BrainOK, ReadHolds, IsBlocked
    <2>2. task'[held] = Opened("pending") /\ \A v \in Tasks \ {held} : task'[v] = task[v]
      BY <1>6, <2>1, PatchedRows DEF Release, Open
    <2> QED BY <2>1, <2>2, SameRowAllowed DEF Allowed, Opened
  <1>7. CASE Lease \/ NotPrompted
    <2>1. plan # <<>> /\ (At("reviewing") \/ At("prompting"))
      BY <1>7 DEF Lease, NotPrompted, At, BrainOK
    <2>2. /\ Head(plan).task \in Tasks /\ Head(plan).arm \in Arms
          /\ Head(plan) = plan[1] /\ Len(plan) \in Nat /\ Len(plan) >= 1
      BY <2>1, HeadOfPlan
    <2>3. Head(plan).task \notin stale => task[Head(plan).task].status = "blocked"
      BY <2>1, <2>2 DEF ReadHolds, IsBlocked
    <2>4. /\ task'[Head(plan).task].status = "blocked" /\ task'[Head(plan).task].category = "other"
          /\ \A v \in Tasks \ {Head(plan).task} : task'[v] = task[v]
      BY <1>7, <2>2, PatchedRows DEF Lease, NotPrompted
    <2> QED BY <2>2, <2>3, <2>4, SameRowAllowed DEF Allowed
  <1>8. ~(\E u \in Tasks : Beside(u))
    BY BesideTyped
  <1>9. CASE \/ ReadPlan \/ GateFails \/ GateShut \/ GateOpens \/ Resumed \/ Assign \/ Prompted
             \/ ReEvaluate \/ EndPoll \/ Restart
             \/ \E u \in Tasks : BeginRelease(u) \/ BeginHandBack(u)
             \/ \E u \in Tasks, arm \in Arms, outcome \in Outcomes : BeginReport(u, arm, outcome)
             \/ \E n \in 0..Cardinality(Tasks) : PlanReviews(n)
    BY <1>1, <1>9 DEF ReadPlan, GateFails, GateShut, GateOpens, Resumed, Assign, Prompted, ReEvaluate,
                      EndPoll, Restart, BeginRelease, BeginHandBack, BeginReport, PlanReviews, Reads, boardVars
  <1>10. ASSUME NEW u \in Tasks, Tick(u) PROVE Allowed(task[t], task'[t])
    <2>1. /\ u \in list /\ At("ticking")
          /\ task'[u] = Opened("done")
          /\ \A v \in Tasks \ {u} : task'[v] = task[v]
      BY <1>10, PatchedRows DEF Tick, NextIs, Open
    <2>2. t # u \/ task[t].status = "pending"
      BY <2>1 DEF ReadHolds
    <2> QED BY <2>1, <2>2, SameRowAllowed DEF Allowed, Opened
  <1>11. ASSUME NEW u \in Tasks, Unblock(u) PROVE Allowed(task[t], task'[t])
    <2>1. /\ u \in list /\ At("reevaluating")
          /\ task'[u] = Opened("pending")
          /\ \A v \in Tasks \ {u} : task'[v] = task[v]
      BY <1>11, PatchedRows DEF Unblock, NextIs, Open
    <2>2. t # u \/ task[t].status \in {"pending", "blocked"}
      BY <2>1 DEF ReadHolds
    <2> QED BY <2>1, <2>2, SameRowAllowed DEF Allowed, Opened
  <1> QED BY <1>2, <1>3, <1>4, <1>5, <1>6, <1>7, <1>8, <1>9, <1>10, <1>11 DEF Next, Poll

\* For any tasks and arms: a PATCH that follows from a read of the Brain is right
\* for the row it meets, unless that row was changed after the read, by others or
\* by one of the Brain's own PATCHes that do not look (Regardless, TimerFires).
THEOREM HeedsWhatItReadHolds == Spec => HeedsWhatItRead
  <1>1. Init => ReadHolds
    BY DEF Init, ReadHolds, At
  <1>2. Typed /\ ReadHolds /\ [Next]_vars =>
          [brainVars' # brainVars => \A t \in Tasks \ stale : Allowed(task[t], task'[t])]_vars
    BY HeedsStep
  <1> QED BY <1>1, <1>2, TypedAlways, ReadHoldsStep, PTL DEF Spec, HeedsWhatItRead
=============================================================================
