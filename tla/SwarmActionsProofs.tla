------------------------- MODULE SwarmActionsProofs -------------------------
(***************************************************************************)
(* Proofs about the swarm actions, for every set of proposals, events,     *)
(* Brains and every cooldown: type correctness, the implementation of      *)
(* AtMostOnce, and the two invariants about interventions in one scope.    *)
(***************************************************************************)
EXTENDS SwarmActions, TLAPS

(* What a key says of its proposal. *)
LEMMA KeyFacts ==
    ASSUME NEW p \in Proposals
    PROVE  /\ actionKey(p) \in Keys
           /\ actionScope(p) \in Scopes
           /\ actionKey(p)[1] = p.action
           /\ actionKey(p)[3] = p.evidence
           /\ p.action \notin Shared => actionKey(p)[2] = actionScope(p)
           /\ p.evidence \in Evidence /\ At[p.evidence] \in Nat
  BY ProposalAssumption, TimeAssumption DEF Keys, Scopes, actionKey

(* The event a key cites happened at some time. *)
LEMMA KeyTimes == ASSUME NEW k \in Keys PROVE At[k[3]] \in Nat
  BY KeyFacts DEF Keys

(* What each phase of a runner says of its proposal. *)
LEMMA RunnerFacts ==
    ASSUME TypeOK, NEW b \in Brains, runner[b].phase \in Engaged
    PROVE  /\ runner[b].proposal \in Proposals
           /\ Key(b) \in Keys
  BY KeyFacts DEF TypeOK, Runners, Engaged, Idle, Polling, Key

(* The row a reservation writes, and the one an outcome is written to. *)
LEMMA BookedType ==
    ASSUME TypeOK, NEW p \in Proposals, NEW execute \in BOOLEAN
    PROVE  Booked(p, execute) \in [Keys -> Rows \cup {Absent}]
  <1> DEFINE k == actionKey(p)
  <1>1. k \in Keys /\ actionScope(p) \in Scopes
    BY KeyFacts
  <1>2. NewRow(p, execute) \in Rows
    BY <1>1 DEF NewRow, Rows, Statuses, Unresolved, TypeOK
  <1>3. ASSUME ledger[k] # Absent
        PROVE  [ledger[k] EXCEPT !.status = "executing", !.proposal = p, !.updated = now]
                   \in Rows
    <2>1. ledger[k] \in Rows
      BY <1>1, <1>3 DEF TypeOK
    <2> QED
      BY <2>1 DEF Rows, Statuses, Unresolved, TypeOK
  <1> QED
    BY <1>1, <1>2, <1>3 DEF Booked, TypeOK

LEMMA ResolvedType ==
    ASSUME TypeOK, NEW k \in Keys, NEW status \in Statuses, ledger[k] # Absent
    PROVE  Resolved(k, status) \in [Keys -> Rows \cup {Absent}]
  <1>1. ledger[k] \in Rows
    BY DEF TypeOK
  <1> QED
    BY <1>1 DEF Resolved, TypeOK, Rows

(* Type correctness. *)
LEMMA StepTypes == TypeOK /\ [Next]_vars => TypeOK'
  <1> SUFFICES ASSUME TypeOK, [Next]_vars PROVE TypeOK'
    OBVIOUS
  <1> USE DEF historyVars
  <1>0. /\ \A b \in Brains : \A p \in Proposals : \A phase \in Engaged :
             [phase |-> phase, proposal |-> p] \in Runners
        /\ Idle \in Runners /\ Polling \in Runners
    BY DEF Runners
  <1>1. ASSUME NEW b \in Brains, StartPoll(b) PROVE TypeOK'
    BY <1>0, <1>1 DEF StartPoll, Becomes, TypeOK
  <1>2. ASSUME NEW b \in Brains, EndPoll(b) \/ Abandon(b) PROVE TypeOK'
    BY <1>0, <1>2 DEF EndPoll, Abandon, Leaves, Becomes, TypeOK
  <1>3. ASSUME NEW b \in Brains, Cancel(b) PROVE TypeOK'
    <2>1. runner[b].phase \in Engaged
      BY <1>3 DEF Cancel, Engaged
    <2>2. ledger' \in [Keys -> Rows \cup {Absent}]
      <3>1. CASE ledger[Key(b)].status = "executing"
        BY <1>3, <2>1, <3>1, RunnerFacts, ResolvedType
           DEF Cancel, finishSwarmAction, Statuses, Absent
      <3>2. CASE ledger[Key(b)].status # "executing"
        BY <1>3, <3>2 DEF Cancel, finishSwarmAction, TypeOK
      <3> QED
        BY <3>1, <3>2
    <2> QED
      BY <1>0, <1>3, <2>2 DEF Cancel, Leaves, Becomes, TypeOK
  <1>4. ASSUME NEW b \in Brains, dispatchSwarmAction(b) PROVE TypeOK'
    BY <1>0, <1>4, RunnerFacts DEF dispatchSwarmAction, Engages, Becomes, TypeOK, Engaged
  <1>5. ASSUME NEW b \in Brains, TimeOut(b) PROVE TypeOK'
    BY <1>0, <1>5, RunnerFacts DEF TimeOut, Engages, Becomes, TypeOK, Engaged
  <1>6. ASSUME NEW b \in Brains, Finish(b) PROVE TypeOK'
    <2>1. runner[b].phase \in Engaged
      BY <1>6 DEF Finish, Engaged
    <2>2. ledger' \in [Keys -> Rows \cup {Absent}]
      <3>1. CASE ledger[Key(b)].status = "executing"
        BY <1>6, <2>1, <3>1, RunnerFacts, ResolvedType
           DEF Finish, finishSwarmAction, Statuses, Unresolved, Absent
      <3>2. CASE ledger[Key(b)].status # "executing"
        BY <1>6, <3>2 DEF Finish, finishSwarmAction, TypeOK
      <3> QED
        BY <3>1, <3>2
    <2> QED
      BY <1>0, <1>6, <2>2 DEF Finish, Leaves, Becomes, TypeOK
  <1>7. ASSUME NEW b \in Brains, NEW p \in Proposals, Propose(b, p) PROVE TypeOK'
    BY <1>7, BookedType DEF Propose, reserveSwarmAction, TypeOK
  <1>8. ASSUME NEW b \in Brains, NEW p \in Proposals, Reserve(b, p) PROVE TypeOK'
    <2>1. ledger' \in [Keys -> Rows \cup {Absent}]
      BY <1>8, BookedType DEF Reserve, reserveSwarmAction
    <2>2. p.target \in Targets
      BY ProposalAssumption
    <2>3. runner' \in [Brains -> Runners]
      BY <1>0, <1>8 DEF Reserve, Engages, Leaves, Becomes, TypeOK, Engaged
    <2>4. used' \in [Brains -> SUBSET Targets]
      BY <1>8, <2>2 DEF Reserve, Leaves, TypeOK
    <2> QED
      BY <1>8, <2>1, <2>3, <2>4 DEF Reserve, TypeOK
  <1>9. ASSUME NEW k \in Keys, Land(k) \/ Miss(k) PROVE TypeOK'
    <2>1. \A phase \in Engaged : Answered(k, phase) => runner' \in [Brains -> Runners]
      <3> SUFFICES ASSUME NEW phase \in Engaged, Answered(k, phase), NEW b \in Brains,
                          runner[b].phase = "dispatching"
                   PROVE  [runner[b] EXCEPT !.phase = phase] \in Runners
        BY DEF Answered, TypeOK
      <3>1. runner[b] \in [phase: Engaged, proposal: Proposals]
        BY DEF TypeOK, Runners, Idle, Polling
      <3> QED
        BY <3>1 DEF Runners
    <2> QED
      BY <1>9, <2>1 DEF Land, Miss, TypeOK, Engaged
  <1>10. ASSUME NEW k \in Keys, NEW status \in {"succeeded", "rejected"},
                Reconcile(k, status)
         PROVE  TypeOK'
    <2>1. ledger[k] # Absent /\ status \in Statuses
      BY <1>10 DEF Reconcile, Absent, Unresolved, Statuses
    <2> QED
      BY <1>10, <2>1, ResolvedType DEF Reconcile, TypeOK
  <1>11. ASSUME Tick PROVE TypeOK'
    BY <1>11 DEF Tick, TypeOK
  <1>12. ASSUME UNCHANGED vars PROVE TypeOK'
    BY <1>12 DEF vars, TypeOK
  <1> QED
    BY <1>1, <1>2, <1>3, <1>4, <1>5, <1>6, <1>7, <1>8, <1>9, <1>10, <1>11, <1>12 DEF Next

(* The variables keep their types. *)
THEOREM TypeCorrect == Spec => []TypeOK
  <1>1. Init => TypeOK
    BY DEF Init, TypeOK, Runners
  <1> QED
    BY <1>1, StepTypes, PTL DEF Spec

-----------------------------------------------------------------------------
(* At most once: a runner that has reserved holds the only claim to its key, *)
(* from the reservation to the end of its request.                           *)

Granted(k) == ledger[k].status \notin {"absent", "proposed"}
Busy(b) == runner[b].phase \in Engaged

OnceInv ==
    /\ \A k \in Keys : landings[k] \in {0, 1} /\ (landings[k] = 1 => Granted(k))
    /\ \A k \in flying : landings[k] = 0 /\ Granted(k)
    /\ \A b \in Brains : Busy(b) => Granted(Key(b))
    /\ \A b \in Brains :
          runner[b].phase = "reserved" => Key(b) \notin flying /\ landings[Key(b)] = 0
    /\ \A b, c \in Brains : b # c /\ Busy(b) /\ Busy(c) => Key(b) # Key(c)

(* An outcome is only written to a row that was granted. *)
LEMMA OutcomesKeepGrants ==
    ASSUME TypeOK, NEW k \in Keys, Granted(k),
           NEW status \in Statuses \ {"absent", "proposed"},
           \/ ledger' = Resolved(k, status)
           \/ finishSwarmAction(k, status)
    PROVE  \A i \in Keys : Granted(i) <=> Granted(i)'
  <1>1. ledger[k] \in Rows
    BY DEF TypeOK, Granted, Absent
  <1>2. Resolved(k, status)[k].status = status
    BY <1>1 DEF Resolved, Rows, TypeOK
  <1>3. \A i \in Keys \ {k} : Resolved(k, status)[i] = ledger[i]
    BY DEF Resolved, TypeOK
  <1> QED
    BY <1>2, <1>3 DEF Granted, finishSwarmAction

(* A reservation grants a key that was not, and touches no other row. *)
LEMMA ReservationGrants ==
    ASSUME TypeOK, NEW p \in Proposals, NEW execute \in BOOLEAN,
           reserveSwarmAction(p, execute)
    PROVE  /\ ~Granted(actionKey(p))
           /\ execute => ledger'[actionKey(p)].status = "executing"
           /\ ~execute => ledger'[actionKey(p)].status = "proposed"
           /\ ledger'[actionKey(p)].updated = now
           /\ \A i \in Keys \ {actionKey(p)} : ledger'[i] = ledger[i]
  <1> DEFINE k == actionKey(p)
  <1>1. k \in Keys
    BY KeyFacts
  <1>2. ~Granted(k) /\ (ledger[k] # Absent => execute)
    BY <1>1 DEF reserveSwarmAction, Reservable, SameEvidence, Granted, TypeOK, Absent,
                Rows, Statuses, Unresolved
  <1>3. CASE ledger[k] = Absent
    BY <1>1, <1>2, <1>3 DEF reserveSwarmAction, Booked, NewRow, TypeOK
  <1>4. CASE ledger[k] # Absent
    BY <1>1, <1>2, <1>4 DEF reserveSwarmAction, Booked, TypeOK, Rows
  <1> QED
    BY <1>2, <1>3, <1>4

(* A runner that leaves or goes on polling has no key; the others are untouched. *)
LEMMA OneRunnerMoves ==
    ASSUME TypeOK, NEW b \in Brains, NEW state, Becomes(b, state)
    PROVE  runner'[b] = state /\ \A c \in Brains \ {b} : runner'[c] = runner[c]
  BY DEF TypeOK, Becomes

LEMMA AnswersKeepKeys ==
    ASSUME TypeOK, NEW k \in Keys, NEW phase \in {"acknowledged", "failed"},
           Answered(k, phase)
    PROVE  \A b \in Brains :
              /\ runner'[b].proposal = runner[b].proposal
              /\ Busy(b) <=> Busy(b)'
              /\ runner'[b].phase # runner[b].phase =>
                    runner[b].phase = "dispatching" /\ runner'[b].phase = phase
  <1> SUFFICES ASSUME NEW b \in Brains
               PROVE  /\ runner'[b].proposal = runner[b].proposal
                      /\ Busy(b) <=> Busy(b)'
                      /\ runner'[b].phase # runner[b].phase =>
                            runner[b].phase = "dispatching" /\ runner'[b].phase = phase
    OBVIOUS
  <1>1. CASE runner[b].phase = "dispatching" /\ Key(b) = k
    <2>1. runner[b] \in [phase: Engaged, proposal: Proposals]
      BY <1>1 DEF TypeOK, Runners, Idle, Polling
    <2> QED
      BY <1>1, <2>1 DEF Answered, Busy, Engaged
  <1>2. CASE ~(runner[b].phase = "dispatching" /\ Key(b) = k)
    BY <1>2 DEF Answered, Busy
  <1> QED
    BY <1>1, <1>2

(* Steps in which no runner engages or sends, and no grant is lost. *)
LEMMA QuietStepsKeepOnce ==
    ASSUME TypeOK, OnceInv,
           \A k \in Keys : Granted(k) => Granted(k)',
           \A b \in Brains : \/ ~Busy(b)'
                             \/ /\ Busy(b) /\ runner'[b].proposal = runner[b].proposal
                                /\ runner'[b].phase = "reserved" =>
                                       runner[b].phase = "reserved",
           flying' = flying, landings' = landings
    PROVE  OnceInv'
  <1>1. \A b \in Brains : Busy(b)' => Busy(b) /\ Key(b)' = Key(b) /\ Key(b) \in Keys
    BY RunnerFacts DEF Busy, Key
  <1>2. \A b \in Brains : runner'[b].phase = "reserved" => Busy(b)'
    BY DEF Busy, Engaged
  <1>3. \A b \in Brains : Busy(b)' => Granted(Key(b))'
    BY <1>1 DEF OnceInv, Granted
  <1>4. \A b \in Brains :
           runner'[b].phase = "reserved" => Key(b)' \notin flying' /\ landings'[Key(b)'] = 0
    BY <1>1, <1>2 DEF OnceInv, Busy
  <1>5. \A b, c \in Brains : b # c /\ Busy(b)' /\ Busy(c)' => Key(b)' # Key(c)'
    BY <1>1 DEF OnceInv
  <1>6. flying \subseteq Keys
    BY DEF TypeOK
  <1> QED
    BY <1>3, <1>4, <1>5, <1>6 DEF OnceInv

LEMMA OnceStep == TypeOK /\ OnceInv /\ [Next]_vars => OnceInv'
  <1> SUFFICES ASSUME TypeOK, OnceInv, [Next]_vars PROVE OnceInv'
    OBVIOUS
  <1> USE DEF historyVars
  <1>1. ASSUME NEW b \in Brains, StartPoll(b) \/ EndPoll(b) \/ Abandon(b) PROVE OnceInv'
    <2>1. ~Busy(b)' /\ \A c \in Brains \ {b} : runner'[c] = runner[c]
      BY <1>1, OneRunnerMoves
         DEF StartPoll, EndPoll, Abandon, Leaves, Busy, Idle, Polling, Engaged
    <2> QED
      BY <1>1, <2>1, QuietStepsKeepOnce DEF StartPoll, EndPoll, Abandon, Busy, Granted
  <1>2. ASSUME NEW b \in Brains, Cancel(b) \/ Finish(b) PROVE OnceInv'
    <2>1. Busy(b) /\ Key(b) \in Keys /\ Granted(Key(b))
      BY <1>2, RunnerFacts DEF Cancel, Finish, Busy, Engaged, OnceInv
    <2>2. ~Busy(b)' /\ \A c \in Brains \ {b} : runner'[c] = runner[c]
      BY <1>2, OneRunnerMoves DEF Cancel, Finish, Leaves, Busy, Idle, Polling, Engaged
    <2>3. \E status \in Statuses \ {"absent", "proposed"} : finishSwarmAction(Key(b), status)
      BY <1>2 DEF Cancel, Finish, Statuses, Unresolved
    <2>4. \A k \in Keys : Granted(k) => Granted(k)'
      BY <2>1, <2>3, OutcomesKeepGrants
    <2> QED
      BY <1>2, <2>2, <2>4, QuietStepsKeepOnce DEF Cancel, Finish, Busy
  <1>3. ASSUME NEW b \in Brains, TimeOut(b) PROVE OnceInv'
    <2>1. /\ runner'[b].phase = "failed" /\ runner'[b].proposal = runner[b].proposal
          /\ \A c \in Brains \ {b} : runner'[c] = runner[c]
      BY <1>3, OneRunnerMoves DEF TimeOut, Engages
    <2> QED
      BY <1>3, <2>1, QuietStepsKeepOnce DEF TimeOut, Busy, Granted, Engaged
  <1>4. ASSUME NEW b \in Brains, dispatchSwarmAction(b) PROVE OnceInv'
    <2>1. Busy(b) /\ Key(b) \in Keys
      BY <1>4, RunnerFacts DEF dispatchSwarmAction, Busy, Engaged
    <2>2. /\ runner'[b].phase = "dispatching" /\ runner'[b].proposal = runner[b].proposal
          /\ \A c \in Brains \ {b} : runner'[c] = runner[c]
      BY <1>4, OneRunnerMoves DEF dispatchSwarmAction, Engages
    <2>3. \A c \in Brains : Key(c)' = Key(c) /\ (Busy(c)' => Busy(c))
      BY <2>1, <2>2 DEF Key, Busy
    <2>4. /\ flying' = flying \cup {Key(b)} /\ ledger' = ledger /\ landings' = landings
          /\ Granted(Key(b)) /\ landings[Key(b)] = 0
      BY <1>4, <2>1 DEF dispatchSwarmAction, OnceInv
    <2>5. \A c \in Brains :
             runner'[c].phase = "reserved" => Key(c)' \notin flying' /\ landings'[Key(c)'] = 0
      <3> SUFFICES ASSUME NEW c \in Brains, runner'[c].phase = "reserved"
                   PROVE  Key(c) \notin flying' /\ landings[Key(c)] = 0
        BY <2>3, <2>4
      <3>1. c # b /\ runner[c].phase = "reserved" /\ Busy(c)
        BY <2>2 DEF Busy, Engaged
      <3> QED
        BY <2>1, <2>4, <3>1 DEF OnceInv
    <2> QED
      BY <2>3, <2>4, <2>5 DEF OnceInv, Granted
  <1>5. ASSUME NEW b \in Brains, NEW p \in Proposals, Propose(b, p) PROVE OnceInv'
    <2>1. reserveSwarmAction(p, FALSE) /\ UNCHANGED <<runner, flying, landings>>
      BY <1>5 DEF Propose
    <2>2. \A k \in Keys : Granted(k) => Granted(k)'
      BY <2>1, ReservationGrants DEF Granted
    <2> QED
      BY <2>1, <2>2, QuietStepsKeepOnce DEF Busy
  <1>6. ASSUME NEW b \in Brains, NEW p \in Proposals, Reserve(b, p) PROVE OnceInv'
    <2> DEFINE k == actionKey(p)
    <2>1. /\ reserveSwarmAction(p, TRUE) /\ UNCHANGED <<flying, landings>>
          /\ Engages(b, "reserved", p) \/ Becomes(b, Idle)
          /\ runner[b].phase = "polling"
      BY <1>6 DEF Reserve, Leaves
    <2>2. ~Granted(k) /\ Granted(k)' /\ k \in Keys
      BY <2>1, ReservationGrants, KeyFacts DEF Granted
    <2>3. \A i \in Keys : Granted(i) => Granted(i)'
      BY <2>1, <2>2, ReservationGrants DEF Granted
    <2>4. \A c \in Brains \ {b} : runner'[c] = runner[c]
      BY <2>1, OneRunnerMoves DEF Engages
    <2>5. CASE Engages(b, "reserved", p)
      <3>1. runner'[b] = [phase |-> "reserved", proposal |-> p]
        BY <2>5, OneRunnerMoves DEF Engages
      <3>2. Key(b)' = k
        BY <3>1 DEF Key
      <3>3. \A c \in Brains \ {b} : /\ Key(c)' = Key(c) /\ (Busy(c)' <=> Busy(c))
                                    /\ (Busy(c) => Key(c) # k /\ Key(c) \in Keys)
        BY <2>2, <2>4, RunnerFacts DEF Key, Busy, OnceInv
      <3>4. k \notin flying /\ landings[k] = 0
        BY <2>2 DEF OnceInv
      <3>5. \A c \in Brains : Busy(c)' => Granted(Key(c))'
        <4> SUFFICES ASSUME NEW c \in Brains, Busy(c)' PROVE Granted(Key(c))'
          OBVIOUS
        <4>1. CASE c = b
          BY <2>2, <3>2, <4>1 DEF Granted
        <4>2. CASE c # b
          <5>1. Granted(Key(c)) /\ Key(c) \in Keys
            BY <3>3, <4>2 DEF OnceInv
          <5> QED
            BY <2>3, <3>3, <4>2, <5>1 DEF Granted
        <4> QED
          BY <4>1, <4>2
      <3>6. \A c \in Brains :
               runner'[c].phase = "reserved" => Key(c)' \notin flying' /\ landings'[Key(c)'] = 0
        BY <2>1, <2>4, <3>2, <3>3, <3>4 DEF OnceInv
      <3>7. \A c, d \in Brains : c # d /\ Busy(c)' /\ Busy(d)' => Key(c)' # Key(d)'
        BY <3>2, <3>3 DEF OnceInv
      <3>8. flying \subseteq Keys
        BY DEF TypeOK
      <3> QED
        BY <2>1, <2>3, <3>5, <3>6, <3>7, <3>8 DEF OnceInv
    <2>6. CASE Becomes(b, Idle)
      <3>1. ~Busy(b)'
        BY <2>6, OneRunnerMoves DEF Busy, Idle, Engaged
      <3> QED
        BY <2>1, <2>3, <2>4, <3>1, QuietStepsKeepOnce DEF Busy
    <2> QED
      BY <2>1, <2>5, <2>6
  <1>7. ASSUME NEW k \in Keys, Land(k) \/ Miss(k) PROVE OnceInv'
    <2>1. /\ k \in flying /\ flying' = flying \ {k} /\ ledger' = ledger
          /\ Answered(k, "acknowledged") \/ Answered(k, "failed")
          /\ landings' = landings \/ landings' = [landings EXCEPT ![k] = @ + 1]
      BY <1>7 DEF Land, Miss
    <2>2. \A c \in Brains : /\ runner'[c].proposal = runner[c].proposal
                            /\ Busy(c) <=> Busy(c)'
                            /\ runner'[c].phase = "reserved" => runner[c].phase = "reserved"
      BY <2>1, AnswersKeepKeys
    <2>3. \A c \in Brains : Key(c)' = Key(c)
      BY <2>2 DEF Key
    <2>4. landings[k] = 0 /\ Granted(k)
      BY <2>1 DEF OnceInv
    <2>5. /\ \A i \in Keys \ {k} : landings'[i] = landings[i]
          /\ landings'[k] \in {0, 1}
      BY <2>1, <2>4 DEF TypeOK
    <2>6. \A c \in Brains :
             runner'[c].phase = "reserved" => Key(c)' \notin flying' /\ landings'[Key(c)'] = 0
      BY <2>1, <2>2, <2>3, <2>5, RunnerFacts DEF OnceInv, Engaged
    <2>7. \A i \in Keys : Granted(i)' <=> Granted(i)
      BY <2>1 DEF Granted
    <2>8. \A c \in Brains : Busy(c)' => Granted(Key(c))'
      BY <2>1, <2>2, <2>3 DEF OnceInv, Granted
    <2>9. flying \subseteq Keys
      BY DEF TypeOK
    <2> QED
      BY <2>1, <2>2, <2>3, <2>4, <2>5, <2>6, <2>7, <2>8, <2>9 DEF OnceInv
  <1>8. ASSUME NEW k \in Keys, NEW status \in {"succeeded", "rejected"},
               Reconcile(k, status)
        PROVE  OnceInv'
    <2>1. \A i \in Keys : Granted(i) => Granted(i)'
      BY <1>8, OutcomesKeepGrants DEF Reconcile, Granted, Unresolved, Statuses
    <2> QED
      BY <1>8, <2>1, QuietStepsKeepOnce DEF Reconcile, Busy
  <1>9. ASSUME Tick \/ UNCHANGED vars PROVE OnceInv'
    <2>1. UNCHANGED <<ledger, runner, flying, landings>>
      BY <1>9 DEF Tick, vars
    <2> QED
      BY <2>1, QuietStepsKeepOnce DEF Granted, Busy
  <1> QED
    BY <1>1, <1>2, <1>3, <1>4, <1>5, <1>6, <1>7, <1>8, <1>9 DEF Next

LEMMA OnceInit == Init => TypeOK /\ OnceInv
  BY DEF Init, TypeOK, Runners, OnceInv, Busy, Engaged, Idle, Granted

(* A step grants one key, executes one operation that was granted, or does *)
(* nothing the abstract specification can see.                             *)
LEMMA LedgerStep == TypeOK /\ OnceInv /\ [Next]_vars => [Ledger!Next]_(Ledger!vars)
  <1> SUFFICES ASSUME TypeOK, OnceInv, [Next]_vars
               PROVE  [Ledger!Next]_(Ledger!vars)
    OBVIOUS
  <1> USE DEF historyVars
  <1> DEFINE reserved == {k \in Keys : ledger[k].status \notin {"absent", "proposed"}}
  <1>0. /\ \A k \in Keys : k \in reserved <=> Granted(k)
        /\ \A k \in Keys : k \in reserved' <=> Granted(k)'
        /\ reserved \subseteq Keys /\ reserved' \subseteq Keys
    BY DEF Granted
  <1>a. ASSUME \A k \in Keys : Granted(k) <=> Granted(k)', landings' = landings
        PROVE  UNCHANGED Ledger!vars
    <2>1. reserved' = reserved
      BY <1>0, <1>a
    <2> QED
      BY <1>a, <2>1 DEF Ledger!vars
  <1>1. ASSUME NEW b \in Brains, Cancel(b) \/ Finish(b) PROVE UNCHANGED Ledger!vars
    <2>1. Key(b) \in Keys /\ Granted(Key(b))
      BY <1>1, RunnerFacts DEF Cancel, Finish, Busy, Engaged, OnceInv
    <2>2. \E status \in Statuses \ {"absent", "proposed"} : finishSwarmAction(Key(b), status)
      BY <1>1 DEF Cancel, Finish, Statuses, Unresolved
    <2>3. \A k \in Keys : Granted(k) <=> Granted(k)'
      BY <2>1, <2>2, OutcomesKeepGrants
    <2> QED
      BY <1>1, <1>a, <2>3 DEF Cancel, Finish
  <1>2. ASSUME NEW b \in Brains, NEW p \in Proposals, Propose(b, p)
        PROVE  UNCHANGED Ledger!vars
    <2>1. \A k \in Keys : Granted(k) <=> Granted(k)'
      BY <1>2, ReservationGrants DEF Propose, Granted
    <2> QED
      BY <1>2, <1>a, <2>1 DEF Propose
  <1>3. ASSUME NEW b \in Brains, NEW p \in Proposals, Reserve(b, p)
        PROVE  Ledger!Reserve(actionKey(p))
    <2> DEFINE k == actionKey(p)
    <2>1. ~Granted(k) /\ Granted(k)' /\ k \in Keys
      BY <1>3, ReservationGrants, KeyFacts DEF Reserve, Granted
    <2>2. \A i \in Keys \ {k} : Granted(i) <=> Granted(i)'
      BY <1>3, ReservationGrants DEF Reserve, Granted
    <2>3. reserved' = reserved \cup {k} /\ k \notin reserved
      BY <1>0, <2>1, <2>2
    <2> QED
      BY <1>3, <2>3 DEF Reserve, Ledger!Reserve
  <1>4. ASSUME NEW k \in Keys, Land(k) PROVE Ledger!Execute(k)
    <2>1. k \in flying /\ landings[k] = 0 /\ Granted(k) /\ ledger' = ledger
      BY <1>4 DEF Land, OnceInv
    <2>2. landings' = [landings EXCEPT ![k] = 1]
      BY <1>4, <2>1 DEF Land
    <2>3. k \in reserved /\ reserved' = reserved
      BY <1>0, <2>1
    <2> QED
      BY <2>1, <2>2, <2>3 DEF Ledger!Execute
  <1>5. ASSUME NEW k \in Keys, NEW status \in {"succeeded", "rejected"},
               Reconcile(k, status)
        PROVE  UNCHANGED Ledger!vars
    <2>1. \A i \in Keys : Granted(i) <=> Granted(i)'
      BY <1>5, OutcomesKeepGrants DEF Reconcile, Granted, Unresolved, Statuses
    <2> QED
      BY <1>5, <1>a, <2>1 DEF Reconcile
  <1>6. ASSUME \/ \E b \in Brains : StartPoll(b) \/ EndPoll(b) \/ Abandon(b)
                                      \/ dispatchSwarmAction(b) \/ TimeOut(b)
               \/ \E k \in Keys : Miss(k)
               \/ Tick
               \/ UNCHANGED vars
        PROVE  UNCHANGED Ledger!vars
    <2>1. ledger' = ledger /\ landings' = landings
      BY <1>6 DEF StartPoll, EndPoll, Abandon, dispatchSwarmAction, TimeOut, Miss, Tick, vars
    <2> QED
      BY <1>a, <2>1 DEF Granted
  <1>7. \A p \in Proposals : actionKey(p) \in Keys
    BY KeyFacts
  <1> QED
    BY <1>1, <1>2, <1>3, <1>4, <1>5, <1>6, <1>7 DEF Next, Ledger!Next

(* The ledger implements AtMostOnce: whatever crashes, times out or is     *)
(* reconciled, an operation is reserved at most once and takes effect at   *)
(* most once, and only after it was reserved.                              *)
THEOREM DispatchedAtMostOnce == Spec => KeepsPromise
  <1>1. Init => Ledger!Init
    BY DEF Init, Ledger!Init, Absent
  <1>2. Spec => [](TypeOK /\ OnceInv)
    BY OnceInit, OnceStep, StepTypes, PTL DEF Spec
  <1> QED
    BY <1>1, <1>2, LedgerStep, PTL DEF Spec, KeepsPromise, Ledger!Spec

-----------------------------------------------------------------------------
(* One scope: for the actions whose key names their target, what is under    *)
(* way is unresolved, and a scope has one unresolved row.                    *)

ScopeInv ==
    /\ \A k \in Targeted : ledger[k] # Absent => ledger[k].scope = k[2]
    /\ \A i, j \in Targeted :
          /\ i # j
          /\ ledger[i].status \in Unresolved
          /\ ledger[j].status \in Unresolved
          => i[2] # j[2]
    /\ \A k \in Verified : Undecided(k) => ledger[k].status \in Unresolved
    /\ \A b \in Brains :
          runner[b].phase = "acknowledged" =>
              Key(b) \notin flying /\ landings[Key(b)] = 1

LEMMA OneUnderWayFromScopeInv == ScopeInv => OneUnderWay
  BY DEF ScopeInv, OneUnderWay, Verified

(* An outcome moves a row from executing or uncertain, and changes no other. *)
LEMMA OutcomeFacts ==
    ASSUME TypeOK, NEW k \in Keys, ledger[k].status \in Unresolved,
           NEW status \in Statuses, ledger' = Resolved(k, status)
    PROVE  /\ ledger'[k].status = status /\ ledger'[k].updated = now
           /\ ledger'[k].scope = ledger[k].scope
           /\ ledger[k] # Absent /\ ledger'[k] # Absent
           /\ \A i \in Keys \ {k} : ledger'[i] = ledger[i]
  <1>1. ledger[k] \in Rows
    BY DEF TypeOK, Absent, Unresolved
  <1>2. status # "absent"
    BY DEF Statuses, Unresolved
  <1>3. /\ ledger'[k] = [ledger[k] EXCEPT !.status = status, !.updated = now]
        /\ \A i \in Keys \ {k} : ledger'[i] = ledger[i]
    BY DEF Resolved, TypeOK
  <1>4. /\ ledger'[k].status = status /\ ledger'[k].updated = now
        /\ ledger'[k].scope = ledger[k].scope
    BY <1>1, <1>3 DEF Rows
  <1>5. ledger[k] # Absent /\ ledger'[k] # Absent
    BY <1>2, <1>4 DEF Absent, Unresolved
  <1> QED
    BY <1>3, <1>4, <1>5

(* A reservation for a target-keyed action finds its scope free. *)
LEMMA ReservationScope ==
    ASSUME TypeOK, ScopeInv, NEW p \in Proposals, NEW execute \in BOOLEAN,
           reserveSwarmAction(p, execute)
    PROVE  /\ actionKey(p) \in Targeted =>
                 /\ ledger'[actionKey(p)].scope = actionKey(p)[2]
                 /\ \A i \in Targeted :
                       i[2] = actionKey(p)[2] => ledger[i].status \notin Unresolved
                 /\ \A i \in Targeted :
                       i[2] = actionKey(p)[2] /\ ledger[i].status = "succeeded" =>
                           /\ now >= ledger[i].updated + Cooldown
                           /\ At[actionKey(p)[3]] > ledger[i].updated
  <1> DEFINE k == actionKey(p)
  <1> SUFFICES ASSUME k \in Targeted
               PROVE  /\ ledger'[k].scope = k[2]
                      /\ \A i \in Targeted :
                            i[2] = k[2] => ledger[i].status \notin Unresolved
                      /\ \A i \in Targeted :
                            i[2] = k[2] /\ ledger[i].status = "succeeded" =>
                                /\ now >= ledger[i].updated + Cooldown
                                /\ At[k[3]] > ledger[i].updated
    OBVIOUS
  <1>1. k \in Keys /\ k[2] = actionScope(p) /\ k[3] = p.evidence /\ At[p.evidence] \in Nat
    BY KeyFacts DEF Targeted
  <1>2. ledger'[k].scope = k[2]
    <2>1. CASE ledger[k] = Absent
      BY <1>1, <2>1 DEF reserveSwarmAction, Booked, NewRow, TypeOK
    <2>2. CASE ledger[k] # Absent
      <3>1. ledger[k] \in Rows /\ ledger[k].scope = k[2]
        BY <1>1, <2>2 DEF TypeOK, ScopeInv
      <3>2. ledger'[k] = [ledger[k] EXCEPT !.status = "executing", !.proposal = p,
                                           !.updated = now]
        BY <1>1, <2>2 DEF reserveSwarmAction, Booked, TypeOK
      <3> QED
        BY <3>1, <3>2 DEF Rows
    <2> QED
      BY <2>1, <2>2
  <1>3. \A i \in Targeted : i \in Keys /\ (ledger[i] # Absent => ledger[i].scope = i[2])
    BY DEF ScopeInv, Targeted
  <1>4. \A i \in Targeted : i[2] = k[2] => ledger[i].status \notin Unresolved
    <2> SUFFICES ASSUME NEW i \in Targeted, i[2] = k[2], ledger[i].status \in Unresolved
                 PROVE  FALSE
      OBVIOUS
    <2>1. ledger[i] # Absent
      BY DEF Absent, Unresolved
    <2>2. i \in InScope(actionScope(p), Unresolved)
      BY <1>1, <1>3, <2>1 DEF InScope
    <2> QED
      BY <2>2 DEF reserveSwarmAction, Reservable
  <1>5. ASSUME NEW i \in Targeted, i[2] = k[2], ledger[i].status = "succeeded"
        PROVE  now >= ledger[i].updated + Cooldown /\ At[k[3]] > ledger[i].updated
    <2>1. ledger[i] # Absent
      BY <1>5 DEF Absent
    <2>2. i \in InScope(actionScope(p), {"succeeded"})
      BY <1>1, <1>3, <1>5, <2>1 DEF InScope
    <2>3. /\ ~(now < ledger[i].updated + Cooldown)
          /\ ~(At[p.evidence] <= ledger[i].updated)
      BY <2>2 DEF reserveSwarmAction, Reservable, CooldownOrOldEvidence
    <2>4. ledger[i].updated \in Nat /\ now \in Nat /\ Cooldown \in Nat
      BY <1>3, <2>1, TimeAssumption DEF TypeOK, Rows
    <2> QED
      BY <1>1, <2>3, <2>4
  <1> QED
    BY <1>2, <1>4, <1>5

(* Steps that leave the ledger alone and put nothing new under way. *)
LEMMA QuietStepsKeepScope ==
    ASSUME ScopeInv, ledger' = ledger, hasty' = hasty,
           \A k \in Keys : Undecided(k)' => Undecided(k),
           \A b \in Brains : runner'[b].phase = "acknowledged" =>
               Key(b)' \notin flying' /\ landings'[Key(b)'] = 1
    PROVE  ScopeInv'
  <1>1. Targeted \subseteq Keys /\ Targeted' = Targeted /\ Verified' = Verified
    BY DEF Targeted, Verified
  <1>2. \A k \in Verified : Undecided(k)' => ledger[k].status \in Unresolved
    BY <1>1 DEF ScopeInv, Verified
  <1> QED
    BY <1>1, <1>2 DEF ScopeInv

LEMMA ScopeStep == TypeOK /\ OnceInv /\ ScopeInv /\ [Next]_vars => ScopeInv'
  <1> SUFFICES ASSUME TypeOK, OnceInv, ScopeInv, [Next]_vars PROVE ScopeInv'
    OBVIOUS
  <1> USE DEF historyVars
  <1>0. Targeted \subseteq Keys /\ Verified \subseteq Targeted
    BY DEF Targeted, Verified
  <1>1. ASSUME NEW b \in Brains, StartPoll(b) \/ EndPoll(b) \/ Abandon(b) PROVE ScopeInv'
    <2>1. /\ runner'[b].phase \notin Engaged
          /\ \A c \in Brains \ {b} : runner'[c] = runner[c]
      BY <1>1, OneRunnerMoves
         DEF StartPoll, EndPoll, Abandon, Leaves, Idle, Polling, Engaged
    <2>2. \A k \in Keys : Undecided(k)' => Undecided(k)
      BY <1>1, <2>1 DEF StartPoll, EndPoll, Abandon, Undecided, Key
    <2>3. \A c \in Brains : runner'[c].phase = "acknowledged" =>
               Key(c)' \notin flying' /\ landings'[Key(c)'] = 1
      BY <1>1, <2>1 DEF StartPoll, EndPoll, Abandon, Key, ScopeInv, Engaged
    <2> QED
      BY <1>1, <2>2, <2>3, QuietStepsKeepScope DEF StartPoll, EndPoll, Abandon
  <1>2. ASSUME NEW b \in Brains, Cancel(b) \/ Finish(b) PROVE ScopeInv'
    <2> DEFINE k == Key(b)
    <2>1. Busy(b) /\ k \in Keys
      BY <1>2, RunnerFacts DEF Cancel, Finish, Busy, Engaged
    <2>2. /\ runner'[b].phase \notin Engaged
          /\ \A c \in Brains \ {b} : runner'[c] = runner[c]
          /\ UNCHANGED <<flying, landings, landedAt, hasty>>
      BY <1>2, OneRunnerMoves DEF Cancel, Finish, Leaves, Idle, Polling, Engaged
    <2>3. \A i \in Keys : Undecided(i)' => Undecided(i)
      BY <2>2 DEF Undecided, Key
    <2>4. \A c \in Brains : runner'[c].phase = "acknowledged" =>
               Key(c)' \notin flying' /\ landings'[Key(c)'] = 1
      BY <2>2 DEF Key, ScopeInv, Engaged
    <2>5. CASE ledger[k].status = "executing"
      <3>1. PICK status \in Statuses :
               /\ ledger' = Resolved(k, status)
               /\ k \in flying => status \in Unresolved
        <4>1. CASE Cancel(b)
          <5>1. k \notin flying
            BY <4>1 DEF Cancel, OnceInv
          <5> QED
            BY <2>5, <4>1, <5>1 DEF Cancel, finishSwarmAction, Statuses
        <4>2. CASE Finish(b) /\ runner[b].phase = "acknowledged"
          <5>1. k \notin flying
            BY <4>2 DEF ScopeInv
          <5> QED
            BY <2>5, <4>2, <5>1 DEF Finish, finishSwarmAction, Statuses
        <4>3. CASE Finish(b) /\ runner[b].phase # "acknowledged"
          BY <2>5, <4>3 DEF Finish, finishSwarmAction, Statuses, Unresolved
        <4> QED
          BY <1>2, <4>1, <4>2, <4>3
      <3>2. /\ ledger'[k].status = status /\ ledger'[k].scope = ledger[k].scope
            /\ ledger[k] # Absent
            /\ \A i \in Keys \ {k} : ledger'[i] = ledger[i]
        BY <2>1, <2>5, <3>1, OutcomeFacts DEF Unresolved
      <3>3. \A i \in Keys : i = k /\ Undecided(i)' => i \in flying
        <4> SUFFICES ASSUME NEW c \in Brains, runner'[c].phase \in Engaged, Key(c)' = Key(b)
                     PROVE  FALSE
          BY <2>2 DEF Undecided
        <4>1. c # b /\ Busy(c) /\ Key(c) = Key(b)
          BY <2>2 DEF Busy, Key
        <4> QED
          BY <2>1, <4>1 DEF OnceInv
      <3>4. \A i \in Keys : ledger'[i].status \in Unresolved => ledger[i].status \in Unresolved
        BY <2>5, <3>2 DEF Unresolved
      <3>5. \A i \in Targeted : ledger'[i] # Absent => ledger'[i].scope = i[2]
        BY <1>0, <2>1, <3>2 DEF ScopeInv
      <3>6. \A i \in Verified : Undecided(i)' => ledger'[i].status \in Unresolved
        <4> SUFFICES ASSUME NEW i \in Verified, Undecided(i)'
                     PROVE  ledger'[i].status \in Unresolved
          OBVIOUS
        <4>1. i \in Keys
          BY <1>0
        <4>2. CASE i = k
          BY <3>1, <3>2, <3>3, <4>1, <4>2
        <4>3. CASE i # k
          BY <2>3, <3>2, <4>1, <4>3 DEF ScopeInv
        <4> QED
          BY <4>2, <4>3
      <3> QED
        BY <1>0, <2>2, <2>4, <3>4, <3>5, <3>6 DEF ScopeInv, Verified, Targeted
    <2>6. CASE ledger[k].status # "executing"
      <3>1. ledger' = ledger
        BY <1>2, <2>6 DEF Cancel, Finish, finishSwarmAction
      <3> QED
        BY <2>2, <2>3, <2>4, <3>1, QuietStepsKeepScope
    <2> QED
      BY <2>5, <2>6
  <1>3. ASSUME NEW b \in Brains, TimeOut(b) \/ dispatchSwarmAction(b) PROVE ScopeInv'
    <2>1. /\ Busy(b) /\ runner'[b].proposal = runner[b].proposal
          /\ runner'[b].phase \in {"failed", "dispatching"}
          /\ \A c \in Brains \ {b} : runner'[c] = runner[c]
      BY <1>3, OneRunnerMoves DEF TimeOut, dispatchSwarmAction, Engages, Busy, Engaged
    <2>2. /\ Key(b) \in Keys /\ \A c \in Brains : Key(c)' = Key(c)
          /\ UNCHANGED <<ledger, landings, hasty>>
          /\ flying' = flying \/ flying' = flying \cup {Key(b)}
      BY <1>3, <2>1, RunnerFacts DEF TimeOut, dispatchSwarmAction, Key, Busy
    <2>3. \A i \in Keys : Undecided(i)' => Undecided(i)
      BY <2>1, <2>2 DEF Undecided, Busy
    <2>4. \A c \in Brains : runner'[c].phase = "acknowledged" =>
               Key(c)' \notin flying' /\ landings'[Key(c)'] = 1
      BY <2>1, <2>2 DEF ScopeInv, OnceInv, Busy, Engaged
    <2> QED
      BY <2>2, <2>3, <2>4, QuietStepsKeepScope
  <1>4. ASSUME NEW b \in Brains, NEW p \in Proposals, Propose(b, p) \/ Reserve(b, p)
        PROVE  ScopeInv'
    <2> DEFINE k == actionKey(p)
    <2>1. PICK execute \in BOOLEAN :
             /\ reserveSwarmAction(p, execute)
             /\ UNCHANGED <<flying, landings, hasty>>
             /\ execute = FALSE => runner' = runner
      BY <1>4 DEF Propose, Reserve
    <2>2. /\ k \in Keys /\ ~Granted(k)
          /\ execute => ledger'[k].status = "executing"
          /\ ~execute => ledger'[k].status = "proposed"
          /\ \A i \in Keys \ {k} : ledger'[i] = ledger[i]
      BY <2>1, ReservationGrants, KeyFacts
    <2>3. k \in Targeted =>
             /\ ledger'[k].scope = k[2]
             /\ \A i \in Targeted : i[2] = k[2] => ledger[i].status \notin Unresolved
      BY <2>1, ReservationScope
    <2>4. \A i \in Targeted : ledger'[i] # Absent => ledger'[i].scope = i[2]
      BY <1>0, <2>2, <2>3 DEF ScopeInv
    <2>5. \A i, j \in Targeted : /\ i # j
                                 /\ ledger'[i].status \in Unresolved
                                 /\ ledger'[j].status \in Unresolved
                                 => i[2] # j[2]
      BY <1>0, <2>2, <2>3 DEF ScopeInv
    <2>6. \A i \in Keys \ {k} : Undecided(i)' => Undecided(i)
      <3>1. CASE ~execute
        BY <2>1, <3>1 DEF Undecided, Key
      <3>2. CASE execute
        <4>1. Reserve(b, p)
          BY <1>4, <2>1, <2>2, <3>2, ReservationGrants DEF Propose
        <4>2. /\ \A c \in Brains \ {b} : runner'[c] = runner[c]
              /\ runner'[b] = Idle \/ runner'[b] = [phase |-> "reserved", proposal |-> p]
          BY <4>1, OneRunnerMoves DEF Reserve, Engages, Leaves
        <4> QED
          BY <2>1, <4>2 DEF Undecided, Key, Idle, Engaged
      <3> QED
        BY <3>1, <3>2
    <2>7. Undecided(k)' => execute
      <3> SUFFICES ASSUME ~execute, Undecided(k)' PROVE FALSE
        OBVIOUS
      <3>1. Undecided(k)
        BY <2>1 DEF Undecided, Key
      <3> QED
        BY <2>2, <3>1 DEF Undecided, OnceInv, Busy
    <2>8. \A i \in Verified : Undecided(i)' => ledger'[i].status \in Unresolved
      BY <1>0, <2>2, <2>6, <2>7 DEF ScopeInv, Unresolved
    <2>9. \A c \in Brains : runner'[c].phase = "acknowledged" =>
               Key(c)' \notin flying' /\ landings'[Key(c)'] = 1
      <3> SUFFICES ASSUME NEW c \in Brains, runner'[c].phase = "acknowledged"
                   PROVE  Key(c)' \notin flying /\ landings[Key(c)'] = 1
        BY <2>1
      <3>1. runner'[c] = runner[c]
        <4>1. CASE Propose(b, p)
          BY <4>1 DEF Propose
        <4>2. CASE Reserve(b, p)
          <5>1. /\ \A d \in Brains \ {b} : runner'[d] = runner[d]
                /\ runner'[b] = Idle \/ runner'[b] = [phase |-> "reserved", proposal |-> p]
            BY <4>2, OneRunnerMoves DEF Reserve, Engages, Leaves
          <5> QED
            BY <5>1 DEF Idle
        <4> QED
          BY <1>4, <4>1, <4>2
      <3> QED
        BY <3>1 DEF ScopeInv, Key
    <2> QED
      BY <2>1, <2>4, <2>5, <2>8, <2>9 DEF ScopeInv, Verified, Targeted
  <1>5. ASSUME NEW k \in Keys, Land(k) \/ Miss(k) PROVE ScopeInv'
    <2>1. /\ k \in flying /\ flying' = flying \ {k}
          /\ UNCHANGED <<ledger, hasty>>
          /\ landings[k] = 0
      BY <1>5 DEF Land, Miss, OnceInv
    <2>2. \A c \in Brains : /\ runner'[c].proposal = runner[c].proposal
                            /\ Busy(c) <=> Busy(c)'
                            /\ Key(c)' = Key(c)
      BY <1>5, AnswersKeepKeys DEF Land, Miss, Key
    <2>3. \A i \in Keys : Undecided(i)' => Undecided(i)
      BY <2>1, <2>2 DEF Undecided, Busy
    <2>4. \A c \in Brains : runner'[c].phase = "acknowledged" =>
               Key(c)' \notin flying' /\ landings'[Key(c)'] = 1
      <3> SUFFICES ASSUME NEW c \in Brains, runner'[c].phase = "acknowledged"
                   PROVE  Key(c) \notin flying' /\ landings'[Key(c)] = 1
        BY <2>2
      <3>1. CASE runner[c].phase = "acknowledged"
        <4>1. Key(c) \notin flying /\ landings[Key(c)] = 1 /\ Key(c) # k
          BY <2>1, <3>1 DEF ScopeInv
        <4>2. landings'[Key(c)] = landings[Key(c)]
          <5>1. Key(c) \in Keys
            BY <3>1, RunnerFacts DEF Engaged
          <5> QED
            BY <1>5, <4>1, <5>1 DEF Land, Miss, TypeOK
        <4> QED
          BY <2>1, <4>1, <4>2
      <3>2. CASE runner[c].phase # "acknowledged"
        <4>1. ~Answered(k, "failed")
          BY <3>2, AnswersKeepKeys
        <4>2. Land(k) /\ Answered(k, "acknowledged")
          BY <1>5, <4>1 DEF Land, Miss
        <4>3. Key(c) = k
          BY <3>2, <4>2 DEF Answered
        <4> QED
          BY <2>1, <4>2, <4>3 DEF Land, TypeOK
      <3> QED
        BY <3>1, <3>2
    <2> QED
      BY <2>1, <2>3, <2>4, QuietStepsKeepScope
  <1>6. ASSUME NEW k \in Keys, NEW status \in {"succeeded", "rejected"},
               Reconcile(k, status)
        PROVE  ScopeInv'
    <2>1. /\ ledger'[k].scope = ledger[k].scope /\ ledger[k] # Absent
          /\ ledger'[k].status = status
          /\ \A i \in Keys \ {k} : ledger'[i] = ledger[i]
      BY <1>6, OutcomeFacts DEF Reconcile, Statuses
    <2>2. \A i \in Keys : Undecided(i)' => Undecided(i)
      BY <1>6 DEF Reconcile, Undecided, Key
    <2>3. /\ Targeted' = Targeted /\ Verified' \subseteq Verified
          /\ Undecided(k) => k \notin Verified'
      BY <1>6 DEF Reconcile, Verified, Targeted
    <2>4. \A i \in Verified' : Undecided(i)' => ledger'[i].status \in Unresolved
      BY <1>0, <2>1, <2>2, <2>3 DEF ScopeInv
    <2>5. \A i \in Keys : ledger'[i].status \in Unresolved => ledger[i].status \in Unresolved
      BY <2>1 DEF Unresolved
    <2>6. \A i \in Targeted : ledger'[i] # Absent => ledger'[i].scope = i[2]
      BY <1>0, <2>1 DEF ScopeInv
    <2>7. \A c \in Brains : runner'[c].phase = "acknowledged" =>
               Key(c)' \notin flying' /\ landings'[Key(c)'] = 1
      BY <1>6 DEF Reconcile, ScopeInv, Key
    <2> QED
      BY <1>0, <2>3, <2>4, <2>5, <2>6, <2>7 DEF ScopeInv
  <1>7. ASSUME Tick \/ UNCHANGED vars PROVE ScopeInv'
    <2>1. UNCHANGED <<ledger, runner, flying, landings, hasty>>
      BY <1>7 DEF Tick, vars
    <2> QED
      BY <2>1, QuietStepsKeepScope DEF Undecided, Key, ScopeInv
  <1> QED
    BY <1>1, <1>2, <1>3, <1>4, <1>5, <1>6, <1>7 DEF Next

-----------------------------------------------------------------------------
(* Cooldown and evidence: what is still unresolved was reserved a cooldown   *)
(* after every effect in its scope, and for evidence newer than it.          *)

SpacedInv ==
    /\ \A k \in Keys : landedAt[k] <= now
    /\ \A k \in Verified :
          landings[k] = 1 =>
              \/ ledger[k].status \in Unresolved
              \/ ledger[k].status = "succeeded" /\ ledger[k].updated >= landedAt[k]
    /\ \A i, j \in Verified :
          /\ i # j /\ i[2] = j[2]
          /\ landings[i] = 1 /\ landings[j] = 0
          /\ ledger[j].status \in Unresolved
          => now >= landedAt[i] + Cooldown /\ At[j[3]] > landedAt[i]
    /\ Spaced

(* Steps that neither reserve nor take effect, and whose outcomes are true. *)
LEMMA OutcomesKeepSpaced ==
    ASSUME TypeOK, SpacedInv, now' \in Nat, now' >= now,
           landings' = landings, landedAt' = landedAt, Verified' \subseteq Verified,
           \A k \in Keys : ledger'[k].status \in Unresolved => ledger[k].status \in Unresolved,
           \A k \in Verified' :
               \/ ledger'[k] = ledger[k]
               \/ landings[k] = 0
               \/ ledger'[k].status \in Unresolved
               \/ ledger'[k].status = "succeeded" /\ ledger'[k].updated = now
    PROVE  SpacedInv'
  <1>0. Verified \subseteq Keys
    BY DEF Verified, Targeted
  <1>1. \A k \in Keys : landedAt[k] \in Nat /\ landedAt[k] <= now /\ now \in Nat
    BY DEF TypeOK, SpacedInv
  <1>2. \A k \in Keys : landedAt'[k] <= now'
    BY <1>1
  <1>3. \A k \in Verified' :
           landings'[k] = 1 =>
               \/ ledger'[k].status \in Unresolved
               \/ ledger'[k].status = "succeeded" /\ ledger'[k].updated >= landedAt'[k]
    BY <1>0, <1>1 DEF SpacedInv
  <1>4. \A i, j \in Verified' :
          /\ i # j /\ i[2] = j[2]
          /\ landings'[i] = 1 /\ landings'[j] = 0
          /\ ledger'[j].status \in Unresolved
          => now' >= landedAt'[i] + Cooldown /\ At[j[3]] > landedAt'[i]
    <2> SUFFICES ASSUME NEW i \in Verified', NEW j \in Verified', i # j, i[2] = j[2],
                        landings'[i] = 1, landings'[j] = 0,
                        ledger'[j].status \in Unresolved
                 PROVE  now' >= landedAt'[i] + Cooldown /\ At[j[3]] > landedAt'[i]
      OBVIOUS
    <2>1. now >= landedAt[i] + Cooldown /\ At[j[3]] > landedAt[i]
      BY <1>0 DEF SpacedInv
    <2> QED
      BY <1>0, <1>1, <2>1, TimeAssumption
  <1>5. Spaced'
    BY DEF SpacedInv, Spaced, Follows
  <1> QED
    BY <1>2, <1>3, <1>4, <1>5 DEF SpacedInv

LEMMA SpacedStep ==
    TypeOK /\ OnceInv /\ ScopeInv /\ SpacedInv /\ [Next]_vars => SpacedInv'
  <1> SUFFICES ASSUME TypeOK, OnceInv, ScopeInv, SpacedInv, [Next]_vars PROVE SpacedInv'
    OBVIOUS
  <1> USE DEF historyVars
  <1>0. /\ Verified \subseteq Targeted /\ Targeted \subseteq Keys
        /\ now \in Nat /\ Cooldown \in Nat \ {0}
        /\ \A k \in Keys : landedAt[k] \in Nat /\ landings[k] \in {0, 1} /\ At[k[3]] \in Nat
    BY TimeAssumption, KeyTimes DEF Verified, Targeted, TypeOK, OnceInv
  <1>1. ASSUME \/ \E b \in Brains : StartPoll(b) \/ EndPoll(b) \/ Abandon(b)
                                      \/ dispatchSwarmAction(b) \/ TimeOut(b)
               \/ \E k \in Keys : Miss(k)
               \/ Tick
               \/ UNCHANGED vars
        PROVE  SpacedInv'
    <2>1. /\ UNCHANGED <<ledger, landings, landedAt, hasty>>
          /\ now' \in Nat /\ now' >= now
      BY <1>0, <1>1 DEF StartPoll, EndPoll, Abandon, dispatchSwarmAction, TimeOut, Miss,
                        Tick, vars
    <2> QED
      BY <2>1, OutcomesKeepSpaced DEF Verified, Targeted
  <1>2. ASSUME NEW b \in Brains, Cancel(b) \/ Finish(b) PROVE SpacedInv'
    <2> DEFINE k == Key(b)
    <2>1. Busy(b) /\ k \in Keys /\ UNCHANGED <<landings, landedAt, hasty, now>>
      BY <1>2, RunnerFacts DEF Cancel, Finish, Busy, Engaged
    <2>2. CASE ledger[k].status = "executing"
      <3>1. PICK status \in Statuses :
               /\ ledger' = Resolved(k, status)
               /\ landings[k] = 0 \/ status \in {"succeeded", "uncertain"}
        BY <1>2, <2>2 DEF Cancel, Finish, finishSwarmAction, OnceInv, Statuses, Unresolved
      <3>2. /\ ledger'[k].status = status /\ ledger'[k].updated = now
            /\ \A i \in Keys \ {k} : ledger'[i] = ledger[i]
        BY <2>1, <2>2, <3>1, OutcomeFacts DEF Unresolved
      <3>3. \A i \in Keys : ledger'[i].status \in Unresolved => ledger[i].status \in Unresolved
        BY <2>2, <3>2 DEF Unresolved
      <3>4. Verified' = Verified
        BY <2>1 DEF Verified, Targeted
      <3>5. \A i \in Verified' : \/ ledger'[i] = ledger[i]
                                 \/ landings[i] = 0
                                 \/ ledger'[i].status \in Unresolved
                                 \/ ledger'[i].status = "succeeded" /\ ledger'[i].updated = now
        <4> SUFFICES ASSUME NEW i \in Verified', i = k
                     PROVE  \/ landings[k] = 0
                            \/ ledger'[k].status \in Unresolved
                            \/ ledger'[k].status = "succeeded" /\ ledger'[k].updated = now
          BY <1>0, <3>2, <3>4
        <4> QED
          BY <3>1, <3>2 DEF Unresolved
      <3> QED
        BY <1>0, <2>1, <3>3, <3>4, <3>5, OutcomesKeepSpaced
    <2>3. CASE ledger[k].status # "executing"
      <3>1. ledger' = ledger
        BY <1>2, <2>3 DEF Cancel, Finish, finishSwarmAction
      <3> QED
        BY <1>0, <2>1, <3>1, OutcomesKeepSpaced DEF Verified, Targeted
    <2> QED
      BY <2>2, <2>3
  <1>3. ASSUME NEW b \in Brains, NEW p \in Proposals, Propose(b, p) \/ Reserve(b, p)
        PROVE  SpacedInv'
    <2> DEFINE k == actionKey(p)
    <2>1. PICK execute \in BOOLEAN :
             reserveSwarmAction(p, execute) /\ UNCHANGED <<landings, landedAt, hasty, now>>
      BY <1>3 DEF Propose, Reserve
    <2>2. /\ k \in Keys /\ ~Granted(k) /\ landings[k] = 0
          /\ \A i \in Keys \ {k} : ledger'[i] = ledger[i]
      BY <1>0, <2>1, ReservationGrants, KeyFacts DEF OnceInv
    <2>3. k \in Targeted =>
             /\ \A i \in Targeted : i[2] = k[2] => ledger[i].status \notin Unresolved
             /\ \A i \in Targeted :
                   i[2] = k[2] /\ ledger[i].status = "succeeded" =>
                       now >= ledger[i].updated + Cooldown /\ At[k[3]] > ledger[i].updated
      BY <2>1, ReservationScope
    <2>4. Verified' = Verified
      BY <2>1 DEF Verified, Targeted
    <2>5. \A i, j \in Verified :
             /\ i # j /\ i[2] = j[2]
             /\ landings[i] = 1 /\ landings[j] = 0
             /\ ledger'[j].status \in Unresolved
             => now >= landedAt[i] + Cooldown /\ At[j[3]] > landedAt[i]
      <3> SUFFICES ASSUME NEW i \in Verified, NEW j \in Verified, i # j, i[2] = j[2],
                          landings[i] = 1, landings[j] = 0, ledger'[j].status \in Unresolved
                   PROVE  now >= landedAt[i] + Cooldown /\ At[j[3]] > landedAt[i]
        OBVIOUS
      <3>1. CASE j # k
        BY <1>0, <2>2, <3>1 DEF SpacedInv
      <3>2. CASE j = k
        <4>1. ledger[i].status = "succeeded" /\ ledger[i].updated >= landedAt[i]
          BY <1>0, <2>3, <3>2 DEF SpacedInv
        <4>2. ledger[i].updated \in Nat
          BY <1>0, <4>1 DEF TypeOK, Absent, Rows
        <4>3. now >= ledger[i].updated + Cooldown /\ At[k[3]] > ledger[i].updated
          BY <1>0, <2>3, <3>2, <4>1
        <4> QED
          BY <1>0, <2>2, <3>2, <4>1, <4>2, <4>3
      <3> QED
        BY <3>1, <3>2
    <2>6. \A i \in Verified :
             landings[i] = 1 =>
                 \/ ledger'[i].status \in Unresolved
                 \/ ledger'[i].status = "succeeded" /\ ledger'[i].updated >= landedAt[i]
      BY <1>0, <2>2 DEF SpacedInv
    <2>7. Spaced'
      BY <2>1, <2>4 DEF SpacedInv, Spaced, Follows
    <2> QED
      BY <2>1, <2>4, <2>5, <2>6, <2>7 DEF SpacedInv
  <1>4. ASSUME NEW k \in Keys, Land(k) PROVE SpacedInv'
    <2>1. /\ k \in flying /\ landings[k] = 0 /\ landings'[k] = 1 /\ landedAt'[k] = now
          /\ \A i \in Keys \ {k} : landings'[i] = landings[i] /\ landedAt'[i] = landedAt[i]
          /\ UNCHANGED <<ledger, hasty, now>>
      BY <1>4 DEF Land, OnceInv, TypeOK
    <2>2. Verified' = Verified
      BY <2>1 DEF Verified, Targeted
    <2>3. k \in Verified => ledger[k].status \in Unresolved
      BY <2>1 DEF ScopeInv, Undecided
    <2>4. \A i \in Keys : landedAt'[i] <= now'
      BY <1>0, <2>1 DEF SpacedInv
    <2>5. \A i \in Verified' :
             landings'[i] = 1 =>
                 \/ ledger'[i].status \in Unresolved
                 \/ ledger'[i].status = "succeeded" /\ ledger'[i].updated >= landedAt'[i]
      BY <1>0, <2>1, <2>2, <2>3 DEF SpacedInv
    <2>6. \A j \in Verified : k \in Verified /\ j # k /\ j[2] = k[2] =>
                                   ledger[j].status \notin Unresolved
      BY <1>0, <2>3 DEF ScopeInv
    <2>7. \A i, j \in Verified' :
             /\ i # j /\ i[2] = j[2]
             /\ landings'[i] = 1 /\ landings'[j] = 0
             /\ ledger'[j].status \in Unresolved
             => now' >= landedAt'[i] + Cooldown /\ At[j[3]] > landedAt'[i]
      <3> SUFFICES ASSUME NEW i \in Verified, NEW j \in Verified, i # j, i[2] = j[2],
                          landings'[i] = 1, landings'[j] = 0, ledger[j].status \in Unresolved
                   PROVE  now >= landedAt'[i] + Cooldown /\ At[j[3]] > landedAt'[i]
        BY <2>1, <2>2
      <3>1. i # k /\ j # k
        BY <2>1, <2>6
      <3>2. landings[i] = 1 /\ landings[j] = 0 /\ landedAt'[i] = landedAt[i]
        BY <1>0, <2>1, <3>1
      <3> QED
        BY <3>2 DEF SpacedInv
    <2>8. \A j \in Verified : k \in Verified /\ j # k /\ j[2] = k[2] /\ landings[j] = 1 =>
                 now >= landedAt[j] + Cooldown /\ At[k[3]] > landedAt[j]
      BY <2>1, <2>3 DEF SpacedInv
    <2>9. Spaced'
      <3> SUFFICES ASSUME NEW i \in Verified, NEW j \in Verified, i # j, i[2] = j[2],
                          landings'[i] > 0, landings'[j] > 0
                   PROVE  Follows(i, j)' \/ Follows(j, i)'
        BY <2>2 DEF Spaced
      <3>1. CASE i = k
        <4>1. landings[j] = 1 /\ landedAt'[j] = landedAt[j]
          BY <1>0, <2>1, <3>1
        <4> QED
          BY <2>1, <2>8, <3>1, <4>1 DEF Follows
      <3>2. CASE j = k
        <4>1. landings[i] = 1 /\ landedAt'[i] = landedAt[i]
          BY <1>0, <2>1, <3>2
        <4> QED
          BY <2>1, <2>8, <3>2, <4>1 DEF Follows
      <3>3. CASE i # k /\ j # k
        <4>1. /\ landings[i] > 0 /\ landedAt'[i] = landedAt[i]
              /\ landings[j] > 0 /\ landedAt'[j] = landedAt[j]
          BY <1>0, <2>1, <3>3
        <4> QED
          BY <4>1 DEF Follows, SpacedInv, Spaced
      <3> QED
        BY <3>1, <3>2, <3>3
    <2> QED
      BY <2>4, <2>5, <2>7, <2>9 DEF SpacedInv
  <1>5. ASSUME NEW k \in Keys, NEW status \in {"succeeded", "rejected"},
               Reconcile(k, status)
        PROVE  SpacedInv'
    <2>1. /\ ledger'[k].status = status /\ ledger'[k].updated = now
          /\ \A i \in Keys \ {k} : ledger'[i] = ledger[i]
      BY <1>5, OutcomeFacts DEF Reconcile, Statuses
    <2>2. /\ Verified' \subseteq Verified
          /\ k \in Verified' => ((status = "succeeded") <=> (landings[k] > 0))
          /\ UNCHANGED <<landings, landedAt, now>>
      BY <1>5 DEF Reconcile, Verified, Targeted
    <2>3. \A i \in Keys : ledger'[i].status \in Unresolved => ledger[i].status \in Unresolved
      BY <2>1 DEF Unresolved
    <2>4. \A i \in Verified' : \/ ledger'[i] = ledger[i]
                               \/ landings[i] = 0
                               \/ ledger'[i].status \in Unresolved
                               \/ ledger'[i].status = "succeeded" /\ ledger'[i].updated = now
      BY <1>0, <2>1, <2>2
    <2> QED
      BY <1>0, <2>2, <2>3, <2>4, OutcomesKeepSpaced
  <1> QED
    BY <1>1, <1>2, <1>3, <1>4, <1>5 DEF Next

LEMMA AllInit == Init => TypeOK /\ OnceInv /\ ScopeInv /\ SpacedInv
  <1> SUFFICES ASSUME Init PROVE ScopeInv /\ SpacedInv
    BY OnceInit
  <1>1. \A k \in Keys : ledger[k] = Absent /\ landings[k] = 0 /\ landedAt[k] = 0
    BY DEF Init
  <1>2. \A k \in Keys : ~Undecided(k)
    BY DEF Init, Undecided, Idle, Engaged
  <1>3. \A b \in Brains : runner[b].phase = "idle"
    BY DEF Init, Idle
  <1>4. Verified \subseteq Targeted /\ Targeted \subseteq Keys /\ now = 0
    BY DEF Verified, Targeted, Init
  <1>5. "absent" \notin Unresolved
    BY DEF Unresolved
  <1>6. ScopeInv
    BY <1>1, <1>2, <1>3, <1>4, <1>5 DEF ScopeInv, Absent
  <1>7. SpacedInv
    BY <1>1, <1>4 DEF SpacedInv, Spaced
  <1> QED
    BY <1>6, <1>7

LEMMA AllInvariant == Spec => [](TypeOK /\ OnceInv /\ ScopeInv /\ SpacedInv)
  BY AllInit, StepTypes, OnceStep, ScopeStep, SpacedStep, PTL DEF Spec

(* Unless an operator was hasty, two dispatches in the scope of one arm (or *)
(* of one task or bug) are never under way together.                        *)
THEOREM OneUnderWayHolds == Spec => []OneUnderWay
  BY AllInvariant, OneUnderWayFromScopeInv, PTL

(* Effects in one scope keep the cooldown, and the later one has newer *)
(* evidence, however late the earlier one took effect.                 *)
THEOREM EffectsSpaced == Spec => []Spaced
  <1>1. SpacedInv => Spaced
    BY DEF SpacedInv
  <1> QED
    BY <1>1, AllInvariant, PTL
=============================================================================
