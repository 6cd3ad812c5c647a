---------------------------- MODULE SwarmActions ----------------------------
(***************************************************************************)
(* The swarm evaluator's actions: the runner of each Brain                 *)
(* (brain/swarm/runner.ts), the ledger brain_swarm_actions that the API    *)
(* server keeps (db/swarm-actions.ts), and the operators who reconcile     *)
(* what the runners could not (api/routes/brain-swarm.ts).                 *)
(*                                                                         *)
(* A reservation is one immediate SQLite transaction.  The runner makes    *)
(* every call over HTTP with a limit of 15 seconds: a request may be lost, *)
(* its answer may be lost, and a dispatch may take effect after the runner *)
(* has given it up.                                                        *)
(*                                                                         *)
(* The evaluator is free to propose anything its evidence allows.  Whether *)
(* a proposal may be executed (mode, thresholds, coverage, the version of  *)
(* the target) is a choice: it only makes fewer reservations.  The rows of *)
(* the Inbox that mirror the ledger are left out.                          *)
(***************************************************************************)
EXTENDS Naturals, FiniteSets

CONSTANTS
    Brains,     \* the processes with a SwarmRunner
    Targets,    \* arms, tasks and bugs
    Evidence,   \* the events a proposal may cite
    Proposals,  \* what the evaluator may come up with
    At,         \* evidenceAt: when each event happened
    Cooldown,   \* cooldownMs: the length of the window
    NoProposal, \* a runner that has reserved nothing
    MaxTime     \* bound: the clock of the API server

Interventions == {"stop_arm", "prompt_arm"}
Shared == {"create_bug", "log_discovery", "notify_human"}

Actions == Interventions \cup Shared \cup {"update_task", "comment_task", "update_bug"}

ASSUME ProposalAssumption ==
    /\ Proposals \subseteq [action: Actions, target: Targets, evidence: Evidence]
    /\ NoProposal \notin Proposals
ASSUME TimeAssumption ==
    /\ At \in [Evidence -> Nat]
    /\ Cooldown \in Nat \ {0}
    /\ MaxTime \in Nat

VARIABLES
    ledger,    \* the table brain_swarm_actions, by dedup_key
    runner,    \* where the poll of each Brain is, and for which proposal
    used,      \* usedTargets of that poll
    flying,    \* the dispatches that may still take effect
    landings,  \* history: how often a dispatch took effect
    landedAt,  \* history: when it last did
    hasty,     \* history: the rows reconciled before their outcome was known
    now        \* the clock

historyVars == <<landings, landedAt, hasty>>
vars == <<ledger, runner, used, flying, historyVars, now>>

-----------------------------------------------------------------------------
(* Keys, scopes and rows *)

\* An arm must have time to respond before either another nudge or a stop.
Family(action) == IF action \in Interventions THEN "arm_intervention" ELSE action
actionScope(p) == <<Family(p.action), p.target>>
actionKey(p) ==
    <<p.action, IF p.action \in Shared THEN <<"shared_evidence">> ELSE actionScope(p),
      p.evidence>>

Keys == {actionKey(p) : p \in Proposals}
Scopes == {actionScope(p) : p \in Proposals}

Unresolved == {"executing", "uncertain"}
Statuses == {"proposed", "succeeded", "rejected"} \cup Unresolved
Absent == [status |-> "absent"]
Rows == [status: Statuses, scope: Scopes, proposal: Proposals, updated: Nat]

Engaged == {"reserved", "dispatching", "acknowledged", "failed"}
Idle == [phase |-> "idle", proposal |-> NoProposal]
Polling == [phase |-> "polling", proposal |-> NoProposal]
Runners == {Idle, Polling} \cup [phase: Engaged, proposal: Proposals]

TypeOK ==
    /\ ledger \in [Keys -> Rows \cup {Absent}]
    /\ runner \in [Brains -> Runners]
    /\ used \in [Brains -> SUBSET Targets]
    /\ flying \subseteq Keys
    /\ landings \in [Keys -> Nat]
    /\ landedAt \in [Keys -> Nat]
    /\ hasty \subseteq Keys
    /\ now \in Nat

Init ==
    /\ ledger = [k \in Keys |-> Absent]
    /\ runner = [b \in Brains |-> Idle]
    /\ used = [b \in Brains |-> {}]
    /\ flying = {}
    /\ landings = [k \in Keys |-> 0]
    /\ landedAt = [k \in Keys |-> 0]
    /\ hasty = {}
    /\ now = 0

-----------------------------------------------------------------------------
(* The API server: db/swarm-actions.ts *)

InScope(s, statuses) ==
    {k \in Keys : ledger[k].status \in statuses /\ ledger[k].scope = s}

\* Slip: what was rejected may be tried again.
SameEvidenceNotRejected(p, execute) ==
    LET status == ledger[actionKey(p)].status
    IN  status \notin {"absent", "rejected"} /\ (status # "proposed" \/ ~execute)

SameEvidence(p, execute) ==
    LET status == ledger[actionKey(p)].status
    IN  status # "absent" /\ (status # "proposed" \/ ~execute)

\* Slip: newer evidence ends the cooldown.
OldEvidence(p) ==
    \E k \in InScope(actionScope(p), {"succeeded"}) : At[p.evidence] <= ledger[k].updated

CooldownOrOldEvidence(p) ==
    \E k \in InScope(actionScope(p), {"succeeded"}) :
        \/ now < ledger[k].updated + Cooldown
        \/ At[p.evidence] <= ledger[k].updated

\* Slip: an uncertain outcome does not block its scope.
ReservableIfUncertain(p, execute) ==
    /\ ~SameEvidence(p, execute)
    /\ InScope(actionScope(p), {"executing"}) = {}
    /\ ~CooldownOrOldEvidence(p)

Reservable(p, execute) ==
    /\ ~SameEvidence(p, execute)
    /\ InScope(actionScope(p), Unresolved) = {}
    /\ ~CooldownOrOldEvidence(p)

NewRow(p, execute) ==
    [status |-> IF execute THEN "executing" ELSE "proposed",
     scope |-> actionScope(p), proposal |-> p, updated |-> now]

\* A proposal that is promoted keeps the scope it was first recorded with.
Booked(p, execute) ==
    LET k == actionKey(p)
    IN  [ledger EXCEPT ![k] =
            IF ledger[k] = Absent THEN NewRow(p, execute)
            ELSE [@ EXCEPT !.status = "executing", !.proposal = p, !.updated = now]]

reserveSwarmAction(p, execute) ==
    /\ Reservable(p, execute)
    /\ ledger' = Booked(p, execute)

Resolved(k, status) ==
    [ledger EXCEPT ![k] = [@ EXCEPT !.status = status, !.updated = now]]

\* UPDATE ... WHERE status='executing'
finishSwarmAction(k, status) ==
    ledger' = IF ledger[k].status = "executing" THEN Resolved(k, status) ELSE ledger

-----------------------------------------------------------------------------
(* The runner of a Brain: brain/swarm/runner.ts *)

Becomes(b, state) == runner' = [runner EXCEPT ![b] = state]
Engages(b, phase, p) == Becomes(b, [phase |-> phase, proposal |-> p])

\* Slip: the next poll starts with the last one's proposal.
LeavesProposal(b) ==
    Becomes(b, [runner[b] EXCEPT !.phase = "idle"]) /\ used' = [used EXCEPT ![b] = {}]

Leaves(b) == Becomes(b, Idle) /\ used' = [used EXCEPT ![b] = {}]
Key(b) == actionKey(runner[b].proposal)

StartPoll(b) ==
    /\ runner[b].phase = "idle"
    /\ Becomes(b, Polling)
    /\ UNCHANGED <<ledger, used, flying, historyVars, now>>

\* The proposals are done with, or shouldStop() says so.
EndPoll(b) ==
    /\ runner[b].phase = "polling"
    /\ Leaves(b)
    /\ UNCHANGED <<ledger, flying, historyVars, now>>

\* The Brain stops, or a request fails or its answer is lost and poll() throws;
\* `finally` lets the next poll in, and nothing that was reserved is remembered.
Abandon(b) ==
    /\ runner[b].phase \in Engaged
    /\ Leaves(b)
    /\ UNCHANGED <<ledger, flying, historyVars, now>>

\* Recorded only: below a threshold, in shadow mode, or the target was used.
Propose(b, p) ==
    /\ runner[b].phase = "polling"
    /\ At[p.evidence] <= now
    /\ reserveSwarmAction(p, FALSE)
    /\ UNCHANGED <<runner, used, flying, historyVars, now>>

Reserve(b, p) ==
    /\ runner[b].phase = "polling"
    /\ At[p.evidence] <= now
    /\ p.target \notin used[b]
    /\ reserveSwarmAction(p, TRUE)
    /\ \/ /\ Engages(b, "reserved", p)
          /\ used' = [used EXCEPT ![b] = @ \cup {p.target}]
       \/ Leaves(b)  \* the answer is lost
    /\ UNCHANGED <<flying, historyVars, now>>

\* The second shouldStop(): the Brain stopped or the settings changed.
Cancel(b) ==
    /\ runner[b].phase = "reserved"
    /\ finishSwarmAction(Key(b), "rejected")
    /\ Leaves(b)
    /\ UNCHANGED <<flying, historyVars, now>>

dispatchSwarmAction(b) ==
    /\ runner[b].phase = "reserved"
    /\ Engages(b, "dispatching", runner[b].proposal)
    /\ flying' = flying \cup {Key(b)}
    /\ UNCHANGED <<ledger, used, historyVars, now>>

Answered(k, phase) ==
    runner' = [b \in Brains |->
        IF runner[b].phase = "dispatching" /\ Key(b) = k
          THEN [runner[b] EXCEPT !.phase = phase] ELSE runner[b]]

\* The existing capability does what it was asked; its answer may be lost.
Land(k) ==
    /\ k \in flying
    /\ flying' = flying \ {k}
    /\ landings' = [landings EXCEPT ![k] = @ + 1]
    /\ landedAt' = [landedAt EXCEPT ![k] = now]
    /\ Answered(k, "acknowledged") \/ Answered(k, "failed")
    /\ UNCHANGED <<ledger, used, hasty, now>>

\* It refuses (the target has changed, HTTP 409), or was never reached.
Miss(k) ==
    /\ k \in flying
    /\ flying' = flying \ {k}
    /\ Answered(k, "failed")
    /\ UNCHANGED <<ledger, used, historyVars, now>>

\* AbortSignal.timeout: the request itself goes on.
TimeOut(b) ==
    /\ runner[b].phase = "dispatching"
    /\ Engages(b, "failed", runner[b].proposal)
    /\ UNCHANGED <<ledger, used, flying, historyVars, now>>

\* "Swarm action outcome was not persisted": a row that is no longer executing
\* ends the poll, and so does a lost answer.
Finish(b) ==
    /\ runner[b].phase \in {"acknowledged", "failed"}
    /\ finishSwarmAction(Key(b),
           IF runner[b].phase = "acknowledged" THEN "succeeded" ELSE "uncertain")
    /\ \/ ledger[Key(b)].status = "executing" /\ Becomes(b, Polling) /\ UNCHANGED used
       \/ Leaves(b)
    /\ UNCHANGED <<flying, historyVars, now>>

-----------------------------------------------------------------------------
(* Operators, and time *)

Undecided(k) ==
    k \in flying \/ \E b \in Brains : runner[b].phase \in Engaged /\ Key(b) = k

\* POST /actions/:id/reconcile is for "after an operator verifies whether the
\* external action happened"; the route does not ask.
Reconcile(k, status) ==
    /\ ledger[k].status \in Unresolved
    /\ ledger' = Resolved(k, status)
    /\ hasty' = IF Undecided(k) \/ (status = "succeeded") # (landings[k] > 0)
                  THEN hasty \cup {k} ELSE hasty
    /\ UNCHANGED <<runner, used, flying, landings, landedAt, now>>

Tick ==
    /\ now < MaxTime
    /\ now' = now + 1
    /\ UNCHANGED <<ledger, runner, used, flying, historyVars>>

Next ==
    \/ \E b \in Brains : \/ StartPoll(b) \/ EndPoll(b) \/ Abandon(b) \/ Cancel(b)
                         \/ dispatchSwarmAction(b) \/ TimeOut(b) \/ Finish(b)
    \/ \E b \in Brains, p \in Proposals : Propose(b, p) \/ Reserve(b, p)
    \/ \E k \in Keys : Land(k) \/ Miss(k)
    \/ \E k \in Keys, status \in {"succeeded", "rejected"} : Reconcile(k, status)
    \/ Tick

Spec == Init /\ [][Next]_vars

-----------------------------------------------------------------------------
(* Properties *)

\* "Concurrent polls and processes cannot reserve the same evidence/action
\* twice": whatever crashes, times out, is answered twice or is reconciled, a
\* reservation is granted once and what was reserved takes effect at most once.
Ledger == INSTANCE AtMostOnce WITH
    Operations <- Keys,
    reserved <- {k \in Keys : ledger[k].status \notin {"absent", "proposed"}},
    times <- landings
KeepsPromise == Ledger!Spec

\* The actions whose key names their target: a row of such a key has its scope.
Targeted == {k \in Keys : k[1] \notin Shared}
Verified == Targeted \ hasty

\* "Executing and uncertain actions block that scope until reconciled": unless an
\* operator was hasty, two dispatches in one scope are never under way together,
\* a prompt of an arm and the stop of it for one.
OneUnderWay ==
    \A i, j \in Verified :
        i # j /\ Undecided(i) /\ Undecided(j) => i[2] # j[2]

Follows(i, j) ==
    /\ landedAt[j] >= landedAt[i] + Cooldown
    /\ At[j[3]] > landedAt[i]

\* "Successful actions impose a cooldown", after which "evidence must be newer
\* than the last successful result": of two effects in one scope, the later came
\* a cooldown after the earlier, and for something that happened after it, also
\* when the first effect landed after its runner had given it up.
Spaced ==
    \A i, j \in Verified :
        i # j /\ i[2] = j[2] /\ landings[i] > 0 /\ landings[j] > 0 =>
            Follows(i, j) \/ Follows(j, i)

\* The same sentence of the README for every action: no two unresolved rows are
\* about the same scope.
ScopeBlocked ==
    \A i, j \in Keys :
        i # j /\ ledger[i].status \in Unresolved /\ ledger[j].status \in Unresolved =>
            actionScope(ledger[i].proposal) # actionScope(ledger[j].proposal)
=============================================================================
