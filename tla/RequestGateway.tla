---------------------------- MODULE RequestGateway ----------------------------
(***************************************************************************)
(* The HTTP admission gateway (request_admission.py) over the objective    *)
(* ledger, with the operator's governor switch (goal_governance.py).  Each *)
(* incoming attempt runs on a thread of its own.  It decides and submits   *)
(* under the source receipt's lock, the lock the switch also takes, and    *)
(* awaits and settles the response outside it.  The gateway may die        *)
(* between any two steps; the flock dies with it, the ledger does not.     *)
(***************************************************************************)
EXTENDS ObjectiveLedger

CONSTANTS
  ReqBound,      \* max_input_tokens + max_output_tokens of the contract
  ReqSeconds,    \* ceil(request_timeout)
  Usages,        \* fresh usage a provider may bill and report
  Members,       \* the allocation's members, whose receipts copy the switch
  Parent,        \* the native ancestry of each thread
  Switch,        \* holder of the receipt lock while change() runs
  MaxSwitches    \* bound on governor_revision

ASSUME GatewayAssumption ==
  /\ ReqBound \in Nat \ {0}
  /\ ReqSeconds \in Nat \ {0}
  /\ Usages \subseteq Nat
  /\ Members \subseteq Threads /\ Source \in Members
  /\ Parent \in [Threads -> Threads]
  /\ Switch \notin Requests \cup {Nobody}
  /\ MaxSwitches \in Nat

VARIABLES
  attempt,       \* execute()'s position, thread and local copy of sync(receipt)
  lock,          \* holder of the source receipt's lock, or Nobody
  governor,      \* governor_enabled of the allocation, the scope authority
  revision,      \* governor_revision
  copies,        \* governor_enabled in each member's receipt
  switching,     \* members whose receipt the running change() has still to write
  goal,          \* status of the registered native goal
  pauseVerified, \* request_admission_pause.verified in the receipt
  sends,         \* upstream submissions of each attempt
  billed         \* what the provider bills for the submission (external)

gateway == <<attempt, lock, governor, revision, copies, switching,
             goal, pauseVerified, sends, billed>>

vars == <<ledger, gateway>>

Phases == {"new", "deciding", "reserved", "sent", "disputed", "over"}

Fresh == [at |-> "new", thread |-> Nobody, inactive |-> FALSE]
Over == [at |-> "over", thread |-> Nobody, inactive |-> FALSE]

GatewayTypeOK ==
  /\ attempt \in [Requests -> [at : Phases, thread : Threads \cup {Nobody}, inactive : BOOLEAN]]
  /\ lock \in Requests \cup {Nobody, Switch}
  /\ governor \in BOOLEAN
  /\ revision \in Nat
  /\ copies \in [Members -> BOOLEAN]
  /\ switching \subseteq Members
  /\ goal \in {"active", "paused"}
  /\ pauseVerified \in BOOLEAN
  /\ sends \in [Requests -> Nat]
  /\ billed \in [Requests -> Nat]

TypeOK == LedgerTypeOK /\ GatewayTypeOK

Init ==
  /\ LedgerInit
  /\ attempt = [r \in Requests |-> Fresh]
  /\ lock = Nobody
  /\ governor = TRUE
  /\ revision = 0
  /\ copies = [t \in Members |-> TRUE]
  /\ switching = {}
  /\ goal = "active"
  /\ pauseVerified = FALSE
  /\ sends = [r \in Requests |-> 0]
  /\ billed = [r \in Requests |-> 0]

-----------------------------------------------------------------------------
(* execute().                                                              *)

\* Mutant: the switch is read from the source thread's own receipt.
EnterFromCopy(r, t) ==
  /\ bound
  /\ attempt[r].at = "new"
  /\ sessions[t].on
  /\ lock = Nobody
  /\ lock' = r
  /\ attempt' = [attempt EXCEPT ![r] = [at |-> "deciding", thread |-> t, inactive |-> ~copies[Source]]]
  /\ UNCHANGED <<ledger, governor, revision, copies, switching, goal, pauseVerified, sends, billed>>

\* _context and sync: a registered thread's attempt takes the receipt lock and
\* reads the switch from the allocation, never from the member's own copy.
Enter(r, t) ==
  /\ bound
  /\ attempt[r].at = "new"
  /\ sessions[t].on
  /\ lock = Nobody
  /\ lock' = r
  /\ attempt' = [attempt EXCEPT ![r] = [at |-> "deciding", thread |-> t, inactive |-> ~governor]]
  /\ UNCHANGED <<ledger, governor, revision, copies, switching, goal, pauseVerified, sends, billed>>

Answer(r) ==
  /\ attempt' = [attempt EXCEPT ![r] = Over]
  /\ lock' = IF lock = r THEN Nobody ELSE lock

\* An unqualified path (501), a missing activation notice (503) or a turn that
\* is no longer the current one (400): refused before anything is reserved.
Refuse(r) ==
  /\ attempt[r].at = "deciding"
  /\ Answer(r)
  /\ UNCHANGED <<ledger, governor, revision, copies, switching, goal, pauseVerified, sends, billed>>

BoundFor(r) == IF attempt[r].inactive THEN 0 ELSE ReqBound

Admit(r, now) ==
  /\ attempt[r].at = "deciding"
  /\ Admitted(attempt[r].thread, BoundFor(r), ReqSeconds, ~attempt[r].inactive, now)
  /\ ReserveRequest(r, attempt[r].thread, BoundFor(r), ReqSeconds, now)
  /\ attempt' = [attempt EXCEPT ![r].at = "reserved"]
  /\ UNCHANGED <<lock, governor, revision, copies, switching, goal, pauseVerified, sends, billed>>

\* _pause_registered_goal: the native effect may be refused or unverified.
PauseGoal ==
  \/ goal' = "paused" /\ pauseVerified' = TRUE
  \/ goal' \in {goal, "paused"} /\ pauseVerified' = FALSE

\* A denial (429) pauses the goal's continuation and records the notice.
Deny(r, now) ==
  /\ attempt[r].at = "deciding"
  /\ ~Admitted(attempt[r].thread, BoundFor(r), ReqSeconds, ~attempt[r].inactive, now)
  /\ DenyRequest(r, attempt[r].thread, now)
  /\ PauseGoal
  /\ Answer(r)
  /\ UNCHANGED <<governor, revision, copies, switching, sends, billed>>

\* The single submission, still under the lock; what it will cost is settled
\* by the provider, whether or not its answer ever comes back.
Submitted(r, usage) ==
  /\ sends' = [sends EXCEPT ![r] = @ + 1]
  /\ billed' = [billed EXCEPT ![r] = usage]

Submit(r, usage) ==
  /\ attempt[r].at = "reserved"
  /\ Submitted(r, usage)
  /\ attempt' = [attempt EXCEPT ![r].at = "sent"]
  /\ lock' = Nobody
  /\ UNCHANGED <<ledger, governor, revision, copies, switching, goal, pauseVerified>>

\* connect() or request() raised: the bytes may or may not have left.
SubmitFails(r, usage, now) ==
  /\ attempt[r].at = "reserved"
  /\ SettleUnknown(r, now)
  /\ Submitted(r, usage) \/ UNCHANGED <<sends, billed>>
  /\ Answer(r)
  /\ UNCHANGED <<governor, revision, copies, switching, goal, pauseVerified>>

\* One attributable completion arrives and is settled.  A governed attempt
\* outside the reviewed bounds, or one that finds the accounting unknown, goes
\* on to the except clause (phase disputed).  The bounds are on input and on
\* output and count cached tokens, so a bill within ReqBound may be outside.
Complete(r, response, outside, now) ==
  /\ attempt[r].at = "sent"
  /\ billed[r] > ReqBound => outside
  /\ SettleRequest(r, response, billed[r], now)
  /\ attempt' = [attempt EXCEPT ![r] =
       IF ~attempt[r].inactive /\ (outside \/ ~AccountingKnown')
       THEN [attempt[r] EXCEPT !.at = "disputed"] ELSE Over]
  /\ UNCHANGED <<lock, governor, revision, copies, switching, goal, pauseVerified, sends, billed>>

\* The except clause: timeout, bad status, no single completion, or a dispute.
Fail(r, now) ==
  /\ attempt[r].at \in {"sent", "disputed"}
  /\ SettleUnknown(r, now)
  /\ attempt' = [attempt EXCEPT ![r] = Over]
  /\ UNCHANGED <<lock, governor, revision, copies, switching, goal, pauseVerified, sends, billed>>

\* The gateway process dies: attempts are lost, its lock is released.
Crash ==
  /\ \E r \in Requests : attempt[r].at \in {"deciding", "reserved", "sent", "disputed"}
  /\ attempt' = [r \in Requests |-> IF attempt[r] = Fresh THEN Fresh ELSE Over]
  /\ lock' = IF lock \in Requests THEN Nobody ELSE lock
  /\ UNCHANGED <<ledger, governor, revision, copies, switching, goal, pauseVerified, sends, billed>>

\* _inherit_thread registers the missing ancestors, oldest first.
InheritThread(t, now) ==
  /\ RegisterThread(t, Parent[t], now)
  /\ UNCHANGED gateway

-----------------------------------------------------------------------------
(* The governor switch.                                                    *)

\* _control before a deactivation: operator input may have reactivated the
\* goal, so a verified pause is restored while the governor is still on.
PreservePause ==
  /\ lock = Nobody
  /\ pauseVerified
  /\ governor
  /\ PauseGoal
  /\ UNCHANGED <<ledger, attempt, lock, governor, revision, copies, switching, sends, billed>>

\* change(): under every member's lock the allocation is written first.
ChangeBegin(enabled) ==
  /\ bound
  /\ lock = Nobody
  /\ governor # enabled
  /\ revision < MaxSwitches
  /\ lock' = Switch
  /\ governor' = enabled
  /\ revision' = revision + 1
  /\ switching' = Members
  /\ UNCHANGED <<ledger, attempt, copies, goal, pauseVerified, sends, billed>>

ChangeMember(t) ==
  /\ lock = Switch
  /\ t \in switching
  /\ copies' = [copies EXCEPT ![t] = governor]
  /\ switching' = switching \ {t}
  /\ UNCHANGED <<ledger, attempt, lock, governor, revision, goal, pauseVerified, sends, billed>>

\* change() returns, or its process dies with member receipts unwritten.
ChangeEnd ==
  /\ lock = Switch
  /\ lock' = Nobody
  /\ switching' = {}
  /\ UNCHANGED <<ledger, attempt, governor, revision, copies, goal, pauseVerified, sends, billed>>

\* External: the operator or the native UI resumes the registered goal.
GoalResumed ==
  /\ goal = "paused"
  /\ goal' = "active"
  /\ UNCHANGED <<ledger, attempt, lock, governor, revision, copies, switching, pauseVerified, sends, billed>>

-----------------------------------------------------------------------------
LedgerStep ==
  \/ \E now \in Times :
       \/ \E c \in Configs : Configure(c, now)
       \/ \E c \in Configs, action \in {"extend", "reset"} : Authorize(c, action, now)
       \/ \E k \in Keys, a \in LifeActors : Correction(k, a, now)
       \/ View(now)
       \/ \E a \in LifeActors, tokens \in Amounts, seconds \in Seconds : Reserve(a, tokens, seconds, now)
       \/ \E a \in LifeActors, cumulative \in Amounts \cup {Nobody}, settled \in BOOLEAN :
            Record(a, cumulative, settled, now)
       \/ \E g \in Goals, cumulative \in Amounts \cup {Nobody}, settled \in BOOLEAN :
            RecordGoal(g, cumulative, settled, now)
       \/ \E a \in LifeActors \cup Goals, cumulative \in Amounts : RecordSampledFloor(a, cumulative, now)
       \/ \E g \in Goals, budget \in Amounts, deadline \in Times : AdoptActiveGoal(g, budget, deadline, now)
       \/ \E g \in Goals, a \in LifeActors : BindGoal(g, a, now)
       \/ ProtectCompletion(now)
       \/ \E t \in Threads, k \in Kinds : AssignCompletion(t, k, now)
       \/ \E k \in Kinds, outcome \in {"deferred", "completed"} : ResolveCompletion(k, outcome, now)
  \/ BindRequests
  \/ \E t, source \in Threads : ContinueThread(t, source)

AttemptStep(r) ==
  \/ \E t \in Threads : Enter(r, t)
  \/ Refuse(r)
  \/ \E usage \in Usages : Submit(r, usage)
  \/ \E now \in Times :
       \/ Admit(r, now)
       \/ Deny(r, now)
       \/ \E usage \in Usages : SubmitFails(r, usage, now)
       \/ \E response \in Responses, outside \in BOOLEAN : Complete(r, response, outside, now)
       \/ Fail(r, now)

SwitchStep ==
  \/ PreservePause
  \/ \E enabled \in BOOLEAN : ChangeBegin(enabled)
  \/ \E t \in Members : ChangeMember(t)
  \/ ChangeEnd
  \/ GoalResumed

Next ==
  \/ LedgerStep /\ UNCHANGED gateway
  \/ \E r \in Requests : AttemptStep(r)
  \/ \E t \in Threads, now \in Times : InheritThread(t, now)
  \/ Crash
  \/ SwitchStep

Spec == Init /\ [][Next]_vars

-----------------------------------------------------------------------------
(* Properties.                                                             *)

\* A governed attempt holds a reservation; a passthrough one reserves nothing.
Governed(r) == actors[r].kind = "request" /\ actors[r].res > 0

ContractHonoured == \A r \in Requests : Governed(r) => billed[r] <= ReqBound

\* maximum_token_overshoot is 0: whatever crashes, times out, fails while being
\* sent or is reported twice, a provider that honours the reviewed bounds never
\* bills the governed requests past the largest limit an operator approved.
BilledWithinCap ==
  ContractHonoured /\ (\E r \in Requests : Governed(r)) =>
    Prior + SumFunctionOnSet(billed, {r \in Requests : Governed(r)}) <= Max({c.tok : c \in authorized})

\* A context successor does not renew the session: the governed requests of a
\* whole continuation group stay within one session limit.
SessionCapShared ==
  ContractHonoured =>
    \A t \in Threads :
      LET spent == {r \in Requests : Governed(r) /\ Group(actors[r].thread) = t}
          priors == [u \in Threads |-> sessions[u].prior]
      IN  spent # {} =>
            SumFunctionOnSet(billed, spent) + SumFunctionOnSet(priors, {u \in Threads : Group(u) = t})
              <= Max({c.sessTok : c \in authorized})

\* Protected funds stay available: once the pending obligations fit into what
\* remains, no admission, settlement or disposition of governed requests makes
\* them unaffordable.
ProtectionKept ==
  [][ /\ plan # Nobody /\ TokenFeasible
      /\ AccountingKnown'
      /\ config' = config
      /\ \A a \in Enrolled' : actors'[a].res > 0
      => TokenFeasible' ]_vars

\* Missing, conflicting or out-of-bound usage never creates a refund: only an
\* attempt that owns the one completion proof of exactly its charge is settled,
\* and no response id pays for two attempts.
SettledHasProof ==
  /\ \A r \in Requests : actors[r].settled =>
       \E p \in Responses : completions[p] = [actor |-> r, tokens |-> actors[r].used]
  /\ \A p, q \in Responses : completions[p].actor = completions[q].actor /\ completions[p].actor # Nobody => p = q

\* No admission intervention lands while the operator has the governor off.
PauseOnlyWhileGoverned ==
  [][goal = "active" /\ goal' = "paused" => governor]_vars

\* Usage that was once observed is never forgotten, by a late lower sample, an
\* adoption, a failed completion or a settlement.
UsageNeverForgotten ==
  [][\A a \in ActorIds : actors'[a].used >= actors[a].used]_vars
=============================================================================
