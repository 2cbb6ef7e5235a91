--------------------------- MODULE ObjectiveLedger ---------------------------
(***************************************************************************)
(* The durable allowance of one objective (objective_ledger.py).  One JSON *)
(* file under an exclusive flock, replaced atomically: every method is one *)
(* transaction, so one action.  Two accounting owners exclude each other:  *)
(* sampled lifecycle actors (lifecycle_budget.py reserves and records      *)
(* them) and the request transport, which binds an empty ledger and then   *)
(* reserves and settles every provider request.                            *)
(***************************************************************************)
EXTENDS Naturals, FiniteSets, FiniteSetsExt

CONSTANTS
  LifeActors,    \* spawn and handoff actors of the lifecycle
  Goals,         \* native goals; each is also the name of an observed actor
  Requests,      \* "request:<uuid>" attempts of the gateway
  Threads,       \* request threads
  Source,        \* the source thread, bound with all prior usage
  Responses,     \* provider response identities
  Kinds,         \* completion obligations, one of each mandatory kind
  Remediation,   \* the kind that consumes a correction cycle
  OblTokens, OblSeconds, \* protected terms of each obligation
  Configs,       \* configurations an operator may approve
  Keys,          \* correction decision keys
  Prior,         \* prior_tokens of the objective
  Times,         \* the trusted upper bound of "now"
  Amounts,       \* token counts a caller may report or ask for
  Seconds,       \* session lengths a caller may ask for
  Nobody         \* absent thread, purpose or configuration

ActorIds == LifeActors \cup Goals \cup Requests

ASSUME LedgerAssumption ==
  /\ Source \in Threads
  /\ Remediation \in Kinds /\ IsFiniteSet(Kinds)
  /\ Nobody \notin Threads \cup Kinds \cup ActorIds \cup Configs
  /\ Requests \cap (LifeActors \cup Goals) = {}
  /\ Prior \in Nat
  /\ Times \subseteq Nat
  /\ Amounts \subseteq Nat
  /\ Seconds \subseteq Nat
  /\ OblTokens \in [Kinds -> Nat]
  /\ OblSeconds \in [Kinds -> Nat]
  /\ \A c \in Configs : c \in [rev : Nat, tok : Nat, dl : Nat, sessTok : Nat, sessSec : Nat, cycles : Nat]

VARIABLES
  config,        \* the configuration in force, or Nobody before configure
  authorized,    \* the configurations of authorization_history
  actors,        \* the actor records
  cycles,        \* correction_cycles
  decisions,     \* correction_decisions
  aliases,       \* goal_aliases: the actor and the preflight offset of a goal
  bound,         \* request_binding is set
  sessions,      \* request_sessions
  completions,   \* request_completions: the proof each response id stands for
  plan,          \* completion_plan, or Nobody
  observedAt     \* observed_at

ledger == <<config, authorized, actors, cycles, decisions, aliases, bound,
            sessions, completions, plan, observedAt>>

Absent == [kind |-> "none", res |-> 0, sec |-> 0, used |-> 0, settled |-> FALSE,
           known |-> TRUE, dl |-> 0, thread |-> Nobody, purpose |-> Nobody]

NoSession == [on |-> FALSE, prior |-> 0, dl |-> 0, parent |-> Nobody,
              group |-> Nobody, purpose |-> Nobody]

Actor == [kind : {"none", "observed", "reserved", "goal", "request"}, res : Nat, sec : Nat,
          used : Nat, settled : BOOLEAN, known : BOOLEAN, dl : Nat,
          thread : Threads \cup {Nobody}, purpose : Kinds \cup {Nobody}]

Session == [on : BOOLEAN, prior : Nat, dl : Nat, parent : Threads \cup {Nobody},
            group : Threads \cup {Nobody}, purpose : Kinds \cup {Nobody}]

Obligation == [state : {"pending", "deferred", "completed"}, started : BOOLEAN]

LedgerTypeOK ==
  /\ config \in Configs \cup {Nobody}
  /\ authorized \subseteq Configs
  /\ actors \in [ActorIds -> Actor]
  /\ cycles \in Nat
  /\ decisions \in [Keys -> {"none", "granted", "refused"}]
  /\ aliases \in [Goals -> [actor : LifeActors \cup {Nobody}, pre : Nat]]
  /\ bound \in BOOLEAN
  /\ sessions \in [Threads -> Session]
  /\ completions \in [Responses -> [actor : Requests \cup {Nobody}, tokens : Nat]]
  /\ plan = Nobody \/ plan \in [Kinds -> Obligation]
  /\ observedAt \in Nat

LedgerInit ==
  /\ config = Nobody
  /\ authorized = {}
  /\ actors = [a \in ActorIds |-> Absent]
  /\ cycles = 0
  /\ decisions = [k \in Keys |-> "none"]
  /\ aliases = [g \in Goals |-> [actor |-> Nobody, pre |-> 0]]
  /\ bound = FALSE
  /\ sessions = [t \in Threads |-> NoSession]
  /\ completions = [r \in Responses |-> [actor |-> Nobody, tokens |-> 0]]
  /\ plan = Nobody
  /\ observedAt = 0

-----------------------------------------------------------------------------
(* _view: the derived accounting.                                          *)

Minus(a, b) == IF a > b THEN a - b ELSE 0
Larger(a, b) == IF a > b THEN a ELSE b
Smaller(a, b) == IF a < b THEN a ELSE b

Observed(now) == Larger(now, observedAt)

Enrolled == {a \in ActorIds : actors[a].kind # "none"}

TokensUsed == Prior + SumFunctionOnSet([a \in ActorIds |-> actors[a].used], Enrolled)

TokensReserved ==
  SumFunctionOnSet([a \in ActorIds |-> Minus(actors[a].res, actors[a].used)],
                   {a \in Enrolled : ~actors[a].settled})

AccountingKnown == \A a \in ActorIds : actors[a].known

RemainingTokens == Minus(config.tok, TokensUsed + TokensReserved)

Ready(now) == AccountingKnown /\ Observed(now) < config.dl /\ RemainingTokens > 0

\* What an actor counts for: its whole reservation until it is settled.
Charges ==
  [a \in ActorIds |-> IF actors[a].settled THEN actors[a].used
                      ELSE Larger(actors[a].used, actors[a].res)]

\* _completion_status: what each pending obligation still protects.
Workers(k) == {a \in Enrolled : actors[a].purpose = k}

ProtectedTokens ==
  [k \in Kinds |-> IF plan[k].state = "completed" THEN 0
                   ELSE Minus(OblTokens[k], SumFunctionOnSet(Charges, Workers(k)))]

ProtectedSeconds ==
  [k \in Kinds |-> IF plan[k].state = "completed" THEN 0
                   ELSE Minus(OblSeconds[k], SumFunctionOnSet([a \in ActorIds |-> actors[a].sec], Workers(k)))]

Pending == {k \in Kinds : plan[k].state # "completed"}

CompletionDeadline ==
  Min({config.dl} \cup {sessions[t].dl : t \in {u \in Threads : sessions[u].on /\ sessions[u].purpose \in Pending}})

AvailableSeconds(now) == Minus(CompletionDeadline, Observed(now))

TokenFeasible == SumFunction(ProtectedTokens) <= RemainingTokens

Feasible(now) ==
  /\ AccountingKnown
  /\ TokenFeasible
  /\ SumFunction(ProtectedSeconds) <= AvailableSeconds(now)

Observe(now) == observedAt' = Observed(now)

-----------------------------------------------------------------------------
(* Configuration and authorization.                                        *)

\* configure on an empty ledger; a second, equal configure only observes.
Configure(c, now) ==
  /\ \/ config = Nobody /\ config' = c /\ authorized' = {c}
     \/ config = c /\ UNCHANGED <<config, authorized>>
  /\ Observe(now)
  /\ UNCHANGED <<actors, cycles, decisions, aliases, bound, sessions, completions, plan>>

\* extend keeps token limit and deadline from shrinking; reset may lower them,
\* once every actor is settled and known.  Neither touches usage.
Authorize(c, action, now) ==
  /\ config # Nobody
  /\ c.rev # config.rev
  /\ action = "extend" => c.tok >= config.tok /\ c.dl >= config.dl
  /\ action = "reset" => \A a \in Enrolled : actors[a].settled /\ actors[a].known
  /\ config' = c
  /\ authorized' = authorized \cup {c}
  /\ Observe(now)
  /\ UNCHANGED <<actors, cycles, decisions, aliases, bound, sessions, completions, plan>>

\* correction for one assignment key on behalf of a live reserved actor.  A key
\* that was decided before is answered from its decision and costs no cycle.
\* The caller (lifecycle_correction.py) has a lifecycle actor, so no binding.
CorrectionEligible(a, now) ==
  /\ AccountingKnown
  /\ actors[a].kind # "none"
  /\ ~actors[a].settled
  /\ actors[a].res > actors[a].used
  /\ Observed(now) < Smaller(actors[a].dl, config.dl)
  /\ TokensUsed + TokensReserved <= config.tok

Correction(k, a, now) ==
  LET admitted == CorrectionEligible(a, now) /\ cycles < config.cycles
  IN  /\ config # Nobody /\ ~bound
      /\ decisions[k] = "none"
      /\ decisions' = [decisions EXCEPT ![k] = IF admitted THEN "granted" ELSE "refused"]
      /\ cycles' = IF admitted THEN cycles + 1 ELSE cycles
      /\ Observe(now)
      /\ UNCHANGED <<config, authorized, actors, aliases, bound, sessions, completions, plan>>

\* view saves the observed time, and with it the high-water mark of the clock.
View(now) ==
  /\ config # Nobody
  /\ Observe(now)
  /\ UNCHANGED <<config, authorized, actors, cycles, decisions, aliases, bound, sessions, completions, plan>>

-----------------------------------------------------------------------------
(* Lifecycle accounting: sampled actors, refused once requests are bound.  *)

Lifecycle == config # Nobody /\ ~bound

\* Every other ledger variable of a transaction that only changes the actors.
OnlyActors(now) ==
  /\ Observe(now)
  /\ UNCHANGED <<config, authorized, cycles, decisions, aliases, bound, sessions, completions, plan>>

\* reserve of a new actor, as admit_spawn and admit_handoff call it.  A replay
\* of an actor that has terms only observes the time, as View does.
Reserve(a, tokens, seconds, now) ==
  LET admitted == /\ Ready(now)
                  /\ tokens <= RemainingTokens
                  /\ tokens <= config.sessTok
                  /\ seconds <= config.sessSec
                  /\ Observed(now) + seconds <= config.dl
  IN  /\ Lifecycle
      /\ actors[a].kind = "none"
      /\ tokens > 0 /\ seconds > 0
      /\ actors' = IF admitted
                   THEN [actors EXCEPT ![a] = [Absent EXCEPT !.kind = "reserved", !.res = tokens,
                                                !.sec = seconds, !.dl = Observed(now) + seconds]]
                   ELSE actors
      /\ OnlyActors(now)

\* Mutant: a sample is taken as it comes, even when it is lower.
RecordIntoLatest(a, cumulative, offset, settled) ==
  LET old == IF actors[a].kind = "none" THEN [Absent EXCEPT !.kind = "observed"] ELSE actors[a]
  IN  IF cumulative = Nobody THEN [old EXCEPT !.known = FALSE, !.settled = FALSE]
      ELSE [old EXCEPT !.used = cumulative + offset, !.known = TRUE, !.settled = old.settled \/ settled]

\* _record: a cumulative sample, a missing one (None, here Nobody), or a goal's sample that
\* its alias charges to the spawned actor on top of the preflight usage.
RecordInto(a, cumulative, offset, settled) ==
  LET old == IF actors[a].kind = "none" THEN [Absent EXCEPT !.kind = "observed"] ELSE actors[a]
  IN  IF cumulative = Nobody \/ cumulative + offset < old.used
      THEN [old EXCEPT !.known = FALSE, !.settled = FALSE]
      ELSE [old EXCEPT !.used = cumulative + offset, !.known = TRUE, !.settled = old.settled \/ settled]

Record(a, cumulative, settled, now) ==
  /\ Lifecycle
  /\ actors' = [actors EXCEPT ![a] = RecordInto(a, cumulative, 0, settled)]
  /\ OnlyActors(now)

AliasActor(g) == IF aliases[g].actor = Nobody THEN g ELSE aliases[g].actor

RecordGoal(g, cumulative, settled, now) ==
  /\ Lifecycle
  /\ actors' = [actors EXCEPT ![AliasActor(g)] =
                  RecordInto(AliasActor(g), cumulative, aliases[g].pre, settled)]
  /\ OnlyActors(now)

\* record_sampled_floor: a later floor never asserts final usage.
RecordSampledFloor(a, cumulative, now) ==
  /\ Lifecycle
  /\ actors[a].kind # "none"
  /\ actors' = [actors EXCEPT ![a].used = Larger(actors[a].used, cumulative), ![a].known = FALSE, ![a].settled = FALSE]
  /\ OnlyActors(now)

\* adopt_active_goal: an observed native parent's unchanged session quota
\* becomes its reservation, once.
AdoptActiveGoal(g, budget, deadline, now) ==
  LET a == AliasActor(g)
      quota == budget + aliases[g].pre
      admitted == /\ quota > 0
                  /\ quota <= config.sessTok
                  /\ AccountingKnown
                  /\ deadline > Observed(now)
                  /\ actors[a].kind \in {"none", "observed"}
                  /\ actors[a].used < quota
                  /\ quota - actors[a].used <= RemainingTokens
  IN  /\ Lifecycle
      /\ actors' = IF admitted
                   THEN [actors EXCEPT ![a] = [Absent EXCEPT !.kind = "goal", !.res = quota,
                                                !.used = actors[a].used, !.dl = Smaller(deadline, config.dl)]]
                   ELSE actors
      /\ OnlyActors(now)

\* bind_goal: the goal of an owned spawn is charged to the spawn's actor.
BindGoal(g, a, now) ==
  /\ Lifecycle
  /\ actors[a].kind # "none"
  /\ aliases[g].actor = Nobody
  /\ actors[a].known /\ actors[a].settled
  /\ aliases' = [aliases EXCEPT ![g] = [actor |-> a, pre |-> actors[a].used]]
  /\ Observe(now)
  /\ UNCHANGED <<config, authorized, actors, cycles, decisions, bound, sessions, completions, plan>>

-----------------------------------------------------------------------------
(* Request accounting.                                                     *)

\* bind_requests takes over an empty ledger and imports all prior usage.
BindRequests ==
  /\ config # Nobody
  /\ ~bound
  /\ Enrolled = {}
  /\ \A g \in Goals : aliases[g].actor = Nobody
  /\ bound' = TRUE
  /\ sessions' = [sessions EXCEPT ![Source] =
       [NoSession EXCEPT !.on = TRUE, !.prior = Prior, !.dl = Smaller(config.dl, config.sessSec)]]
  /\ UNCHANGED <<config, authorized, actors, cycles, decisions, aliases, completions, plan, observedAt>>

NewSession(now) ==
  [NoSession EXCEPT !.on = TRUE, !.dl = Smaller(config.dl, now + config.sessSec)]

\* register_request_thread: a native child gets a session window of its own.
RegisterThread(t, parent, now) ==
  /\ bound
  /\ sessions[parent].on
  /\ ~sessions[t].on
  /\ sessions' = [sessions EXCEPT ![t] = [NewSession(now) EXCEPT !.parent = parent]]
  /\ UNCHANGED <<config, authorized, actors, cycles, decisions, aliases, bound, completions, plan, observedAt>>

Group(t) == IF sessions[t].group = Nobody THEN t ELSE sessions[t].group

\* continue_request_thread: a context successor shares the cap, the spending
\* and the deadline of the thread it replaces, and its purpose.
ContinueThread(t, source) ==
  /\ bound
  /\ t # source
  /\ sessions[source].on
  /\ ~sessions[t].on
  /\ sessions' = [sessions EXCEPT ![t] =
       [NoSession EXCEPT !.on = TRUE, !.dl = sessions[source].dl, !.parent = source,
                         !.group = Group(source), !.purpose = sessions[source].purpose]]
  /\ UNCHANGED <<config, authorized, actors, cycles, decisions, aliases, bound, completions, plan, observedAt>>

\* protect_completion, before the first request.
ProtectCompletion(now) ==
  /\ bound
  /\ plan = Nobody
  /\ Enrolled = {}
  /\ plan' = [k \in Kinds |-> [state |-> "pending", started |-> FALSE]]
  /\ Observe(now)
  /\ UNCHANGED <<config, authorized, actors, cycles, decisions, aliases, bound, sessions, completions>>

AssignCompletion(t, k, now) ==
  /\ plan # Nobody
  /\ sessions[t].on
  /\ sessions' = [sessions EXCEPT ![t].purpose = k]
  /\ Observe(now)
  /\ UNCHANGED <<config, authorized, actors, cycles, decisions, aliases, bound, completions, plan>>

\* resolve_completion: completed needs every request of the obligation settled.
ResolveCompletion(k, outcome, now) ==
  /\ plan # Nobody
  /\ plan[k].state # "completed"
  /\ outcome = "completed" => \A a \in Workers(k) : actors[a].settled /\ actors[a].known
  /\ plan' = [plan EXCEPT ![k].state = outcome]
  /\ Observe(now)
  /\ UNCHANGED <<config, authorized, actors, cycles, decisions, aliases, bound, sessions, completions>>

\* The spending of a thread's whole continuation group.
GroupMembers(t, ss) == {u \in Threads : ss[u].on /\ (IF ss[u].group = Nobody THEN u ELSE ss[u].group)
                                             = (IF ss[t].group = Nobody THEN t ELSE ss[t].group)}

\* Mutant: a successor starts with a clean session.
SessionUsedAlone(t, ss) ==
  ss[t].prior + SumFunctionOnSet(Charges, {a \in Enrolled : actors[a].thread = t})

SessionUsed(t, ss) ==
  SumFunctionOnSet([u \in Threads |-> ss[u].prior], GroupMembers(t, ss))
    + SumFunctionOnSet(Charges, {a \in Enrolled : actors[a].thread \in GroupMembers(t, ss)})

\* reserve_request's ordinary limits.
WithinAllowance(t, ss, tokens, seconds, now) ==
  /\ Ready(now)
  /\ tokens <= RemainingTokens
  /\ SessionUsed(t, ss) + tokens <= config.sessTok
  /\ seconds <= config.sessSec
  /\ Observed(now) + seconds <= ss[t].dl

\* Mutant: a request may draw on what other obligations protect.
LeavesOwnFunded(purpose, tokens, seconds, now) ==
  /\ Feasible(now)
  /\ purpose # Nobody => plan[purpose].state # "completed" /\ tokens <= ProtectedTokens[purpose]

\* reserve_request's completion gate: pending obligations stay funded.
LeavesCompletionFunded(purpose, tokens, seconds, now) ==
  LET own(f) == IF purpose = Nobody THEN 0 ELSE f[purpose]
      otherTokens == SumFunction(ProtectedTokens) - own(ProtectedTokens)
      otherSeconds == SumFunction(ProtectedSeconds) - own(ProtectedSeconds)
  IN  /\ purpose = Remediation /\ ~plan[purpose].started => cycles < config.cycles
      /\ Feasible(now)
      /\ purpose = Nobody => \A k \in Kinds : plan[k].state # "deferred"
      /\ purpose # Nobody => /\ plan[purpose].state # "completed"
                             /\ tokens <= ProtectedTokens[purpose]
                             /\ seconds <= ProtectedSeconds[purpose]
      /\ tokens + otherTokens <= RemainingTokens
      /\ seconds + otherSeconds <= AvailableSeconds(now)

\* The session a request is charged to; an unregistered thread gets its own.
SessionsFor(t, now) ==
  IF sessions[t].on THEN sessions ELSE [sessions EXCEPT ![t] = NewSession(now)]

Admitted(t, tokens, seconds, enforce, now) ==
  LET ss == SessionsFor(t, now)
  IN  enforce => /\ WithinAllowance(t, ss, tokens, seconds, now)
                 /\ plan # Nobody => LeavesCompletionFunded(ss[t].purpose, tokens, seconds, now)

\* reserve_request, admitted: the first remediation request takes a cycle.
ReserveRequest(r, t, tokens, seconds, now) ==
  LET ss == SessionsFor(t, now)
      purpose == ss[t].purpose
      starts == plan # Nobody /\ purpose = Remediation /\ ~plan[Remediation].started
  IN  /\ bound
      /\ actors[r].kind = "none"
      /\ sessions' = ss
      /\ cycles' = IF starts THEN cycles + 1 ELSE cycles
      /\ plan' = IF starts THEN [plan EXCEPT ![Remediation].started = TRUE] ELSE plan
      /\ actors' = [actors EXCEPT ![r] =
           [kind |-> "request", res |-> tokens, sec |-> seconds, used |-> 0, settled |-> FALSE,
            known |-> TRUE, dl |-> ss[t].dl, thread |-> t, purpose |-> purpose]]
      /\ Observe(now)
      /\ UNCHANGED <<config, authorized, decisions, aliases, bound, completions>>

\* reserve_request, denied: only the session default and the clock are saved.
DenyRequest(r, t, now) ==
  /\ bound
  /\ actors[r].kind = "none"
  /\ sessions' = SessionsFor(t, now)
  /\ Observe(now)
  /\ UNCHANGED <<config, authorized, actors, cycles, decisions, aliases, bound, completions, plan>>

\* Mutant: a response id may pay for a second attempt.
SettleRequestReused(r, response, tokens, now) ==
  /\ actors[r].kind = "request"
  /\ actors' = [actors EXCEPT ![r].used = tokens, ![r].known = TRUE, ![r].settled = TRUE]
  /\ completions' = [completions EXCEPT ![response] = [actor |-> r, tokens |-> tokens]]
  /\ Observe(now)
  /\ UNCHANGED <<config, authorized, cycles, decisions, aliases, bound, sessions, plan>>

\* settle_request with a qualified completion.  A response id that already
\* stands for another proof, a settled attempt, or usage above the reservation
\* makes the attempt unknown and keeps its reservation.
SettleRequest(r, response, tokens, now) ==
  LET proof == [actor |-> r, tokens |-> tokens]
      conflict == \/ completions[response].actor # Nobody
                  \/ actors[r].settled
                  \/ actors[r].res > 0 /\ tokens > actors[r].res
  IN  /\ actors[r].kind = "request"
      /\ IF completions[response] = proof THEN UNCHANGED <<actors, completions>>
         ELSE IF conflict
         THEN /\ actors' = [actors EXCEPT ![r].used = Larger(actors[r].used, tokens), ![r].known = FALSE, ![r].settled = FALSE]
              /\ UNCHANGED completions
         ELSE /\ actors' = [actors EXCEPT ![r].used = tokens, ![r].known = TRUE, ![r].settled = TRUE]
              /\ completions' = [completions EXCEPT ![response] = proof]
      /\ Observe(now)
      /\ UNCHANGED <<config, authorized, cycles, decisions, aliases, bound, sessions, plan>>

\* Mutant: an attempt without a completion is closed as unused.
SettleUnknownRefund(r, now) ==
  /\ actors[r].kind = "request"
  /\ actors' = [actors EXCEPT ![r].settled = TRUE]
  /\ OnlyActors(now)

\* settle_request without a completion: the reservation is retained.
SettleUnknown(r, now) ==
  /\ actors[r].kind = "request"
  /\ actors' = [actors EXCEPT ![r].known = FALSE, ![r].settled = FALSE]
  /\ OnlyActors(now)

=============================================================================
