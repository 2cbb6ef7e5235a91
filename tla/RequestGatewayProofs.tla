------------------------- MODULE RequestGatewayProofs -------------------------
(***************************************************************************)
(* Proofs about the request gateway and its ledger, for every set of       *)
(* requests, threads and actors and every value of the other constants.    *)
(***************************************************************************)
EXTENDS RequestGateway, FiniteSums

\* Before it is reserved an attempt has no actor; from then until its first
\* settlement it has used nothing and owns no completion.
Untouched(r) == actors[r].used = 0 /\ ~actors[r].settled /\ \A p \in Responses : completions[p].actor # r

\* An attempt inside the locked section holds the lock and has the switch as
\* the allocation has it.
DecisionFresh ==
  \A r \in Requests : attempt[r].at \in {"deciding", "reserved"} =>
    lock = r /\ attempt[r].inactive = ~governor

AttemptActors ==
  \A r \in Requests :
    /\ attempt[r].at \in {"new", "deciding"} => actors[r] = Absent /\ Untouched(r)
    /\ attempt[r].at \in {"reserved", "sent"} => Untouched(r)
    /\ attempt[r].at = "deciding" => attempt[r].thread \in Threads

AbsentActors == \A a \in ActorIds : actors[a].kind = "none" => actors[a] = Absent

BoundConfigured == bound => config # Nobody

GInv == TypeOK /\ DecisionFresh /\ AttemptActors /\ AbsentActors /\ BoundConfigured /\ SettledHasProof

UsageKept == \A a \in ActorIds : actors'[a].used >= actors[a].used

-----------------------------------------------------------------------------
(* Typing of the small operators.                                          *)

LEMMA ActorSets ==
  /\ LifeActors \subseteq ActorIds /\ Goals \subseteq ActorIds /\ Requests \subseteq ActorIds
  /\ \A r \in Requests : r \notin LifeActors \cup Goals
  BY LedgerAssumption DEF ActorIds

LEMMA ConfigType ==
  ASSUME config \in Configs
  PROVE  /\ config.tok \in Nat /\ config.dl \in Nat /\ config.sessTok \in Nat
         /\ config.sessSec \in Nat /\ config.cycles \in Nat
  BY LedgerAssumption

LEMMA Comparisons ==
  ASSUME NEW m \in Nat, NEW n \in Nat
  PROVE  Larger(m, n) \in Nat /\ Larger(m, n) >= m /\ Larger(m, n) >= n /\ Smaller(m, n) \in Nat
  BY DEF Larger, Smaller

LEMMA ObserveType ==
  ASSUME NEW now \in Times, observedAt \in Nat, Observe(now)
  PROVE  observedAt' \in Nat /\ Observed(now) \in Nat
  BY LedgerAssumption, Comparisons DEF Observe, Observed

LEMMA AbsentType == Absent \in Actor /\ Absent.kind = "none" /\ Absent.used = 0
  BY DEF Absent, Actor

LEMMA UpdateFlags ==
  ASSUME NEW o \in Actor, NEW k \in BOOLEAN, NEW b \in BOOLEAN
  PROVE  LET q == [o EXCEPT !.known = k, !.settled = b]
         IN  q \in Actor /\ q.kind = o.kind /\ q.used = o.used /\ q.settled = b
  BY Zenon DEF Actor

LEMMA RecordType ==
  ASSUME NEW a \in ActorIds, actors[a] \in Actor, AbsentActors,
         NEW cumulative \in Amounts \cup {Nobody}, NEW offset \in Nat, NEW settled \in BOOLEAN
  PROVE  /\ RecordInto(a, cumulative, offset, settled) \in Actor
         /\ RecordInto(a, cumulative, offset, settled).kind # "none"
         /\ RecordInto(a, cumulative, offset, settled).used >= actors[a].used
  <1> DEFINE old == IF actors[a].kind = "none" THEN [Absent EXCEPT !.kind = "observed"] ELSE actors[a]
             flag == old.settled \/ settled
             new == IF cumulative = Nobody \/ cumulative + offset < old.used
                    THEN [old EXCEPT !.known = FALSE, !.settled = FALSE]
                    ELSE [old EXCEPT !.used = cumulative + offset, !.known = TRUE, !.settled = flag]
  <1>1. old \in Actor /\ old.kind # "none" /\ old.used = actors[a].used
    BY AbsentType DEF AbsentActors, Absent, Actor
  <1>2. cumulative # Nobody => cumulative \in Nat
    BY LedgerAssumption
  <1>3. old.used \in Nat
    BY <1>1 DEF Actor
  <1>4. flag \in BOOLEAN
    BY <1>1, Zenon DEF Actor
  <1>5. new \in Actor /\ new.kind # "none" /\ new.used >= old.used
    <2> HIDE DEF old, flag
    <2>1. CASE cumulative = Nobody \/ cumulative + offset < old.used
      <3>1. new = [old EXCEPT !.known = FALSE, !.settled = FALSE]
        BY <2>1
      <3>2. new \in Actor /\ new.kind = old.kind /\ new.used = old.used
        BY <1>1, <3>1, UpdateFlags, Zenon
      <3>3. QED
        BY <1>1, <1>3, <3>2
    <2>2. CASE ~(cumulative = Nobody \/ cumulative + offset < old.used)
      <3> DEFINE n == cumulative + offset
      <3>1. n \in Nat /\ n >= old.used
        BY <1>2, <1>3, <2>2
      <3>2. new = [old EXCEPT !.used = n, !.known = TRUE, !.settled = flag]
        BY <2>2
      <3> HIDE DEF n, new
      <3>3. new \in Actor /\ new.kind = old.kind /\ new.used = n
        <4> DEFINE q == [old EXCEPT !.used = n, !.known = TRUE, !.settled = flag]
        <4>1. q \in Actor /\ q.kind = old.kind /\ q.used = n
          <5>1. n \in Nat /\ old \in Actor /\ TRUE \in BOOLEAN
            BY <1>1, <3>1
          <5>2. QED
            BY <5>1, <1>4, Zenon DEF Actor
        <4>2. QED
          BY <4>1, <3>2
      <3>4. QED
        BY <1>1, <3>1, <3>3
    <2>3. QED
      BY <2>1, <2>2
  <1>6. QED
    BY <1>1, <1>5 DEF RecordInto

-----------------------------------------------------------------------------
(* What the parts of the invariant need from a step.                       *)

LEMMA FrameInv ==
  ASSUME GInv, UNCHANGED <<gateway, actors, completions>>
  PROVE  DecisionFresh' /\ AttemptActors' /\ AbsentActors' /\ SettledHasProof' /\ GatewayTypeOK' /\ UsageKept
  <1>1. UsageKept
    BY DEF GInv, TypeOK, LedgerTypeOK, UsageKept, Actor
  <1>2. DecisionFresh' /\ GatewayTypeOK'
    BY DEF GInv, TypeOK, DecisionFresh, GatewayTypeOK, gateway
  <1>3. AttemptActors' /\ AbsentActors'
    BY DEF GInv, AttemptActors, AbsentActors, Untouched, gateway
  <1>4. SettledHasProof'
    BY DEF GInv, SettledHasProof
  <1>5. QED
    BY <1>1, <1>2, <1>3, <1>4

\* A lifecycle transaction changes one actor that is no request.
LEMMA LifeInv ==
  ASSUME GInv, UNCHANGED <<gateway, completions>>,
         NEW a \in LifeActors \cup Goals, NEW q \in Actor, q.kind # "none", q.used >= actors[a].used,
         actors' = [actors EXCEPT ![a] = q]
  PROVE  /\ actors' \in [ActorIds -> Actor]
         /\ DecisionFresh' /\ AttemptActors' /\ AbsentActors' /\ SettledHasProof' /\ GatewayTypeOK' /\ UsageKept
  <1>1. a \in ActorIds /\ a \notin Requests /\ Requests \subseteq ActorIds
    BY ActorSets
  <1>2. actors \in [ActorIds -> Actor]
    BY DEF GInv, TypeOK, LedgerTypeOK
  <1>3. /\ actors' \in [ActorIds -> Actor]
        /\ \A b \in ActorIds : b # a => actors'[b] = actors[b]
        /\ actors'[a] = q
    BY <1>1, <1>2
  <1>4. UsageKept
    BY <1>2, <1>3 DEF UsageKept, Actor
  <1>5. AbsentActors'
    BY <1>3 DEF GInv, AbsentActors
  <1>6. \A r \in Requests : actors'[r] = actors[r]
    BY <1>1, <1>3
  <1>7. AttemptActors'
    BY <1>6 DEF GInv, AttemptActors, Untouched, gateway
  <1>8. SettledHasProof'
    BY <1>6 DEF GInv, SettledHasProof
  <1>9. DecisionFresh' /\ GatewayTypeOK'
    BY DEF GInv, TypeOK, DecisionFresh, GatewayTypeOK, gateway
  <1>10. QED
    BY <1>3, <1>4, <1>5, <1>7, <1>8, <1>9

-----------------------------------------------------------------------------
(* Steps of the ledger's other owners.                                     *)

\* Transactions that leave the actors and the completions alone.
LEMMA HostSteps ==
  ASSUME GInv, UNCHANGED gateway, NEW now \in Times,
         \/ \E c \in Configs : Configure(c, now)
         \/ \E c \in Configs, action \in {"extend", "reset"} : Authorize(c, action, now)
         \/ \E k \in Keys, a \in LifeActors : Correction(k, a, now)
         \/ View(now)
         \/ \E g \in Goals, a \in LifeActors : BindGoal(g, a, now)
         \/ ProtectCompletion(now)
         \/ \E t \in Threads, k \in Kinds : AssignCompletion(t, k, now)
         \/ \E k \in Kinds, outcome \in {"deferred", "completed"} : ResolveCompletion(k, outcome, now)
  PROVE  GInv' /\ UsageKept
  <1> USE DEF GInv, TypeOK, BoundConfigured
  <1> SUFFICES LedgerTypeOK' /\ (bound' => config' # Nobody) /\ UNCHANGED <<actors, completions>>
    BY FrameInv
  <1>0. observedAt \in Nat
    BY DEF LedgerTypeOK
  <1>1. CASE \E c \in Configs : Configure(c, now)
    BY <1>0, <1>1, ObserveType, LedgerAssumption DEF Configure, LedgerTypeOK
  <1>2. CASE \E c \in Configs, action \in {"extend", "reset"} : Authorize(c, action, now)
    BY <1>0, <1>2, ObserveType, LedgerAssumption DEF Authorize, LedgerTypeOK
  <1>3. CASE \E k \in Keys, a \in LifeActors : Correction(k, a, now)
    BY <1>0, <1>3, ObserveType DEF Correction, LedgerTypeOK
  <1>4. CASE View(now)
    BY <1>0, <1>4, ObserveType DEF View, LedgerTypeOK
  <1>5. CASE \E g \in Goals, a \in LifeActors : BindGoal(g, a, now)
    <2>1. PICK g \in Goals, a \in LifeActors : BindGoal(g, a, now)
      BY <1>5
    <2>2. actors[a].used \in Nat
      BY ActorSets DEF LedgerTypeOK, Actor
    <2>3. QED
      BY <1>0, <2>1, <2>2, ObserveType DEF BindGoal, LedgerTypeOK
  <1>6. CASE ProtectCompletion(now)
    <2>1. [k \in Kinds |-> [state |-> "pending", started |-> FALSE]] \in [Kinds -> Obligation]
      BY Zenon DEF Obligation
    <2>2. QED
      BY <1>0, <1>6, <2>1, ObserveType DEF ProtectCompletion, LedgerTypeOK
  <1>7. CASE \E t \in Threads, k \in Kinds : AssignCompletion(t, k, now)
    <2>1. PICK t \in Threads, k \in Kinds : AssignCompletion(t, k, now)
      BY <1>7
    <2>2. [sessions[t] EXCEPT !.purpose = k] \in Session
      BY DEF LedgerTypeOK, Session
    <2>3. sessions' \in [Threads -> Session]
      BY <2>1, <2>2 DEF AssignCompletion, LedgerTypeOK
    <2>4. QED
      BY <1>0, <2>1, <2>3, ObserveType DEF AssignCompletion, LedgerTypeOK
  <1>8. CASE \E k \in Kinds, outcome \in {"deferred", "completed"} : ResolveCompletion(k, outcome, now)
    <2>1. PICK k \in Kinds, outcome \in {"deferred", "completed"} : ResolveCompletion(k, outcome, now)
      BY <1>8
    <2>2. plan \in [Kinds -> Obligation] /\ plan' = [plan EXCEPT ![k].state = outcome]
      BY <2>1 DEF ResolveCompletion, LedgerTypeOK
    <2>3. plan' \in [Kinds -> Obligation]
      BY <2>2 DEF Obligation
    <2>4. QED
      BY <1>0, <2>1, <2>3, ObserveType DEF ResolveCompletion, LedgerTypeOK
  <1>9. QED
    BY <1>1, <1>2, <1>3, <1>4, <1>5, <1>6, <1>7, <1>8

LEMMA LifeStepInv ==
  ASSUME GInv, UNCHANGED gateway, NEW now \in Times, OnlyActors(now),
         NEW a \in LifeActors \cup Goals, NEW q \in Actor, q.kind # "none", q.used >= actors[a].used,
         actors' = actors \/ actors' = [actors EXCEPT ![a] = q]
  PROVE  GInv' /\ UsageKept
  <1>1. UNCHANGED <<config, authorized, cycles, decisions, aliases, bound, sessions, completions, plan>>
    BY DEF OnlyActors
  <1>2. observedAt' \in Nat
    BY ObserveType DEF OnlyActors, GInv, TypeOK, LedgerTypeOK
  <1>3. /\ actors' \in [ActorIds -> Actor]
        /\ DecisionFresh' /\ AttemptActors' /\ AbsentActors' /\ SettledHasProof' /\ GatewayTypeOK' /\ UsageKept
    <2>1. CASE actors' = actors
      BY <2>1, <1>1, FrameInv DEF GInv, TypeOK, LedgerTypeOK
    <2>2. CASE actors' = [actors EXCEPT ![a] = q]
      BY <2>2, <1>1, LifeInv
    <2>3. QED
      BY <2>1, <2>2
  <1>4. LedgerTypeOK' /\ BoundConfigured'
    BY <1>1, <1>2, <1>3 DEF GInv, TypeOK, LedgerTypeOK, BoundConfigured
  <1>5. QED
    BY <1>3, <1>4 DEF GInv, TypeOK

LEMMA LifeSteps ==
  ASSUME GInv, UNCHANGED gateway, NEW now \in Times,
         \/ \E a \in LifeActors, tokens \in Amounts, seconds \in Seconds : Reserve(a, tokens, seconds, now)
         \/ \E a \in LifeActors, cumulative \in Amounts \cup {Nobody}, settled \in BOOLEAN :
              Record(a, cumulative, settled, now)
         \/ \E g \in Goals, cumulative \in Amounts \cup {Nobody}, settled \in BOOLEAN :
              RecordGoal(g, cumulative, settled, now)
         \/ \E a \in LifeActors \cup Goals, cumulative \in Amounts : RecordSampledFloor(a, cumulative, now)
         \/ \E g \in Goals, budget \in Amounts, deadline \in Times : AdoptActiveGoal(g, budget, deadline, now)
  PROVE  GInv' /\ UsageKept
  <1>0. /\ observedAt \in Nat /\ actors \in [ActorIds -> Actor] /\ AbsentActors
        /\ \A a \in LifeActors \cup Goals : a \in ActorIds /\ actors[a] \in Actor
    BY ActorSets DEF GInv, TypeOK, LedgerTypeOK
  <1>00. \A n \in Amounts \cup Times \cup Seconds : n \in Nat
    BY LedgerAssumption
  <1>1. CASE \E a \in LifeActors, tokens \in Amounts, seconds \in Seconds : Reserve(a, tokens, seconds, now)
    <2>1. PICK a \in LifeActors, tokens \in Amounts, seconds \in Seconds : Reserve(a, tokens, seconds, now)
      BY <1>1
    <2> DEFINE q == [Absent EXCEPT !.kind = "reserved", !.res = tokens, !.sec = seconds,
                                   !.dl = Observed(now) + seconds]
    <2>2. Observed(now) + seconds \in Nat
      <3>1. Observe(now)
        BY <2>1 DEF Reserve, OnlyActors
      <3>2. Observed(now) \in Nat /\ seconds \in Nat
        BY <1>0, <1>00, <3>1, ObserveType
      <3>3. QED
        BY <3>2
    <2>3. q \in Actor /\ q.kind # "none" /\ q.used = 0
      BY <1>00, <2>2 DEF Absent, Actor
    <2>4. actors[a].used = 0
      BY <1>0, <2>1, AbsentType DEF Reserve, AbsentActors
    <2>5. actors' = actors \/ actors' = [actors EXCEPT ![a] = q]
      BY <2>1 DEF Reserve
    <2>6. OnlyActors(now)
      BY <2>1 DEF Reserve
    <2> HIDE DEF q
    <2>7. QED
      BY <2>3, <2>4, <2>5, <2>6, LifeStepInv
  <1>2. CASE \E a \in LifeActors, cumulative \in Amounts \cup {Nobody}, settled \in BOOLEAN :
               Record(a, cumulative, settled, now)
    <2>1. PICK a \in LifeActors, cumulative \in Amounts \cup {Nobody}, settled \in BOOLEAN :
            Record(a, cumulative, settled, now)
      BY <1>2
    <2> DEFINE q == RecordInto(a, cumulative, 0, settled)
    <2>2. q \in Actor /\ q.kind # "none" /\ q.used >= actors[a].used
      BY <1>0, RecordType
    <2>3. actors' = [actors EXCEPT ![a] = q] /\ OnlyActors(now)
      BY <2>1 DEF Record
    <2> HIDE DEF q
    <2>4. QED
      BY <2>2, <2>3, LifeStepInv
  <1>3. CASE \E g \in Goals, cumulative \in Amounts \cup {Nobody}, settled \in BOOLEAN :
               RecordGoal(g, cumulative, settled, now)
    <2>1. PICK g \in Goals, cumulative \in Amounts \cup {Nobody}, settled \in BOOLEAN :
            RecordGoal(g, cumulative, settled, now)
      BY <1>3
    <2>2. AliasActor(g) \in LifeActors \cup Goals /\ aliases[g].pre \in Nat
      BY DEF GInv, TypeOK, LedgerTypeOK, AliasActor
    <2> DEFINE a == AliasActor(g)
               q == RecordInto(a, cumulative, aliases[g].pre, settled)
    <2>3. actors' = [actors EXCEPT ![a] = q] /\ OnlyActors(now)
      BY <2>1 DEF RecordGoal
    <2>4. q \in Actor /\ q.kind # "none" /\ q.used >= actors[a].used
      <3> HIDE DEF a
      <3>1. QED
        BY <1>0, <2>2, RecordType DEF a
    <2> HIDE DEF q, a
    <2>5. QED
      BY <2>2, <2>3, <2>4, LifeStepInv DEF a
  <1>4. CASE \E a \in LifeActors \cup Goals, cumulative \in Amounts : RecordSampledFloor(a, cumulative, now)
    <2>1. PICK a \in LifeActors \cup Goals, cumulative \in Amounts : RecordSampledFloor(a, cumulative, now)
      BY <1>4
    <2> DEFINE n == Larger(actors[a].used, cumulative)
               q == [actors[a] EXCEPT !.used = n, !.known = FALSE, !.settled = FALSE]
    <2>2. actors[a].used \in Nat /\ actors[a].kind # "none"
      BY <1>0, <2>1 DEF Actor, RecordSampledFloor
    <2>3. n \in Nat /\ n >= actors[a].used
      BY <1>00, <2>2, Comparisons
    <2>4. actors' = [actors EXCEPT ![a] = q] /\ OnlyActors(now)
      BY <1>0, <2>1 DEF RecordSampledFloor
    <2> HIDE DEF n
    <2>5. q \in Actor /\ q.kind = actors[a].kind /\ q.used = n
      BY <1>0, <2>3, Zenon DEF Actor
    <2> HIDE DEF q
    <2>6. QED
      BY <2>2, <2>3, <2>4, <2>5, LifeStepInv
  <1>5. CASE \E g \in Goals, budget \in Amounts, deadline \in Times : AdoptActiveGoal(g, budget, deadline, now)
    <2>1. PICK g \in Goals, budget \in Amounts, deadline \in Times : AdoptActiveGoal(g, budget, deadline, now)
      BY <1>5
    <2> DEFINE a == AliasActor(g)
               quota == budget + aliases[g].pre
               dl == Smaller(deadline, config.dl)
               q == [Absent EXCEPT !.kind = "goal", !.res = quota, !.used = actors[a].used, !.dl = dl]
    <2>2. a \in LifeActors \cup Goals /\ quota \in Nat
      BY <1>00 DEF GInv, TypeOK, LedgerTypeOK, AliasActor
    <2>3. dl \in Nat
      BY <1>00, <2>1, ConfigType, Comparisons DEF AdoptActiveGoal, Lifecycle, GInv, TypeOK, LedgerTypeOK
    <2>4. OnlyActors(now) /\ (actors' = actors \/ actors' = [actors EXCEPT ![a] = q])
      BY <2>1 DEF AdoptActiveGoal
    <2> HIDE DEF a, quota, dl
    <2>5. actors[a].used \in Nat
      BY <1>0, <2>2 DEF Actor
    <2>6. q \in Actor /\ q.kind # "none" /\ q.used = actors[a].used
      BY <2>2, <2>3, <2>5 DEF Absent, Actor
    <2> HIDE DEF q
    <2>7. q.used >= actors[a].used
      BY <2>5, <2>6
    <2>8. QED
      BY <2>2, <2>4, <2>6, <2>7, LifeStepInv
  <1>6. QED
    BY <1>1, <1>2, <1>3, <1>4, <1>5

LEMMA ThreadSteps ==
  ASSUME GInv,
         \/ (BindRequests \/ \E t, source \in Threads : ContinueThread(t, source)) /\ UNCHANGED gateway
         \/ \E t \in Threads, now \in Times : InheritThread(t, now)
  PROVE  GInv' /\ UsageKept
  <1> USE DEF GInv, TypeOK, BoundConfigured
  <1>0. sessions \in [Threads -> Session] /\ config \in Configs \cup {Nobody}
    BY DEF LedgerTypeOK
  <1>1. \A now \in Nat : config # Nobody =>
          Smaller(config.dl, config.sessSec) \in Nat /\ Smaller(config.dl, now + config.sessSec) \in Nat
    <2> SUFFICES ASSUME NEW now \in Nat, config # Nobody
                 PROVE  Smaller(config.dl, config.sessSec) \in Nat /\ Smaller(config.dl, now + config.sessSec) \in Nat
      OBVIOUS
    <2>1. config.dl \in Nat /\ config.sessSec \in Nat
      BY <1>0, ConfigType
    <2>2. now + config.sessSec \in Nat
      BY <2>1
    <2>3. QED
      BY <2>1, <2>2, Comparisons
  <1>2. ASSUME UNCHANGED gateway, UNCHANGED <<config, authorized, actors, cycles, decisions, aliases, completions, plan, observedAt>>,
               bound' \in BOOLEAN, bound' => config # Nobody, sessions' \in [Threads -> Session]
        PROVE  GInv' /\ UsageKept
    <2>1. LedgerTypeOK' /\ BoundConfigured'
      BY <1>2 DEF LedgerTypeOK
    <2>2. QED
      BY <1>2, <2>1, FrameInv
  <1>3. CASE BindRequests /\ UNCHANGED gateway
    <2> DEFINE n == Smaller(config.dl, config.sessSec)
    <2>1. n \in Nat /\ Prior \in Nat
      BY <1>1, <1>3, LedgerAssumption DEF BindRequests
    <2> HIDE DEF n
    <2>2. [NoSession EXCEPT !.on = TRUE, !.prior = Prior, !.dl = n] \in Session
      BY <2>1, Zenon DEF NoSession, Session
    <2>3. sessions' \in [Threads -> Session]
      BY <1>0, <1>3, <2>2 DEF BindRequests, n
    <2>4. QED
      BY <1>2, <1>3, <2>3 DEF BindRequests
  <1>4. ASSUME NEW t \in Threads, NEW source \in Threads, ContinueThread(t, source), UNCHANGED gateway
        PROVE  GInv' /\ UsageKept
    <2> DEFINE q == [NoSession EXCEPT !.on = TRUE, !.dl = sessions[source].dl, !.parent = source,
                                      !.group = Group(source), !.purpose = sessions[source].purpose]
    <2>1. /\ sessions[source].dl \in Nat /\ sessions[source].purpose \in Kinds \cup {Nobody}
          /\ Group(source) \in Threads \cup {Nobody}
      BY <1>0 DEF Session, Group
    <2>2. q \in Session
      <3>1. NoSession \in Session
        BY Zenon DEF NoSession, Session
      <3>2. \A d \in Nat, u, v \in Threads \cup {Nobody}, k \in Kinds \cup {Nobody} :
              [NoSession EXCEPT !.on = TRUE, !.dl = d, !.parent = u, !.group = v, !.purpose = k] \in Session
        BY Zenon DEF NoSession, Session
      <3>3. QED
        BY <2>1, <3>2, Zenon
    <2> HIDE DEF q
    <2>3. sessions' \in [Threads -> Session]
      BY <1>0, <1>4, <2>2 DEF ContinueThread, q
    <2>4. QED
      BY <1>2, <1>4, <2>3 DEF ContinueThread, LedgerTypeOK
  <1>5. ASSUME NEW t \in Threads, NEW now \in Times, InheritThread(t, now)
        PROVE  GInv' /\ UsageKept
    <2> DEFINE n == Smaller(config.dl, now + config.sessSec)
               q == [NewSession(now) EXCEPT !.parent = Parent[t]]
    <2>1. n \in Nat /\ Parent[t] \in Threads
      BY <1>1, <1>5, LedgerAssumption, GatewayAssumption DEF InheritThread, RegisterThread
    <2> HIDE DEF n
    <2>2. q \in Session
      BY <2>1, Zenon DEF NewSession, NoSession, Session, n
    <2> HIDE DEF q
    <2>3. sessions' \in [Threads -> Session]
      BY <1>0, <1>5, <2>2 DEF InheritThread, RegisterThread, q
    <2>4. QED
      BY <1>2, <1>5, <2>3 DEF InheritThread, RegisterThread, LedgerTypeOK
  <1>6. QED
    BY <1>3, <1>4, <1>5

LEMMA LedgerStepInv ==
  ASSUME GInv, LedgerStep, UNCHANGED gateway
  PROVE  GInv' /\ UsageKept
  BY HostSteps, LifeSteps, ThreadSteps DEF LedgerStep

-----------------------------------------------------------------------------
(* Steps of an attempt and of the switch.                                  *)

LEMMA LedgerFrame ==
  ASSUME GInv, UNCHANGED ledger
  PROVE  LedgerTypeOK' /\ AbsentActors' /\ SettledHasProof' /\ BoundConfigured' /\ UsageKept
  <1>1. UsageKept
    BY DEF GInv, TypeOK, LedgerTypeOK, UsageKept, Actor, ledger
  <1>2. LedgerTypeOK'
    BY DEF GInv, TypeOK, LedgerTypeOK, ledger
  <1>3. AbsentActors' /\ SettledHasProof' /\ BoundConfigured'
    BY DEF GInv, AbsentActors, SettledHasProof, BoundConfigured, ledger
  <1>4. QED
    BY <1>1, <1>2, <1>3

\* Attempt steps that leave the ledger alone.
LEMMA QuietSteps ==
  ASSUME GInv,
         \/ \E r \in Requests :
              \/ \E t \in Threads : Enter(r, t)
              \/ Refuse(r)
              \/ \E usage \in Usages : Submit(r, usage)
         \/ Crash
  PROVE  GInv' /\ UsageKept /\ goal' = goal
  <1> SUFFICES UNCHANGED ledger /\ GatewayTypeOK' /\ DecisionFresh' /\ AttemptActors' /\ goal' = goal
    BY LedgerFrame DEF GInv, TypeOK
  <1> USE DEF GInv, TypeOK
  <1>0. Fresh.at = "new" /\ Over.at = "over"
    BY DEF Fresh, Over
  <1>1. ASSUME NEW r \in Requests, NEW t \in Threads, Enter(r, t)
        PROVE  UNCHANGED ledger /\ GatewayTypeOK' /\ DecisionFresh' /\ AttemptActors' /\ goal' = goal
    <2> DEFINE q == [at |-> "deciding", thread |-> t, inactive |-> ~governor]
    <2>0. (~governor) \in BOOLEAN
      BY Zenon
    <2>1. q \in [at : Phases, thread : Threads \cup {Nobody}, inactive : BOOLEAN]
      BY <2>0, Zenon DEF Phases
    <2>2. /\ attempt' = [attempt EXCEPT ![r] = q] /\ lock = Nobody /\ lock' = r
          /\ UNCHANGED <<ledger, governor, goal>> /\ q.at = "deciding" /\ q.thread = t
          /\ q.inactive = ~governor /\ attempt[r].at = "new"
      BY <1>1 DEF Enter
    <2> HIDE DEF q
    <2>3. GatewayTypeOK'
      BY <1>1, <2>1, <2>2 DEF GatewayTypeOK, Enter
    <2>4. Nobody \notin Requests
      BY LedgerAssumption DEF ActorIds
    <2>5. DecisionFresh'
      BY <2>2, <2>4 DEF DecisionFresh, GatewayTypeOK
    <2>6. AttemptActors'
      BY <2>2 DEF AttemptActors, Untouched, GatewayTypeOK, ledger
    <2>7. QED
      BY <2>2, <2>3, <2>5, <2>6
  <1>2. ASSUME NEW r \in Requests, Refuse(r)
        PROVE  UNCHANGED ledger /\ GatewayTypeOK' /\ DecisionFresh' /\ AttemptActors' /\ goal' = goal
    <2>1. Over \in [at : Phases, thread : Threads \cup {Nobody}, inactive : BOOLEAN]
      BY Zenon DEF Over, Phases
    <2>2. /\ attempt' = [attempt EXCEPT ![r] = Over] /\ attempt[r].at = "deciding"
          /\ lock' = (IF lock = r THEN Nobody ELSE lock)
          /\ UNCHANGED <<ledger, governor, goal>>
      BY <1>2 DEF Refuse, Answer
    <2>3. GatewayTypeOK'
      BY <1>2, <2>1, <2>2 DEF GatewayTypeOK, Refuse
    <2>4. DecisionFresh'
      BY <1>0, <2>2 DEF DecisionFresh, GatewayTypeOK
    <2>5. AttemptActors'
      BY <1>0, <2>2 DEF AttemptActors, Untouched, GatewayTypeOK, ledger
    <2>6. QED
      BY <2>2, <2>3, <2>4, <2>5
  <1>3. ASSUME NEW r \in Requests, NEW usage \in Usages, Submit(r, usage)
        PROVE  UNCHANGED ledger /\ GatewayTypeOK' /\ DecisionFresh' /\ AttemptActors' /\ goal' = goal
    <2> DEFINE q == [attempt[r] EXCEPT !.at = "sent"]
    <2>1. q \in [at : Phases, thread : Threads \cup {Nobody}, inactive : BOOLEAN] /\ q.at = "sent"
      BY DEF GatewayTypeOK, Phases
    <2>2. /\ attempt' = [attempt EXCEPT ![r] = q] /\ attempt[r].at = "reserved" /\ lock' = Nobody
          /\ UNCHANGED <<ledger, governor, goal>>
      BY <1>3 DEF Submit, GatewayTypeOK
    <2> HIDE DEF q
    <2>3. usage \in Nat
      BY GatewayAssumption
    <2>4. GatewayTypeOK'
      BY <1>3, <2>1, <2>2, <2>3 DEF GatewayTypeOK, Submit, Submitted
    <2>5. DecisionFresh'
      BY <2>1, <2>2 DEF DecisionFresh, GatewayTypeOK
    <2>6. AttemptActors'
      BY <2>1, <2>2 DEF AttemptActors, Untouched, GatewayTypeOK, ledger
    <2>7. QED
      BY <2>2, <2>4, <2>5, <2>6
  <1>4. ASSUME Crash
        PROVE  UNCHANGED ledger /\ GatewayTypeOK' /\ DecisionFresh' /\ AttemptActors' /\ goal' = goal
    <2>1. Over \in [at : Phases, thread : Threads \cup {Nobody}, inactive : BOOLEAN]
      BY Zenon DEF Over, Phases
    <2>2. /\ attempt' = [r \in Requests |-> IF attempt[r] = Fresh THEN Fresh ELSE Over]
          /\ UNCHANGED <<ledger, governor, goal>> /\ lock' \in {lock, Nobody}
      BY <1>4 DEF Crash
    <2>3. GatewayTypeOK'
      BY <1>4, <2>1, <2>2 DEF GatewayTypeOK, Crash
    <2>4. DecisionFresh' /\ AttemptActors'
      BY <1>0, <2>2 DEF DecisionFresh, AttemptActors, Untouched, ledger
    <2>5. QED
      BY <2>2, <2>3, <2>4
  <1>5. QED
    BY <1>1, <1>2, <1>3, <1>4

LEMMA SessionsForType ==
  ASSUME GInv, bound, NEW t \in Threads, NEW now \in Times
  PROVE  SessionsFor(t, now) \in [Threads -> Session]
  <1> DEFINE n == Smaller(config.dl, now + config.sessSec)
  <1>1. config \in Configs /\ sessions \in [Threads -> Session]
    BY DEF GInv, TypeOK, LedgerTypeOK, BoundConfigured
  <1>2. config.dl \in Nat /\ config.sessSec \in Nat /\ now \in Nat
    BY <1>1, ConfigType, LedgerAssumption
  <1>3. now + config.sessSec \in Nat
    BY <1>2
  <1>4. n \in Nat
    BY <1>2, <1>3, Comparisons
  <1> HIDE DEF n
  <1>5. NewSession(now) \in Session
    BY <1>4, Zenon DEF NewSession, NoSession, Session, n
  <1>6. QED
    BY <1>1, <1>5 DEF SessionsFor

\* The shape of a step that changes the actor of the attempt itself.
LEMMA OwnActor ==
  ASSUME GInv, NEW r \in Requests, NEW q \in Actor, q.kind # "none", q.used >= actors[r].used,
         actors' = [actors EXCEPT ![r] = q]
  PROVE  /\ actors' \in [ActorIds -> Actor] /\ AbsentActors' /\ UsageKept
         /\ actors'[r] = q /\ \A b \in ActorIds : b # r => actors'[b] = actors[b]
  <1>1. r \in ActorIds /\ actors \in [ActorIds -> Actor]
    BY ActorSets DEF GInv, TypeOK, LedgerTypeOK
  <1>2. /\ actors' \in [ActorIds -> Actor] /\ actors'[r] = q
        /\ \A b \in ActorIds : b # r => actors'[b] = actors[b]
    BY <1>1
  <1>3. AbsentActors'
    BY <1>2 DEF GInv, AbsentActors
  <1>4. UsageKept
    BY <1>1, <1>2 DEF UsageKept, Actor
  <1>5. QED
    BY <1>2, <1>3, <1>4

LEMMA AdmitInv ==
  ASSUME GInv, NEW r \in Requests, NEW now \in Times, Admit(r, now)
  PROVE  GInv' /\ UsageKept /\ goal' = goal
  <1> DEFINE t == attempt[r].thread
             ss == SessionsFor(t, now)
             q == [kind |-> "request", res |-> BoundFor(r), sec |-> ReqSeconds, used |-> 0,
                   settled |-> FALSE, known |-> TRUE, dl |-> ss[t].dl, thread |-> t, purpose |-> ss[t].purpose]
             z == [attempt[r] EXCEPT !.at = "reserved"]
  <1>1. attempt[r].at = "deciding" /\ t \in Threads /\ bound /\ actors[r] = Absent /\ Untouched(r)
    BY DEF Admit, ReserveRequest, GInv, AttemptActors
  <1>2. ss \in [Threads -> Session]
    BY <1>1, SessionsForType
  <1>3. ss[t] \in Session /\ ss[t].dl \in Nat /\ ss[t].purpose \in Kinds \cup {Nobody}
    <2> HIDE DEF ss, t
    <2>1. QED
      BY <1>1, <1>2 DEF Session
  <1>4. BoundFor(r) \in Nat /\ ReqSeconds \in Nat
    BY GatewayAssumption DEF BoundFor
  <1>5. /\ actors' = [actors EXCEPT ![r] = q] /\ sessions' = ss
        /\ UNCHANGED <<config, authorized, decisions, aliases, bound, completions>>
        /\ Observe(now)
        /\ cycles' \in {cycles, cycles + 1}
        /\ plan' \in {plan, [plan EXCEPT ![Remediation].started = TRUE]}
        /\ plan' # plan => plan # Nobody
    BY DEF Admit, ReserveRequest
  <1>6. /\ attempt' = [attempt EXCEPT ![r] = z] /\ lock' = lock /\ governor' = governor /\ goal' = goal
        /\ z.at = "reserved" /\ z.inactive = attempt[r].inactive
        /\ z \in [at : Phases, thread : Threads \cup {Nobody}, inactive : BOOLEAN]
    BY DEF Admit, GInv, TypeOK, GatewayTypeOK, Phases
  <1>7. q \in Actor /\ q.kind # "none" /\ q.used = 0 /\ q.settled = FALSE
    <2> HIDE DEF ss, t
    <2>1. QED
      BY <1>1, <1>3, <1>4, Zenon DEF Actor
  <1> HIDE DEF q, z, ss, t
  <1>8. q.used >= actors[r].used
    BY <1>1, <1>7, AbsentType
  <1>9. /\ actors' \in [ActorIds -> Actor] /\ AbsentActors' /\ UsageKept
        /\ actors'[r] = q /\ \A b \in ActorIds : b # r => actors'[b] = actors[b]
    BY <1>5, <1>7, <1>8, OwnActor
  <1>10. \A b \in Requests : b # r => actors'[b] = actors[b]
    BY <1>9, ActorSets
  <1>11. plan' = Nobody \/ plan' \in [Kinds -> Obligation]
    <2>1. ASSUME plan \in [Kinds -> Obligation]
          PROVE  [plan EXCEPT ![Remediation].started = TRUE] \in [Kinds -> Obligation]
      <3>1. [plan[Remediation] EXCEPT !.started = TRUE] \in Obligation
        BY <2>1, LedgerAssumption, Zenon DEF Obligation
      <3>2. QED
        BY <2>1, <3>1
    <2>2. QED
      BY <1>5, <2>1 DEF GInv, TypeOK, LedgerTypeOK
  <1>12. LedgerTypeOK' /\ BoundConfigured'
    <2>1. observedAt' \in Nat
      BY <1>5, ObserveType DEF GInv, TypeOK, LedgerTypeOK
    <2>2. QED
      BY <1>2, <1>5, <1>9, <1>11, <2>1 DEF GInv, TypeOK, LedgerTypeOK, BoundConfigured
  <1>13. GatewayTypeOK'
    BY <1>6 DEF Admit, GInv, TypeOK, GatewayTypeOK
  <1>14. DecisionFresh'
    BY <1>1, <1>6 DEF GInv, TypeOK, GatewayTypeOK, DecisionFresh
  <1>15. AttemptActors'
    BY <1>1, <1>5, <1>6, <1>7, <1>9, <1>10 DEF GInv, TypeOK, GatewayTypeOK, AttemptActors, Untouched
  <1>16. SettledHasProof'
    BY <1>5, <1>7, <1>9, <1>10 DEF GInv, SettledHasProof
  <1>17. QED
    BY <1>6, <1>9, <1>12, <1>13, <1>14, <1>15, <1>16 DEF GInv, TypeOK

LEMMA DenyInv ==
  ASSUME GInv, NEW r \in Requests, NEW now \in Times, Deny(r, now)
  PROVE  GInv' /\ UsageKept /\ governor
  <1>1. attempt[r].at = "deciding" /\ attempt[r].thread \in Threads /\ bound
    BY DEF Deny, DenyRequest, GInv, AttemptActors
  <1>2. governor
    <2>1. ~attempt[r].inactive
      BY DEF Deny, Admitted
    <2>2. QED
      BY <1>1, <2>1 DEF GInv, DecisionFresh, TypeOK, GatewayTypeOK
  <1>3. /\ sessions' \in [Threads -> Session] /\ Observe(now)
        /\ UNCHANGED <<config, authorized, actors, cycles, decisions, aliases, bound, completions, plan>>
    BY <1>1, SessionsForType DEF Deny, DenyRequest
  <1>4. LedgerTypeOK' /\ BoundConfigured'
    <2>1. observedAt' \in Nat
      BY <1>3, ObserveType DEF GInv, TypeOK, LedgerTypeOK
    <2>2. QED
      BY <1>3, <2>1 DEF GInv, TypeOK, LedgerTypeOK, BoundConfigured
  <1>5. Over \in [at : Phases, thread : Threads \cup {Nobody}, inactive : BOOLEAN] /\ Over.at = "over"
    BY Zenon DEF Over, Phases
  <1>6. /\ attempt' = [attempt EXCEPT ![r] = Over] /\ governor' = governor
        /\ lock' = (IF lock = r THEN Nobody ELSE lock)
    BY DEF Deny, Answer
  <1>7. goal' \in {"active", "paused"} /\ pauseVerified' \in BOOLEAN
    BY DEF Deny, PauseGoal, GInv, TypeOK, GatewayTypeOK
  <1>8. GatewayTypeOK'
    BY <1>5, <1>6, <1>7 DEF Deny, GInv, TypeOK, GatewayTypeOK
  <1>9. DecisionFresh' /\ AttemptActors'
    BY <1>1, <1>3, <1>5, <1>6 DEF GInv, TypeOK, GatewayTypeOK, DecisionFresh, AttemptActors, Untouched
  <1>10. AbsentActors' /\ SettledHasProof' /\ UsageKept
    BY <1>3 DEF GInv, TypeOK, LedgerTypeOK, AbsentActors, SettledHasProof, UsageKept, Actor
  <1>11. QED
    BY <1>2, <1>4, <1>8, <1>9, <1>10 DEF GInv, TypeOK

\* Closing an attempt with its usage unknown keeps the reservation and the
\* completions; from "sent" on no part of the invariant asks more of it.
LEMMA UnknownInv ==
  ASSUME GInv, NEW r \in Requests, NEW now \in Times,
         \/ \E usage \in Usages : SubmitFails(r, usage, now)
         \/ Fail(r, now)
  PROVE  GInv' /\ UsageKept /\ goal' = goal
  <1> DEFINE q == [actors[r] EXCEPT !.known = FALSE, !.settled = FALSE]
  <1>1. /\ SettleUnknown(r, now) /\ attempt' = [attempt EXCEPT ![r] = Over]
        /\ lock' \in {lock, Nobody} /\ (lock' # lock => lock = r)
        /\ UNCHANGED <<governor, goal>>
    BY DEF SubmitFails, Fail, Answer
  <1>2. r \in ActorIds /\ actors \in [ActorIds -> Actor] /\ actors[r] \in Actor /\ actors[r].kind = "request"
    BY <1>1, ActorSets DEF SettleUnknown, GInv, TypeOK, LedgerTypeOK
  <1>3. q \in Actor /\ q.kind = actors[r].kind /\ q.used = actors[r].used /\ q.settled = FALSE
    BY <1>2, UpdateFlags, Zenon
  <1>4. actors' = [actors EXCEPT ![r] = q]
    BY <1>1, <1>2 DEF SettleUnknown
  <1> HIDE DEF q
  <1>5. q.used >= actors[r].used /\ q.kind # "none"
    BY <1>2, <1>3 DEF Actor
  <1>6. /\ actors' \in [ActorIds -> Actor] /\ AbsentActors' /\ UsageKept
        /\ actors'[r] = q /\ \A b \in ActorIds : b # r => actors'[b] = actors[b]
    BY <1>3, <1>4, <1>5, OwnActor
  <1>7. \A b \in Requests : b # r => actors'[b] = actors[b]
    BY <1>6, ActorSets
  <1>8. UNCHANGED <<config, authorized, cycles, decisions, aliases, bound, sessions, completions, plan>> /\ observedAt' \in Nat
    BY <1>1, ObserveType DEF SettleUnknown, OnlyActors, GInv, TypeOK, LedgerTypeOK
  <1>9. LedgerTypeOK' /\ BoundConfigured'
    BY <1>6, <1>8 DEF GInv, TypeOK, LedgerTypeOK, BoundConfigured
  <1>10. Over \in [at : Phases, thread : Threads \cup {Nobody}, inactive : BOOLEAN] /\ Over.at = "over"
    BY Zenon DEF Over, Phases
  <1>11. GatewayTypeOK'
    <2>1. sends' \in [Requests -> Nat] /\ billed' \in [Requests -> Nat]
      BY GatewayAssumption DEF SubmitFails, Fail, Submitted, GInv, TypeOK, GatewayTypeOK
    <2>2. UNCHANGED <<revision, copies, switching, pauseVerified>>
      BY DEF SubmitFails, Fail
    <2>3. QED
      BY <1>1, <1>10, <2>1, <2>2 DEF GInv, TypeOK, GatewayTypeOK
  <1>12. DecisionFresh'
    BY <1>1, <1>10, LedgerAssumption DEF GInv, TypeOK, GatewayTypeOK, DecisionFresh, ActorIds
  <1>13. AttemptActors'
    BY <1>1, <1>7, <1>8, <1>10 DEF GInv, TypeOK, GatewayTypeOK, AttemptActors, Untouched
  <1>14. SettledHasProof'
    BY <1>3, <1>6, <1>7, <1>8 DEF GInv, SettledHasProof
  <1>15. QED
    BY <1>1, <1>6, <1>9, <1>11, <1>12, <1>13, <1>14 DEF GInv, TypeOK

\* A completion reaches an attempt that has used nothing and owns no proof.
LEMMA CompleteInv ==
  ASSUME GInv, NEW r \in Requests, NEW response \in Responses, NEW now \in Times,
         NEW outside \in BOOLEAN, Complete(r, response, outside, now)
  PROVE  GInv' /\ UsageKept /\ goal' = goal
  <1> DEFINE tokens == billed[r]
             proof == [actor |-> r, tokens |-> tokens]
             bad == [actors[r] EXCEPT !.used = Larger(actors[r].used, tokens), !.known = FALSE, !.settled = FALSE]
             good == [actors[r] EXCEPT !.used = tokens, !.known = TRUE, !.settled = TRUE]
             z == IF ~attempt[r].inactive /\ (outside \/ ~AccountingKnown')
                  THEN [attempt[r] EXCEPT !.at = "disputed"] ELSE Over
  <1>1. attempt[r].at = "sent" /\ Untouched(r) /\ tokens \in Nat
    BY DEF Complete, GInv, AttemptActors, TypeOK, GatewayTypeOK
  <1>2. r \in ActorIds /\ actors \in [ActorIds -> Actor] /\ actors[r] \in Actor /\ actors[r].kind = "request"
    BY ActorSets DEF Complete, SettleRequest, GInv, TypeOK, LedgerTypeOK
  <1>3. /\ attempt' = [attempt EXCEPT ![r] = z]
        /\ UNCHANGED <<lock, governor, revision, copies, switching, goal, pauseVerified, sends, billed>>
        /\ UNCHANGED <<config, authorized, cycles, decisions, aliases, bound, sessions, plan>> /\ Observe(now)
    BY DEF Complete, SettleRequest
  <1>4. z \in [at : Phases, thread : Threads \cup {Nobody}, inactive : BOOLEAN] /\ z.at \in {"disputed", "over"}
    <2>1. Over \in [at : Phases, thread : Threads \cup {Nobody}, inactive : BOOLEAN] /\ Over.at = "over"
      BY Zenon DEF Over, Phases
    <2>2. [attempt[r] EXCEPT !.at = "disputed"] \in [at : Phases, thread : Threads \cup {Nobody}, inactive : BOOLEAN]
          /\ [attempt[r] EXCEPT !.at = "disputed"].at = "disputed"
      BY DEF GInv, TypeOK, GatewayTypeOK, Phases
    <2>3. QED
      BY <2>1, <2>2
  <1>5. \/ actors' = [actors EXCEPT ![r] = bad] /\ completions' = completions
        \/ /\ actors' = [actors EXCEPT ![r] = good] /\ completions' = [completions EXCEPT ![response] = proof]
           /\ completions[response].actor = Nobody
    <2>1. completions[response] # proof
      BY <1>1 DEF Untouched
    <2>2. QED
      BY <1>2, <2>1 DEF Complete, SettleRequest
  <1>6. bad \in Actor /\ bad.kind = "request" /\ bad.used >= actors[r].used /\ bad.settled = FALSE
    <2> DEFINE n == Larger(actors[r].used, tokens)
    <2>1. n \in Nat /\ n >= actors[r].used
      BY <1>1, <1>2, Comparisons DEF Actor
    <2> HIDE DEF n
    <2>2. [actors[r] EXCEPT !.used = n, !.known = FALSE, !.settled = FALSE] \in Actor
      BY <1>2, <2>1, Zenon DEF Actor
    <2>3. bad = [actors[r] EXCEPT !.used = n, !.known = FALSE, !.settled = FALSE]
      BY DEF n
    <2>4. bad.kind = "request" /\ bad.used = n /\ bad.settled = FALSE
      BY <1>2, <2>3 DEF Actor
    <2>5. QED
      BY <2>1, <2>2, <2>3, <2>4
  <1>7. good \in Actor /\ good.kind = "request" /\ good.used = tokens /\ good.settled = TRUE
    <2> HIDE DEF tokens
    <2>1. good \in Actor
      BY <1>1, <1>2, Zenon DEF Actor
    <2>2. QED
      BY <1>2, <2>1 DEF Actor
  <1>8. good.used >= actors[r].used
    BY <1>1, <1>7 DEF Untouched
  <1>9. proof \in [actor : Requests \cup {Nobody}, tokens : Nat]
    BY <1>1
  <1> HIDE DEF bad, good, z, proof
  <1>10. /\ actors' \in [ActorIds -> Actor] /\ AbsentActors' /\ UsageKept
         /\ \A b \in ActorIds : b # r => actors'[b] = actors[b]
    <2>1. CASE actors' = [actors EXCEPT ![r] = bad]
      BY <1>6, <2>1, OwnActor
    <2>2. CASE actors' = [actors EXCEPT ![r] = good]
      BY <1>7, <1>8, <2>2, OwnActor
    <2>3. QED
      BY <1>5, <2>1, <2>2
  <1>11. \A b \in Requests : b # r => actors'[b] = actors[b]
    BY <1>10, ActorSets
  <1>12. LedgerTypeOK' /\ BoundConfigured'
    <2>1. observedAt' \in Nat
      BY <1>3, ObserveType DEF GInv, TypeOK, LedgerTypeOK
    <2>2. completions' \in [Responses -> [actor : Requests \cup {Nobody}, tokens : Nat]]
      BY <1>5, <1>9 DEF GInv, TypeOK, LedgerTypeOK
    <2>3. QED
      BY <1>3, <1>10, <2>1, <2>2 DEF GInv, TypeOK, LedgerTypeOK, BoundConfigured
  <1>13. GatewayTypeOK'
    BY <1>3, <1>4 DEF GInv, TypeOK, GatewayTypeOK
  <1>14. DecisionFresh'
    BY <1>3, <1>4 DEF GInv, TypeOK, GatewayTypeOK, DecisionFresh
  <1>15. \A b \in Requests : b # r /\ Untouched(b) => Untouched(b)'
    BY <1>5, <1>11 DEF Untouched, proof, GInv, TypeOK, LedgerTypeOK
  <1>16. AttemptActors'
    BY <1>3, <1>4, <1>11, <1>15 DEF GInv, TypeOK, GatewayTypeOK, AttemptActors
  <1>17. SettledHasProof'
    <2>1. CASE actors' = [actors EXCEPT ![r] = bad] /\ completions' = completions
      <3>1. actors'[r] = bad
        BY <1>2, <2>1
      <3>2. QED
        BY <1>6, <1>11, <2>1, <3>1 DEF GInv, SettledHasProof
    <2>2. CASE /\ actors' = [actors EXCEPT ![r] = good] /\ completions' = [completions EXCEPT ![response] = proof]
               /\ completions[response].actor = Nobody
      <3>1. /\ actors'[r] = good /\ completions'[response] = proof
            /\ \A p \in Responses : p # response => completions'[p] = completions[p]
        BY <1>2, <2>2 DEF GInv, TypeOK, LedgerTypeOK
      <3>2. ASSUME NEW b \in Requests, actors'[b].settled
            PROVE  \E p \in Responses : completions'[p] = [actor |-> b, tokens |-> actors'[b].used]
        <4>1. CASE b = r
          BY <1>7, <3>1, <4>1 DEF proof
        <4>2. CASE b # r
          <5>1. actors'[b] = actors[b]
            BY <1>11, <4>2
          <5>2. PICK p \in Responses : completions[p] = [actor |-> b, tokens |-> actors[b].used]
            BY <3>2, <5>1 DEF GInv, SettledHasProof
          <5>3. p # response
            BY <2>2, <5>2, LedgerAssumption DEF ActorIds
          <5>4. QED
            BY <3>1, <5>1, <5>2, <5>3
        <4>3. QED
          BY <4>1, <4>2
      <3>3. proof.actor = r /\ \A p \in Responses : completions[p].actor # r
        BY <1>1 DEF Untouched, proof
      <3>4. \A p, p2 \in Responses :
              completions'[p].actor = completions'[p2].actor /\ completions'[p].actor # Nobody => p = p2
        BY <3>1, <3>3 DEF GInv, SettledHasProof
      <3>5. QED
        BY <3>2, <3>4 DEF SettledHasProof
    <2>3. QED
      BY <1>5, <2>1, <2>2
  <1>18. QED
    BY <1>3, <1>10, <1>12, <1>13, <1>14, <1>16, <1>17 DEF GInv, TypeOK

LEMMA SwitchInv ==
  ASSUME GInv, SwitchStep
  PROVE  GInv' /\ UsageKept /\ (goal = "active" /\ goal' = "paused" => governor)
  <1>1. UNCHANGED <<ledger, attempt, sends, billed>>
    BY DEF SwitchStep, PreservePause, ChangeBegin, ChangeMember, ChangeEnd, GoalResumed
  <1>2. LedgerTypeOK' /\ AbsentActors' /\ SettledHasProof' /\ BoundConfigured' /\ UsageKept
    BY <1>1, LedgerFrame
  <1>3. AttemptActors'
    BY <1>1 DEF GInv, AttemptActors, Untouched, ledger
  <1>4. \A r \in Requests : r # Nobody /\ r # Switch
    BY LedgerAssumption, GatewayAssumption DEF ActorIds
  <1>5. DecisionFresh'
    BY <1>1, <1>4 DEF SwitchStep, PreservePause, ChangeBegin, ChangeMember, ChangeEnd, GoalResumed, GInv, DecisionFresh
  <1>6. GatewayTypeOK'
    <2>1. CASE PreservePause
      BY <1>1, <2>1 DEF PreservePause, PauseGoal, GInv, TypeOK, GatewayTypeOK
    <2>2. CASE \E enabled \in BOOLEAN : ChangeBegin(enabled)
      BY <1>1, <2>2 DEF ChangeBegin, GInv, TypeOK, GatewayTypeOK
    <2>3. CASE \E t \in Members : ChangeMember(t)
      BY <1>1, <2>3 DEF ChangeMember, GInv, TypeOK, GatewayTypeOK
    <2>4. CASE ChangeEnd
      BY <1>1, <2>4 DEF ChangeEnd, GInv, TypeOK, GatewayTypeOK
    <2>5. CASE GoalResumed
      BY <1>1, <2>5 DEF GoalResumed, GInv, TypeOK, GatewayTypeOK
    <2>6. QED
      BY <2>1, <2>2, <2>3, <2>4, <2>5 DEF SwitchStep
  <1>7. goal = "active" /\ goal' = "paused" => governor
    BY DEF SwitchStep, PreservePause, ChangeBegin, ChangeMember, ChangeEnd, GoalResumed
  <1>8. QED
    BY <1>2, <1>3, <1>5, <1>6, <1>7 DEF GInv, TypeOK

-----------------------------------------------------------------------------
LEMMA InitInv ==
  ASSUME Init
  PROVE  GInv
  <1> USE DEF Init, LedgerInit
  <1>1. LedgerTypeOK
    <2>1. NoSession \in Session
      BY Zenon DEF NoSession, Session
    <2>2. Absent \in Actor
      BY AbsentType
    <2>3. QED
      BY <2>1, <2>2 DEF LedgerTypeOK
  <1>2. GatewayTypeOK
    <2>1. Fresh \in [at : Phases, thread : Threads \cup {Nobody}, inactive : BOOLEAN]
      BY Zenon DEF Fresh, Phases
    <2>2. QED
      BY <2>1 DEF GatewayTypeOK
  <1>3. \A r \in Requests : attempt[r].at = "new" /\ actors[r] = Absent /\ r # Nobody
    BY ActorSets, LedgerAssumption DEF Fresh, ActorIds
  <1>4. \A r \in Requests : Untouched(r)
    <2>1. \A p \in Responses : completions[p].actor = Nobody
      OBVIOUS
    <2>2. Absent.used = 0 /\ ~Absent.settled
      BY Zenon DEF Absent
    <2>3. QED
      BY <1>3, <2>1, <2>2 DEF Untouched
  <1>5. DecisionFresh /\ AttemptActors
    BY <1>3, <1>4 DEF DecisionFresh, AttemptActors
  <1>6. AbsentActors /\ BoundConfigured
    BY DEF AbsentActors, BoundConfigured
  <1>7. SettledHasProof
    BY <1>4 DEF SettledHasProof, Untouched
  <1>8. QED
    BY <1>1, <1>2, <1>5, <1>6, <1>7 DEF GInv, TypeOK

\* One step of the gateway, the switch or the ledger's other owners.
LEMMA NextInv ==
  ASSUME GInv, [Next]_vars
  PROVE  GInv' /\ UsageKept /\ (goal = "active" /\ goal' = "paused" => governor)
  <1>1. CASE UNCHANGED vars
    <2>1. UNCHANGED <<ledger, gateway>> /\ UNCHANGED <<goal, actors, completions>>
      BY <1>1 DEF vars, ledger, gateway
    <2>2. QED
      BY <2>1, LedgerFrame, FrameInv DEF GInv, TypeOK
  <1>2. CASE LedgerStep /\ UNCHANGED gateway
    BY <1>2, LedgerStepInv DEF gateway
  <1>3. CASE \E r \in Requests : AttemptStep(r)
    <2>1. PICK r \in Requests : AttemptStep(r)
      BY <1>3
    <2>2. QED
      BY <2>1, QuietSteps, AdmitInv, DenyInv, UnknownInv, CompleteInv DEF AttemptStep
  <1>4. CASE \E t \in Threads, now \in Times : InheritThread(t, now)
    BY <1>4, ThreadSteps DEF InheritThread, gateway
  <1>5. CASE Crash
    BY <1>5, QuietSteps
  <1>6. CASE SwitchStep
    BY <1>6, SwitchInv
  <1>7. QED
    BY <1>1, <1>2, <1>3, <1>4, <1>5, <1>6 DEF Next

\* The inductive invariant of the gateway over the ledger.
THEOREM GatewayInvariant == Spec => []GInv
  <1>1. Init => GInv
    BY InitInv
  <1>2. GInv /\ [Next]_vars => GInv'
    BY NextInv
  <1>3. QED
    BY <1>1, <1>2, PTL DEF Spec

\* Every reachable ledger file and gateway state is well formed.
THEOREM GatewayTypeCorrect == Spec => []TypeOK
  <1>1. GInv => TypeOK
    BY DEF GInv
  <1>2. QED
    BY <1>1, GatewayInvariant, PTL

\* settle_request closes an attempt only on the one completion that proves
\* exactly its charge, and a response id never pays for two attempts.
THEOREM SettlementSound == Spec => []SettledHasProof
  <1>1. GInv => SettledHasProof
    BY DEF GInv
  <1>2. QED
    BY <1>1, GatewayInvariant, PTL

\* Whoever decides a request under the receipt lock uses the switch position
\* the allocation has at that moment.
THEOREM SwitchReadFresh == Spec => []DecisionFresh
  <1>1. GInv => DecisionFresh
    BY DEF GInv
  <1>2. QED
    BY <1>1, GatewayInvariant, PTL

\* Observed usage never shrinks, whoever writes the ledger.
THEOREM UsageMonotone == Spec => UsageNeverForgotten
  <1>1. GInv /\ [Next]_vars => [\A a \in ActorIds : actors'[a].used >= actors[a].used]_vars
    BY NextInv DEF UsageKept
  <1>2. QED
    BY <1>1, GatewayInvariant, PTL DEF Spec, UsageNeverForgotten

\* An admission intervention pauses the registered goal only while the
\* operator's switch is on.
THEOREM PauseGoverned == Spec => PauseOnlyWhileGoverned
  <1>1. GInv /\ [Next]_vars => [goal = "active" /\ goal' = "paused" => governor]_vars
    BY NextInv
  <1>2. QED
    BY <1>1, GatewayInvariant, PTL DEF Spec, PauseOnlyWhileGoverned

-----------------------------------------------------------------------------
(* The totals of the ledger, as functions of the actor records.            *)

EnrolledIn(A) == {a \in ActorIds : A[a].kind # "none"}

ChargesOf(A) ==
  [a \in ActorIds |-> IF A[a].settled THEN A[a].used ELSE Larger(A[a].used, A[a].res)]

\* Everything the ledger counts against the token limit.
Load(A) == Prior + SumFunctionOnSet(ChargesOf(A), EnrolledIn(A))

WorkersIn(A, k) == {a \in EnrolledIn(A) : A[a].purpose = k}

ProtectedIn(A, P) ==
  [k \in Kinds |-> IF P[k].state = "completed" THEN 0
                   ELSE Minus(OblTokens[k], SumFunctionOnSet(ChargesOf(A), WorkersIn(A, k)))]

LEMMA ChargeType ==
  ASSUME NEW A \in [ActorIds -> Actor]
  PROVE  /\ EnrolledIn(A) \subseteq ActorIds
         /\ \A a \in ActorIds : /\ ChargesOf(A)[a] \in Nat
                                /\ A[a].settled => ChargesOf(A)[a] = A[a].used
                                /\ ~A[a].settled => ChargesOf(A)[a] >= A[a].res /\ ChargesOf(A)[a] >= A[a].used
                                /\ ~A[a].settled /\ A[a].used <= A[a].res => ChargesOf(A)[a] = A[a].res
  <1>1. \A a \in ActorIds : A[a].used \in Nat /\ A[a].res \in Nat
    BY DEF Actor
  <1>2. QED
    BY <1>1 DEF ChargesOf, EnrolledIn, Larger

\* tokens_used plus tokens_reserved is the sum of what the actors count for.
LEMMA LoadOf ==
  ASSUME NEW A \in [ActorIds -> Actor], IsFiniteSet(EnrolledIn(A))
  PROVE  /\ Load(A) \in Nat
         /\ Prior + SumFunctionOnSet([a \in ActorIds |-> A[a].used], EnrolledIn(A))
              + SumFunctionOnSet([a \in ActorIds |-> Minus(A[a].res, A[a].used)],
                                 {a \in EnrolledIn(A) : ~A[a].settled}) = Load(A)
  <1> DEFINE e == ChargesOf(A)
             f == [a \in ActorIds |-> A[a].used]
             g == [a \in ActorIds |-> Minus(A[a].res, A[a].used)]
             S == EnrolledIn(A)
             T == {a \in S : ~A[a].settled}
  <1>1. \A a \in ActorIds : A[a].used \in Nat /\ A[a].res \in Nat
    BY DEF Actor
  <1>2. \A a \in ActorIds : e[a] \in Nat /\ f[a] \in Nat /\ g[a] \in Nat
    BY <1>1, ChargeType DEF Minus
  <1>3. \A a \in S : Share(e, S, a) = Share(f, S, a) + Share(g, T, a)
    <2> SUFFICES ASSUME NEW a \in S PROVE Share(e, S, a) = Share(f, S, a) + Share(g, T, a)
      OBVIOUS
    <2>1. a \in ActorIds
      BY DEF EnrolledIn
    <2>2. CASE A[a].settled
      <3>1. a \notin T /\ e[a] = f[a]
        BY <2>1, <2>2 DEF ChargesOf
      <3>2. QED
        BY <1>2, <2>1, <3>1 DEF Share
    <2>3. CASE ~A[a].settled
      <3>1. a \in T
        BY <2>3
      <3>2. e[a] = f[a] + g[a]
        <4>1. e[a] = Larger(A[a].used, A[a].res) /\ f[a] = A[a].used /\ g[a] = Minus(A[a].res, A[a].used)
          BY <2>1, <2>3 DEF ChargesOf
        <4>2. QED
          BY <1>1, <2>1, <4>1 DEF Larger, Minus
      <3> HIDE DEF e, f, g, T
      <3>3. QED
        BY <1>2, <2>1, <3>1, <3>2 DEF Share
    <2>4. QED
      BY <2>2, <2>3
  <1>4. S \subseteq ActorIds /\ T \subseteq S /\ IsFiniteSet(S) /\ IsFiniteSet(T)
    <2>1. S \subseteq ActorIds /\ T \subseteq S
      BY DEF EnrolledIn
    <2>2. QED
      BY <2>1, FS_Subset
  <1> HIDE DEF e, f, g, S, T
  <1>5. SumFunctionOnSet(e, S) = SumFunctionOnSet(f, S) + SumFunctionOnSet(g, T)
    BY <1>2, <1>3, <1>4, SumSplit
  <1>6. SumFunctionOnSet(e, S) \in Nat /\ SumFunctionOnSet(f, S) \in Nat /\ SumFunctionOnSet(g, T) \in Nat
    BY <1>2, <1>4, SumNat
  <1>7. Prior \in Nat
    BY LedgerAssumption
  <1>8. Prior + SumFunctionOnSet(f, S) + SumFunctionOnSet(g, T) = Prior + SumFunctionOnSet(e, S)
    BY <1>5, <1>6, <1>7
  <1>9. QED
    BY <1>6, <1>7, <1>8 DEF Load, e, f, g, S, T

LEMMA LoadNow ==
  ASSUME GInv, IsFiniteSet(Enrolled)
  PROVE  /\ Enrolled = EnrolledIn(actors) /\ Charges = ChargesOf(actors)
         /\ TokensUsed + TokensReserved = Load(actors) /\ Load(actors) \in Nat
  <1>1. actors \in [ActorIds -> Actor]
    BY DEF GInv, TypeOK, LedgerTypeOK
  <1>2. Enrolled = EnrolledIn(actors) /\ Charges = ChargesOf(actors)
    BY DEF Enrolled, EnrolledIn, Charges, ChargesOf
  <1>3. QED
    BY <1>1, <1>2, LoadOf DEF TokensUsed, TokensReserved

LEMMA LoadNext ==
  ASSUME GInv', IsFiniteSet(Enrolled')
  PROVE  /\ Enrolled' = EnrolledIn(actors') /\ Charges' = ChargesOf(actors')
         /\ (TokensUsed + TokensReserved)' = Load(actors') /\ Load(actors') \in Nat
  <1>1. actors' \in [ActorIds -> Actor]
    BY DEF GInv, TypeOK, LedgerTypeOK
  <1>2. Enrolled' = EnrolledIn(actors') /\ Charges' = ChargesOf(actors')
    BY DEF Enrolled, EnrolledIn, Charges, ChargesOf
  <1>3. QED
    BY <1>1, <1>2, LoadOf DEF TokensUsed, TokensReserved

\* An actor joins the ledger with a reservation it has not used.
LEMMA JoinLoad ==
  ASSUME NEW A \in [ActorIds -> Actor], NEW B \in [ActorIds -> Actor], IsFiniteSet(EnrolledIn(A)),
         NEW a \in ActorIds, A[a].kind = "none", B[a].kind # "none", ~B[a].settled, B[a].used = 0,
         \A b \in ActorIds : b # a => B[b] = A[b]
  PROVE  /\ EnrolledIn(B) = EnrolledIn(A) \cup {a} /\ a \notin EnrolledIn(A)
         /\ IsFiniteSet(EnrolledIn(B))
         /\ ChargesOf(B)[a] = B[a].res
         /\ \A b \in ActorIds : b # a => ChargesOf(B)[b] = ChargesOf(A)[b]
         /\ Load(B) = Load(A) + B[a].res
  <1>1. EnrolledIn(B) = EnrolledIn(A) \cup {a} /\ a \notin EnrolledIn(A)
    BY DEF EnrolledIn
  <1>2. IsFiniteSet(EnrolledIn(B))
    BY <1>1, FS_AddElement
  <1>3. B[a].res \in Nat /\ B[a].used <= B[a].res
    BY DEF Actor
  <1>4. ChargesOf(B)[a] = B[a].res
    BY <1>3, ChargeType
  <1>5. \A b \in ActorIds : b # a => ChargesOf(B)[b] = ChargesOf(A)[b]
    BY DEF ChargesOf
  <1>6. EnrolledIn(A) \subseteq ActorIds /\ \A b \in ActorIds : ChargesOf(A)[b] \in Nat
    BY ChargeType
  <1>7. SumFunctionOnSet(ChargesOf(B), EnrolledIn(A) \cup {a}) = SumFunctionOnSet(ChargesOf(A), EnrolledIn(A)) + B[a].res
    <2>1. ChargesOf(B)[a] \in Nat
      BY <1>3, <1>4
    <2>2. \A b \in EnrolledIn(A) : ChargesOf(A)[b] \in Nat /\ ChargesOf(B)[b] = ChargesOf(A)[b]
      BY <1>1, <1>5, <1>6
    <2>3. SumFunctionOnSet(ChargesOf(B), EnrolledIn(A) \cup {a})
            = SumFunctionOnSet(ChargesOf(A), EnrolledIn(A)) + ChargesOf(B)[a]
      BY <1>1, <2>1, <2>2, SumAdd
    <2>4. QED
      BY <1>4, <2>3
  <1>8. SumFunctionOnSet(ChargesOf(A), EnrolledIn(A)) \in Nat /\ Prior \in Nat
    BY <1>6, SumNat, LedgerAssumption
  <1>9. Load(B) = Load(A) + B[a].res
    BY <1>1, <1>3, <1>7, <1>8 DEF Load
  <1>10. QED
    BY <1>1, <1>2, <1>4, <1>5, <1>9

\* An enrolled actor changes its usage or its settlement.
LEMMA ChangeLoad ==
  ASSUME NEW A \in [ActorIds -> Actor], NEW B \in [ActorIds -> Actor], IsFiniteSet(EnrolledIn(A)),
         NEW a \in ActorIds, A[a].kind # "none", B[a].kind # "none",
         \A b \in ActorIds : b # a => B[b] = A[b]
  PROVE  /\ EnrolledIn(B) = EnrolledIn(A)
         /\ \A b \in ActorIds : b # a => ChargesOf(B)[b] = ChargesOf(A)[b]
         /\ Load(B) + ChargesOf(A)[a] = Load(A) + ChargesOf(B)[a]
  <1>1. EnrolledIn(B) = EnrolledIn(A) /\ a \in EnrolledIn(A)
    BY DEF EnrolledIn
  <1>2. \A b \in ActorIds : b # a => ChargesOf(B)[b] = ChargesOf(A)[b]
    BY DEF ChargesOf
  <1>3. EnrolledIn(A) \subseteq ActorIds /\ \A b \in ActorIds : ChargesOf(A)[b] \in Nat /\ ChargesOf(B)[b] \in Nat
    BY ChargeType
  <1>4. SumFunctionOnSet(ChargesOf(B), EnrolledIn(A)) + ChargesOf(A)[a] = SumFunctionOnSet(ChargesOf(A), EnrolledIn(A)) + ChargesOf(B)[a]
    BY <1>1, <1>2, <1>3, SumChange
  <1>5. SumFunctionOnSet(ChargesOf(A), EnrolledIn(A)) \in Nat /\ SumFunctionOnSet(ChargesOf(B), EnrolledIn(A)) \in Nat /\ Prior \in Nat
    BY <1>3, SumNat, LedgerAssumption
  <1>6. Load(B) + ChargesOf(A)[a] = Load(A) + ChargesOf(B)[a]
    BY <1>1, <1>3, <1>4, <1>5 DEF Load
  <1>7. QED
    BY <1>1, <1>2, <1>6
-----------------------------------------------------------------------------
(* The invariant of the allowance.                                         *)

Governeds == {r \in Requests : Governed(r)}

Proven(r) == \E p \in Responses : completions[p].actor = r

\* The most a governed attempt may have been billed, as far as the ledger can
\* tell: the contract's bound until a completion proves less.
Exposure == [r \in Requests |-> IF Proven(r) THEN Smaller(billed[r], ReqBound) ELSE ReqBound]

OpenSessions == {t \in Threads : sessions[t].on}

Spent(t) == {r \in Requests : Governed(r) /\ Group(actors[r].thread) = t}

Family(t) == {u \in Threads : Group(u) = t}

Priors == [t \in Threads |-> sessions[t].prior]

\* Only finitely many records exist at a time, however many may ever exist.
LedgerFinite == IsFiniteSet(Enrolled) /\ IsFiniteSet(authorized) /\ IsFiniteSet(OpenSessions)

ConfigAuthorized == IF config = Nobody THEN authorized = {} ELSE config \in authorized

RequestTerms ==
  \A r \in Requests :
    /\ actors[r].kind \in {"none", "request"}
    /\ Governed(r) => actors[r].res = ReqBound /\ actors[r].thread \in OpenSessions
    /\ Proven(r) => actors[r].kind = "request"
    /\ attempt[r].at \in {"reserved", "sent"} => actors[r].kind = "request" /\ actors[r].known
    /\ actors[r].known /\ actors[r].res > 0 => actors[r].used <= actors[r].res

ProofsBilled ==
  \A p \in Responses, r \in Requests : completions[p].actor = r => completions[p].tokens = billed[r]

ClosedSessions == \A t \in Threads : ~sessions[t].on => sessions[t].prior = 0 /\ sessions[t].group = Nobody

\* Once the requests are bound no lifecycle actor is in the ledger.
OneOwner == bound => \A a \in LifeActors \cup Goals : actors[a].kind = "none"

PlanBound == plan # Nobody => bound

Records == /\ LedgerFinite /\ ConfigAuthorized /\ RequestTerms /\ ProofsBilled
           /\ ClosedSessions /\ OneOwner /\ PlanBound

WithinCap ==
  Governeds # {} => \E c \in authorized : Prior + SumFunctionOnSet(Exposure, Governeds) <= c.tok

SessionsWithinCap ==
  \A t \in Threads : Spent(t) # {} =>
    \E c \in authorized : SumFunctionOnSet(Exposure, Spent(t)) + SumFunctionOnSet(Priors, Family(t)) <= c.sessTok

\* While every governed attempt is accounted for, an open one keeps the whole
\* load within the limit in force: only then does a settlement free what it
\* leaves unused.
KnownWithinLimit ==
  /\ bound /\ AccountingKnown
  /\ \A a \in Enrolled : actors[a].res > 0
  /\ \E a \in Enrolled : ~actors[a].settled
  => Load(actors) <= config.tok

BInv == Records /\ WithinCap /\ SessionsWithinCap /\ KnownWithinLimit

LEMMA ConfigLimits ==
  ASSUME NEW c \in Configs
  PROVE  c.tok \in Nat /\ c.sessTok \in Nat /\ c.dl \in Nat
  BY LedgerAssumption

LEMMA ExposureNow ==
  ASSUME GInv, NEW r \in Requests
  PROVE  /\ Exposure[r] \in Nat /\ Exposure[r] <= ReqBound
         /\ Proven(r) => Exposure[r] <= billed[r]
         /\ billed[r] <= ReqBound => billed[r] <= Exposure[r]
  <1>1. billed[r] \in Nat /\ ReqBound \in Nat
    BY GatewayAssumption DEF GInv, TypeOK, GatewayTypeOK
  <1>2. QED
    BY <1>1 DEF Exposure, Smaller

LEMMA ExposureNext ==
  ASSUME GInv, GInv', NEW r \in Requests, Proven(r) => Proven(r)' /\ billed'[r] = billed[r]
  PROVE  Exposure'[r] \in Nat /\ Exposure'[r] <= Exposure[r]
  <1>1. billed[r] \in Nat /\ billed'[r] \in Nat /\ ReqBound \in Nat
    BY GatewayAssumption DEF GInv, TypeOK, GatewayTypeOK
  <1>2. CASE Proven(r)
    BY <1>1, <1>2 DEF Exposure, Smaller
  <1>3. CASE ~Proven(r)
    BY <1>1, <1>3 DEF Exposure, Smaller
  <1>4. QED
    BY <1>2, <1>3

\* A governed attempt never counts for less than its exposure.
LEMMA ChargeCovers ==
  ASSUME GInv, Records, NEW r \in Governeds
  PROVE  /\ r \in Enrolled /\ r \in ActorIds /\ Exposure[r] <= Charges[r]
         /\ actors[r].thread \in OpenSessions
  <1>1. r \in Requests /\ r \in ActorIds /\ actors[r].kind = "request" /\ actors[r].res = ReqBound
        /\ actors[r].thread \in OpenSessions
    BY ActorSets DEF Records, RequestTerms, Governeds, Governed
  <1>2. actors \in [ActorIds -> Actor] /\ billed[r] \in Nat /\ ReqBound \in Nat
    BY <1>1, GatewayAssumption DEF GInv, TypeOK, GatewayTypeOK, LedgerTypeOK
  <1>3. Charges = ChargesOf(actors)
    BY DEF Charges, ChargesOf
  <1>4. CASE actors[r].settled
    <2>1. PICK p \in Responses : completions[p] = [actor |-> r, tokens |-> actors[r].used]
      BY <1>1, <1>4 DEF GInv, SettledHasProof
    <2>2. completions[p].actor = r /\ completions[p].tokens = actors[r].used
      BY <2>1
    <2>3. Proven(r) /\ actors[r].used = billed[r]
      BY <1>1, <2>2 DEF Proven, Records, ProofsBilled
    <2>4. QED
      BY <1>1, <1>2, <1>3, <1>4, <2>3, ChargeType, ExposureNow DEF Enrolled
  <1>5. CASE ~actors[r].settled
    BY <1>1, <1>2, <1>3, <1>5, ChargeType, ExposureNow DEF Enrolled
  <1>6. QED
    BY <1>4, <1>5

LEMMA GovernedsFinite ==
  ASSUME GInv, Records
  PROVE  /\ IsFiniteSet(Governeds) /\ Governeds \subseteq Requests /\ Governeds \subseteq Enrolled
         /\ \A t \in Threads : Spent(t) \subseteq Governeds /\ IsFiniteSet(Spent(t))
  <1>1. Governeds \subseteq Enrolled /\ Governeds \subseteq Requests
    BY ChargeCovers DEF Governeds
  <1>2. \A t \in Threads : Spent(t) \subseteq Governeds
    BY DEF Spent, Governeds
  <1>3. IsFiniteSet(Governeds)
    BY <1>1, FS_Subset DEF Records, LedgerFinite
  <1>4. QED
    BY <1>1, <1>2, <1>3, FS_Subset

\* A group is the thread itself and sessions that are open.
LEMMA FamilyFinite ==
  ASSUME GInv, Records, NEW t \in Threads
  PROVE  IsFiniteSet(Family(t)) /\ \A u \in Threads : Priors[u] \in Nat
  <1>1. Family(t) \subseteq OpenSessions \cup {t}
    BY DEF Records, ClosedSessions, Family, Group, OpenSessions
  <1>2. IsFiniteSet(OpenSessions \cup {t})
    BY FS_AddElement DEF Records, LedgerFinite
  <1>3. \A u \in Threads : Priors[u] \in Nat
    BY DEF GInv, TypeOK, LedgerTypeOK, Session, Priors
  <1>4. QED
    BY <1>1, <1>2, <1>3, FS_Subset

LEMMA FamilyFiniteNext ==
  ASSUME GInv', Records', NEW t \in Threads
  PROVE  IsFiniteSet(Family(t)') /\ \A u \in Threads : Priors'[u] \in Nat
  <1>1. Family(t)' \subseteq OpenSessions' \cup {t}
    BY DEF Records, ClosedSessions, Family, Group, OpenSessions
  <1>2. IsFiniteSet(OpenSessions' \cup {t})
    BY FS_AddElement DEF Records, LedgerFinite
  <1>3. \A u \in Threads : Priors'[u] \in Nat
    BY DEF GInv, TypeOK, LedgerTypeOK, Session, Priors
  <1>4. QED
    BY <1>1, <1>2, <1>3, FS_Subset

\* Completions accumulate and a bill is fixed once it is proven, so exposures
\* only shrink.
BillsKept == \A r \in Requests : Proven(r) => Proven(r)' /\ billed'[r] = billed[r]

LEMMA ExposureShrinks ==
  ASSUME GInv, GInv', BillsKept, NEW S, IsFiniteSet(S), S \subseteq Requests
  PROVE  /\ SumFunctionOnSet(Exposure', S) <= SumFunctionOnSet(Exposure, S)
         /\ SumFunctionOnSet(Exposure', S) \in Nat /\ SumFunctionOnSet(Exposure, S) \in Nat
  <1>1. \A r \in S : Exposure[r] \in Nat /\ Exposure'[r] \in Nat /\ Exposure'[r] <= Exposure[r]
    BY ExposureNow, ExposureNext DEF BillsKept
  <1>2. \A r \in S : Share(Exposure', S, r) <= Share(Exposure, S, r)
    BY <1>1 DEF Share
  <1>3. QED
    BY <1>1, <1>2, SumMonotone, SumNat

\* A session that joins a group brings no usage of its own with it.
SessionsKept ==
  \A t \in Threads : /\ sessions'[t].prior = sessions[t].prior
                     /\ sessions[t].on => sessions'[t].on /\ Group(t)' = Group(t)

LEMMA FamilyShrinks ==
  ASSUME GInv, GInv', Records, Records', SessionsKept, NEW t \in Threads
  PROVE  /\ SumFunctionOnSet(Priors', Family(t)') <= SumFunctionOnSet(Priors, Family(t))
         /\ SumFunctionOnSet(Priors', Family(t)') \in Nat /\ SumFunctionOnSet(Priors, Family(t)) \in Nat
  <1> DEFINE U == Family(t) \cup Family(t)'
  <1>1. /\ IsFiniteSet(Family(t)) /\ IsFiniteSet(Family(t)')
        /\ \A u \in Threads : Priors[u] \in Nat /\ Priors'[u] \in Nat
    BY FamilyFinite, FamilyFiniteNext
  <1>2. U \subseteq Threads /\ IsFiniteSet(U)
    BY <1>1, FS_Union DEF Family
  <1>3. \A u \in Threads : Priors'[u] = Priors[u] /\ (~sessions[u].on => Priors[u] = 0)
    BY DEF Priors, Records, ClosedSessions, SessionsKept
  <1>4. \A u \in Threads : sessions[u].on => (u \in Family(t)' <=> u \in Family(t))
    BY DEF Family, SessionsKept
  <1>5. \A u \in U : Share(Priors', Family(t)', u) <= Share(Priors, Family(t), u)
    BY <1>1, <1>2, <1>3, <1>4 DEF Share
  <1>6. SumFunctionOnSet(Priors', Family(t)') <= SumFunctionOnSet(Priors, Family(t))
    <2>1. /\ Family(t) \in SUBSET U /\ Family(t)' \in SUBSET U
          /\ \A u \in Family(t) : Priors[u] \in Nat
          /\ \A u \in Family(t)' : Priors'[u] \in Nat
      BY <1>1, <1>2
    <2> HIDE DEF U
    <2>2. QED
      BY <1>2, <1>5, <2>1, SumMonotone
  <1>7. QED
    BY <1>1, <1>2, <1>6, SumNat

\* A governed attempt stays in the group its thread had.
LEMMA GroupsKept ==
  ASSUME Records, SessionsKept, NEW r \in Requests, Governed(r), actors'[r].thread = actors[r].thread
  PROVE  Group(actors[r].thread)' = Group(actors[r].thread)
  <1>1. actors[r].thread \in Threads /\ sessions[actors[r].thread].on
    BY DEF Records, RequestTerms, OpenSessions
  <1>2. QED
    BY <1>1 DEF Group, SessionsKept

\* The part of SessionsWithinCap about a thread whose group admits nobody.
LEMMA SessionFrame ==
  ASSUME GInv, GInv', Records, Records', SessionsWithinCap, BillsKept, SessionsKept,
         NEW t \in Threads, Spent(t)' = Spent(t), Spent(t) # {}
  PROVE  \E c \in authorized :
           SumFunctionOnSet(Exposure', Spent(t)') + SumFunctionOnSet(Priors', Family(t)') <= c.sessTok
  <1>1. PICK c \in authorized :
          SumFunctionOnSet(Exposure, Spent(t)) + SumFunctionOnSet(Priors, Family(t)) <= c.sessTok
    BY DEF SessionsWithinCap
  <1>2. c.sessTok \in Nat
    BY ConfigLimits DEF GInv, TypeOK, LedgerTypeOK
  <1>3. /\ SumFunctionOnSet(Exposure', Spent(t)) <= SumFunctionOnSet(Exposure, Spent(t))
        /\ SumFunctionOnSet(Exposure', Spent(t)) \in Nat /\ SumFunctionOnSet(Exposure, Spent(t)) \in Nat
    BY ExposureShrinks, GovernedsFinite
  <1>4. /\ SumFunctionOnSet(Priors', Family(t)') <= SumFunctionOnSet(Priors, Family(t))
        /\ SumFunctionOnSet(Priors', Family(t)') \in Nat /\ SumFunctionOnSet(Priors, Family(t)) \in Nat
    BY FamilyShrinks
  <1>5. QED
    BY <1>1, <1>2, <1>3, <1>4

\* Steps that admit no governed attempt.
LEMMA CapFrame ==
  ASSUME GInv, GInv', Records, Records', WithinCap, SessionsWithinCap, BillsKept, SessionsKept,
         \A r \in Requests : /\ Governed(r)' <=> Governed(r)
                             /\ Governed(r) => actors'[r].thread = actors[r].thread,
         authorized \subseteq authorized'
  PROVE  WithinCap' /\ SessionsWithinCap'
  <1>1. Governeds' = Governeds
    BY DEF Governeds
  <1>2. WithinCap'
    <2> SUFFICES ASSUME Governeds # {}
                 PROVE  \E c \in authorized : Prior + SumFunctionOnSet(Exposure', Governeds) <= c.tok
      BY <1>1 DEF WithinCap
    <2>1. PICK c \in authorized : Prior + SumFunctionOnSet(Exposure, Governeds) <= c.tok
      BY DEF WithinCap
    <2>2. /\ SumFunctionOnSet(Exposure', Governeds) <= SumFunctionOnSet(Exposure, Governeds)
          /\ SumFunctionOnSet(Exposure', Governeds) \in Nat /\ SumFunctionOnSet(Exposure, Governeds) \in Nat
      BY ExposureShrinks, GovernedsFinite
    <2>3. c.tok \in Nat /\ Prior \in Nat
      BY ConfigLimits, LedgerAssumption DEF GInv, TypeOK, LedgerTypeOK
    <2>4. QED
      BY <2>1, <2>2, <2>3
  <1>3. SessionsWithinCap'
    <2> SUFFICES ASSUME NEW t \in Threads, Spent(t)' # {}
                 PROVE  \E c \in authorized :
                          SumFunctionOnSet(Exposure', Spent(t)') + SumFunctionOnSet(Priors', Family(t)') <= c.sessTok
      BY DEF SessionsWithinCap
    <2>1. Spent(t)' = Spent(t)
      BY GroupsKept DEF Spent
    <2>2. QED
      BY <2>1, SessionFrame
  <1>4. QED
    BY <1>2, <1>3

-----------------------------------------------------------------------------
(* The completion plan's protected tokens.                                 *)

\* What ProtectionKept asks of one step.
Kept ==
  /\ plan # Nobody /\ TokenFeasible
  /\ AccountingKnown'
  /\ config' = config
  /\ \A a \in Enrolled' : actors'[a].res > 0
  => TokenFeasible'

LEMMA WorkersFinite ==
  ASSUME NEW A \in [ActorIds -> Actor], IsFiniteSet(EnrolledIn(A)), NEW k
  PROVE  /\ IsFiniteSet(WorkersIn(A, k)) /\ WorkersIn(A, k) \subseteq ActorIds
         /\ SumFunctionOnSet(ChargesOf(A), WorkersIn(A, k)) \in Nat
  <1>1. WorkersIn(A, k) \subseteq EnrolledIn(A)
    BY DEF WorkersIn
  <1>2. IsFiniteSet(WorkersIn(A, k)) /\ WorkersIn(A, k) \subseteq ActorIds
    BY <1>1, ChargeType, FS_Subset
  <1>3. \A a \in WorkersIn(A, k) : ChargesOf(A)[a] \in Nat
    BY <1>2, ChargeType
  <1>4. QED
    BY <1>2, <1>3, SumNat

LEMMA ProtectedType ==
  ASSUME NEW A \in [ActorIds -> Actor], IsFiniteSet(EnrolledIn(A)), NEW P
  PROVE  /\ \A k \in Kinds : ProtectedIn(A, P)[k] \in Nat
         /\ SumFunctionOnSet(ProtectedIn(A, P), Kinds) \in Nat
  <1>1. \A k \in Kinds : ProtectedIn(A, P)[k] \in Nat
    <2> SUFFICES ASSUME NEW k \in Kinds PROVE ProtectedIn(A, P)[k] \in Nat
      OBVIOUS
    <2>1. OblTokens[k] \in Nat /\ SumFunctionOnSet(ChargesOf(A), WorkersIn(A, k)) \in Nat
      BY LedgerAssumption, WorkersFinite
    <2>2. QED
      BY <2>1 DEF ProtectedIn, Minus
  <1>2. QED
    BY <1>1, SumNat, LedgerAssumption

LEMMA FeasibleNow ==
  ASSUME GInv, IsFiniteSet(Enrolled)
  PROVE  /\ ProtectedTokens = ProtectedIn(actors, plan)
         /\ SumFunction(ProtectedTokens) = SumFunctionOnSet(ProtectedIn(actors, plan), Kinds)
         /\ RemainingTokens = Minus(config.tok, Load(actors))
         /\ TokenFeasible <=> SumFunctionOnSet(ProtectedIn(actors, plan), Kinds) <= Minus(config.tok, Load(actors))
  <1>1. \A k : Workers(k) = WorkersIn(actors, k)
    BY LoadNow DEF Workers, WorkersIn
  <1>2. ProtectedTokens = ProtectedIn(actors, plan) /\ DOMAIN ProtectedTokens = Kinds
    BY <1>1, LoadNow DEF ProtectedTokens, ProtectedIn
  <1>3. SumFunction(ProtectedTokens) = SumFunctionOnSet(ProtectedIn(actors, plan), Kinds)
    BY <1>2 DEF SumFunction
  <1>4. RemainingTokens = Minus(config.tok, Load(actors))
    BY LoadNow DEF RemainingTokens
  <1>5. QED
    BY <1>2, <1>3, <1>4 DEF TokenFeasible

LEMMA FeasibleNext ==
  ASSUME GInv', IsFiniteSet(Enrolled')
  PROVE  TokenFeasible' <=> SumFunctionOnSet(ProtectedIn(actors', plan'), Kinds) <= Minus(config'.tok, Load(actors'))
  <1>1. \A k : Workers(k)' = WorkersIn(actors', k)
    BY LoadNext DEF Workers, WorkersIn
  <1>2. ProtectedTokens' = ProtectedIn(actors', plan') /\ DOMAIN (ProtectedTokens') = Kinds
    BY <1>1, LoadNext DEF ProtectedTokens, ProtectedIn
  <1>3. SumFunction(ProtectedTokens)' = SumFunctionOnSet(ProtectedIn(actors', plan'), Kinds)
    BY <1>2 DEF SumFunction
  <1>4. RemainingTokens' = Minus(config'.tok, Load(actors'))
    BY LoadNext DEF RemainingTokens
  <1>5. QED
    BY <1>3, <1>4 DEF TokenFeasible

\* Closing obligations protects less.
LEMMA ProtectedCloses ==
  ASSUME NEW A \in [ActorIds -> Actor], IsFiniteSet(EnrolledIn(A)), NEW P, NEW Q,
         \A k \in Kinds : P[k].state = "completed" => Q[k].state = "completed"
  PROVE  SumFunctionOnSet(ProtectedIn(A, Q), Kinds) <= SumFunctionOnSet(ProtectedIn(A, P), Kinds)
  <1>1. \A k \in Kinds : ProtectedIn(A, P)[k] \in Nat /\ ProtectedIn(A, Q)[k] \in Nat
    BY ProtectedType
  <1>2. \A k \in Kinds : Q[k].state # "completed" => ProtectedIn(A, Q)[k] = ProtectedIn(A, P)[k]
    BY DEF ProtectedIn
  <1>3. \A k \in Kinds : Q[k].state = "completed" => ProtectedIn(A, Q)[k] = 0
    BY DEF ProtectedIn
  <1>4. \A k \in Kinds : Share(ProtectedIn(A, Q), Kinds, k) <= Share(ProtectedIn(A, P), Kinds, k)
    BY <1>1, <1>2, <1>3 DEF Share
  <1>5. QED
    BY <1>1, <1>4, LedgerAssumption, SumMonotone

-----------------------------------------------------------------------------
(* Steps that leave the actor records alone.                               *)

LEMMA RestInv ==
  ASSUME GInv, GInv', BInv, UNCHANGED <<actors, completions, bound>>,
         \A r \in Requests : /\ Proven(r) => billed'[r] = billed[r]
                             /\ attempt'[r].at \in {"reserved", "sent"} => attempt[r].at \in {"reserved", "sent"},
         authorized \subseteq authorized', IsFiniteSet(authorized'), ConfigAuthorized',
         SessionsKept, IsFiniteSet(OpenSessions'), ClosedSessions', PlanBound',
         \/ config' = config
         \/ config # Nobody /\ config'.tok >= config.tok
         \/ ~bound
         \/ \A a \in Enrolled : actors[a].settled,
         plan # Nobody => \A k \in Kinds : plan[k].state = "completed" => plan'[k].state = "completed"
  PROVE  BInv' /\ Kept
  <1>1. Enrolled' = Enrolled /\ Charges' = Charges /\ \A r : Proven(r)' = Proven(r)
    BY DEF Enrolled, Charges, Proven
  <1>2. LedgerFinite'
    BY <1>1 DEF BInv, Records, LedgerFinite
  <1>3. OpenSessions \subseteq OpenSessions'
    BY DEF OpenSessions, SessionsKept
  <1>4. RequestTerms'
    BY <1>1, <1>3 DEF BInv, Records, RequestTerms, Governed
  <1>5. ProofsBilled'
    BY <1>1 DEF BInv, Records, ProofsBilled, Proven
  <1>6. OneOwner'
    BY DEF BInv, Records, OneOwner
  <1>7. Records'
    BY <1>2, <1>4, <1>5, <1>6 DEF Records
  <1>8. WithinCap' /\ SessionsWithinCap'
    <2>1. BillsKept /\ \A r \in Requests : Governed(r)' <=> Governed(r)
      BY <1>1 DEF BillsKept, Governed
    <2>2. QED
      BY <1>7, <2>1, CapFrame DEF BInv
  <1>9. KnownWithinLimit'
    <2>1. AccountingKnown' = AccountingKnown
      BY DEF AccountingKnown
    <2>2. CASE bound
      <3>1. config \in Configs /\ config' \in Configs /\ config.tok \in Nat /\ config'.tok \in Nat
        BY <2>2, ConfigLimits DEF GInv, TypeOK, LedgerTypeOK, BoundConfigured
      <3>2. Load(actors) \in Nat
        BY LoadNow DEF BInv, Records, LedgerFinite
      <3>3. QED
        BY <1>1, <2>1, <3>1, <3>2 DEF BInv, KnownWithinLimit
    <2>3. CASE ~bound
      BY <2>3 DEF KnownWithinLimit
    <2>4. QED
      BY <2>2, <2>3
  <1>10. Kept
    <2> SUFFICES ASSUME plan # Nobody, TokenFeasible, config' = config PROVE TokenFeasible'
      BY DEF Kept
    <2>1. IsFiniteSet(Enrolled) /\ IsFiniteSet(EnrolledIn(actors)) /\ actors \in [ActorIds -> Actor]
      BY LoadNow DEF BInv, Records, LedgerFinite, GInv, TypeOK, LedgerTypeOK
    <2>2. /\ SumFunctionOnSet(ProtectedIn(actors, plan'), Kinds) <= SumFunctionOnSet(ProtectedIn(actors, plan), Kinds)
          /\ SumFunctionOnSet(ProtectedIn(actors, plan'), Kinds) \in Nat
          /\ SumFunctionOnSet(ProtectedIn(actors, plan), Kinds) \in Nat
      BY <2>1, ProtectedCloses, ProtectedType
    <2>3. Minus(config.tok, Load(actors)) \in Nat
      <3>1. config \in Configs
        BY DEF BInv, Records, PlanBound, GInv, BoundConfigured, TypeOK, LedgerTypeOK
      <3>2. config.tok \in Nat /\ Load(actors) \in Nat
        BY <2>1, <3>1, ConfigLimits, LoadNow
      <3>3. QED
        BY <3>2 DEF Minus
    <2>4. SumFunctionOnSet(ProtectedIn(actors, plan), Kinds) <= Minus(config.tok, Load(actors))
      BY <2>1, FeasibleNow
    <2>5. SumFunctionOnSet(ProtectedIn(actors', plan'), Kinds) <= Minus(config'.tok, Load(actors'))
      BY <2>2, <2>3, <2>4
    <2>6. QED
      BY <1>1, <2>1, <2>5, FeasibleNext
  <1>11. QED
    BY <1>7, <1>8, <1>9, <1>10 DEF BInv

\* Configuration, correction, view and the completion plan.
LEMMA HostBudget ==
  ASSUME GInv, GInv', BInv, UNCHANGED gateway, NEW now \in Times,
         \/ \E c \in Configs : Configure(c, now)
         \/ \E c \in Configs, action \in {"extend", "reset"} : Authorize(c, action, now)
         \/ \E k \in Keys, a \in LifeActors : Correction(k, a, now)
         \/ View(now)
         \/ \E g \in Goals, a \in LifeActors : BindGoal(g, a, now)
         \/ ProtectCompletion(now)
         \/ \E t \in Threads, k \in Kinds : AssignCompletion(t, k, now)
         \/ \E k \in Kinds, outcome \in {"deferred", "completed"} : ResolveCompletion(k, outcome, now)
  PROVE  BInv' /\ Kept
  <1>1. UNCHANGED <<actors, completions, bound, billed, attempt>>
    BY DEF Configure, Authorize, Correction, View, BindGoal, ProtectCompletion, AssignCompletion,
           ResolveCompletion, gateway
  <1>2. IsFiniteSet(authorized) /\ IsFiniteSet(OpenSessions) /\ ConfigAuthorized /\ ClosedSessions /\ PlanBound
    BY DEF BInv, Records, LedgerFinite
  <1>3. /\ authorized \subseteq authorized' /\ IsFiniteSet(authorized') /\ ConfigAuthorized'
        /\ \/ config' = config
           \/ config # Nobody /\ config'.tok >= config.tok
           \/ ~bound
           \/ \A a \in Enrolled : actors[a].settled
    <2>1. CASE UNCHANGED <<config, authorized>>
      BY <1>2, <2>1 DEF ConfigAuthorized
    <2>2. ASSUME NEW c \in Configs, config = Nobody, config' = c, authorized' = {c}
          PROVE  authorized \subseteq authorized' /\ IsFiniteSet(authorized') /\ ConfigAuthorized' /\ ~bound
      <3>1. c # Nobody /\ ~bound
        BY <2>2, LedgerAssumption DEF GInv, BoundConfigured
      <3>2. IsFiniteSet({c})
        BY FS_Singleton
      <3>3. QED
        BY <1>2, <2>2, <3>1, <3>2 DEF ConfigAuthorized
    <2>3. ASSUME NEW c \in Configs, NEW action \in {"extend", "reset"}, Authorize(c, action, now)
          PROVE  /\ authorized \subseteq authorized' /\ IsFiniteSet(authorized') /\ ConfigAuthorized'
                 /\ \/ config # Nobody /\ config'.tok >= config.tok
                    \/ \A a \in Enrolled : actors[a].settled
      <3>1. c # Nobody /\ config' = c /\ authorized' = authorized \cup {c}
        BY <2>3, LedgerAssumption DEF Authorize
      <3>2. IsFiniteSet(authorized')
        BY <1>2, <3>1, FS_AddElement
      <3>3. QED
        BY <2>3, <3>1, <3>2 DEF ConfigAuthorized, Authorize
    <2>4. QED
      BY <2>1, <2>2, <2>3 DEF Configure, Authorize, Correction, View, BindGoal, ProtectCompletion,
                              AssignCompletion, ResolveCompletion
  <1>4. /\ \A t \in Threads : /\ sessions'[t].prior = sessions[t].prior /\ sessions'[t].on = sessions[t].on
                              /\ sessions'[t].group = sessions[t].group
    <2>1. CASE sessions' = sessions
      BY <2>1
    <2>2. CASE \E t \in Threads, k \in Kinds : AssignCompletion(t, k, now)
      <3>1. PICK t \in Threads, k \in Kinds : AssignCompletion(t, k, now)
        BY <2>2
      <3>2. sessions \in [Threads -> Session] /\ sessions' = [sessions EXCEPT ![t].purpose = k]
        BY <3>1 DEF AssignCompletion, GInv, TypeOK, LedgerTypeOK
      <3>3. \A u \in Threads : u # t => sessions'[u] = sessions[u]
        BY <3>2
      <3>4. sessions'[t] = [sessions[t] EXCEPT !.purpose = k] /\ sessions[t] \in Session
        BY <3>2
      <3>5. sessions'[t].prior = sessions[t].prior /\ sessions'[t].on = sessions[t].on /\ sessions'[t].group = sessions[t].group
        BY <3>4 DEF Session
      <3>6. QED
        BY <3>3, <3>5
    <2>3. QED
      BY <2>1, <2>2 DEF Configure, Authorize, Correction, View, BindGoal, ProtectCompletion, ResolveCompletion
  <1>5. OpenSessions' = OpenSessions /\ ClosedSessions' /\ SessionsKept
    BY <1>2, <1>4 DEF OpenSessions, ClosedSessions, Group, SessionsKept
  <1>6. PlanBound' /\ (plan # Nobody => \A k \in Kinds : plan[k].state = "completed" => plan'[k].state = "completed")
    <2>1. CASE plan' = plan
      BY <1>1, <1>2, <2>1 DEF PlanBound
    <2>2. CASE ProtectCompletion(now)
      BY <1>1, <1>2, <2>2 DEF PlanBound, ProtectCompletion
    <2>3. CASE \E k \in Kinds, outcome \in {"deferred", "completed"} : ResolveCompletion(k, outcome, now)
      <3>1. PICK k \in Kinds, outcome \in {"deferred", "completed"} : ResolveCompletion(k, outcome, now)
        BY <2>3
      <3>2. plan \in [Kinds -> Obligation] /\ plan' = [plan EXCEPT ![k].state = outcome] /\ plan[k].state # "completed"
        BY <3>1 DEF ResolveCompletion, GInv, TypeOK, LedgerTypeOK
      <3>3. \A j \in Kinds : j # k => plan'[j] = plan[j]
        BY <3>2
      <3>4. bound
        BY <1>2, <3>1 DEF PlanBound, ResolveCompletion
      <3>5. QED
        BY <1>1, <3>2, <3>3, <3>4 DEF PlanBound
    <2>4. QED
      BY <2>1, <2>2, <2>3 DEF Configure, Authorize, Correction, View, BindGoal, AssignCompletion
  <1>7. QED
    BY <1>1, <1>2, <1>3, <1>4, <1>5, <1>6, RestInv

\* One closed session is opened without usage of its own.
LEMMA OpenSession ==
  ASSUME GInv, BInv, NEW t \in Threads, ~sessions[t].on, NEW s \in Session, s.on, s.prior = 0,
         sessions' = [sessions EXCEPT ![t] = s]
  PROVE  IsFiniteSet(OpenSessions') /\ ClosedSessions' /\ SessionsKept
  <1>1. sessions \in [Threads -> Session] /\ ClosedSessions /\ IsFiniteSet(OpenSessions)
    BY DEF BInv, Records, LedgerFinite, GInv, TypeOK, LedgerTypeOK
  <1>2. sessions'[t] = s /\ \A u \in Threads : u # t => sessions'[u] = sessions[u]
    BY <1>1
  <1>3. OpenSessions' = OpenSessions \cup {t}
    BY <1>2 DEF OpenSessions
  <1>4. IsFiniteSet(OpenSessions')
    BY <1>1, <1>3, FS_AddElement
  <1>5. ClosedSessions' /\ \A u \in Threads : sessions'[u].prior = sessions[u].prior
    BY <1>1, <1>2 DEF ClosedSessions
  <1>6. \A u \in Threads : sessions[u].on => sessions'[u].on /\ Group(u)' = Group(u)
    BY <1>2 DEF Group
  <1>7. QED
    BY <1>4, <1>5, <1>6 DEF SessionsKept

LEMMA NewSessionType ==
  ASSUME GInv, bound, NEW now \in Times
  PROVE  /\ NewSession(now) \in Session /\ NewSession(now).on /\ NewSession(now).prior = 0
         /\ \A t \in Threads : LET s == [NewSession(now) EXCEPT !.parent = Parent[t]]
                               IN  s \in Session /\ s.on /\ s.prior = 0
  <1> DEFINE n == Smaller(config.dl, now + config.sessSec)
  <1>1. config \in Configs
    BY DEF GInv, TypeOK, LedgerTypeOK, BoundConfigured
  <1>2. config.dl \in Nat /\ config.sessSec \in Nat /\ now \in Nat
    BY <1>1, ConfigType, LedgerAssumption
  <1>3. now + config.sessSec \in Nat
    BY <1>2
  <1>4. n \in Nat
    BY <1>2, <1>3, Comparisons
  <1> HIDE DEF n
  <1>5. NewSession(now) \in Session
    BY <1>4, Zenon DEF NewSession, NoSession, Session, n
  <1>6. NewSession(now).on /\ NewSession(now).prior = 0
    BY DEF NewSession, NoSession
  <1>7. ASSUME NEW t \in Threads
        PROVE  LET s == [NewSession(now) EXCEPT !.parent = Parent[t]]
               IN  s \in Session /\ s.on /\ s.prior = 0
    <2>1. Parent[t] \in Threads
      BY GatewayAssumption
    <2>2. [NewSession(now) EXCEPT !.parent = Parent[t]] \in Session
      BY <2>1, <1>4, Zenon DEF NewSession, NoSession, Session, n
    <2>3. QED
      BY <2>2 DEF NewSession, NoSession
  <1>8. QED
    BY <1>5, <1>6, <1>7

\* Steps that change neither the records nor the terms, and open at most one
\* session.
LEMMA CalmInv ==
  ASSUME GInv, GInv', BInv, UNCHANGED <<config, authorized, actors, completions, bound, plan>>,
         \A r \in Requests : /\ Proven(r) => billed'[r] = billed[r]
                             /\ attempt'[r].at \in {"reserved", "sent"} => attempt[r].at \in {"reserved", "sent"},
         \/ sessions' = sessions
         \/ \E t \in Threads, s \in Session :
              ~sessions[t].on /\ s.on /\ s.prior = 0 /\ sessions' = [sessions EXCEPT ![t] = s]
  PROVE  BInv' /\ Kept
  <1>1. IsFiniteSet(OpenSessions') /\ ClosedSessions' /\ SessionsKept
    <2>1. CASE sessions' = sessions
      BY <2>1 DEF OpenSessions, ClosedSessions, Group, SessionsKept, BInv, Records, LedgerFinite
    <2>2. CASE \E t \in Threads, s \in Session :
                 ~sessions[t].on /\ s.on /\ s.prior = 0 /\ sessions' = [sessions EXCEPT ![t] = s]
      BY <2>2, OpenSession
    <2>3. QED
      BY <2>1, <2>2
  <1>2. IsFiniteSet(authorized') /\ ConfigAuthorized' /\ PlanBound'
    BY DEF BInv, Records, LedgerFinite, ConfigAuthorized, PlanBound
  <1>3. plan # Nobody => \A k \in Kinds : plan[k].state = "completed" => plan'[k].state = "completed"
    OBVIOUS
  <1>4. QED
    BY <1>1, <1>2, <1>3, RestInv

LEMMA ThreadBudget ==
  ASSUME GInv, GInv', BInv,
         \/ (\E t, source \in Threads : ContinueThread(t, source)) /\ UNCHANGED gateway
         \/ \E t \in Threads, now \in Times : InheritThread(t, now)
  PROVE  BInv' /\ Kept
  <1>1. UNCHANGED <<config, authorized, actors, completions, bound, plan, billed, attempt>>
    BY DEF ContinueThread, InheritThread, RegisterThread, gateway
  <1>2. \E t \in Threads, s \in Session :
           ~sessions[t].on /\ s.on /\ s.prior = 0 /\ sessions' = [sessions EXCEPT ![t] = s]
    <2>1. ASSUME NEW t \in Threads, NEW source \in Threads, ContinueThread(t, source)
          PROVE  \E s \in Session : ~sessions[t].on /\ s.on /\ s.prior = 0 /\ sessions' = [sessions EXCEPT ![t] = s]
      <3> DEFINE s == [NoSession EXCEPT !.on = TRUE, !.dl = sessions[source].dl, !.parent = source,
                                        !.group = Group(source), !.purpose = sessions[source].purpose]
      <3>1. ~sessions[t].on /\ sessions' = [sessions EXCEPT ![t] = s]
        BY <2>1 DEF ContinueThread
      <3>2. s.on /\ s.prior = 0
        BY DEF NoSession
      <3>3. sessions'[t] = s /\ sessions'[t] \in Session
        BY <3>1 DEF GInv, TypeOK, LedgerTypeOK
      <3> HIDE DEF s
      <3>4. QED
        BY <3>1, <3>2, <3>3
    <2>2. ASSUME NEW t \in Threads, NEW now \in Times, InheritThread(t, now)
          PROVE  \E s \in Session : ~sessions[t].on /\ s.on /\ s.prior = 0 /\ sessions' = [sessions EXCEPT ![t] = s]
      <3> DEFINE s == [NewSession(now) EXCEPT !.parent = Parent[t]]
      <3>1. ~sessions[t].on /\ sessions' = [sessions EXCEPT ![t] = s] /\ bound
        BY <2>2 DEF InheritThread, RegisterThread
      <3>2. s \in Session /\ s.on /\ s.prior = 0
        BY <3>1, NewSessionType
      <3> HIDE DEF s
      <3>3. QED
        BY <3>1, <3>2
    <2>3. QED
      BY <2>1, <2>2
  <1>3. QED
    BY <1>1, <1>2, CalmInv

LEMMA SessionsForOpen ==
  ASSUME GInv, bound, NEW t \in Threads, NEW now \in Times
  PROVE  \/ SessionsFor(t, now) = sessions
         \/ \E u \in Threads, s \in Session :
              ~sessions[u].on /\ s.on /\ s.prior = 0 /\ SessionsFor(t, now) = [sessions EXCEPT ![u] = s]
  BY NewSessionType DEF SessionsFor

LEMMA QuietBudget ==
  ASSUME GInv, GInv', BInv,
         \/ UNCHANGED vars
         \/ \E r \in Requests :
              \/ \E t \in Threads : Enter(r, t)
              \/ Refuse(r)
              \/ \E usage \in Usages : Submit(r, usage)
              \/ \E now \in Times : Deny(r, now)
         \/ Crash
         \/ SwitchStep
  PROVE  BInv' /\ Kept
  <1>0. attempt \in [Requests -> [at : Phases, thread : Threads \cup {Nobody}, inactive : BOOLEAN]] /\ billed \in [Requests -> Nat]
    BY DEF GInv, TypeOK, GatewayTypeOK
  <1>00. Over.at = "over" /\ Fresh.at = "new"
    BY DEF Over, Fresh
  <1>1. CASE UNCHANGED vars \/ SwitchStep
    <2>1. UNCHANGED <<ledger, attempt, billed>>
      BY <1>1 DEF vars, gateway, SwitchStep, PreservePause, ChangeBegin, ChangeMember, ChangeEnd, GoalResumed
    <2>2. UNCHANGED <<config, authorized, actors, completions, bound, plan, sessions>>
      BY <2>1 DEF ledger
    <2>3. QED
      BY <2>1, <2>2, CalmInv
  <1>2. ASSUME NEW r \in Requests,
               \/ \E t \in Threads : Enter(r, t)
               \/ Refuse(r)
               \/ \E usage \in Usages : Submit(r, usage)
        PROVE  BInv' /\ Kept
    <2>1. UNCHANGED <<config, authorized, actors, completions, bound, plan, sessions>>
      BY <1>2 DEF Enter, Refuse, Submit, ledger
    <2>2. \A b \in Requests : attempt'[b].at \in {"reserved", "sent"} => attempt[b].at \in {"reserved", "sent"}
      BY <1>0, <1>00, <1>2 DEF Enter, Refuse, Answer, Submit
    <2>3. \A b \in Requests : Proven(b) => billed'[b] = billed[b]
      <3>1. CASE billed' = billed
        BY <3>1
      <3>2. CASE \E usage \in Usages : Submit(r, usage)
        <4>1. ~Proven(r) /\ \A b \in Requests : b # r => billed'[b] = billed[b]
          BY <1>0, <3>2 DEF Submit, Submitted, GInv, AttemptActors, Untouched, Proven
        <4>2. QED
          BY <4>1
      <3>3. QED
        BY <1>2, <3>1, <3>2 DEF Enter, Refuse
    <2>4. QED
      BY <2>1, <2>2, <2>3, CalmInv
  <1>3. ASSUME NEW r \in Requests, NEW now \in Times, Deny(r, now)
        PROVE  BInv' /\ Kept
    <2>1. UNCHANGED <<config, authorized, actors, completions, bound, plan, billed>>
      BY <1>3 DEF Deny, DenyRequest
    <2>2. \A b \in Requests : attempt'[b].at \in {"reserved", "sent"} => attempt[b].at \in {"reserved", "sent"}
      BY <1>0, <1>00, <1>3 DEF Deny, Answer
    <2> DEFINE v == attempt[r].thread
    <2>3. bound /\ v \in Threads /\ sessions' = SessionsFor(v, now)
      BY <1>3 DEF Deny, DenyRequest, GInv, AttemptActors
    <2> HIDE DEF v
    <2>4. \/ sessions' = sessions
          \/ \E t \in Threads, s \in Session :
               ~sessions[t].on /\ s.on /\ s.prior = 0 /\ sessions' = [sessions EXCEPT ![t] = s]
      <3>1. \/ SessionsFor(v, now) = sessions
            \/ \E t \in Threads, s \in Session :
                 ~sessions[t].on /\ s.on /\ s.prior = 0 /\ SessionsFor(v, now) = [sessions EXCEPT ![t] = s]
        BY <2>3, SessionsForOpen, Zenon
      <3>2. QED
        BY <2>3, <3>1
    <2>5. QED
      BY <2>1, <2>2, <2>4, CalmInv
  <1>4. CASE Crash
    <2>1. UNCHANGED <<config, authorized, actors, completions, bound, plan, sessions, billed>>
      BY <1>4 DEF Crash, ledger
    <2>2. \A b \in Requests : attempt'[b].at \in {"reserved", "sent"} => attempt[b].at \in {"reserved", "sent"}
      BY <1>00, <1>4 DEF Crash
    <2>3. QED
      BY <2>1, <2>2, CalmInv
  <1>5. QED
    BY <1>1, <1>2, <1>3, <1>4

\* bind_requests imports the prior usage into an empty ledger.
LEMMA BindBudget ==
  ASSUME GInv, GInv', BInv, BindRequests, UNCHANGED gateway
  PROVE  BInv' /\ Kept
  <1>1. /\ UNCHANGED <<config, authorized, actors, completions, plan, billed, attempt>>
        /\ Enrolled = {} /\ ~bound /\ bound'
    BY DEF BindRequests, gateway
  <1>2. plan = Nobody
    BY <1>1 DEF BInv, Records, PlanBound
  <1>3. \A a \in ActorIds : actors[a].kind = "none"
    BY <1>1 DEF Enrolled
  <1>4. sessions \in [Threads -> Session] /\ Source \in Threads
    BY LedgerAssumption DEF GInv, TypeOK, LedgerTypeOK
  <1>5. /\ \A u \in Threads : u # Source => sessions'[u] = sessions[u]
        /\ sessions'[Source].on
    BY <1>4 DEF BindRequests, NoSession
  <1>6. OpenSessions' = OpenSessions \cup {Source}
    BY <1>4, <1>5 DEF OpenSessions
  <1>7. Enrolled' = {} /\ \A r : Proven(r)' = Proven(r)
    BY <1>1 DEF Enrolled, Proven
  <1>8. LedgerFinite'
    BY <1>1, <1>6, <1>7, FS_AddElement, FS_EmptySet DEF BInv, Records, LedgerFinite
  <1>9. ClosedSessions'
    BY <1>5 DEF BInv, Records, ClosedSessions
  <1>10. \A r \in Requests : ~Governed(r) /\ ~Governed(r)'
    BY <1>1, <1>3, ActorSets DEF Governed
  <1>11. RequestTerms'
    BY <1>1, <1>7, <1>10 DEF BInv, Records, RequestTerms
  <1>12. ProofsBilled' /\ OneOwner' /\ PlanBound' /\ ConfigAuthorized'
    BY <1>1, <1>3, ActorSets DEF BInv, Records, ProofsBilled, OneOwner, PlanBound, ConfigAuthorized
  <1>13. WithinCap' /\ SessionsWithinCap'
    BY <1>10 DEF WithinCap, SessionsWithinCap, Governeds, Spent
  <1>14. KnownWithinLimit'
    BY <1>7 DEF KnownWithinLimit
  <1>15. Kept
    BY <1>2 DEF Kept
  <1>16. QED
    BY <1>8, <1>9, <1>11, <1>12, <1>13, <1>14, <1>15 DEF BInv, Records

\* Lifecycle accounting, which the binding excludes.
LEMMA LifeBudget ==
  ASSUME GInv, GInv', BInv, UNCHANGED gateway, NEW now \in Times,
         \/ \E a \in LifeActors, tokens \in Amounts, seconds \in Seconds : Reserve(a, tokens, seconds, now)
         \/ \E a \in LifeActors, cumulative \in Amounts \cup {Nobody}, settled \in BOOLEAN :
              Record(a, cumulative, settled, now)
         \/ \E g \in Goals, cumulative \in Amounts \cup {Nobody}, settled \in BOOLEAN :
              RecordGoal(g, cumulative, settled, now)
         \/ \E a \in LifeActors \cup Goals, cumulative \in Amounts : RecordSampledFloor(a, cumulative, now)
         \/ \E g \in Goals, budget \in Amounts, deadline \in Times : AdoptActiveGoal(g, budget, deadline, now)
  PROVE  BInv' /\ Kept
  <1>1. ~bound /\ OnlyActors(now)
    BY DEF Reserve, Record, RecordGoal, RecordSampledFloor, AdoptActiveGoal, Lifecycle
  <1>2. UNCHANGED <<config, authorized, bound, sessions, completions, plan, billed, attempt>>
    BY <1>1 DEF OnlyActors, gateway
  <1>3. actors \in [ActorIds -> Actor] /\ \A g \in Goals : AliasActor(g) \in LifeActors \cup Goals
    BY DEF GInv, TypeOK, LedgerTypeOK, AliasActor
  <1>4. \E a \in LifeActors \cup Goals : \A b \in ActorIds : b # a => actors'[b] = actors[b]
    <2>1. CASE \E a \in LifeActors, tokens \in Amounts, seconds \in Seconds : Reserve(a, tokens, seconds, now)
      BY <1>3, <2>1 DEF Reserve
    <2>2. CASE \E a \in LifeActors, cumulative \in Amounts \cup {Nobody}, settled \in BOOLEAN :
                 Record(a, cumulative, settled, now)
      BY <1>3, <2>2 DEF Record
    <2>3. CASE \E g \in Goals, cumulative \in Amounts \cup {Nobody}, settled \in BOOLEAN :
                 RecordGoal(g, cumulative, settled, now)
      BY <1>3, <2>3 DEF RecordGoal
    <2>4. CASE \E a \in LifeActors \cup Goals, cumulative \in Amounts : RecordSampledFloor(a, cumulative, now)
      BY <1>3, <2>4 DEF RecordSampledFloor
    <2>5. CASE \E g \in Goals, budget \in Amounts, deadline \in Times : AdoptActiveGoal(g, budget, deadline, now)
      BY <1>3, <2>5 DEF AdoptActiveGoal
    <2>6. QED
      BY <2>1, <2>2, <2>3, <2>4, <2>5
  <1>5. PICK a \in LifeActors \cup Goals : \A b \in ActorIds : b # a => actors'[b] = actors[b]
    BY <1>4
  <1>6. \A r \in Requests : actors'[r] = actors[r]
    BY <1>5, ActorSets
  <1>7. Enrolled' \subseteq Enrolled \cup {a}
    BY <1>5 DEF Enrolled
  <1>8. LedgerFinite'
    <2>1. IsFiniteSet(Enrolled \cup {a})
      BY FS_AddElement DEF BInv, Records, LedgerFinite
    <2>2. IsFiniteSet(Enrolled')
      BY <1>7, <2>1, FS_Subset
    <2>3. QED
      BY <1>2, <2>2 DEF BInv, Records, LedgerFinite, OpenSessions
  <1>9. RequestTerms' /\ ProofsBilled'
    BY <1>2, <1>6 DEF BInv, Records, RequestTerms, ProofsBilled, Governed, Proven, OpenSessions
  <1>10. ConfigAuthorized' /\ ClosedSessions' /\ OneOwner' /\ PlanBound' /\ plan = Nobody
    BY <1>1, <1>2 DEF BInv, Records, ConfigAuthorized, ClosedSessions, OneOwner, PlanBound
  <1>11. Records'
    BY <1>8, <1>9, <1>10 DEF Records
  <1>12. WithinCap' /\ SessionsWithinCap'
    <2>1. BillsKept /\ SessionsKept
      BY <1>2 DEF Proven, Group, BillsKept, SessionsKept
    <2>2. \A r \in Requests : Governed(r)' <=> Governed(r)
      BY <1>6 DEF Governed
    <2>3. QED
      BY <1>2, <1>6, <1>11, <2>1, <2>2, CapFrame DEF BInv
  <1>13. KnownWithinLimit' /\ Kept
    BY <1>1, <1>2, <1>10 DEF KnownWithinLimit, Kept
  <1>14. QED
    BY <1>11, <1>12, <1>13 DEF BInv

\* An attempt closed as unknown keeps its reservation, and the accounting
\* stays unknown.
LEMMA UnknownBudget ==
  ASSUME GInv, GInv', BInv, NEW r \in Requests, NEW now \in Times,
         \/ \E usage \in Usages : SubmitFails(r, usage, now)
         \/ Fail(r, now)
  PROVE  BInv' /\ Kept
  <1>1. SettleUnknown(r, now) /\ attempt' = [attempt EXCEPT ![r] = Over]
    BY DEF SubmitFails, Fail, Answer
  <1>2. /\ UNCHANGED <<config, authorized, bound, sessions, completions, plan>>
        /\ actors' = [actors EXCEPT ![r].known = FALSE, ![r].settled = FALSE] /\ actors[r].kind = "request"
    BY <1>1 DEF SettleUnknown, OnlyActors
  <1>3. /\ r \in ActorIds /\ actors \in [ActorIds -> Actor] /\ billed \in [Requests -> Nat]
        /\ attempt \in [Requests -> [at : Phases, thread : Threads \cup {Nobody}, inactive : BOOLEAN]]
    BY ActorSets DEF GInv, TypeOK, LedgerTypeOK, GatewayTypeOK
  <1>4. \A b \in ActorIds : b # r => actors'[b] = actors[b]
    BY <1>2, <1>3
  <1>5. actors'[r] = [actors[r] EXCEPT !.known = FALSE, !.settled = FALSE] /\ actors[r] \in Actor
    BY <1>2, <1>3
  <1>6. /\ actors'[r].kind = actors[r].kind /\ actors'[r].res = actors[r].res /\ actors'[r].used = actors[r].used
        /\ actors'[r].thread = actors[r].thread /\ actors'[r].known = FALSE
    BY <1>5 DEF Actor
  <1>7. \A b \in Requests : /\ actors'[b].kind = actors[b].kind /\ actors'[b].res = actors[b].res
                            /\ actors'[b].thread = actors[b].thread
    BY <1>4, <1>6, ActorSets
  <1>8. /\ Enrolled' = Enrolled /\ OpenSessions' = OpenSessions
        /\ \A b : Proven(b)' = Proven(b)
        /\ \A b \in Requests : Governed(b)' = Governed(b)
    BY <1>2, <1>4, <1>6, <1>7 DEF Enrolled, OpenSessions, Proven, Governed
  <1>9. \A b \in Requests : Proven(b) => billed'[b] = billed[b]
    <2>1. CASE billed' = billed
      BY <2>1
    <2>2. CASE billed' # billed
      <3>1. attempt[r].at = "reserved" /\ \A b \in Requests : b # r => billed'[b] = billed[b]
        BY <1>3, <2>2 DEF SubmitFails, Submitted, Fail
      <3>2. ~Proven(r)
        BY <3>1 DEF GInv, AttemptActors, Untouched, Proven
      <3>3. QED
        BY <3>1, <3>2
    <2>3. QED
      BY <2>1, <2>2
  <1>10. \A b \in Requests : attempt'[b].at \in {"reserved", "sent"} => b # r /\ attempt'[b] = attempt[b]
    BY <1>1, <1>3 DEF Over
  <1>11. RequestTerms'
    <2> SUFFICES ASSUME NEW b \in Requests
                 PROVE  /\ actors'[b].kind \in {"none", "request"}
                        /\ Governed(b)' => actors'[b].res = ReqBound /\ actors'[b].thread \in OpenSessions'
                        /\ Proven(b)' => actors'[b].kind = "request"
                        /\ attempt'[b].at \in {"reserved", "sent"} => actors'[b].kind = "request" /\ actors'[b].known
                        /\ actors'[b].known /\ actors'[b].res > 0 => actors'[b].used <= actors'[b].res
      BY DEF RequestTerms
    <2>1. CASE b = r
      BY <1>2, <1>6, <1>8, <1>10, <2>1 DEF BInv, Records, RequestTerms
    <2>2. CASE b # r
      BY <1>4, <1>8, <1>10, <2>2, ActorSets DEF BInv, Records, RequestTerms
    <2>3. QED
      BY <2>1, <2>2
  <1>12. ProofsBilled'
    BY <1>2, <1>8, <1>9 DEF BInv, Records, ProofsBilled, Proven
  <1>13. OneOwner'
    BY <1>2, <1>4, ActorSets DEF BInv, Records, OneOwner
  <1>14. LedgerFinite' /\ ConfigAuthorized' /\ ClosedSessions' /\ PlanBound'
    BY <1>2, <1>8 DEF BInv, Records, LedgerFinite, ConfigAuthorized, ClosedSessions, PlanBound
  <1>15. Records'
    BY <1>11, <1>12, <1>13, <1>14 DEF Records
  <1>16. WithinCap' /\ SessionsWithinCap'
    <2>1. BillsKept /\ SessionsKept
      BY <1>2, <1>8, <1>9 DEF Group, BillsKept, SessionsKept
    <2>2. QED
      BY <1>2, <1>7, <1>8, <1>15, <2>1, CapFrame DEF BInv
  <1>17. ~AccountingKnown'
    BY <1>3, <1>6 DEF AccountingKnown
  <1>18. QED
    BY <1>15, <1>16, <1>17 DEF BInv, KnownWithinLimit, Kept

-----------------------------------------------------------------------------
(* Completion.                                                             *)

\* A settlement that frees part of a charge protects at most that much more.
LEMMA FreedProtection ==
  ASSUME NEW A \in [ActorIds -> Actor], NEW B \in [ActorIds -> Actor], IsFiniteSet(EnrolledIn(A)),
         NEW a \in ActorIds, A[a].kind # "none", B[a].kind # "none", B[a].purpose = A[a].purpose,
         ChargesOf(B)[a] <= ChargesOf(A)[a], NEW P,
         \A b \in ActorIds : b # a => B[b] = A[b]
  PROVE  SumFunctionOnSet(ProtectedIn(B, P), Kinds) + ChargesOf(B)[a]
           <= SumFunctionOnSet(ProtectedIn(A, P), Kinds) + ChargesOf(A)[a]
  <1> DEFINE p == A[a].purpose
             SA(k) == SumFunctionOnSet(ChargesOf(A), WorkersIn(A, k))
             SB(k) == SumFunctionOnSet(ChargesOf(B), WorkersIn(B, k))
             PA == ProtectedIn(A, P)
             PB == ProtectedIn(B, P)
             x == ChargesOf(A)[a]
             y == ChargesOf(B)[a]
  <1>1. /\ EnrolledIn(B) = EnrolledIn(A)
        /\ \A b \in ActorIds : b # a => ChargesOf(B)[b] = ChargesOf(A)[b]
    BY ChangeLoad
  <1>2. \A k : WorkersIn(B, k) = WorkersIn(A, k)
    BY <1>1 DEF WorkersIn, EnrolledIn
  <1>3. \A b \in ActorIds : ChargesOf(A)[b] \in Nat /\ ChargesOf(B)[b] \in Nat
    BY ChargeType
  <1>4. \A k : IsFiniteSet(WorkersIn(A, k)) /\ WorkersIn(A, k) \subseteq ActorIds /\ SA(k) \in Nat /\ SB(k) \in Nat
    BY <1>1, <1>2, WorkersFinite
  <1>5. \A k : k # p => SB(k) = SA(k)
    <2> SUFFICES ASSUME NEW k, k # p PROVE SB(k) = SA(k)
      OBVIOUS
    <2>1. a \notin WorkersIn(A, k)
      BY DEF WorkersIn
    <2>2. \A b \in WorkersIn(A, k) : ChargesOf(A)[b] \in Nat /\ ChargesOf(B)[b] = ChargesOf(A)[b]
      BY <1>1, <1>3, <1>4, <2>1
    <2>3. QED
      BY <1>2, <1>4, <2>2, SumSame
  <1>6. SB(p) + x = SA(p) + y
    <2>1. a \in WorkersIn(A, p)
      BY DEF WorkersIn, EnrolledIn
    <2>2. \A b \in WorkersIn(A, p) : /\ ChargesOf(B)[b] \in Nat /\ ChargesOf(A)[b] \in Nat
                                     /\ b # a => ChargesOf(B)[b] = ChargesOf(A)[b]
      BY <1>1, <1>3, <1>4
    <2>3. QED
      BY <1>2, <1>4, <2>1, <2>2, SumChange
  <1>7. x \in Nat /\ y \in Nat /\ y <= x
    BY <1>3
  <1>8. \A k \in Kinds : PA[k] \in Nat /\ PB[k] \in Nat
    BY <1>1, ProtectedType
  <1>9. \A k \in Kinds : k # p => PB[k] = PA[k]
    BY <1>5 DEF ProtectedIn
  <1>10. SumFunctionOnSet(PA, Kinds) \in Nat /\ SumFunctionOnSet(PB, Kinds) \in Nat /\ IsFiniteSet(Kinds)
    BY <1>1, ProtectedType, LedgerAssumption
  <1>11. CASE p \in Kinds
    <2>1. PB[p] + y <= PA[p] + x
      <3>1. OblTokens[p] \in Nat /\ SA(p) \in Nat /\ SB(p) \in Nat
        BY <1>4, <1>11, LedgerAssumption
      <3>2. CASE P[p].state = "completed"
        <4>1. PA[p] = 0 /\ PB[p] = 0
          BY <1>11, <3>2 DEF ProtectedIn
        <4> HIDE DEF PA, PB, x, y
        <4>2. QED
          BY <1>7, <4>1
      <3>3. CASE P[p].state # "completed"
        <4>1. PA[p] = Minus(OblTokens[p], SA(p)) /\ PB[p] = Minus(OblTokens[p], SB(p))
          BY <1>11, <3>3 DEF ProtectedIn
        <4> HIDE DEF PA, PB, x, y, SA, SB, p
        <4>2. QED
          BY <1>6, <1>7, <3>1, <4>1 DEF Minus
      <3>4. QED
        BY <3>2, <3>3
    <2>2. SumFunctionOnSet(PB, Kinds) + PA[p] = SumFunctionOnSet(PA, Kinds) + PB[p]
      <3> HIDE DEF PA, PB, p
      <3>1. QED
        BY <1>8, <1>9, <1>10, <1>11, SumChange
    <2> HIDE DEF PA, PB, p, x, y
    <2>3. PA[p] \in Nat /\ PB[p] \in Nat
      BY <1>8, <1>11
    <2>4. SumFunctionOnSet(PB, Kinds) + y <= SumFunctionOnSet(PA, Kinds) + x
      BY <1>7, <1>10, <2>1, <2>2, <2>3
    <2>5. QED
      BY <2>4 DEF PA, PB, x, y
  <1>12. CASE p \notin Kinds
    <2> HIDE DEF PA, PB, p, x, y
    <2>1. SumFunctionOnSet(PB, Kinds) = SumFunctionOnSet(PA, Kinds)
      BY <1>8, <1>9, <1>10, <1>12, SumSame
    <2>2. SumFunctionOnSet(PB, Kinds) + y <= SumFunctionOnSet(PA, Kinds) + x
      BY <1>7, <1>10, <2>1
    <2>3. QED
      BY <2>2 DEF PA, PB, x, y
  <1>13. QED
    BY <1>11, <1>12

\* The two outcomes of settle_request on a first completion.
LEMMA CompleteShape ==
  ASSUME GInv, GInv', BInv, NEW r \in Requests, NEW response \in Responses, NEW now \in Times,
         NEW outside \in BOOLEAN, Complete(r, response, outside, now)
  PROVE  /\ UNCHANGED <<config, authorized, bound, sessions, plan, billed>>
         /\ r \in ActorIds /\ actors[r].kind = "request" /\ actors[r].known /\ ~actors[r].settled /\ actors[r].used = 0
         /\ \A b \in ActorIds : b # r => actors'[b] = actors[b]
         /\ actors'[r].kind = actors[r].kind /\ actors'[r].res = actors[r].res
         /\ actors'[r].thread = actors[r].thread /\ actors'[r].purpose = actors[r].purpose
         /\ \A b \in Requests : attempt'[b].at \in {"reserved", "sent"} => b # r /\ attempt'[b] = attempt[b]
         /\ \/ ~actors'[r].known /\ completions' = completions
            \/ /\ actors'[r].settled /\ actors'[r].used = billed[r]
               /\ actors[r].res > 0 => billed[r] <= actors[r].res
               /\ completions[response].actor = Nobody
               /\ completions' = [completions EXCEPT ![response] = [actor |-> r, tokens |-> billed[r]]]
  <1>1. /\ UNCHANGED <<config, authorized, bound, sessions, plan, billed>>
        /\ attempt[r].at = "sent" /\ actors[r].kind = "request"
    BY DEF Complete, SettleRequest
  <1>2. Untouched(r) /\ actors[r].known
    BY <1>1 DEF GInv, AttemptActors, BInv, Records, RequestTerms
  <1>3. /\ r \in ActorIds /\ actors \in [ActorIds -> Actor] /\ actors[r] \in Actor /\ billed[r] \in Nat
        /\ attempt \in [Requests -> [at : Phases, thread : Threads \cup {Nobody}, inactive : BOOLEAN]]
    BY ActorSets DEF GInv, TypeOK, LedgerTypeOK, GatewayTypeOK
  <1>4. \A b \in Requests : attempt'[b].at \in {"reserved", "sent"} => b # r /\ attempt'[b] = attempt[b]
    <2> DEFINE z == IF ~attempt[r].inactive /\ (outside \/ ~AccountingKnown')
                    THEN [attempt[r] EXCEPT !.at = "disputed"] ELSE Over
    <2>1. attempt' = [attempt EXCEPT ![r] = z]
      BY DEF Complete
    <2>2. z.at \in {"disputed", "over"}
      BY <1>3 DEF Over
    <2> HIDE DEF z
    <2>3. QED
      BY <1>3, <2>1, <2>2
  <1> DEFINE bad == [actors[r] EXCEPT !.used = Larger(actors[r].used, billed[r]), !.known = FALSE, !.settled = FALSE]
             good == [actors[r] EXCEPT !.used = billed[r], !.known = TRUE, !.settled = TRUE]
  <1>5. \/ actors' = [actors EXCEPT ![r] = bad] /\ completions' = completions
        \/ /\ actors' = [actors EXCEPT ![r] = good]
           /\ completions' = [completions EXCEPT ![response] = [actor |-> r, tokens |-> billed[r]]]
           /\ completions[response].actor = Nobody
           /\ ~(actors[r].res > 0 /\ billed[r] > actors[r].res)
    <2>1. completions[response] # [actor |-> r, tokens |-> billed[r]]
      BY <1>2 DEF Untouched
    <2>2. QED
      BY <1>3, <2>1 DEF Complete, SettleRequest
  <1>6. /\ bad.kind = actors[r].kind /\ bad.res = actors[r].res /\ bad.thread = actors[r].thread
        /\ bad.purpose = actors[r].purpose /\ bad.known = FALSE
    BY <1>3 DEF Actor
  <1>7. /\ good.kind = actors[r].kind /\ good.res = actors[r].res /\ good.thread = actors[r].thread
        /\ good.purpose = actors[r].purpose /\ good.settled = TRUE /\ good.used = billed[r]
    BY <1>3 DEF Actor
  <1> HIDE DEF bad, good
  <1>8. actors[r].res \in Nat
    BY <1>3 DEF Actor
  <1>9. CASE actors' = [actors EXCEPT ![r] = bad] /\ completions' = completions
    <2>1. actors'[r] = bad /\ \A b \in ActorIds : b # r => actors'[b] = actors[b]
      BY <1>3, <1>9
    <2>2. QED
      BY <1>1, <1>2, <1>3, <1>4, <1>6, <1>9, <2>1 DEF Untouched
  <1>10. CASE /\ actors' = [actors EXCEPT ![r] = good]
              /\ completions' = [completions EXCEPT ![response] = [actor |-> r, tokens |-> billed[r]]]
              /\ completions[response].actor = Nobody
              /\ ~(actors[r].res > 0 /\ billed[r] > actors[r].res)
    <2>1. actors'[r] = good /\ \A b \in ActorIds : b # r => actors'[b] = actors[b]
      BY <1>3, <1>10
    <2>2. actors[r].res > 0 => billed[r] <= actors[r].res
      BY <1>3, <1>8, <1>10
    <2>3. QED
      BY <1>1, <1>2, <1>3, <1>4, <1>7, <1>10, <2>1, <2>2 DEF Untouched
  <1>11. QED
    BY <1>5, <1>9, <1>10

LEMMA CompleteRecords ==
  ASSUME GInv, GInv', BInv, NEW r \in Requests, NEW response \in Responses, NEW now \in Times,
         NEW outside \in BOOLEAN, Complete(r, response, outside, now)
  PROVE  Records' /\ WithinCap' /\ SessionsWithinCap' /\ Enrolled' = Enrolled
  <1>1. /\ UNCHANGED <<config, authorized, bound, sessions, plan, billed>>
        /\ r \in ActorIds /\ actors[r].kind = "request"
        /\ \A b \in ActorIds : b # r => actors'[b] = actors[b]
        /\ actors'[r].kind = actors[r].kind /\ actors'[r].res = actors[r].res
        /\ actors'[r].thread = actors[r].thread
        /\ \A b \in Requests : attempt'[b].at \in {"reserved", "sent"} => b # r /\ attempt'[b] = attempt[b]
        /\ \/ ~actors'[r].known /\ completions' = completions
           \/ /\ actors'[r].used = billed[r]
              /\ actors[r].res > 0 => billed[r] <= actors[r].res
              /\ completions[response].actor = Nobody
              /\ completions' = [completions EXCEPT ![response] = [actor |-> r, tokens |-> billed[r]]]
    BY CompleteShape
  <1>2. \A b \in Requests : /\ actors'[b].kind = actors[b].kind /\ actors'[b].res = actors[b].res
                            /\ actors'[b].thread = actors[b].thread
    BY <1>1, ActorSets
  <1>3. completions \in [Responses -> [actor : Requests \cup {Nobody}, tokens : Nat]] /\ \A b \in Requests : b # Nobody
    BY LedgerAssumption DEF GInv, TypeOK, LedgerTypeOK, ActorIds
  <1>4. /\ \A b \in Requests : Proven(b) => Proven(b)'
        /\ \A b \in Requests : Proven(b)' => b = r \/ Proven(b)
        /\ ProofsBilled'
    <2>1. CASE completions' = completions
      BY <1>1, <2>1 DEF Proven, ProofsBilled, BInv, Records
    <2>2. CASE /\ completions[response].actor = Nobody
               /\ completions' = [completions EXCEPT ![response] = [actor |-> r, tokens |-> billed[r]]]
      <3>1. /\ \A p \in Responses : p # response => completions'[p] = completions[p]
            /\ completions'[response].actor = r /\ completions'[response].tokens = billed[r]
        BY <1>3, <2>2
      <3>2. \A b \in Requests : Proven(b) => Proven(b)'
        BY <1>3, <2>2, <3>1 DEF Proven
      <3>3. \A b \in Requests : Proven(b)' => b = r \/ Proven(b)
        BY <3>1 DEF Proven
      <3>4. ProofsBilled'
        BY <1>1, <3>1 DEF ProofsBilled, BInv, Records
      <3>5. QED
        BY <3>2, <3>3, <3>4
    <2>3. QED
      BY <1>1, <2>1, <2>2
  <1>5. Enrolled' = Enrolled /\ OpenSessions' = OpenSessions /\ \A b \in Requests : Governed(b)' = Governed(b)
    BY <1>1, <1>2 DEF Enrolled, OpenSessions, Governed
  <1>6. RequestTerms'
    <2> SUFFICES ASSUME NEW b \in Requests
                 PROVE  /\ actors'[b].kind \in {"none", "request"}
                        /\ Governed(b)' => actors'[b].res = ReqBound /\ actors'[b].thread \in OpenSessions'
                        /\ Proven(b)' => actors'[b].kind = "request"
                        /\ attempt'[b].at \in {"reserved", "sent"} => actors'[b].kind = "request" /\ actors'[b].known
                        /\ actors'[b].known /\ actors'[b].res > 0 => actors'[b].used <= actors'[b].res
      BY DEF RequestTerms
    <2>1. CASE b = r
      BY <1>1, <1>5, <2>1 DEF BInv, Records, RequestTerms
    <2>2. CASE b # r
      <3>1. actors'[b] = actors[b] /\ (Proven(b)' => Proven(b))
        BY <1>1, <1>4, <2>2, ActorSets
      <3>2. QED
        BY <1>1, <1>5, <3>1 DEF BInv, Records, RequestTerms
    <2>3. QED
      BY <2>1, <2>2
  <1>7. OneOwner'
    BY <1>1, ActorSets DEF BInv, Records, OneOwner
  <1>8. LedgerFinite' /\ ConfigAuthorized' /\ ClosedSessions' /\ PlanBound'
    BY <1>1, <1>5 DEF BInv, Records, LedgerFinite, ConfigAuthorized, ClosedSessions, PlanBound
  <1>9. Records'
    BY <1>4, <1>6, <1>7, <1>8 DEF Records
  <1>10. BillsKept /\ SessionsKept
    BY <1>1, <1>4 DEF Group, BillsKept, SessionsKept
  <1>11. WithinCap' /\ SessionsWithinCap'
    BY <1>1, <1>2, <1>5, <1>9, <1>10, CapFrame DEF BInv
  <1>12. QED
    BY <1>5, <1>9, <1>11

LEMMA CompleteBudget ==
  ASSUME GInv, GInv', BInv, NEW r \in Requests, NEW response \in Responses, NEW now \in Times,
         NEW outside \in BOOLEAN, Complete(r, response, outside, now)
  PROVE  BInv' /\ Kept
  <1>1. Records' /\ WithinCap' /\ SessionsWithinCap' /\ Enrolled' = Enrolled
    BY CompleteRecords
  <1>2. /\ UNCHANGED <<config, authorized, bound, sessions, plan, billed>>
        /\ r \in ActorIds /\ actors[r].kind = "request" /\ actors[r].known /\ ~actors[r].settled /\ actors[r].used = 0
        /\ \A b \in ActorIds : b # r => actors'[b] = actors[b]
        /\ actors'[r].kind = actors[r].kind /\ actors'[r].res = actors[r].res
        /\ actors'[r].purpose = actors[r].purpose
        /\ \/ ~actors'[r].known
           \/ /\ actors'[r].settled /\ actors'[r].used = billed[r]
              /\ actors[r].res > 0 => billed[r] <= actors[r].res
    BY CompleteShape
  <1>3. CASE ~actors'[r].known
    <2>1. ~AccountingKnown'
      BY <1>2, <1>3 DEF AccountingKnown
    <2>2. QED
      BY <1>1, <2>1 DEF BInv, KnownWithinLimit, Kept
  <1>4. CASE actors'[r].settled /\ actors'[r].used = billed[r] /\ (actors[r].res > 0 => billed[r] <= actors[r].res)
    <2>1. ASSUME bound, AccountingKnown', \A a \in Enrolled : actors'[a].res > 0
          PROVE  Load(actors') <= config.tok /\ (plan # Nobody /\ TokenFeasible => TokenFeasible')
      <3>1. /\ actors \in [ActorIds -> Actor] /\ actors' \in [ActorIds -> Actor] /\ billed[r] \in Nat
            /\ config \in Configs
        BY <2>1 DEF GInv, TypeOK, LedgerTypeOK, GatewayTypeOK, BoundConfigured
      <3>2. AccountingKnown
        BY <1>2, <2>1 DEF AccountingKnown
      <3>3. r \in Enrolled
        BY <1>2 DEF Enrolled
      <3>4. \A a \in Enrolled : actors[a].res > 0
        BY <1>2, <2>1, <3>3 DEF Enrolled
      <3>5. Load(actors) <= config.tok
        BY <1>2, <2>1, <3>2, <3>3, <3>4 DEF BInv, KnownWithinLimit
      <3>6. IsFiniteSet(Enrolled) /\ Enrolled = EnrolledIn(actors) /\ Load(actors) \in Nat /\ Load(actors') \in Nat
        BY <1>1, LoadNow, LoadNext DEF BInv, Records, LedgerFinite
      <3> DEFINE x == ChargesOf(actors)[r]
                 y == ChargesOf(actors')[r]
      <3>7. actors[r].res \in Nat /\ actors[r].res > 0
        BY <3>1, <3>3, <3>4, <1>2 DEF Actor
      <3>8. x = actors[r].res /\ y = billed[r]
        BY <1>2, <1>4, <3>1, <3>7, ChargeType
      <3>9. x \in Nat /\ y \in Nat /\ y <= x
        BY <1>4, <3>1, <3>7, <3>8
      <3>10. Load(actors') + x = Load(actors) + y
        BY <1>2, <3>1, <3>6, ChangeLoad
      <3>11. SumFunctionOnSet(ProtectedIn(actors', plan), Kinds) + y <= SumFunctionOnSet(ProtectedIn(actors, plan), Kinds) + x
        BY <1>2, <3>1, <3>6, <3>9, FreedProtection
      <3> HIDE DEF x, y
      <3>12. config.tok \in Nat
        BY <3>1, ConfigLimits
      <3>13. Load(actors') <= config.tok
        BY <3>5, <3>6, <3>9, <3>10, <3>12
      <3>14. ASSUME plan # Nobody, TokenFeasible PROVE TokenFeasible'
        <4>1. SumFunctionOnSet(ProtectedIn(actors, plan), Kinds) <= Minus(config.tok, Load(actors))
          BY <3>6, <3>14, FeasibleNow
        <4>2. /\ SumFunctionOnSet(ProtectedIn(actors, plan), Kinds) \in Nat
              /\ SumFunctionOnSet(ProtectedIn(actors', plan), Kinds) \in Nat
          BY <1>1, <3>1, <3>6, ProtectedType, LoadNext
        <4>3. SumFunctionOnSet(ProtectedIn(actors', plan), Kinds) <= Minus(config.tok, Load(actors'))
          BY <3>5, <3>6, <3>9, <3>10, <3>11, <3>12, <3>13, <4>1, <4>2 DEF Minus
        <4>4. QED
          BY <1>1, <1>2, <3>6, <4>3, FeasibleNext
      <3>15. QED
        BY <3>13, <3>14
    <2>2. plan # Nobody => bound
      BY DEF BInv, Records, PlanBound
    <2>3. QED
      BY <1>1, <1>2, <2>1, <2>2 DEF BInv, KnownWithinLimit, Kept
  <1>5. QED
    BY <1>2, <1>3, <1>4
-----------------------------------------------------------------------------
(* Admission.                                                              *)

\* A request that joins an obligation draws on what it protects.
LEMMA JoinProtection ==
  ASSUME NEW A \in [ActorIds -> Actor], NEW B \in [ActorIds -> Actor], IsFiniteSet(EnrolledIn(A)),
         NEW a \in ActorIds, A[a].kind = "none", B[a].kind # "none", ~B[a].settled, B[a].used = 0,
         \A b \in ActorIds : b # a => B[b] = A[b], NEW P
  PROVE  LET p == B[a].purpose
         IN  /\ p \notin Kinds =>
                  SumFunctionOnSet(ProtectedIn(B, P), Kinds) = SumFunctionOnSet(ProtectedIn(A, P), Kinds)
             /\ p \in Kinds /\ P[p].state # "completed" /\ B[a].res <= ProtectedIn(A, P)[p] =>
                  SumFunctionOnSet(ProtectedIn(B, P), Kinds) + B[a].res = SumFunctionOnSet(ProtectedIn(A, P), Kinds)
  <1> DEFINE p == B[a].purpose
             x == B[a].res
             SA(k) == SumFunctionOnSet(ChargesOf(A), WorkersIn(A, k))
             SB(k) == SumFunctionOnSet(ChargesOf(B), WorkersIn(B, k))
             PA == ProtectedIn(A, P)
             PB == ProtectedIn(B, P)
  <1>1. /\ EnrolledIn(B) = EnrolledIn(A) \cup {a} /\ a \notin EnrolledIn(A)
        /\ IsFiniteSet(EnrolledIn(B))
        /\ ChargesOf(B)[a] = x
        /\ \A b \in ActorIds : b # a => ChargesOf(B)[b] = ChargesOf(A)[b]
    BY JoinLoad
  <1>2. \A b \in ActorIds : ChargesOf(A)[b] \in Nat /\ ChargesOf(B)[b] \in Nat
    BY ChargeType
  <1>3. x \in Nat
    BY DEF Actor
  <1>4. \A k : /\ IsFiniteSet(WorkersIn(A, k)) /\ WorkersIn(A, k) \subseteq ActorIds
               /\ a \notin WorkersIn(A, k) /\ SA(k) \in Nat /\ SB(k) \in Nat
    BY <1>1, WorkersFinite DEF WorkersIn
  <1>5. \A k : \A b \in WorkersIn(A, k) : ChargesOf(A)[b] \in Nat /\ ChargesOf(B)[b] = ChargesOf(A)[b]
    BY <1>1, <1>2, <1>4
  <1>6. \A k : k # p => SB(k) = SA(k)
    <2> SUFFICES ASSUME NEW k, k # p PROVE SB(k) = SA(k)
      OBVIOUS
    <2>1. WorkersIn(B, k) = WorkersIn(A, k)
      BY DEF WorkersIn, EnrolledIn
    <2>2. QED
      BY <1>4, <1>5, <2>1, SumSame
  <1>7. SB(p) = SA(p) + x
    <2>1. WorkersIn(B, p) = WorkersIn(A, p) \cup {a}
      BY DEF WorkersIn, EnrolledIn
    <2>2. IsFiniteSet(WorkersIn(A, p)) /\ a \notin WorkersIn(A, p) /\ ChargesOf(B)[a] \in Nat
      BY <1>2, <1>4
    <2>3. \A b \in WorkersIn(A, p) : ChargesOf(A)[b] \in Nat /\ ChargesOf(B)[b] = ChargesOf(A)[b]
      BY <1>5
    <2> HIDE DEF p
    <2>4. SumFunctionOnSet(ChargesOf(B), WorkersIn(A, p) \cup {a}) = SumFunctionOnSet(ChargesOf(A), WorkersIn(A, p)) + ChargesOf(B)[a]
      BY <2>2, <2>3, SumAdd
    <2>5. QED
      BY <1>1, <2>1, <2>4
  <1>8. \A k \in Kinds : PA[k] \in Nat /\ PB[k] \in Nat
    BY <1>1, ProtectedType
  <1>9. \A k \in Kinds : k # p => PB[k] = PA[k]
    BY <1>6 DEF ProtectedIn
  <1>10. SumFunctionOnSet(PA, Kinds) \in Nat /\ SumFunctionOnSet(PB, Kinds) \in Nat /\ IsFiniteSet(Kinds)
    BY <1>1, ProtectedType, LedgerAssumption
  <1>11. ASSUME p \notin Kinds
         PROVE  SumFunctionOnSet(PB, Kinds) = SumFunctionOnSet(PA, Kinds)
    <2> HIDE DEF PA, PB, p
    <2>1. QED
      BY <1>8, <1>9, <1>10, <1>11, SumSame
  <1>12. ASSUME p \in Kinds, P[p].state # "completed", x <= PA[p]
         PROVE  SumFunctionOnSet(PB, Kinds) + x = SumFunctionOnSet(PA, Kinds)
    <2>1. OblTokens[p] \in Nat /\ SA(p) \in Nat /\ SB(p) \in Nat
      BY <1>4, <1>12, LedgerAssumption
    <2>2. PA[p] = Minus(OblTokens[p], SA(p)) /\ PB[p] = Minus(OblTokens[p], SB(p))
      BY <1>12 DEF ProtectedIn
    <2> HIDE DEF PA, PB, x, SA, SB, p
    <2>3. PB[p] + x = PA[p]
      BY <1>3, <1>7, <1>12, <2>1, <2>2 DEF Minus
    <2>4. SumFunctionOnSet(PB, Kinds) + PA[p] = SumFunctionOnSet(PA, Kinds) + PB[p]
      BY <1>8, <1>9, <1>10, <1>12, SumChange
    <2>5. PA[p] \in Nat /\ PB[p] \in Nat
      BY <1>8, <1>12
    <2>6. QED
      BY <1>3, <1>10, <2>3, <2>4, <2>5
  <1>13. QED
    BY <1>11, <1>12

\* What reserve_request leaves behind when it admits.
LEMMA AdmitShape ==
  ASSUME GInv, GInv', BInv, NEW r \in Requests, NEW now \in Times, Admit(r, now)
  PROVE  /\ UNCHANGED <<config, authorized, bound, completions, billed>> /\ bound
         /\ r \in ActorIds /\ actors[r].kind = "none" /\ ~Proven(r)
         /\ \A b \in ActorIds : b # r => actors'[b] = actors[b]
         /\ actors'[r].kind = "request" /\ actors'[r].res = BoundFor(r) /\ actors'[r].used = 0
         /\ actors'[r].settled = FALSE /\ actors'[r].known = TRUE
         /\ actors'[r].thread = attempt[r].thread
         /\ actors'[r].purpose = sessions'[attempt[r].thread].purpose
         /\ attempt[r].thread \in Threads /\ sessions'[attempt[r].thread].on
         /\ sessions' = SessionsFor(attempt[r].thread, now)
         /\ IsFiniteSet(OpenSessions') /\ ClosedSessions' /\ SessionsKept
         /\ \A b \in Requests : attempt'[b].at \in {"reserved", "sent"} /\ b # r => attempt'[b] = attempt[b]
         /\ plan # Nobody => \A k \in Kinds : plan'[k].state = plan[k].state
  <1> DEFINE t == attempt[r].thread
             ss == SessionsFor(t, now)
             q == [kind |-> "request", res |-> BoundFor(r), sec |-> ReqSeconds, used |-> 0,
                   settled |-> FALSE, known |-> TRUE, dl |-> ss[t].dl, thread |-> t, purpose |-> ss[t].purpose]
  <1>1. attempt[r].at = "deciding" /\ t \in Threads /\ bound /\ actors[r] = Absent /\ Untouched(r)
    BY DEF Admit, ReserveRequest, GInv, AttemptActors
  <1>2. /\ actors' = [actors EXCEPT ![r] = q] /\ sessions' = ss /\ actors[r].kind = "none"
        /\ UNCHANGED <<config, authorized, bound, completions, billed>>
        /\ attempt' = [attempt EXCEPT ![r].at = "reserved"]
        /\ plan' \in {plan, [plan EXCEPT ![Remediation].started = TRUE]}
        /\ plan' # plan => plan # Nobody
    BY DEF Admit, ReserveRequest
  <1>3. r \in ActorIds /\ actors \in [ActorIds -> Actor] /\ ~Proven(r)
        /\ attempt \in [Requests -> [at : Phases, thread : Threads \cup {Nobody}, inactive : BOOLEAN]]
    BY <1>1, ActorSets DEF GInv, TypeOK, LedgerTypeOK, GatewayTypeOK, Untouched, Proven
  <1>4. actors'[r] = q /\ \A b \in ActorIds : b # r => actors'[b] = actors[b]
    BY <1>2, <1>3
  <1>5. /\ q.kind = "request" /\ q.res = BoundFor(r) /\ q.used = 0 /\ q.settled = FALSE /\ q.known = TRUE
        /\ q.thread = t /\ q.purpose = ss[t].purpose
    OBVIOUS
  <1> HIDE DEF q
  <1>6. IsFiniteSet(OpenSessions') /\ ClosedSessions' /\ SessionsKept
    <2> HIDE DEF ss, t
    <2>1. \/ SessionsFor(t, now) = sessions
          \/ \E u \in Threads, s \in Session :
               ~sessions[u].on /\ s.on /\ s.prior = 0 /\ SessionsFor(t, now) = [sessions EXCEPT ![u] = s]
      BY <1>1, SessionsForOpen, Zenon
    <2>2. ss = SessionsFor(t, now)
      BY DEF ss
    <2>3. CASE sessions' = sessions
      BY <2>3 DEF OpenSessions, ClosedSessions, Group, SessionsKept, BInv, Records, LedgerFinite
    <2>4. CASE \E u \in Threads, s \in Session :
                 ~sessions[u].on /\ s.on /\ s.prior = 0 /\ sessions' = [sessions EXCEPT ![u] = s]
      BY <2>4, OpenSession
    <2>5. QED
      BY <1>2, <2>1, <2>2, <2>3, <2>4
  <1>7. sessions'[t].on
    <2>1. CASE sessions[t].on
      BY <1>2, <2>1 DEF SessionsFor
    <2>2. CASE ~sessions[t].on
      <3>1. sessions' = [sessions EXCEPT ![t] = NewSession(now)]
        BY <1>2, <2>2 DEF SessionsFor
      <3>2. sessions \in [Threads -> Session]
        BY DEF GInv, TypeOK, LedgerTypeOK
      <3>3. NewSession(now).on
        BY <1>1, NewSessionType
      <3> HIDE DEF t, ss
      <3>4. QED
        BY <1>1, <3>1, <3>2, <3>3
    <2>3. QED
      BY <2>1, <2>2
  <1>8. \A b \in Requests : attempt'[b].at \in {"reserved", "sent"} /\ b # r => attempt'[b] = attempt[b]
    BY <1>2, <1>3
  <1>9. plan # Nobody => \A k \in Kinds : plan'[k].state = plan[k].state
    <2>1. CASE plan' = plan
      BY <2>1
    <2>2. CASE plan' # plan
      <3>1. plan # Nobody /\ plan \in [Kinds -> Obligation] /\ Remediation \in Kinds
            /\ plan' = [plan EXCEPT ![Remediation].started = TRUE]
        BY <1>2, <2>2, LedgerAssumption DEF GInv, TypeOK, LedgerTypeOK
      <3>2. \A k \in Kinds : k # Remediation => plan'[k] = plan[k]
        BY <3>1
      <3>3. plan'[Remediation] = [plan[Remediation] EXCEPT !.started = TRUE] /\ plan[Remediation] \in Obligation
        BY <3>1
      <3>4. plan'[Remediation].state = plan[Remediation].state
        BY <3>3 DEF Obligation
      <3>5. QED
        BY <3>1, <3>2, <3>4
    <2>3. QED
      BY <2>1, <2>2
  <1>10. QED
    BY <1>1, <1>2, <1>3, <1>4, <1>5, <1>6, <1>7, <1>8, <1>9

LEMMA AdmitRecords ==
  ASSUME GInv, GInv', BInv, NEW r \in Requests, NEW now \in Times, Admit(r, now)
  PROVE  /\ Records' /\ BillsKept /\ Exposure' = Exposure
         /\ Enrolled' = Enrolled \cup {r} /\ r \notin Enrolled
         /\ Load(actors') = Load(actors) + BoundFor(r)
  <1>1. /\ UNCHANGED <<config, authorized, bound, completions, billed>> /\ bound
        /\ r \in ActorIds /\ actors[r].kind = "none" /\ ~Proven(r)
        /\ \A b \in ActorIds : b # r => actors'[b] = actors[b]
        /\ actors'[r].kind = "request" /\ actors'[r].res = BoundFor(r) /\ actors'[r].used = 0
        /\ actors'[r].settled = FALSE /\ actors'[r].known = TRUE
        /\ actors'[r].thread \in Threads /\ sessions'[actors'[r].thread].on
        /\ IsFiniteSet(OpenSessions') /\ ClosedSessions' /\ SessionsKept
        /\ \A b \in Requests : attempt'[b].at \in {"reserved", "sent"} /\ b # r => attempt'[b] = attempt[b]
    BY AdmitShape
  <1>2. Enrolled' = Enrolled \cup {r} /\ r \notin Enrolled
    BY <1>1 DEF Enrolled
  <1>3. LedgerFinite'
    BY <1>1, <1>2, FS_AddElement DEF BInv, Records, LedgerFinite
  <1>4. (\A b : Proven(b)' = Proven(b)) /\ Exposure' = Exposure
    BY <1>1 DEF Proven, Exposure
  <1>5. OpenSessions \subseteq OpenSessions' /\ actors'[r].thread \in OpenSessions'
    BY <1>1 DEF SessionsKept, OpenSessions
  <1>6. BoundFor(r) \in {0, ReqBound} /\ ReqBound \in Nat /\ ~(0 > 0)
    BY GatewayAssumption DEF BoundFor
  <1>7. RequestTerms'
    <2> SUFFICES ASSUME NEW b \in Requests
                 PROVE  /\ actors'[b].kind \in {"none", "request"}
                        /\ Governed(b)' => actors'[b].res = ReqBound /\ actors'[b].thread \in OpenSessions'
                        /\ Proven(b)' => actors'[b].kind = "request"
                        /\ attempt'[b].at \in {"reserved", "sent"} => actors'[b].kind = "request" /\ actors'[b].known
                        /\ actors'[b].known /\ actors'[b].res > 0 => actors'[b].used <= actors'[b].res
      BY DEF RequestTerms
    <2>1. CASE b = r
      <3>1. actors'[b].used <= actors'[b].res
        BY <1>1, <1>6, <2>1
      <3>2. Governed(b)' => actors'[b].res = ReqBound
        BY <1>1, <1>6, <2>1 DEF Governed
      <3>3. QED
        BY <1>1, <1>5, <2>1, <3>1, <3>2
    <2>2. CASE b # r
      <3>1. actors'[b] = actors[b]
        BY <1>1, <2>2, ActorSets
      <3>2. Governed(b)' = Governed(b)
        BY <3>1 DEF Governed
      <3>3. QED
        BY <1>1, <1>4, <1>5, <2>2, <3>1, <3>2 DEF BInv, Records, RequestTerms
    <2>3. QED
      BY <2>1, <2>2
  <1>8. ProofsBilled' /\ ConfigAuthorized' /\ PlanBound'
    BY <1>1 DEF BInv, Records, ProofsBilled, ConfigAuthorized, PlanBound
  <1>9. OneOwner'
    BY <1>1, ActorSets DEF BInv, Records, OneOwner
  <1>10. Load(actors') = Load(actors) + BoundFor(r)
    <2>1. actors \in [ActorIds -> Actor] /\ actors' \in [ActorIds -> Actor] /\ IsFiniteSet(EnrolledIn(actors))
      BY LoadNow DEF GInv, TypeOK, LedgerTypeOK, BInv, Records, LedgerFinite
    <2>2. QED
      BY <1>1, <2>1, JoinLoad
  <1>11. BillsKept
    BY <1>1, <1>4 DEF BillsKept
  <1>12. QED
    BY <1>1, <1>2, <1>3, <1>4, <1>7, <1>8, <1>9, <1>10, <1>11 DEF Records

\* A passthrough attempt joins with nothing reserved.
LEMMA AdmitInactive ==
  ASSUME GInv, GInv', BInv, NEW r \in Requests, NEW now \in Times, Admit(r, now), attempt[r].inactive
  PROVE  BInv' /\ Kept
  <1>1. Records' /\ BillsKept /\ Enrolled' = Enrolled \cup {r}
    BY AdmitRecords
  <1>2. /\ authorized' = authorized /\ actors[r].kind = "none" /\ SessionsKept
        /\ \A b \in ActorIds : b # r => actors'[b] = actors[b]
        /\ actors'[r].res = BoundFor(r)
    BY AdmitShape
  <1>3. actors'[r].res = 0 /\ ~(0 > 0)
    BY <1>2 DEF BoundFor
  <1>4. \A b \in Requests : /\ Governed(b)' <=> Governed(b)
                            /\ Governed(b) => actors'[b].thread = actors[b].thread
    BY <1>2, <1>3, ActorSets DEF Governed
  <1>5. WithinCap' /\ SessionsWithinCap'
    BY <1>1, <1>2, <1>4, CapFrame DEF BInv
  <1>6. ~ \A a \in Enrolled' : actors'[a].res > 0
    BY <1>1, <1>3
  <1>7. QED
    BY <1>1, <1>5, <1>6 DEF BInv, KnownWithinLimit, Kept

\* The limits an active admission was held to.
LEMMA AdmitTerms ==
  ASSUME GInv, GInv', BInv, NEW r \in Requests, NEW now \in Times, Admit(r, now), ~attempt[r].inactive
  PROVE  /\ BoundFor(r) = ReqBound /\ ReqBound \in Nat /\ ReqBound > 0
         /\ config \in authorized /\ config.tok \in Nat /\ config.sessTok \in Nat
         /\ Load(actors) \in Nat /\ Load(actors) + ReqBound <= config.tok
         /\ SessionUsed(attempt[r].thread, sessions') + ReqBound <= config.sessTok
         /\ plan # Nobody => LeavesCompletionFunded(sessions'[attempt[r].thread].purpose, ReqBound, ReqSeconds, now)
  <1> DEFINE t == attempt[r].thread
  <1>1. BoundFor(r) = ReqBound /\ ReqBound \in Nat /\ ReqBound > 0
    BY GatewayAssumption DEF BoundFor
  <1>2. bound /\ sessions' = SessionsFor(t, now)
    BY AdmitShape
  <1>3. config \in authorized /\ config.tok \in Nat /\ config.sessTok \in Nat
    <2>1. config # Nobody
      BY <1>2 DEF GInv, BoundConfigured
    <2>2. config \in authorized /\ config \in Configs
      BY <2>1 DEF BInv, Records, ConfigAuthorized, GInv, TypeOK, LedgerTypeOK
    <2>3. QED
      BY <2>2, ConfigLimits
  <1>4. /\ WithinAllowance(t, sessions', ReqBound, ReqSeconds, now)
        /\ plan # Nobody => LeavesCompletionFunded(sessions'[t].purpose, ReqBound, ReqSeconds, now)
    BY <1>1, <1>2 DEF Admit, Admitted
  <1>5. RemainingTokens = Minus(config.tok, Load(actors)) /\ Load(actors) \in Nat
    BY FeasibleNow, LoadNow DEF BInv, Records, LedgerFinite
  <1>6. ReqBound <= Minus(config.tok, Load(actors)) /\ SessionUsed(t, sessions') + ReqBound <= config.sessTok
    BY <1>4, <1>5 DEF WithinAllowance
  <1>7. Load(actors) + ReqBound <= config.tok
    BY <1>1, <1>3, <1>5, <1>6 DEF Minus
  <1>8. QED
    BY <1>1, <1>3, <1>4, <1>5, <1>6, <1>7

LEMMA AdmitCap ==
  ASSUME GInv, GInv', BInv, NEW r \in Requests, NEW now \in Times, Admit(r, now), ~attempt[r].inactive
  PROVE  /\ WithinCap' /\ Governeds' = Governeds \cup {r} /\ r \notin Governeds
         /\ Exposure[r] = ReqBound /\ \A b \in Requests : Exposure[b] \in Nat
  <1>1. Exposure' = Exposure /\ Enrolled' = Enrolled \cup {r}
    BY AdmitRecords
  <1>2. /\ authorized' = authorized /\ actors[r].kind = "none" /\ ~Proven(r)
        /\ \A b \in ActorIds : b # r => actors'[b] = actors[b]
        /\ actors'[r].kind = "request" /\ actors'[r].res = BoundFor(r)
    BY AdmitShape
  <1>3. /\ BoundFor(r) = ReqBound /\ ReqBound \in Nat /\ ReqBound > 0
        /\ config \in authorized /\ config.tok \in Nat
        /\ Load(actors) \in Nat /\ Load(actors) + ReqBound <= config.tok
    BY AdmitTerms
  <1>4. Governeds' = Governeds \cup {r} /\ r \notin Governeds
    BY <1>2, <1>3, ActorSets DEF Governeds, Governed
  <1>5. Exposure[r] = ReqBound /\ \A b \in Requests : Exposure[b] \in Nat
    BY <1>2, ExposureNow DEF Exposure
  <1>6. /\ IsFiniteSet(Governeds) /\ Governeds \subseteq Requests /\ Governeds \subseteq Enrolled
        /\ IsFiniteSet(Enrolled)
    BY GovernedsFinite DEF BInv, Records, LedgerFinite
  <1>7. SumFunctionOnSet(Exposure, Governeds \cup {r}) = SumFunctionOnSet(Exposure, Governeds) + ReqBound
    <2>1. \A b \in Governeds : Exposure[b] \in Nat
      BY <1>5, <1>6
    <2>2. SumFunctionOnSet(Exposure, Governeds \cup {r}) = SumFunctionOnSet(Exposure, Governeds) + Exposure[r]
      BY <1>3, <1>4, <1>5, <1>6, <2>1, SumAdd
    <2>3. QED
      BY <1>5, <2>2
  <1>8. SumFunctionOnSet(Exposure, Governeds) \in Nat /\ SumFunctionOnSet(Charges, Enrolled) \in Nat
        /\ \A a \in Enrolled : Charges[a] \in Nat
    <2>1. \A a \in Enrolled : Charges[a] \in Nat
      BY <1>6, LoadNow, ChargeType DEF GInv, TypeOK, LedgerTypeOK
    <2>2. QED
      BY <1>5, <1>6, <2>1, SumNat
  <1>9. SumFunctionOnSet(Exposure, Governeds) <= SumFunctionOnSet(Charges, Enrolled)
    <2>1. \A a \in Governeds : Exposure[a] <= Charges[a] /\ Exposure[a] \in Nat
      BY <1>5, <1>6, ChargeCovers DEF BInv
    <2>2. \A a \in Enrolled : Share(Exposure, Governeds, a) <= Share(Charges, Enrolled, a)
      BY <1>8, <2>1 DEF Share
    <2>3. QED
      BY <1>6, <1>8, <2>1, <2>2, SumMonotone
  <1>10. Load(actors) = Prior + SumFunctionOnSet(Charges, Enrolled) /\ Prior \in Nat
    BY <1>6, LoadNow, LedgerAssumption DEF Load
  <1>11. Prior + SumFunctionOnSet(Exposure, Governeds \cup {r}) <= config.tok
    BY <1>3, <1>7, <1>8, <1>9, <1>10
  <1>12. WithinCap'
    BY <1>1, <1>2, <1>3, <1>4, <1>11 DEF WithinCap
  <1>13. QED
    BY <1>4, <1>5, <1>12

\* The group that admits the attempt is charged for it and for all it spent.
LEMMA AdmitGroup ==
  ASSUME GInv, GInv', BInv, NEW r \in Requests, NEW now \in Times, Admit(r, now), ~attempt[r].inactive,
         NEW t \in Threads, t = attempt[r].thread, NEW x \in Threads, x = Group(t)'
  PROVE  \E c \in authorized :
           SumFunctionOnSet(Exposure, Spent(x) \cup {r}) + SumFunctionOnSet(Priors', Family(x)') <= c.sessTok
  <1> DEFINE M == GroupMembers(t, sessions')
             C == {a \in Enrolled : actors[a].thread \in M}
             priors == [u \in Threads |-> sessions'[u].prior]
  <1>1. Records'
    BY AdmitRecords
  <1>2. ClosedSessions' /\ SessionsKept
    BY AdmitShape
  <1>3. /\ ReqBound \in Nat /\ config \in authorized /\ config.sessTok \in Nat
        /\ SessionUsed(t, sessions') + ReqBound <= config.sessTok
    BY AdmitTerms
  <1>4. /\ r \notin Governeds /\ Exposure[r] = ReqBound /\ \A b \in Requests : Exposure[b] \in Nat
    BY AdmitCap
  <1>5. SessionUsed(t, sessions') = SumFunctionOnSet(Priors', M) + SumFunctionOnSet(Charges, C)
    BY DEF SessionUsed, Priors
  <1>6. M = {u \in Threads : sessions'[u].on /\ Group(u)' = x}
    BY DEF GroupMembers, Group
  <1>7. IsFiniteSet(Family(x)') /\ Family(x)' \subseteq Threads /\ \A u \in Threads : Priors'[u] \in Nat
    BY <1>1, FamilyFiniteNext DEF Family
  <1>8. M \subseteq Family(x)' /\ IsFiniteSet(M)
    <2>1. M \subseteq Family(x)'
      BY <1>6 DEF Family
    <2>2. QED
      BY <1>7, <2>1, FS_Subset
  <1>9. IsFiniteSet(Spent(x)) /\ Spent(x) \subseteq Governeds /\ Governeds \subseteq Requests
        /\ IsFiniteSet(Enrolled) /\ Governeds \subseteq Enrolled
    BY GovernedsFinite DEF BInv, Records, LedgerFinite
  <1>10. Spent(x) \subseteq C
    <2> SUFFICES ASSUME NEW b \in Spent(x) PROVE b \in C
      OBVIOUS
    <2>1. b \in Requests /\ Governed(b) /\ Group(actors[b].thread) = x /\ b \in Governeds /\ b \in Enrolled
      BY <1>9 DEF Spent, Governeds
    <2>2. actors[b].thread \in OpenSessions
      BY <2>1, ChargeCovers DEF BInv
    <2>3. PICK u \in Threads : u = actors[b].thread /\ sessions[u].on /\ Group(u) = x
      BY <2>1, <2>2 DEF OpenSessions
    <2>4. sessions'[u].on /\ Group(u)' = Group(u)
      BY <1>2, <2>3 DEF SessionsKept
    <2>5. u \in M
      BY <1>6, <2>3, <2>4
    <2>6. QED
      BY <2>1, <2>3, <2>5
  <1>11. C \subseteq Enrolled /\ IsFiniteSet(C) /\ \A a \in Enrolled : Charges[a] \in Nat
    <2>1. C \subseteq Enrolled
      OBVIOUS
    <2>2. \A a \in Enrolled : Charges[a] \in Nat
      BY <1>9, LoadNow, ChargeType DEF GInv, TypeOK, LedgerTypeOK
    <2>3. QED
      BY <1>9, <2>1, <2>2, FS_Subset
  <1> HIDE DEF C, M
  <1>12. SumFunctionOnSet(Exposure, Spent(x)) <= SumFunctionOnSet(Charges, C)
    <2>1. \A a \in Spent(x) : Exposure[a] <= Charges[a] /\ Exposure[a] \in Nat
      BY <1>4, <1>9, ChargeCovers DEF BInv
    <2>2. \A a \in C : Charges[a] \in Nat
      BY <1>11
    <2>3. \A a \in C : Share(Exposure, Spent(x), a) <= Share(Charges, C, a)
      BY <2>1, <2>2 DEF Share
    <2>4. QED
      BY <1>10, <1>11, <2>1, <2>2, <2>3, SumMonotone
  <1>13. SumFunctionOnSet(Priors', Family(x)') <= SumFunctionOnSet(Priors', M)
    <2> DEFINE F == Family(x)'
               P == Priors'
    <2>1. \A u \in F : u \notin M => P[u] = 0
      BY <1>2, <1>6 DEF Family, ClosedSessions, Priors
    <2>2. (\A u \in F : P[u] \in Nat) /\ (\A u \in M : P[u] \in Nat) /\ M \in SUBSET F /\ IsFiniteSet(F)
      BY <1>7, <1>8
    <2> HIDE DEF F, P
    <2>3. \A u \in F : Share(P, F, u) <= Share(P, M, u)
      BY <2>1, <2>2 DEF Share
    <2>4. SumFunctionOnSet(P, F) <= SumFunctionOnSet(P, M)
      BY <2>2, <2>3, SumMonotone
    <2>5. QED
      BY <2>4 DEF F, P
  <1>14. SumFunctionOnSet(Exposure, Spent(x) \cup {r}) = SumFunctionOnSet(Exposure, Spent(x)) + ReqBound
    <2>1. r \notin Spent(x) /\ \A b \in Spent(x) : Exposure[b] \in Nat
      BY <1>4, <1>9
    <2>2. SumFunctionOnSet(Exposure, Spent(x) \cup {r}) = SumFunctionOnSet(Exposure, Spent(x)) + Exposure[r]
      BY <1>3, <1>4, <1>9, <2>1, SumAdd
    <2>3. QED
      BY <1>4, <2>2
  <1>15. /\ SumFunctionOnSet(Exposure, Spent(x)) \in Nat /\ SumFunctionOnSet(Charges, C) \in Nat
         /\ SumFunctionOnSet(Priors', Family(x)') \in Nat /\ SumFunctionOnSet(Priors', M) \in Nat
    <2>1. \A b \in Spent(x) : Exposure[b] \in Nat
      BY <1>4, <1>9
    <2>2. (\A u \in Family(x)' : Priors'[u] \in Nat) /\ (\A u \in M : Priors'[u] \in Nat)
      BY <1>7, <1>8
    <2>3. \A a \in C : Charges[a] \in Nat
      BY <1>11
    <2>4. SumFunctionOnSet(Exposure, Spent(x)) \in Nat
      BY <1>9, <2>1, SumNat
    <2>5. SumFunctionOnSet(Charges, C) \in Nat
      BY <1>11, <2>3, SumNat
    <2>6. SumFunctionOnSet(Priors', Family(x)') \in Nat /\ SumFunctionOnSet(Priors', M) \in Nat
      BY <1>7, <1>8, <2>2, SumNat
    <2>7. QED
      BY <2>4, <2>5, <2>6
  <1>16. SumFunctionOnSet(Exposure, Spent(x) \cup {r}) + SumFunctionOnSet(Priors', Family(x)') <= config.sessTok
    BY <1>3, <1>5, <1>12, <1>13, <1>14, <1>15
  <1>17. QED
    BY <1>3, <1>16

LEMMA AdmitSessions ==
  ASSUME GInv, GInv', BInv, NEW r \in Requests, NEW now \in Times, Admit(r, now), ~attempt[r].inactive
  PROVE  SessionsWithinCap'
  <1>0. PICK t \in Threads : t = attempt[r].thread
    BY AdmitShape
  <1>1. Records' /\ BillsKept /\ Exposure' = Exposure
    BY AdmitRecords
  <1>2. /\ authorized' = authorized /\ SessionsKept
        /\ actors'[r].thread = t
        /\ \A b \in ActorIds : b # r => actors'[b] = actors[b]
    BY <1>0, AdmitShape
  <1>3. Governeds' = Governeds \cup {r} /\ r \notin Governeds
    BY AdmitCap
  <1>4. PICK x \in Threads : x = Group(t)'
    <2>1. sessions' \in [Threads -> Session]
      BY DEF GInv, TypeOK, LedgerTypeOK
    <2>2. sessions'[t].group \in Threads \cup {Nobody}
      BY <1>2, <2>1 DEF Session
    <2>3. QED
      BY <2>2 DEF Group
  <1>5. \A b \in Governeds : Group(actors[b].thread)' = Group(actors[b].thread) /\ actors'[b].thread = actors[b].thread
    <2> SUFFICES ASSUME NEW b \in Governeds
                 PROVE  Group(actors[b].thread)' = Group(actors[b].thread) /\ actors'[b].thread = actors[b].thread
      OBVIOUS
    <2>1. b \in Requests /\ Governed(b) /\ b # r /\ b \in ActorIds
      BY <1>3, ActorSets DEF Governeds
    <2>2. actors'[b].thread = actors[b].thread
      BY <1>2, <2>1
    <2>3. QED
      BY <1>2, <2>1, <2>2, GroupsKept DEF BInv
  <1>6. \A u \in Threads : Spent(u) = {b \in Governeds : Group(actors[b].thread) = u}
    BY DEF Spent, Governeds
  <1>7. \A u \in Threads : Spent(u)' = {b \in Governeds' : Group(actors[b].thread)' = u}
    BY DEF Spent, Governeds
  <1>8. Group(actors[r].thread)' = x
    BY <1>2, <1>4 DEF Group
  <1>9. \A u \in Threads : u # x => Spent(u)' = Spent(u)
    <2> SUFFICES ASSUME NEW u \in Threads, u # x PROVE Spent(u)' = Spent(u)
      OBVIOUS
    <2>1. \A b : b \in Spent(u)' <=> b \in Governeds /\ Group(actors[b].thread)' = u
      BY <1>3, <1>7, <1>8
    <2>2. \A b : b \in Spent(u) <=> b \in Governeds /\ Group(actors[b].thread) = u
      BY <1>6
    <2>3. \A b : b \in Spent(u)' <=> b \in Spent(u)
      BY <1>5, <2>1, <2>2
    <2>4. QED
      BY <2>3
  <1>10. Spent(x)' = Spent(x) \cup {r}
    BY <1>3, <1>4, <1>5, <1>6, <1>7, <1>8
  <1> SUFFICES ASSUME NEW u \in Threads, Spent(u)' # {}
               PROVE  \E c \in authorized :
                        SumFunctionOnSet(Exposure', Spent(u)') + SumFunctionOnSet(Priors', Family(u)') <= c.sessTok
    BY <1>2 DEF SessionsWithinCap
  <1>11. CASE u = x
    <2>1. u = Group(t)'
      BY <1>4, <1>11
    <2>2. \E c \in authorized :
            SumFunctionOnSet(Exposure, Spent(u) \cup {r}) + SumFunctionOnSet(Priors', Family(u)') <= c.sessTok
      BY <1>0, <2>1, AdmitGroup
    <2>3. Spent(u)' = Spent(u) \cup {r}
      BY <1>10, <1>11
    <2>4. QED
      BY <1>1, <2>2, <2>3
  <1>12. CASE u # x
    <2>1. Spent(u)' = Spent(u)
      BY <1>9, <1>12
    <2>2. QED
      BY <1>1, <1>2, <2>1, SessionFrame DEF BInv
  <1>13. QED
    BY <1>11, <1>12

LEMMA AdmitProtects ==
  ASSUME GInv, GInv', BInv, NEW r \in Requests, NEW now \in Times, Admit(r, now), ~attempt[r].inactive,
         plan # Nobody, TokenFeasible
  PROVE  TokenFeasible'
  <1> DEFINE p == sessions'[attempt[r].thread].purpose
             SA == SumFunctionOnSet(ProtectedIn(actors, plan), Kinds)
             SB == SumFunctionOnSet(ProtectedIn(actors', plan), Kinds)
             own == ProtectedIn(actors, plan)[p]
             left == Minus(config.tok, Load(actors))
  <1>1. /\ BoundFor(r) = ReqBound /\ ReqBound \in Nat /\ config.tok \in Nat
        /\ Load(actors) \in Nat /\ Load(actors) + ReqBound <= config.tok
        /\ LeavesCompletionFunded(p, ReqBound, ReqSeconds, now)
    BY AdmitTerms
  <1>2. /\ config' = config
        /\ r \in ActorIds /\ actors[r].kind = "none"
        /\ \A b \in ActorIds : b # r => actors'[b] = actors[b]
        /\ actors'[r].kind = "request" /\ actors'[r].res = BoundFor(r) /\ actors'[r].used = 0
        /\ actors'[r].settled = FALSE /\ actors'[r].purpose = p
        /\ \A k \in Kinds : plan'[k].state = plan[k].state
    BY AdmitShape
  <1>3. Records' /\ Load(actors') = Load(actors) + BoundFor(r)
    BY AdmitRecords
  <1>4. /\ actors \in [ActorIds -> Actor] /\ actors' \in [ActorIds -> Actor]
        /\ IsFiniteSet(Enrolled) /\ IsFiniteSet(Enrolled')
    BY <1>3 DEF GInv, TypeOK, LedgerTypeOK, BInv, Records, LedgerFinite
  <1>5. IsFiniteSet(EnrolledIn(actors)) /\ IsFiniteSet(EnrolledIn(actors'))
    BY <1>4, LoadNow, LoadNext
  <1>6. SumFunctionOnSet(ProtectedIn(actors', plan'), Kinds) <= SB
    BY <1>2, <1>4, <1>5, ProtectedCloses
  <1>7. /\ SA \in Nat /\ SB \in Nat /\ SumFunctionOnSet(ProtectedIn(actors', plan'), Kinds) \in Nat
        /\ \A k \in Kinds : ProtectedIn(actors, plan)[k] \in Nat
    BY <1>4, <1>5, ProtectedType
  <1>8. SumFunction(ProtectedTokens) = SA /\ ProtectedTokens = ProtectedIn(actors, plan) /\ RemainingTokens = left /\ SA <= left
    BY <1>4, FeasibleNow
  <1>9. p \in Kinds \cup {Nobody}
    BY <1>2, <1>4 DEF Actor
  <1>10. /\ p \notin Kinds => SB = SA
         /\ p \in Kinds /\ plan[p].state # "completed" /\ ReqBound <= own => SB + ReqBound = SA
    BY <1>1, <1>2, <1>4, <1>5, JoinProtection
  <1>11. SB + ReqBound <= left
    <2>1. CASE p = Nobody
      <3>1. ReqBound + (SA - 0) <= left
        BY <1>1, <1>8, <2>1 DEF LeavesCompletionFunded
      <3>2. p \notin Kinds
        BY <2>1, LedgerAssumption
      <3> HIDE DEF SA, SB, left, p
      <3>3. QED
        BY <1>1, <1>7, <1>10, <3>1, <3>2
    <2>2. CASE p \in Kinds
      <3>1. p # Nobody
        BY <2>2, LedgerAssumption
      <3>2. plan[p].state # "completed" /\ ReqBound <= own
        BY <1>1, <1>8, <3>1 DEF LeavesCompletionFunded
      <3> HIDE DEF SA, SB, left, own, p
      <3>3. QED
        BY <1>8, <1>10, <2>2, <3>2
    <2>3. QED
      BY <1>9, <2>1, <2>2
  <1>12. SB <= Minus(config.tok, Load(actors) + ReqBound)
    <2> HIDE DEF SB
    <2>1. SB \in Nat
      BY <1>7
    <2>2. QED
      BY <1>1, <1>11, <2>1 DEF Minus
  <1>13. Minus(config.tok, Load(actors) + ReqBound) \in Nat
    BY <1>1 DEF Minus
  <1>14. SumFunctionOnSet(ProtectedIn(actors', plan'), Kinds) <= Minus(config'.tok, Load(actors'))
    <2>1. Minus(config'.tok, Load(actors')) = Minus(config.tok, Load(actors) + ReqBound)
      BY <1>1, <1>2, <1>3
    <2> HIDE DEF SB
    <2>2. QED
      BY <1>6, <1>7, <1>12, <1>13, <2>1
  <1>15. QED
    BY <1>4, <1>14, FeasibleNext

LEMMA AdmitBudget ==
  ASSUME GInv, GInv', BInv, NEW r \in Requests, NEW now \in Times, Admit(r, now)
  PROVE  BInv' /\ Kept
  <1>1. CASE attempt[r].inactive
    BY <1>1, AdmitInactive
  <1>2. CASE ~attempt[r].inactive
    <2>1. Records' /\ Load(actors') = Load(actors) + BoundFor(r)
      BY AdmitRecords
    <2>2. BoundFor(r) = ReqBound /\ Load(actors) + ReqBound <= config.tok
      BY <1>2, AdmitTerms
    <2>3. config' = config
      BY AdmitShape
    <2>4. KnownWithinLimit'
      BY <2>1, <2>2, <2>3 DEF KnownWithinLimit
    <2>5. Kept
      BY <1>2, AdmitProtects DEF Kept
    <2>6. WithinCap' /\ SessionsWithinCap'
      BY <1>2, AdmitCap, AdmitSessions
    <2>7. QED
      BY <2>1, <2>4, <2>5, <2>6 DEF BInv
  <1>3. QED
    BY <1>1, <1>2
-----------------------------------------------------------------------------
(* The allowance, step by step.                                            *)

LEMMA InitBudget ==
  ASSUME Init
  PROVE  BInv
  <1>1. Enrolled = {} /\ OpenSessions = {} /\ authorized = {} /\ config = Nobody /\ ~bound /\ plan = Nobody
    BY DEF Init, LedgerInit, Enrolled, OpenSessions, Absent, NoSession
  <1>2. \A r \in Requests : /\ actors[r].kind = "none" /\ attempt[r].at = "new" /\ ~Governed(r)
                            /\ actors[r].used = 0 /\ actors[r].res = 0
    BY ActorSets DEF Init, LedgerInit, Absent, Fresh, Governed
  <1>3. \A p \in Responses : completions[p].actor = Nobody
    BY DEF Init, LedgerInit
  <1>4. \A r \in Requests : r # Nobody /\ ~Proven(r)
    BY <1>3, LedgerAssumption DEF ActorIds, Proven
  <1>5. LedgerFinite /\ ConfigAuthorized /\ OneOwner /\ PlanBound
    BY <1>1, FS_EmptySet DEF LedgerFinite, ConfigAuthorized, OneOwner, PlanBound
  <1>6. RequestTerms
    BY <1>2, <1>4 DEF RequestTerms
  <1>7. ProofsBilled
    BY <1>4 DEF ProofsBilled, Proven
  <1>8. ClosedSessions
    BY DEF Init, LedgerInit, ClosedSessions, NoSession
  <1>9. WithinCap /\ SessionsWithinCap /\ KnownWithinLimit
    BY <1>1, <1>2 DEF WithinCap, SessionsWithinCap, KnownWithinLimit, Governeds, Spent
  <1>10. QED
    BY <1>5, <1>6, <1>7, <1>8, <1>9 DEF BInv, Records

LEMMA NextBudget ==
  ASSUME GInv, BInv, [Next]_vars
  PROVE  BInv' /\ Kept
  <1>0. GInv'
    BY NextInv
  <1>1. CASE UNCHANGED vars \/ Crash \/ SwitchStep
    BY <1>0, <1>1, QuietBudget
  <1>2. CASE LedgerStep /\ UNCHANGED gateway
    <2>1. CASE BindRequests
      BY <1>0, <1>2, <2>1, BindBudget
    <2>2. CASE \E t, source \in Threads : ContinueThread(t, source)
      BY <1>0, <1>2, <2>2, ThreadBudget
    <2>3. QED
      BY <1>0, <1>2, <2>1, <2>2, HostBudget, LifeBudget DEF LedgerStep
  <1>3. CASE \E r \in Requests : AttemptStep(r)
    <2>1. PICK r \in Requests : AttemptStep(r)
      BY <1>3
    <2>2. QED
      BY <1>0, <2>1, QuietBudget, AdmitBudget, UnknownBudget, CompleteBudget DEF AttemptStep
  <1>4. CASE \E t \in Threads, now \in Times : InheritThread(t, now)
    BY <1>0, <1>4, ThreadBudget
  <1>5. QED
    BY <1>1, <1>2, <1>3, <1>4 DEF Next

\* The invariant of the allowance: the governed attempts' exposure fits into an
\* approved limit, in total and per session group.
THEOREM AllowanceInvariant == Spec => [](GInv /\ BInv)
  <1>1. Init => GInv /\ BInv
    BY InitInv, InitBudget
  <1>2. (GInv /\ BInv) /\ [Next]_vars => (GInv /\ BInv)'
    BY NextInv, NextBudget
  <1>3. QED
    BY <1>1, <1>2, PTL DEF Spec

\* A limit of the authorization history is at most the largest of them.
LEMMA LargestLimit ==
  ASSUME GInv, BInv, NEW c \in authorized
  PROVE  /\ c.tok <= Max({d.tok : d \in authorized}) /\ Max({d.tok : d \in authorized}) \in Nat
         /\ c.sessTok <= Max({d.sessTok : d \in authorized}) /\ Max({d.sessTok : d \in authorized}) \in Nat
  <1> DEFINE T == {d.tok : d \in authorized}
             S == {d.sessTok : d \in authorized}
             f == [d \in authorized |-> d.tok]
             g == [d \in authorized |-> d.sessTok]
  <1>1. \A d \in authorized : d.tok \in Nat /\ d.sessTok \in Nat
    BY ConfigLimits DEF GInv, TypeOK, LedgerTypeOK
  <1>2. T \in SUBSET Nat /\ S \in SUBSET Nat /\ c.tok \in T /\ c.sessTok \in S
    BY <1>1
  <1>3. f \in Surjection(authorized, T)
    BY DEF Surjection
  <1>4. g \in Surjection(authorized, S)
    BY DEF Surjection
  <1>5. IsFiniteSet(authorized)
    BY DEF BInv, Records, LedgerFinite
  <1> HIDE DEF T, S, f, g
  <1>6. IsFiniteSet(T) /\ IsFiniteSet(S)
    BY <1>3, <1>4, <1>5, FS_Surjection
  <1>7. Max(T) \in T /\ c.tok <= Max(T)
    BY <1>2, <1>6, MaxIn
  <1>8. Max(S) \in S /\ c.sessTok <= Max(S)
    BY <1>2, <1>6, MaxIn
  <1>9. Max(T) \in Nat /\ Max(S) \in Nat
    BY <1>2, <1>7, <1>8
  <1>10. QED
    BY <1>7, <1>8, <1>9 DEF T, S

\* A provider that honours the contract bills no more than the exposure.
LEMMA BillsCovered ==
  ASSUME GInv, BInv, ContractHonoured, NEW R, IsFiniteSet(R), R \subseteq Governeds
  PROVE  /\ SumFunctionOnSet(billed, R) <= SumFunctionOnSet(Exposure, R)
         /\ SumFunctionOnSet(billed, R) \in Nat /\ SumFunctionOnSet(Exposure, R) \in Nat
  <1>1. \A r \in R : r \in Requests /\ billed[r] <= ReqBound
    BY DEF Governeds, ContractHonoured
  <1>2. \A r \in R : billed[r] \in Nat /\ Exposure[r] \in Nat /\ billed[r] <= Exposure[r]
    BY <1>1, ExposureNow DEF GInv, TypeOK, GatewayTypeOK
  <1>3. \A r \in R : Share(billed, R, r) <= Share(Exposure, R, r)
    BY <1>2 DEF Share
  <1>4. QED
    BY <1>2, <1>3, SumMonotone, SumNat

\* No crash, timeout, failed submission or duplicate report lets the governed
\* requests of a provider that honours the contract cost more than the largest
\* limit an operator approved.
THEOREM BillsWithinCap == Spec => []BilledWithinCap
  <1>1. GInv /\ BInv => BilledWithinCap
    <2> SUFFICES ASSUME GInv, BInv, ContractHonoured, Governeds # {}
                 PROVE  Prior + SumFunctionOnSet(billed, Governeds) <= Max({c.tok : c \in authorized})
      BY DEF BilledWithinCap, Governeds
    <2>1. PICK c \in authorized : Prior + SumFunctionOnSet(Exposure, Governeds) <= c.tok
      BY DEF BInv, WithinCap
    <2>2. /\ SumFunctionOnSet(billed, Governeds) <= SumFunctionOnSet(Exposure, Governeds)
          /\ SumFunctionOnSet(billed, Governeds) \in Nat /\ SumFunctionOnSet(Exposure, Governeds) \in Nat
      BY GovernedsFinite, BillsCovered DEF BInv
    <2>3. c.tok <= Max({d.tok : d \in authorized}) /\ Max({d.tok : d \in authorized}) \in Nat
      BY LargestLimit
    <2>4. c.tok \in Nat /\ Prior \in Nat
      BY ConfigLimits, LedgerAssumption DEF GInv, TypeOK, LedgerTypeOK
    <2>5. QED
      BY <2>1, <2>2, <2>3, <2>4
  <1>2. QED
    BY <1>1, AllowanceInvariant, PTL

\* The threads a conversation is continued on share one session limit.
THEOREM GroupsWithinSessionCap == Spec => []SessionCapShared
  <1>1. GInv /\ BInv => SessionCapShared
    <2> SUFFICES ASSUME GInv, BInv, ContractHonoured, NEW t \in Threads, Spent(t) # {}
                 PROVE  SumFunctionOnSet(billed, Spent(t)) + SumFunctionOnSet(Priors, Family(t))
                          <= Max({c.sessTok : c \in authorized})
      BY DEF SessionCapShared, Spent, Family, Priors
    <2>1. PICK c \in authorized :
            SumFunctionOnSet(Exposure, Spent(t)) + SumFunctionOnSet(Priors, Family(t)) <= c.sessTok
      BY DEF BInv, SessionsWithinCap
    <2>2. /\ SumFunctionOnSet(billed, Spent(t)) <= SumFunctionOnSet(Exposure, Spent(t))
          /\ SumFunctionOnSet(billed, Spent(t)) \in Nat /\ SumFunctionOnSet(Exposure, Spent(t)) \in Nat
      BY GovernedsFinite, BillsCovered DEF BInv
    <2>3. SumFunctionOnSet(Priors, Family(t)) \in Nat
      <3>1. \A u \in Family(t) : Priors[u] \in Nat
        BY FamilyFinite DEF BInv, Family
      <3>2. IsFiniteSet(Family(t))
        BY FamilyFinite DEF BInv
      <3>3. QED
        BY <3>1, <3>2, SumNat
    <2>4. c.sessTok <= Max({d.sessTok : d \in authorized}) /\ Max({d.sessTok : d \in authorized}) \in Nat
      BY LargestLimit
    <2>5. c.sessTok \in Nat
      BY ConfigLimits DEF GInv, TypeOK, LedgerTypeOK
    <2>6. QED
      BY <2>1, <2>2, <2>3, <2>4, <2>5
  <1>2. QED
    BY <1>1, AllowanceInvariant, PTL

\* While the terms stand and every attempt is accounted for, no step makes the
\* completion plan's protected tokens unaffordable.
THEOREM ProtectionStands == Spec => ProtectionKept
  <1>1. (GInv /\ BInv) /\ [Next]_vars => [Kept]_vars
    BY NextBudget
  <1>2. QED
    BY <1>1, AllowanceInvariant, PTL DEF Spec, ProtectionKept, Kept
=============================================================================
