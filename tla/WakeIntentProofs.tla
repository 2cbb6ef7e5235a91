--------------------------- MODULE WakeIntentProofs ---------------------------
(***************************************************************************)
(* What WakeIntent guarantees for any number of wakes, monitors and routes.*)
(*                                                                         *)
(* None of the properties is inductive: each depends on who holds which    *)
(* lock, and on what a process still remembers of a record it read before  *)
(* it had the lock.  Inv adds exactly that.                                *)
(***************************************************************************)
EXTENDS WakeIntent, TLAPS

-----------------------------------------------------------------------------
(* The inductive invariant. *)

(* A busy process works on a wake that exists or is archived. *)
Busy == \A w \in Workers : pc[w] # "idle" => cur[w] \in Wakes /\ Known(cur[w])

(* The locks exclude whom they should. *)
Locks ==
  /\ \A v, w \in Workers :
       pc[v] \in InWake /\ pc[w] \in InWake /\ cur[v] = cur[w] => v = w
  /\ \A v, w \in Workers :
       /\ pc[v] \in InPolicy /\ cur[v] \in PolicyWakes
       /\ pc[w] \in InPolicy /\ cur[w] \in PolicyWakes
       => v = w
  /\ \A w \in Workers : pc[w] \in InWake => visiting # cur[w]
  /\ ender = "busy" => \A w \in Workers : pc[w] \in InPolicy => cur[w] \notin PolicyWakes
  /\ visiting # NoWake => ender = "busy" /\ visiting \in PolicyWakes /\ Known(visiting)
  /\ todo \subseteq PolicyWakes /\ (todo # {} => ender = "busy")
  /\ cancelling # NoWake => \A w \in Workers : pc[w] \notin InEffects

(* What a delivery says of the status of the record that carries it. *)
Shaped(i, r) ==
  /\ r.delivery = "none" => r.status # "submitted"
  /\ r.delivery = "uncertain" =>
       /\ r.attempts > 0
       /\ r.status = "firing" \/ (i \in RuntimeWakes /\ r.status = "cancelled")
  /\ r.delivery = "accepted" => r.status = "submitted" /\ r.attempts > 0

Shapes ==
  /\ \A i \in Wakes : Shaped(i, rec[i])
  /\ visiting # NoWake => Shaped(visiting, got) /\ got.status # "absent"

(* The recipient's side, and what the record on disk remembers of it. *)
Counted ==
  \A i \in Wakes :
    /\ sent[i] <= 1 /\ inbox[i] + late[i] <= sent[i]
    /\ sent[i] > 0 => rec[i].delivery # "none" \/ (~Active(i) /\ i \in archived)
    /\ rec[i].status = "submitted" => inbox[i] = 1

OnePerKey == \A i, j \in Wakes : Known(i) /\ Known(j) /\ Key[i] = Key[j] => i = j

(* An archived wake that is active again was sent, and is only read back. *)
Archive ==
  /\ archiving \subseteq archived
  /\ \A i \in archived : rec[i].status \in {"pending", "firing"} =>
                           rec[i].delivery = "uncertain" /\ sent[i] > 0

(* Where a dispatch stands, the record on disk agrees. *)
Standing(w) ==
  LET i == cur[w] IN
  /\ pc[w] \in {"select", "gated", "ready"} =>
       rec[i].status = "firing" /\ rec[i].delivery = "none"
  /\ pc[w] = "committed" => rec[i].delivery = "uncertain" /\ sent[i] = 0
  /\ pc[w] = "sent" =>
       /\ rec[i].delivery = "uncertain" /\ i \notin archived
       /\ res[w] = "not_sent" => sent[i] = 0
       /\ res[w] = "accepted" => inbox[i] = 1
  /\ pc[w] \in {"committed", "sent"} => rec[i].status = "firing"

(* What is remembered of a record without its lock, or over a slow read,   *)
(* is still true of it, or the wake was sent.                              *)
Remembered(w) ==
  LET i == cur[w] IN
  /\ pc[w] = "checked" =>
       /\ i \in PolicyWakes /\ snap[w].status = "firing" /\ Shaped(i, snap[w])
       /\ rec[i] = snap[w] \/ (snap[w].delivery = "uncertain" /\ sent[i] > 0)
  /\ pc[w] \in {"reading", "rereading"} =>
       /\ snap[w].status = "firing" /\ snap[w].delivery = "uncertain" /\ Shaped(i, snap[w])
       /\ rec[i] = snap[w] \/ (rec[i] = Absent /\ i \in archived /\ sent[i] > 0)
  /\ pc[w] = "rereading" => i \notin RuntimeWakes

OwnerCopy ==
  visiting # NoWake =>
    \/ rec[visiting] = got
    \/ /\ rec[visiting] = Absent /\ visiting \in archived
       /\ sent[visiting] > 0 => got.delivery # "none"
       /\ got.status \in {"pending", "firing"} => got.delivery = "uncertain" /\ sent[visiting] > 0
       /\ got.status = "submitted" => inbox[visiting] = 1

(* A native wake whose cancellation was admitted has no unknown effect, and *)
(* nobody is about to write one back.                                      *)
Cancelling ==
  cancelling # NoWake /\ cancelling \notin RuntimeWakes =>
    /\ rec[cancelling].delivery # "uncertain"
    /\ \A w \in Workers : pc[w] = "rereading" => cur[w] # cancelling
    /\ visiting = cancelling => got.delivery # "uncertain"

(* An ended owner's wake is past no gate. *)
OwnerGate ==
  \A w \in Workers : OwnerEnded(cur[w]) =>
    /\ pc[w] \notin {"select", "gated", "ready", "committed", "sent"}
    /\ pc[w] = "owned" => snap[w].delivery = "uncertain"

Fenced == fence => paused /\ \A w \in Workers : pc[w] \notin InEffects \ {"shared"}

Inv ==
  /\ TypeOK /\ Busy /\ Locks /\ Shapes /\ Counted /\ OnePerKey /\ Archive
  /\ \A w \in Workers : Standing(w) /\ Remembered(w)
  /\ OwnerCopy /\ Cancelling /\ OwnerGate /\ Fenced

-----------------------------------------------------------------------------
(* What the record updates of the model leave behind. *)

LEMMA AbsentRecord ==
  Absent \in Record /\ Absent.status = "absent" /\ Absent.delivery = "none"
BY DEF Absent, Record, Statuses

(* apply_owner_state touches neither the delivery nor the attempts, and    *)
(* the status only of a wake it stops.                                     *)
LEMMA OwnerState ==
  ASSUME NEW i \in Wakes, NEW r \in Record
  PROVE  LET q == apply_owner_state(i, r) IN
         /\ q \in Record /\ q.delivery = r.delivery /\ q.attempts = r.attempts
         /\ ~OwnerStops(i, r) => q.status = r.status
         /\ OwnerStops(i, r) => q.status = IF OwnerEnd[i] = "retire" THEN "cancelled" ELSE "pending"
BY DEF Record, apply_owner_state, Statuses

(* A verdict keeps the delivery and leaves the intent pending, firing or   *)
(* closed without a submission.                                            *)
LEMMA Judged ==
  ASSUME NEW i \in Wakes, NEW r \in Record, NEW v \in {"wait", "due", "missed"},
         r.status = "pending"
  PROVE  LET q == IF OwnerStops(i, r) THEN apply_owner_state(i, r)
                  ELSE Verdict(apply_owner_state(i, r), v)
         IN  /\ q \in Record /\ q.delivery = r.delivery /\ q.attempts = r.attempts
             /\ q.status \in {"pending", "firing", "failed", "cancelled"}
<1> DEFINE a == apply_owner_state(i, r)
<1>1. a \in Record /\ a.delivery = r.delivery /\ a.attempts = r.attempts
  BY OwnerState
<1>2. OwnerStops(i, r) => a.status \in {"pending", "cancelled"}
  BY OwnerState
<1> HIDE DEF a
<1>3. /\ Verdict(a, v) \in Record /\ Verdict(a, v).delivery = a.delivery
      /\ Verdict(a, v).attempts = a.attempts
      /\ Verdict(a, v).status \in {"pending", "firing", "failed"}
  BY <1>1 DEF Verdict, Record, Statuses
<1> QED
  BY <1>1, <1>2, <1>3 DEF a

(* The write before a submission. *)
LEMMA Ambiguous ==
  ASSUME NEW r \in Record
  PROVE  LET q == [r EXCEPT !.delivery = "uncertain", !.attempts = r.attempts + 1]
         IN  q \in Record /\ q.status = r.status /\ q.delivery = "uncertain" /\ q.attempts > 0
<1>1. r.attempts \in Nat
  BY DEF Record
<1>2. r.attempts + 1 \in Nat /\ r.attempts + 1 > 0
  BY <1>1
<1> DEFINE n == r.attempts + 1
<1> HIDE DEF n
<1>3. LET q == [r EXCEPT !.delivery = "uncertain", !.attempts = n]
      IN  q \in Record /\ q.status = r.status /\ q.delivery = "uncertain" /\ q.attempts = n
  BY <1>2 DEF Record, n
<1> QED
  BY <1>2, <1>3 DEF n

(* A refusal that leaves memory and locks behind, and no trace on disk. *)
LEMMA Skipping == ASSUME Inv, NEW w \in Workers, Skip(w) PROVE Inv'
BY AbsentRecord, IntentConstants, SMTT(30)
   DEF Skip, Return, Inv, TypeOK, Busy, Locks, Shapes, Counted, OnePerKey, Archive,
       Standing, Remembered, OwnerCopy, Cancelling, OwnerGate, Fenced, disk, monitor, operator,
       world, Known, Active, OwnerEnded, Shaped, InEffects, InPolicy, InWake, InDispatch, Pcs, Phases

(* A dispatch that stops before the ambiguity is persisted puts the record *)
(* back to pending, or fails it for a missed deadline.                     *)
LEMMA Holding ==
  ASSUME Inv, NEW w \in Workers, pc[w] \in {"select", "gated", "ready"},
         NEW s \in {"pending", "failed"}, Save(w, [rec[cur[w]] EXCEPT !.status = s])
  PROVE  Inv'
<1> DEFINE i == cur[w]
           q == [rec[i] EXCEPT !.status = s]
<1>1. i \in Wakes /\ rec[i] \in Record /\ rec' = [rec EXCEPT ![i] = q]
  BY DEF Inv, Busy, TypeOK, Save
<1>2. q \in Record /\ q.status = s /\ q.delivery = rec[i].delivery /\ q.attempts = rec[i].attempts
  BY <1>1 DEF Statuses, Record
<1> HIDE DEF q
<1>3. TypeOK'
  BY <1>1, <1>2, AbsentRecord DEF Inv, TypeOK, Save, Return, Pcs, operator, world
<1>4. (Busy /\ Locks /\ Shapes /\ Counted /\ OnePerKey /\ Archive)'
  BY <1>1, <1>2, AbsentRecord, IntentConstants
     DEF Inv, TypeOK, Save, Return, operator, world, Busy, Locks, Shapes, Counted, OnePerKey,
         Archive, Standing, Known, Active, Shaped, InEffects, InPolicy, InWake, InDispatch
<1>5. (OwnerCopy /\ Cancelling /\ OwnerGate /\ Fenced)'
  BY <1>1, <1>2, AbsentRecord, IntentConstants
     DEF Inv, TypeOK, Save, Return, operator, world, Locks, OwnerCopy, Cancelling, OwnerGate,
         Fenced, Standing, OwnerEnded, InEffects, InPolicy, InWake, InDispatch
<1>6. \A v \in Workers : (Standing(v) /\ Remembered(v))'
  BY <1>1, <1>2, AbsentRecord, IntentConstants
     DEF Inv, TypeOK, Save, Return, operator, world, Locks, Shapes, Counted, Archive, Standing,
         Remembered, Shaped, Active, InEffects, InPolicy, InWake, InDispatch
<1> QED
  BY <1>3, <1>4, <1>5, <1>6 DEF Inv

-----------------------------------------------------------------------------
(* Inv is inductive: one step per action. *)

LEMMA Initially == Init => Inv
<1> SUFFICES ASSUME Init PROVE Inv
  OBVIOUS
<1>1. phase \in Phases /\ permStore \in BOOLEAN
  BY DEF Init, Phases
<1>2. TypeOK
  BY <1>1, AbsentRecord DEF Init, TypeOK, Pcs
<1>3. Busy /\ Locks
  BY DEF Init, Busy, Locks, InEffects, InPolicy, InWake, InDispatch
<1>4. Shapes /\ Counted /\ OnePerKey /\ Archive
  BY AbsentRecord DEF Init, Shapes, Shaped, Counted, OnePerKey, Archive, Known, Active
<1>5. OwnerCopy /\ Cancelling /\ OwnerGate /\ Fenced
  BY DEF Init, OwnerCopy, Cancelling, OwnerGate, OwnerEnded, Fenced
<1>6. \A w \in Workers : Standing(w) /\ Remembered(w)
  BY DEF Init, Standing, Remembered
<1> QED
  BY <1>2, <1>3, <1>4, <1>5, <1>6 DEF Inv

LEMMA Polling == ASSUME Inv, NEW w \in Workers, Poll(w) PROVE Inv'
<1> USE IntentConstants
    DEF Inv, TypeOK, Busy, Locks, Shapes, Counted, OnePerKey, Archive, Standing, Remembered,
        OwnerCopy, Cancelling, OwnerGate, Fenced, disk, monitor, operator, world, Known, Active,
        OwnerEnded, Shaped, InEffects, InPolicy, InWake, InDispatch, Pcs, Phases
<1>1. CASE PollStart(w)
  BY <1>1 DEF PollStart
<1>2. ASSUME NEW i \in Wakes, List(w, i) PROVE Inv'
  BY <1>2 DEF List
<1>3. ASSUME NEW i \in Wakes, Reconcile(w, i) PROVE Inv'
  BY <1>3 DEF Reconcile, WakeFree
<1>4. ASSUME NEW i \in Wakes, NEW v \in {"wait", "due", "missed"}, Evaluate(w, i, v)
      PROVE  Inv'
  <2> DEFINE q == IF OwnerStops(i, rec[i]) THEN apply_owner_state(i, rec[i])
                  ELSE Verdict(apply_owner_state(i, rec[i]), v)
  <2>1. rec[i] \in Record /\ rec' = [rec EXCEPT ![i] = q]
    BY <1>4 DEF Evaluate
  <2>2. /\ q \in Record /\ q.delivery = rec[i].delivery /\ q.attempts = rec[i].attempts
        /\ q.status \in {"pending", "firing", "failed", "cancelled"}
    BY <1>4, <2>1, Judged DEF Evaluate
  <2> HIDE DEF q
  <2> QED
    BY <1>4, <2>1, <2>2, AbsentRecord, SMTT(30) DEF Evaluate, WakeFree
<1> HIDE DEF Inv
<1> QED
  BY <1>1, <1>2, <1>3, <1>4, Zenon DEF Poll

LEMMA Dispatching == ASSUME Inv, NEW w \in Workers, Dispatch(w) PROVE Inv'
<1> USE IntentConstants
    DEF Inv, TypeOK, Busy, Locks, Shapes, Counted, OnePerKey, Archive, Standing, Remembered,
        OwnerCopy, Cancelling, OwnerGate, Fenced, disk, monitor, operator, world, Known, Active,
        OwnerEnded, Shaped, InEffects, InPolicy, InWake, InDispatch, Pcs, Phases
<1>1. CASE TakeEffects(w)
  BY <1>1 DEF TakeEffects, Stay, EffectsExclusive
<1>2. CASE CheckPaused(w)
  <2>1. CASE Skip(w)
    BY <2>1, Skipping
  <2>2. CASE ~paused /\ pc[w] = "shared" /\ Stay(w, "admitted")
    BY <2>2 DEF Stay
  <2> QED
    BY <1>2, <2>1, <2>2 DEF CheckPaused
<1>3. CASE TakePolicy(w)
  BY <1>3 DEF TakePolicy, Stay, PolicyFree
<1>4. CASE Admit(w)
  <2>1. CASE Skip(w)
    BY <2>1, Skipping
  <2>2. CASE /\ pc[w] = "guarded" /\ rec[cur[w]] = snap[w] /\ rec[cur[w]].status = "firing"
             /\ Stay(w, IF cur[w] \in PolicyWakes THEN "checked" ELSE "owned")
    BY <2>2, SMTT(30) DEF Stay
  <2> QED
    BY <1>4, <2>1, <2>2 DEF Admit
<1>5. CASE ApplyOwner(w)
  <2> DEFINE i == cur[w]
             q == apply_owner_state(i, snap[w])
  <2>1. i \in Wakes /\ snap[w] \in Record
    BY <1>5 DEF ApplyOwner
  <2>2. /\ q \in Record /\ q.delivery = snap[w].delivery /\ q.attempts = snap[w].attempts
        /\ ~OwnerStops(i, snap[w]) => /\ q.status = snap[w].status
                                      /\ OwnerEnded(i) => q.delivery = "uncertain"
        /\ OwnerStops(i, snap[w]) => /\ q.status \in {"cancelled", "pending"}
                                     /\ q.delivery # "uncertain"
    BY <1>5, <2>1, OwnerState DEF OwnerStops, ApplyOwner
  <2>3. CASE OwnerStops(i, snap[w])
    <3>1. pc[w] = "checked" /\ WakeFree(i) /\ Save(w, q)
      BY <1>5, <2>3 DEF ApplyOwner
    <3> HIDE DEF q
    <3> QED
      BY <2>1, <2>2, <2>3, <3>1, AbsentRecord, SMTT(30) DEF Save, Return, WakeFree
  <2>4. CASE ~OwnerStops(i, snap[w])
    <3>1. /\ pc[w] = "checked" /\ WakeFree(i)
          /\ rec' = IF q # snap[w] THEN [rec EXCEPT ![i] = q] ELSE rec
          /\ pc' = [pc EXCEPT ![w] = "owned"] /\ snap' = [snap EXCEPT ![w] = q]
          /\ UNCHANGED <<archived, archiving, owners, paused, permStore, phase,
                         cur, rt, res, clk, age, operator, world>>
      BY <1>5, <2>4 DEF ApplyOwner
    <3> HIDE DEF q
    <3> QED
      BY <2>1, <2>2, <2>4, <3>1, SMTT(30) DEF WakeFree
  <2> QED
    BY <2>3, <2>4
<1>6. CASE Enter(w)
  <2>1. CASE Skip(w)
    BY <2>1, Skipping
  <2>2. CASE /\ pc[w] = "owned" /\ WakeFree(cur[w]) /\ rec[cur[w]] = snap[w]
             /\ rec[cur[w]].status = "firing" /\ rec[cur[w]].delivery = "uncertain"
             /\ Stay(w, "reading")
    BY <2>2, SMTT(30) DEF Stay, WakeFree
  <2>3. CASE /\ pc[w] = "owned" /\ WakeFree(cur[w]) /\ rec[cur[w]] = snap[w]
             /\ rec[cur[w]].status = "firing" /\ rec[cur[w]].delivery # "uncertain"
             /\ pc' = [pc EXCEPT ![w] = "select"]
             /\ rt' = [rt EXCEPT ![w] = rec[cur[w]].next + 1]
             /\ UNCHANGED <<disk, phase, cur, snap, res, clk, age, operator, world>>
    <3>1. rec[cur[w]].next + 1 \in Nat /\ rec[cur[w]].delivery = "none"
      BY <2>3 DEF Record
    <3> QED
      BY <2>3, <3>1, SMTT(30) DEF WakeFree
  <2> QED
    BY <1>6, <2>1, <2>2, <2>3, Zenon DEF Enter
<1>7. CASE ReadBack(w) \/ ReadNothing(w)
  <2> DEFINE q == [snap[w] EXCEPT !.status = "submitted", !.delivery = "accepted"]
  <2>1. CASE Skip(w)
    BY <2>1, Skipping
  <2>2. CASE pc[w] \in {"reading", "rereading"} /\ Evidence(cur[w]) /\ Save(w, q)
    <3>1. cur[w] \in Wakes /\ snap[w] \in Record
      BY <2>2
    <3>2. /\ q \in Record /\ q.status = "submitted" /\ q.delivery = "accepted"
          /\ q.attempts = snap[w].attempts
      BY <3>1 DEF Statuses, Record
    <3> HIDE DEF q
    <3> QED
      BY <2>2, <3>1, <3>2, AbsentRecord, SMTT(30) DEF Evidence, Save, Return
  <2>3. CASE pc[w] \in {"reading", "rereading"} /\ Save(w, snap[w])
    BY <2>3, AbsentRecord, SMTT(30) DEF Save, Return
  <2> QED
    BY <1>7, <2>1, <2>2, <2>3 DEF ReadBack, ReadNothing
<1>8. CASE NextRoute(w)
  BY <1>8 DEF NextRoute
<1>9. CASE HoldRoutes(w)
  BY <1>9, Holding DEF HoldRoutes
<1>10. CASE ObserveReady(w)
  BY <1>10 DEF ObserveReady, Stay
<1>11. CASE ObserveUnready(w)
  BY <1>11, Holding DEF ObserveUnready
<1>12. ASSUME NEW v \in {"wait", "due", "missed"}, Gate(w, v) PROVE Inv'
  <2>1. CASE v = "due" /\ pc[w] = "select" /\ Stay(w, "gated")
    BY <2>1 DEF Stay
  <2>2. CASE v # "due"
    BY <1>12, <2>2, Holding DEF Gate, Verdict
  <2> QED
    BY <1>12, <2>1, <2>2 DEF Gate
<1>13. ASSUME NEW v \in {"wait", "due", "missed"}, Commit(w, v) PROVE Inv'
  <2>1. CASE v # "due"
    BY <1>13, <2>1, Holding DEF Commit, Verdict
  <2>2. CASE v = "due"
    <3> DEFINE i == cur[w]
               q == [rec[i] EXCEPT !.delivery = "uncertain", !.attempts = rec[i].attempts + 1]
    <3>1. i \in Wakes /\ rec[i] \in Record /\ rec' = [rec EXCEPT ![i] = q]
      BY <1>13, <2>2 DEF Commit
    <3>2. q \in Record /\ q.status = rec[i].status /\ q.delivery = "uncertain" /\ q.attempts > 0
      BY <3>1, Ambiguous
    <3> HIDE DEF q
    <3> QED
      BY <1>13, <2>2, <3>1, <3>2, SMTT(30) DEF Commit
  <2> QED
    BY <2>1, <2>2
<1>14. ASSUME NEW o \in {"not_sent", "accepted", "uncertain"}, NEW s \in {"now", "late", "never"},
              Send(w, o, s)
       PROVE  Inv'
  <2>1. (TypeOK /\ Busy /\ Locks /\ Shapes /\ OnePerKey /\ Archive)'
    BY <1>14 DEF Send
  <2>2. Counted'
    BY <1>14 DEF Send
  <2>3. (OwnerCopy /\ Cancelling /\ OwnerGate /\ Fenced)'
    BY <1>14 DEF Send
  <2>4. \A v \in Workers : Standing(v)'
    BY <1>14 DEF Send
  <2>5. \A v \in Workers : Remembered(v)'
    BY <1>14 DEF Send
  <2> QED
    BY <2>1, <2>2, <2>3, <2>4, <2>5
<1>15. CASE Conclude(w)
  <2> DEFINE i == cur[w]
             accepted == [rec[i] EXCEPT !.status = "submitted", !.delivery = "accepted"]
             cleared == [rec[i] EXCEPT !.delivery = "none", !.next = rt[w]]
             requeued == [cleared EXCEPT !.status = "pending"]
  <2>1. pc[w] = "sent" /\ i \in Wakes /\ rec[i] \in Record /\ rt[w] \in Nat
    BY <1>15 DEF Conclude
  <2>2. /\ accepted \in Record /\ accepted.status = "submitted"
        /\ accepted.delivery = "accepted" /\ accepted.attempts = rec[i].attempts
    BY <2>1 DEF Record, Statuses
  <2>3. cleared \in Record /\ cleared.status = rec[i].status /\ cleared.delivery = "none"
    BY <2>1 DEF Record
  <2>4. requeued \in Record /\ requeued.status = "pending" /\ requeued.delivery = "none"
    BY <2>1 DEF Record, Statuses
  <2>5. \/ res[w] = "accepted" /\ Save(w, accepted)
        \/ Save(w, rec[i])
        \/ res[w] = "not_sent" /\ Save(w, requeued)
        \/ /\ res[w] = "not_sent" /\ rec' = [rec EXCEPT ![i] = cleared]
           /\ pc' = [pc EXCEPT ![w] = "select"] /\ rt' = [rt EXCEPT ![w] = rt[w] + 1]
           /\ res' = [res EXCEPT ![w] = "none"]
           /\ UNCHANGED <<archived, archiving, owners, paused, permStore, phase,
                          cur, snap, clk, age, operator, world>>
    BY <1>15, Zenon DEF Conclude
  <2> HIDE DEF accepted, cleared, requeued
  <2>6. CASE res[w] = "accepted" /\ Save(w, accepted)
    BY <2>1, <2>2, <2>6, AbsentRecord, SMTT(30) DEF Save, Return
  <2>7. CASE Save(w, rec[i])
    BY <2>1, <2>7, AbsentRecord, SMTT(30) DEF Save, Return
  <2>8. CASE res[w] = "not_sent" /\ Save(w, requeued)
    <3>1. TypeOK'
      BY <2>1, <2>4, <2>8, AbsentRecord DEF Save, Return
    <3>2. (Busy /\ Locks /\ Shapes /\ Counted /\ OnePerKey /\ Archive)'
      BY <2>1, <2>4, <2>8, AbsentRecord, SMTT(30) DEF Save, Return
    <3>3. (OwnerCopy /\ Cancelling /\ OwnerGate /\ Fenced)'
      BY <2>1, <2>4, <2>8, AbsentRecord, SMTT(30) DEF Save, Return
    <3>4. \A v \in Workers : Standing(v)'
      BY <2>1, <2>4, <2>8, AbsentRecord, SMTT(30) DEF Save, Return
    <3>5. \A v \in Workers : Remembered(v)'
      BY <2>1, <2>4, <2>8, AbsentRecord, SMTT(30) DEF Save, Return
    <3> QED
      BY <3>1, <3>2, <3>3, <3>4, <3>5
  <2>9. CASE /\ res[w] = "not_sent" /\ rec' = [rec EXCEPT ![i] = cleared]
             /\ pc' = [pc EXCEPT ![w] = "select"] /\ rt' = [rt EXCEPT ![w] = rt[w] + 1]
             /\ res' = [res EXCEPT ![w] = "none"]
             /\ UNCHANGED <<archived, archiving, owners, paused, permStore, phase,
                            cur, snap, clk, age, operator, world>>
    BY <2>1, <2>3, <2>9, SMTT(30)
  <2> QED
    BY <2>5, <2>6, <2>7, <2>8, <2>9
<1> HIDE DEF Inv
<1> QED
  BY <1>1, <1>2, <1>3, <1>4, <1>5, <1>6, <1>7, <1>8, <1>9, <1>10, <1>11, <1>12, <1>13, <1>14,
     <1>15, Zenon DEF Dispatch

LEMMA Operating == ASSUME Inv, Operate PROVE Inv'
<1> USE IntentConstants
    DEF Inv, TypeOK, Busy, Locks, Shapes, Counted, OnePerKey, Archive, Standing, Remembered,
        OwnerCopy, Cancelling, OwnerGate, Fenced, disk, monitor, operator, world, Known, Active,
        OwnerEnded, Shaped, InEffects, InPolicy, InWake, InDispatch, Pcs, Phases
<1>1. ASSUME NEW i \in Wakes, Retain(i) PROVE Inv'
  <2> DEFINE q == apply_owner_state(i, Fresh)
  <2>1. /\ Fresh \in Record /\ Fresh.status = "pending" /\ Fresh.delivery = "none"
        /\ rec' = [rec EXCEPT ![i] = q]
    BY <1>1 DEF Retain, Fresh, Absent, Record, Statuses
  <2>2. q \in Record /\ q.status \in {"pending", "cancelled"} /\ q.delivery = "none"
    BY <2>1, OwnerState
  <2> HIDE DEF q
  <2>3. ~Known(i) /\ sent[i] = 0
    BY <1>1 DEF Retain, Record
  <2>4. TypeOK'
    BY <1>1, <2>1, <2>2 DEF Retain
  <2>5. (Busy /\ Locks /\ Shapes /\ OnePerKey /\ Archive)'
    BY <1>1, <2>1, <2>2, <2>3 DEF Retain
  <2>6. Counted'
    BY <1>1, <2>1, <2>2, <2>3 DEF Retain
  <2>7. (OwnerCopy /\ Cancelling /\ OwnerGate /\ Fenced)'
    BY <1>1, <2>1, <2>2, <2>3 DEF Retain
  <2>8. \A v \in Workers : (Standing(v) /\ Remembered(v))'
    BY <1>1, <2>1, <2>2, <2>3 DEF Retain
  <2> QED
    BY <2>4, <2>5, <2>6, <2>7, <2>8
<1>2. ASSUME NEW i \in Wakes, CancelAdmit(i) PROVE Inv'
  <2>1. (TypeOK /\ Busy /\ Locks /\ Shapes /\ Counted /\ OnePerKey /\ Archive)'
    BY <1>2 DEF CancelAdmit, EffectsShared
  <2>2. (OwnerCopy /\ OwnerGate /\ Fenced)'
    BY <1>2 DEF CancelAdmit
  <2>3. Cancelling'
    BY <1>2 DEF CancelAdmit, CancelRefused, Absent, Record
  <2>4. \A v \in Workers : (Standing(v) /\ Remembered(v))'
    BY <1>2 DEF CancelAdmit
  <2> QED
    BY <2>1, <2>2, <2>3, <2>4
<1>3. ASSUME NEW i \in Wakes, OwnerRead(i) PROVE Inv'
  BY <1>3, SMTT(30) DEF OwnerRead, WakeFree
<1>4. ASSUME NEW i \in Wakes, ArchiveWrite(i) PROVE Inv'
  BY <1>4, SMTT(30) DEF ArchiveWrite, Terminal
<1>5. ASSUME NEW i \in Wakes, ArchiveUnlink(i) PROVE Inv'
  BY <1>5, AbsentRecord, SMTT(30) DEF ArchiveUnlink
<1>6. ASSUME NEW i \in Wakes, ArchiveDies(i) PROVE Inv'
  BY <1>6, SMTT(30) DEF ArchiveDies
<1>7. CASE CancelCommit
  <2> DEFINE i == cancelling
             q == [rec[i] EXCEPT !.status = "cancelled"]
  <2>1. CASE ~CanCancel(i)
    BY <1>7, <2>1, SMTT(30) DEF CancelCommit
  <2>2. CASE CanCancel(i)
    <3>1. i \in Wakes /\ rec[i] \in Record /\ rec' = [rec EXCEPT ![i] = q]
      BY <1>7, <2>2 DEF CancelCommit
    <3>2. /\ q \in Record /\ q.status = "cancelled"
          /\ q.delivery = rec[i].delivery /\ q.attempts = rec[i].attempts
      BY <3>1 DEF Statuses, Record
    <3> HIDE DEF q
    <3>3. TypeOK'
      <4> HIDE IntentConstants DEF Busy, Locks, Shapes, Counted, OnePerKey, Archive, Standing,
            Remembered, OwnerCopy, Cancelling, OwnerGate, Fenced
      <4> QED
        BY <1>7, <3>1, <3>2 DEF CancelCommit
    <3>4. (Busy /\ Locks /\ Shapes /\ Counted /\ OnePerKey /\ Archive)'
      BY <1>7, <2>2, <3>1, <3>2, SMTT(30) DEF CancelCommit, CanCancel, WakeFree
    <3>5. (OwnerCopy /\ Cancelling /\ OwnerGate /\ Fenced)'
      BY <1>7, <2>2, <3>1, <3>2, SMTT(30) DEF CancelCommit, CanCancel, WakeFree
    <3>6. \A v \in Workers : (Standing(v) /\ Remembered(v))'
      BY <1>7, <2>2, <3>1, <3>2, SMTT(30) DEF CancelCommit, CanCancel, WakeFree
    <3> QED
      BY <3>3, <3>4, <3>5, <3>6
  <2> QED
    BY <2>1, <2>2
<1>8. CASE CancelDies
  BY <1>8 DEF CancelDies
<1>9. CASE Pause
  BY <1>9, SMTT(30) DEF Pause
<1>10. CASE PauseStatus
  BY <1>10, SMTT(30) DEF PauseStatus, in_flight, EffectsShared, EffectsExclusive
<1>11. CASE Resume
  <2>1. TypeOK'
    BY <1>11, Zenon DEF Resume
  <2>2. (Busy /\ Locks /\ Shapes /\ Counted /\ OnePerKey /\ Archive)'
    BY <1>11 DEF Resume
  <2>3. (OwnerCopy /\ Cancelling /\ OwnerGate)'
    BY <1>11 DEF Resume
  <2>4. Fenced'
    BY <1>11, Zenon DEF Resume
  <2>5. \A v \in Workers : (Standing(v) /\ Remembered(v))'
    BY <1>11 DEF Resume
  <2> QED
    BY <2>1, <2>2, <2>3, <2>4, <2>5
<1>12. CASE CompleteOwner
  BY <1>12, SMTT(30) DEF CompleteOwner, PolicyFree, Owned
<1>13. CASE OwnerWrite
  <2> DEFINE i == visiting
             q == apply_owner_state(i, got)
  <2>1. i \in Wakes /\ got \in Record /\ rec' = [rec EXCEPT ![i] = q]
    BY <1>13 DEF OwnerWrite
  <2>2. /\ q \in Record /\ q.delivery = got.delivery /\ q.attempts = got.attempts
        /\ \/ q.status = got.status
           \/ /\ got.delivery # "uncertain" /\ got.status \in {"pending", "firing"}
              /\ q.status \in {"cancelled", "pending"}
    BY <2>1, OwnerState DEF OwnerStops
  <2> HIDE DEF q
  <2> QED
    BY <1>13, <2>1, <2>2, AbsentRecord, SMTT(30) DEF OwnerWrite
<1>14. CASE OwnerReturn
  BY <1>14, AbsentRecord, SMTT(30) DEF OwnerReturn
<1>15. CASE ActivatePermissions
  BY <1>15, SMTT(30) DEF ActivatePermissions
<1> QED
  BY <1>1, <1>2, <1>3, <1>4, <1>5, <1>6, <1>7, <1>8, <1>9, <1>10, <1>11, <1>12, <1>13, <1>14,
     <1>15, Zenon DEF Operate

LEMMA Inductive == Inv /\ [Next]_vars => Inv'
<1> SUFFICES ASSUME Inv, [Next]_vars PROVE Inv'
  OBVIOUS
<1> USE DEF Inv, TypeOK, Busy, Locks, Shapes, Counted, OnePerKey, Archive, Standing, Remembered,
        OwnerCopy, Cancelling, OwnerGate, Fenced, disk, monitor, operator, world, Known, Active,
        OwnerEnded, Shaped, Pcs, Phases
<1>1. ASSUME NEW w \in Workers, Poll(w) PROVE Inv'
  BY <1>1, Polling
<1>2. ASSUME NEW w \in Workers, Dispatch(w) PROVE Inv'
  BY <1>2, Dispatching
<1>3. ASSUME NEW w \in Workers, Crash(w) PROVE Inv'
  BY <1>3, Skipping DEF Crash
<1>4. CASE Operate
  BY <1>4, Operating
<1>5. CASE Tick
  BY <1>5 DEF Tick, InEffects, InPolicy, InWake, InDispatch
<1>6. ASSUME NEW i \in Wakes, Arrive(i) PROVE Inv'
  BY <1>6, IntentConstants DEF Arrive, InEffects, InPolicy, InWake, InDispatch
<1>7. CASE UNCHANGED vars
  BY <1>7 DEF vars
<1> QED
  BY <1>1, <1>2, <1>3, <1>4, <1>5, <1>6, <1>7, Zenon DEF Next

LEMMA Invariance == Spec => []Inv
BY Initially, Inductive, PTL DEF Spec

-----------------------------------------------------------------------------
(* The safety properties. *)

(* Records, locks and memories always have the shape the code gives them:  *)
(* no dispatch, crash, owner completion or archive writes a status outside *)
(* the five that native_intents.valid_scheduling_record admits.            *)
THEOREM TypeCorrect == Spec => []TypeOK
<1>1. Inv => TypeOK
  BY DEF Inv
<1> QED
  BY <1>1, Invariance, PTL

(* At most one submission per intent and per idempotency key, for any      *)
(* number of monitors, wakes, routes, crashes and repeated requests.       *)
THEOREM SubmitsAtMostOnce == Spec => []AtMostOnce
<1>1. Inv => AtMostOnce
  <2> SUFFICES ASSUME Inv, NEW i \in Wakes, NEW j \in Wakes
               PROVE  sent[i] <= 1 /\ (Key[i] = Key[j] /\ i # j => sent[i] = 0 \/ sent[j] = 0)
    BY DEF AtMostOnce
  <2>1. sent[i] <= 1 /\ sent[i] \in Nat /\ sent[j] \in Nat
    BY DEF Inv, Counted, TypeOK
  <2>2. (sent[i] > 0 => Known(i)) /\ (sent[j] > 0 => Known(j))
    BY DEF Inv, TypeOK, Counted, Shapes, Shaped, Known, Active, Record
  <2> QED
    BY <2>1, <2>2 DEF Inv, OnePerKey
<1> QED
  BY <1>1, Invariance, PTL

(* From before the submission until the archive has the wake, the record   *)
(* on disk says that the recipient may have it.                            *)
THEOREM RemembersEffects == Spec => []EffectRemembered
<1>1. Inv => EffectRemembered
  BY DEF Inv, TypeOK, Counted, Shapes, Shaped, EffectRemembered, Record
<1> QED
  BY <1>1, Invariance, PTL

(* A cancelled or failed native wake never reached its recipient.          *)
THEOREM ClosesUnsent == Spec => []ClosedMeansUnsent
<1>1. Inv => ClosedMeansUnsent
  BY DEF Inv, TypeOK, Counted, Shapes, Shaped, ClosedMeansUnsent, Record, Active
<1> QED
  BY <1>1, Invariance, PTL

(* A wake marked submitted is in the recipient's queue exactly once.       *)
THEOREM SubmitsOnEvidence == Spec => []SubmittedMeansQueued
<1>1. Inv => SubmittedMeansQueued
  BY DEF Inv, Counted, SubmittedMeansQueued
<1> QED
  BY <1>1, Invariance, PTL

(* Only adapter.submit reaches the recipient. *)
LEMMA OnlySend ==
  ASSUME [Next]_vars
  PROVE  \/ sent' = sent
         \/ \E w \in Workers, o \in {"not_sent", "accepted", "uncertain"}, s \in {"now", "late", "never"} :
              Send(w, o, s)
<1> USE DEF disk, monitor, operator, world, Stay, Skip, Return, Save
<1>1. ASSUME NEW w \in Workers, Poll(w) PROVE sent' = sent
  BY <1>1 DEF Poll, PollStart, List, Reconcile, Evaluate
<1>2. ASSUME NEW w \in Workers, Dispatch(w)
      PROVE  \/ sent' = sent
             \/ \E o \in {"not_sent", "accepted", "uncertain"}, s \in {"now", "late", "never"} :
                  Send(w, o, s)
  <2>1. ASSUME TakeEffects(w) \/ CheckPaused(w) \/ TakePolicy(w) \/ Admit(w) PROVE sent' = sent
    BY <2>1 DEF TakeEffects, CheckPaused, TakePolicy, Admit
  <2>2. ASSUME ApplyOwner(w) \/ Enter(w) \/ ReadBack(w) \/ ReadNothing(w) PROVE sent' = sent
    BY <2>2 DEF ApplyOwner, Enter, ReadBack, ReadNothing
  <2>3. ASSUME NextRoute(w) \/ HoldRoutes(w) \/ ObserveReady(w) \/ ObserveUnready(w)
        PROVE  sent' = sent
    BY <2>3 DEF NextRoute, HoldRoutes, ObserveReady, ObserveUnready
  <2>4. ASSUME NEW v \in {"wait", "due", "missed"}, Gate(w, v) \/ Commit(w, v)
        PROVE  sent' = sent
    BY <2>4 DEF Gate, Commit
  <2>5. ASSUME Conclude(w) PROVE sent' = sent
    BY <2>5 DEF Conclude
  <2> QED
    BY <1>2, <2>1, <2>2, <2>3, <2>4, <2>5 DEF Dispatch
<1>3. ASSUME NEW w \in Workers, Crash(w) PROVE sent' = sent
  BY <1>3 DEF Crash
<1>4. CASE Operate
  BY <1>4 DEF Operate, Retain, CancelAdmit, OwnerRead, ArchiveWrite, ArchiveUnlink, ArchiveDies,
       CancelCommit, CancelDies, Pause, PauseStatus, Resume, CompleteOwner, OwnerWrite,
       OwnerReturn, ActivatePermissions
<1>5. CASE Tick \/ (\E i \in Wakes : Arrive(i)) \/ UNCHANGED vars
  BY <1>5 DEF Tick, Arrive, vars
<1> QED
  BY <1>1, <1>2, <1>3, <1>4, <1>5 DEF Next

(* Once pause has answered in_flight = False nothing is submitted until    *)
(* resume, whatever a monitor had begun.                                   *)
THEOREM PauseIsAFence == Spec => PauseFences
<1>1. Inv /\ [Next]_vars => (fence => sent' = sent)
  BY OnlySend DEF Inv, Fenced, Send, InEffects, InPolicy, InDispatch
<1>2. Inv /\ [Next]_vars => [fence => sent' = sent]_vars
  BY <1>1
<1> QED
  BY <1>2, Invariance, PTL DEF Spec, PauseFences

(* Once complete_owner has made the completion durable, no wake that it    *)
(* retires or holds is submitted, in-flight ones included.                 *)
THEOREM OwnerEndIsAFence == Spec => OwnerEndFences
<1> DEFINE Quiet == \A i \in Wakes : owners /\ OwnerEnd[i] \in {"retire", "hold"} => sent'[i] = sent[i]
<1>1. ASSUME Inv, [Next]_vars PROVE Quiet
  <2>1. CASE sent' = sent
    BY <2>1
  <2>2. ASSUME NEW w \in Workers, NEW o \in {"not_sent", "accepted", "uncertain"},
               NEW s \in {"now", "late", "never"}, Send(w, o, s)
        PROVE  Quiet
    <3> SUFFICES ASSUME NEW i \in Wakes, owners, OwnerEnd[i] \in {"retire", "hold"}
                 PROVE  sent'[i] = sent[i]
      OBVIOUS
    <3>1. i \in PolicyWakes
      BY IntentConstants
    <3>2. OwnerEnded(i) /\ pc[w] = "committed"
      BY <2>2, <3>1, Zenon DEF Send, OwnerEnded
    <3>3. OwnerEnded(cur[w]) => pc[w] # "committed"
      BY <1>1 DEF Inv, OwnerGate
    <3>4. cur[w] # i
      BY <3>2, <3>3, Zenon
    <3> QED
      BY <1>1, <2>2, <3>4 DEF Send, Inv, TypeOK
  <2> QED
    BY <1>1, <2>1, <2>2, OnlySend
<1>2. Inv /\ [Next]_vars => [Quiet]_vars
  BY <1>1
<1> QED
  BY <1>2, Invariance, PTL DEF Spec, OwnerEndFences

(* Between the second gate and the recipient's I/O at most one boundary of *)
(* the wake's window is crossed.                                           *)
Timely ==
  \A w \in Workers :
    /\ age[w] = 1 => pc[w] = "committed"
    /\ pc[w] = "committed" => (phase = 1 /\ age[w] = 0) \/ (phase = 2 /\ age[w] = 1)

LEMMA TimelyInductive == ASSUME Inv, Timely, [Next]_vars PROVE Timely'
<1> USE DEF disk, monitor, operator, world
<1>1. pc \in [Workers -> Pcs] /\ age \in [Workers -> {0, 1}] /\ phase \in Phases
  BY DEF Inv, TypeOK
<1>2. CASE UNCHANGED <<pc, age, phase>>
  BY <1>2 DEF Timely
<1>3. ASSUME NEW w \in Workers, Return(w), phase' = phase PROVE Timely'
  BY <1>1, <1>3 DEF Timely, Return
<1>4. ASSUME NEW w \in Workers, NEW p, pc' = [pc EXCEPT ![w] = p], pc[w] # "committed",
             p # "committed", age' = age, phase' = phase
      PROVE  Timely'
  BY <1>1, <1>4 DEF Timely
<1>5. ASSUME NEW w \in Workers, Poll(w) PROVE Timely'
  BY <1>2, <1>4, <1>5 DEF Poll, PollStart, List, Reconcile, Evaluate
<1>6. ASSUME NEW w \in Workers, Dispatch(w) PROVE Timely'
  <2> USE DEF Stay, Skip, Save
  <2>1. CASE TakeEffects(w) \/ CheckPaused(w) \/ TakePolicy(w) \/ Admit(w)
    BY <1>3, <1>4, <2>1 DEF TakeEffects, CheckPaused, TakePolicy, Admit
  <2>2. CASE ApplyOwner(w) \/ Enter(w) \/ ReadBack(w) \/ ReadNothing(w)
    BY <1>3, <1>4, <2>2 DEF ApplyOwner, Enter, ReadBack, ReadNothing
  <2>3. CASE NextRoute(w) \/ HoldRoutes(w) \/ ObserveReady(w) \/ ObserveUnready(w)
    BY <1>3, <1>4, <2>3 DEF NextRoute, HoldRoutes, ObserveReady, ObserveUnready
  <2>4. ASSUME NEW v \in {"wait", "due", "missed"}, Gate(w, v) PROVE Timely'
    BY <1>3, <1>4, <2>4 DEF Gate
  <2>5. ASSUME NEW v \in {"wait", "due", "missed"}, Commit(w, v) PROVE Timely'
    <3>1. CASE v # "due"
      BY <1>3, <2>5, <3>1 DEF Commit
    <3>2. CASE v = "due"
      <4>1. pc[w] = "ready" /\ phase = 1
        BY <1>1, <2>5, <3>2 DEF Commit, dispatch_gate, Phases
      <4> QED
        BY <1>1, <2>5, <3>2, <4>1 DEF Commit, Timely
    <3> QED
      BY <3>1, <3>2
  <2>6. ASSUME NEW o \in {"not_sent", "accepted", "uncertain"}, NEW s \in {"now", "late", "never"},
               Send(w, o, s)
        PROVE  Timely'
    BY <1>1, <2>6 DEF Send, Timely
  <2>7. CASE Conclude(w)
    BY <1>3, <1>4, <2>7 DEF Conclude
  <2> QED
    BY <1>6, <2>1, <2>2, <2>3, <2>4, <2>5, <2>6, <2>7 DEF Dispatch
<1>7. ASSUME NEW w \in Workers, Crash(w) PROVE Timely'
  BY <1>3, <1>7 DEF Crash, Skip
<1>8. CASE Operate
  BY <1>2, <1>8 DEF Operate, Retain, CancelAdmit, OwnerRead, ArchiveWrite, ArchiveUnlink,
       ArchiveDies, CancelCommit, CancelDies, Pause, PauseStatus, Resume, CompleteOwner,
       OwnerWrite, OwnerReturn, ActivatePermissions
<1>9. CASE Tick
  BY <1>1, <1>9 DEF Tick, Timely, Phases
<1>10. CASE (\E i \in Wakes : Arrive(i)) \/ UNCHANGED vars
  BY <1>2, <1>10 DEF Arrive, vars
<1> QED
  BY <1>5, <1>6, <1>7, <1>8, <1>9, <1>10 DEF Next

(* A submission that passed the second gate reaches the recipient before   *)
(* the wake expires, however late the monitor runs, if the handoff takes   *)
(* less than the reserve.                                                  *)
THEOREM SendsBeforeExpiry == Spec => SentBeforeExpiry
<1>1. Init => Timely
  BY DEF Init, Timely
<1>2. ASSUME Timely, [Next]_vars PROVE sent' # sent => phase < 3
  BY <1>2, OnlySend DEF Send, Timely
<1>3. Timely /\ [Next]_vars => [sent' # sent => phase < 3]_vars
  BY <1>2
<1> QED
  BY <1>1, <1>3, Invariance, TimelyInductive, PTL DEF Spec, SentBeforeExpiry

(* A write finds the record of a wake without policy pending or firing, or *)
(* gone to the archive: only the write of an owner's completion over a     *)
(* copy read before the lock (guard_dispatch) could find it terminal.      *)
LEMMA TerminalKept ==
  ASSUME Inv, [Next]_vars, NEW i \in Wakes \ PolicyWakes, rec[i].status \in Terminal
  PROVE  rec'[i] = rec[i] \/ rec'[i] = Absent
<1> USE DEF disk, Terminal
<1>1. rec \in [Wakes -> Record]
  BY DEF Inv, TypeOK
<1>2. ASSUME NEW j \in Wakes, NEW q, rec' = [rec EXCEPT ![j] = q], rec[j].status \notin Terminal
      PROVE  rec'[i] = rec[i]
  BY <1>1, <1>2
<1>3. CASE rec' = rec
  BY <1>3
<1>4. ASSUME NEW w \in Workers, Poll(w) PROVE rec'[i] = rec[i]
  BY <1>2, <1>3, <1>4 DEF Poll, PollStart, List, Reconcile, Evaluate
<1>5. ASSUME NEW w \in Workers, Dispatch(w) PROVE rec'[i] = rec[i]
  <2> USE DEF Stay, Skip, Save
  <2>1. CASE pc[w] \in {"select", "gated", "ready", "sent"}
    <3>1. cur[w] \in Wakes /\ rec[cur[w]].status = "firing"
      BY <2>1 DEF Inv, Busy, Standing
    <3>2. CASE NextRoute(w) \/ HoldRoutes(w) \/ ObserveReady(w) \/ ObserveUnready(w)
      BY <1>2, <1>3, <3>1, <3>2 DEF NextRoute, HoldRoutes, ObserveReady, ObserveUnready
    <3>3. ASSUME NEW v \in {"wait", "due", "missed"}, Gate(w, v) \/ Commit(w, v)
          PROVE  rec'[i] = rec[i]
      BY <1>2, <1>3, <3>1, <3>3 DEF Gate, Commit
    <3>4. CASE Conclude(w)
      BY <1>2, <3>1, <3>4 DEF Conclude
    <3> QED
      BY <1>5, <2>1, <3>2, <3>3, <3>4 DEF Dispatch, TakeEffects, CheckPaused, TakePolicy, Admit,
           ApplyOwner, Enter, ReadBack, ReadNothing, Send
  <2>2. CASE ApplyOwner(w)
    <3>1. cur[w] \in PolicyWakes
      BY <2>2 DEF ApplyOwner, Inv, Remembered
    <3> QED
      BY <1>1, <2>2, <3>1 DEF ApplyOwner
  <2>3. CASE ReadBack(w) \/ ReadNothing(w)
    <3>1. cur[w] \in Wakes /\ rec[cur[w]].status \in {"firing", "absent"}
      BY <2>3, AbsentRecord DEF ReadBack, ReadNothing, Inv, Busy, Remembered
    <3> QED
      BY <1>2, <1>3, <2>3, <3>1 DEF ReadBack, ReadNothing
  <2>4. CASE TakeEffects(w) \/ CheckPaused(w) \/ TakePolicy(w) \/ Admit(w) \/ Enter(w)
    BY <1>3, <2>4 DEF TakeEffects, CheckPaused, TakePolicy, Admit, Enter
  <2>5. CASE pc[w] = "committed"
    BY <1>3, <1>5, <2>5 DEF Dispatch, TakeEffects, CheckPaused, TakePolicy, Admit, ApplyOwner,
         Enter, ReadBack, ReadNothing, NextRoute, HoldRoutes, ObserveReady, ObserveUnready, Gate, Commit,
         Conclude, Send
  <2> QED
    BY <1>5, <2>1, <2>2, <2>3, <2>4, <2>5 DEF Dispatch, NextRoute, HoldRoutes, ObserveReady,
         ObserveUnready, Gate, Commit, Conclude, Send
<1>6. ASSUME NEW w \in Workers, Crash(w) PROVE rec'[i] = rec[i]
  BY <1>6 DEF Crash, Skip
<1>7. CASE Operate
  <2>1. ASSUME NEW j \in Wakes, Retain(j) PROVE rec'[i] = rec[i]
    BY <1>2, <2>1 DEF Retain, Known, Active
  <2>2. ASSUME NEW j \in Wakes, ArchiveUnlink(j) PROVE rec'[i] = rec[i] \/ rec'[i] = Absent
    BY <1>1, <2>2 DEF ArchiveUnlink
  <2>3. CASE CancelCommit
    BY <1>1, <2>3 DEF CancelCommit, CanCancel
  <2>4. CASE OwnerWrite
    <3>1. visiting \in PolicyWakes
      BY <2>4 DEF OwnerWrite, Inv, Locks
    <3> QED
      BY <1>1, <2>4, <3>1 DEF OwnerWrite
  <2> QED
    BY <1>7, <2>1, <2>2, <2>3, <2>4 DEF Operate, CancelAdmit, OwnerRead, ArchiveWrite,
         ArchiveDies, CancelDies, Pause, PauseStatus, Resume, CompleteOwner, OwnerReturn,
         ActivatePermissions
<1>8. CASE Tick \/ (\E j \in Wakes : Arrive(j)) \/ UNCHANGED vars
  BY <1>8 DEF Tick, Arrive, vars
<1> QED
  BY <1>4, <1>5, <1>6, <1>7, <1>8 DEF Next

(* Without wake policies a terminal status is never changed again. *)
THEOREM TerminalStays == PolicyWakes = {} => (Spec => TerminalIsFinal)
<1> SUFFICES ASSUME PolicyWakes = {} PROVE Spec => TerminalIsFinal
  OBVIOUS
<1> DEFINE Final == \A i \in Wakes : rec[i].status \in Terminal =>
                       rec'[i].status \in {rec[i].status, "absent"}
<1>1. Inv /\ [Next]_vars => [Final]_vars
  BY TerminalKept, AbsentRecord
<1> QED
  BY <1>1, Invariance, PTL DEF Spec, TerminalIsFinal
===============================================================================
