-------------------------- MODULE WakePromiseProofs ---------------------------
(***************************************************************************)
(* WakeIntent implements WakePromise: each step of monitors, operators,    *)
(* crashes and the recipient is one step of the promise, or none.  The     *)
(* mapping is Fate.  Most steps write one record, and what such a write    *)
(* may do to a wake is proved once (PromiseWrite).                         *)
(***************************************************************************)
EXTENDS WakeIntentProofs

outcomes == [i \in Wakes |-> Fate(i)]

Closing == {"cancelled", "failed"}

(* One wake's fate changes, and the rest keep theirs. *)
LEMMA OneFate ==
  ASSUME NEW i \in Wakes, \A j \in Wakes \ {i} : Fate(j)' = Fate(j)
  PROVE  outcomes' = [outcomes EXCEPT ![i] = Fate(i)']
BY DEF outcomes

LEMMA SameFate ==
  ASSUME \A j \in Wakes : Fate(j)' = Fate(j)
  PROVE  UNCHANGED outcomes
BY DEF outcomes

(* Nothing that Fate looks at has changed. *)
LEMMA Untouched ==
  ASSUME rec' = rec, archived' = archived, sent' = sent
  PROVE  UNCHANGED outcomes
BY SameFate DEF Fate, Active

(* A write to one record, by a process whose memory of it may be stale. *)
LEMMA PromiseWrite ==
  ASSUME Inv, NEW i \in Wakes, NEW q \in Record,
         rec' = [rec EXCEPT ![i] = q], archived' = archived, sent' = sent,
         \/ sent[i] > 0 \/ i \in archived
         \/ /\ Active(i) /\ q.status # "absent"
            /\ rec[i].status \in Closing => q.status \in Closing
  PROVE  [Promise!PNext]_outcomes
<1>1. \A j \in Wakes \ {i} : Fate(j)' = Fate(j)
  BY DEF Fate, Active, Inv, TypeOK
<1>2. rec'[i] = q /\ sent[i] \in Nat
  BY DEF Inv, TypeOK
<1>3. CASE Fate(i)' = Fate(i)
  BY <1>1, <1>3, SameFate
<1>4. CASE Fate(i)' # Fate(i)
  <2>1. Fate(i) = "open" /\ Fate(i)' = "closed"
    BY <1>2, <1>4 DEF Fate, Active, Closing
  <2>2. Promise!Close(i)
    BY <1>1, <2>1, OneFate DEF Promise!Close, Promise!Become, outcomes
  <2> QED
    BY <2>2 DEF Promise!PNext
<1> QED
  BY <1>3, <1>4

-----------------------------------------------------------------------------
(* One step per action. *)

LEMMA PromisePoll == ASSUME Inv, NEW w \in Workers, Poll(w) PROVE [Promise!PNext]_outcomes
<1>1. CASE PollStart(w)
  BY <1>1, Untouched DEF PollStart, disk, world
<1>2. ASSUME NEW i \in Wakes, List(w, i) \/ Reconcile(w, i) PROVE [Promise!PNext]_outcomes
  BY <1>2, Untouched DEF List, Reconcile, disk, world
<1>3. ASSUME NEW i \in Wakes, NEW v \in {"wait", "due", "missed"}, Evaluate(w, i, v)
      PROVE  [Promise!PNext]_outcomes
  <2> DEFINE q == IF OwnerStops(i, rec[i]) THEN apply_owner_state(i, rec[i])
                  ELSE Verdict(apply_owner_state(i, rec[i]), v)
  <2>1. rec[i] \in Record /\ rec[i].status = "pending"
    BY <1>3 DEF Evaluate, Inv, TypeOK
  <2>2. q \in Record /\ q.status \in {"pending", "firing", "failed", "cancelled"}
    BY <2>1, Judged
  <2>3. rec' = [rec EXCEPT ![i] = q] /\ archived' = archived /\ sent' = sent
    BY <1>3 DEF Evaluate, world
  <2> HIDE DEF q
  <2> QED
    BY <2>1, <2>2, <2>3, PromiseWrite DEF Active, Closing
<1> QED
  BY <1>1, <1>2, <1>3, Zenon DEF Poll

(* A write to a firing record that leaves it a record. *)
LEMMA PromiseSave ==
  ASSUME Inv, NEW w \in Workers, NEW q \in Record, Save(w, q), cur[w] \in Wakes,
         rec[cur[w]].status = "firing", q.status # "absent"
  PROVE  [Promise!PNext]_outcomes
BY PromiseWrite DEF Save, world, Active, Closing

(* A dispatch that stops before the effect. *)
LEMMA PromiseHold ==
  ASSUME Inv, NEW w \in Workers, pc[w] \in {"select", "gated", "ready"},
         NEW s \in {"pending", "failed"}, Save(w, [rec[cur[w]] EXCEPT !.status = s])
  PROVE  [Promise!PNext]_outcomes
<1> DEFINE q == [rec[cur[w]] EXCEPT !.status = s]
<1>1. cur[w] \in Wakes /\ rec[cur[w]] \in Record /\ rec[cur[w]].status = "firing"
  BY DEF Inv, Busy, TypeOK, Standing
<1>2. q \in Record /\ q.status = s
  BY <1>1 DEF Record, Statuses
<1>3. Save(w, q)
  OBVIOUS
<1> HIDE DEF q
<1> QED
  BY <1>1, <1>2, <1>3, PromiseSave

LEMMA PromiseDispatch == ASSUME Inv, NEW w \in Workers, Dispatch(w) PROVE [Promise!PNext]_outcomes
<1> DEFINE i == cur[w]
           Goal == [Promise!PNext]_outcomes
<1>1. CASE Skip(w)
  BY <1>1, Untouched DEF Skip, disk, world
<1>2. ASSUME NEW p, Stay(w, p) PROVE Goal
  BY <1>2, Untouched DEF Stay, disk, world
<1>3. ASSUME pc[w] # "idle" PROVE i \in Wakes /\ rec[i] \in Record /\ snap[w] \in Record
  BY <1>3 DEF Inv, Busy, TypeOK
<1>4. CASE TakeEffects(w) \/ CheckPaused(w) \/ TakePolicy(w) \/ Admit(w)
  BY <1>1, <1>2, <1>4 DEF TakeEffects, CheckPaused, TakePolicy, Admit
<1>5. CASE ApplyOwner(w)
  <2> DEFINE q == apply_owner_state(i, snap[w])
  <2>1. pc[w] = "checked" /\ i \in Wakes /\ snap[w] \in Record /\ snap[w].status = "firing"
    BY <1>3, <1>5 DEF ApplyOwner, Inv, Remembered
  <2>2. q \in Record /\ q.status \in {"firing", "pending", "cancelled"}
    BY <2>1, OwnerState
  <2>3. rec[i] = snap[w] \/ sent[i] > 0
    BY <2>1 DEF Inv, Remembered
  <2>4. /\ rec' = [rec EXCEPT ![i] = q] \/ rec' = rec
        /\ archived' = archived /\ sent' = sent
    BY <1>5 DEF ApplyOwner, Save, world
  <2> HIDE DEF q
  <2> QED
    BY <2>1, <2>2, <2>3, <2>4, PromiseWrite, Untouched DEF Active, Closing
<1>6. CASE Enter(w)
  <2>1. CASE UNCHANGED <<disk, world>>
    BY <2>1, Untouched DEF disk, world
  <2> QED
    BY <1>1, <1>2, <1>6, <2>1 DEF Enter
<1>7. CASE ReadBack(w) \/ ReadNothing(w)
  <2> DEFINE q == [snap[w] EXCEPT !.status = "submitted", !.delivery = "accepted"]
  <2>1. ASSUME NEW r \in Record, pc[w] \in {"reading", "rereading"}, Save(w, r),
               r.status # "absent"
        PROVE  Goal
    <3>1. i \in Wakes /\ (i \in archived \/ rec[i].status = "firing")
      BY <1>3, <2>1 DEF Inv, Remembered
    <3> QED
      BY <2>1, <3>1, PromiseWrite DEF Save, world, Active, Closing
  <2>2. CASE pc[w] \in {"reading", "rereading"}
    <3>1. snap[w] \in Record /\ snap[w].status = "firing"
      BY <1>3, <2>2 DEF Inv, Remembered
    <3>2. q \in Record /\ q.status = "submitted"
      BY <3>1 DEF Record, Statuses
    <3>3. Skip(w) \/ Save(w, q) \/ Save(w, snap[w])
      BY <1>7 DEF ReadBack, ReadNothing
    <3> HIDE DEF q
    <3> QED
      BY <1>1, <2>1, <2>2, <3>1, <3>2, <3>3
  <2> QED
    BY <1>7, <2>2 DEF ReadBack, ReadNothing
<1>8. CASE NextRoute(w)
  BY <1>8, Untouched DEF NextRoute, disk, world
<1>9. CASE HoldRoutes(w) \/ ObserveUnready(w)
  BY <1>9, PromiseHold DEF HoldRoutes, ObserveUnready
<1>10. CASE ObserveReady(w)
  BY <1>2, <1>10 DEF ObserveReady
<1>11. ASSUME NEW v \in {"wait", "due", "missed"}, Gate(w, v) PROVE Goal
  <2>1. CASE v = "due"
    BY <1>2, <1>11, <2>1 DEF Gate
  <2>2. CASE v # "due"
    BY <1>11, <2>2, PromiseHold DEF Gate, Verdict
  <2> QED
    BY <2>1, <2>2
<1>12. ASSUME NEW v \in {"wait", "due", "missed"}, Commit(w, v) PROVE Goal
  <2>1. CASE v # "due"
    BY <1>12, <2>1, PromiseHold DEF Commit, Verdict
  <2>2. CASE v = "due"
    <3> DEFINE q == [rec[i] EXCEPT !.delivery = "uncertain", !.attempts = rec[i].attempts + 1]
    <3>1. i \in Wakes /\ rec[i] \in Record /\ rec[i].status = "firing"
      BY <1>3, <1>12 DEF Commit, Inv, Standing
    <3>2. q \in Record /\ q.status = rec[i].status
      BY <3>1, Ambiguous
    <3>3. rec' = [rec EXCEPT ![i] = q] /\ archived' = archived /\ sent' = sent
      BY <1>12, <2>2 DEF Commit, world
    <3> HIDE DEF q
    <3> QED
      BY <3>1, <3>2, <3>3, PromiseWrite DEF Active, Closing
  <2> QED
    BY <2>1, <2>2
<1>13. ASSUME NEW o \in {"not_sent", "accepted", "uncertain"}, NEW s \in {"now", "late", "never"},
              Send(w, o, s)
       PROVE  Goal
  <2>1. PICK k \in Wakes : k = i /\ pc[w] = "committed"
    BY <1>3, <1>13 DEF Send
  <2>2. /\ rec' = rec /\ archived' = archived /\ sent \in [Wakes -> Nat]
        /\ sent' = [sent EXCEPT ![k] = IF o = "not_sent" THEN @ ELSE @ + 1]
    BY <1>13, <2>1 DEF Send, disk, Inv, TypeOK
  <2>3. CASE o = "not_sent"
    BY <2>2, <2>3, Untouched
  <2>4. CASE o # "not_sent"
    <3>1. sent[k] = 0 /\ rec[k].status = "firing" /\ k \notin archived
      BY <2>1 DEF Inv, Standing, Archive
    <3>2. Fate(k) = "open" /\ Fate(k)' = "sent"
      BY <2>1, <2>2, <2>4, <3>1 DEF Fate, Active
    <3>3. \A j \in Wakes \ {k} : Fate(j)' = Fate(j)
      BY <2>1, <2>2 DEF Fate, Active
    <3>4. Promise!Submit(k)
      BY <2>1, <3>2, <3>3, OneFate DEF Promise!Submit, Promise!Become, outcomes
    <3> QED
      BY <2>1, <3>4 DEF Promise!PNext
  <2> QED
    BY <2>3, <2>4
<1>14. CASE Conclude(w)
  <2> DEFINE accepted == [rec[i] EXCEPT !.status = "submitted", !.delivery = "accepted"]
             cleared == [rec[i] EXCEPT !.delivery = "none", !.next = rt[w]]
             requeued == [cleared EXCEPT !.status = "pending"]
  <2>1. i \in Wakes /\ rec[i] \in Record /\ rec[i].status = "firing" /\ rt[w] \in Nat
    BY <1>3, <1>14 DEF Conclude, Inv, Standing, TypeOK
  <2>2. accepted \in Record /\ accepted.status = "submitted"
    BY <2>1 DEF Record, Statuses
  <2>3. cleared \in Record /\ cleared.status = "firing"
    BY <2>1 DEF Record
  <2>4. requeued \in Record /\ requeued.status = "pending"
    BY <2>1 DEF Record, Statuses
  <2>5. \/ Save(w, accepted) \/ Save(w, rec[i]) \/ Save(w, requeued)
        \/ rec' = [rec EXCEPT ![i] = cleared] /\ archived' = archived /\ sent' = sent
    BY <1>14 DEF Conclude, world
  <2> HIDE DEF accepted, cleared, requeued
  <2> QED
    BY <2>1, <2>2, <2>3, <2>4, <2>5, PromiseSave, PromiseWrite DEF Active, Closing
<1> QED
  BY <1>4, <1>5, <1>6, <1>7, <1>8, <1>9, <1>10, <1>11, <1>12, <1>13, <1>14 DEF Dispatch

LEMMA PromiseOperate == ASSUME Inv, Operate PROVE [Promise!PNext]_outcomes
<1> DEFINE Goal == [Promise!PNext]_outcomes
<1>1. CASE UNCHANGED <<rec, archived, sent>>
  BY <1>1, Untouched
<1>2. ASSUME NEW i \in Wakes, Retain(i) PROVE Goal
  <2> DEFINE q == apply_owner_state(i, Fresh)
  <2>1. Fresh \in Record /\ Fresh.status = "pending"
    BY DEF Fresh, Absent, Record, Statuses
  <2>2. q \in Record /\ q.status \in {"pending", "cancelled"}
    BY <2>1, OwnerState
  <2>3. rec' = [rec EXCEPT ![i] = q] /\ archived' = archived /\ sent' = sent
    BY <1>2 DEF Retain, world
  <2> HIDE DEF q
  <2>4. ASSUME NEW j \in Wakes, ~Known(j) PROVE Fate(j) = "none"
    BY <2>4 DEF Fate, Known, Active, Inv, TypeOK, Counted, Shapes, Shaped, Record
  <2>5. \A j \in Wakes \ {i} : Fate(j)' = Fate(j)
    BY <2>3 DEF Fate, Active, Inv, TypeOK
  <2>6. Fate(i) = "none" /\ Fate(i)' \in {"open", "closed"}
    <3>1. ~Known(i) /\ Fate(i) = "none"
      BY <1>2, <2>4 DEF Retain
    <3> QED
      BY <2>2, <2>3, <3>1 DEF Fate, Known, Active, Inv, TypeOK
  <2>7. Promise!Unclaimed(i)
    BY <1>2, <2>4 DEF Retain, Promise!Unclaimed, outcomes
  <2>8. Promise!Open(i) \/ Promise!Refuse(i)
    BY <2>5, <2>6, <2>7, OneFate DEF Promise!Open, Promise!Refuse, Promise!Become, outcomes
  <2> QED
    BY <2>8 DEF Promise!PNext
<1>3. ASSUME NEW i \in Wakes, ArchiveWrite(i) PROVE Goal
  BY <1>3, SameFate DEF ArchiveWrite, Terminal, Fate, Active, world, Inv, TypeOK, Counted
<1>4. ASSUME NEW i \in Wakes, ArchiveUnlink(i) PROVE Goal
  BY <1>4, AbsentRecord, PromiseWrite DEF ArchiveUnlink, world, Inv, Archive
<1>5. CASE CancelCommit
  <2> DEFINE i == cancelling
             q == [rec[i] EXCEPT !.status = "cancelled"]
  <2>1. i \in Wakes /\ rec[i] \in Record
    BY <1>5 DEF CancelCommit, Inv, TypeOK
  <2>2. q \in Record /\ q.status = "cancelled"
    BY <2>1 DEF Record, Statuses
  <2>3. /\ rec' = rec \/ (CanCancel(i) /\ rec' = [rec EXCEPT ![i] = q])
        /\ archived' = archived /\ sent' = sent
    BY <1>5 DEF CancelCommit, world
  <2> HIDE DEF q
  <2> QED
    BY <1>1, <2>1, <2>2, <2>3, PromiseWrite DEF CanCancel, Active, Closing
<1>6. CASE OwnerWrite
  <2> DEFINE i == visiting
             q == apply_owner_state(i, got)
  <2>1. i \in Wakes /\ got \in Record /\ got.status # "absent" /\ (rec[i] = got \/ i \in archived)
    BY <1>6 DEF OwnerWrite, Inv, TypeOK, Shapes, OwnerCopy
  <2>2. /\ q \in Record /\ q.status # "absent"
        /\ got.status \in Closing => q.status \in Closing
    BY <2>1, OwnerState DEF OwnerStops, Closing
  <2>3. rec' = [rec EXCEPT ![i] = q] /\ archived' = archived /\ sent' = sent
    BY <1>6 DEF OwnerWrite, world
  <2> HIDE DEF q
  <2> QED
    BY <2>1, <2>2, <2>3, PromiseWrite DEF Active
<1>7. ASSUME NEW i \in Wakes, CancelAdmit(i) \/ OwnerRead(i) \/ ArchiveDies(i) PROVE Goal
  BY <1>1, <1>7 DEF CancelAdmit, OwnerRead, ArchiveDies, disk, world
<1>8. CASE \/ CancelDies \/ Pause \/ PauseStatus \/ Resume \/ CompleteOwner \/ OwnerReturn
           \/ ActivatePermissions
  BY <1>1, <1>8 DEF CancelDies, Pause, PauseStatus, Resume, CompleteOwner, OwnerReturn,
       ActivatePermissions, disk, world
<1> QED
  BY <1>2, <1>3, <1>4, <1>5, <1>6, <1>7, <1>8 DEF Operate

(* Whatever monitors, operators, owners, crashes and the queue do, each    *)
(* wake goes from unrequested to open to submitted once, or to closed and  *)
(* never submitted, with one wake per idempotency key.                     *)
THEOREM ImplementsPromise == Spec => KeepsPromise
<1>1. Init => Promise!PInit
  <2> SUFFICES ASSUME Init PROVE \A i \in Wakes : Fate(i) = "none"
    BY DEF Promise!PInit
  <2> QED
    BY AbsentRecord DEF Init, Fate, Active
<1>2. Inv /\ [Next]_vars => [Promise!PNext]_outcomes
  <2> SUFFICES ASSUME Inv, [Next]_vars PROVE [Promise!PNext]_outcomes
    OBVIOUS
  <2>1. ASSUME NEW w \in Workers, Crash(w) PROVE UNCHANGED outcomes
    BY <2>1, Untouched DEF Crash, Skip, disk, world
  <2>2. ASSUME Tick \/ (\E i \in Wakes : Arrive(i)) \/ UNCHANGED vars PROVE UNCHANGED outcomes
    BY <2>2, Untouched DEF Tick, Arrive, vars, disk, world
  <2> QED
    BY <2>1, <2>2, PromisePoll, PromiseDispatch, PromiseOperate DEF Next
<1> QED
  BY <1>1, <1>2, Invariance, PTL DEF Spec, KeepsPromise, Promise!PSpec, outcomes
=============================================================================
