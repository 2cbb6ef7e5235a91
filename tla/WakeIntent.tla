------------------------------ MODULE WakeIntent ------------------------------
(***************************************************************************)
(* Life of durable scheduling intents (record schemas 6, 7 and 8): retained*)
(* once, evaluated and dispatched by any number of monitors, cancelled,    *)
(* paused, reconciled and archived by operators, and ended by their owner. *)
(*                                                                         *)
(* Each intent is one file that is replaced atomically, so a write is one  *)
(* step; a monitor may die between any two of its steps.  The recipient's  *)
(* queue is external: a submission may be accepted, lost, or accepted after*)
(* the caller has given up on it.  One whose outcome is unknown counts as  *)
(* one that reached the recipient.                                         *)
(*                                                                         *)
(* Locks are advisory file locks that a dead process drops, so they are    *)
(* derived from where each process stands: the root's effects lock (shared *)
(* by dispatch, exclusive and non-blocking for cancel), the wake-policy    *)
(* lock (schema 8 only) and one lifecycle lock per wake.                   *)
(***************************************************************************)
EXTENDS Integers, FiniteSets

CONSTANTS
  Wakes,         \* ids of the records a request may create
  Workers,       \* processes on one wake root: each polls, or runs `native reconcile'
  NoWake,        \* not a wake
  Key,           \* [Wakes -> idempotency key]
  RuntimeWakes,  \* wakes for a terminal runtime (schema 7), the rest are native
  PolicyWakes,   \* wakes that carry a wake policy (schema 8)
  OwnerEnd,      \* [Wakes -> "none" (no owner) | "retire" | "hold" | "retain"]
  Routes         \* [Wakes -> number of frozen routes], 0 below policy version 2

OwnerEnds == {"none", "retire", "hold", "retain"}

ASSUME IntentConstants ==
  /\ NoWake \notin Wakes
  /\ RuntimeWakes \subseteq Wakes /\ PolicyWakes \subseteq Wakes
  /\ OwnerEnd \in [Wakes -> OwnerEnds] /\ Routes \in [Wakes -> Nat]
  /\ \A i \in Wakes \ PolicyWakes : OwnerEnd[i] = "none" /\ Routes[i] = 0
  \* native and runtime requests are serialised by different locks, per key
  /\ \A i, j \in Wakes : Key[i] = Key[j] => (i \in RuntimeWakes <=> j \in RuntimeWakes)

VARIABLES
  rec,        \* [Wakes -> record in pending/], status "absent" when no file
  archived,   \* wakes with a copy in archive/
  archiving,  \* wakes whose archive copy is written and source not yet unlinked
  owners,     \* the owner's completion is in wake-owners.json
  paused,     \* emergency-control/state.json
  permStore,  \* the permission store is active
  phase,      \* where true time stands relative to the wakes' window
  pc, cur, snap, rt, res, clk, age,  \* monitors
  cancelling, \* wake the cancel command has admitted, holding the exclusive lock
  fence,      \* an operator was told paused and not in_flight, no resume since (ghost)
  ender,      \* "busy" while complete_owner holds the policy lock
  todo,       \* wakes it has still to visit
  visiting,   \* the wake whose lock it holds
  got,        \* the record it read there
  sent,       \* [Wakes -> submissions that reached the recipient's I/O] (external)
  inbox,      \* [Wakes -> messages the recipient's queue shows] (external)
  late        \* [Wakes -> accepted, not yet visible] (external)

disk == <<rec, archived, archiving, owners, paused, permStore>>
monitor == <<pc, cur, snap, rt, res, clk, age>>
operator == <<cancelling, fence, ender, todo, visiting, got>>
world == <<sent, inbox, late>>
vars == <<disk, phase, monitor, operator, world>>

-----------------------------------------------------------------------------
(* Records. *)

Statuses == {"absent", "pending", "firing", "submitted", "failed", "cancelled"}
Terminal == {"submitted", "failed", "cancelled"}

(* delivery: native_delivery or runtime_delivery; next: wake_route_progress; *)
(* ended: the record carries owner_completion.  Events and time bounds are   *)
(* left out, so two records compare equal here more often than in the code.  *)
Record == [status : Statuses, delivery : {"none", "uncertain", "accepted"},
           attempts : Nat, next : Nat, ended : BOOLEAN]

Absent == [status |-> "absent", delivery |-> "none", attempts |-> 0, next |-> 0,
           ended |-> FALSE]
Fresh == [Absent EXCEPT !.status = "pending"]

Active(i) == rec[i].status # "absent"
Common(i) == Routes[i] > 0

(* Who holds what. *)
InDispatch == {"reading", "select", "gated", "ready", "committed", "sent"}
InPolicy == {"guarded", "checked", "owned"} \cup InDispatch
InEffects == {"shared", "admitted"} \cup InPolicy
InWake == InDispatch \cup {"rereading"}
Pcs == {"idle", "listed", "rereading"} \cup InEffects

(* Mutant: the shared lock is taken only once paused has been read. *)
EffectsSharedLate == \E w \in Workers : pc[w] \in InEffects \ {"shared", "admitted"}

EffectsShared == \E w \in Workers : pc[w] \in InEffects
EffectsExclusive == cancelling # NoWake
(* Mutant: effect_guard guards the admission and not the effect. *)
PolicyFreeEarly ==
  /\ ender = "idle"
  /\ \A w \in Workers : pc[w] \in InPolicy \ InDispatch => cur[w] \notin PolicyWakes

PolicyFree ==
  ender = "idle" /\ \A w \in Workers : pc[w] \in InPolicy => cur[w] \notin PolicyWakes
(* Mutant: the lifecycle lock is dropped once the runtime has been read. *)
WakeFreeEarly(i) ==
  /\ \A w \in Workers : ~(pc[w] \in InWake \ {"ready", "committed", "sent"} /\ cur[w] = i)
  /\ visiting # i

WakeFree(i) ==
  /\ \A w \in Workers : ~(pc[w] \in InWake /\ cur[w] = i)
  /\ visiting # i

-----------------------------------------------------------------------------
(* Wake policy: what a completed owner does to a record. *)

OwnerEnded(i) == i \in PolicyWakes /\ owners /\ OwnerEnd[i] \in {"retire", "hold"}

OwnerStops(i, r) ==
  OwnerEnded(i) /\ r.delivery # "uncertain" /\ r.status \in {"pending", "firing"}

apply_owner_state(i, r) ==
  [r EXCEPT !.ended = @ \/ OwnerEnded(i),
            !.status = IF ~OwnerStops(i, r) THEN @
                       ELSE IF OwnerEnd[i] = "retire" THEN "cancelled" ELSE "pending"]

(* Verdicts of native_intents.eligibility and dispatch_gate (module        *)
(* WakeTime) by phase: 0 before the release, 1 in the window, 2 within the *)
(* reserve before expiry, 3 after it.  No verdict is false of the time; a  *)
(* clock may always be unavailable ("wait").                               *)
Phases == 0 .. 3
eligibility(p) ==
  {"wait"} \cup (IF p \in {1, 2} THEN {"due"} ELSE {}) \cup (IF p = 3 THEN {"missed"} ELSE {})
(* Mutant: the gate reserves nothing for the handoff. *)
dispatch_gateNoReserve(p) == eligibility(p)

dispatch_gate(p) ==
  {"wait"} \cup (IF p = 1 THEN {"due"} ELSE {}) \cup (IF p = 3 THEN {"missed"} ELSE {})

(* Mutant: a missed intent takes the status of an expired signal wake. *)
VerdictExpired(r, v) ==
  [r EXCEPT !.status = CASE v = "due" -> "firing"
                         [] v = "missed" -> "expired"
                         [] v = "wait" -> "pending"]

(* Mutant: a missed deadline only keeps the intent waiting. *)
VerdictNeverFails(r, v) == [r EXCEPT !.status = IF v = "due" THEN "firing" ELSE "pending"]

Verdict(r, v) ==
  [r EXCEPT !.status = CASE v = "due" -> "firing"
                         [] v = "missed" -> "failed"
                         [] v = "wait" -> "pending"]

-----------------------------------------------------------------------------
(* Requests. *)

(* Mutant: archived intents are not searched. *)
KnownActive(i) == Active(i)

Known(i) == Active(i) \/ i \in archived

(* native_intents.retain and runtime_wakes.retain: under the policy lock   *)
(* and the lock of the key, an existing intent with the key, active or     *)
(* archived, is returned instead.                                          *)
Retain(i) ==
  /\ i \in PolicyWakes => PolicyFree /\ (Common(i) <=> permStore)
  /\ \A j \in Wakes : Key[j] = Key[i] => ~Known(j)
  /\ rec' = [rec EXCEPT ![i] = apply_owner_state(i, Fresh)]
  /\ UNCHANGED <<archived, archiving, owners, paused, permStore, phase, monitor,
                 operator, world>>

-----------------------------------------------------------------------------
(* Monitors: one polling pass. *)

(* The clock is read once per pass and shared by every evaluation in it. *)
PollStart(w) ==
  /\ pc[w] = "idle" /\ clk[w] # phase
  /\ clk' = [clk EXCEPT ![w] = phase]
  /\ UNCHANGED <<disk, phase, pc, cur, snap, rt, res, age, operator, world>>

(* native_intents.evaluate *)
Evaluate(w, i, v) ==
  /\ pc[w] = "idle" /\ rec[i].status = "pending" /\ WakeFree(i)
  /\ v \in eligibility(clk[w])
  /\ rec' = [rec EXCEPT ![i] = IF OwnerStops(i, rec[i]) THEN apply_owner_state(i, rec[i])
                               ELSE Verdict(apply_owner_state(i, rec[i]), v)]
  /\ UNCHANGED <<archived, archiving, owners, paused, permStore, phase, monitor,
                 operator, world>>

(* Mutant: monitors leave an unknown submission to the operator. *)
ListDefinite(w, i) ==
  /\ pc[w] = "idle" /\ rec[i].status = "firing" /\ rec[i].delivery # "uncertain"
  /\ pc' = [pc EXCEPT ![w] = "listed"] /\ cur' = [cur EXCEPT ![w] = i]
  /\ snap' = [snap EXCEPT ![w] = rec[i]]
  /\ UNCHANGED <<disk, phase, rt, res, clk, age, operator, world>>

(* The dispatch loop reads the firing records before it handles them. *)
List(w, i) ==
  /\ pc[w] = "idle" /\ rec[i].status = "firing"
  /\ pc' = [pc EXCEPT ![w] = "listed"] /\ cur' = [cur EXCEPT ![w] = i]
  /\ snap' = [snap EXCEPT ![w] = rec[i]]
  /\ UNCHANGED <<disk, phase, rt, res, clk, age, operator, world>>

Stay(w, q) ==
  /\ pc' = [pc EXCEPT ![w] = q]
  /\ UNCHANGED <<disk, phase, cur, snap, rt, res, clk, age, operator, world>>

(* What every return of the dispatch path does: locks go, memory goes. *)
Return(w) ==
  /\ pc' = [pc EXCEPT ![w] = "idle"] /\ cur' = [cur EXCEPT ![w] = NoWake]
  /\ snap' = [snap EXCEPT ![w] = Absent] /\ rt' = [rt EXCEPT ![w] = 0]
  /\ res' = [res EXCEPT ![w] = "none"] /\ age' = [age EXCEPT ![w] = 0]
  /\ UNCHANGED <<clk, operator>>

Skip(w) == Return(w) /\ UNCHANGED <<disk, phase, world>>

Save(w, r) ==
  /\ rec' = [rec EXCEPT ![cur[w]] = r]
  /\ Return(w)
  /\ UNCHANGED <<archived, archiving, owners, paused, permStore, phase, world>>

(* wake_control.delivery_guard: take the shared lock, then look at paused. *)
TakeEffects(w) == pc[w] = "listed" /\ ~EffectsExclusive /\ Stay(w, "shared")

CheckPaused(w) == pc[w] = "shared" /\ IF paused THEN Skip(w) ELSE Stay(w, "admitted")

(* wake_policy.effect_guard *)
TakePolicy(w) ==
  pc[w] = "admitted" /\ (cur[w] \in PolicyWakes => PolicyFree) /\ Stay(w, "guarded")

(* wake_control.guard_dispatch: the listed snapshot must still be the      *)
(* record.  This is read without the wake lock.                            *)
Admit(w) ==
  LET i == cur[w] IN
  /\ pc[w] = "guarded"
  /\ IF rec[i] # snap[w] \/ rec[i].status # "firing" THEN Skip(w)
     ELSE Stay(w, IF i \in PolicyWakes THEN "checked" ELSE "owned")

(* Then, for schema 8, the owner's completion is applied under the wake    *)
(* lock to what was read before it.                                        *)
ApplyOwner(w) ==
  LET i == cur[w]
      r == apply_owner_state(i, snap[w])
  IN
  /\ pc[w] = "checked" /\ WakeFree(i)
  /\ IF OwnerStops(i, snap[w]) THEN Save(w, r)
     ELSE /\ rec' = IF r # snap[w] THEN [rec EXCEPT ![i] = r] ELSE rec
          /\ pc' = [pc EXCEPT ![w] = "owned"] /\ snap' = [snap EXCEPT ![w] = r]
          /\ UNCHANGED <<archived, archiving, owners, paused, permStore, phase,
                         cur, rt, res, clk, age, operator, world>>

(* permission_migration.legacy_wake_held *)
LegacyHeld(i) == permStore /\ ~Common(i)

(* Mutant: an empty queue listing is taken for acceptance. *)
EvidenceAssumed(i) == TRUE

(* Exactly one message with this submission's text is visible. *)
Evidence(i) == inbox[i] = 1

(* native_intents.dispatch and runtime_wakes.dispatch take the wake lock   *)
(* and look again; an uncertain submission is only ever read back.         *)
Enter(w) ==
  LET i == cur[w] IN
  /\ pc[w] = "owned" /\ WakeFree(i)
  /\ IF rec[i] # snap[w] \/ rec[i].status # "firing" THEN Skip(w)
     ELSE IF rec[i].delivery = "uncertain" THEN Stay(w, "reading")
     ELSE IF LegacyHeld(i) THEN Skip(w)
     ELSE /\ pc' = [pc EXCEPT ![w] = "select"]
          /\ rt' = [rt EXCEPT ![w] = rec[i].next + 1]
          /\ UNCHANGED <<disk, phase, cur, snap, res, clk, age, operator, world>>

(* native reconcile on an uncertain native wake; it never resubmits. *)
Reconcile(w, i) ==
  /\ pc[w] = "idle" /\ i \notin RuntimeWakes /\ Active(i) /\ WakeFree(i)
  /\ rec[i].delivery = "uncertain"
  /\ pc' = [pc EXCEPT ![w] = "rereading"] /\ cur' = [cur EXCEPT ![w] = i]
  /\ snap' = [snap EXCEPT ![w] = rec[i]]
  /\ UNCHANGED <<disk, phase, rt, res, clk, age, operator, world>>

(* reconcile_native, and the uncertain branch of runtime_wakes.dispatch:   *)
(* the queue is read while the wake lock is held.                          *)
ReadBack(w) ==
  /\ pc[w] \in {"reading", "rereading"} /\ Evidence(cur[w])
  /\ Save(w, [snap[w] EXCEPT !.status = "submitted", !.delivery = "accepted"])

(* No exact evidence, or none could be read: the native path notes it in   *)
(* the record, the runtime path writes nothing.  Neither sends again.      *)
ReadNothing(w) ==
  /\ pc[w] \in {"reading", "rereading"}
  /\ IF cur[w] \in RuntimeWakes THEN Skip(w) ELSE Save(w, snap[w])

RoutesLeft(w) == Common(cur[w]) => rt[w] <= Routes[cur[w]]

(* permission_wake.dispatch_native: a route that is denied or unsupported  *)
(* is passed over in memory only, and the next one passes the gate again.  *)
(* permission_wake.runtime_route chooses after the observation.            *)
NextRoute(w) ==
  /\ pc[w] \in IF cur[w] \in RuntimeWakes THEN {"gated"} ELSE {"select", "gated", "ready"}
  /\ Common(cur[w]) /\ RoutesLeft(w)
  /\ pc' = [pc EXCEPT ![w] = IF cur[w] \in RuntimeWakes THEN "gated" ELSE "select"]
  /\ rt' = [rt EXCEPT ![w] = rt[w] + 1]
  /\ UNCHANGED <<disk, phase, cur, snap, res, clk, age, operator, world>>

HoldRoutes(w) ==
  /\ pc[w] = "select" /\ ~RoutesLeft(w) /\ cur[w] \notin RuntimeWakes
  /\ Save(w, [rec[cur[w]] EXCEPT !.status = "pending"])

(* The first gate, before the runtime is read. *)
Gate(w, v) ==
  /\ pc[w] = "select" /\ (RoutesLeft(w) \/ cur[w] \in RuntimeWakes)
  /\ v \in dispatch_gate(phase)
  /\ IF v = "due" THEN Stay(w, "gated") ELSE Save(w, Verdict(rec[cur[w]], v))

(* Resolve and observe the recipient: ready, or not (busy, gone, failed).  *)
ObserveReady(w) == pc[w] = "gated" /\ RoutesLeft(w) /\ Stay(w, "ready")

ObserveUnready(w) ==
  pc[w] = "gated" /\ Save(w, [rec[cur[w]] EXCEPT !.status = "pending"])

(* Mutant: the ambiguity is kept in memory until the outcome is known. *)
CommitInMemory(w, v) ==
  /\ pc[w] = "ready" /\ v \in dispatch_gate(phase)
  /\ IF v # "due" THEN Save(w, Verdict(rec[cur[w]], v)) ELSE Stay(w, "committed")

(* The second gate; then the ambiguity is persisted before the effect.     *)
Commit(w, v) ==
  LET i == cur[w] IN
  /\ pc[w] = "ready" /\ v \in dispatch_gate(phase)
  /\ IF v # "due" THEN Save(w, Verdict(rec[i], v))
     ELSE /\ rec' = [rec EXCEPT ![i] = [rec[i] EXCEPT !.delivery = "uncertain",
                                                     !.attempts = rec[i].attempts + 1]]
          /\ pc' = [pc EXCEPT ![w] = "committed"]
          /\ UNCHANGED <<archived, archiving, owners, paused, permStore, phase,
                         cur, snap, rt, res, clk, age, operator, world>>

(* adapter.submit: what it reports, and what the queue does. *)
Send(w, outcome, seen) ==
  LET i == cur[w] IN
  /\ pc[w] = "committed"
  /\ \/ outcome = "not_sent" /\ Common(i) /\ seen = "never"
     \/ outcome = "accepted" /\ seen = "now"
     \/ outcome = "uncertain" /\ seen \in {"now", "late", "never"}
  /\ pc' = [pc EXCEPT ![w] = "sent"] /\ res' = [res EXCEPT ![w] = outcome]
  /\ sent' = [sent EXCEPT ![i] = IF outcome = "not_sent" THEN @ ELSE @ + 1]
  /\ inbox' = [inbox EXCEPT ![i] = IF seen = "now" THEN @ + 1 ELSE @]
  /\ late' = [late EXCEPT ![i] = IF seen = "late" THEN @ + 1 ELSE @]
  /\ age' = [age EXCEPT ![w] = 0]
  /\ UNCHANGED <<disk, phase, cur, snap, rt, clk, operator>>

(* Mutant: an unconfirmed submission falls back to the next route. *)
ConcludeFallback(w) ==
  LET i == cur[w] IN
  /\ pc[w] = "sent"
  /\ IF res[w] = "accepted"
     THEN Save(w, [rec[i] EXCEPT !.status = "submitted", !.delivery = "accepted"])
     ELSE Save(w, [rec[i] EXCEPT !.status = "pending", !.delivery = "none", !.next = rt[w]])

(* Record the outcome.  Only a definitive pre-I/O refusal clears the       *)
(* ambiguity and lets the next route be tried.                             *)
Conclude(w) ==
  LET i == cur[w]
      cleared == [rec[i] EXCEPT !.delivery = "none", !.next = rt[w]]
  IN
  /\ pc[w] = "sent"
  /\ \/ /\ res[w] = "accepted"
        /\ Save(w, [rec[i] EXCEPT !.status = "submitted", !.delivery = "accepted"])
     \/ res[w] = "uncertain" /\ Save(w, rec[i])
     \/ /\ res[w] = "not_sent" /\ i \in RuntimeWakes
        /\ Save(w, [cleared EXCEPT !.status = "pending"])
     \/ /\ res[w] = "not_sent" /\ i \notin RuntimeWakes
        /\ rec' = [rec EXCEPT ![i] = cleared]
        /\ pc' = [pc EXCEPT ![w] = "select"] /\ rt' = [rt EXCEPT ![w] = rt[w] + 1]
        /\ res' = [res EXCEPT ![w] = "none"]
        /\ UNCHANGED <<archived, archiving, owners, paused, permStore, phase,
                       cur, snap, clk, age, operator, world>>

(* A monitor dies; the disk and the recipient keep what they have. *)
Crash(w) == pc[w] # "idle" /\ Skip(w)

-----------------------------------------------------------------------------
(* Operators. *)

(* Mutant: cancellation does not look at the delivery. *)
CancelNeverRefused(i) == FALSE

(* wake_control._cancel tests native_delivery and app_server_delivery. *)
CancelRefused(i) == i \notin RuntimeWakes /\ rec[i].delivery = "uncertain"

CancelAdmit(i) ==
  /\ ~EffectsExclusive /\ ~EffectsShared /\ Active(i) /\ ~CancelRefused(i)
  /\ cancelling' = i
  /\ UNCHANGED <<disk, phase, monitor, fence, ender, todo, visiting, got, world>>

(* Mutant: a submitted wake can be cancelled. *)
CanCancelSubmitted(i) == rec[i].status \in {"pending", "firing", "submitted"}

CanCancel(i) == rec[i].status \in {"pending", "firing"}

(* records.cancel_record under the wake lock, or the command gives up. *)
CancelCommit ==
  LET i == cancelling IN
  /\ i # NoWake /\ WakeFree(i)
  /\ rec' = IF CanCancel(i) THEN [rec EXCEPT ![i] = [rec[i] EXCEPT !.status = "cancelled"]]
            ELSE rec
  /\ cancelling' = NoWake
  /\ UNCHANGED <<archived, archiving, owners, paused, permStore, phase, monitor,
                 fence, ender, todo, visiting, got, world>>

CancelDies ==
  /\ cancelling # NoWake /\ cancelling' = NoWake
  /\ UNCHANGED <<disk, phase, monitor, fence, ender, todo, visiting, got, world>>

(* wake_control.change_control.  pause and pause-status answer with the    *)
(* in_flight probe, which is made after paused is on disk.                 *)
Pause ==
  /\ ~paused /\ paused' = TRUE
  /\ UNCHANGED <<rec, archived, archiving, owners, permStore, phase, monitor, operator, world>>

in_flight == EffectsShared \/ EffectsExclusive

PauseStatus ==
  /\ paused /\ ~in_flight /\ fence' = TRUE
  /\ UNCHANGED <<disk, phase, monitor, cancelling, ender, todo, visiting, got, world>>

Resume ==
  /\ paused /\ paused' = FALSE /\ fence' = FALSE
  /\ UNCHANGED <<rec, archived, archiving, owners, permStore, phase, monitor,
                 cancelling, ender, todo, visiting, got, world>>

(* wake_policy.complete_owner: the completion is durable first, then each  *)
(* record of the owner is read and replaced under its own lock.            *)
Owned == {i \in PolicyWakes : OwnerEnd[i] # "none"}

CompleteOwner ==
  /\ PolicyFree /\ Owned # {}
  /\ owners' = TRUE /\ ender' = "busy" /\ todo' = {i \in Owned : Active(i)}
  /\ UNCHANGED <<rec, archived, archiving, paused, permStore, phase, monitor,
                 cancelling, fence, visiting, got, world>>

OwnerRead(i) ==
  /\ i \in todo /\ visiting = NoWake /\ WakeFree(i) /\ Active(i)
  /\ visiting' = i /\ got' = rec[i] /\ todo' = todo \ {i}
  /\ UNCHANGED <<disk, phase, monitor, cancelling, fence, ender, world>>

OwnerWrite ==
  /\ visiting # NoWake
  /\ rec' = [rec EXCEPT ![visiting] = apply_owner_state(visiting, got)]
  /\ visiting' = NoWake /\ got' = Absent
  /\ UNCHANGED <<archived, archiving, owners, paused, permStore, phase, monitor,
                 cancelling, fence, ender, todo, world>>

(* The command ends, dies, or meets a record that is no longer there. *)
OwnerReturn ==
  /\ ender = "busy" /\ ender' = "idle"
  /\ todo' = {} /\ visiting' = NoWake /\ got' = Absent
  /\ UNCHANGED <<disk, phase, monitor, cancelling, fence, world>>

(* records.archive_record takes no lock: the copy is written, then the     *)
(* active file is unlinked whatever it holds by then.                      *)
ArchiveWrite(i) ==
  /\ rec[i].status \in Terminal /\ i \notin archiving
  /\ archived' = archived \cup {i} /\ archiving' = archiving \cup {i}
  /\ UNCHANGED <<rec, owners, paused, permStore, phase, monitor, operator, world>>

ArchiveUnlink(i) ==
  /\ i \in archiving /\ archiving' = archiving \ {i}
  /\ rec' = [rec EXCEPT ![i] = Absent]
  /\ UNCHANGED <<archived, owners, paused, permStore, phase, monitor, operator, world>>

ArchiveDies(i) ==
  /\ i \in archiving /\ archiving' = archiving \ {i}
  /\ UNCHANGED <<rec, archived, owners, paused, permStore, phase, monitor, operator, world>>

-----------------------------------------------------------------------------
(* The rest of the world. *)

ActivatePermissions ==
  /\ ~permStore /\ permStore' = TRUE
  /\ UNCHANGED <<rec, archived, archiving, owners, paused, phase, monitor, operator, world>>

(* A phase lasts longer than the reserve, and the handoff from the second  *)
(* gate to the recipient's I/O less: at most one boundary falls inside it. *)
Tick ==
  /\ phase + 1 \in Phases /\ phase' = phase + 1
  /\ \A w \in Workers : age[w] = 0
  /\ age' = [w \in Workers |-> IF pc[w] = "committed" THEN 1 ELSE 0]
  /\ UNCHANGED <<disk, pc, cur, snap, rt, res, clk, operator, world>>

Arrive(i) ==
  /\ late[i] > 0
  /\ late' = [late EXCEPT ![i] = @ - 1] /\ inbox' = [inbox EXCEPT ![i] = @ + 1]
  /\ UNCHANGED <<disk, phase, monitor, operator, sent>>

-----------------------------------------------------------------------------
Init ==
  /\ rec = [i \in Wakes |-> Absent] /\ archived = {} /\ archiving = {}
  /\ owners = FALSE /\ paused = FALSE /\ permStore \in BOOLEAN
  /\ phase \in {0, 1}
  /\ pc = [w \in Workers |-> "idle"] /\ cur = [w \in Workers |-> NoWake]
  /\ snap = [w \in Workers |-> Absent] /\ rt = [w \in Workers |-> 0]
  /\ res = [w \in Workers |-> "none"] /\ clk = [w \in Workers |-> phase]
  /\ age = [w \in Workers |-> 0]
  /\ cancelling = NoWake /\ fence = FALSE
  /\ ender = "idle" /\ todo = {} /\ visiting = NoWake /\ got = Absent
  /\ sent = [i \in Wakes |-> 0] /\ inbox = [i \in Wakes |-> 0]
  /\ late = [i \in Wakes |-> 0]

Poll(w) ==
  \/ PollStart(w)
  \/ \E i \in Wakes :
       List(w, i) \/ Reconcile(w, i) \/ \E v \in {"wait", "due", "missed"} : Evaluate(w, i, v)

Dispatch(w) ==
  \/ TakeEffects(w) \/ CheckPaused(w) \/ TakePolicy(w) \/ Admit(w)
  \/ ApplyOwner(w) \/ Enter(w) \/ ReadBack(w) \/ ReadNothing(w) \/ NextRoute(w)
  \/ HoldRoutes(w) \/ ObserveReady(w) \/ ObserveUnready(w)
  \/ \E v \in {"wait", "due", "missed"} : Gate(w, v) \/ Commit(w, v)
  \/ \E o \in {"not_sent", "accepted", "uncertain"}, s \in {"now", "late", "never"} :
       Send(w, o, s)
  \/ Conclude(w)

Operate ==
  \/ \E i \in Wakes : \/ Retain(i) \/ CancelAdmit(i) \/ OwnerRead(i)
                      \/ ArchiveWrite(i) \/ ArchiveUnlink(i) \/ ArchiveDies(i)
  \/ CancelCommit \/ CancelDies \/ Pause \/ PauseStatus \/ Resume
  \/ CompleteOwner \/ OwnerWrite \/ OwnerReturn \/ ActivatePermissions

Next ==
  \/ \E w \in Workers : Poll(w) \/ Dispatch(w) \/ Crash(w)
  \/ Operate
  \/ Tick
  \/ \E i \in Wakes : Arrive(i)

Spec == Init /\ [][Next]_vars

-----------------------------------------------------------------------------
TypeOK ==
  /\ rec \in [Wakes -> Record] /\ archived \subseteq Wakes /\ archiving \subseteq Wakes
  /\ owners \in BOOLEAN /\ paused \in BOOLEAN /\ permStore \in BOOLEAN
  /\ phase \in Phases
  /\ pc \in [Workers -> Pcs] /\ cur \in [Workers -> Wakes \cup {NoWake}]
  /\ snap \in [Workers -> Record] /\ rt \in [Workers -> Nat]
  /\ res \in [Workers -> {"none", "not_sent", "accepted", "uncertain"}]
  /\ clk \in [Workers -> Phases] /\ age \in [Workers -> {0, 1}]
  /\ cancelling \in Wakes \cup {NoWake} /\ fence \in BOOLEAN
  /\ ender \in {"idle", "busy"} /\ todo \subseteq Wakes
  /\ visiting \in Wakes \cup {NoWake} /\ got \in Record
  /\ sent \in [Wakes -> Nat] /\ inbox \in [Wakes -> Nat] /\ late \in [Wakes -> Nat]

(* However monitors interleave, die and restart, whatever the queue        *)
(* reports, and however often the request is repeated, before or after its *)
(* record is archived, one intent reaches the recipient at most once.      *)
AtMostOnce ==
  \A i, j \in Wakes :
    /\ sent[i] <= 1
    /\ Key[i] = Key[j] /\ i # j => sent[i] = 0 \/ sent[j] = 0

(* An effect is never forgotten: from before the submission until the wake *)
(* is archived the record on disk says that it may have happened, so no    *)
(* monitor started later can take the wake for undelivered.                *)
EffectRemembered ==
  \A i \in Wakes :
    sent[i] > 0 =>
      \/ rec[i].delivery \in {"uncertain", "accepted"} /\ rec[i].attempts > 0
      \/ ~Active(i) /\ i \in archived

(* A wake that cancellation, its owner or a missed deadline has closed was *)
(* not submitted: an ambiguous submission refuses all three                *)
(* (wake_control._cancel, wake_policy.apply_owner_state, the gates).       *)
(* Native wakes only: see UnknownHolds for the others.                     *)
ClosedMeansUnsent ==
  \A i \in Wakes \ RuntimeWakes :
    rec[i].status \in {"cancelled", "failed"} => sent[i] = 0

(* "submitted" is only written on evidence that the recipient's queue has  *)
(* the message, exactly once.                                              *)
SubmittedMeansQueued ==
  \A i \in Wakes : rec[i].status = "submitted" => inbox[i] = 1

(* Once pause has answered in_flight = False, nothing reaches a recipient  *)
(* until resume (the shared lock is taken before paused is read, and the   *)
(* probe is made after paused is written).                                 *)
PauseFences == [][fence => sent' = sent]_vars

(* After an owner's completion is durable no wake it stops is submitted,   *)
(* even one whose dispatch had begun (effect_guard holds the policy lock   *)
(* over the effect), and even if complete_owner died before visiting it.   *)
OwnerEndFences ==
  [][\A i \in Wakes : owners /\ OwnerEnd[i] \in {"retire", "hold"} => sent'[i] = sent[i]]_vars

(* A submission that passed dispatch_gate reaches the recipient before the *)
(* wake expires, because the gate reserves the time of the handoff.        *)
SentBeforeExpiry == [][sent' # sent => phase < 3]_vars

(* An unknown submission holds for reconciliation: it is never cancelled   *)
(* (docs/wake-emergency-controls.md, and the comment in _cancel).          *)
UnknownHolds == \A i \in Wakes : rec[i].delivery = "uncertain" => rec[i].status # "cancelled"

(* Terminal statuses are final: later evaluations, cancellations, owner    *)
(* completions and read-backs leave them alone until the file is archived. *)
TerminalIsFinal ==
  [][\A i \in Wakes : rec[i].status \in Terminal =>
       rec'[i].status \in {rec[i].status, "absent"}]_vars

(* The promise (module WakePromise) a wake keeps, read off the records, the *)
(* archive and the recipient.                                              *)
Fate(i) ==
  IF sent[i] > 0 THEN "sent"
  ELSE IF rec[i].status \in {"cancelled", "failed"} \/ i \in archived THEN "closed"
  ELSE IF Active(i) THEN "open" ELSE "none"

Promise == INSTANCE WakePromise WITH outcome <- [i \in Wakes |-> Fate(i)]

(* Every step of monitors, operators, crashes and queue is a step of that  *)
(* promise or none: one submission per key, and none after a wake is       *)
(* closed, archived, or taken up again by a repeated request.              *)
KeepsPromise == Promise!PSpec

-----------------------------------------------------------------------------
(* Fairness.  Monitors may die any number of times, and in the end one     *)
(* stays up (the service manager restarts it).  A live monitor keeps taking*)
(* its steps; a contended lock is granted eventually to one who keeps      *)
(* asking (strong fairness); clock and recipient answer now and then.      *)
(* Operators owe nothing, except that a cancel or owner-complete command   *)
(* that runs ends.                                                         *)
LiveSpec ==
  /\ Spec
  /\ <>[][\A w \in Workers : ~Crash(w)]_vars
  /\ WF_vars(CancelCommit \/ CancelDies) /\ WF_vars(OwnerWrite \/ OwnerReturn)
  /\ \A w \in Workers :
       /\ SF_vars(PollStart(w))
       /\ \A i \in Wakes : SF_vars(Evaluate(w, i, "missed")) /\ WF_vars(List(w, i))
       /\ SF_vars(TakeEffects(w)) /\ SF_vars(TakePolicy(w))
       /\ SF_vars(ApplyOwner(w)) /\ SF_vars(Enter(w))
       /\ WF_vars(CheckPaused(w) \/ Admit(w) \/ HoldRoutes(w) \/ Conclude(w))
       /\ WF_vars(ReadBack(w) \/ ReadNothing(w)) /\ SF_vars(ReadBack(w))
       /\ WF_vars(Gate(w, "missed")) /\ WF_vars(Commit(w, "missed"))
       /\ WF_vars(ObserveReady(w) \/ ObserveUnready(w) \/ NextRoute(w))

(* Nothing is left hanging: an expired wake ends, unless its delivery is   *)
(* unknown, its owner or the permission migration holds it for review, or  *)
(* the root is paused.                                                     *)
ExpiredSettles ==
  \A i \in Wakes :
    phase = 3 /\ rec[i].status \in {"pending", "firing"} ~>
      \/ rec[i].status \in Terminal \cup {"absent"} \/ rec[i].delivery = "uncertain"
      \/ paused \/ LegacyHeld(i) \/ OwnerStops(i, rec[i])

(* An unknown submission that the recipient's queue does show is found and *)
(* recorded, even if the monitor that made it died.                        *)
UnknownResolves ==
  \A i \in Wakes :
    rec[i].delivery = "uncertain" /\ inbox[i] = 1 ~> rec[i].delivery # "uncertain" \/ paused
=============================================================================
