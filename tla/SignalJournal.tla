---------------------------- MODULE SignalJournal ----------------------------
(***************************************************************************)
(* Event-driven wakes: the SQLite signal journal (signal_store.py), the    *)
(* record files it publishes (signal_records.py), and the processes that   *)
(* use them: registrars that arm a wake, pollers that run poll_once        *)
(* (daemon.py) and an operator that cancels.  Every SQLite transaction and *)
(* every change of a record file is one step, and any process may die      *)
(* between two steps.  There is one source instance, a GitHub source whose *)
(* clock is the number of occurrences it has produced.                     *)
(*                                                                         *)
(* Left to the other columns: with one source last_local_sequence is       *)
(* next_sequence - 1, the preparer token of an arm is the source lease,    *)
(* revision 2 of the outbox exists once a match is reserved and is applied *)
(* when the lifecycle row is, and a wake's retention pin is the range of   *)
(* sequences after its anchor, released when the arm is tombstoned.        *)
(***************************************************************************)
EXTENDS Naturals, FiniteSets

CONSTANTS
  Wakes,         \* registrations, one for each idempotency key
  Registrars,    \* processes that call arm()
  Pollers,       \* processes that run poll_once on the root
  Operators,     \* processes that call cancel_record
  Occurrences,   \* positions at which the source produces something
  Class,         \* what the wakes' clauses make of each occurrence
  Overlap,       \* how far behind its checkpoint a source replays
  MaxCandidates, \* EvaluationLimits.max_candidates
  MaxAttempts,   \* max_attempts of the records
  MaxDeferrals,  \* max_safety_deferrals of the records
  MaxLeases,     \* bound on lease_generation
  MaxPrompts,    \* bound on the prompts given for one wake
  MaxCrashes,    \* bound on the processes that die
  Nobody         \* no process, no wake, no file

Processes == Registrars \cup Pollers \cup Operators

\* A record file: the bytes of the outbox payload or not, and its counters.
Copy == [exact : BOOLEAN, attempts : Nat, defers : Nat]

ASSUME JournalAssumption ==
  /\ Occurrences \subseteq Nat \ {0} /\ IsFiniteSet(Occurrences)
  /\ Class \in [Occurrences -> {"match", "held", "other", "elsewhere"}]
  /\ Overlap \in Nat
  /\ MaxCandidates \in Nat \ {0}
  /\ {MaxAttempts, MaxDeferrals, MaxLeases, MaxPrompts, MaxCrashes} \subseteq Nat
  /\ Nobody \notin Wakes \cup Processes \cup Nat \cup Copy
  /\ Registrars \cap Pollers = {} /\ Operators \cap (Registrars \cup Pollers) = {}

VARIABLES
  \* the journal
  arm,           \* arms.state, "none" before the row exists
  registered,    \* arms.registered_at, set once by the row's insert
  anchor,        \* source position and local_after_sequence of the arm
  scanned,       \* evaluation_progress
  reserved,      \* match_reservations: the winning occurrence, or 0
  desired,       \* wake_lifecycle.desired_status
  applied,       \* wake_lifecycle.applied_status
  receipt,       \* local_sequence of each receipt, 0 without one
  nextSeq,       \* journal_meta.next_sequence
  checkpoint,    \* source_state.checkpoint_order, 0 before the first commit
  lease,         \* lease_owner (a generation, 0 for none) and whether it is unexpired
  generation,    \* lease_generation
  \* the record files and the locks
  file,          \* the copy of each record in each status directory
  lock,          \* WakeLifecycleLock
  \* the processes
  reg,           \* arm() calls
  pub,           \* _complete_registration_publication calls
  poll,          \* poll_once calls
  cancel,        \* cancel_record calls
  \* the environment
  emitted,       \* the source's last occurrence
  late,          \* expires_at has passed
  prompts,       \* prompts pasted for each wake
  crashes,
  \* history
  ingested,      \* occurrences committed to the journal so far
  seen,          \* checkpoint when each arm's lease was taken
  cancelled      \* cancel_record returned

arms == <<arm, registered, anchor, scanned, reserved, desired, applied, seen>>
source == <<receipt, nextSeq, checkpoint, ingested>>
leases == <<lease, generation>>
world == <<emitted, late, prompts, crashes, cancelled>>
vars == <<arms, source, leases, file, lock, reg, pub, poll, cancel, world>>

Terminal == {"submitted", "failed", "cancelled", "expired"}
Dirs == {"pending", "firing"} \cup Terminal
Active == {"prepared", "published"}

\* The bytes of the outbox payload, and a copy changed by the dispatcher.
Payload == [exact |-> TRUE, attempts |-> 0, defers |-> 0]
Changed(attempts, defers) == [exact |-> FALSE, attempts |-> attempts, defers |-> defers]

NoCall == [at |-> "idle", wake |-> Nobody, token |-> 0, pos |-> 0, seen |-> 0]
NoPub == [at |-> "idle", wake |-> Nobody]
NoPoll == [at |-> "idle", todo |-> {}, ends |-> {}, skip |-> {}, reads |-> FALSE, cutoff |-> 0, now |-> 0,
           late |-> FALSE, wake |-> Nobody, batch |-> {}, from |-> "pending", dest |-> "pending", copy |-> Payload]
NoCancel == [at |-> "idle", wake |-> Nobody, from |-> "pending"]

PollSteps == {"idle", "publish", "observe", "ingest", "sweep", "retired", "pending", "matched", "written",
              "projected", "place", "unplace", "dispatch", "routed", "counted", "pasted"}

CallRec == [at : {"idle", "called", "leased"}, wake : Wakes \cup {Nobody}, token : Nat, pos : Nat, seen : Nat]
PubRec == [at : {"idle", "read", "written"}, wake : Wakes \cup {Nobody}]
PollRec == [at : PollSteps, todo : SUBSET Wakes, ends : SUBSET (Wakes \X Terminal), skip : SUBSET Wakes,
            reads : BOOLEAN, cutoff : Nat, now : Nat, late : BOOLEAN, wake : Wakes \cup {Nobody},
            batch : SUBSET Occurrences, from : Dirs, dest : Dirs, copy : Copy]
CancelRec == [at : {"idle", "written", "unlinked", "retired"}, wake : Wakes \cup {Nobody}, from : Dirs]

ArmsType ==
  /\ arm \in [Wakes -> {"none", "preparing", "tombstoned"} \cup Active]
  /\ registered \in [Wakes -> Nat]
  /\ anchor \in [Wakes -> [pos : Nat, seq : Nat]]
  /\ scanned \in [Wakes -> Nat]
  /\ reserved \in [Wakes -> Nat]
  /\ desired \in [Wakes -> {"none"} \cup Dirs]
  /\ applied \in [Wakes -> {"none"} \cup Dirs]
  /\ seen \in [Wakes -> Nat]

SourceType ==
  /\ receipt \in [Occurrences -> Nat]
  /\ nextSeq \in Nat \ {0} /\ checkpoint \in Nat
  /\ ingested \subseteq Occurrences

LeaseType ==
  /\ lease \in [owner : Nat, live : BOOLEAN]
  /\ generation \in Nat

WorldType ==
  /\ emitted \in Nat
  /\ late \in BOOLEAN
  /\ prompts \in [Wakes -> Nat]
  /\ crashes \in Nat
  /\ cancelled \in [Wakes -> BOOLEAN]

TypeOK ==
  /\ ArmsType /\ SourceType /\ LeaseType /\ WorldType
  /\ file \in [Wakes -> [Dirs -> Copy \cup {Nobody}]]
  /\ lock \in [Wakes -> Processes \cup {Nobody}]
  /\ reg \in [Registrars -> CallRec]
  /\ pub \in [Registrars \cup Pollers -> PubRec]
  /\ poll \in [Pollers -> PollRec]
  /\ cancel \in [Operators -> CancelRec]

Init ==
  /\ arm = [w \in Wakes |-> "none"]
  /\ registered = [w \in Wakes |-> 0]
  /\ anchor = [w \in Wakes |-> [pos |-> 0, seq |-> 0]]
  /\ scanned = [w \in Wakes |-> 0]
  /\ reserved = [w \in Wakes |-> 0]
  /\ desired = [w \in Wakes |-> "none"]
  /\ applied = [w \in Wakes |-> "none"]
  /\ receipt = [o \in Occurrences |-> 0]
  /\ nextSeq = 1 /\ checkpoint = 0
  /\ lease = [owner |-> 0, live |-> FALSE]
  /\ generation = 0
  /\ file = [w \in Wakes |-> [d \in Dirs |-> Nobody]]
  /\ lock = [w \in Wakes |-> Nobody]
  /\ reg = [c \in Registrars |-> NoCall]
  /\ pub = [p \in Registrars \cup Pollers |-> NoPub]
  /\ poll = [m \in Pollers |-> NoPoll]
  /\ cancel = [x \in Operators |-> NoCancel]
  /\ emitted = 0
  /\ late = FALSE
  /\ prompts = [w \in Wakes |-> 0]
  /\ crashes = 0
  /\ ingested = {}
  /\ seen = [w \in Wakes |-> 0]
  /\ cancelled = [w \in Wakes |-> FALSE]

Put(w, d, copy) == file' = [file EXCEPT ![w][d] = copy]
Unlink(w, d) == file' = [file EXCEPT ![w][d] = Nobody]

\* The poller's next state.
Goes(m, state) == poll' = [poll EXCEPT ![m] = state]

-----------------------------------------------------------------------------
(* arm(): a lease on the source, the adapter's anchor, the prepared arm,    *)
(* then the publication of the pending record.                              *)

\* EventWakes.register reads the clock; the call's anchor will be that time.
ArmCall(c, w) ==
  /\ reg[c].at = "idle" /\ pub[c].at = "idle"
  /\ reg' = [reg EXCEPT ![c] = [NoCall EXCEPT !.at = "called", !.wake = w, !.pos = emitted]]
  /\ UNCHANGED <<arms, source, leases, file, lock, pub, poll, cancel, world>>

\* The first transaction finds the registration already made: its
\* publication is completed again, or the call is refused as retired.
ArmAgain(c) ==
  LET w == reg[c].wake IN
  /\ reg[c].at = "called"
  /\ arm[w] \in Active \cup {"tombstoned"}
  /\ reg' = [reg EXCEPT ![c] = NoCall]
  /\ pub' = IF arm[w] \in Active /\ desired[w] = "pending"
              THEN [pub EXCEPT ![c] = [at |-> "read", wake |-> w]] ELSE pub
  /\ UNCHANGED <<arms, source, leases, file, lock, poll, cancel, world>>

\* SOURCE_BUSY, or REGISTRATION_IN_PROGRESS.
ArmBusy(c) ==
  /\ reg[c].at = "called"
  /\ arm[reg[c].wake] \in {"none", "preparing"}
  /\ lease.owner # 0 /\ lease.live
  /\ reg' = [reg EXCEPT ![c] = NoCall]
  /\ UNCHANGED <<arms, source, leases, file, lock, pub, poll, cancel, world>>

\* The first transaction takes the lease and inserts the row, or takes over
\* a row another call left in 'preparing', whose registered_at stays.
ArmLease(c) ==
  LET w == reg[c].wake IN
  /\ reg[c].at = "called"
  /\ arm[w] \in {"none", "preparing"}
  /\ ~(lease.owner # 0 /\ lease.live)
  /\ generation < MaxLeases
  /\ generation' = generation + 1
  /\ lease' = [owner |-> generation + 1, live |-> TRUE]
  /\ arm' = [arm EXCEPT ![w] = "preparing"]
  /\ registered' = IF arm[w] = "none" THEN [registered EXCEPT ![w] = reg[c].pos] ELSE registered
  /\ reg' = [reg EXCEPT ![c] = [@ EXCEPT !.at = "leased", !.token = generation + 1, !.seen = checkpoint]]
  /\ UNCHANGED <<anchor, scanned, reserved, desired, applied, seen, source, file, lock, pub, poll, cancel, world>>

\* establish_anchor fails: _release_preparation gives up the lease, if it is
\* still this call's, and the row stays 'preparing'.
ArmFail(c) ==
  /\ reg[c].at = "leased"
  /\ lease' = IF lease.owner = reg[c].token THEN [owner |-> 0, live |-> FALSE] ELSE lease
  /\ reg' = [reg EXCEPT ![c] = NoCall]
  /\ UNCHANGED <<arms, source, generation, file, lock, pub, poll, cancel, world>>

\* Mutant: the second transaction trusts the lease taken by the first.
LeaseAssumed(c) == reg[c].token # 0

\* After establish_anchor, which for this source returns the call's time,
\* the second transaction needs the lease this call took, expired or not.
LeaseHeld(c) == lease.owner = reg[c].token

\* Mutant: the arm is published with its row, before its record is on disk.
ArmPrepareVisible(c) ==
  LET w == reg[c].wake IN
  /\ reg[c].at = "leased"
  /\ LeaseHeld(c)
  /\ arm' = [arm EXCEPT ![w] = "published"]
  /\ anchor' = [anchor EXCEPT ![w] = [pos |-> reg[c].pos, seq |-> nextSeq - 1]]
  /\ scanned' = [scanned EXCEPT ![w] = nextSeq - 1]
  /\ desired' = [desired EXCEPT ![w] = "pending"]
  /\ seen' = [seen EXCEPT ![w] = reg[c].seen]
  /\ lease' = [owner |-> 0, live |-> FALSE]
  /\ reg' = [reg EXCEPT ![c] = NoCall]
  /\ pub' = [pub EXCEPT ![c] = [at |-> "read", wake |-> w]]
  /\ UNCHANGED <<registered, reserved, applied, source, generation, file, lock, poll, cancel, world>>

ArmPrepare(c) ==
  LET w == reg[c].wake IN
  /\ reg[c].at = "leased"
  /\ LeaseHeld(c)
  /\ arm' = [arm EXCEPT ![w] = "prepared"]
  /\ anchor' = [anchor EXCEPT ![w] = [pos |-> reg[c].pos, seq |-> nextSeq - 1]]
  /\ scanned' = [scanned EXCEPT ![w] = nextSeq - 1]
  /\ desired' = [desired EXCEPT ![w] = "pending"]
  /\ seen' = [seen EXCEPT ![w] = reg[c].seen]
  /\ lease' = [owner |-> 0, live |-> FALSE]
  /\ reg' = [reg EXCEPT ![c] = NoCall]
  /\ pub' = [pub EXCEPT ![c] = [at |-> "read", wake |-> w]]
  /\ UNCHANGED <<registered, reserved, applied, source, generation, file, lock, poll, cancel, world>>

\* SOURCE_LEASE_LOST.
ArmLost(c) ==
  /\ reg[c].at = "leased"
  /\ ~LeaseHeld(c)
  /\ reg' = [reg EXCEPT ![c] = NoCall]
  /\ UNCHANGED <<arms, source, leases, file, lock, pub, poll, cancel, world>>

\* _complete_registration_publication, once the outbox row was read with the
\* lifecycle still pending: the record is written if no copy is in pending/,
\* and another copy there blocks the publication.
PubWrite(p) ==
  LET w == pub[p].wake IN
  /\ pub[p].at = "read"
  /\ \/ /\ file[w]["pending"] = Nobody
        /\ Put(w, "pending", Payload)
        /\ pub' = [pub EXCEPT ![p].at = "written"]
     \/ /\ file[w]["pending"] = Payload
        /\ pub' = [pub EXCEPT ![p].at = "written"]
        /\ UNCHANGED file
     \/ /\ file[w]["pending"] \notin {Nobody, Payload}
        /\ pub' = [pub EXCEPT ![p] = NoPub]
        /\ UNCHANGED file
  /\ UNCHANGED <<arms, source, leases, lock, reg, poll, cancel, world>>

\* The commit looks at the arm's state again, not at the lifecycle.
PubCommit(p) ==
  LET w == pub[p].wake IN
  /\ pub[p].at = "written"
  /\ IF arm[w] \in Active
       THEN /\ arm' = [arm EXCEPT ![w] = "published"]
            /\ applied' = IF desired[w] = "pending" THEN [applied EXCEPT ![w] = "pending"] ELSE applied
       ELSE UNCHANGED <<arm, applied>>
  /\ pub' = [pub EXCEPT ![p] = NoPub]
  /\ UNCHANGED <<registered, anchor, scanned, reserved, desired, seen, source, leases, file, lock, reg, poll,
                 cancel, world>>

-----------------------------------------------------------------------------
(* poll_once: publications, the source, terminal records, pending records,  *)
(* firing records, in this order.                                           *)

\* A source is polled when some pending record's arm is published; its
\* cutoff is the anchor of the arm with the earliest registered_at.
Polled == {w \in Wakes : file[w]["pending"] # Nobody /\ arm[w] = "published"}

Earliest(w) == w \in Polled /\ \A v \in Polled : registered[w] <= registered[v]

PollStart(m) ==
  /\ poll[m].at = "idle"
  /\ \E cut \in {anchor[w].pos : w \in {v \in Wakes : Earliest(v)}} \cup (IF Polled = {} THEN {0} ELSE {}) :
       Goes(m, [NoPoll EXCEPT !.at = "publish", !.todo = {w \in Wakes : arm[w] \in Active},
                                 !.reads = (Polled # {}), !.cutoff = cut, !.now = emitted, !.late = late])
  /\ UNCHANGED <<arms, source, leases, file, lock, reg, pub, cancel, world>>

\* reconcile_publications takes the next wake.
PollPublish(m, w) ==
  /\ poll[m].at = "publish" /\ pub[m].at = "idle"
  /\ w \in poll[m].todo
  /\ Goes(m, [poll[m] EXCEPT !.todo = @ \ {w}])
  /\ pub' = IF arm[w] \in Active /\ desired[w] = "pending"
              THEN [pub EXCEPT ![m] = [at |-> "read", wake |-> w]] ELSE pub
  /\ UNCHANGED <<arms, source, leases, file, lock, reg, cancel, world>>

\* The listing of the terminal records with which the third phase begins.
Sweeping(m) ==
  LET ends == {e \in Wakes \X Terminal : file[e[1]][e[2]] # Nobody}
  IN  Goes(m, [NoPoll EXCEPT !.at = "sweep", !.late = poll[m].late, !.ends = ends, !.skip = {e[1] : e \in ends}])

PollPublished(m) ==
  /\ poll[m].at = "publish" /\ pub[m].at = "idle"
  /\ poll[m].todo = {}
  /\ IF poll[m].reads THEN Goes(m, [poll[m] EXCEPT !.at = "observe"]) ELSE Sweeping(m)
  /\ UNCHANGED <<arms, source, leases, file, lock, reg, pub, cancel, world>>

\* GitHubPollingAdapter._observe: the runs completed after the cutoff, from a
\* little before the checkpoint to the time of this poll.
Window(m) ==
  {o \in Occurrences : o > poll[m].cutoff /\ o + Overlap >= checkpoint /\ o <= poll[m].now}

Observe(m) ==
  /\ poll[m].at = "observe"
  /\ poll[m].now >= checkpoint
  /\ Goes(m, [poll[m] EXCEPT !.at = "ingest", !.batch = Window(m)])
  /\ UNCHANGED <<arms, source, leases, file, lock, reg, pub, cancel, world>>

\* The provider is unavailable, or the checkpoint is ahead of this poll.
ObserveFails(m) ==
  /\ poll[m].at = "observe"
  /\ Sweeping(m)
  /\ UNCHANGED <<arms, source, leases, file, lock, reg, pub, cancel, world>>

\* ingest is refused under an unexpired lease or by a later checkpoint.
IngestAllowed(m) == ~(lease.owner # 0 /\ lease.live) /\ poll[m].now >= checkpoint

\* New occurrences get the next sequences in order of their time; a
\* duplicate keeps the one it has.  The commit clears an expired lease.
Ingest(m) ==
  LET new == {o \in poll[m].batch : receipt[o] = 0}
      rank(o) == Cardinality({p \in new : p < o})
  IN
  /\ poll[m].at = "ingest"
  /\ IngestAllowed(m)
  /\ receipt' = [o \in Occurrences |-> IF o \in new THEN nextSeq + rank(o) ELSE receipt[o]]
  /\ nextSeq' = nextSeq + Cardinality(new)
  /\ checkpoint' = poll[m].now
  /\ ingested' = ingested \cup new
  /\ lease' = [owner |-> 0, live |-> FALSE]
  /\ Sweeping(m)
  /\ UNCHANGED <<arms, generation, file, lock, reg, pub, cancel, world>>

IngestRefused(m) ==
  /\ poll[m].at = "ingest"
  /\ ~IngestAllowed(m)
  /\ Sweeping(m)
  /\ UNCHANGED <<arms, source, leases, file, lock, reg, pub, cancel, world>>

\* retire_terminal_record: the transaction tombstones the arm, which also
\* releases its pins; an expired record gives way to a reservation.
Retires(w, status) == arm[w] # "none" /\ ~(status = "expired" /\ reserved[w] # 0)

Retire(w, status) ==
  /\ arm' = [arm EXCEPT ![w] = "tombstoned"]
  /\ desired' = [desired EXCEPT ![w] = status]
  /\ applied' = [applied EXCEPT ![w] = status]
  /\ UNCHANGED <<registered, anchor, scanned, reserved, seen>>

SweepRetire(m, e) ==
  /\ poll[m].at = "sweep"
  /\ e \in poll[m].ends
  /\ IF Retires(e[1], e[2])
       THEN /\ Retire(e[1], e[2])
            /\ Goes(m, [poll[m] EXCEPT !.at = "retired", !.wake = e[1], !.ends = @ \ {e}])
       ELSE /\ Goes(m, [poll[m] EXCEPT !.ends = @ \ {e}])
            /\ UNCHANGED arms
  /\ UNCHANGED <<source, leases, file, lock, reg, pub, cancel, world>>

\* remove_superseded_pending.
SweepUnlink(m) ==
  /\ poll[m].at = "retired"
  /\ Unlink(poll[m].wake, "pending")
  /\ Goes(m, [poll[m] EXCEPT !.at = "sweep", !.wake = Nobody])
  /\ UNCHANGED <<arms, source, leases, lock, reg, pub, cancel, world>>

\* The pending records are listed when the terminal ones are done.
SweepDone(m) ==
  /\ poll[m].at = "sweep"
  /\ poll[m].ends = {}
  /\ Goes(m, [poll[m] EXCEPT !.at = "pending",
                          !.todo = {w \in Wakes : file[w]["pending"] # Nobody} \ poll[m].skip,
                          !.skip = {}])
  /\ UNCHANGED <<arms, source, leases, file, lock, reg, pub, cancel, world>>

\* The loop goes on with the other wakes, releasing this one's lock.
Drop(m, w) ==
  /\ Goes(m, [poll[m] EXCEPT !.todo = @ \ {w}, !.wake = Nobody])
  /\ UNCHANGED lock

\* The poller goes on with wake w, holding its lock, at the given step.
Hold(m, w, step) ==
  /\ Goes(m, [poll[m] EXCEPT !.at = step, !.todo = @ \ {w}, !.wake = w])
  /\ lock' = [lock EXCEPT ![w] = m]

\* The next wake of the pending loop, its lock free, its pending copy there.
Turn(m, w) ==
  /\ poll[m].at = "pending"
  /\ w \in poll[m].todo
  /\ lock[w] = Nobody

\* The record is gone, its arm is not published, or the lifecycle row has
\* not caught up with the arm.
PendingIdle(m, w) ==
  /\ Turn(m, w)
  /\ \/ file[w]["pending"] = Nobody
     \/ arm[w] \notin {"published", "tombstoned"}
     \/ arm[w] = "published" /\ reserved[w] = 0 /\ <<desired[w], applied[w]>> # <<"pending", "pending">>
  /\ Drop(m, w)
  /\ UNCHANGED <<arms, source, leases, file, reg, pub, cancel, world>>

\* The poller will move the locked wake's record from one directory to
\* another: the new copy is written before the old one is unlinked.
Moving(m, w, from, dest, copy) ==
  /\ Goes(m, [poll[m] EXCEPT !.at = "place", !.todo = @ \ {w}, !.wake = w,
                          !.from = from, !.dest = dest, !.copy = copy])
  /\ lock' = [lock EXCEPT ![w] = m]

Touched(copy) == [copy EXCEPT !.exact = FALSE]

\* load_armed_signal finds no published arm: the record follows the tombstone.
PendingRetired(m, w) ==
  /\ Turn(m, w)
  /\ file[w]["pending"] # Nobody
  /\ arm[w] = "tombstoned"
  /\ Moving(m, w, "pending", desired[w], Touched(file[w]["pending"]))
  /\ UNCHANGED <<arms, source, leases, file, reg, pub, cancel, world>>

\* evaluate() gets as far as the expiry and the receipts.
Evaluable(m, w) ==
  /\ Turn(m, w)
  /\ file[w]["pending"] # Nobody
  /\ arm[w] = "published" /\ reserved[w] = 0
  /\ desired[w] = "pending" /\ applied[w] = "pending"

\* evaluate returns Expired, expire_unreserved tombstones the arm.
PendingExpired(m, w) ==
  /\ Evaluable(m, w)
  /\ poll[m].late
  /\ Retire(w, "expired")
  /\ Moving(m, w, "pending", "expired", Touched(file[w]["pending"]))
  /\ UNCHANGED <<source, leases, file, reg, pub, cancel, world>>

\* The receipts evaluate() reads: the first ones after the scanned sequence.
Candidates(w) == {o \in Occurrences : Class[o] # "elsewhere" /\ receipt[o] > scanned[w]}

Page(w) ==
  {o \in Candidates(w) : Cardinality({p \in Candidates(w) : receipt[p] < receipt[o]}) < MaxCandidates}

\* Scanned past: not after the source anchor, or not what the wake asks for.
Passed(w, o) == o <= anchor[w].pos \/ Class[o] = "other"

\* The first receipt of the page that is not scanned past.
Stops(w, o) ==
  /\ o \in Page(w) /\ ~Passed(w, o)
  /\ \A p \in Page(w) : receipt[p] < receipt[o] => Passed(w, p)

\* It matches: reservation, outbox row and lifecycle in one transaction.
Reserve(w, o) ==
  /\ reserved' = [reserved EXCEPT ![w] = o]
  /\ desired' = [desired EXCEPT ![w] = "firing"]
  /\ UNCHANGED <<arm, registered, anchor, scanned, applied, seen>>

PendingMatched(m, w) ==
  /\ Evaluable(m, w) /\ ~poll[m].late
  /\ \E o \in Occurrences : Stops(w, o) /\ Class[o] = "match" /\ Reserve(w, o)
  /\ Hold(m, w, "matched")
  /\ UNCHANGED <<source, leases, file, reg, pub, cancel, world>>

\* What _advance_progress records when the scan stops at a receipt that is
\* not verified yet or too large, and when it stops nowhere.
SafeProgress(w) ==
  LET before(o) == {receipt[p] : p \in {q \in Page(w) : receipt[q] < receipt[o]}}
      last(seqs) == {n \in seqs : \A k \in seqs : k <= n}
  IN  IF Candidates(w) = {} THEN {nextSeq - 1}
      ELSE IF \A o \in Page(w) : Passed(w, o) THEN last({receipt[p] : p \in Page(w)})
      ELSE UNION {last(before(o) \cup {scanned[w]}) : o \in {p \in Occurrences : Stops(w, p)}}

PendingScanned(m, w) ==
  /\ Evaluable(m, w) /\ ~poll[m].late
  /\ \A o \in Occurrences : Stops(w, o) => Class[o] # "match"
  /\ \E n \in SafeProgress(w) :
       scanned' = [scanned EXCEPT ![w] = IF n > scanned[w] THEN n ELSE scanned[w]]
  /\ Drop(m, w)
  /\ UNCHANGED <<arm, registered, anchor, reserved, desired, applied, seen, source, leases, file, reg, pub,
                 cancel, world>>

\* evaluate returns the reservation it finds.
PendingReserved(m, w) ==
  /\ Turn(m, w)
  /\ file[w]["pending"] # Nobody
  /\ arm[w] = "published" /\ reserved[w] # 0
  /\ Hold(m, w, "matched")
  /\ UNCHANGED <<arms, source, leases, file, reg, pub, cancel, world>>

FiringWanted(w) == arm[w] = "published" /\ desired[w] = "firing" /\ applied[w] \notin Terminal

Release(m, step) ==
  /\ Goes(m, [NoPoll EXCEPT !.at = step, !.todo = poll[m].todo, !.late = poll[m].late])
  /\ lock' = [lock EXCEPT ![poll[m].wake] = Nobody]

\* _complete_match_publication: the firing record is written if missing,
\* and a changed one is a conflict ...
MatchWrite(m) ==
  LET w == poll[m].wake IN
  /\ poll[m].at = "matched"
  /\ IF FiringWanted(w) /\ file[w]["firing"] \in {Nobody, Payload}
       THEN /\ Put(w, "firing", Payload)
            /\ Goes(m, [poll[m] EXCEPT !.at = "written"])
            /\ UNCHANGED lock
       ELSE /\ Release(m, "pending")
            /\ UNCHANGED file
  /\ UNCHANGED <<arms, source, leases, reg, pub, cancel, world>>

\* ... the pending copy it supersedes is unlinked ...
MatchUnlink(m) ==
  /\ poll[m].at = "written"
  /\ Unlink(poll[m].wake, "pending")
  /\ Goes(m, [poll[m] EXCEPT !.at = "projected"])
  /\ UNCHANGED <<arms, source, leases, lock, reg, pub, cancel, world>>

\* ... and the lifecycle row says so.
MatchCommit(m) ==
  LET w == poll[m].wake IN
  /\ poll[m].at = "projected"
  /\ applied' = IF FiringWanted(w) THEN [applied EXCEPT ![w] = "firing"] ELSE applied
  /\ Release(m, "pending")
  /\ UNCHANGED <<arm, registered, anchor, scanned, reserved, desired, seen, source, leases, file, reg, pub,
                 cancel, world>>

\* move_record and replace_record.
Place(m) ==
  /\ poll[m].at = "place"
  /\ Put(poll[m].wake, poll[m].dest, poll[m].copy)
  /\ Goes(m, [poll[m] EXCEPT !.at = "unplace"])
  /\ UNCHANGED <<arms, source, leases, lock, reg, pub, cancel, world>>

Unplace(m) ==
  /\ poll[m].at = "unplace"
  /\ Unlink(poll[m].wake, poll[m].from)
  /\ Release(m, IF poll[m].from = "pending" THEN "pending" ELSE "dispatch")
  /\ UNCHANGED <<arms, source, leases, reg, pub, cancel, world>>

\* The firing records are listed when the pending ones are done.
PendingDone(m) ==
  /\ poll[m].at = "pending"
  /\ poll[m].todo = {}
  /\ Goes(m, [poll[m] EXCEPT !.at = "dispatch", !.late = FALSE,
                          !.todo = {w \in Wakes : file[w]["firing"] # Nobody}])
  /\ UNCHANGED <<arms, source, leases, file, lock, reg, pub, cancel, world>>

\* Mutant: the copy's bytes are compared, the lifecycle row is not read.
AuthorizedCopy(w) == file[w]["firing"] = Payload

\* authorize_firing_record: the copy is the outbox's revision 2, byte for byte.
Authorized(w) ==
  /\ arm[w] = "published"
  /\ desired[w] = "firing" /\ applied[w] = "firing"
  /\ file[w]["firing"] = Payload

DispatchSkipped(m, w) ==
  /\ poll[m].at = "dispatch"
  /\ w \in poll[m].todo
  /\ lock[w] = Nobody
  /\ ~Authorized(w)
  /\ Drop(m, w)
  /\ UNCHANGED <<arms, source, leases, file, reg, pub, cancel, world>>

\* The selected route is written into the record before the pane is looked at.
DispatchRoute(m, w) ==
  /\ poll[m].at = "dispatch"
  /\ w \in poll[m].todo
  /\ lock[w] = Nobody
  /\ Authorized(w)
  /\ Put(w, "firing", Touched(file[w]["firing"]))
  /\ Hold(m, w, "routed")
  /\ UNCHANGED <<arms, source, leases, reg, pub, cancel, world>>

\* requeue_unsafe_pane.
DispatchUnsafe(m) ==
  LET w == poll[m].wake
      n == file[w]["firing"].defers + 1
  IN
  /\ poll[m].at = "routed"
  /\ Moving(m, w, "firing", IF n >= MaxDeferrals THEN "failed" ELSE "pending",
            Changed(file[w]["firing"].attempts, n))
  /\ UNCHANGED <<arms, source, leases, file, reg, pub, cancel, world>>

\* requeue_or_fail.
Requeue(m, attempts) ==
  LET w == poll[m].wake IN
  Moving(m, w, "firing", IF attempts >= MaxAttempts THEN "failed" ELSE "pending",
         Changed(attempts, file[w]["firing"].defers))

\* The pane cannot be captured: an attempt, without a prompt.
DispatchBlind(m) ==
  /\ poll[m].at = "routed"
  /\ Requeue(m, file[poll[m].wake]["firing"].attempts + 1)
  /\ UNCHANGED <<arms, source, leases, file, reg, pub, cancel, world>>

\* The attempt is on disk before the prompt is pasted.
DispatchCount(m) ==
  LET w == poll[m].wake IN
  /\ poll[m].at = "routed"
  /\ Put(w, "firing", Changed(file[w]["firing"].attempts + 1, file[w]["firing"].defers))
  /\ Goes(m, [poll[m] EXCEPT !.at = "counted"])
  /\ UNCHANGED <<arms, source, leases, lock, reg, pub, cancel, world>>

DispatchPaste(m) ==
  LET w == poll[m].wake IN
  /\ poll[m].at = "counted"
  /\ prompts[w] < MaxPrompts
  /\ prompts' = [prompts EXCEPT ![w] = @ + 1]
  /\ Goes(m, [poll[m] EXCEPT !.at = "pasted"])
  /\ UNCHANGED <<arms, source, leases, file, lock, reg, pub, cancel, emitted, late, crashes, cancelled>>

\* The acknowledgement arrives in time.
DispatchAcked(m) ==
  LET w == poll[m].wake IN
  /\ poll[m].at = "pasted"
  /\ Moving(m, w, "firing", "submitted", file[w]["firing"])
  /\ UNCHANGED <<arms, source, leases, file, reg, pub, cancel, world>>

\* tmux fails to paste, or no acknowledgement arrives in time.
DispatchTimeout(m) ==
  /\ poll[m].at \in {"counted", "pasted"}
  /\ Requeue(m, file[poll[m].wake]["firing"].attempts)
  /\ UNCHANGED <<arms, source, leases, file, reg, pub, cancel, world>>

PollDone(m) ==
  /\ poll[m].at = "dispatch"
  /\ poll[m].todo = {}
  /\ Goes(m, NoPoll)
  /\ UNCHANGED <<arms, source, leases, file, lock, reg, pub, cancel, world>>

-----------------------------------------------------------------------------
(* cancel_record, under the wake's lock, on the copy find_record sees first.*)

CancelWrite(x, w) ==
  LET from == IF file[w]["pending"] # Nobody THEN "pending" ELSE "firing" IN
  /\ cancel[x].at = "idle"
  /\ lock[w] = Nobody
  /\ file[w][from] # Nobody
  /\ Put(w, "cancelled", Touched(file[w][from]))
  /\ lock' = [lock EXCEPT ![w] = x]
  /\ cancel' = [cancel EXCEPT ![x] = [at |-> "written", wake |-> w, from |-> from]]
  /\ UNCHANGED <<arms, source, leases, reg, pub, poll, world>>

CancelUnlink(x) ==
  /\ cancel[x].at = "written"
  /\ Unlink(cancel[x].wake, cancel[x].from)
  /\ cancel' = [cancel EXCEPT ![x].at = "unlinked"]
  /\ UNCHANGED <<arms, source, leases, lock, reg, pub, poll, world>>

\* _retire_signal_terminal opens the journal without a publisher: a pending
\* copy published meanwhile is left to the next sweep.
CancelRetire(x) ==
  /\ cancel[x].at = "unlinked"
  /\ IF Retires(cancel[x].wake, "cancelled") THEN Retire(cancel[x].wake, "cancelled") ELSE UNCHANGED arms
  /\ cancel' = [cancel EXCEPT ![x].at = "retired"]
  /\ UNCHANGED <<source, leases, file, lock, reg, pub, poll, world>>

CancelDone(x) ==
  LET w == cancel[x].wake IN
  /\ cancel[x].at = "retired"
  /\ lock' = [lock EXCEPT ![w] = Nobody]
  /\ cancel' = [cancel EXCEPT ![x] = NoCancel]
  /\ cancelled' = [cancelled EXCEPT ![w] = TRUE]
  /\ UNCHANGED <<arms, source, leases, file, reg, pub, poll, emitted, late, prompts, crashes>>

-----------------------------------------------------------------------------
(* Retention, the source, time and crashes.                                 *)

Pinned(o) == \E w \in Wakes : arm[w] \in Active /\ receipt[o] > anchor[w].seq

\* compact_receipts deletes receipts no pin covers, from the oldest on.
Compact(through) ==
  /\ \E o \in Occurrences : receipt[o] \in 1..through /\ ~Pinned(o)
  /\ receipt' = [o \in Occurrences |-> IF receipt[o] <= through /\ ~Pinned(o) THEN 0 ELSE receipt[o]]
  /\ UNCHANGED <<arms, nextSeq, checkpoint, ingested, leases, file, lock, reg, pub, poll, cancel, world>>

Emit ==
  /\ emitted + 1 \in Occurrences
  /\ emitted' = emitted + 1
  /\ UNCHANGED <<arms, source, leases, file, lock, reg, pub, poll, cancel, late, prompts, crashes, cancelled>>

LeaseExpires ==
  /\ lease.live
  /\ lease' = [lease EXCEPT !.live = FALSE]
  /\ UNCHANGED <<arms, source, generation, file, lock, reg, pub, poll, cancel, world>>

Deadline ==
  /\ ~late
  /\ late' = TRUE
  /\ UNCHANGED <<arms, source, leases, file, lock, reg, pub, poll, cancel, emitted, prompts, crashes, cancelled>>

\* A process dies: its calls are forgotten and its flocks released.
Crash(p) ==
  /\ crashes < MaxCrashes
  /\ crashes' = crashes + 1
  /\ reg' = [c \in Registrars |-> IF c = p THEN NoCall ELSE reg[c]]
  /\ pub' = [q \in Registrars \cup Pollers |-> IF q = p THEN NoPub ELSE pub[q]]
  /\ poll' = [m \in Pollers |-> IF m = p THEN NoPoll ELSE poll[m]]
  /\ cancel' = [x \in Operators |-> IF x = p THEN NoCancel ELSE cancel[x]]
  /\ lock' = [w \in Wakes |-> IF lock[w] = p THEN Nobody ELSE lock[w]]
  /\ <<reg', pub', poll', cancel'>> # <<reg, pub, poll, cancel>>
  /\ UNCHANGED <<arms, source, leases, file, emitted, late, prompts, cancelled>>

-----------------------------------------------------------------------------
Register(c) ==
  \/ \E w \in Wakes : ArmCall(c, w)
  \/ ArmAgain(c) \/ ArmBusy(c) \/ ArmLease(c) \/ ArmFail(c) \/ ArmPrepare(c) \/ ArmLost(c)

Publish(p) == PubWrite(p) \/ PubCommit(p)

PollWake(m, w) ==
  \/ PollPublish(m, w)
  \/ PendingIdle(m, w) \/ PendingRetired(m, w) \/ PendingExpired(m, w) \/ PendingMatched(m, w)
  \/ PendingScanned(m, w) \/ PendingReserved(m, w)
  \/ DispatchSkipped(m, w) \/ DispatchRoute(m, w)

PollStep(m) ==
  \/ PollStart(m) \/ PollPublished(m) \/ Observe(m) \/ ObserveFails(m) \/ Ingest(m) \/ IngestRefused(m)
  \/ \E e \in Wakes \X Terminal : SweepRetire(m, e)
  \/ SweepUnlink(m) \/ SweepDone(m)
  \/ MatchWrite(m) \/ MatchUnlink(m) \/ MatchCommit(m) \/ Place(m) \/ Unplace(m) \/ PendingDone(m)
  \/ DispatchUnsafe(m) \/ DispatchBlind(m) \/ DispatchCount(m) \/ DispatchPaste(m) \/ DispatchAcked(m)
  \/ DispatchTimeout(m) \/ PollDone(m)

CancelStep(x) ==
  \/ \E w \in Wakes : CancelWrite(x, w)
  \/ CancelUnlink(x) \/ CancelRetire(x) \/ CancelDone(x)

Next ==
  \/ \E c \in Registrars : Register(c)
  \/ \E p \in Registrars \cup Pollers : Publish(p)
  \/ \E m \in Pollers, w \in Wakes : PollWake(m, w)
  \/ \E m \in Pollers : PollStep(m)
  \/ \E x \in Operators : CancelStep(x)
  \/ \E o \in Occurrences : Compact(receipt[o])
  \/ Emit \/ LeaseExpires \/ Deadline
  \/ \E p \in Processes : Crash(p)

Spec == Init /\ [][Next]_vars

-----------------------------------------------------------------------------
\* No receipt is lost to a wake: an occurrence that matches it, later than
\* its anchor and not yet committed when its lease was taken, stays ahead of
\* the wake's scan until the wake has a match, whatever leases expire,
\* processes die or receipts are compacted meanwhile.
NoReceiptLost ==
  \A w \in Wakes : arm[w] \in Active /\ reserved[w] = 0 =>
    \A o \in ingested : Class[o] = "match" /\ o > anchor[w].pos /\ o > seen[w] => receipt[o] > scanned[w]

\* A wake that was submitted, failed or expired, or whose cancellation
\* returned, is never prompted for again, although pending and firing copies
\* of its record may still appear.  (A cancellation that died after writing
\* its copy takes effect with the next poll's sweep.)
TerminalFences ==
  [][\A w \in Wakes : prompts'[w] > prompts[w] =>
       ~cancelled[w] /\ \A d \in Terminal \ {"cancelled"} : file[w][d] = Nobody]_vars

\* Whichever process dies between two of its steps, a registration the
\* journal knows as published or retired has a record file in some directory.
RecordNeverLost ==
  \A w \in Wakes : arm[w] \in {"published", "tombstoned"} => \E d \in Dirs : file[w][d] # Nobody

\* A signal wake is prompted for at most max_attempts times.
AttemptsBounded == \A w \in Wakes : prompts[w] <= MaxAttempts
=============================================================================
