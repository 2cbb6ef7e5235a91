------------------------------- MODULE A2AMail -------------------------------
(***************************************************************************)
(* The agent-to-agent mailbox: messages and their receipts                 *)
(* (a2a_mailbox.py), the scheduler's leases and notification attempts      *)
(* (a2a_scheduler.py), the dispatcher that notifies recipients             *)
(* (a2a_delivery.py), the operator's controls (a2a_bus.py) and the         *)
(* recovery of a damaged mailbox from a snapshot (a2a_backup.py,           *)
(* a2a_recovery.py, a2a_recovery_disposition.py).  Every SQLite            *)
(* transaction is one step, a scheduler may die between two of them, and   *)
(* a lease may run out while its owner is still at work.                   *)
(*                                                                         *)
(* A message is one uuid, so it is admitted at most once even if a         *)
(* recovery forgets it.  mail_state.notification repeats the status of the *)
(* outbox row until a disposition, after which nothing reads it; the       *)
(* status "published" is treated as "pending" by every query.              *)
(***************************************************************************)
EXTENDS Naturals, Sequences, FiniteSets

CONSTANTS
  Messages,      \* message uuids
  Threads,       \* the threads that have a capability
  Schedulers,    \* processes that run NotificationDispatcher.tick
  From, To,      \* sender and recipient of each message
  Dispatcher,    \* the name of the dispatcher's lease
  MaxTries,      \* notification attempts for one message
  MaxLeases,     \* bound on the generation of a lease
  MaxActors,     \* bound on the generation of a capability
  MaxCrashes,    \* bound on the schedulers that die
  MaxCopies,     \* bound on the snapshots taken
  MaxRestores,   \* bound on the recoveries
  Nobody         \* no process, no message

LeaseNames == Threads \cup {Dispatcher}

ASSUME MailAssumption ==
  /\ From \in [Messages -> Threads] /\ To \in [Messages -> Threads]
  /\ {MaxTries, MaxLeases, MaxActors, MaxCrashes, MaxCopies, MaxRestores} \subseteq Nat
  /\ IsFiniteSet(Messages)
  /\ Nobody \notin Messages \cup Schedulers
  /\ Dispatcher \notin Threads

VARIABLES
  \* the journal
  mail,          \* the rows of each message
  nextSeq,       \* the next global_seq
  lease,         \* mail_leases
  actor,         \* generation of each thread's capability, and whether it is unrevoked
  enrolled,      \* the enrollment of the threads' root grants send, receive and notify
  paused,        \* meta.paused
  hold,          \* meta.recovery_hold
  disposed,      \* meta.recovery_disposition exists
  boundary,      \* its legacy_through_sequence
  epoch,         \* recoveries so far: each one replaces the operator's secret
  snapshot,      \* what the last snapshot holds
  \* the processes
  ps,            \* the dispatchers
  crashes, copies,
  \* the environment
  past,          \* messages whose deadline has passed
  \* history
  issued,        \* messages admitted so far
  prompts,       \* how often a prompt for it may have reached its recipient
  claims,        \* how often a first work claim on it was granted
  cancelled      \* messages whose cancellation was answered

bus == <<actor, enrolled, paused, hold, disposed, boundary, epoch>>
history == <<issued, prompts, claims, cancelled>>
faults == <<crashes, copies, past>>
vars == <<mail, nextSeq, lease, bus, snapshot, ps, faults, history>>

Waiting == {"pending", "deferred"}
Queued == Waiting \cup {"dispatching", "uncertain"}
Final == {"declined", "completed", "failed"}

Row == [seq : Nat, adm : {"accepted", "cancelled", "expired"},
        out : Queued \cup {"submitted", "failed", "suppressed", "recovery_held"},
        tries : Nat, by : Schedulers \cup {Nobody}, gen : Nat, live : BOOLEAN,
        rcp : Final \cup {"unread", "received", "accepted"}, claim : Nat]
NoRow == [seq |-> 0, adm |-> "accepted", out |-> "suppressed", tries |-> 0, by |-> Nobody, gen |-> 0,
          live |-> FALSE, rcp |-> "unread", claim |-> 0]

\* The owner is Nobody once the lease has run out or its owner has died.
LeaseRow == [owner : Schedulers \cup {Nobody}, gen : Nat, live : BOOLEAN]
NoLease == [owner |-> Nobody, gen |-> 0, live |-> FALSE]
Vacant(row) == [owner |-> Nobody, gen |-> row.gen, live |-> FALSE]

Steps == {"down", "idle", "recover", "look", "scan", "job", "defer", "again", "lease", "claim", "context",
          "deliver", "finish", "free", "end"}
Outcomes == {"submitted", "unsent", "uncertain"}
Process == [at : Steps, cap : Nat, todo : Seq(Messages), dgen : Nat, rgen : Nat, res : Outcomes, stop : BOOLEAN]
Down == [at |-> "down", cap |-> 0, todo |-> <<>>, dgen |-> 0, rgen |-> 0, res |-> "unsent", stop |-> FALSE]

Snapshot == [mail : [Messages -> Row], nextSeq : Nat, gens : [Threads -> Nat]]

TypeOK ==
  /\ mail \in [Messages -> Row] /\ nextSeq \in Nat \ {0}
  /\ lease \in [LeaseNames -> LeaseRow]
  /\ actor \in [Threads -> [gen : Nat, on : BOOLEAN]]
  /\ {enrolled, paused, hold, disposed} \subseteq BOOLEAN
  /\ {boundary, epoch, crashes, copies} \subseteq Nat
  /\ snapshot \in Snapshot \cup {Nobody}
  /\ ps \in [Schedulers -> Process]
  /\ past \subseteq Messages /\ issued \subseteq Messages /\ cancelled \subseteq Messages
  /\ prompts \in [Messages -> Nat] /\ claims \in [Messages -> Nat]

\* A configured and resumed bus with one active capability for each thread.
Init ==
  /\ mail = [m \in Messages |-> NoRow] /\ nextSeq = 1
  /\ lease = [n \in LeaseNames |-> NoLease]
  /\ actor = [t \in Threads |-> [gen |-> 1, on |-> TRUE]] /\ enrolled = TRUE
  /\ paused = FALSE /\ hold = FALSE /\ disposed = FALSE /\ boundary = 0 /\ epoch = 0
  /\ snapshot = Nobody
  /\ ps = [s \in Schedulers |-> Down]
  /\ crashes = 0 /\ copies = 0 /\ past = {}
  /\ issued = {} /\ prompts = [m \in Messages |-> 0] /\ claims = [m \in Messages |-> 0] /\ cancelled = {}

-----------------------------------------------------------------------------
(* Rows.                                                                    *)

Present(m) == mail[m].seq > 0

\* Mutant: the last message of the snapshot is taken for a new one.
LegacyButLast(m) == disposed /\ mail[m].seq < boundary

\* Snapshot-era work of the current recovery.
Legacy(m) == disposed /\ mail[m].seq <= boundary

\* A participant's transaction is refused unless its capability is current.
Active(t) == ~hold /\ enrolled /\ actor[t].on

\* _expire: what any transaction that touches the row makes of it.
Expired(m) ==
  IF ~Legacy(m) /\ mail[m].adm = "accepted" /\ m \in past
  THEN [mail[m] EXCEPT !.adm = "expired", !.out = IF @ \in Waiting THEN "suppressed" ELSE @]
  ELSE mail[m]

Admitted(notify) ==
  [NoRow EXCEPT !.seq = nextSeq, !.out = IF notify THEN "pending" ELSE "suppressed"]

\* An attempt ends: its owner, generation and lease mean nothing any more.
Over(row, out) == [row EXCEPT !.out = out, !.by = Nobody, !.gen = 0, !.live = FALSE]

\* _admit of a message that no row has yet.
CanAdmit(m) == m \notin issued /\ From[m] # To[m] /\ Active(From[m]) /\ Active(To[m])

\* The outcomes that _ack records for the generation g of the recipient.
CanAck(row, g, outcome) ==
  /\ row.rcp \notin Final
  /\ outcome = "accepted" => row.claim = 0 /\ row.adm = "accepted"
  /\ outcome \in {"completed", "failed"} => row.claim # 0
  /\ row.claim \in {0, g}

Acked(row, g, outcome) ==
  [row EXCEPT !.rcp = outcome, !.claim = IF outcome = "accepted" THEN g ELSE @]

CountClaim(m, outcome) ==
  claims' = [claims EXCEPT ![m] = IF outcome = "accepted" THEN @ + 1 ELSE @]

-----------------------------------------------------------------------------
(* What participants do.                                                    *)

Send(m, notify) ==
  /\ CanAdmit(m)
  /\ mail' = [mail EXCEPT ![m] = Admitted(notify)]
  /\ nextSeq' = nextSeq + 1
  /\ issued' = issued \cup {m}
  /\ UNCHANGED <<lease, bus, snapshot, ps, faults, prompts, claims, cancelled>>

\* A reply to p admits m and, in the same transaction, may record an outcome
\* for p.
Reply(m, p, notify) ==
  /\ CanAdmit(m) /\ Present(p) /\ ~Legacy(p) /\ From[m] = To[p] /\ To[m] = From[p]
  /\ \/ /\ mail' = [mail EXCEPT ![m] = Admitted(notify), ![p] = Expired(p)]
        /\ UNCHANGED claims
     \/ \E outcome \in Final \cup {"accepted"} :
          /\ CanAck(Expired(p), actor[To[p]].gen, outcome)
          /\ mail' = [mail EXCEPT ![m] = Admitted(notify), ![p] = Acked(Expired(p), actor[To[p]].gen, outcome)]
          /\ CountClaim(p, outcome)
  /\ nextSeq' = nextSeq + 1
  /\ issued' = issued \cup {m}
  /\ UNCHANGED <<lease, bus, snapshot, ps, faults, prompts, cancelled>>

\* Any look at a message past its deadline, an operator's too.
Look(m) ==
  /\ Present(m) /\ Expired(m) # mail[m]
  /\ mail' = [mail EXCEPT ![m] = Expired(m)]
  /\ UNCHANGED <<nextSeq, lease, bus, snapshot, ps, faults, history>>

Read(m) ==
  /\ Present(m) /\ ~Legacy(m) /\ Active(To[m]) /\ mail[m].rcp = "unread"
  /\ mail' = [mail EXCEPT ![m] = [Expired(m) EXCEPT !.rcp = "received"]]
  /\ UNCHANGED <<nextSeq, lease, bus, snapshot, ps, faults, history>>

Ack(m, outcome) ==
  /\ Present(m) /\ ~Legacy(m) /\ Active(To[m])
  /\ CanAck(Expired(m), actor[To[m]].gen, outcome)
  /\ mail' = [mail EXCEPT ![m] = Acked(Expired(m), actor[To[m]].gen, outcome)]
  /\ CountClaim(m, outcome)
  /\ UNCHANGED <<nextSeq, lease, bus, snapshot, ps, faults, issued, prompts, cancelled>>

\* Mutant: a notification under way is not a reason to refuse.
CancelUnderWay(m) ==
  /\ Present(m) /\ ~Legacy(m) /\ Active(From[m])
  /\ mail[m].out \notin {"uncertain", "submitted"} /\ mail[m].rcp = "unread"
  /\ mail[m].adm = "accepted"
  /\ mail' = [mail EXCEPT ![m].adm = "cancelled", ![m].out = "suppressed"]
  /\ cancelled' = cancelled \cup {m}
  /\ UNCHANGED <<nextSeq, lease, bus, snapshot, ps, faults, issued, prompts, claims>>

\* Without a certain clock a cancellation does not look at the deadline.
Cancel(m) ==
  /\ Present(m) /\ ~Legacy(m) /\ Active(From[m])
  /\ mail[m].out \notin {"uncertain", "dispatching", "submitted"} /\ mail[m].rcp = "unread"
  /\ mail[m].adm = "accepted"
  /\ mail' = [mail EXCEPT ![m].adm = "cancelled", ![m].out = "suppressed"]
  /\ cancelled' = cancelled \cup {m}
  /\ UNCHANGED <<nextSeq, lease, bus, snapshot, ps, faults, issued, prompts, claims>>

-----------------------------------------------------------------------------
(* The dispatchers.  Job(s) is the message of the job s is at.              *)

Job(s) == Head(ps[s].todo)

Move(s, at) == ps' = [ps EXCEPT ![s].at = at]

\* The tick is over but for the release of the dispatcher's lease.
Close(s) == ps' = [ps EXCEPT ![s] = [Down EXCEPT !.at = "end", !.cap = ps[s].cap, !.dgen = ps[s].dgen]]

NextJob(s) ==
  ps' = [ps EXCEPT ![s] = [ps[s] EXCEPT !.at = "job", !.todo = Tail(@), !.rgen = 0, !.res = "unsent"]]

\* _operator: the secret is the current one and nothing is held.
Entitled(s) == ps[s].cap = epoch /\ ~hold

Fence(s, n, g) == lease[n] = [owner |-> s, gen |-> g, live |-> TRUE]

Fenced(s) == Entitled(s) /\ Fence(s, Dispatcher, ps[s].dgen)

FencedBoth(s) == Fenced(s) /\ Fence(s, To[Job(s)], ps[s].rgen)

\* acquire: renew one's own lease, or take one that has run out.
Available(s, n) == Entitled(s) /\ (lease[n].live => lease[n].owner = s)

Taken(s, n) == [owner |-> s, gen |-> IF lease[n].live THEN lease[n].gen ELSE lease[n].gen + 1, live |-> TRUE]

Acquire(s, n) ==
  /\ Available(s, n) /\ Taken(s, n).gen <= MaxLeases
  /\ lease' = [lease EXCEPT ![n] = Taken(s, n)]

\* A process with the current secret; its owner name is new.
Start(s) ==
  /\ ps[s].at = "down"
  /\ ps' = [ps EXCEPT ![s] = [Down EXCEPT !.at = "idle", !.cap = epoch]]
  /\ UNCHANGED <<mail, nextSeq, lease, bus, snapshot, faults, history>>

Tick(s) ==
  /\ ps[s].at = "idle"
  /\ Acquire(s, Dispatcher)
  /\ ps' = [ps EXCEPT ![s].at = "recover", ![s].dgen = Taken(s, Dispatcher).gen, ![s].stop = FALSE]
  /\ UNCHANGED <<mail, nextSeq, bus, snapshot, faults, history>>

\* Mutant: an attempt whose lease has run out is made again.
RecoveredWaiting(m) ==
  IF mail[m].out = "dispatching" /\ ~mail[m].live THEN Over(mail[m], "deferred") ELSE mail[m]

\* A notification under way whose lease has run out may have been sent.
Recovered(m) ==
  IF mail[m].out = "dispatching" /\ ~mail[m].live THEN Over(mail[m], "uncertain") ELSE mail[m]

Recover(s) ==
  /\ ps[s].at = "recover" /\ Fenced(s)
  /\ mail' = [m \in Messages |-> Recovered(m)]
  /\ Move(s, "look")
  /\ UNCHANGED <<nextSeq, lease, bus, snapshot, faults, history>>

LookPaused(s) ==
  /\ ps[s].at = "look" /\ Entitled(s)
  /\ IF paused THEN Close(s) ELSE Move(s, "scan")
  /\ UNCHANGED <<mail, nextSeq, lease, bus, snapshot, faults, history>>

\* jobs: the due notifications in sequence; which of them are due is up to
\* their next_attempt.
InSequence(S) ==
  {q \in [1..Cardinality(S) -> S] : \A i, j \in 1..Cardinality(S) : i < j => mail[q[i]].seq < mail[q[j]].seq}

Scan(s) ==
  /\ ps[s].at = "scan" /\ Fenced(s)
  /\ \E due \in SUBSET {m \in Messages : Present(m) /\ mail[m].out \in Waiting} :
       /\ mail' = [m \in Messages |-> IF m \in due THEN Expired(m) ELSE mail[m]]
       /\ \E jobs \in InSequence({m \in due : Expired(m).adm = "accepted"}) :
            ps' = [ps EXCEPT ![s].at = "job", ![s].todo = jobs]
  /\ UNCHANGED <<nextSeq, lease, bus, snapshot, faults, history>>

\* A job renews the dispatcher's lease and asks the recipient's client, which
\* is ready or not.
TakeJob(s) ==
  /\ ps[s].at = "job" /\ ps[s].todo # <<>>
  /\ Acquire(s, Dispatcher)
  /\ \E at \in {"defer", "again"} :
       ps' = [ps EXCEPT ![s].at = at, ![s].dgen = Taken(s, Dispatcher).gen]
  /\ UNCHANGED <<mail, nextSeq, bus, snapshot, faults, history>>

NoMoreJobs(s) ==
  /\ ps[s].at = "job" /\ ps[s].todo = <<>>
  /\ Close(s)
  /\ UNCHANGED <<mail, nextSeq, lease, bus, snapshot, faults, history>>

\* defer: also at once, when the receipt gate does not let the job pass.
Deferred(m) ==
  IF Expired(m).adm = "accepted" THEN [Expired(m) EXCEPT !.out = "deferred"] ELSE Expired(m)

Defer(s) ==
  /\ ps[s].at \in {"job", "defer"} /\ ps[s].todo # <<>>
  /\ Fenced(s) /\ mail[Job(s)].out \in Waiting
  /\ mail' = [mail EXCEPT ![Job(s)] = Deferred(Job(s))]
  /\ NextJob(s)
  /\ UNCHANGED <<nextSeq, lease, bus, snapshot, faults, history>>

Renew(s) ==
  /\ ps[s].at = "again"
  /\ Acquire(s, Dispatcher)
  /\ ps' = [ps EXCEPT ![s].at = "lease", ![s].dgen = Taken(s, Dispatcher).gen]
  /\ UNCHANGED <<mail, nextSeq, bus, snapshot, faults, history>>

LeaseRecipient(s) ==
  /\ ps[s].at = "lease"
  /\ Acquire(s, To[Job(s)])
  /\ ps' = [ps EXCEPT ![s].at = "claim", ![s].rgen = Taken(s, To[Job(s)]).gen]
  /\ UNCHANGED <<mail, nextSeq, bus, snapshot, faults, history>>

RecipientBusy(s) ==
  /\ ps[s].at = "lease" /\ Entitled(s) /\ ~Available(s, To[Job(s)])
  /\ NextJob(s)
  /\ UNCHANGED <<mail, nextSeq, lease, bus, snapshot, faults, history>>

\* The notifications to t that are not over: the first one goes first.
Queue(t) == {m \in Messages : Present(m) /\ To[m] = t /\ mail[m].adm = "accepted" /\ mail[m].out \in Queued}

\* Mutant: an uncertain notification does not hold back the next.
FirstCertain(m) ==
  m \in Queue(To[m]) /\ \A n \in Queue(To[m]) : mail[n].out # "uncertain" => mail[m].seq <= mail[n].seq

First(m) == m \in Queue(To[m]) /\ \A n \in Queue(To[m]) : mail[m].seq <= mail[n].seq

\* _authorized: the enrollment and both capabilities still stand.
Authorized(m) == enrolled /\ actor[From[m]].on /\ actor[To[m]].on

\* What claim and notification_context both require.
Deliverable(m) == ~paused /\ Expired(m).adm = "accepted" /\ Authorized(m)

Attempted(s, row) ==
  [row EXCEPT !.out = "dispatching", !.tries = @ + 1, !.by = s, !.gen = ps[s].rgen, !.live = TRUE]

Claim(s) ==
  /\ ps[s].at = "claim" /\ FencedBoth(s)
  /\ LET m == Job(s) IN
     /\ Deliverable(m) /\ mail[m].out \in Waiting /\ mail[m].tries < MaxTries /\ First(m)
     /\ mail' = [mail EXCEPT ![m] = Attempted(s, mail[m])]
  /\ Move(s, "context")
  /\ UNCHANGED <<nextSeq, lease, bus, snapshot, faults, history>>

\* The attempt s made on m is still the current one.
Mine(s, m) == mail[m].out = "dispatching" /\ mail[m].by = s /\ mail[m].gen = ps[s].rgen

Context(s) ==
  /\ ps[s].at = "context" /\ FencedBoth(s)
  /\ Deliverable(Job(s)) /\ Mine(s, Job(s)) /\ mail[Job(s)].live
  /\ Move(s, "deliver")
  /\ UNCHANGED <<mail, nextSeq, lease, bus, snapshot, faults, history>>

\* The transport: the client takes the prompt, refuses it for certain, or the
\* dispatcher does not learn which.
Deliver(s) ==
  /\ ps[s].at = "deliver"
  /\ \E res \in Outcomes :
       /\ prompts' = [prompts EXCEPT ![Job(s)] = IF res = "unsent" THEN @ ELSE @ + 1]
       /\ ps' = [ps EXCEPT ![s].at = "finish", ![s].res = res]
  /\ UNCHANGED <<mail, nextSeq, lease, bus, snapshot, faults, issued, claims, cancelled>>

\* Mutant: the outcome is stored as it is.
FinishedPlain(s, row) == Over(row, ps[s].res)

Finished(s, row) ==
  Over(row, IF ps[s].res # "unsent" THEN ps[s].res ELSE IF row.tries >= MaxTries THEN "failed" ELSE "deferred")

Finish(s) ==
  /\ ps[s].at = "finish" /\ FencedBoth(s) /\ Mine(s, Job(s))
  /\ mail' = [mail EXCEPT ![Job(s)] = Finished(s, @)]
  /\ ps' = [ps EXCEPT ![s].at = "free", ![s].res = "unsent", ![s].stop = ps[s].res = "uncertain"]
  /\ UNCHANGED <<nextSeq, lease, bus, snapshot, faults, history>>

Free(s) ==
  /\ ps[s].at = "free" /\ Entitled(s) /\ Fence(s, To[Job(s)], ps[s].rgen)
  /\ lease' = [lease EXCEPT ![To[Job(s)]] = Vacant(@)]
  /\ IF ps[s].stop THEN Close(s) ELSE NextJob(s)
  /\ UNCHANGED <<mail, nextSeq, bus, snapshot, faults, history>>

\* A transaction of the tick raises: a fence, an exhausted clock, a busy bus.
\* claim and notification_context are caught, everything else ends the tick.
Raise(s) ==
  /\ \/ ps[s].at \in {"recover", "look", "scan", "job", "defer", "again", "lease", "free"} /\ Close(s)
     \/ ps[s].at = "claim" /\ Move(s, "free")
     \/ ps[s].at = "context" /\ ps' = [ps EXCEPT ![s].at = "finish", ![s].res = "unsent"]
     \/ ps[s].at \in {"deliver", "finish"} /\ ps' = [ps EXCEPT ![s].at = "free", ![s].res = "unsent", ![s].stop = TRUE]
  /\ UNCHANGED <<mail, nextSeq, lease, bus, snapshot, faults, history>>

End(s) ==
  /\ ps[s].at = "end"
  /\ \/ Fenced(s) /\ lease' = [lease EXCEPT ![Dispatcher] = Vacant(@)]
     \/ UNCHANGED lease
  /\ ps' = [ps EXCEPT ![s] = [Down EXCEPT !.at = "idle", !.cap = ps[s].cap]]
  /\ UNCHANGED <<mail, nextSeq, bus, snapshot, faults, history>>

-----------------------------------------------------------------------------
(* The operator.                                                            *)

SetPaused(value) ==
  /\ paused # value /\ (value \/ ~hold)
  /\ paused' = value
  /\ UNCHANGED <<mail, nextSeq, lease, actor, enrolled, hold, disposed, boundary, epoch, snapshot, ps, faults, history>>

Enroll(value) ==
  /\ enrolled # value
  /\ enrolled' = value
  /\ UNCHANGED <<mail, nextSeq, lease, actor, paused, hold, disposed, boundary, epoch, snapshot, ps, faults, history>>

Rotate(t) ==
  /\ actor[t].gen < MaxActors
  /\ actor' = [actor EXCEPT ![t] = [gen |-> @.gen + 1, on |-> TRUE]]
  /\ UNCHANGED <<mail, nextSeq, lease, enrolled, paused, hold, disposed, boundary, epoch, snapshot, ps, faults, history>>

Revoke(t) ==
  /\ actor[t].on /\ actor[t].gen < MaxActors
  /\ actor' = [actor EXCEPT ![t] = [gen |-> @.gen + 1, on |-> FALSE]]
  /\ UNCHANGED <<mail, nextSeq, lease, enrolled, paused, hold, disposed, boundary, epoch, snapshot, ps, faults, history>>

\* create: one read snapshot of a paused bus.
Backup ==
  /\ paused /\ copies < MaxCopies
  /\ snapshot' = [mail |-> mail, nextSeq |-> nextSeq, gens |-> [t \in Threads |-> actor[t].gen]]
  /\ copies' = copies + 1
  /\ UNCHANGED <<mail, nextSeq, lease, bus, ps, crashes, past, history>>

\* recover: the snapshot, paused and held, with no lease, no grant and no
\* capability, under a new secret.  Until it is complete the exclusive lock
\* and then the marker refuse every connection.
Restore ==
  /\ snapshot # Nobody /\ epoch < MaxRestores
  /\ mail' = snapshot.mail /\ nextSeq' = snapshot.nextSeq
  /\ actor' = [t \in Threads |-> [gen |-> snapshot.gens[t] + 1, on |-> FALSE]]
  /\ lease' = [n \in LeaseNames |-> NoLease]
  /\ enrolled' = FALSE /\ paused' = TRUE /\ hold' = TRUE /\ disposed' = FALSE /\ boundary' = 0
  /\ epoch' = epoch + 1
  /\ UNCHANGED <<snapshot, ps, faults, history>>

\* dispose: the history of the snapshot is kept and fenced.
Held(row) ==
  IF row.out \in Waiting \cup {"dispatching"}
  THEN Over(row, "recovery_held") ELSE row

Dispose ==
  /\ hold /\ paused /\ ~disposed
  /\ mail' = [m \in Messages |-> Held(mail[m])]
  /\ disposed' = TRUE
  /\ boundary' = nextSeq - 1
  /\ UNCHANGED <<nextSeq, lease, actor, enrolled, paused, hold, epoch, snapshot, ps, faults, history>>

Release ==
  /\ hold /\ disposed /\ paused
  /\ \A m \in Messages : Present(m) /\ Legacy(m) => mail[m].out \notin Waiting \cup {"dispatching"}
  /\ hold' = FALSE
  /\ UNCHANGED <<mail, nextSeq, lease, actor, enrolled, paused, disposed, boundary, epoch, snapshot, ps, faults, history>>

-----------------------------------------------------------------------------
(* The clock and faults.                                                    *)

Deadline(m) ==
  /\ Present(m) /\ mail[m].adm = "accepted" /\ m \notin past
  /\ past' = past \cup {m}
  /\ UNCHANGED <<mail, nextSeq, lease, bus, snapshot, ps, crashes, copies, history>>

\* The lease of an attempt has the end of its recipient's lease.
LeaseRunsOut(n) ==
  /\ lease[n].live
  /\ lease' = [lease EXCEPT ![n] = Vacant(@)]
  /\ mail' = [m \in Messages |-> IF To[m] = n /\ mail[m].gen = lease[n].gen THEN [mail[m] EXCEPT !.live = FALSE]
                                                                       ELSE mail[m]]
  /\ UNCHANGED <<nextSeq, bus, snapshot, ps, faults, history>>

AttemptRunsOut(m) ==
  /\ mail[m].live /\ ~(lease[To[m]].live /\ lease[To[m]].gen = mail[m].gen)
  /\ mail' = [mail EXCEPT ![m].live = FALSE]
  /\ UNCHANGED <<nextSeq, lease, bus, snapshot, ps, faults, history>>

\* A scheduler dies: nobody bears its owner name any more.
Forget(s, owner) == IF owner = s THEN Nobody ELSE owner

Crash(s) ==
  /\ ps[s].at # "down" /\ crashes < MaxCrashes
  /\ ps' = [ps EXCEPT ![s] = Down]
  /\ lease' = [n \in LeaseNames |-> [lease[n] EXCEPT !.owner = Forget(s, @)]]
  /\ mail' = [m \in Messages |-> [mail[m] EXCEPT !.by = Forget(s, @)]]
  /\ snapshot' = IF snapshot = Nobody THEN Nobody ELSE
       [snapshot EXCEPT !.mail = [m \in Messages |-> [snapshot.mail[m] EXCEPT !.by = Forget(s, @)]]]
  /\ crashes' = crashes + 1
  /\ UNCHANGED <<nextSeq, bus, copies, past, history>>

-----------------------------------------------------------------------------
Participant ==
  \E m \in Messages :
    \/ \E notify \in BOOLEAN : Send(m, notify) \/ \E p \in Messages : Reply(m, p, notify)
    \/ Look(m) \/ Read(m) \/ Cancel(m)
    \/ \E outcome \in Final \cup {"accepted"} : Ack(m, outcome)

Dispatch(s) ==
  \/ Start(s) \/ Tick(s) \/ Recover(s) \/ LookPaused(s) \/ Scan(s) \/ TakeJob(s) \/ NoMoreJobs(s) \/ Defer(s)
  \/ Renew(s) \/ LeaseRecipient(s) \/ RecipientBusy(s) \/ Claim(s) \/ Context(s) \/ Deliver(s) \/ Finish(s)
  \/ Free(s) \/ Raise(s) \/ End(s) \/ Crash(s)

Operator ==
  \/ \E value \in BOOLEAN : SetPaused(value) \/ Enroll(value)
  \/ \E t \in Threads : Rotate(t) \/ Revoke(t)
  \/ Backup \/ Restore \/ Dispose \/ Release

Clock ==
  \/ \E m \in Messages : Deadline(m) \/ AttemptRunsOut(m)
  \/ \E n \in LeaseNames : LeaseRunsOut(n)

Next == Participant \/ (\E s \in Schedulers : Dispatch(s)) \/ Operator \/ Clock

Spec == Init /\ [][Next]_vars

-----------------------------------------------------------------------------
(* Properties.                                                              *)

\* A recipient is prompted at most once for a message: an attempt whose end
\* is not known is never repeated, whatever expires, dies or is recovered.
NotifiedOnce == \A m \in Messages : prompts[m] <= 1

\* A cancellation that was answered stays true: nobody is prompted for the
\* message and nobody gets a work claim on it, also after a recovery from a
\* snapshot that still shows it as waiting.
CancelMeansUnsent == \A m \in cancelled : prompts[m] = 0 /\ claims[m] = 0

\* The first work claim on a message is granted once, across rotations of the
\* recipient's capability and recoveries that forget the claim.
ClaimOnce == \A m \in Messages : claims[m] <= 1

\* A dispatcher of the current epoch never prompts for a message while an
\* earlier one to the same recipient is waiting, under way or uncertain.
InOrder ==
  [][\A s \in Schedulers :
       ps[s].at = "deliver" /\ ps'[s].at = "finish" /\ ps[s].cap = epoch =>
         \A n \in Queue(To[Job(s)]) : mail[n].seq >= mail[Job(s)].seq]_vars
=============================================================================
