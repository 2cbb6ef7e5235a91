---------------------------- MODULE A2AMailProofs ----------------------------
(***************************************************************************)
(* Proofs about the agent-to-agent mailbox, for every set of messages,     *)
(* threads and schedulers and every value of the other constants.          *)
(***************************************************************************)
EXTENDS A2AMail, FiniteSetTheorems, SequenceTheorems, TLAPS

Sent == {"dispatching", "submitted", "uncertain"}

\* The steps at which a dispatcher has a job.
Busy == {"defer", "again", "lease", "claim", "context", "deliver", "finish", "free"}

\* A dispatcher with an attempt of its own, and one that has not sent.
Engaged(s) == ps[s].at \in {"context", "deliver", "finish"}
Unsent(s) == ps[s].at \in {"context", "deliver"} \/ (ps[s].at = "finish" /\ ps[s].res = "unsent")

\* A prompt for m was given or is in somebody's hands.
Used(m) == prompts[m] > 0 \/ \E s \in Schedulers : Engaged(s) /\ Job(s) = m

\* Between a recovery and its disposition nobody may act.
Quiet == hold /\ ~disposed

Current(m) == ~hold /\ Present(m) /\ ~Legacy(m)

ProcOK(s) ==
  /\ ps[s].at \in Busy => ps[s].todo # <<>>
  /\ ps[s].cap <= epoch
  /\ Unsent(s) => prompts[Job(s)] = 0
  /\ Engaged(s) => \A q \in Schedulers : Engaged(q) /\ Job(q) = Job(s) => q = s
  /\ Engaged(s) /\ ps[s].cap = epoch =>
       Present(Job(s)) /\ \A n \in Queue(To[Job(s)]) : mail[n].seq >= mail[Job(s)].seq

MailOK(m) ==
  /\ mail[m].seq < nextSeq
  /\ Present(m) \/ Used(m) \/ claims[m] > 0 => m \in issued
  /\ Used(m) /\ ~Quiet => mail[m].out \notin Waiting
  /\ Used(m) /\ Current(m) => mail[m].out \in Sent
  /\ claims[m] > 0 /\ Current(m) => mail[m].claim # 0 /\ mail[m].rcp # "unread"
  /\ m \in cancelled => m \in issued /\ ~Used(m) /\ claims[m] = 0
  /\ m \in cancelled /\ Current(m) => mail[m].adm # "accepted"
  /\ prompts[m] <= 1 /\ claims[m] <= 1

BusOK ==
  /\ disposed => /\ boundary < nextSeq
                 /\ \A m \in Messages : Present(m) /\ Legacy(m) => mail[m].out \notin Waiting \cup {"dispatching"}
                 /\ hold => \A m \in Messages : Present(m) => Legacy(m)
  /\ \A t \in Threads : actor[t].gen > 0

SnapshotOK ==
  snapshot # Nobody =>
    /\ snapshot.nextSeq > 0
    /\ \A m \in Messages : snapshot.mail[m].seq < snapshot.nextSeq /\ (snapshot.mail[m].seq > 0 => m \in issued)

IInv ==
  /\ TypeOK
  /\ \A s \in Schedulers : ProcOK(s)
  /\ \A m \in Messages : MailOK(m)
  /\ BusOK /\ SnapshotOK

-----------------------------------------------------------------------------
(* Types.                                                                   *)

LEMMA RowFacts ==
  ASSUME TypeOK, NEW m \in Messages
  PROVE  /\ mail[m] \in Row /\ Expired(m) \in Row /\ Recovered(m) \in Row /\ Deferred(m) \in Row
         /\ Held(mail[m]) \in Row
         /\ \A notify \in BOOLEAN : Admitted(notify) \in Row
         /\ \A g \in Nat, outcome \in Final \cup {"accepted"} : Acked(Expired(m), g, outcome) \in Row
         /\ From[m] \in Threads /\ To[m] \in Threads
<1>1. mail[m] \in Row
  BY DEF TypeOK
<1>2. Expired(m) \in Row
  BY <1>1 DEF Expired, Row, Queued, Waiting
<1>3. Recovered(m) \in Row /\ Held(mail[m]) \in Row
  BY <1>1 DEF Recovered, Held, Over, Row, Queued, Waiting
<1>4. Deferred(m) \in Row
  BY <1>2 DEF Deferred, Row, Queued, Waiting
<1>5. ASSUME NEW notify \in BOOLEAN PROVE Admitted(notify) \in Row
  BY DEF TypeOK, Admitted, NoRow, Row, Queued, Waiting
<1>6. ASSUME NEW g \in Nat, NEW outcome \in Final \cup {"accepted"} PROVE Acked(Expired(m), g, outcome) \in Row
  BY <1>2 DEF Acked, Row
<1>7. From[m] \in Threads /\ To[m] \in Threads
  BY MailAssumption
<1>8. QED
  BY <1>1, <1>2, <1>3, <1>4, <1>5, <1>6, <1>7

LEMMA ProcFacts ==
  ASSUME TypeOK, NEW s \in Schedulers
  PROVE  /\ ps[s] \in Process
         /\ ps[s].todo # <<>> => Job(s) \in Messages
         /\ \A n \in LeaseNames : lease[n] \in LeaseRow /\ Taken(s, n) \in LeaseRow
<1>1. ps[s] \in Process
  BY DEF TypeOK
<1>2. ASSUME ps[s].todo # <<>> PROVE Job(s) \in Messages
  BY <1>1, <1>2 DEF Process, Job
<1>3. ASSUME NEW n \in LeaseNames PROVE lease[n] \in LeaseRow /\ Taken(s, n) \in LeaseRow
  BY DEF TypeOK, LeaseRow, Taken
<1>4. QED
  BY <1>1, <1>2, <1>3

\* The jobs of a scan are a sequence of messages.
LEMMA ScanTyped ==
  ASSUME NEW S \in SUBSET Messages, NEW jobs \in InSequence(S)
  PROVE  jobs \in Seq(Messages)
<1>1. IsFiniteSet(S) /\ Cardinality(S) \in Nat
  BY MailAssumption, FS_Subset, FS_CardinalityType
<1>2. jobs \in [1..Cardinality(S) -> Messages]
  BY DEF InSequence
<1>3. QED
  BY <1>1, <1>2, SeqDef

LEMMA DownTyped == Down \in Process
  BY DEF Down, Process, Steps, Outcomes

LEMMA TypeInit == Init => TypeOK
<1>1. NoRow \in Row /\ NoLease \in LeaseRow /\ Down \in Process
  BY DownTyped DEF NoRow, Row, NoLease, LeaseRow, Queued, Waiting, Final
<1>2. ASSUME Init PROVE TypeOK
  <2>1. mail \in [Messages -> Row] /\ lease \in [LeaseNames -> LeaseRow] /\ ps \in [Schedulers -> Process]
    BY <1>1, <1>2 DEF Init
  <2>2. /\ {enrolled, paused, hold, disposed} \subseteq BOOLEAN
        /\ snapshot \in Snapshot \cup {Nobody}
    BY <1>2, Zenon DEF Init
  <2>3. /\ nextSeq \in Nat \ {0} /\ {boundary, epoch, crashes, copies} \subseteq Nat
        /\ past \subseteq Messages /\ issued \subseteq Messages /\ cancelled \subseteq Messages
        /\ prompts \in [Messages -> Nat] /\ claims \in [Messages -> Nat]
    BY <1>2 DEF Init
  <2>4. actor \in [Threads -> [gen : Nat, on : BOOLEAN]]
    BY <1>2 DEF Init
  <2>5. QED
    BY <2>1, <2>2, <2>3, <2>4, Zenon DEF TypeOK
<1>3. QED
  BY <1>2

\* The steps of a dispatcher keep its own record well typed.
LEMMA MoveTyped ==
  ASSUME TypeOK, NEW s \in Schedulers
  PROVE  /\ \A at \in Steps : Move(s, at) => ps' \in [Schedulers -> Process]
         /\ Close(s) => ps' \in [Schedulers -> Process]
         /\ ps[s].todo # <<>> /\ NextJob(s) => ps' \in [Schedulers -> Process]
<1>1. ps \in [Schedulers -> Process] /\ ps[s] \in Process
  BY DEF TypeOK
<1>2. ASSUME NEW at \in Steps, Move(s, at) PROVE ps' \in [Schedulers -> Process]
  <2>1. [ps[s] EXCEPT !.at = at] \in Process
    BY <1>1 DEF Process
  <2>2. QED
    BY <1>1, <1>2, <2>1 DEF Move
<1>3. ASSUME Close(s) PROVE ps' \in [Schedulers -> Process]
  <2>1. [Down EXCEPT !.at = "end", !.cap = ps[s].cap, !.dgen = ps[s].dgen] \in Process
    BY <1>1, DownTyped DEF Process, Down, Steps
  <2>2. QED
    BY <1>1, <1>3, <2>1 DEF Close
<1>4. ASSUME ps[s].todo # <<>>, NextJob(s) PROVE ps' \in [Schedulers -> Process]
  <2>1. Tail(ps[s].todo) \in Seq(Messages)
    BY <1>1, <1>4 DEF Process
  <2>2. [ps[s] EXCEPT !.at = "job", !.todo = Tail(@), !.rgen = 0, !.res = "unsent"] \in Process
    BY <1>1, <2>1 DEF Process, Steps, Outcomes
  <2>3. QED
    BY <1>1, <1>4, <2>2 DEF NextJob
<1>5. QED
  BY <1>2, <1>3, <1>4

\* What a transaction does to the rows of one message.
LEMMA OneRowTyped ==
  ASSUME TypeOK, NEW m \in Messages, NEW r \in Row, mail' = [mail EXCEPT ![m] = r]
  PROVE  mail' \in [Messages -> Row]
  BY DEF TypeOK

LEMMA DeadTyped ==
  ASSUME TypeOK, NEW m \in Messages
  PROVE  [mail[m] EXCEPT !.live = FALSE] \in Row
<1>1. mail[m] \in Row
  BY DEF TypeOK
<1>2. QED
  BY <1>1 DEF Row

LEMMA ParticipantTyped == ASSUME TypeOK, Participant PROVE TypeOK'
<1> USE DEF bus, history, faults
<1>1. PICK m \in Messages :
         \/ \E notify \in BOOLEAN : Send(m, notify) \/ \E p \in Messages : Reply(m, p, notify)
         \/ Look(m) \/ Read(m) \/ Cancel(m)
         \/ \E outcome \in Final \cup {"accepted"} : Ack(m, outcome)
  BY DEF Participant
<1>2. mail \in [Messages -> Row] /\ actor[To[m]].gen \in Nat /\ claims \in [Messages -> Nat]
  BY RowFacts DEF TypeOK
<1>3. ASSUME NEW notify \in BOOLEAN, Send(m, notify) PROVE TypeOK'
  <2>1. mail' \in [Messages -> Row]
    BY <1>2, <1>3, RowFacts, OneRowTyped DEF Send
  <2>2. QED
    BY <1>3, <2>1 DEF Send, TypeOK
<1>4. ASSUME NEW notify \in BOOLEAN, NEW p \in Messages, Reply(m, p, notify) PROVE TypeOK'
  <2>1. actor[To[p]].gen \in Nat
    BY RowFacts DEF TypeOK
  <2>2. mail' \in [Messages -> Row]
    BY <1>2, <1>4, <2>1, RowFacts DEF Reply
  <2>3. claims' \in [Messages -> Nat]
    BY <1>2, <1>4 DEF Reply, CountClaim
  <2>4. QED
    BY <1>4, <2>2, <2>3 DEF Reply, TypeOK
<1>5. CASE Look(m)
  <2>1. mail' \in [Messages -> Row]
    BY <1>5, RowFacts, OneRowTyped DEF Look
  <2>2. QED
    BY <1>5, <2>1 DEF Look, TypeOK
<1>6. CASE Read(m)
  <2>1. [Expired(m) EXCEPT !.rcp = "received"] \in Row
    BY RowFacts DEF Row
  <2>2. mail' \in [Messages -> Row]
    BY <1>6, <2>1, OneRowTyped DEF Read
  <2>3. QED
    BY <1>6, <2>2 DEF Read, TypeOK
<1>7. CASE Cancel(m)
  <2>1. mail[m] \in Row
    BY <1>2
  <2>2. [mail[m] EXCEPT !.adm = "cancelled", !.out = "suppressed"] \in Row
    BY <2>1 DEF Row
  <2>3. mail' = [mail EXCEPT ![m] = [mail[m] EXCEPT !.adm = "cancelled", !.out = "suppressed"]]
    BY <1>2, <1>7, <2>1 DEF Cancel
  <2>4. mail' \in [Messages -> Row]
    BY <2>2, <2>3, OneRowTyped
  <2>5. QED
    BY <1>7, <2>4 DEF Cancel, TypeOK
<1>8. ASSUME NEW outcome \in Final \cup {"accepted"}, Ack(m, outcome) PROVE TypeOK'
  <2>1. mail' \in [Messages -> Row]
    BY <1>2, <1>8, RowFacts, OneRowTyped DEF Ack
  <2>2. claims' \in [Messages -> Nat]
    BY <1>2, <1>8 DEF Ack, CountClaim
  <2>3. QED
    BY <1>8, <2>1, <2>2 DEF Ack, TypeOK
<1>9. QED
  BY <1>1, <1>3, <1>4, <1>5, <1>6, <1>7, <1>8

LEMMA OperatorTyped == ASSUME TypeOK, SnapshotOK, Operator PROVE TypeOK'
<1> USE DEF bus, history, faults
<1>1. ASSUME NEW value \in BOOLEAN, SetPaused(value) \/ Enroll(value) PROVE TypeOK'
  BY <1>1 DEF SetPaused, Enroll, TypeOK
<1>2. ASSUME NEW t \in Threads, Rotate(t) \/ Revoke(t) PROVE TypeOK'
  <2>1. actor \in [Threads -> [gen : Nat, on : BOOLEAN]] /\ actor[t].gen \in Nat
    BY DEF TypeOK
  <2>2. [gen |-> actor[t].gen + 1, on |-> TRUE] \in [gen : Nat, on : BOOLEAN]
    BY <2>1
  <2>3. [gen |-> actor[t].gen + 1, on |-> FALSE] \in [gen : Nat, on : BOOLEAN]
    BY <2>1
  <2>4. actor' \in [Threads -> [gen : Nat, on : BOOLEAN]]
    BY <1>2, <2>1, <2>2, <2>3 DEF Rotate, Revoke
  <2>5. QED
    BY <1>2, <2>4 DEF Rotate, Revoke, TypeOK
<1>3. CASE Backup
  <2>1. snapshot' \in Snapshot
    BY <1>3 DEF Backup, TypeOK, Snapshot
  <2>2. QED
    BY <1>3, <2>1 DEF Backup, TypeOK
<1>4. CASE Restore
  <2>1. snapshot \in Snapshot /\ NoLease \in LeaseRow
    BY <1>4 DEF Restore, TypeOK, NoLease, LeaseRow
  <2>2. /\ mail' \in [Messages -> Row] /\ nextSeq' \in Nat \ {0} /\ lease' \in [LeaseNames -> LeaseRow]
        /\ actor' \in [Threads -> [gen : Nat, on : BOOLEAN]]
    BY <1>4, <2>1 DEF Restore, SnapshotOK, Snapshot
  <2>3. {enrolled', paused', hold', disposed'} \subseteq BOOLEAN
    BY <1>4, Zenon DEF Restore
  <2>4. {boundary', epoch', crashes', copies'} \subseteq Nat
    BY <1>4 DEF Restore, TypeOK
  <2>5. QED
    BY <1>4, <2>2, <2>3, <2>4 DEF Restore, TypeOK
<1>5. CASE Dispose
  <2>1. mail' \in [Messages -> Row]
    BY <1>5, RowFacts DEF Dispose
  <2>2. QED
    BY <1>5, <2>1 DEF Dispose, TypeOK
<1>6. CASE Release
  BY <1>6 DEF Release, TypeOK
<1>7. QED
  BY <1>1, <1>2, <1>3, <1>4, <1>5, <1>6 DEF Operator

LEMMA ClockTyped == ASSUME TypeOK, Clock PROVE TypeOK'
<1> USE DEF bus, history, faults
<1>1. ASSUME NEW m \in Messages, Deadline(m) PROVE TypeOK'
  BY <1>1 DEF Deadline, TypeOK
<1>2. ASSUME NEW m \in Messages, AttemptRunsOut(m) PROVE TypeOK'
  <2>1. mail' \in [Messages -> Row]
    BY <1>2, DeadTyped, OneRowTyped DEF AttemptRunsOut
  <2>2. QED
    BY <1>2, <2>1 DEF AttemptRunsOut, TypeOK
<1>3. ASSUME NEW n \in LeaseNames, LeaseRunsOut(n) PROVE TypeOK'
  <2>1. \A m \in Messages : [mail[m] EXCEPT !.live = FALSE] \in Row
    BY DeadTyped
  <2>2. mail' \in [Messages -> Row]
    BY <1>3, <2>1, RowFacts DEF LeaseRunsOut
  <2>3. lease' \in [LeaseNames -> LeaseRow]
    BY <1>3 DEF LeaseRunsOut, Vacant, LeaseRow, TypeOK
  <2>4. QED
    BY <1>3, <2>2, <2>3 DEF LeaseRunsOut, TypeOK
<1>4. QED
  BY <1>1, <1>2, <1>3 DEF Clock

LEMMA DispatchTyped == ASSUME TypeOK, NEW s \in Schedulers, ProcOK(s), Dispatch(s) PROVE TypeOK'
<1> USE DEF bus, history, faults
<1>1. /\ ps \in [Schedulers -> Process] /\ ps[s] \in Process
      /\ mail \in [Messages -> Row] /\ lease \in [LeaseNames -> LeaseRow] /\ epoch \in Nat
  BY DEF TypeOK
<1>2. ps[s].at \in Busy => ps[s].todo # <<>> /\ Job(s) \in Messages /\ To[Job(s)] \in LeaseNames
  BY ProcFacts, RowFacts DEF ProcOK, LeaseNames
<1>3. ASSUME NEW n \in LeaseNames, Acquire(s, n) PROVE lease' \in [LeaseNames -> LeaseRow] /\ Taken(s, n).gen \in Nat
  BY <1>1, <1>3, ProcFacts DEF Acquire, LeaseRow
<1>4. CASE Start(s)
  <2>1. [Down EXCEPT !.at = "idle", !.cap = epoch] \in Process
    BY <1>1, DownTyped DEF Process, Down, Steps
  <2>2. ps' \in [Schedulers -> Process]
    BY <1>1, <1>4, <2>1 DEF Start
  <2>3. QED
    BY <1>4, <2>2 DEF Start, TypeOK
<1>5. CASE Tick(s)
  <2>1. lease' \in [LeaseNames -> LeaseRow] /\ Taken(s, Dispatcher).gen \in Nat
    BY <1>3, <1>5 DEF Tick, LeaseNames
  <2>2. [ps[s] EXCEPT !.at = "recover", !.dgen = Taken(s, Dispatcher).gen, !.stop = FALSE] \in Process
    BY <1>1, <2>1 DEF Process, Steps
  <2>3. ps' = [ps EXCEPT ![s] = [ps[s] EXCEPT !.at = "recover", !.dgen = Taken(s, Dispatcher).gen, !.stop = FALSE]]
    BY <1>1, <1>5 DEF Tick
  <2>4. ps' \in [Schedulers -> Process]
    BY <1>1, <2>2, <2>3
  <2>5. QED
    BY <1>5, <2>1, <2>4 DEF Tick, TypeOK
<1>6. CASE Recover(s)
  <2>1. mail' \in [Messages -> Row] /\ ps' \in [Schedulers -> Process]
    BY <1>6, RowFacts, MoveTyped DEF Recover, Steps
  <2>2. QED
    BY <1>6, <2>1 DEF Recover, TypeOK
<1>7. CASE LookPaused(s)
  <2>1. ps' \in [Schedulers -> Process]
    BY <1>7, MoveTyped DEF LookPaused, Steps
  <2>2. QED
    BY <1>7, <2>1 DEF LookPaused, TypeOK
<1>8. CASE Scan(s)
  <2>1. PICK due \in SUBSET Messages :
          /\ mail' = [m \in Messages |-> IF m \in due THEN Expired(m) ELSE mail[m]]
          /\ \E jobs \in InSequence({m \in due : Expired(m).adm = "accepted"}) :
               ps' = [ps EXCEPT ![s].at = "job", ![s].todo = jobs]
    BY <1>8 DEF Scan
  <2>2. PICK jobs \in InSequence({m \in due : Expired(m).adm = "accepted"}) :
          ps' = [ps EXCEPT ![s].at = "job", ![s].todo = jobs]
    BY <2>1
  <2>3. jobs \in Seq(Messages)
    BY <2>2, ScanTyped
  <2>4. [ps[s] EXCEPT !.at = "job", !.todo = jobs] \in Process
    BY <1>1, <2>3 DEF Process, Steps
  <2>5. ps' = [ps EXCEPT ![s] = [ps[s] EXCEPT !.at = "job", !.todo = jobs]]
    BY <1>1, <2>2
  <2>6. ps' \in [Schedulers -> Process]
    BY <1>1, <2>4, <2>5
  <2>7. mail' \in [Messages -> Row]
    BY <2>1, RowFacts
  <2>8. QED
    BY <1>8, <2>6, <2>7 DEF Scan, TypeOK
<1>9. CASE TakeJob(s) \/ Renew(s)
  <2>1. PICK at \in Steps : ps' = [ps EXCEPT ![s].at = at, ![s].dgen = Taken(s, Dispatcher).gen]
    BY <1>9 DEF TakeJob, Renew, Steps
  <2>2. lease' \in [LeaseNames -> LeaseRow] /\ Taken(s, Dispatcher).gen \in Nat
    BY <1>3, <1>9 DEF TakeJob, Renew, LeaseNames
  <2>3. ps' = [ps EXCEPT ![s] = [ps[s] EXCEPT !.at = at, !.dgen = Taken(s, Dispatcher).gen]]
    BY <1>1, <2>1
  <2>4. [ps[s] EXCEPT !.at = at, !.dgen = Taken(s, Dispatcher).gen] \in Process
    BY <1>1, <2>2 DEF Process
  <2>5. ps' \in [Schedulers -> Process]
    BY <1>1, <2>3, <2>4
  <2>6. QED
    BY <1>9, <2>2, <2>5 DEF TakeJob, Renew, TypeOK
<1>10. CASE NoMoreJobs(s)
  <2>1. ps' \in [Schedulers -> Process]
    BY <1>10, MoveTyped DEF NoMoreJobs
  <2>2. QED
    BY <1>10, <2>1 DEF NoMoreJobs, TypeOK
<1>11. CASE Defer(s)
  <2>1. mail' \in [Messages -> Row] /\ ps' \in [Schedulers -> Process]
    BY <1>11, RowFacts, ProcFacts, MoveTyped, OneRowTyped DEF Defer
  <2>2. QED
    BY <1>11, <2>1 DEF Defer, TypeOK
<1>12. CASE LeaseRecipient(s)
  <2>1. To[Job(s)] \in LeaseNames
    BY <1>2, <1>12 DEF LeaseRecipient, Busy
  <2>2. lease' \in [LeaseNames -> LeaseRow] /\ Taken(s, To[Job(s)]).gen \in Nat
    BY <1>3, <1>12, <2>1 DEF LeaseRecipient
  <2>3. ps' = [ps EXCEPT ![s] = [ps[s] EXCEPT !.at = "claim", !.rgen = Taken(s, To[Job(s)]).gen]]
    BY <1>1, <1>12 DEF LeaseRecipient
  <2>4. [ps[s] EXCEPT !.at = "claim", !.rgen = Taken(s, To[Job(s)]).gen] \in Process
    BY <1>1, <2>2 DEF Process, Steps
  <2>5. ps' \in [Schedulers -> Process]
    BY <1>1, <2>3, <2>4
  <2>6. QED
    BY <1>12, <2>2, <2>5 DEF LeaseRecipient, TypeOK
<1>13. CASE RecipientBusy(s)
  <2>1. ps' \in [Schedulers -> Process]
    BY <1>2, <1>13, MoveTyped DEF RecipientBusy, Busy
  <2>2. QED
    BY <1>13, <2>1 DEF RecipientBusy, TypeOK
<1>14. CASE Claim(s)
  <2>1. Job(s) \in Messages /\ mail[Job(s)] \in Row /\ ps[s].rgen \in Nat
    BY <1>1, <1>2, <1>14 DEF Claim, Busy, Process
  <2>2. Attempted(s, mail[Job(s)]) \in Row
    <3>1. ASSUME NEW r \in Row PROVE Attempted(s, r) \in Row
      <4>1. r.tries + 1 \in Nat
        BY DEF Row
      <4>2. QED
        BY <2>1, <4>1 DEF Attempted, Row, Queued, Waiting
    <3>2. QED
      BY <2>1, <3>1
  <2>3. mail' \in [Messages -> Row] /\ ps' \in [Schedulers -> Process]
    BY <1>14, <2>1, <2>2, MoveTyped, OneRowTyped DEF Claim, Steps
  <2>4. QED
    BY <1>14, <2>3 DEF Claim, TypeOK
<1>15. CASE Context(s)
  <2>1. ps' \in [Schedulers -> Process]
    BY <1>15, MoveTyped DEF Context, Steps
  <2>2. QED
    BY <1>15, <2>1 DEF Context, TypeOK
<1>16. CASE Deliver(s)
  <2>1. PICK res \in Outcomes :
          /\ prompts' = [prompts EXCEPT ![Job(s)] = IF res = "unsent" THEN @ ELSE @ + 1]
          /\ ps' = [ps EXCEPT ![s].at = "finish", ![s].res = res]
    BY <1>16 DEF Deliver
  <2>2. [ps[s] EXCEPT !.at = "finish", !.res = res] \in Process
    BY <1>1 DEF Process, Steps
  <2>3. ps' = [ps EXCEPT ![s] = [ps[s] EXCEPT !.at = "finish", !.res = res]]
    BY <1>1, <2>1
  <2>4. ps' \in [Schedulers -> Process]
    BY <1>1, <2>2, <2>3
  <2>5. prompts' \in [Messages -> Nat]
    <3>1. prompts \in [Messages -> Nat] /\ Job(s) \in Messages
      BY <1>2, <1>16 DEF TypeOK, Deliver, Busy
    <3>2. QED
      BY <2>1, <3>1
  <2>6. QED
    BY <1>16, <2>4, <2>5 DEF Deliver, TypeOK
<1>17. CASE Finish(s)
  <2>1. Job(s) \in Messages /\ mail[Job(s)] \in Row
    BY <1>1, <1>2, <1>17 DEF Finish, Busy
  <2>2. Finished(s, mail[Job(s)]) \in Row
    BY <1>1, <2>1 DEF Finished, Over, Row, Process, Outcomes, Queued, Waiting
  <2>3. [ps[s] EXCEPT !.at = "free", !.res = "unsent", !.stop = (ps[s].res = "uncertain")] \in Process
    BY <1>1 DEF Process, Steps, Outcomes
  <2>4. ps' = [ps EXCEPT ![s] = [ps[s] EXCEPT !.at = "free", !.res = "unsent", !.stop = (ps[s].res = "uncertain")]]
    BY <1>1, <1>17 DEF Finish
  <2>5. mail' \in [Messages -> Row] /\ ps' \in [Schedulers -> Process]
    BY <1>1, <1>17, <2>1, <2>2, <2>3, <2>4, OneRowTyped DEF Finish
  <2>6. QED
    BY <1>17, <2>5 DEF Finish, TypeOK
<1>18. CASE Free(s)
  <2>1. lease' \in [LeaseNames -> LeaseRow]
    BY <1>1, <1>2, <1>18 DEF Free, Busy, Vacant, LeaseRow
  <2>2. ps' \in [Schedulers -> Process]
    BY <1>2, <1>18, MoveTyped DEF Free, Busy
  <2>3. QED
    BY <1>18, <2>1, <2>2 DEF Free, TypeOK
<1>19. CASE Raise(s)
  <2>1. [ps[s] EXCEPT !.at = "finish", !.res = "unsent"] \in Process
    BY <1>1 DEF Process, Steps, Outcomes
  <2>2. [ps[s] EXCEPT !.at = "free", !.res = "unsent", !.stop = TRUE] \in Process
    BY <1>1 DEF Process, Steps, Outcomes
  <2>3. \/ Close(s) \/ Move(s, "free")
        \/ ps' = [ps EXCEPT ![s] = [ps[s] EXCEPT !.at = "finish", !.res = "unsent"]]
        \/ ps' = [ps EXCEPT ![s] = [ps[s] EXCEPT !.at = "free", !.res = "unsent", !.stop = TRUE]]
    BY <1>1, <1>19 DEF Raise
  <2>4. ps' \in [Schedulers -> Process]
    BY <1>1, <2>1, <2>2, <2>3, MoveTyped DEF Steps
  <2>5. QED
    BY <1>19, <2>4 DEF Raise, TypeOK
<1>20. CASE End(s)
  <2>1. [Down EXCEPT !.at = "idle", !.cap = ps[s].cap] \in Process
    BY <1>1, DownTyped DEF Process, Down, Steps
  <2>2. ps' \in [Schedulers -> Process]
    BY <1>1, <1>20, <2>1 DEF End
  <2>3. lease' \in [LeaseNames -> LeaseRow]
    <3>1. Vacant(lease[Dispatcher]) \in LeaseRow
      BY <1>1 DEF Vacant, LeaseRow, LeaseNames
    <3>2. QED
      BY <1>1, <1>20, <3>1 DEF End
  <2>4. QED
    BY <1>20, <2>2, <2>3 DEF End, TypeOK
<1>21. CASE Crash(s)
  <2>1. ps' \in [Schedulers -> Process]
    BY <1>1, <1>21, DownTyped DEF Crash
  <2>2. ASSUME NEW f \in [Messages -> Row] PROVE [m \in Messages |-> [f[m] EXCEPT !.by = Forget(s, @)]] \in [Messages -> Row]
    BY DEF Row, Forget
  <2>3. mail' \in [Messages -> Row]
    BY <1>1, <1>21, <2>2 DEF Crash
  <2>4. lease' \in [LeaseNames -> LeaseRow]
    BY <1>1, <1>21 DEF Crash, LeaseRow, Forget
  <2>5. snapshot' \in Snapshot \cup {Nobody}
    BY <1>21, <2>2 DEF Crash, Snapshot, TypeOK
  <2>6. QED
    BY <1>21, <2>1, <2>3, <2>4, <2>5 DEF Crash, TypeOK
<1>22. QED
  BY <1>4, <1>5, <1>6, <1>7, <1>8, <1>9, <1>10, <1>11, <1>12, <1>13, <1>14, <1>15, <1>16, <1>17, <1>18, <1>19,
     <1>20, <1>21 DEF Dispatch

-----------------------------------------------------------------------------
(* The steps that leave the bus alone.  What each of them does to a row, to *)
(* the history of a message and to a dispatcher is one of a few things, and *)
(* these keep the invariant.                                                *)

RowKept(m) ==
  /\ mail'[m].seq = mail[m].seq
  /\ mail'[m].out \in Waiting \cup {"dispatching"} => mail[m].out \in Waiting \cup {"dispatching"}
  /\ mail'[m].out \in Queued => mail[m].out \in Queued
  /\ mail'[m].adm = "accepted" => mail[m].adm = "accepted"
  /\ mail[m].claim # 0 => mail'[m].claim # 0
  /\ mail[m].rcp # "unread" => mail'[m].rcp # "unread"
  /\ Used(m)' => /\ mail'[m].out \in Waiting => mail[m].out \in Waiting
                 /\ mail[m].out \in Sent => mail'[m].out \in Sent

Fresh(m) == m \notin issued /\ m \in issued' /\ ~hold /\ mail'[m].seq = nextSeq /\ nextSeq' = nextSeq + 1

ClaimKept(m) ==
  \/ claims'[m] = claims[m]
  \/ /\ Current(m) /\ claims[m] = 0 /\ claims'[m] = 1 /\ m \notin cancelled'
     /\ mail'[m].claim # 0 /\ mail'[m].rcp # "unread"

CancelKept(m) ==
  m \in cancelled' => m \in cancelled \/ (Current(m) /\ ~Used(m) /\ claims'[m] = 0 /\ mail'[m].adm # "accepted")

PromptKept(m) == prompts'[m] <= 1 /\ (Used(m)' => Used(m))

ProcKept(s) ==
  /\ ps'[s].at \in Busy => ps'[s].todo # <<>>
  /\ ps'[s].cap <= epoch
  /\ Engaged(s)' => Engaged(s) /\ Job(s)' = Job(s) /\ ps'[s].cap = ps[s].cap
  /\ Unsent(s)' => prompts'[Job(s)'] = 0

LEMMA Kept ==
  ASSUME IInv, TypeOK', SnapshotOK',
         UNCHANGED <<hold, disposed, boundary, epoch>>,
         nextSeq' \in {nextSeq, nextSeq + 1}, issued \subseteq issued',
         \A t \in Threads : actor'[t].gen > 0,
         \A m \in Messages : (RowKept(m) \/ Fresh(m)) /\ ClaimKept(m) /\ CancelKept(m) /\ PromptKept(m),
         \A s \in Schedulers : ProcKept(s)
  PROVE  IInv'
<1>1. /\ mail \in [Messages -> Row] /\ mail' \in [Messages -> Row] /\ nextSeq \in Nat /\ nextSeq' \in Nat
      /\ boundary \in Nat /\ epoch \in Nat /\ claims \in [Messages -> Nat] /\ prompts \in [Messages -> Nat]
  BY DEF IInv, TypeOK
<1>2. ASSUME NEW m \in Messages PROVE mail[m].seq \in Nat /\ mail'[m].seq \in Nat /\ mail[m].seq < nextSeq
  BY <1>1 DEF Row, IInv, MailOK
<1>3. ASSUME NEW m \in Messages, Fresh(m)
      PROVE  ~Present(m) /\ ~Used(m) /\ claims'[m] = 0 /\ m \notin cancelled' /\ ~Legacy(m)' /\ ~Used(m)'
  <2>1. MailOK(m)
    BY DEF IInv
  <2>2. ~Present(m) /\ ~Used(m) /\ claims[m] = 0 /\ m \notin cancelled
    BY <1>1, <1>3, <2>1 DEF MailOK, Fresh
  <2>3. boundary < nextSeq \/ ~disposed
    BY DEF IInv, BusOK
  <2>4. QED
    BY <1>1, <1>2, <1>3, <2>2, <2>3 DEF Fresh, ClaimKept, CancelKept, PromptKept, Current, Legacy
<1>4. ASSUME NEW m \in Messages, RowKept(m)
      PROVE  /\ Present(m)' = Present(m) /\ Legacy(m)' = Legacy(m) /\ Current(m)' = Current(m)
             /\ Used(m)' => Used(m)
  BY <1>4 DEF RowKept, Present, Legacy, Current, PromptKept
<1>5. Quiet' = Quiet
  BY DEF Quiet
<1>6. ASSUME NEW m \in Messages PROVE MailOK(m)'
  <2>1. MailOK(m)
    BY DEF IInv
  <2>2. CASE Fresh(m)
    BY <1>1, <1>2, <1>3, <2>2 DEF MailOK, Fresh, PromptKept
  <2>3. CASE RowKept(m)
    <3>1. /\ Present(m)' = Present(m) /\ Current(m)' = Current(m) /\ (Used(m)' => Used(m))
          /\ (Current(m) => Present(m))
      BY <1>4, <2>3 DEF Current
    <3>2. mail'[m].seq < nextSeq'
      BY <1>1, <1>2, <2>3 DEF RowKept
    <3>3. Present(m)' \/ Used(m)' \/ claims'[m] > 0 => m \in issued'
      BY <2>1, <3>1 DEF MailOK, ClaimKept
    <3>4. /\ Used(m)' /\ ~Quiet' => mail'[m].out \notin Waiting
          /\ Used(m)' /\ Current(m)' => mail'[m].out \in Sent
      BY <1>5, <2>1, <2>3, <3>1 DEF MailOK, RowKept
    <3>5. claims'[m] > 0 /\ Current(m)' => mail'[m].claim # 0 /\ mail'[m].rcp # "unread"
      BY <2>1, <2>3, <3>1 DEF MailOK, RowKept, ClaimKept
    <3>6. m \in cancelled' => m \in issued' /\ ~Used(m)' /\ claims'[m] = 0
      BY <2>1, <3>1 DEF MailOK, CancelKept, ClaimKept
    <3>7. m \in cancelled' /\ Current(m)' => mail'[m].adm # "accepted"
      BY <2>1, <2>3, <3>1 DEF MailOK, CancelKept, RowKept
    <3>8. prompts'[m] <= 1 /\ claims'[m] <= 1
      BY <2>1 DEF MailOK, PromptKept, ClaimKept
    <3>9. QED
      BY <3>2, <3>3, <3>4, <3>5, <3>6, <3>7, <3>8 DEF MailOK
  <2>4. QED
    BY <2>2, <2>3
<1>7. ASSUME NEW s \in Schedulers PROVE ProcOK(s)'
  <2>1. ProcOK(s) /\ ProcKept(s)
    BY DEF IInv
  <2>2. Engaged(s)' => \A q \in Schedulers : Engaged(q)' /\ Job(q)' = Job(s)' => q = s
    BY <2>1 DEF ProcOK, ProcKept
  <2>3. ASSUME Engaged(s)', ps'[s].cap = epoch'
        PROVE  Present(Job(s))' /\ \A n \in Queue(To[Job(s)])' : mail'[n].seq >= mail'[Job(s)'].seq
    <3>1. /\ Engaged(s) /\ ps[s].cap = epoch /\ Job(s)' = Job(s) /\ ps[s].todo # <<>>
          /\ Present(Job(s)) /\ \A n \in Queue(To[Job(s)]) : mail[n].seq >= mail[Job(s)].seq
      BY <2>1, <2>3 DEF ProcOK, ProcKept, Engaged, Busy
    <3>2. Job(s) \in Messages /\ Used(Job(s))
      BY <3>1, ProcFacts DEF IInv, Used
    <3>3. RowKept(Job(s))
      BY <1>3, <3>2
    <3>4. mail'[Job(s)].seq = mail[Job(s)].seq /\ Present(Job(s))'
      BY <1>4, <3>1, <3>2, <3>3 DEF RowKept
    <3>5. ASSUME NEW n \in Messages, n \in Queue(To[Job(s)])' PROVE mail'[n].seq >= mail[Job(s)].seq
      <4>1. CASE Fresh(n)
        BY <1>1, <1>2, <3>2, <4>1 DEF Fresh
      <4>2. CASE RowKept(n)
        <5>1. n \in Queue(To[Job(s)])
          BY <1>4, <3>1, <3>5, <4>2 DEF Queue, RowKept
        <5>2. QED
          BY <3>1, <4>2, <5>1 DEF RowKept
      <4>3. QED
        BY <4>1, <4>2
    <3>6. \A n \in Queue(To[Job(s)])' : n \in Messages
      BY DEF Queue
    <3>7. QED
      BY <3>1, <3>4, <3>5, <3>6
  <2>4. QED
    BY <2>1, <2>2, <2>3 DEF ProcOK, ProcKept
<1>8. BusOK'
  <2>1. BusOK
    BY DEF IInv
  <2>2. ASSUME disposed PROVE boundary < nextSeq'
    BY <1>1, <2>1, <2>2 DEF BusOK
  <2>3. ASSUME disposed, NEW m \in Messages, Present(m)', Legacy(m)'
        PROVE  mail'[m].out \notin Waiting \cup {"dispatching"}
    BY <1>3, <1>4, <2>1, <2>3 DEF BusOK, RowKept
  <2>4. ASSUME disposed, hold, NEW m \in Messages, Present(m)' PROVE Legacy(m)'
    <3>1. RowKept(m)
      BY <2>4 DEF Fresh
    <3>2. QED
      BY <1>4, <2>1, <2>4, <3>1 DEF BusOK
  <2>5. QED
    BY <2>2, <2>3, <2>4 DEF BusOK
<1>9. QED
  BY <1>6, <1>7, <1>8 DEF IInv

\* What most transactions make of a row, whoever relies on it.
RowCalm(r, n) ==
  /\ n.seq = r.seq
  /\ n.out \in Waiting => r.out \in Waiting
  /\ n.out = "dispatching" => r.out = "dispatching"
  /\ n.out \in Queued => r.out \in Queued
  /\ r.out \in Sent => n.out \in Sent
  /\ n.adm = "accepted" => r.adm = "accepted"
  /\ r.claim # 0 => n.claim # 0
  /\ r.rcp # "unread" => n.rcp # "unread"

LEMMA CalmKept ==
  ASSUME NEW m \in Messages, RowCalm(mail[m], mail'[m])
  PROVE  RowKept(m)
  BY DEF RowCalm, RowKept

LEMMA CalmRows ==
  ASSUME TypeOK, NEW m \in Messages
  PROVE  /\ RowCalm(mail[m], mail[m]) /\ RowCalm(mail[m], Expired(m)) /\ RowCalm(mail[m], Recovered(m))
         /\ RowCalm(mail[m], [Expired(m) EXCEPT !.rcp = "received"])
         /\ RowCalm(mail[m], [mail[m] EXCEPT !.live = FALSE])
         /\ \A s : RowCalm(mail[m], [mail[m] EXCEPT !.by = Forget(s, @)])
         /\ mail[m].out \in Waiting => RowCalm(mail[m], Deferred(m))
         /\ \A g \in Nat \ {0}, outcome \in Final \cup {"accepted"} :
               RowCalm(mail[m], Acked(Expired(m), g, outcome))
         /\ Expired(m).adm = "accepted" => Expired(m) = mail[m]
         /\ Expired(m).claim = mail[m].claim
<1>1. mail[m] \in Row /\ Expired(m) \in Row
  BY RowFacts
<1>2. RowCalm(mail[m], mail[m]) /\ RowCalm(mail[m], [mail[m] EXCEPT !.live = FALSE])
  BY <1>1 DEF RowCalm, Row
<1>3. RowCalm(mail[m], Expired(m)) /\ (Expired(m).adm = "accepted" => Expired(m) = mail[m]) /\ Expired(m).claim = mail[m].claim
  BY <1>1 DEF RowCalm, Row, Expired, Waiting, Queued, Sent
<1>4. RowCalm(mail[m], Recovered(m))
  BY <1>1 DEF RowCalm, Row, Recovered, Over, Waiting, Queued, Sent
<1>5. RowCalm(mail[m], [Expired(m) EXCEPT !.rcp = "received"])
  BY <1>1, <1>3 DEF RowCalm, Row
<1>6. \A s : RowCalm(mail[m], [mail[m] EXCEPT !.by = Forget(s, @)])
  BY <1>1 DEF RowCalm, Row
<1>7. mail[m].out \in Waiting => RowCalm(mail[m], Deferred(m))
  BY <1>1, <1>3 DEF RowCalm, Row, Deferred, Waiting, Queued, Sent
<1>8. ASSUME NEW g \in Nat \ {0}, NEW outcome \in Final \cup {"accepted"}
      PROVE  RowCalm(mail[m], Acked(Expired(m), g, outcome))
  BY <1>1, <1>3 DEF RowCalm, Row, Acked, Final
<1>9. QED
  BY <1>2, <1>3, <1>4, <1>5, <1>6, <1>7, <1>8

\* A transaction of somebody who is not a dispatcher.
LEMMA KeptByMail ==
  ASSUME IInv, UNCHANGED <<ps, prompts, epoch>>
  PROVE  /\ \A m \in Messages : PromptKept(m) /\ Used(m)' = Used(m)
         /\ \A s \in Schedulers : ProcKept(s)
<1>1. ASSUME NEW m \in Messages PROVE PromptKept(m) /\ Used(m)' = Used(m)
  <2>1. Used(m)' = Used(m)
    BY DEF Used, Engaged, Job
  <2>2. MailOK(m)
    BY DEF IInv
  <2>3. QED
    BY <2>1, <2>2 DEF MailOK, PromptKept
<1>2. ASSUME NEW s \in Schedulers PROVE ProcKept(s)
  <2>1. ProcOK(s)
    BY DEF IInv
  <2>2. Engaged(s)' = Engaged(s) /\ Unsent(s)' = Unsent(s) /\ Job(s)' = Job(s)
    BY DEF Engaged, Unsent, Job
  <2>3. QED
    BY <2>1, <2>2 DEF ProcOK, ProcKept
<1>3. QED
  BY <1>1, <1>2

LEMMA SnapshotKept ==
  ASSUME IInv, UNCHANGED snapshot, issued \subseteq issued'
  PROVE  SnapshotOK'
  BY DEF IInv, SnapshotOK

\* A new row is fresh.
LEMMA NewRow ==
  ASSUME IInv, NEW m \in Messages, CanAdmit(m), NEW notify, mail'[m] = Admitted(notify),
         nextSeq' = nextSeq + 1, issued' = issued \cup {m}
  PROVE  Fresh(m)
  BY DEF CanAdmit, Admitted, NoRow, Fresh, Active

\* The first claim on a current message.
LEMMA NewClaim ==
  ASSUME IInv, NEW p \in Messages, ~hold, Present(p), ~Legacy(p),
         NEW outcome \in Final \cup {"accepted"}, CanAck(Expired(p), actor[To[p]].gen, outcome),
         mail'[p] = Acked(Expired(p), actor[To[p]].gen, outcome), CountClaim(p, outcome), UNCHANGED cancelled
  PROVE  /\ \A m \in Messages : ClaimKept(m)
         /\ RowKept(p)
<1>1. TypeOK /\ MailOK(p) /\ Current(p) /\ To[p] \in Threads
  BY RowFacts DEF IInv, Current
<1>2. actor[To[p]].gen \in Nat \ {0}
  BY <1>1 DEF TypeOK, IInv, BusOK
<1>3. RowKept(p)
  BY <1>1, <1>2, CalmRows, CalmKept
<1>4. claims \in [Messages -> Nat] /\ Expired(p) \in Row /\ mail[p] \in Row
  BY <1>1, RowFacts DEF TypeOK
<1>5. ASSUME outcome = "accepted" PROVE ClaimKept(p)
  <2>1. mail[p].claim = 0 /\ mail[p].adm = "accepted"
    BY <1>1, <1>5, CalmRows DEF CanAck
  <2>2. claims[p] = 0 /\ p \notin cancelled
    BY <1>1, <1>4, <2>1 DEF MailOK
  <2>3. mail'[p].claim # 0 /\ mail'[p].rcp # "unread"
    BY <1>2, <1>4, <1>5 DEF Acked, Row
  <2>4. QED
    BY <1>1, <1>4, <1>5, <2>2, <2>3 DEF ClaimKept, CountClaim
<1>6. ASSUME NEW m \in Messages, m # p \/ outcome # "accepted" PROVE ClaimKept(m)
  BY <1>4, <1>6 DEF ClaimKept, CountClaim
<1>7. QED
  BY <1>3, <1>5, <1>6

LEMMA ParticipantKeeps == ASSUME IInv, Participant PROVE IInv'
<1> USE DEF bus, history, faults
<1>1. TypeOK /\ TypeOK'
  BY ParticipantTyped DEF IInv
<1>2. mail \in [Messages -> Row] /\ nextSeq \in Nat /\ \A t \in Threads : actor[t].gen > 0
  BY <1>1 DEF TypeOK, IInv, BusOK
<1>3. PICK m \in Messages :
         \/ \E notify \in BOOLEAN : Send(m, notify) \/ \E p \in Messages : Reply(m, p, notify)
         \/ Look(m) \/ Read(m) \/ Cancel(m)
         \/ \E outcome \in Final \cup {"accepted"} : Ack(m, outcome)
  BY DEF Participant
<1>4. ASSUME NEW notify \in BOOLEAN, Send(m, notify) PROVE IInv'
  <2>1. Fresh(m)
    BY <1>2, <1>4, NewRow DEF Send
  <2>2. \A n \in Messages \ {m} : RowKept(n)
    BY <1>1, <1>2, <1>4, CalmRows, CalmKept DEF Send
  <2>3. \A n \in Messages : ClaimKept(n) /\ CancelKept(n)
    BY <1>4 DEF Send, ClaimKept, CancelKept
  <2>4. /\ \A n \in Messages : PromptKept(n)
        /\ \A s \in Schedulers : ProcKept(s)
    BY <1>4, KeptByMail DEF Send
  <2>5. SnapshotOK'
    BY <1>4, SnapshotKept DEF Send
  <2>6. QED
    BY <1>1, <1>2, <1>4, <2>1, <2>2, <2>3, <2>4, <2>5, Kept DEF Send
<1>5. ASSUME NEW notify \in BOOLEAN, NEW p \in Messages, Reply(m, p, notify) PROVE IInv'
  <2>1. Present(p) /\ ~Legacy(p) /\ ~hold /\ p # m
    BY <1>1, <1>5 DEF Reply, CanAdmit, Active, IInv, MailOK
  <2>2. Fresh(m)
    BY <1>2, <1>5, <2>1, NewRow DEF Reply
  <2>3. \A n \in Messages \ {m, p} : RowKept(n)
    BY <1>1, <1>2, <1>5, CalmRows, CalmKept DEF Reply
  <2>4. RowKept(p) /\ \A n \in Messages : ClaimKept(n)
    <3>1. CASE mail'[p] = Expired(p) /\ UNCHANGED claims
      BY <1>1, <3>1, CalmRows, CalmKept DEF ClaimKept
    <3>2. CASE \E outcome \in Final \cup {"accepted"} :
                 /\ CanAck(Expired(p), actor[To[p]].gen, outcome)
                 /\ mail'[p] = Acked(Expired(p), actor[To[p]].gen, outcome)
                 /\ CountClaim(p, outcome)
      BY <1>5, <2>1, <3>2, NewClaim DEF Reply
    <3>3. QED
      BY <1>2, <1>5, <2>1, <3>1, <3>2 DEF Reply
  <2>5. \A n \in Messages : CancelKept(n)
    BY <1>5 DEF Reply, CancelKept
  <2>6. /\ \A n \in Messages : PromptKept(n)
        /\ \A s \in Schedulers : ProcKept(s)
    BY <1>5, KeptByMail DEF Reply
  <2>7. SnapshotOK'
    BY <1>5, SnapshotKept DEF Reply
  <2>8. QED
    BY <1>1, <1>2, <1>5, <2>2, <2>3, <2>4, <2>5, <2>6, <2>7, Kept DEF Reply
<1>6. CASE Look(m) \/ Read(m)
  <2>1. \A n \in Messages : RowKept(n)
    BY <1>1, <1>2, <1>6, CalmRows, CalmKept DEF Look, Read
  <2>2. \A n \in Messages : ClaimKept(n) /\ CancelKept(n)
    BY <1>6 DEF Look, Read, ClaimKept, CancelKept
  <2>3. /\ \A n \in Messages : PromptKept(n)
        /\ \A s \in Schedulers : ProcKept(s)
    BY <1>6, KeptByMail DEF Look, Read
  <2>4. SnapshotOK'
    BY <1>6, SnapshotKept DEF Look, Read
  <2>5. QED
    BY <1>1, <1>2, <1>6, <2>1, <2>2, <2>3, <2>4, Kept DEF Look, Read
<1>7. CASE Cancel(m)
  <2>1. MailOK(m) /\ Current(m) /\ mail[m] \in Row /\ claims[m] \in Nat
    BY <1>1, <1>2, <1>7 DEF IInv, Cancel, Active, Current, TypeOK
  <2>2. ~Used(m) /\ claims[m] = 0
    BY <1>7, <2>1 DEF Cancel, MailOK, Sent
  <2>3. mail' = [mail EXCEPT ![m] = [mail[m] EXCEPT !.adm = "cancelled", !.out = "suppressed"]]
    BY <1>2, <1>7, <2>1 DEF Cancel
  <2>4. RowKept(m)
    <3>1. mail'[m] = [mail[m] EXCEPT !.adm = "cancelled", !.out = "suppressed"]
      BY <1>2, <2>3
    <3>2. mail[m].out \notin Sent
      BY <1>7 DEF Cancel, Sent
    <3>3. RowCalm(mail[m], mail'[m])
      BY <2>1, <3>1, <3>2 DEF RowCalm, Row, Waiting, Queued
    <3>4. QED
      BY <3>3, CalmKept
  <2>5. \A n \in Messages \ {m} : RowKept(n)
    BY <1>1, <1>2, <2>3, CalmRows, CalmKept
  <2>6. \A n \in Messages : ClaimKept(n) /\ CancelKept(n)
    BY <1>2, <1>7, <2>1, <2>2, <2>3 DEF Cancel, ClaimKept, CancelKept, Row
  <2>7. /\ \A n \in Messages : PromptKept(n)
        /\ \A s \in Schedulers : ProcKept(s)
    BY <1>7, KeptByMail DEF Cancel
  <2>8. SnapshotOK'
    BY <1>7, SnapshotKept DEF Cancel
  <2>9. QED
    BY <1>1, <1>2, <1>7, <2>4, <2>5, <2>6, <2>7, <2>8, Kept DEF Cancel
<1>8. ASSUME NEW outcome \in Final \cup {"accepted"}, Ack(m, outcome) PROVE IInv'
  <2>1. Present(m) /\ ~Legacy(m) /\ ~hold
    BY <1>8 DEF Ack, Active
  <2>2. RowKept(m) /\ \A n \in Messages : ClaimKept(n)
    BY <1>2, <1>8, <2>1, NewClaim DEF Ack
  <2>3. \A n \in Messages \ {m} : RowKept(n)
    BY <1>1, <1>2, <1>8, CalmRows, CalmKept DEF Ack
  <2>4. \A n \in Messages : CancelKept(n)
    BY <1>8 DEF Ack, CancelKept
  <2>5. /\ \A n \in Messages : PromptKept(n)
        /\ \A s \in Schedulers : ProcKept(s)
    BY <1>8, KeptByMail DEF Ack
  <2>6. SnapshotOK'
    BY <1>8, SnapshotKept DEF Ack
  <2>7. QED
    BY <1>1, <1>2, <1>8, <2>2, <2>3, <2>4, <2>5, <2>6, Kept DEF Ack
<1>9. QED
  BY <1>3, <1>4, <1>5, <1>6, <1>7, <1>8

LEMMA ClockKeeps == ASSUME IInv, Clock PROVE IInv'
<1> USE DEF bus, history, faults
<1>1. TypeOK /\ TypeOK'
  BY ClockTyped DEF IInv
<1>2. mail \in [Messages -> Row] /\ \A t \in Threads : actor[t].gen > 0
  BY <1>1 DEF TypeOK, IInv, BusOK
<1>3. ASSUME UNCHANGED <<nextSeq, bus, snapshot, ps, history>>, \A m \in Messages : RowCalm(mail[m], mail'[m])
      PROVE  IInv'
  <2>1. \A m \in Messages : RowKept(m)
    BY <1>3, CalmKept
  <2>2. \A m \in Messages : ClaimKept(m) /\ CancelKept(m)
    BY <1>3 DEF ClaimKept, CancelKept
  <2>3. /\ \A m \in Messages : PromptKept(m)
        /\ \A s \in Schedulers : ProcKept(s)
    BY <1>3, KeptByMail
  <2>4. SnapshotOK'
    BY <1>3, SnapshotKept
  <2>5. QED
    BY <1>1, <1>2, <1>3, <2>1, <2>2, <2>3, <2>4, Kept
<1>4. ASSUME NEW m \in Messages, Deadline(m) PROVE IInv'
  BY <1>1, <1>3, <1>4, CalmRows DEF Deadline
<1>5. ASSUME NEW m \in Messages, AttemptRunsOut(m) PROVE IInv'
  <2>1. \A n \in Messages : RowCalm(mail[n], mail'[n])
    BY <1>1, <1>2, <1>5, CalmRows DEF AttemptRunsOut
  <2>2. QED
    BY <1>3, <1>5, <2>1 DEF AttemptRunsOut
<1>6. ASSUME NEW n \in LeaseNames, LeaseRunsOut(n) PROVE IInv'
  <2>1. \A m \in Messages : RowCalm(mail[m], mail'[m])
    BY <1>1, <1>6, CalmRows DEF LeaseRunsOut
  <2>2. QED
    BY <1>3, <1>6, <2>1 DEF LeaseRunsOut
<1>7. QED
  BY <1>4, <1>5, <1>6 DEF Clock

\* A recovery brings an older state back; until its disposition nobody acts.
LEMMA RestoreKeeps == ASSUME IInv, Restore PROVE IInv'
<1> USE DEF bus, history, faults
<1>1. TypeOK /\ TypeOK' /\ SnapshotOK
  BY OperatorTyped DEF IInv, Operator
<1>2. /\ snapshot \in Snapshot /\ mail' = snapshot.mail /\ nextSeq' = snapshot.nextSeq
      /\ hold' /\ ~disposed' /\ epoch' = epoch + 1 /\ epoch \in Nat
      /\ UNCHANGED <<snapshot, ps, issued, prompts, claims, cancelled>>
  BY <1>1 DEF Restore, TypeOK
<1>3. Quiet' /\ \A m \in Messages : ~Current(m)'
  BY <1>2 DEF Quiet, Current
<1>4. \A m \in Messages : Used(m)' = Used(m)
  BY <1>2 DEF Used, Engaged, Job
<1>5. ASSUME NEW m \in Messages PROVE MailOK(m)'
  <2>1. MailOK(m)
    BY DEF IInv
  <2>2. mail'[m].seq < nextSeq' /\ (Present(m)' => m \in issued')
    BY <1>1, <1>2 DEF SnapshotOK, Restore, Present
  <2>3. QED
    BY <1>2, <1>3, <1>4, <2>1, <2>2 DEF MailOK
<1>6. ASSUME NEW s \in Schedulers PROVE ProcOK(s)'
  <2>1. ProcOK(s)
    BY DEF IInv
  <2>2. ps[s].cap \in Nat /\ ps[s].cap # epoch' /\ ps[s].cap <= epoch'
    <3>1. ps[s].cap \in Nat /\ ps[s].cap <= epoch
      BY <1>1, <2>1, ProcFacts DEF Process, ProcOK
    <3>2. QED
      BY <1>2, <3>1
  <2>3. Engaged(s)' = Engaged(s) /\ Unsent(s)' = Unsent(s) /\ \A q \in Schedulers : Job(q)' = Job(q) /\ Engaged(q)' = Engaged(q)
    BY <1>2 DEF Engaged, Unsent, Job
  <2>4. QED
    BY <1>2, <2>1, <2>2, <2>3 DEF ProcOK
<1>7. BusOK'
  <2>1. \A t \in Threads : actor'[t].gen > 0
    BY <1>2 DEF Restore, Snapshot
  <2>2. QED
    BY <1>2, <2>1 DEF BusOK
<1>8. SnapshotOK'
  BY <1>2, SnapshotKept
<1>9. QED
  BY <1>1, <1>5, <1>6, <1>7, <1>8 DEF IInv

\* The disposition: nothing of the snapshot waits any more.
LEMMA DisposeKeeps == ASSUME IInv, Dispose PROVE IInv'
<1> USE DEF bus, history, faults
<1>1. TypeOK /\ TypeOK'
  BY OperatorTyped DEF IInv, Operator
<1>2. /\ hold /\ hold' /\ ~disposed /\ disposed' /\ boundary' = nextSeq - 1
      /\ UNCHANGED <<nextSeq, actor, epoch, snapshot, ps, issued, prompts, claims, cancelled>>
      /\ nextSeq \in Nat \ {0}
  BY <1>1 DEF Dispose, TypeOK
<1>3. ASSUME NEW m \in Messages
      PROVE  /\ mail'[m].seq = mail[m].seq /\ mail[m].seq \in Nat /\ mail[m].seq < nextSeq
             /\ mail'[m].out \notin Waiting \cup {"dispatching"} /\ (mail'[m].out \in Queued => mail[m].out \in Queued)
             /\ mail'[m].adm = mail[m].adm
  <2>1. mail[m] \in Row /\ MailOK(m) /\ mail'[m] = Held(mail[m])
    BY <1>1, RowFacts DEF IInv, Dispose
  <2>2. QED
    BY <2>1 DEF Held, Over, Row, MailOK, Waiting, Queued
<1>4. \A m \in Messages : Used(m)' = Used(m) /\ ~Current(m)' /\ Present(m)' = Present(m) /\ Legacy(m)'
  BY <1>2, <1>3 DEF Used, Engaged, Job, Current, Present, Legacy
<1>5. ASSUME NEW m \in Messages PROVE MailOK(m)'
  <2>1. MailOK(m)
    BY DEF IInv
  <2>2. QED
    BY <1>2, <1>3, <1>4, <2>1 DEF MailOK
<1>6. ASSUME NEW s \in Schedulers PROVE ProcOK(s)'
  <2>1. ProcOK(s)
    BY DEF IInv
  <2>2. /\ Engaged(s)' = Engaged(s) /\ Unsent(s)' = Unsent(s)
        /\ \A q \in Schedulers : Job(q)' = Job(q) /\ Engaged(q)' = Engaged(q)
    BY <1>2 DEF Engaged, Unsent, Job
  <2>3. ASSUME Engaged(s), ps[s].cap = epoch
        PROVE  Present(Job(s))' /\ \A n \in Queue(To[Job(s)])' : mail'[n].seq >= mail'[Job(s)'].seq
    <3>1. Job(s) \in Messages /\ Job(s)' = Job(s)
      BY <1>1, <2>1, <2>2, <2>3, ProcFacts DEF ProcOK, Engaged, Busy
    <3>2. Present(Job(s)) /\ \A n \in Queue(To[Job(s)]) : mail[n].seq >= mail[Job(s)].seq
      BY <2>1, <2>3 DEF ProcOK
    <3>3. ASSUME NEW n \in Queue(To[Job(s)])' PROVE n \in Messages /\ n \in Queue(To[Job(s)])
      BY <1>3, <1>4, <3>1, <3>3 DEF Queue
    <3>4. QED
      BY <1>3, <3>1, <3>2, <3>3, <1>4
  <2>4. QED
    BY <1>2, <2>1, <2>2, <2>3 DEF ProcOK
<1>7. BusOK'
  BY <1>2, <1>3, <1>4 DEF BusOK, IInv
<1>8. SnapshotOK'
  BY <1>2, SnapshotKept
<1>9. QED
  BY <1>1, <1>5, <1>6, <1>7, <1>8 DEF IInv

\* The release: everything there is then belongs to the snapshot.
LEMMA ReleaseKeeps == ASSUME IInv, Release PROVE IInv'
<1> USE DEF bus, history, faults
<1>1. TypeOK /\ TypeOK'
  BY OperatorTyped DEF IInv, Operator
<1>2. /\ hold /\ ~hold' /\ disposed /\ disposed'
      /\ UNCHANGED <<mail, nextSeq, boundary, actor, epoch, snapshot, ps, issued, prompts, claims, cancelled>>
  BY <1>1 DEF Release, TypeOK
<1>3. ASSUME NEW m \in Messages
      PROVE  /\ Used(m)' = Used(m) /\ Present(m)' = Present(m) /\ Legacy(m)' = Legacy(m)
             /\ Present(m) => Legacy(m)
  BY <1>2 DEF Used, Engaged, Job, Present, Legacy, IInv, BusOK
<1>4. ASSUME NEW m \in Messages PROVE MailOK(m)'
  <2>1. MailOK(m) /\ ~Current(m)' /\ ~Quiet /\ ~Quiet'
    BY <1>2, <1>3 DEF IInv, Current, Quiet
  <2>2. QED
    BY <1>2, <1>3, <2>1 DEF MailOK
<1>5. ASSUME NEW s \in Schedulers PROVE ProcOK(s)'
  <2>1. ProcOK(s)
    BY DEF IInv
  <2>2. QED
    BY <1>2, <2>1 DEF ProcOK, Engaged, Unsent, Job, Queue, Present
<1>6. BusOK'
  BY <1>2, <1>3 DEF BusOK, IInv
<1>7. SnapshotOK'
  BY <1>2, SnapshotKept
<1>8. QED
  BY <1>1, <1>4, <1>5, <1>6, <1>7 DEF IInv

LEMMA OperatorKeeps == ASSUME IInv, Operator PROVE IInv'
<1> USE DEF bus, history, faults
<1>1. TypeOK /\ TypeOK'
  BY OperatorTyped DEF IInv
<1>2. \A t \in Threads : actor[t].gen \in Nat /\ actor[t].gen > 0
  BY <1>1 DEF TypeOK, IInv, BusOK
<1>3. ASSUME UNCHANGED <<mail, nextSeq, hold, disposed, boundary, epoch, ps, history>>, SnapshotOK',
             \A t \in Threads : actor'[t].gen > 0
      PROVE  IInv'
  <2>1. \A m \in Messages : RowKept(m)
    BY <1>1, <1>3, CalmRows, CalmKept
  <2>2. \A m \in Messages : ClaimKept(m) /\ CancelKept(m)
    BY <1>3 DEF ClaimKept, CancelKept
  <2>3. /\ \A m \in Messages : PromptKept(m)
        /\ \A s \in Schedulers : ProcKept(s)
    BY <1>3, KeptByMail
  <2>4. QED
    BY <1>1, <1>3, <2>1, <2>2, <2>3, Kept
<1>4. ASSUME NEW value \in BOOLEAN, SetPaused(value) \/ Enroll(value) PROVE IInv'
  <2>1. SnapshotOK'
    BY <1>4, SnapshotKept DEF SetPaused, Enroll
  <2>2. QED
    BY <1>2, <1>3, <1>4, <2>1 DEF SetPaused, Enroll
<1>5. ASSUME NEW t \in Threads, Rotate(t) \/ Revoke(t) PROVE IInv'
  <2>1. SnapshotOK'
    BY <1>5, SnapshotKept DEF Rotate, Revoke
  <2>2. \A u \in Threads : actor'[u].gen > 0
    BY <1>1, <1>2, <1>5 DEF Rotate, Revoke, TypeOK
  <2>3. QED
    BY <1>3, <1>5, <2>1, <2>2 DEF Rotate, Revoke
<1>6. CASE Backup
  <2>1. SnapshotOK'
    <3>1. \A m \in Messages : mail[m].seq < nextSeq /\ (mail[m].seq > 0 => m \in issued)
      BY DEF IInv, MailOK, Present
    <3>2. nextSeq > 0
      BY <1>1 DEF TypeOK
    <3>3. QED
      BY <1>6, <3>1, <3>2 DEF Backup, SnapshotOK
  <2>2. QED
    BY <1>2, <1>3, <1>6, <2>1 DEF Backup
<1>7. QED
  BY <1>4, <1>5, <1>6, RestoreKeeps, DisposeKeeps, ReleaseKeeps DEF Operator

-----------------------------------------------------------------------------
(* Dispatchers.                                                             *)

Attempting == {"context", "deliver", "finish"}

\* p is what the step makes of the record of s: s does not begin an attempt.
ProcCalm(s, p) ==
  /\ p.at \in Busy => p.todo # <<>>
  /\ p.cap <= epoch
  /\ p.at \in Attempting => ps[s].at \in Attempting /\ p.todo = ps[s].todo /\ p.cap = ps[s].cap
  /\ p.at \in {"context", "deliver"} \/ (p.at = "finish" /\ p.res = "unsent") => Unsent(s)

LEMMA KeptByTick ==
  ASSUME IInv, NEW s \in Schedulers, NEW p, ps' = [ps EXCEPT ![s] = p], ProcCalm(s, p),
         UNCHANGED <<prompts, epoch>>
  PROVE  /\ \A m \in Messages : PromptKept(m)
         /\ \A q \in Schedulers : ProcKept(q)
<1>1. ps \in [Schedulers -> Process]
  BY DEF IInv, TypeOK
<1>2. ps'[s] = p /\ \A q \in Schedulers \ {s} : ps'[q] = ps[q]
  BY <1>1
<1>3. ASSUME NEW q \in Schedulers, Engaged(q)' PROVE Engaged(q) /\ Job(q)' = Job(q) /\ ps'[q].cap = ps[q].cap
  BY <1>2, <1>3 DEF Engaged, Job, ProcCalm, Attempting
<1>4. ASSUME NEW m \in Messages PROVE PromptKept(m)
  <2>1. MailOK(m)
    BY DEF IInv
  <2>2. QED
    BY <1>3, <2>1 DEF MailOK, PromptKept, Used
<1>5. ASSUME NEW q \in Schedulers PROVE ProcKept(q)
  <2>1. ProcOK(q)
    BY DEF IInv
  <2>2. ASSUME Unsent(q)' PROVE Unsent(q) /\ Job(q)' = Job(q)
    <3>1. Engaged(q)'
      BY <2>2 DEF Unsent, Engaged
    <3>2. QED
      BY <1>2, <1>3, <2>2, <3>1 DEF Unsent, ProcCalm
  <2>3. /\ ps'[q].at \in Busy => ps'[q].todo # <<>>
        /\ ps'[q].cap <= epoch
    BY <1>2, <2>1 DEF ProcCalm, ProcOK
  <2>4. QED
    BY <1>3, <2>1, <2>2, <2>3 DEF ProcKept, ProcOK
<1>6. QED
  BY <1>4, <1>5

LEMMA CalmTick ==
  ASSUME IInv, TypeOK', SnapshotOK', NEW s \in Schedulers, NEW p, ps' = [ps EXCEPT ![s] = p], ProcCalm(s, p),
         UNCHANGED <<nextSeq, bus, history>>, \A m \in Messages : RowCalm(mail[m], mail'[m])
  PROVE  IInv'
<1> USE DEF bus, history
<1>1. \A m \in Messages : RowKept(m)
  BY CalmKept
<1>2. \A m \in Messages : ClaimKept(m) /\ CancelKept(m)
  BY DEF ClaimKept, CancelKept
<1>3. /\ \A m \in Messages : PromptKept(m)
      /\ \A q \in Schedulers : ProcKept(q)
  BY KeptByTick
<1>4. \A t \in Threads : actor'[t].gen > 0
  BY DEF IInv, BusOK
<1>5. QED
  BY <1>1, <1>2, <1>3, <1>4, Kept

\* The moves that begin no attempt.
LEMMA CalmMoves ==
  ASSUME IInv, NEW s \in Schedulers
  PROVE  /\ \A at \in Steps \ Attempting : ps[s].at \in Busy \/ at \notin Busy => ProcCalm(s, [ps[s] EXCEPT !.at = at])
         /\ ProcCalm(s, [Down EXCEPT !.at = "end", !.cap = ps[s].cap, !.dgen = ps[s].dgen])
         /\ ProcCalm(s, [ps[s] EXCEPT !.at = "job", !.todo = Tail(@), !.rgen = 0, !.res = "unsent"])
<1>1. ps[s] \in Process /\ ProcOK(s)
  BY ProcFacts DEF IInv
<1>2. ps[s].cap <= epoch /\ (ps[s].at \in Busy => ps[s].todo # <<>>)
  BY <1>1 DEF ProcOK
<1>3. ASSUME NEW at \in Steps \ Attempting, ps[s].at \in Busy \/ at \notin Busy
      PROVE  ProcCalm(s, [ps[s] EXCEPT !.at = at])
  BY <1>1, <1>2, <1>3 DEF ProcCalm, Process, Attempting
<1>4. ProcCalm(s, [Down EXCEPT !.at = "end", !.cap = ps[s].cap, !.dgen = ps[s].dgen])
  BY <1>2 DEF ProcCalm, Down, Busy, Attempting
<1>5. ProcCalm(s, [ps[s] EXCEPT !.at = "job", !.todo = Tail(@), !.rgen = 0, !.res = "unsent"])
  BY <1>1, <1>2 DEF ProcCalm, Process, Busy, Attempting
<1>6. QED
  BY <1>3, <1>4, <1>5

\* An attempt begins on a message nobody is at and nobody was prompted for.
LEMMA ClaimKeeps == ASSUME IInv, NEW s \in Schedulers, Claim(s) PROVE IInv'
<1> USE DEF bus, history, faults
<1> DEFINE m == Job(s)
<1>1. TypeOK /\ TypeOK'
  BY DispatchTyped DEF IInv, Dispatch
<1>2. /\ mail \in [Messages -> Row] /\ ps \in [Schedulers -> Process] /\ prompts \in [Messages -> Nat]
      /\ ps[s] \in Process /\ ProcOK(s) /\ BusOK
  BY <1>1 DEF TypeOK, IInv
<1>3. m \in Messages /\ mail[m] \in Row
  BY <1>1, <1>2, ProcFacts DEF Claim, Busy, ProcOK
<1>4. /\ ~hold /\ mail[m].out \in Waiting /\ First(m) /\ ps[s].at = "claim" /\ ps[s].cap = epoch
      /\ mail' = [mail EXCEPT ![m] = Attempted(s, mail[m])]
      /\ ps' = [ps EXCEPT ![s].at = "context"]
      /\ UNCHANGED <<nextSeq, bus, snapshot, history>>
  BY DEF Claim, FencedBoth, Fenced, Entitled, Move
<1>5. /\ Present(m) /\ mail[m].adm = "accepted" /\ ~Legacy(m) /\ Current(m) /\ ~Quiet
      /\ \A n \in Queue(To[m]) : mail[m].seq <= mail[n].seq
  <2>1. Present(m) /\ mail[m].adm = "accepted" /\ \A n \in Queue(To[m]) : mail[m].seq <= mail[n].seq
    BY <1>4 DEF First, Queue
  <2>2. ~Legacy(m)
    BY <1>2, <1>3, <1>4, <2>1 DEF BusOK, Legacy
  <2>3. QED
    BY <1>4, <2>1, <2>2 DEF Current, Quiet
<1>6. ~Used(m) /\ m \notin cancelled /\ prompts[m] = 0
  <2>1. MailOK(m)
    BY <1>3 DEF IInv
  <2>2. ~Used(m) /\ m \notin cancelled
    BY <1>4, <1>5, <2>1 DEF MailOK
  <2>3. QED
    BY <1>2, <1>3, <2>2 DEF Used
<1>7. /\ ps'[s].at = "context" /\ ps'[s].todo = ps[s].todo /\ ps'[s].cap = ps[s].cap
      /\ \A q \in Schedulers \ {s} : ps'[q] = ps[q]
  BY <1>2, <1>4 DEF Process
<1>8. /\ Engaged(s)' /\ ~Engaged(s) /\ Job(s)' = m
      /\ \A q \in Schedulers \ {s} : Engaged(q)' = Engaged(q) /\ Unsent(q)' = Unsent(q) /\ Job(q)' = Job(q)
  BY <1>4, <1>7 DEF Engaged, Unsent, Job
<1>9. /\ mail'[m].seq = mail[m].seq /\ mail'[m].out = "dispatching" /\ mail'[m].adm = mail[m].adm
      /\ mail'[m].claim = mail[m].claim /\ mail'[m].rcp = mail[m].rcp
      /\ \A n \in Messages \ {m} : mail'[n] = mail[n]
  <2>1. mail'[m] = Attempted(s, mail[m]) /\ \A n \in Messages \ {m} : mail'[n] = mail[n]
    BY <1>2, <1>3, <1>4
  <2>2. QED
    BY <1>3, <2>1 DEF Attempted, Row
<1>10. /\ \A n \in Messages : Present(n)' = Present(n) /\ Legacy(n)' = Legacy(n) /\ Current(n)' = Current(n)
       /\ \A n \in Messages \ {m} : Used(n)' = Used(n)
       /\ Quiet' = Quiet
  <2>1. \A n \in Messages : Present(n)' = Present(n) /\ Legacy(n)' = Legacy(n) /\ Current(n)' = Current(n)
    BY <1>4, <1>9 DEF Present, Legacy, Current
  <2>2. ASSUME NEW n \in Messages \ {m} PROVE Used(n)' = Used(n)
    BY <1>4, <1>8 DEF Used
  <2>3. QED
    BY <1>4, <2>1, <2>2 DEF Quiet
<1>11. ASSUME NEW n \in Messages PROVE MailOK(n)'
  <2>1. MailOK(n)
    BY DEF IInv
  <2>2. CASE n = m
    BY <1>4, <1>5, <1>6, <1>9, <1>10, <2>1, <2>2 DEF MailOK, Waiting, Sent
  <2>3. CASE n # m
    BY <1>4, <1>9, <1>10, <2>1, <2>3 DEF MailOK
  <2>4. QED
    BY <2>2, <2>3
<1>12. ASSUME NEW t PROVE Queue(t)' = Queue(t)
  BY <1>4, <1>9, <1>10 DEF Queue, Queued, Waiting
<1>13. ASSUME NEW q \in Schedulers PROVE ProcOK(q)'
  <2>1. ProcOK(q) /\ ps[q].cap <= epoch
    BY DEF IInv, ProcOK
  <2>2. \A x \in Schedulers \ {s} : Engaged(x) => Job(x) # m
    BY <1>6 DEF Used
  <2>3. CASE q = s
    <3>1. ps'[s].todo # <<>>
      BY <1>2, <1>4, <1>7 DEF ProcOK, Busy
    <3>2. \A n \in Queue(To[Job(s)])' : mail'[n].seq >= mail'[Job(s)'].seq
      <4>1. Queue(To[Job(s)])' = Queue(To[m])
        BY <1>8, <1>12
      <4>2. \A n \in Queue(To[m]) : n \in Messages /\ mail'[n].seq = mail[n].seq
        BY <1>9 DEF Queue
      <4>3. mail[m].seq \in Nat /\ \A n \in Queue(To[m]) : mail[n].seq \in Nat
        BY <1>2, <1>3, <4>2 DEF Row
      <4>4. QED
        BY <1>5, <1>8, <1>9, <4>1, <4>2, <4>3
    <3>3. QED
      BY <1>3, <1>4, <1>5, <1>6, <1>7, <1>8, <1>10, <2>1, <2>2, <2>3, <3>1, <3>2 DEF ProcOK
  <2>4. CASE q # s
    <3>1. ASSUME Engaged(q), ps[q].cap = epoch
          PROVE  Present(Job(q))' /\ \A n \in Queue(To[Job(q)])' : mail'[n].seq >= mail'[Job(q)'].seq
      <4>1. Job(q) \in Messages /\ Job(q)' = Job(q)
        BY <1>1, <1>8, <2>1, <2>4, <3>1, ProcFacts DEF ProcOK, Engaged, Busy
      <4>2. Queue(To[Job(q)])' = Queue(To[Job(q)])
        BY <1>12, <4>1
      <4>3. \A n \in Messages : mail'[n].seq = mail[n].seq
        BY <1>9
      <4>4. \A n \in Queue(To[Job(q)]) : n \in Messages
        BY DEF Queue
      <4>5. QED
        BY <1>10, <2>1, <3>1, <4>1, <4>2, <4>3, <4>4 DEF ProcOK
    <3>2. QED
      BY <1>4, <1>7, <1>8, <2>1, <2>2, <2>4, <3>1 DEF ProcOK
  <2>5. QED
    BY <2>3, <2>4
<1>14. BusOK'
  BY <1>2, <1>4, <1>5, <1>9, <1>10 DEF BusOK
<1>15. SnapshotOK'
  BY <1>4, SnapshotKept
<1>16. QED
  BY <1>1, <1>11, <1>13, <1>14, <1>15 DEF IInv

\* The prompt is given: the attempt is the only one and the first.
LEMMA DeliverKeeps == ASSUME IInv, NEW s \in Schedulers, Deliver(s) PROVE IInv'
<1> USE DEF bus, history, faults
<1>1. TypeOK /\ TypeOK'
  BY DispatchTyped DEF IInv, Dispatch
<1>2. PICK res \in Outcomes :
         /\ prompts' = [prompts EXCEPT ![Job(s)] = IF res = "unsent" THEN @ ELSE @ + 1]
         /\ ps' = [ps EXCEPT ![s].at = "finish", ![s].res = res]
  BY DEF Deliver
<1>3. /\ ps[s].at = "deliver" /\ ps \in [Schedulers -> Process] /\ prompts \in [Messages -> Nat] /\ ProcOK(s)
      /\ UNCHANGED <<mail, nextSeq, lease, bus, snapshot, issued, claims, cancelled>>
  BY <1>1 DEF Deliver, TypeOK, IInv
<1>4. Job(s) \in Messages /\ Engaged(s) /\ Unsent(s) /\ ps[s].todo # <<>> /\ prompts[Job(s)] = 0 /\ Used(Job(s))
  BY <1>1, <1>3, ProcFacts DEF Engaged, Unsent, Busy, ProcOK, Used
<1>5. /\ ps'[s].at = "finish" /\ ps'[s].res = res /\ ps'[s].todo = ps[s].todo /\ ps'[s].cap = ps[s].cap
      /\ \A q \in Schedulers \ {s} : ps'[q] = ps[q]
  BY <1>2, <1>3 DEF Process
<1>6. /\ prompts'[Job(s)] <= 1 /\ (res = "unsent" => prompts'[Job(s)] = 0)
      /\ \A m \in Messages \ {Job(s)} : prompts'[m] = prompts[m]
  BY <1>2, <1>3, <1>4
<1>7. /\ Engaged(s)' /\ Job(s)' = Job(s) /\ (Unsent(s)' => res = "unsent")
      /\ \A q \in Schedulers \ {s} : Engaged(q)' = Engaged(q) /\ Unsent(q)' = Unsent(q) /\ Job(q)' = Job(q)
  BY <1>5 DEF Engaged, Unsent, Job
<1>8. ASSUME NEW m \in Messages PROVE PromptKept(m)
  <2>1. MailOK(m)
    BY DEF IInv
  <2>2. Used(m)' => Used(m)
    BY <1>4, <1>6, <1>7 DEF Used
  <2>3. QED
    BY <1>6, <2>1, <2>2 DEF MailOK, PromptKept
<1>9. ASSUME NEW q \in Schedulers PROVE ProcKept(q)
  <2>1. ProcOK(q)
    BY DEF IInv
  <2>2. CASE q = s
    BY <1>4, <1>5, <1>6, <1>7, <2>1, <2>2 DEF ProcOK, ProcKept
  <2>3. CASE q # s
    <3>1. ASSUME Unsent(q) PROVE Job(q) \in Messages /\ Job(q) # Job(s)
      BY <1>1, <1>3, <1>4, <2>1, <2>3, <3>1, ProcFacts DEF ProcOK, Unsent, Engaged, Busy
    <3>2. QED
      BY <1>5, <1>6, <1>7, <2>1, <2>3, <3>1 DEF ProcOK, ProcKept
  <2>4. QED
    BY <2>2, <2>3
<1>10. \A m \in Messages : RowKept(m) /\ ClaimKept(m) /\ CancelKept(m)
  BY <1>1, <1>3, CalmRows, CalmKept DEF ClaimKept, CancelKept
<1>11. SnapshotOK' /\ \A t \in Threads : actor'[t].gen > 0
  BY <1>3, SnapshotKept DEF IInv, BusOK
<1>12. QED
  BY <1>1, <1>3, <1>8, <1>9, <1>10, <1>11, Kept

\* The attempt ends: what was not sent may be tried again, and nobody else is at it.
LEMMA FinishKeeps == ASSUME IInv, NEW s \in Schedulers, Finish(s) PROVE IInv'
<1> USE DEF bus, history, faults
<1> DEFINE p == [ps[s] EXCEPT !.at = "free", !.res = "unsent", !.stop = (ps[s].res = "uncertain")]
<1>1. TypeOK /\ TypeOK' /\ ProcOK(s)
  BY DispatchTyped DEF IInv, Dispatch
<1>2. ps[s].at = "finish" /\ ps[s].todo # <<>> /\ Job(s) \in Messages
  BY <1>1, ProcFacts DEF Finish, ProcOK, Busy
<1>3. PICK m \in Messages : m = Job(s)
  BY <1>2
<1>4. /\ ps[s].at = "finish" /\ ps \in [Schedulers -> Process] /\ ps[s] \in Process
      /\ mail \in [Messages -> Row] /\ prompts \in [Messages -> Nat]
      /\ mail[m].out = "dispatching" /\ mail' = [mail EXCEPT ![m] = Finished(s, mail[m])]
      /\ UNCHANGED <<nextSeq, lease, bus, snapshot, history>>
  BY <1>1, <1>3 DEF Finish, Mine, TypeOK
<1>5. mail[m] \in Row /\ Engaged(s)
  BY <1>4 DEF Engaged
<1>6. ps' = [ps EXCEPT ![s] = p]
  BY <1>4 DEF Finish
<1>7. ProcCalm(s, p)
  BY <1>1, <1>4, <1>2 DEF ProcCalm, ProcOK, Process, Attempting
<1>8. /\ \A n \in Messages : PromptKept(n)
      /\ \A q \in Schedulers : ProcKept(q)
  BY <1>4, <1>6, <1>7, KeptByTick
<1>9. ~Engaged(s)' /\ \A q \in Schedulers \ {s} : Engaged(q)' = Engaged(q) /\ Job(q)' = Job(q)
  BY <1>4, <1>6 DEF Engaged, Job, Process
<1>10. ASSUME ps[s].res = "unsent" PROVE ~Used(m)'
  <2>1. prompts'[m] = 0
    BY <1>1, <1>4, <1>10, <1>3 DEF ProcOK, Unsent
  <2>2. QED
    BY <1>1, <1>5, <1>9, <1>3, <2>1 DEF Used, ProcOK
<1>11. RowKept(m)
  <2>1. mail'[m] = Finished(s, mail[m])
    BY <1>4, <1>5
  <2>2. ps[s].res \in {"submitted", "uncertain"} \/ ps[s].res = "unsent"
    BY <1>4 DEF Process, Outcomes
  <2>3. /\ mail'[m].seq = mail[m].seq /\ mail'[m].adm = mail[m].adm /\ mail'[m].claim = mail[m].claim
        /\ mail'[m].rcp = mail[m].rcp
        /\ ps[s].res \in {"submitted", "uncertain"} => mail'[m].out \in {"submitted", "uncertain"}
    <3>1. \A x : /\ Over(mail[m], x).seq = mail[m].seq /\ Over(mail[m], x).adm = mail[m].adm
                 /\ Over(mail[m], x).claim = mail[m].claim /\ Over(mail[m], x).rcp = mail[m].rcp
                 /\ Over(mail[m], x).out = x
      BY <1>5 DEF Over, Row
    <3> DEFINE out == IF ps[s].res # "unsent" THEN ps[s].res ELSE IF mail[m].tries >= MaxTries THEN "failed" ELSE "deferred"
    <3>2. mail'[m] = Over(mail[m], out)
      BY <2>1 DEF Finished
    <3>3. ps[s].res \in {"submitted", "uncertain"} => out = ps[s].res
      OBVIOUS
    <3> HIDE DEF out
    <3>4. QED
      BY <3>1, <3>2, <3>3
  <2>4. CASE ps[s].res = "unsent"
    BY <1>4, <1>10, <2>3, <2>4 DEF RowKept, Queued
  <2>5. CASE ps[s].res \in {"submitted", "uncertain"}
    BY <1>4, <2>3, <2>5 DEF RowKept, Queued, Waiting, Sent
  <2>6. QED
    BY <2>2, <2>4, <2>5
<1>12. \A n \in Messages \ {m} : RowKept(n)
  BY <1>1, <1>4, CalmRows, CalmKept
<1>13. \A n \in Messages : ClaimKept(n) /\ CancelKept(n)
  BY <1>4 DEF ClaimKept, CancelKept
<1>14. SnapshotOK' /\ \A t \in Threads : actor'[t].gen > 0
  BY <1>4, SnapshotKept DEF IInv, BusOK
<1>15. QED
  BY <1>1, <1>4, <1>8, <1>11, <1>12, <1>13, <1>14, Kept

LEMMA DispatchKeeps == ASSUME IInv, NEW s \in Schedulers, Dispatch(s) PROVE IInv'
<1> USE DEF bus, history, faults
<1>1. TypeOK /\ TypeOK' /\ ProcOK(s)
  BY DispatchTyped DEF IInv
<1>2. /\ ps \in [Schedulers -> Process] /\ ps[s] \in Process /\ mail \in [Messages -> Row] /\ epoch \in Nat
      /\ ps[s].cap <= epoch /\ (ps[s].at \in Busy => ps[s].todo # <<>>)
  BY <1>1 DEF TypeOK, ProcOK
<1>3. UNCHANGED mail => \A m \in Messages : RowCalm(mail[m], mail'[m])
  BY <1>1, CalmRows
<1>4. UNCHANGED <<snapshot, history>> => SnapshotOK'
  BY SnapshotKept
<1>5. ASSUME NEW at \in Steps, Move(s, at) PROVE ps' = [ps EXCEPT ![s] = [ps[s] EXCEPT !.at = at]]
  BY <1>2, <1>5 DEF Move
<1>6. CASE Start(s)
  <2>1. ProcCalm(s, [Down EXCEPT !.at = "idle", !.cap = epoch])
    BY <1>2 DEF ProcCalm, Down, Busy, Attempting
  <2>2. QED
    BY <1>1, <1>3, <1>4, <1>6, <2>1, CalmTick DEF Start
<1>7. CASE Tick(s)
  <2> DEFINE p == [ps[s] EXCEPT !.at = "recover", !.dgen = Taken(s, Dispatcher).gen, !.stop = FALSE]
  <2>1. ps' = [ps EXCEPT ![s] = p]
    BY <1>2, <1>7 DEF Tick
  <2>2. ProcCalm(s, p)
    BY <1>2 DEF ProcCalm, Process, Busy, Attempting
  <2>3. QED
    BY <1>1, <1>3, <1>4, <1>7, <2>1, <2>2, CalmTick DEF Tick
<1>8. CASE Recover(s)
  <2>1. \A m \in Messages : RowCalm(mail[m], mail'[m])
    BY <1>1, <1>8, CalmRows DEF Recover
  <2>2. /\ ps' = [ps EXCEPT ![s] = [ps[s] EXCEPT !.at = "look"]]
        /\ ProcCalm(s, [ps[s] EXCEPT !.at = "look"])
    BY <1>5, <1>8, CalmMoves DEF Recover, Steps, Attempting, Busy
  <2>3. QED
    BY <1>1, <1>4, <1>8, <2>1, <2>2, CalmTick DEF Recover
<1>9. ASSUME Close(s), UNCHANGED <<mail, nextSeq, bus, snapshot, history>> PROVE IInv'
  BY <1>1, <1>3, <1>4, <1>9, CalmMoves, CalmTick DEF Close
<1>10. ASSUME NextJob(s), UNCHANGED <<nextSeq, bus, snapshot, history>>, \A m \in Messages : RowCalm(mail[m], mail'[m]) PROVE IInv'
  BY <1>1, <1>4, <1>10, CalmMoves, CalmTick DEF NextJob
<1>11. CASE LookPaused(s)
  <2>1. CASE Move(s, "scan")
    <3>1. /\ ps' = [ps EXCEPT ![s] = [ps[s] EXCEPT !.at = "scan"]]
          /\ ProcCalm(s, [ps[s] EXCEPT !.at = "scan"])
      BY <1>5, <2>1, CalmMoves DEF Steps, Attempting, Busy
    <3>2. QED
      BY <1>1, <1>3, <1>4, <1>11, <3>1, CalmTick DEF LookPaused
  <2>2. QED
    BY <1>9, <1>11, <2>1 DEF LookPaused
<1>12. CASE Scan(s)
  <2>1. PICK due \in SUBSET Messages :
          /\ mail' = [m \in Messages |-> IF m \in due THEN Expired(m) ELSE mail[m]]
          /\ \E jobs : ps' = [ps EXCEPT ![s].at = "job", ![s].todo = jobs]
    BY <1>12 DEF Scan
  <2>2. PICK jobs : ps' = [ps EXCEPT ![s].at = "job", ![s].todo = jobs]
    BY <2>1
  <2>3. ps' = [ps EXCEPT ![s] = [ps[s] EXCEPT !.at = "job", !.todo = jobs]]
    BY <1>2, <2>2
  <2>4. ProcCalm(s, [ps[s] EXCEPT !.at = "job", !.todo = jobs])
    BY <1>2 DEF ProcCalm, Process, Busy, Attempting
  <2>5. \A m \in Messages : RowCalm(mail[m], mail'[m])
    BY <1>1, <2>1, CalmRows
  <2>6. QED
    BY <1>1, <1>4, <1>12, <2>3, <2>4, <2>5, CalmTick DEF Scan
<1>13. CASE TakeJob(s) \/ Renew(s)
  <2>1. PICK at \in {"defer", "again", "lease"} : ps' = [ps EXCEPT ![s].at = at, ![s].dgen = Taken(s, Dispatcher).gen]
    BY <1>13 DEF TakeJob, Renew
  <2>2. ps' = [ps EXCEPT ![s] = [ps[s] EXCEPT !.at = at, !.dgen = Taken(s, Dispatcher).gen]]
    BY <1>2, <2>1
  <2>3. ps[s].todo # <<>>
    BY <1>2, <1>13 DEF TakeJob, Renew, Busy
  <2>4. ProcCalm(s, [ps[s] EXCEPT !.at = at, !.dgen = Taken(s, Dispatcher).gen])
    BY <1>2, <2>1, <2>3 DEF ProcCalm, Process, Attempting
  <2>5. QED
    BY <1>1, <1>3, <1>4, <1>13, <2>2, <2>4, CalmTick DEF TakeJob, Renew
<1>14. CASE NoMoreJobs(s)
  BY <1>9, <1>14 DEF NoMoreJobs
<1>15. CASE Defer(s)
  <2>1. Job(s) \in Messages /\ mail[Job(s)].out \in Waiting
    BY <1>1, <1>15, ProcFacts DEF Defer
  <2>2. \A m \in Messages : RowCalm(mail[m], mail'[m])
    BY <1>1, <1>2, <1>15, <2>1, CalmRows DEF Defer
  <2>3. QED
    BY <1>10, <1>15, <2>2 DEF Defer
<1>16. CASE LeaseRecipient(s)
  <2> DEFINE p == [ps[s] EXCEPT !.at = "claim", !.rgen = Taken(s, To[Job(s)]).gen]
  <2>1. ps' = [ps EXCEPT ![s] = p]
    BY <1>2, <1>16 DEF LeaseRecipient
  <2>2. ProcCalm(s, p)
    BY <1>2, <1>16 DEF LeaseRecipient, ProcCalm, Process, Busy, Attempting
  <2>3. QED
    BY <1>1, <1>3, <1>4, <1>16, <2>1, <2>2, CalmTick DEF LeaseRecipient
<1>17. CASE RecipientBusy(s)
  BY <1>3, <1>10, <1>17 DEF RecipientBusy
<1>18. CASE Context(s)
  <2>1. ps' = [ps EXCEPT ![s] = [ps[s] EXCEPT !.at = "deliver"]]
    BY <1>5, <1>18 DEF Context, Steps
  <2>2. ProcCalm(s, [ps[s] EXCEPT !.at = "deliver"])
    BY <1>2, <1>18 DEF Context, ProcCalm, Process, Busy, Attempting, Unsent
  <2>3. QED
    BY <1>1, <1>3, <1>4, <1>18, <2>1, <2>2, CalmTick DEF Context
<1>19. CASE Free(s)
  BY <1>3, <1>9, <1>10, <1>19 DEF Free
<1>20. CASE Raise(s)
  <2>1. CASE Close(s)
    BY <1>9, <1>20, <2>1 DEF Raise
  <2>2. CASE ps[s].at = "claim" /\ Move(s, "free")
    <3>1. /\ ps' = [ps EXCEPT ![s] = [ps[s] EXCEPT !.at = "free"]]
          /\ ProcCalm(s, [ps[s] EXCEPT !.at = "free"])
      BY <1>5, <2>2, CalmMoves DEF Steps, Attempting, Busy
    <3>2. QED
      BY <1>1, <1>3, <1>4, <1>20, <3>1, CalmTick DEF Raise
  <2>3. CASE ps[s].at = "context" /\ ps' = [ps EXCEPT ![s].at = "finish", ![s].res = "unsent"]
    <3> DEFINE p == [ps[s] EXCEPT !.at = "finish", !.res = "unsent"]
    <3>1. ps' = [ps EXCEPT ![s] = p]
      BY <1>2, <2>3
    <3>2. ProcCalm(s, p)
      BY <1>2, <2>3 DEF ProcCalm, Process, Busy, Attempting, Unsent
    <3>3. QED
      BY <1>1, <1>3, <1>4, <1>20, <3>1, <3>2, CalmTick DEF Raise
  <2>4. CASE ps[s].at \in {"deliver", "finish"} /\ ps' = [ps EXCEPT ![s].at = "free", ![s].res = "unsent", ![s].stop = TRUE]
    <3> DEFINE p == [ps[s] EXCEPT !.at = "free", !.res = "unsent", !.stop = TRUE]
    <3>1. ps' = [ps EXCEPT ![s] = p]
      BY <1>2, <2>4
    <3>2. ProcCalm(s, p)
      BY <1>2, <2>4 DEF ProcCalm, Process, Busy, Attempting
    <3>3. QED
      BY <1>1, <1>3, <1>4, <1>20, <3>1, <3>2, CalmTick DEF Raise
  <2>5. QED
    BY <1>20, <2>1, <2>2, <2>3, <2>4 DEF Raise
<1>21. CASE End(s)
  <2>1. ProcCalm(s, [Down EXCEPT !.at = "idle", !.cap = ps[s].cap])
    BY <1>2 DEF ProcCalm, Down, Busy, Attempting
  <2>2. QED
    BY <1>1, <1>3, <1>4, <1>21, <2>1, CalmTick DEF End
<1>22. CASE Crash(s)
  <2>1. ProcCalm(s, Down)
    BY <1>2 DEF ProcCalm, Down, Busy, Attempting
  <2>2. \A m \in Messages : RowCalm(mail[m], mail'[m])
    BY <1>1, <1>22, CalmRows DEF Crash
  <2>3. SnapshotOK'
    <3>1. CASE snapshot = Nobody
      BY <1>22, <3>1 DEF Crash, SnapshotOK
    <3>2. CASE snapshot # Nobody
      <4>1. snapshot \in Snapshot /\ SnapshotOK
        BY <1>1, <3>2 DEF TypeOK, IInv
      <4>2. snapshot'.nextSeq = snapshot.nextSeq /\ \A m \in Messages : snapshot'.mail[m].seq = snapshot.mail[m].seq
        BY <1>22, <3>2, <4>1 DEF Crash, Snapshot, Row
      <4>3. QED
        BY <1>22, <3>2, <4>1, <4>2 DEF Crash, SnapshotOK
    <3>3. QED
      BY <3>1, <3>2
  <2>4. QED
    BY <1>1, <1>22, <2>1, <2>2, <2>3, CalmTick DEF Crash
<1>23. QED
  BY <1>6, <1>7, <1>8, <1>11, <1>12, <1>13, <1>14, <1>15, <1>16, <1>17, <1>18, <1>19, <1>20, <1>21, <1>22,
     ClaimKeeps, DeliverKeeps, FinishKeeps DEF Dispatch

-----------------------------------------------------------------------------
(* Theorems.                                                                *)

LEMMA IInvInit == Init => IInv
<1>1. ASSUME Init PROVE IInv
  <2>1. TypeOK
    BY <1>1, TypeInit
  <2>2. ASSUME NEW s \in Schedulers PROVE ProcOK(s) /\ ~Engaged(s)
    BY <1>1 DEF Init, ProcOK, Engaged, Unsent, Down, Busy
  <2>3. ASSUME NEW m \in Messages PROVE MailOK(m)
    BY <1>1, <2>2 DEF Init, MailOK, Present, Used, NoRow
  <2>4. BusOK /\ SnapshotOK
    BY <1>1 DEF Init, BusOK, SnapshotOK
  <2>5. QED
    BY <2>1, <2>2, <2>3, <2>4 DEF IInv
<1>2. QED
  BY <1>1

LEMMA IInvNext == IInv /\ [Next]_vars => IInv'
<1>1. ASSUME IInv, Next PROVE IInv'
  BY <1>1, ParticipantKeeps, DispatchKeeps, OperatorKeeps, ClockKeeps DEF Next
<1>2. ASSUME IInv, UNCHANGED vars PROVE IInv'
  <2> USE DEF vars, bus, faults, history
  <2>1. TypeOK' /\ BusOK' /\ SnapshotOK'
    BY <1>2 DEF IInv, TypeOK, BusOK, SnapshotOK, Present, Legacy
  <2>2. \A m \in Messages : MailOK(m)'
    BY <1>2 DEF IInv, MailOK, Present, Legacy, Current, Quiet, Used, Engaged, Job
  <2>3. \A s \in Schedulers : ProcOK(s)'
    BY <1>2 DEF IInv, ProcOK, Engaged, Unsent, Job, Queue, Present
  <2>4. QED
    BY <2>1, <2>2, <2>3 DEF IInv
<1>3. QED
  BY <1>1, <1>2

\* The mailbox keeps its inductive invariant: an attempt in somebody's hands
\* is the only one on its message and was the first of its recipient's queue,
\* a message somebody was prompted for never waits again, and what a snapshot
\* brings back is fenced before anybody acts on it.
THEOREM MailInvariant == Spec => []IInv
  BY IInvInit, IInvNext, PTL DEF Spec

\* The rows, leases and dispatchers of the mailbox stay well typed.
THEOREM MailTypes == Spec => []TypeOK
<1>1. IInv => TypeOK
  BY DEF IInv
<1>2. QED
  BY <1>1, MailInvariant, PTL

\* No recipient is prompted twice for one message, for any number of
\* dispatchers, crashes, snapshots and recoveries.
THEOREM MailNotifiedOnce == Spec => []NotifiedOnce
<1>1. IInv => NotifiedOnce
  BY DEF IInv, MailOK, NotifiedOnce
<1>2. QED
  BY <1>1, MailInvariant, PTL

\* Nobody is prompted for, or gets a work claim on, a message whose
\* cancellation was answered.
THEOREM MailCancelMeansUnsent == Spec => []CancelMeansUnsent
<1>1. ASSUME IInv PROVE CancelMeansUnsent
  <2>1. ASSUME NEW m \in cancelled PROVE prompts[m] = 0 /\ claims[m] = 0
    <3>1. m \in Messages /\ prompts[m] \in Nat
      BY <1>1 DEF IInv, TypeOK
    <3>2. MailOK(m)
      BY <1>1, <3>1 DEF IInv
    <3>3. ~Used(m) /\ claims[m] = 0
      BY <3>2 DEF MailOK
    <3>4. QED
      BY <3>1, <3>3 DEF Used
  <2>2. QED
    BY <2>1 DEF CancelMeansUnsent
<1>2. IInv => CancelMeansUnsent
  BY <1>1
<1>3. QED
  BY <1>2, MailInvariant, PTL

\* The first work claim on a message is granted at most once.
THEOREM MailClaimOnce == Spec => []ClaimOnce
<1>1. IInv => ClaimOnce
  BY DEF IInv, MailOK, ClaimOnce
<1>2. QED
  BY <1>1, MailInvariant, PTL

\* A dispatcher with the current secret prompts a recipient for its first
\* open notification only.
THEOREM MailInOrder == Spec => InOrder
<1> DEFINE Ordered(s) == ps[s].at = "deliver" /\ ps[s].cap = epoch =>
                           \A n \in Queue(To[Job(s)]) : mail[n].seq >= mail[Job(s)].seq
<1>1. IInv => \A s \in Schedulers : Ordered(s)
  BY DEF IInv, ProcOK, Engaged
<1>2. IInv /\ [Next]_vars =>
        [\A s \in Schedulers :
           ps[s].at = "deliver" /\ ps'[s].at = "finish" /\ ps[s].cap = epoch =>
             \A n \in Queue(To[Job(s)]) : mail[n].seq >= mail[Job(s)].seq]_vars
  BY <1>1
<1>3. QED
  BY <1>2, MailInvariant, PTL DEF Spec, InOrder
=============================================================================
