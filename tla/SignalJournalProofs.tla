------------------------- MODULE SignalJournalProofs -------------------------
(***************************************************************************)
(* Proofs about the signal journal, for every set of wakes, registrars,    *)
(* pollers and operators and every value of the other constants.           *)
(***************************************************************************)
EXTENDS SignalJournal, FiniteSetTheorems, TLAPS

\* The steps of a poller inside a wake's lifecycle lock, and among them those
\* that rely on the firing copy.
Locked == {"matched", "written", "projected", "place", "unplace", "routed", "counted", "pasted"}
Fires == {"written", "projected", "routed", "counted", "pasted"}

HasFile(w) == \E d \in Dirs : file[w][d] # Nobody

Ended(w) == \E d \in Terminal : file[w][d] # Nobody

\* What each step of a process relies on, in the directories and the locks.
PollOK(m) ==
  /\ poll[m].at \in Locked \cup {"retired"} => poll[m].wake \in Wakes
  /\ poll[m].at \in Locked => lock[poll[m].wake] = m
  /\ poll[m].at \in Fires => file[poll[m].wake]["firing"] # Nobody
  /\ poll[m].at \in {"place", "unplace"} => poll[m].from \in {"pending", "firing"} /\ poll[m].dest # poll[m].from
  /\ poll[m].at = "unplace" => file[poll[m].wake][poll[m].dest] # Nobody \/ Ended(poll[m].wake)
  /\ poll[m].at = "retired" => Ended(poll[m].wake)
  /\ \A e \in poll[m].ends : file[e[1]][e[2]] # Nobody
  /\ poll[m].at = "ingest" => \A o \in poll[m].batch : o <= poll[m].now

PubOK(p) == pub[p].at # "idle" => pub[p].wake \in Wakes /\ (pub[p].at = "written" => HasFile(pub[p].wake))

CancelOK(x) ==
  cancel[x].at # "idle" =>
    /\ cancel[x].wake \in Wakes /\ lock[cancel[x].wake] = x
    /\ file[cancel[x].wake]["cancelled"] # Nobody
    /\ cancel[x].from \in {"pending", "firing"}

\* While a call still has its lease, the checkpoint is where it was when the
\* lease was taken.
RegOK(c) ==
  /\ reg[c].at # "idle" => reg[c].wake \in Wakes
  /\ reg[c].at = "leased" => /\ reg[c].token # 0 /\ reg[c].token <= generation
                             /\ lease.owner = reg[c].token => checkpoint <= reg[c].seen

WakeOK(w) ==
  /\ arm[w] \in {"published", "tombstoned"} => HasFile(w)
  /\ arm[w] = "tombstoned" => desired[w] \in Terminal
  /\ scanned[w] < nextSeq
  /\ arm[w] \in Active => anchor[w].seq <= scanned[w]
  /\ arm[w] \in Active /\ reserved[w] = 0 =>
       \A o \in ingested : Class[o] = "match" /\ o > anchor[w].pos /\ o > seen[w] => receipt[o] > scanned[w]

SourceOK ==
  /\ \A o \in ingested : o <= checkpoint
  /\ \A o \in Occurrences : receipt[o] < nextSeq

ProcsOK ==
  /\ \A m \in Pollers : PollOK(m)
  /\ \A p \in Registrars \cup Pollers : PubOK(p)
  /\ \A x \in Operators : CancelOK(x)

JournalOK == SourceOK /\ (\A c \in Registrars : RegOK(c)) /\ (\A w \in Wakes : WakeOK(w))

IInv == TypeOK /\ ProcsOK /\ JournalOK

\* What a step of process q may do to the directories and the locks without
\* disturbing another process.
Undisturbed(q) ==
  \A v \in Wakes :
    /\ \A d \in Terminal : file[v][d] # Nobody => file'[v][d] # Nobody
    /\ HasFile(v) => HasFile(v)'
    /\ \A n \in Processes : n # q /\ lock[v] = n =>
         /\ lock'[v] = n
         /\ file[v]["firing"] # Nobody => file'[v]["firing"] # Nobody
         /\ file[v]["pending"] # Nobody => file'[v]["pending"] # Nobody \/ Ended(v)'

-----------------------------------------------------------------------------
(* Typing of the small operators.                                          *)

LEMMA Constants ==
  /\ Nobody \notin Copy /\ Nobody \notin Wakes /\ Nobody \notin Processes
  /\ Payload \in Copy
  /\ NoCall \in CallRec /\ NoPub \in PubRec /\ NoPoll \in PollRec /\ NoCancel \in CancelRec
  BY JournalAssumption, Zenon DEF Copy, Payload, NoCall, CallRec, NoPub, PubRec, NoPoll, PollRec, PollSteps,
     NoCancel, CancelRec, Dirs, Terminal

LEMMA Copies ==
  /\ \A a, d \in Nat : Changed(a, d) \in Copy /\ Changed(a, d) # Nobody
  /\ \A k \in Copy : Touched(k) \in Copy /\ Touched(k) # Nobody
  /\ Payload # Nobody
  <1>1. \A a, d \in Nat : Changed(a, d) \in Copy
    BY Zenon DEF Changed, Copy
  <1>2. \A k \in Copy : Touched(k) \in Copy
    BY DEF Touched, Copy
  <1> QED BY <1>1, <1>2, Constants

LEMMA PollType ==
  ASSUME TypeOK, NEW m \in Pollers, NEW r \in PollRec, Goes(m, r)
  PROVE  /\ poll' \in [Pollers -> PollRec]
         /\ poll'[m] = r
         /\ \A n \in Pollers : n # m => poll'[n] = poll[n]
  BY DEF TypeOK, Goes

LEMMA FileType ==
  ASSUME TypeOK, NEW w \in Wakes, NEW d \in Dirs, NEW k \in Copy \cup {Nobody},
         file' = [file EXCEPT ![w][d] = k]
  PROVE  /\ file' \in [Wakes -> [Dirs -> Copy \cup {Nobody}]]
         /\ file'[w][d] = k
         /\ \A v \in Wakes, e \in Dirs : v # w \/ e # d => file'[v][e] = file[v][e]
  BY DEF TypeOK

LEMMA LockType ==
  ASSUME TypeOK, NEW w \in Wakes, NEW q \in Processes \cup {Nobody}, lock' = [lock EXCEPT ![w] = q]
  PROVE  /\ lock' \in [Wakes -> Processes \cup {Nobody}]
         /\ lock'[w] = q
         /\ \A v \in Wakes : v # w => lock'[v] = lock[v]
  BY DEF TypeOK

-----------------------------------------------------------------------------
(* Steps that leave others alone.                                          *)

LEMMA Dirs6 == Terminal \subseteq Dirs /\ "pending" \in Dirs /\ "firing" \in Dirs /\ "cancelled" \in Terminal
               /\ "pending" \notin Terminal /\ "firing" \notin Terminal
  BY DEF Dirs, Terminal

LEMMA OtherPoller ==
  ASSUME IInv, NEW q, Undisturbed(q), NEW n \in Pollers, n # q, poll'[n] = poll[n]
  PROVE  PollOK(n)'
  <1>1. n \in Processes /\ PollOK(n) /\ poll[n] \in PollRec
    BY DEF IInv, ProcsOK, TypeOK, Processes
  <1>2. poll[n].dest \in Dirs /\ poll[n].ends \subseteq Wakes \X Terminal
    BY <1>1 DEF PollRec
  <1>3. \A v \in Wakes : Ended(v) => \E d \in Terminal : file'[v][d] # Nobody
    BY DEF Undisturbed, Ended
  <1>4. poll'[n].at \in Locked \cup {"retired"} => poll'[n].wake \in Wakes
    BY <1>1 DEF PollOK
  <1>5. poll'[n].at \in Locked => lock'[poll'[n].wake] = n
    BY <1>1 DEF PollOK, Undisturbed
  <1>6. poll'[n].at \in Fires => file'[poll'[n].wake]["firing"] # Nobody
    BY <1>1 DEF PollOK, Undisturbed, Locked, Fires
  <1>7. poll'[n].at = "unplace" => file'[poll'[n].wake][poll'[n].dest] # Nobody \/ Ended(poll[n].wake)'
    <2> HAVE poll'[n].at = "unplace"
    <2>1. poll[n].wake \in Wakes /\ lock[poll[n].wake] = n
      BY <1>1 DEF PollOK, Locked
    <2>2. CASE Ended(poll[n].wake)
      BY <2>1, <2>2, <1>3 DEF Ended
    <2>3. CASE file[poll[n].wake][poll[n].dest] # Nobody
      <3> DEFINE w == poll[n].wake
      <3>1. Ended(w)' <=> Ended(poll[n].wake)' OBVIOUS
      <3>2. file'[w][poll[n].dest] # Nobody \/ \E d \in Terminal : file'[w][d] # Nobody
        BY <2>1, <2>3, <1>1, <1>2 DEF Undisturbed, Dirs, Ended
      <3> QED BY <3>2 DEF Ended
    <2> QED BY <1>1, <2>2, <2>3 DEF PollOK
  <1>8. poll'[n].at = "retired" => Ended(poll[n].wake)'
    BY <1>1, <1>3 DEF PollOK, Ended
  <1>9. \A e \in poll'[n].ends : file'[e[1]][e[2]] # Nobody
    BY <1>1, <1>2 DEF PollOK, Undisturbed
  <1> QED BY <1>1, <1>4, <1>5, <1>6, <1>7, <1>8, <1>9 DEF PollOK

LEMMA OtherPub ==
  ASSUME IInv, NEW q, Undisturbed(q), NEW p \in Registrars \cup Pollers, pub'[p] = pub[p]
  PROVE  PubOK(p)'
  BY DEF IInv, ProcsOK, PubOK, Undisturbed

LEMMA OtherCancel ==
  ASSUME IInv, NEW q, Undisturbed(q), NEW x \in Operators, x # q, cancel'[x] = cancel[x]
  PROVE  CancelOK(x)'
  BY Dirs6 DEF IInv, ProcsOK, CancelOK, Undisturbed, Processes

LEMMA SameJournal ==
  ASSUME IInv, NEW q, Undisturbed(q), UNCHANGED <<arms, source, leases, reg>>
  PROVE  JournalOK'
  <1>1. SourceOK'
    BY DEF IInv, JournalOK, SourceOK, source
  <1>2. ASSUME NEW c \in Registrars PROVE RegOK(c)'
    BY DEF IInv, JournalOK, RegOK, source, leases
  <1>3. ASSUME NEW w \in Wakes PROVE WakeOK(w)'
    BY DEF IInv, JournalOK, WakeOK, source, arms, Undisturbed
  <1> QED BY <1>1, <1>2, <1>3 DEF JournalOK

LEMMA SameTypes ==
  ASSUME TypeOK, UNCHANGED <<arms, source, leases, world>>
  PROVE  ArmsType' /\ SourceType' /\ LeaseType' /\ WorldType'
  BY DEF TypeOK, ArmsType, SourceType, LeaseType, WorldType, arms, source, leases, world

\* A step of process q, put together from its parts.
LEMMA Assemble ==
  ASSUME IInv, NEW q, Undisturbed(q), TypeOK', JournalOK',
         \A n \in Pollers : (n # q /\ poll'[n] = poll[n]) \/ PollOK(n)',
         \A p \in Registrars \cup Pollers : pub'[p] = pub[p] \/ PubOK(p)',
         \A x \in Operators : (x # q /\ cancel'[x] = cancel[x]) \/ CancelOK(x)'
  PROVE  IInv'
  <1>1. \A n \in Pollers : PollOK(n)' BY OtherPoller
  <1>2. \A p \in Registrars \cup Pollers : PubOK(p)' BY OtherPub
  <1>3. \A x \in Operators : CancelOK(x)' BY OtherCancel
  <1> QED BY <1>1, <1>2, <1>3 DEF IInv, ProcsOK

LEMMA Disjoint ==
  ASSUME NEW m \in Pollers
  PROVE  m \in Processes /\ \A x \in Operators : x # m
  BY JournalAssumption DEF Processes

\* A step of a poller that leaves the other processes alone.
LEMMA PollerStep ==
  ASSUME IInv, NEW m \in Pollers, NEW r \in PollRec, Goes(m, r), UNCHANGED <<reg, pub, cancel>>,
         ArmsType', SourceType', LeaseType', WorldType', JournalOK',
         file' \in [Wakes -> [Dirs -> Copy \cup {Nobody}]], lock' \in [Wakes -> Processes \cup {Nobody}],
         Undisturbed(m), PollOK(m)'
  PROVE  IInv'
  <1>1. /\ poll' \in [Pollers -> PollRec]
        /\ \A n \in Pollers : n # m => poll'[n] = poll[n]
    BY PollType DEF IInv
  <1>2. TypeOK'
    BY <1>1 DEF IInv, TypeOK
  <1> QED BY <1>1, <1>2, Disjoint, Assemble

\* The same for a step that leaves the journal alone too.
LEMMA QuietStep ==
  ASSUME IInv, NEW m \in Pollers, NEW r \in PollRec, Goes(m, r),
         UNCHANGED <<arms, source, leases, reg, pub, cancel>>, WorldType',
         file' \in [Wakes -> [Dirs -> Copy \cup {Nobody}]], lock' \in [Wakes -> Processes \cup {Nobody}],
         Undisturbed(m), PollOK(m)'
  PROVE  IInv'
  <1>1. JournalOK' BY Disjoint, SameJournal
  <1>2. ArmsType' /\ SourceType' /\ LeaseType'
    BY DEF IInv, TypeOK, ArmsType, SourceType, LeaseType, arms, source, leases
  <1> QED BY <1>1, <1>2, PollerStep

LEMMA NoFileStep ==
  ASSUME NEW q, UNCHANGED <<file, lock>>
  PROVE  Undisturbed(q)
  BY DEF Undisturbed, HasFile, Ended

\* A step of a poller that changes its own state only.
LEMMA StillStep ==
  ASSUME IInv, NEW m \in Pollers, NEW r \in PollRec, Goes(m, r),
         UNCHANGED <<arms, source, leases, file, lock, reg, pub, cancel, world>>, PollOK(m)'
  PROVE  IInv'
  <1>1. Undisturbed(m) BY NoFileStep
  <1>2. WorldType' BY DEF IInv, TypeOK, WorldType, world
  <1>3. /\ file' \in [Wakes -> [Dirs -> Copy \cup {Nobody}]]
        /\ lock' \in [Wakes -> Processes \cup {Nobody}]
    BY DEF IInv, TypeOK
  <1> QED BY <1>1, <1>2, <1>3, QuietStep

LEMMA LockStep ==
  ASSUME TypeOK, NEW q \in Processes, NEW w \in Wakes, NEW h \in {q, Nobody}, lock[w] \in {q, Nobody},
         lock' = [lock EXCEPT ![w] = h], UNCHANGED file
  PROVE  Undisturbed(q) /\ lock' \in [Wakes -> Processes \cup {Nobody}] /\ lock'[w] = h
  <1>1. /\ lock' \in [Wakes -> Processes \cup {Nobody}] /\ lock'[w] = h
        /\ \A v \in Wakes : v # w => lock'[v] = lock[v]
    BY LockType
  <1>2. Undisturbed(q)
    BY <1>1, Constants DEF Undisturbed, HasFile, Ended
  <1> QED BY <1>1, <1>2

\* A copy is written, by the holder of the wake's lock or without it.
LEMMA PutStep ==
  ASSUME TypeOK, NEW q, NEW w \in Wakes, NEW d \in Dirs, NEW k \in Copy, Put(w, d, k),
         \A v \in Wakes, n \in Processes : n # q /\ lock[v] = n => lock'[v] = n
  PROVE  /\ Undisturbed(q)
         /\ file' \in [Wakes -> [Dirs -> Copy \cup {Nobody}]]
         /\ file'[w][d] # Nobody
         /\ \A v \in Wakes, e \in Dirs : file[v][e] # Nobody => file'[v][e] # Nobody
  <1>1. /\ file' \in [Wakes -> [Dirs -> Copy \cup {Nobody}]]
        /\ file'[w][d] = k
        /\ \A v \in Wakes, e \in Dirs : v # w \/ e # d => file'[v][e] = file[v][e]
    BY FileType DEF Put
  <1>2. k # Nobody BY Constants
  <1>3. \A v \in Wakes, e \in Dirs : file[v][e] # Nobody => file'[v][e] # Nobody
    BY <1>1, <1>2
  <1>4. \A v \in Wakes : HasFile(v) => HasFile(v)'
    BY <1>3 DEF HasFile
  <1>5. Undisturbed(q)
    BY <1>3, <1>4, Dirs6 DEF Undisturbed
  <1> QED BY <1>1, <1>2, <1>3, <1>5

\* A pending copy is unlinked when the wake has a terminal record, or a
\* pending or firing one by the holder of its lock when it has another copy.
LEMMA UnlinkStep ==
  ASSUME TypeOK, NEW q \in Processes, NEW w \in Wakes, NEW d \in {"pending", "firing"}, Unlink(w, d),
         \E e \in Dirs : e # d /\ file[w][e] # Nobody,
         (d = "pending" /\ Ended(w)) \/ lock[w] = q,
         \A v \in Wakes, n \in Processes : n # q /\ lock[v] = n => lock'[v] = n
  PROVE  /\ Undisturbed(q)
         /\ file' \in [Wakes -> [Dirs -> Copy \cup {Nobody}]]
         /\ \A v \in Wakes, e \in Dirs : v # w \/ e # d => file'[v][e] = file[v][e]
  <1>1. d \in Dirs /\ d \notin Terminal BY Dirs6
  <1>2. /\ file' \in [Wakes -> [Dirs -> Copy \cup {Nobody}]]
        /\ \A v \in Wakes, e \in Dirs : v # w \/ e # d => file'[v][e] = file[v][e]
    BY <1>1 DEF TypeOK, Unlink
  <1>3. \A v \in Wakes : \A e \in Terminal : file'[v][e] = file[v][e]
    BY <1>1, <1>2, Dirs6
  <1>4. \A v \in Wakes : HasFile(v) => HasFile(v)'
    BY <1>2 DEF HasFile
  <1>5. \A v \in Wakes : Ended(v) => Ended(v)'
    BY <1>3 DEF Ended
  <1>6. ASSUME NEW v \in Wakes, NEW n \in Processes, n # q, lock[v] = n
        PROVE  /\ file[v]["firing"] # Nobody => file'[v]["firing"] # Nobody
               /\ file[v]["pending"] # Nobody => file'[v]["pending"] # Nobody \/ Ended(v)'
    BY <1>2, <1>5, <1>6, Dirs6
  <1>7. Undisturbed(q)
    BY <1>3, <1>4, <1>6 DEF Undisturbed
  <1> QED BY <1>2, <1>7

-----------------------------------------------------------------------------
(* The steps of a poller that change its own state only.                   *)

LEMMA PollStartStep ==
  ASSUME IInv, NEW m \in Pollers, PollStart(m)
  PROVE  IInv'
  <1>1. PICK cut \in {anchor[w].pos : w \in {v \in Wakes : Earliest(v)}} \cup (IF Polled = {} THEN {0} ELSE {}) :
          Goes(m, [NoPoll EXCEPT !.at = "publish", !.todo = {w \in Wakes : arm[w] \in Active},
                                 !.reads = (Polled # {}), !.cutoff = cut, !.now = emitted, !.late = late])
    BY DEF PollStart
  <1> DEFINE r == [NoPoll EXCEPT !.at = "publish", !.todo = {w \in Wakes : arm[w] \in Active},
                                 !.reads = (Polled # {}), !.cutoff = cut, !.now = emitted, !.late = late]
  <1>2. cut \in Nat /\ emitted \in Nat /\ late \in BOOLEAN /\ (Polled # {}) \in BOOLEAN
    BY DEF IInv, TypeOK, ArmsType, WorldType
  <1>3. "publish" \in PollSteps /\ {w \in Wakes : arm[w] \in Active} \in SUBSET Wakes
    BY DEF PollSteps
  <1>4. r \in PollRec
    BY <1>2, <1>3, Constants DEF PollRec
  <1>5. r.at = "publish" /\ r.ends = {}
    BY DEF NoPoll
  <1> HIDE DEF r
  <1>6. PollOK(m)'
    BY <1>1, <1>4, <1>5, PollType DEF IInv, PollOK, Locked, Fires, r
  <1> QED BY <1>1, <1>4, <1>6, StillStep DEF PollStart, r

LEMMA SweepingStep ==
  ASSUME IInv, NEW m \in Pollers, Sweeping(m)
  PROVE  /\ PollOK(m)'  \/ file' # file
         /\ \E r \in PollRec : Goes(m, r)
  <1> DEFINE ends == {e \in Wakes \X Terminal : file[e[1]][e[2]] # Nobody}
             r == [NoPoll EXCEPT !.at = "sweep", !.late = poll[m].late, !.ends = ends, !.skip = {e[1] : e \in ends}]
  <1>1. Goes(m, r) BY DEF Sweeping
  <1>2. poll[m].late \in BOOLEAN /\ "sweep" \in PollSteps
    BY DEF IInv, TypeOK, PollRec, PollSteps
  <1>3. ends \in SUBSET (Wakes \X Terminal) /\ {e[1] : e \in ends} \in SUBSET Wakes
    OBVIOUS
  <1>4. r \in PollRec
    BY <1>2, <1>3, Constants DEF PollRec
  <1>5. r.at = "sweep" /\ r.ends = ends
    BY DEF NoPoll
  <1> HIDE DEF r
  <1>6. PollOK(m)' \/ file' # file
    BY <1>1, <1>4, <1>5, PollType DEF IInv, PollOK, Locked, Fires
  <1> QED BY <1>1, <1>4, <1>6

LEMMA PollFields ==
  ASSUME IInv, NEW m \in Pollers
  PROVE  /\ poll[m] \in PollRec
         /\ poll[m].at \in PollSteps /\ poll[m].todo \in SUBSET Wakes
         /\ poll[m].ends \in SUBSET (Wakes \X Terminal) /\ poll[m].skip \in SUBSET Wakes
         /\ poll[m].late \in BOOLEAN /\ poll[m].now \in Nat /\ poll[m].cutoff \in Nat
         /\ poll[m].batch \in SUBSET Occurrences
         /\ poll[m].from \in Dirs /\ poll[m].dest \in Dirs /\ poll[m].copy \in Copy
         /\ PollOK(m)
  <1>1. poll[m] \in PollRec /\ PollOK(m)
    BY DEF IInv, TypeOK, ProcsOK
  <1> QED BY <1>1 DEF PollRec

\* A step to a place where a poller relies on nothing but its listing.
LEMMA IdleStep ==
  ASSUME IInv, NEW m \in Pollers, NEW r \in PollRec, Goes(m, r),
         UNCHANGED <<arms, source, leases, file, lock, reg, pub, cancel, world>>,
         r.at \notin Locked \cup {"retired", "ingest"}, r.ends \subseteq poll[m].ends
  PROVE  IInv'
  <1>1. poll'[m] = r BY PollType DEF IInv
  <1>2. PollOK(m)'
    BY <1>1, PollFields DEF PollOK, Locked, Fires
  <1> QED BY <1>2, StillStep

LEMMA DropStep ==
  ASSUME IInv, NEW m \in Pollers, NEW w \in Wakes, poll[m].at \in {"pending", "dispatch"}, Drop(m, w)
  PROVE  /\ \E r \in PollRec : Goes(m, r) /\ r.at = poll[m].at /\ r.ends = poll[m].ends
         /\ UNCHANGED lock
  <1> DEFINE r == [poll[m] EXCEPT !.todo = @ \ {w}, !.wake = Nobody]
  <1>1. poll[m].todo \ {w} \in SUBSET Wakes BY PollFields
  <1>2. r \in PollRec BY <1>1, PollFields DEF PollRec
  <1>3. r.at = poll[m].at /\ r.ends = poll[m].ends BY PollFields DEF PollRec
  <1> QED BY <1>2, <1>3 DEF Drop

LEMMA PollPublishedStep ==
  ASSUME IInv, NEW m \in Pollers, PollPublished(m)
  PROVE  IInv'
  <1>1. CASE poll[m].reads
    <2> DEFINE r == [poll[m] EXCEPT !.at = "observe"]
    <2>1. r \in PollRec /\ r.at = "observe" /\ r.ends = poll[m].ends
      BY PollFields DEF PollRec, PollSteps
    <2> QED BY <1>1, <2>1, IdleStep DEF PollPublished, Locked
  <1>2. CASE ~poll[m].reads
    BY <1>2, SweepingStep, StillStep DEF PollPublished
  <1> QED BY <1>1, <1>2

LEMMA ObserveStep ==
  ASSUME IInv, NEW m \in Pollers, Observe(m)
  PROVE  IInv'
  <1> DEFINE r == [poll[m] EXCEPT !.at = "ingest", !.batch = Window(m)]
  <1>1. Window(m) \in SUBSET Occurrences BY DEF Window
  <1>2. r \in PollRec /\ r.at = "ingest" /\ r.ends = poll[m].ends /\ r.batch = Window(m) /\ r.now = poll[m].now
    BY <1>1, PollFields DEF PollRec, PollSteps
  <1>3. Goes(m, r) BY DEF Observe
  <1> HIDE DEF r
  <1>4. poll'[m] = r BY <1>2, <1>3, PollType DEF IInv
  <1>5. PollOK(m)'
    BY <1>2, <1>4, PollFields DEF Observe, PollOK, Locked, Fires, Window
  <1> QED BY <1>2, <1>3, <1>5, StillStep DEF Observe

LEMMA ObserveFailsStep ==
  ASSUME IInv, NEW m \in Pollers, ObserveFails(m) \/ IngestRefused(m)
  PROVE  IInv'
  BY SweepingStep, StillStep DEF ObserveFails, IngestRefused

LEMMA SweepDoneStep ==
  ASSUME IInv, NEW m \in Pollers, SweepDone(m)
  PROVE  IInv'
  <1> DEFINE todo == {w \in Wakes : file[w]["pending"] # Nobody} \ poll[m].skip
             r == [poll[m] EXCEPT !.at = "pending", !.todo = todo, !.skip = {}]
  <1>1. todo \in SUBSET Wakes OBVIOUS
  <1>2. r \in PollRec /\ r.at = "pending" /\ r.ends = poll[m].ends
    BY <1>1, PollFields DEF PollRec, PollSteps
  <1> QED BY <1>2, IdleStep DEF SweepDone, Locked

LEMMA PendingDoneStep ==
  ASSUME IInv, NEW m \in Pollers, PendingDone(m)
  PROVE  IInv'
  <1> DEFINE todo == {w \in Wakes : file[w]["firing"] # Nobody}
             r == [poll[m] EXCEPT !.at = "dispatch", !.late = FALSE, !.todo = todo]
  <1>1. todo \in SUBSET Wakes OBVIOUS
  <1>2. r \in PollRec /\ r.at = "dispatch" /\ r.ends = poll[m].ends
    BY <1>1, PollFields DEF PollRec, PollSteps
  <1> QED BY <1>2, IdleStep DEF PendingDone, Locked

LEMMA PollDoneStep ==
  ASSUME IInv, NEW m \in Pollers, PollDone(m)
  PROVE  IInv'
  <1>1. NoPoll \in PollRec /\ NoPoll.at = "idle" /\ NoPoll.ends = {}
    BY Constants DEF NoPoll
  <1> QED BY <1>1, IdleStep DEF PollDone, Locked

LEMMA SkipStep ==
  ASSUME IInv, NEW m \in Pollers, NEW w \in Wakes, PendingIdle(m, w) \/ DispatchSkipped(m, w)
  PROVE  IInv'
  <1>1. poll[m].at \in {"pending", "dispatch"} /\ Drop(m, w)
        /\ UNCHANGED <<arms, source, leases, file, reg, pub, cancel, world>>
    BY DEF PendingIdle, DispatchSkipped, Turn
  <1>2. PICK r \in PollRec : Goes(m, r) /\ r.at = poll[m].at /\ r.ends = poll[m].ends
    BY <1>1, DropStep
  <1>3. UNCHANGED lock BY <1>1, DropStep
  <1> QED BY <1>1, <1>2, <1>3, IdleStep DEF Locked

-----------------------------------------------------------------------------
(* The steps of a poller that move a record or take a lock.                *)

LEMMA MovingStep ==
  ASSUME IInv, NEW m \in Pollers, NEW w \in Wakes, NEW from \in {"pending", "firing"}, NEW dest \in Dirs,
         dest # from, NEW k \in Copy, lock[w] \in {m, Nobody}, Moving(m, w, from, dest, k), UNCHANGED file
  PROVE  /\ \E r \in PollRec : Goes(m, r)
         /\ PollOK(m)' /\ Undisturbed(m)
         /\ lock' \in [Wakes -> Processes \cup {Nobody}]
  <1> DEFINE r == [poll[m] EXCEPT !.at = "place", !.todo = @ \ {w}, !.wake = w, !.from = from, !.dest = dest,
                                  !.copy = k]
  <1>1. poll[m].todo \ {w} \in SUBSET Wakes /\ from \in Dirs /\ "place" \in PollSteps
    BY PollFields, Dirs6 DEF PollSteps
  <1>2. r \in PollRec BY <1>1, PollFields DEF PollRec
  <1>3. r.at = "place" /\ r.ends = poll[m].ends /\ r.wake = w /\ r.from = from /\ r.dest = dest
    BY PollFields DEF PollRec
  <1>4. Goes(m, r) BY DEF Moving
  <1> HIDE DEF r
  <1>5. poll'[m] = r BY <1>2, <1>4, PollType DEF IInv
  <1>6. Undisturbed(m) /\ lock' \in [Wakes -> Processes \cup {Nobody}] /\ lock'[w] = m
    BY Disjoint, LockStep DEF IInv, Moving
  <1>7. PollOK(m)'
    BY <1>3, <1>5, <1>6, PollFields DEF PollOK, Locked, Fires
  <1> QED BY <1>2, <1>4, <1>6, <1>7

LEMMA SameWorld ==
  ASSUME IInv, UNCHANGED world
  PROVE  WorldType'
  BY DEF IInv, TypeOK, WorldType, world

LEMMA SameFiles ==
  ASSUME IInv
  PROVE  /\ UNCHANGED file => file' \in [Wakes -> [Dirs -> Copy \cup {Nobody}]]
         /\ UNCHANGED lock => lock' \in [Wakes -> Processes \cup {Nobody}]
         /\ \A w \in Wakes : \A d \in Dirs : file[w][d] # Nobody => file[w][d] \in Copy
         /\ UNCHANGED lock => \A q : \A v \in Wakes, n \in Processes : n # q /\ lock[v] = n => lock'[v] = n
  BY DEF IInv, TypeOK

\* A record is going to be moved, and nothing else changes.
LEMMA MoveStep ==
  ASSUME IInv, NEW m \in Pollers, NEW w \in Wakes, NEW from \in {"pending", "firing"}, NEW dest \in Dirs,
         dest # from, NEW k \in Copy, lock[w] \in {m, Nobody}, Moving(m, w, from, dest, k),
         UNCHANGED <<arms, source, leases, file, reg, pub, cancel, world>>
  PROVE  IInv'
  BY MovingStep, SameWorld, SameFiles, QuietStep

LEMMA PendingRetiredStep ==
  ASSUME IInv, NEW m \in Pollers, NEW w \in Wakes, PendingRetired(m, w)
  PROVE  IInv'
  <1>1. desired[w] \in Terminal
    BY DEF PendingRetired, IInv, JournalOK, WakeOK
  <1>2. Touched(file[w]["pending"]) \in Copy
    BY SameFiles, Dirs6, Copies DEF PendingRetired
  <1>3. desired[w] \in Dirs /\ desired[w] # "pending" BY <1>1, Dirs6
  <1> HIDE DEF Touched
  <1> QED BY <1>2, <1>3, MoveStep DEF PendingRetired, Turn

\* The locked wake of a dispatching poller and its firing copy.
LEMMA Dispatching ==
  ASSUME IInv, NEW m \in Pollers, poll[m].at \in Fires
  PROVE  /\ poll[m].wake \in Wakes /\ lock[poll[m].wake] = m
         /\ file[poll[m].wake]["firing"] \in Copy
         /\ file[poll[m].wake]["firing"].attempts \in Nat /\ file[poll[m].wake]["firing"].defers \in Nat
  <1>1. poll[m].wake \in Wakes /\ lock[poll[m].wake] = m /\ file[poll[m].wake]["firing"] # Nobody
    BY PollFields DEF PollOK, Locked, Fires
  <1>2. file[poll[m].wake]["firing"] \in Copy
    BY <1>1, SameFiles, Dirs6
  <1> QED BY <1>1, <1>2 DEF Copy

LEMMA DispatchUnsafeStep ==
  ASSUME IInv, NEW m \in Pollers, DispatchUnsafe(m)
  PROVE  IInv'
  <1> DEFINE w == poll[m].wake
             n == file[w]["firing"].defers + 1
             dest == IF n >= MaxDeferrals THEN "failed" ELSE "pending"
             k == Changed(file[w]["firing"].attempts, n)
  <1>1. w \in Wakes /\ lock[w] = m /\ n \in Nat /\ k \in Copy
    BY Dispatching, Copies DEF DispatchUnsafe, Fires
  <1>2. dest \in Dirs /\ dest # "firing" BY DEF Dirs, Terminal
  <1>3. Moving(m, w, "firing", dest, k) /\ UNCHANGED <<arms, source, leases, file, reg, pub, cancel, world>>
    BY DEF DispatchUnsafe
  <1> HIDE DEF w, dest, k
  <1> QED BY <1>1, <1>2, <1>3, MoveStep

LEMMA RequeueStep ==
  ASSUME IInv, NEW m \in Pollers, poll[m].at \in Fires, NEW a \in Nat, Requeue(m, a),
         UNCHANGED <<arms, source, leases, file, reg, pub, cancel, world>>
  PROVE  IInv'
  <1> DEFINE w == poll[m].wake
             dest == IF a >= MaxAttempts THEN "failed" ELSE "pending"
             k == Changed(a, file[w]["firing"].defers)
  <1>1. w \in Wakes /\ lock[w] = m /\ k \in Copy
    BY Dispatching, Copies
  <1>2. dest \in Dirs /\ dest # "firing" BY DEF Dirs, Terminal
  <1>3. Moving(m, w, "firing", dest, k)
    BY DEF Requeue
  <1> HIDE DEF w, dest, k
  <1> QED BY <1>1, <1>2, <1>3, MoveStep

LEMMA DispatchEndsStep ==
  ASSUME IInv, NEW m \in Pollers, DispatchBlind(m) \/ DispatchTimeout(m) \/ DispatchAcked(m)
  PROVE  IInv'
  <1>1. poll[m].at \in Fires
    BY DEF DispatchBlind, DispatchTimeout, DispatchAcked, Fires
  <1>2. CASE DispatchBlind(m)
    <2>1. file[poll[m].wake]["firing"].attempts + 1 \in Nat BY <1>1, Dispatching
    <2> QED BY <1>1, <1>2, <2>1, RequeueStep DEF DispatchBlind
  <1>3. CASE DispatchTimeout(m)
    BY <1>1, <1>3, Dispatching, RequeueStep DEF DispatchTimeout
  <1>4. CASE DispatchAcked(m)
    <2>1. "submitted" \in Dirs BY DEF Dirs, Terminal
    <2> QED BY <1>1, <1>4, <2>1, Dispatching, MoveStep DEF DispatchAcked
  <1> QED BY <1>2, <1>3, <1>4

LEMMA HoldStep ==
  ASSUME IInv, NEW m \in Pollers, NEW w \in Wakes, lock[w] = Nobody, NEW step \in PollSteps, Hold(m, w, step)
  PROVE  /\ \E r \in PollRec : Goes(m, r) /\ r.at = step /\ r.wake = w /\ r.ends = poll[m].ends
         /\ lock' \in [Wakes -> Processes \cup {Nobody}] /\ lock'[w] = m
         /\ \A v \in Wakes, n \in Processes : n # m /\ lock[v] = n => lock'[v] = n
  <1> DEFINE r == [poll[m] EXCEPT !.at = step, !.todo = @ \ {w}, !.wake = w]
  <1>1. poll[m].todo \ {w} \in SUBSET Wakes BY PollFields
  <1>2. r \in PollRec BY <1>1, PollFields DEF PollRec
  <1>3. r.at = step /\ r.ends = poll[m].ends /\ r.wake = w BY PollFields DEF PollRec
  <1>4. /\ lock' \in [Wakes -> Processes \cup {Nobody}] /\ lock'[w] = m
        /\ \A v \in Wakes : v # w => lock'[v] = lock[v]
    BY Disjoint, LockType DEF IInv, Hold
  <1> QED BY <1>2, <1>3, <1>4, Constants DEF Hold

LEMMA PendingReservedStep ==
  ASSUME IInv, NEW m \in Pollers, NEW w \in Wakes, PendingReserved(m, w)
  PROVE  IInv'
  <1>1. lock[w] = Nobody /\ "matched" \in PollSteps BY DEF PendingReserved, Turn, PollSteps
  <1>2. PICK r \in PollRec : Goes(m, r) /\ r.at = "matched" /\ r.wake = w /\ r.ends = poll[m].ends
    BY <1>1, HoldStep DEF PendingReserved
  <1>3. /\ lock' \in [Wakes -> Processes \cup {Nobody}] /\ lock'[w] = m
    BY <1>1, HoldStep DEF PendingReserved
  <1>4. Undisturbed(m)
    BY <1>1, Disjoint, LockStep DEF IInv, PendingReserved, Hold
  <1>5. poll'[m] = r BY <1>2, PollType DEF IInv
  <1>6. PollOK(m)'
    BY <1>2, <1>3, <1>5, PollFields DEF PendingReserved, PollOK, Locked, Fires
  <1> QED BY <1>2, <1>3, <1>4, <1>6, SameWorld, SameFiles, QuietStep DEF PendingReserved

LEMMA ReleaseStep ==
  ASSUME IInv, NEW m \in Pollers, poll[m].wake \in Wakes, lock[poll[m].wake] = m,
         NEW step \in {"pending", "dispatch"}, Release(m, step)
  PROVE  /\ \E r \in PollRec : Goes(m, r)
         /\ PollOK(m)'
         /\ lock' \in [Wakes -> Processes \cup {Nobody}]
         /\ \A v \in Wakes, n \in Processes : n # m /\ lock[v] = n => lock'[v] = n
         /\ UNCHANGED file => Undisturbed(m)
  <1> DEFINE r == [NoPoll EXCEPT !.at = step, !.todo = poll[m].todo, !.late = poll[m].late]
  <1>1. step \in PollSteps BY DEF PollSteps
  <1>2. r \in PollRec BY <1>1, PollFields, Constants DEF PollRec
  <1>3. r.at = step /\ r.ends = {} BY DEF NoPoll
  <1>4. Goes(m, r) BY DEF Release
  <1> HIDE DEF r
  <1>5. poll'[m] = r BY <1>2, <1>4, PollType DEF IInv
  <1>6. PollOK(m)' BY <1>3, <1>5 DEF PollOK, Locked, Fires
  <1>7. /\ lock' \in [Wakes -> Processes \cup {Nobody}]
        /\ \A v \in Wakes : v # poll[m].wake => lock'[v] = lock[v]
    BY LockType DEF IInv, Release
  <1>8. UNCHANGED file => Undisturbed(m)
    BY Disjoint, LockStep DEF IInv, Release
  <1> QED BY <1>2, <1>4, <1>6, <1>7, <1>8

LEMMA StepTo ==
  ASSUME IInv, NEW m \in Pollers, NEW step \in PollSteps
  PROVE  LET r == [poll[m] EXCEPT !.at = step]
         IN  /\ r \in PollRec /\ r.at = step /\ r.wake = poll[m].wake /\ r.ends = poll[m].ends
             /\ r.from = poll[m].from /\ r.dest = poll[m].dest
  BY PollFields DEF PollRec

\* The holder of a wake's lock writes a copy and goes to its next step.
LEMMA WriteStep ==
  ASSUME IInv, NEW m \in Pollers, poll[m].at \in Locked, NEW d \in Dirs, NEW k \in Copy,
         Put(poll[m].wake, d, k), NEW step \in Locked \cap PollSteps,
         Goes(m, [poll[m] EXCEPT !.at = step]),
         step \in Fires => d = "firing" \/ file[poll[m].wake]["firing"] # Nobody,
         step = "unplace" => d = poll[m].dest /\ poll[m].at = "place",
         step # "place",
         UNCHANGED <<arms, source, leases, lock, reg, pub, cancel, world>>
  PROVE  IInv'
  <1> DEFINE w == poll[m].wake
             r == [poll[m] EXCEPT !.at = step]
  <1>1. r \in PollRec /\ r.at = step /\ r.wake = w /\ r.ends = poll[m].ends /\ r.from = poll[m].from
        /\ r.dest = poll[m].dest
    BY StepTo
  <1>2. w \in Wakes /\ lock[w] = m BY PollFields DEF PollOK
  <1>3. Goes(m, r) /\ Put(w, d, k) OBVIOUS
  <1> HIDE DEF w, r
  <1>4. poll'[m] = r BY <1>1, <1>3, PollType DEF IInv
  <1>5. /\ Undisturbed(m)
        /\ file' \in [Wakes -> [Dirs -> Copy \cup {Nobody}]]
        /\ file'[w][d] # Nobody
        /\ \A v \in Wakes, e \in Dirs : file[v][e] # Nobody => file'[v][e] # Nobody
    BY <1>2, <1>3, Disjoint, PutStep DEF IInv
  <1>6. \A e \in poll[m].ends : file'[e[1]][e[2]] # Nobody
    BY <1>5, PollFields, Dirs6 DEF PollOK
  <1>7. step \in Fires => file'[w]["firing"] # Nobody
    BY <1>2, <1>5, Dirs6 DEF w
  <1>8. step = "unplace" => /\ file'[w][r.dest] # Nobody
                            /\ r.from \in {"pending", "firing"} /\ r.dest # r.from
    BY <1>1, <1>5, PollFields DEF PollOK
  <1>9. PollOK(m)'
    BY <1>1, <1>2, <1>4, <1>6, <1>7, <1>8 DEF PollOK, Locked
  <1> QED BY <1>1, <1>3, <1>5, <1>9, SameWorld, SameFiles, QuietStep

LEMMA PlaceStep ==
  ASSUME IInv, NEW m \in Pollers, Place(m)
  PROVE  IInv'
  <1>1. "unplace" \in Locked \cap PollSteps /\ "unplace" \notin Fires /\ "place" \in Locked
    BY DEF Locked, PollSteps, Fires
  <1> QED BY <1>1, PollFields, WriteStep DEF Place

LEMMA DispatchCountStep ==
  ASSUME IInv, NEW m \in Pollers, DispatchCount(m)
  PROVE  IInv'
  <1>1. "counted" \in Locked \cap PollSteps /\ poll[m].at \in Locked \cap Fires
    BY DEF DispatchCount, Locked, PollSteps, Fires
  <1> DEFINE k == Changed(file[poll[m].wake]["firing"].attempts + 1, file[poll[m].wake]["firing"].defers)
  <1>2. k \in Copy BY <1>1, Dispatching, Copies
  <1>3. Put(poll[m].wake, "firing", k) BY DEF DispatchCount
  <1> HIDE DEF k
  <1> QED BY <1>1, <1>2, <1>3, Dirs6, WriteStep DEF DispatchCount

LEMMA MatchWriteStep ==
  ASSUME IInv, NEW m \in Pollers, MatchWrite(m)
  PROVE  IInv'
  <1>1. "written" \in Locked \cap PollSteps /\ poll[m].at \in Locked
    BY DEF MatchWrite, Locked, PollSteps
  <1>2. CASE FiringWanted(poll[m].wake) /\ file[poll[m].wake]["firing"] \in {Nobody, Payload}
    BY <1>1, <1>2, Constants, Dirs6, WriteStep DEF MatchWrite
  <1>3. CASE ~(FiringWanted(poll[m].wake) /\ file[poll[m].wake]["firing"] \in {Nobody, Payload})
    <2>1. poll[m].wake \in Wakes /\ lock[poll[m].wake] = m
      BY <1>1, PollFields DEF PollOK
    <2>2. Release(m, "pending") /\ UNCHANGED <<arms, source, leases, file, reg, pub, cancel, world>>
      BY <1>3 DEF MatchWrite
    <2> QED BY <2>1, <2>2, ReleaseStep, SameWorld, SameFiles, QuietStep
  <1> QED BY <1>2, <1>3

LEMMA DispatchRouteStep ==
  ASSUME IInv, NEW m \in Pollers, NEW w \in Wakes, DispatchRoute(m, w)
  PROVE  IInv'
  <1> DEFINE k == Touched(file[w]["firing"])
  <1>1. lock[w] = Nobody /\ "routed" \in PollSteps BY DEF DispatchRoute, PollSteps
  <1>2. k \in Copy
    BY Copies, Constants DEF DispatchRoute, Authorized
  <1>3. Put(w, "firing", k) BY DEF DispatchRoute
  <1> HIDE DEF k
  <1>4. PICK r \in PollRec : Goes(m, r) /\ r.at = "routed" /\ r.wake = w /\ r.ends = poll[m].ends
    BY <1>1, HoldStep DEF DispatchRoute
  <1>5. /\ lock' \in [Wakes -> Processes \cup {Nobody}] /\ lock'[w] = m
        /\ \A v \in Wakes, n \in Processes : n # m /\ lock[v] = n => lock'[v] = n
    BY <1>1, HoldStep DEF DispatchRoute
  <1>6. /\ Undisturbed(m)
        /\ file' \in [Wakes -> [Dirs -> Copy \cup {Nobody}]]
        /\ file'[w]["firing"] # Nobody
        /\ \A v \in Wakes, e \in Dirs : file[v][e] # Nobody => file'[v][e] # Nobody
    BY <1>2, <1>3, <1>5, Disjoint, Dirs6, PutStep DEF IInv
  <1>7. poll'[m] = r BY <1>4, PollType DEF IInv
  <1>8. \A e \in poll[m].ends : file'[e[1]][e[2]] # Nobody
    BY <1>6, PollFields, Dirs6 DEF PollOK
  <1>9. PollOK(m)'
    BY <1>4, <1>5, <1>6, <1>7, <1>8 DEF PollOK, Locked, Fires
  <1> QED BY <1>4, <1>5, <1>6, <1>9, SameWorld, QuietStep DEF DispatchRoute

LEMMA DispatchPasteStep ==
  ASSUME IInv, NEW m \in Pollers, DispatchPaste(m)
  PROVE  IInv'
  <1> DEFINE r == [poll[m] EXCEPT !.at = "pasted"]
  <1>1. "pasted" \in PollSteps BY DEF PollSteps
  <1>2. r \in PollRec /\ r.at = "pasted" /\ r.wake = poll[m].wake /\ r.ends = poll[m].ends
    BY <1>1, StepTo
  <1>3. Goes(m, r) BY DEF DispatchPaste
  <1> HIDE DEF r
  <1>4. poll'[m] = r BY <1>2, <1>3, PollType DEF IInv
  <1>5. PollOK(m)'
    BY <1>2, <1>4, PollFields DEF DispatchPaste, PollOK, Locked, Fires
  <1>6. WorldType'
    <2> DEFINE w == poll[m].wake
    <2>1. prompts \in [Wakes -> Nat] /\ w \in Wakes /\ prompts' = [prompts EXCEPT ![w] = @ + 1]
      BY PollFields DEF DispatchPaste, IInv, TypeOK, WorldType, PollOK, Locked
    <2> HIDE DEF w
    <2>2. prompts' \in [Wakes -> Nat] BY <2>1
    <2> QED BY <2>2 DEF DispatchPaste, IInv, TypeOK, WorldType
  <1>7. Undisturbed(m) BY NoFileStep DEF DispatchPaste
  <1> QED BY <1>2, <1>3, <1>5, <1>6, <1>7, SameFiles, QuietStep DEF DispatchPaste

LEMMA UnplaceStep ==
  ASSUME IInv, NEW m \in Pollers, Unplace(m)
  PROVE  IInv'
  <1> DEFINE w == poll[m].wake
             d == poll[m].from
             step == IF d = "pending" THEN "pending" ELSE "dispatch"
  <1>1. w \in Wakes /\ lock[w] = m /\ d \in {"pending", "firing"}
    BY PollFields DEF Unplace, PollOK, Locked
  <1>2. \E e \in Dirs : e # d /\ file[w][e] # Nobody
    BY <1>1, PollFields, Dirs6 DEF Unplace, PollOK, Ended
  <1>3. Unlink(w, d) /\ Release(m, step) /\ UNCHANGED <<arms, source, leases, reg, pub, cancel, world>>
    BY DEF Unplace
  <1>4. step \in {"pending", "dispatch"} OBVIOUS
  <1> HIDE DEF w, d, step
  <1>5. /\ \E r \in PollRec : Goes(m, r)
        /\ PollOK(m)'
        /\ lock' \in [Wakes -> Processes \cup {Nobody}]
        /\ \A v \in Wakes, n \in Processes : n # m /\ lock[v] = n => lock'[v] = n
    BY <1>1, <1>3, <1>4, ReleaseStep DEF w
  <1>6. Undisturbed(m) /\ file' \in [Wakes -> [Dirs -> Copy \cup {Nobody}]]
    BY <1>1, <1>2, <1>3, <1>5, Disjoint, UnlinkStep DEF IInv
  <1> QED BY <1>3, <1>5, <1>6, SameWorld, QuietStep

LEMMA MatchUnlinkStep ==
  ASSUME IInv, NEW m \in Pollers, MatchUnlink(m)
  PROVE  IInv'
  <1> DEFINE w == poll[m].wake
             r == [poll[m] EXCEPT !.at = "projected"]
  <1>1. w \in Wakes /\ lock[w] = m /\ file[w]["firing"] # Nobody
    BY PollFields DEF MatchUnlink, PollOK, Locked, Fires
  <1>2. r \in PollRec /\ r.at = "projected" /\ r.wake = w /\ r.ends = poll[m].ends
    BY StepTo DEF PollSteps
  <1>3. Unlink(w, "pending") /\ Goes(m, r) BY DEF MatchUnlink
  <1> HIDE DEF w, r
  <1>4. /\ Undisturbed(m) /\ file' \in [Wakes -> [Dirs -> Copy \cup {Nobody}]]
        /\ \A v \in Wakes, e \in Dirs : v # w \/ e # "pending" => file'[v][e] = file[v][e]
    BY <1>1, <1>3, Disjoint, Dirs6, SameFiles, UnlinkStep DEF IInv, MatchUnlink
  <1>5. poll'[m] = r BY <1>2, <1>3, PollType DEF IInv
  <1>6. \A e \in poll[m].ends : file'[e[1]][e[2]] # Nobody
    BY <1>4, PollFields, Dirs6 DEF PollOK
  <1>7. PollOK(m)'
    BY <1>1, <1>2, <1>4, <1>5, <1>6, Dirs6 DEF MatchUnlink, PollOK, Locked, Fires
  <1> QED BY <1>2, <1>3, <1>4, <1>7, SameWorld, SameFiles, QuietStep DEF MatchUnlink

LEMMA SweepUnlinkStep ==
  ASSUME IInv, NEW m \in Pollers, SweepUnlink(m)
  PROVE  IInv'
  <1> DEFINE w == poll[m].wake
             r == [poll[m] EXCEPT !.at = "sweep", !.wake = Nobody]
  <1>1. w \in Wakes /\ Ended(w)
    BY PollFields DEF SweepUnlink, PollOK
  <1>2. r \in PollRec /\ r.at = "sweep" /\ r.ends = poll[m].ends
    BY PollFields DEF PollRec, PollSteps
  <1>3. Unlink(w, "pending") /\ Goes(m, r) BY DEF SweepUnlink
  <1> HIDE DEF w, r
  <1>4. \E e \in Dirs : e # "pending" /\ file[w][e] # Nobody
    BY <1>1, Dirs6 DEF Ended
  <1>5. /\ Undisturbed(m) /\ file' \in [Wakes -> [Dirs -> Copy \cup {Nobody}]]
        /\ \A v \in Wakes, e \in Dirs : v # w \/ e # "pending" => file'[v][e] = file[v][e]
    BY <1>1, <1>3, <1>4, Disjoint, SameFiles, UnlinkStep DEF IInv, SweepUnlink
  <1>6. poll'[m] = r BY <1>2, <1>3, PollType DEF IInv
  <1>7. \A e \in poll[m].ends : file'[e[1]][e[2]] # Nobody
    BY <1>5, PollFields, Dirs6 DEF PollOK
  <1>8. PollOK(m)'
    BY <1>2, <1>6, <1>7 DEF PollOK, Locked, Fires
  <1> QED BY <1>2, <1>3, <1>5, <1>8, SameWorld, SameFiles, QuietStep DEF SweepUnlink

-----------------------------------------------------------------------------
(* The steps of a poller that change the journal.                          *)

\* Tombstoning an arm that has a record leaves the journal sound.
LEMMA RetireStep ==
  ASSUME IInv, NEW q, Undisturbed(q), NEW w \in Wakes, HasFile(w), NEW status \in Terminal,
         Retire(w, status), UNCHANGED <<source, leases, reg>>
  PROVE  ArmsType' /\ SourceType' /\ LeaseType' /\ JournalOK'
  <1>1. ArmsType'
    BY DEF IInv, TypeOK, ArmsType, Retire, Dirs
  <1>2. SourceType' /\ LeaseType'
    BY DEF IInv, TypeOK, SourceType, LeaseType, source, leases
  <1>3. SourceOK'
    BY DEF IInv, JournalOK, SourceOK, source
  <1>4. ASSUME NEW c \in Registrars PROVE RegOK(c)'
    BY DEF IInv, JournalOK, RegOK, source, leases
  <1>5. ASSUME NEW v \in Wakes PROVE WakeOK(v)'
    <2>1. WakeOK(v) /\ (HasFile(v) => HasFile(v)') BY DEF IInv, JournalOK, Undisturbed
    <2>2. CASE v = w
      <3>1. arm'[w] = "tombstoned" /\ desired'[w] = status BY DEF Retire, IInv, TypeOK, ArmsType
      <3> QED BY <2>1, <2>2, <3>1 DEF WakeOK, Retire, source, Active
    <2>3. CASE v # w
      <3>1. arm'[v] = arm[v] /\ desired'[v] = desired[v] BY <2>3 DEF Retire, IInv, TypeOK, ArmsType
      <3> QED BY <2>1, <3>1 DEF WakeOK, Retire, source
    <2> QED BY <2>2, <2>3
  <1> QED BY <1>1, <1>2, <1>3, <1>4, <1>5 DEF JournalOK

LEMMA SweepRetireStep ==
  ASSUME IInv, NEW m \in Pollers, NEW e \in Wakes \X Terminal, SweepRetire(m, e)
  PROVE  IInv'
  <1>1. CASE ~Retires(e[1], e[2])
    <2> DEFINE r == [poll[m] EXCEPT !.ends = @ \ {e}]
    <2>1. poll[m].ends \ {e} \in SUBSET (Wakes \X Terminal) BY PollFields
    <2>2. r \in PollRec /\ r.at = poll[m].at /\ r.ends = poll[m].ends \ {e}
      BY <2>1, PollFields DEF PollRec
    <2>3. Goes(m, r) /\ UNCHANGED <<arms, source, leases, file, lock, reg, pub, cancel, world>> /\ poll[m].at = "sweep"
      BY <1>1 DEF SweepRetire
    <2> HIDE DEF r
    <2> QED BY <2>2, <2>3, IdleStep DEF Locked
  <1>2. CASE Retires(e[1], e[2])
    <2> DEFINE rest == poll[m].ends \ {e}
               w == e[1]
               r == [poll[m] EXCEPT !.at = "retired", !.wake = w, !.ends = rest]
    <2>1. rest \in SUBSET (Wakes \X Terminal) /\ w \in Wakes /\ w = e[1] /\ e[2] \in Terminal
          /\ "retired" \in PollSteps
      BY PollFields DEF PollSteps
    <2>2. r \in PollRec /\ r.at = "retired" /\ r.wake = e[1] /\ r.ends = poll[m].ends \ {e}
      <3>1. rest = poll[m].ends \ {e} OBVIOUS
      <3> HIDE DEF rest, w
      <3> QED BY <2>1, <3>1, PollFields DEF PollRec
    <2>3. Goes(m, r) /\ Retire(e[1], e[2]) /\ UNCHANGED <<source, leases, file, lock, reg, pub, cancel, world>>
      BY <1>2 DEF SweepRetire
    <2>4. file[e[1]][e[2]] # Nobody
      BY PollFields DEF SweepRetire, PollOK
    <2> HIDE DEF r
    <2>5. poll'[m] = r BY <2>2, <2>3, PollType DEF IInv
    <2>6. Ended(e[1]) /\ HasFile(e[1]) BY <2>1, <2>4, Dirs6 DEF Ended, HasFile
    <2>7. Ended(e[1])' BY <2>3, <2>6 DEF Ended
    <2>8. PollOK(m)'
      BY <2>1, <2>2, <2>3, <2>5, <2>7, PollFields DEF PollOK, Locked, Fires
    <2>9. Undisturbed(m) BY <2>3, NoFileStep
    <2>10. ArmsType' /\ SourceType' /\ LeaseType' /\ JournalOK'
      BY <2>1, <2>3, <2>6, <2>9, Disjoint, RetireStep
    <2> QED BY <2>2, <2>3, <2>8, <2>9, <2>10, SameWorld, SameFiles, PollerStep
  <1> QED BY <1>1, <1>2

LEMMA PendingExpiredStep ==
  ASSUME IInv, NEW m \in Pollers, NEW w \in Wakes, PendingExpired(m, w)
  PROVE  IInv'
  <1> DEFINE k == Touched(file[w]["pending"])
  <1>1. file[w]["pending"] # Nobody /\ lock[w] = Nobody
    BY DEF PendingExpired, Evaluable, Turn
  <1>2. k \in Copy BY <1>1, SameFiles, Dirs6, Copies
  <1>3. Moving(m, w, "pending", "expired", k) /\ Retire(w, "expired")
        /\ UNCHANGED <<source, leases, file, reg, pub, cancel, world>>
    BY DEF PendingExpired
  <1>4. "expired" \in Terminal /\ "expired" \in Dirs BY DEF Dirs, Terminal
  <1> HIDE DEF k
  <1>5. /\ \E r \in PollRec : Goes(m, r)
        /\ PollOK(m)' /\ Undisturbed(m)
        /\ lock' \in [Wakes -> Processes \cup {Nobody}]
    BY <1>1, <1>2, <1>3, <1>4, MovingStep
  <1>6. HasFile(w) BY <1>1, Dirs6 DEF HasFile
  <1>7. ArmsType' /\ SourceType' /\ LeaseType' /\ JournalOK'
    BY <1>3, <1>4, <1>5, <1>6, Disjoint, RetireStep
  <1> QED BY <1>3, <1>5, <1>7, SameWorld, SameFiles, PollerStep

\* A wake gets a match, its lifecycle row changes, or its scan advances.
LEMMA JournalStep ==
  ASSUME IInv, NEW q, Undisturbed(q), UNCHANGED <<source, leases, reg>>, ArmsType',
         NEW w \in Wakes, \A v \in Wakes \ {w} : WakeOK(v)', WakeOK(w)'
  PROVE  SourceType' /\ LeaseType' /\ JournalOK'
  <1>1. SourceType' /\ LeaseType'
    BY DEF IInv, TypeOK, SourceType, LeaseType, source, leases
  <1>2. SourceOK'
    BY DEF IInv, JournalOK, SourceOK, source
  <1>3. ASSUME NEW c \in Registrars PROVE RegOK(c)'
    BY DEF IInv, JournalOK, RegOK, source, leases
  <1> QED BY <1>1, <1>2, <1>3 DEF JournalOK

LEMMA PendingMatchedStep ==
  ASSUME IInv, NEW m \in Pollers, NEW w \in Wakes, PendingMatched(m, w)
  PROVE  IInv'
  <1>1. PICK o \in Occurrences : Reserve(w, o) BY DEF PendingMatched
  <1>2. o \in Nat /\ o # 0 BY JournalAssumption
  <1>3. lock[w] = Nobody /\ "matched" \in PollSteps /\ arm[w] = "published" /\ Hold(m, w, "matched")
        /\ UNCHANGED <<source, leases, file, reg, pub, cancel, world>>
    BY DEF PendingMatched, Evaluable, Turn, PollSteps
  <1>4. PICK r \in PollRec : Goes(m, r) /\ r.at = "matched" /\ r.wake = w /\ r.ends = poll[m].ends
    BY <1>3, HoldStep
  <1>5. /\ lock' \in [Wakes -> Processes \cup {Nobody}] /\ lock'[w] = m
    BY <1>3, HoldStep
  <1>6. Undisturbed(m)
    BY <1>3, Disjoint, LockStep DEF IInv, Hold
  <1>7. poll'[m] = r BY <1>4, PollType DEF IInv
  <1>8. PollOK(m)'
    BY <1>3, <1>4, <1>5, <1>7, PollFields DEF PollOK, Locked, Fires
  <1>9. ArmsType'
    BY <1>1, <1>2 DEF Reserve, IInv, TypeOK, ArmsType, Dirs
  <1>10. ASSUME NEW v \in Wakes PROVE WakeOK(v)'
    <2>1. WakeOK(v) /\ (HasFile(v) => HasFile(v)') BY <1>6 DEF IInv, JournalOK, Undisturbed
    <2>2. CASE v = w
      <3>1. arm'[w] = "published" /\ reserved'[w] # 0
        BY <1>1, <1>2, <1>3 DEF Reserve, IInv, TypeOK, ArmsType
      <3> QED BY <1>1, <1>3, <2>1, <2>2, <3>1 DEF WakeOK, Reserve, source
    <2>3. CASE v # w
      <3>1. reserved'[v] = reserved[v] /\ desired'[v] = desired[v]
        BY <1>1, <2>3 DEF Reserve, IInv, TypeOK, ArmsType
      <3> QED BY <1>1, <1>3, <2>1, <3>1 DEF WakeOK, Reserve, source
    <2> QED BY <2>2, <2>3
  <1>11. SourceType' /\ LeaseType' /\ JournalOK'
    BY <1>3, <1>6, <1>9, <1>10, Disjoint, JournalStep
  <1> QED BY <1>3, <1>4, <1>5, <1>6, <1>8, <1>9, <1>11, SameWorld, SameFiles, PollerStep

LEMMA MatchCommitStep ==
  ASSUME IInv, NEW m \in Pollers, MatchCommit(m)
  PROVE  IInv'
  <1> DEFINE w == poll[m].wake
  <1>1. w \in Wakes /\ lock[w] = m
    BY PollFields DEF MatchCommit, PollOK, Locked
  <1>2. /\ Release(m, "pending")
        /\ UNCHANGED <<arm, registered, anchor, scanned, reserved, desired, seen, source, leases, file, reg, pub,
                       cancel, world>>
        /\ applied' = [applied EXCEPT ![w] = "firing"] \/ applied' = applied
    BY DEF MatchCommit
  <1>3. ArmsType'
    BY <1>1, <1>2 DEF IInv, TypeOK, ArmsType, Dirs
  <1>4. /\ \E r \in PollRec : Goes(m, r)
        /\ PollOK(m)' /\ Undisturbed(m)
        /\ lock' \in [Wakes -> Processes \cup {Nobody}]
    BY <1>1, <1>2, ReleaseStep
  <1>5. ASSUME NEW v \in Wakes PROVE WakeOK(v)'
    BY <1>2, <1>4 DEF IInv, JournalOK, WakeOK, source, Undisturbed
  <1>6. SourceType' /\ LeaseType' /\ JournalOK'
    BY <1>1, <1>2, <1>3, <1>4, <1>5, Disjoint, JournalStep
  <1> QED BY <1>2, <1>3, <1>4, <1>6, SameWorld, SameFiles, PollerStep

\* The receipts evaluate() reads are the first ones: a candidate that comes
\* before one of them is one of them.
LEMMA PageDown ==
  ASSUME IInv, NEW w \in Wakes, NEW p \in Page(w), NEW o \in Candidates(w), receipt[o] <= receipt[p]
  PROVE  o \in Page(w)
  <1> DEFINE S(x) == {q \in Candidates(w) : receipt[q] < receipt[x]}
  <1>1. receipt \in [Occurrences -> Nat] BY DEF IInv, TypeOK, SourceType
  <1>2. Candidates(w) \subseteq Occurrences BY DEF Candidates
  <1>3. S(o) \subseteq S(p) BY <1>1, <1>2 DEF Page
  <1>4. IsFiniteSet(S(p))
    <2>1. S(p) \subseteq Occurrences BY <1>2
    <2> HIDE DEF S
    <2> QED BY <2>1, JournalAssumption, FS_Subset
  <1>5. IsFiniteSet(S(o)) /\ Cardinality(S(o)) <= Cardinality(S(p))
    <2> HIDE DEF S
    <2> QED BY <1>3, <1>4, FS_Subset
  <1>6. Cardinality(S(o)) \in Nat /\ Cardinality(S(p)) \in Nat
    <2> HIDE DEF S
    <2> QED BY <1>4, <1>5, FS_CardinalityType
  <1>7. Cardinality(S(p)) < MaxCandidates BY DEF Page
  <1>8. Cardinality(S(o)) < MaxCandidates
    <2> HIDE DEF S
    <2> QED BY <1>5, <1>6, <1>7, JournalAssumption
  <1> QED BY <1>8 DEF Page

\* The scan never moves past a receipt of a matching occurrence after the
\* source anchor.
LEMMA ProgressSafe ==
  ASSUME IInv, NEW w \in Wakes, NEW n \in SafeProgress(w)
  PROVE  /\ n \in Nat /\ n < nextSeq
         /\ \A o \in Occurrences : (Class[o] = "match" /\ o > anchor[w].pos /\ receipt[o] > scanned[w])
                                     => receipt[o] > n
  <1> DEFINE before(o) == {receipt[p] : p \in {q \in Page(w) : receipt[q] < receipt[o]}}
             last(seqs) == {k \in seqs : \A j \in seqs : j <= k}
  <1>1. /\ receipt \in [Occurrences -> Nat] /\ nextSeq \in Nat \ {0} /\ scanned[w] \in Nat /\ anchor[w].pos \in Nat
        /\ \A o \in Occurrences : receipt[o] < nextSeq
        /\ scanned[w] < nextSeq
    BY DEF IInv, TypeOK, SourceType, ArmsType, JournalOK, SourceOK, WakeOK
  <1>2. Page(w) \subseteq Candidates(w) /\ Candidates(w) \subseteq Occurrences
    BY DEF Page, Candidates
  <1>3. ASSUME NEW o \in Occurrences, Class[o] = "match", o > anchor[w].pos, receipt[o] > scanned[w]
        PROVE  o \in Candidates(w) /\ ~Passed(w, o)
    <2>1. o \in Nat BY JournalAssumption
    <2> QED BY <1>1, <1>3, <2>1 DEF Candidates, Passed
  <1>4. CASE Candidates(w) = {}
    <2>1. n = nextSeq - 1 BY <1>4 DEF SafeProgress
    <2> QED BY <1>1, <1>3, <1>4, <2>1
  <1>5. CASE Candidates(w) # {} /\ \A o \in Page(w) : Passed(w, o)
    <2>1. n \in last({receipt[p] : p \in Page(w)}) BY <1>5 DEF SafeProgress
    <2>2. PICK p \in Page(w) : n = receipt[p] BY <2>1
    <2>3. p \in Occurrences BY <1>2
    <2>4. ASSUME NEW o \in Occurrences, Class[o] = "match", o > anchor[w].pos, receipt[o] > scanned[w]
          PROVE  receipt[o] > n
      <3>1. SUFFICES ASSUME receipt[o] <= receipt[p] PROVE FALSE
        BY <1>1, <2>2, <2>3
      <3>2. o \in Page(w) BY <1>3, <2>4, <3>1, PageDown
      <3> QED BY <1>3, <1>5, <2>4, <3>2
    <2> QED BY <1>1, <2>2, <2>3, <2>4
  <1>6. CASE Candidates(w) # {} /\ ~\A o \in Page(w) : Passed(w, o)
    <2>1. PICK t \in Occurrences : Stops(w, t) /\ n \in last(before(t) \cup {scanned[w]})
      BY <1>6 DEF SafeProgress
    <2>2. CASE n = scanned[w]
      BY <1>1, <2>2
    <2>3. CASE n \in before(t)
      <3>1. PICK p \in Page(w) : n = receipt[p] /\ receipt[p] < receipt[t] BY <2>3
      <3>2. p \in Occurrences BY <1>2
      <3>3. ASSUME NEW o \in Occurrences, Class[o] = "match", o > anchor[w].pos, receipt[o] > scanned[w]
            PROVE  receipt[o] > n
        <4>1. SUFFICES ASSUME receipt[o] <= receipt[p] PROVE FALSE
          BY <1>1, <3>1, <3>2
        <4>2. o \in Page(w) BY <1>3, <3>3, <4>1, PageDown
        <4>3. receipt[o] < receipt[t] BY <1>1, <3>1, <3>2, <4>1
        <4>4. Passed(w, o) BY <2>1, <4>2, <4>3 DEF Stops
        <4> QED BY <1>3, <3>3, <4>4
      <3> QED BY <1>1, <3>1, <3>2, <3>3
    <2> QED BY <2>1, <2>2, <2>3
  <1> QED BY <1>4, <1>5, <1>6

LEMMA PendingScannedStep ==
  ASSUME IInv, NEW m \in Pollers, NEW w \in Wakes, PendingScanned(m, w)
  PROVE  IInv'
  <1>1. PICK n \in SafeProgress(w) :
          scanned' = [scanned EXCEPT ![w] = IF n > scanned[w] THEN n ELSE scanned[w]]
    BY DEF PendingScanned
  <1>2. /\ n \in Nat /\ n < nextSeq
        /\ \A o \in Occurrences : (Class[o] = "match" /\ o > anchor[w].pos /\ receipt[o] > scanned[w])
                                    => receipt[o] > n
    BY ProgressSafe
  <1>3. poll[m].at = "pending" /\ arm[w] = "published" /\ Drop(m, w)
        /\ UNCHANGED <<arm, registered, anchor, reserved, desired, applied, seen, source, leases, file, reg, pub,
                       cancel, world>>
    BY DEF PendingScanned, Evaluable, Turn
  <1>4. PICK r \in PollRec : Goes(m, r) /\ r.at = poll[m].at /\ r.ends = poll[m].ends
    BY <1>3, DropStep
  <1>5. UNCHANGED lock BY <1>3, DropStep
  <1>6. Undisturbed(m) BY <1>3, <1>5, NoFileStep
  <1>7. poll'[m] = r BY <1>4, PollType DEF IInv
  <1>8. PollOK(m)'
    BY <1>3, <1>4, <1>7, PollFields DEF PollOK, Locked, Fires
  <1>9. scanned[w] \in Nat /\ nextSeq \in Nat /\ anchor[w].seq \in Nat
        /\ (IF n > scanned[w] THEN n ELSE scanned[w]) \in Nat
    BY <1>2 DEF IInv, TypeOK, ArmsType, SourceType
  <1>10. ArmsType'
    BY <1>1, <1>3, <1>9 DEF IInv, TypeOK, ArmsType
  <1>11. ASSUME NEW v \in Wakes PROVE WakeOK(v)'
    <2>1. WakeOK(v) /\ (HasFile(v) => HasFile(v)') BY <1>6 DEF IInv, JournalOK, Undisturbed
    <2>2. CASE v # w
      <3>1. scanned'[v] = scanned[v] BY <1>1, <2>2 DEF IInv, TypeOK, ArmsType
      <3> QED BY <1>3, <2>1, <3>1 DEF WakeOK, source
    <2>3. CASE v = w
      <3>1. scanned'[w] = IF n > scanned[w] THEN n ELSE scanned[w]
        BY <1>1 DEF IInv, TypeOK, ArmsType
      <3>2. scanned'[w] < nextSeq /\ scanned'[w] >= scanned[w]
        BY <1>2, <1>9, <2>1, <2>3, <3>1 DEF WakeOK
      <3>3. arm[w] \in Active => anchor[w].seq <= scanned'[w]
        BY <1>9, <2>1, <2>3, <3>1, <3>2 DEF WakeOK
      <3>4. ASSUME reserved[w] = 0, NEW o \in ingested, Class[o] = "match", o > anchor[w].pos, o > seen[w]
            PROVE  receipt[o] > scanned'[w]
        <4>1. o \in Occurrences BY DEF IInv, TypeOK, SourceType
        <4>2. receipt[o] > scanned[w] BY <1>3, <2>1, <2>3, <3>4 DEF WakeOK, Active
        <4> QED BY <1>2, <3>1, <3>4, <4>1, <4>2
      <3> QED BY <1>3, <2>1, <2>3, <3>2, <3>3, <3>4 DEF WakeOK, source
    <2> QED BY <2>2, <2>3
  <1>12. SourceType' /\ LeaseType' /\ JournalOK'
    BY <1>3, <1>6, <1>10, <1>11, JournalStep
  <1> QED BY <1>3, <1>4, <1>5, <1>6, <1>8, <1>10, <1>12, SameWorld, SameFiles, PollerStep

\* The sequences ingest gives to new receipts.
LEMMA Ranks ==
  ASSUME NEW new, IsFiniteSet(new), new \subseteq Nat, NEW o \in new
  PROVE  /\ Cardinality({p \in new : p < o}) \in Nat /\ Cardinality(new) \in Nat
         /\ Cardinality({p \in new : p < o}) < Cardinality(new)
  <1> DEFINE S == {p \in new : p < o}
  <1>1. IsFiniteSet(new \ {o}) /\ Cardinality(new \ {o}) = Cardinality(new) - 1
    BY FS_RemoveElement
  <1>2. S \in SUBSET (new \ {o}) OBVIOUS
  <1>3. Cardinality(new) \in Nat BY FS_CardinalityType
  <1> HIDE DEF S
  <1>4. IsFiniteSet(S) /\ Cardinality(S) <= Cardinality(new \ {o})
    BY <1>1, <1>2, FS_Subset
  <1>5. Cardinality(S) \in Nat BY <1>4, FS_CardinalityType
  <1>6. Cardinality(S) \in Nat /\ Cardinality(S) < Cardinality(new)
    BY <1>1, <1>3, <1>4, <1>5
  <1> QED BY <1>3, <1>6 DEF S

LEMMA IngestStep ==
  ASSUME IInv, NEW m \in Pollers, Ingest(m)
  PROVE  IInv'
  <1> DEFINE new == {o \in poll[m].batch : receipt[o] = 0}
             rank(o) == Cardinality({p \in new : p < o})
             total == Cardinality(new)
  <1>1. /\ receipt \in [Occurrences -> Nat] /\ nextSeq \in Nat \ {0} /\ checkpoint \in Nat
        /\ ingested \subseteq Occurrences
    BY DEF IInv, TypeOK, SourceType
  <1>2. new \subseteq Occurrences /\ new \subseteq Nat
    BY PollFields, JournalAssumption
  <1>3. /\ receipt' = [o \in Occurrences |-> IF o \in new THEN nextSeq + rank(o) ELSE receipt[o]]
        /\ nextSeq' = nextSeq + total
        /\ checkpoint' = poll[m].now /\ checkpoint <= poll[m].now
        /\ ingested' = ingested \cup new
        /\ lease' = [owner |-> 0, live |-> FALSE]
        /\ Sweeping(m)
        /\ UNCHANGED <<arms, generation, file, lock, reg, pub, cancel, world>>
    BY <1>1, PollFields DEF Ingest, IngestAllowed
  <1>4. \A o \in new : o <= poll[m].now
    BY PollFields DEF Ingest, PollOK
  <1> HIDE DEF new
  <1>5. IsFiniteSet(new) BY <1>2, JournalAssumption, FS_Subset
  <1>6. total \in Nat BY <1>5, FS_CardinalityType
  <1>7. \A o \in new : rank(o) \in Nat /\ rank(o) < total
    BY <1>2, <1>5, Ranks
  <1> HIDE DEF rank, total
  <1>8. \A o \in Occurrences : receipt'[o] = IF o \in new THEN nextSeq + rank(o) ELSE receipt[o]
    BY <1>3
  <1>9. SourceType'
    <2>1. receipt' \in [Occurrences -> Nat] BY <1>1, <1>3, <1>7
    <2>2. nextSeq' \in Nat \ {0} BY <1>1, <1>3, <1>6
    <2>3. checkpoint' \in Nat /\ ingested' \subseteq Occurrences BY <1>1, <1>2, <1>3, PollFields
    <2> QED BY <2>1, <2>2, <2>3 DEF SourceType
  <1>10. ArmsType'
    BY <1>3 DEF IInv, TypeOK, ArmsType, arms
  <1>11. LeaseType'
    <2>1. lease' \in [owner : Nat, live : BOOLEAN] BY <1>3
    <2> QED BY <1>3, <2>1 DEF IInv, TypeOK, LeaseType
  <1>12. SourceOK'
    <2>1. \A o \in ingested : o <= checkpoint /\ o \in Nat
      BY <1>1, JournalAssumption DEF IInv, JournalOK, SourceOK
    <2>2. \A o \in ingested' : o <= checkpoint'
      BY <1>1, <1>3, <1>4, <2>1, PollFields
    <2>3. \A o \in Occurrences : receipt[o] < nextSeq BY DEF IInv, JournalOK, SourceOK
    <2>4. \A o \in Occurrences : receipt'[o] < nextSeq'
      BY <1>1, <1>3, <1>6, <1>7, <1>8, <2>3
    <2> QED BY <2>2, <2>4 DEF SourceOK
  <1>13. ASSUME NEW c \in Registrars PROVE RegOK(c)'
    <2>1. RegOK(c) /\ lease'.owner = 0 /\ UNCHANGED <<reg, generation>>
      BY <1>3 DEF IInv, JournalOK
    <2> QED BY <2>1 DEF RegOK
  <1>14. Undisturbed(m) BY <1>3, NoFileStep
  <1>15. ASSUME NEW v \in Wakes PROVE WakeOK(v)'
    <2>1. WakeOK(v) /\ (HasFile(v) => HasFile(v)') /\ scanned[v] \in Nat
      BY <1>14 DEF IInv, JournalOK, Undisturbed, TypeOK, ArmsType
    <2>2. UNCHANGED <<arm, anchor, scanned, reserved, desired, seen>>
      BY <1>3 DEF arms
    <2>3. scanned[v] < nextSeq' BY <1>1, <1>3, <1>6, <2>1 DEF WakeOK
    <2>4. ASSUME arm[v] \in Active, reserved[v] = 0, NEW o \in ingested', Class[o] = "match", o > anchor[v].pos,
                 o > seen[v]
          PROVE  receipt'[o] > scanned[v]
      <3>1. o \in Occurrences BY <1>1, <1>2, <1>3
      <3>2. CASE o \in new
        <4>1. receipt'[o] = nextSeq + rank(o) /\ rank(o) \in Nat BY <1>7, <1>8, <3>1, <3>2
        <4> QED BY <1>1, <2>1, <4>1 DEF WakeOK
      <3>3. CASE o \notin new
        <4>1. receipt'[o] = receipt[o] /\ o \in ingested BY <1>3, <1>8, <3>1, <3>3
        <4> QED BY <2>1, <2>4, <4>1 DEF WakeOK
      <3> QED BY <3>2, <3>3
    <2> QED BY <2>1, <2>2, <2>3, <2>4 DEF WakeOK
  <1>16. JournalOK' BY <1>12, <1>13, <1>15 DEF JournalOK
  <1>17. PollOK(m)' /\ \E r \in PollRec : Goes(m, r)
    BY <1>3, SweepingStep
  <1> QED BY <1>3, <1>9, <1>10, <1>11, <1>14, <1>16, <1>17, SameWorld, SameFiles, PollerStep

LEMMA PollPublishStep ==
  ASSUME IInv, NEW m \in Pollers, NEW w \in Wakes, PollPublish(m, w)
  PROVE  IInv'
  <1> DEFINE r == [poll[m] EXCEPT !.todo = @ \ {w}]
             k == [at |-> "read", wake |-> w]
  <1>1. poll[m].todo \ {w} \in SUBSET Wakes BY PollFields
  <1>2. r \in PollRec /\ r.at = "publish" /\ r.ends = poll[m].ends
    BY <1>1, PollFields DEF PollPublish, PollRec
  <1>3. Goes(m, r) BY DEF PollPublish
  <1>4. k \in PubRec /\ k.wake = w /\ k.at = "read" BY DEF PubRec
  <1>5. pub' = [pub EXCEPT ![m] = k] \/ pub' = pub BY DEF PollPublish
  <1>6. UNCHANGED <<arms, source, leases, file, lock, reg, cancel, world>> BY DEF PollPublish
  <1> HIDE DEF r, k
  <1>7. /\ poll' \in [Pollers -> PollRec] /\ poll'[m] = r
        /\ \A n \in Pollers : n # m => poll'[n] = poll[n]
    BY <1>2, <1>3, PollType DEF IInv
  <1>8. PollOK(m)'
    BY <1>2, <1>6, <1>7, PollFields DEF PollOK, Locked, Fires
  <1>9. /\ pub' \in [Registrars \cup Pollers -> PubRec]
        /\ \A p \in Registrars \cup Pollers : pub'[p] = pub[p] \/ pub'[p] = k
    BY <1>4, <1>5 DEF IInv, TypeOK
  <1>10. \A p \in Registrars \cup Pollers : pub'[p] = pub[p] \/ PubOK(p)'
    BY <1>4, <1>9 DEF PubOK
  <1>11. TypeOK'
    BY <1>6, <1>7, <1>9, SameTypes DEF IInv, TypeOK
  <1>12. Undisturbed(m) /\ JournalOK' BY <1>6, NoFileStep, SameJournal
  <1>13. \A x \in Operators : x # m /\ cancel'[x] = cancel[x] BY <1>6, Disjoint
  <1> QED BY <1>7, <1>8, <1>10, <1>11, <1>12, <1>13, Assemble

-----------------------------------------------------------------------------
(* Registrars and publications.                                            *)

\* A step of a registrar, which touches neither files nor locks.
LEMMA RegistrarStep ==
  ASSUME IInv, NEW c \in Registrars, UNCHANGED <<file, lock, poll, cancel, world>>,
         ArmsType', SourceType', LeaseType', JournalOK', NEW k \in CallRec, reg' = [reg EXCEPT ![c] = k],
         NEW j \in PubRec, pub' = [pub EXCEPT ![c] = j] \/ pub' = pub, j.at = "read", j.wake \in Wakes
  PROVE  IInv'
  <1>1. c \notin Pollers /\ c \notin Operators BY JournalAssumption
  <1>2. Undisturbed(c) BY NoFileStep
  <1>3. reg' \in [Registrars -> CallRec] /\ pub' \in [Registrars \cup Pollers -> PubRec]
    BY DEF IInv, TypeOK
  <1>4. TypeOK'
    BY <1>3, SameWorld DEF IInv, TypeOK
  <1>5. \A p \in Registrars \cup Pollers : pub'[p] = pub[p] \/ pub'[p] = j
    BY DEF IInv, TypeOK
  <1>6. \A p \in Registrars \cup Pollers : pub'[p] = pub[p] \/ PubOK(p)'
    BY <1>5 DEF PubOK
  <1>7. \A n \in Pollers : n # c /\ poll'[n] = poll[n] BY <1>1
  <1>8. \A x \in Operators : x # c /\ cancel'[x] = cancel[x] BY <1>1
  <1> QED BY <1>2, <1>4, <1>6, <1>7, <1>8, Assemble

LEMMA ReadPub ==
  ASSUME NEW w \in Wakes
  PROVE  [at |-> "read", wake |-> w] \in PubRec
  BY DEF PubRec

LEMMA CallFields ==
  ASSUME IInv, NEW c \in Registrars
  PROVE  /\ reg[c] \in CallRec /\ reg[c].pos \in Nat /\ reg[c].seen \in Nat /\ reg[c].token \in Nat
         /\ RegOK(c) /\ NoCall \in CallRec /\ NoCall.at = "idle"
         /\ generation \in Nat /\ checkpoint \in Nat /\ nextSeq \in Nat \ {0} /\ emitted \in Nat
         /\ lease.owner \in Nat
  <1>1. reg[c] \in CallRec /\ RegOK(c) BY DEF IInv, TypeOK, JournalOK
  <1>2. NoCall \in CallRec /\ NoCall.at = "idle" BY Constants DEF NoCall
  <1>3. generation \in Nat /\ checkpoint \in Nat /\ nextSeq \in Nat \ {0} /\ emitted \in Nat
        /\ lease \in [owner : Nat, live : BOOLEAN]
    BY DEF IInv, TypeOK, SourceType, LeaseType, WorldType
  <1> QED BY <1>1, <1>2, <1>3 DEF CallRec

\* A call starts or ends, and the lease, if it changes, is given up.
LEMMA CallStep ==
  ASSUME IInv, NEW c \in Registrars, NEW k \in CallRec, reg' = [reg EXCEPT ![c] = k], k.at # "leased",
         k.at # "idle" => k.wake \in Wakes, LeaseType', UNCHANGED <<arms, source, generation, file>>,
         lease'.owner \in {lease.owner, 0}
  PROVE  ArmsType' /\ SourceType' /\ JournalOK'
  <1>1. ArmsType' /\ SourceType'
    BY DEF IInv, TypeOK, ArmsType, SourceType, arms, source
  <1>2. SourceOK' BY DEF IInv, JournalOK, SourceOK, source
  <1>3. ASSUME NEW b \in Registrars PROVE RegOK(b)'
    <2>1. reg'[b] = reg[b] \/ reg'[b] = k BY DEF IInv, TypeOK
    <2>2. RegOK(b) BY DEF IInv, JournalOK
    <2>3. CASE reg'[b] = k BY <2>3 DEF RegOK
    <2>4. CASE reg'[b] = reg[b] BY <2>2, <2>4 DEF RegOK, source
    <2> QED BY <2>1, <2>3, <2>4
  <1>4. ASSUME NEW w \in Wakes PROVE WakeOK(w)'
    BY DEF IInv, JournalOK, WakeOK, HasFile, arms, source
  <1> QED BY <1>1, <1>2, <1>3, <1>4 DEF JournalOK

LEMMA SameLease ==
  ASSUME IInv, UNCHANGED leases
  PROVE  LeaseType' /\ lease'.owner \in {lease.owner, 0} /\ generation' = generation
  BY DEF IInv, TypeOK, LeaseType, leases

LEMMA ArmCallStep ==
  ASSUME IInv, NEW c \in Registrars, NEW w \in Wakes, ArmCall(c, w)
  PROVE  IInv'
  <1> DEFINE k == [NoCall EXCEPT !.at = "called", !.wake = w, !.pos = emitted]
  <1>1. k \in CallRec /\ k.at = "called" /\ k.wake = w
    BY CallFields DEF CallRec, NoCall
  <1>2. reg' = [reg EXCEPT ![c] = k] /\ UNCHANGED <<arms, source, leases, file, lock, pub, poll, cancel, world>>
    BY DEF ArmCall
  <1> HIDE DEF k
  <1>3. ArmsType' /\ SourceType' /\ LeaseType' /\ JournalOK'
    BY <1>1, <1>2, SameLease, CallStep
  <1> QED BY <1>1, <1>2, <1>3, ReadPub, RegistrarStep

LEMMA ArmEndsStep ==
  ASSUME IInv, NEW c \in Registrars, ArmAgain(c) \/ ArmBusy(c) \/ ArmFail(c) \/ ArmLost(c)
  PROVE  IInv'
  <1> DEFINE w == reg[c].wake
             j == [at |-> "read", wake |-> w]
             none == [owner |-> 0, live |-> FALSE]
  <1>1. w \in Wakes
    BY CallFields DEF ArmAgain, ArmBusy, ArmFail, ArmLost, RegOK
  <1>2. /\ reg' = [reg EXCEPT ![c] = NoCall] /\ UNCHANGED <<arms, source, generation, file, lock, poll, cancel, world>>
        /\ lease' \in {lease, none}
        /\ pub' = [pub EXCEPT ![c] = j] \/ pub' = pub
    BY DEF ArmAgain, ArmBusy, ArmFail, ArmLost, leases
  <1>3. j \in PubRec /\ j.at = "read" /\ j.wake = w BY <1>1, ReadPub
  <1>4. none \in [owner : Nat, live : BOOLEAN] /\ none.owner = 0 OBVIOUS
  <1> HIDE DEF w, j, none
  <1>5. LeaseType' /\ lease'.owner \in {lease.owner, 0}
    BY <1>2, <1>4 DEF IInv, TypeOK, LeaseType
  <1>6. ArmsType' /\ SourceType' /\ JournalOK'
    BY <1>2, <1>5, CallFields, CallStep
  <1> QED BY <1>1, <1>2, <1>3, <1>5, <1>6, CallFields, RegistrarStep

LEMMA ArmLeaseStep ==
  ASSUME IInv, NEW c \in Registrars, ArmLease(c)
  PROVE  IInv'
  <1> DEFINE w == reg[c].wake
             g == generation + 1
             k == [reg[c] EXCEPT !.at = "leased", !.token = g, !.seen = checkpoint]
  <1>1. w \in Wakes /\ g \in Nat /\ g # 0 /\ generation < g
    BY CallFields DEF ArmLease, RegOK
  <1>2. k \in CallRec /\ k.at = "leased" /\ k.wake = w /\ k.token = g /\ k.seen = checkpoint
    BY <1>1, CallFields DEF CallRec
  <1>3. /\ reg' = [reg EXCEPT ![c] = k] /\ generation' = g /\ lease' = [owner |-> g, live |-> TRUE]
        /\ arm' = [arm EXCEPT ![w] = "preparing"]
        /\ registered' = [registered EXCEPT ![w] = reg[c].pos] \/ registered' = registered
        /\ arm[w] \in {"none", "preparing"}
        /\ UNCHANGED <<anchor, scanned, reserved, desired, applied, seen, source, file, lock, pub, poll, cancel, world>>
    <2>1. reg' = [reg EXCEPT ![c] = k]
      BY DEF ArmLease
    <2> QED BY <2>1 DEF ArmLease
  <1> HIDE DEF w, g, k
  <1>4. ArmsType'
    BY <1>1, <1>3, CallFields DEF IInv, TypeOK, ArmsType
  <1>5. SourceType' /\ SourceOK'
    BY <1>3 DEF IInv, TypeOK, SourceType, JournalOK, SourceOK, source
  <1>6. LeaseType'
    <2>1. [owner |-> g, live |-> TRUE] \in [owner : Nat, live : BOOLEAN] BY <1>1
    <2> QED BY <1>1, <1>3, <2>1 DEF LeaseType
  <1>7. ASSUME NEW b \in Registrars PROVE RegOK(b)'
    <2>1. lease'.owner = g /\ checkpoint' = checkpoint BY <1>3 DEF source
    <2>2. CASE b = c
      <3>1. reg'[c] = k BY <1>3 DEF IInv, TypeOK
      <3> QED BY <1>1, <1>2, <1>3, <2>1, <2>2, <3>1, CallFields DEF RegOK
    <2>3. CASE b # c
      <3>1. reg'[b] = reg[b] BY <1>3, <2>3 DEF IInv, TypeOK
      <3>2. reg[b].token \in Nat /\ RegOK(b) BY CallFields
      <3> QED BY <1>1, <1>3, <2>1, <3>1, <3>2, CallFields DEF RegOK
    <2> QED BY <2>2, <2>3
  <1>8. ASSUME NEW v \in Wakes PROVE WakeOK(v)'
    <2>1. WakeOK(v) BY DEF IInv, JournalOK
    <2>2. CASE v = w
      <3>1. arm'[v] = "preparing" BY <1>3, <2>2 DEF IInv, TypeOK, ArmsType
      <3> QED BY <1>3, <2>1, <3>1 DEF WakeOK, source, Active
    <2>3. CASE v # w
      <3>1. arm'[v] = arm[v] BY <1>3, <2>3 DEF IInv, TypeOK, ArmsType
      <3> QED BY <1>3, <2>1, <3>1 DEF WakeOK, HasFile, source
    <2> QED BY <2>2, <2>3
  <1>9. JournalOK' BY <1>5, <1>7, <1>8 DEF JournalOK
  <1> QED BY <1>1, <1>2, <1>3, <1>4, <1>5, <1>6, <1>9, ReadPub, RegistrarStep

\* No occurrence ingested so far is later than the checkpoint at the lease.
LEMMA ArmPrepareStep ==
  ASSUME IInv, NEW c \in Registrars, ArmPrepare(c)
  PROVE  IInv'
  <1> DEFINE w == reg[c].wake
             j == [at |-> "read", wake |-> w]
             a == [pos |-> reg[c].pos, seq |-> nextSeq - 1]
  <1>1. w \in Wakes /\ nextSeq - 1 \in Nat
    BY CallFields DEF ArmPrepare, RegOK
  <1>2. /\ reg' = [reg EXCEPT ![c] = NoCall] /\ lease' = [owner |-> 0, live |-> FALSE]
        /\ arm' = [arm EXCEPT ![w] = "prepared"]
        /\ anchor' = [anchor EXCEPT ![w] = a]
        /\ scanned' = [scanned EXCEPT ![w] = nextSeq - 1]
        /\ desired' = [desired EXCEPT ![w] = "pending"]
        /\ seen' = [seen EXCEPT ![w] = reg[c].seen]
        /\ pub' = [pub EXCEPT ![c] = j]
        /\ UNCHANGED <<registered, reserved, applied, source, generation, file, lock, poll, cancel, world>>
    BY DEF ArmPrepare
  <1>3. j \in PubRec /\ j.at = "read" /\ j.wake = w BY <1>1, ReadPub
  <1>4. a \in [pos : Nat, seq : Nat] /\ a.seq = nextSeq - 1 BY <1>1, CallFields
  <1>5. checkpoint <= reg[c].seen
    BY CallFields DEF ArmPrepare, LeaseHeld, RegOK
  <1> HIDE DEF w, j, a
  <1>6. ArmsType'
    BY <1>1, <1>2, <1>4, CallFields DEF IInv, TypeOK, ArmsType, Active, Dirs
  <1>7. SourceType' /\ SourceOK'
    BY <1>2 DEF IInv, TypeOK, SourceType, JournalOK, SourceOK, source
  <1>8. LeaseType'
    <2>1. [owner |-> 0, live |-> FALSE] \in [owner : Nat, live : BOOLEAN] OBVIOUS
    <2> QED BY <1>2, <2>1, CallFields DEF LeaseType
  <1>9. ASSUME NEW b \in Registrars PROVE RegOK(b)'
    <2>1. lease'.owner = 0 BY <1>2
    <2>2. reg'[b] = reg[b] \/ reg'[b] = NoCall BY <1>2 DEF IInv, TypeOK
    <2>3. RegOK(b) /\ NoCall.at = "idle" BY CallFields
    <2> QED BY <1>2, <2>1, <2>2, <2>3 DEF RegOK
  <1>10. ASSUME NEW v \in Wakes PROVE WakeOK(v)'
    <2>1. WakeOK(v) BY DEF IInv, JournalOK
    <2>2. CASE v = w
      <3>1. arm'[v] = "prepared" /\ scanned'[v] = nextSeq - 1 /\ anchor'[v].seq = nextSeq - 1 /\ seen'[v] = reg[c].seen
        BY <1>2, <1>4, <2>2 DEF IInv, TypeOK, ArmsType
      <3>2. \A o \in ingested : ~(o > seen'[v])
        BY <1>5, <3>1, CallFields, JournalAssumption DEF IInv, JournalOK, SourceOK, TypeOK, SourceType
      <3> QED BY <1>1, <1>2, <3>1, <3>2, CallFields DEF WakeOK, source
    <2>3. CASE v # w
      <3>1. /\ arm'[v] = arm[v] /\ scanned'[v] = scanned[v] /\ anchor'[v] = anchor[v] /\ seen'[v] = seen[v]
            /\ desired'[v] = desired[v]
        BY <1>2, <2>3 DEF IInv, TypeOK, ArmsType
      <3> QED BY <1>2, <2>1, <3>1 DEF WakeOK, HasFile, source
    <2> QED BY <2>2, <2>3
  <1>11. JournalOK' BY <1>7, <1>9, <1>10 DEF JournalOK
  <1> QED BY <1>1, <1>2, <1>3, <1>6, <1>7, <1>8, <1>11, CallFields, RegistrarStep

\* A publication's step: no poller, registrar or operator relies on less.
LEMMA PublishStep ==
  ASSUME IInv, NEW p \in Registrars \cup Pollers, NEW j \in PubRec, pub' = [pub EXCEPT ![p] = j], PubOK(p)',
         UNCHANGED <<source, leases, lock, reg, poll, cancel, world>>, ArmsType', JournalOK',
         file' \in [Wakes -> [Dirs -> Copy \cup {Nobody}]], Undisturbed(Nobody)
  PROVE  IInv'
  <1>1. SourceType' /\ LeaseType'
    BY DEF IInv, TypeOK, SourceType, LeaseType, source, leases
  <1>2. pub' \in [Registrars \cup Pollers -> PubRec] /\ \A q \in Registrars \cup Pollers : q # p => pub'[q] = pub[q]
    BY DEF IInv, TypeOK
  <1>3. TypeOK'
    BY <1>1, <1>2, SameWorld DEF IInv, TypeOK
  <1>4. \A n \in Pollers : n # Nobody /\ poll'[n] = poll[n] BY Constants DEF Processes
  <1>5. \A x \in Operators : x # Nobody /\ cancel'[x] = cancel[x] BY Constants DEF Processes
  <1> QED BY <1>2, <1>3, <1>4, <1>5, Assemble

LEMMA PubFields ==
  ASSUME IInv, NEW p \in Registrars \cup Pollers, pub[p].at # "idle"
  PROVE  /\ pub[p] \in PubRec /\ pub[p].wake \in Wakes
         /\ pub[p].at = "written" => HasFile(pub[p].wake)
         /\ NoPub \in PubRec /\ NoPub.at = "idle"
  <1>1. NoPub.at = "idle" BY DEF NoPub
  <1> QED BY <1>1, Constants DEF IInv, TypeOK, ProcsOK, PubOK

LEMMA PubWriteStep ==
  ASSUME IInv, NEW p \in Registrars \cup Pollers, PubWrite(p)
  PROVE  IInv'
  <1> DEFINE w == pub[p].wake
             j == [pub[p] EXCEPT !.at = "written"]
  <1>1. pub[p].at # "idle" BY DEF PubWrite
  <1>2. w \in Wakes /\ NoPub \in PubRec /\ NoPub.at = "idle" BY <1>1, PubFields
  <1>3. j \in PubRec /\ j.at = "written" /\ j.wake = w BY <1>1, PubFields DEF PubRec
  <1>4. UNCHANGED <<arms, source, leases, lock, reg, poll, cancel, world>> BY DEF PubWrite
  <1>5. ArmsType' BY <1>4 DEF IInv, TypeOK, ArmsType, arms
  <1>6. pub \in [Registrars \cup Pollers -> PubRec] BY DEF IInv, TypeOK
  <1>7. pub' = [pub EXCEPT ![p].at = "written"] => pub' = [pub EXCEPT ![p] = j]
    BY <1>6
  <1>8. CASE file[w]["pending"] \notin {Nobody, Payload}
    <2>1. pub' = [pub EXCEPT ![p] = NoPub] /\ UNCHANGED file BY <1>8 DEF PubWrite
    <2>2. Undisturbed(Nobody) BY <1>4, <2>1, NoFileStep
    <2>3. JournalOK' BY <1>4, <2>2, SameJournal
    <2>4. PubOK(p)' BY <1>2, <1>6, <2>1 DEF PubOK
    <2> QED BY <1>2, <1>4, <1>5, <2>1, <2>2, <2>3, <2>4, SameFiles, PublishStep
  <1>9. CASE file[w]["pending"] = Payload
    <2>1. pub' = [pub EXCEPT ![p] = j] /\ UNCHANGED file BY <1>7, <1>9, Constants DEF PubWrite
    <2>2. Undisturbed(Nobody) BY <1>4, <2>1, NoFileStep
    <2>3. JournalOK' BY <1>4, <2>2, SameJournal
    <2>4. pub'[p] = j BY <1>6, <2>1
    <2>5. HasFile(w)' BY <1>9, <2>1, Constants, Dirs6 DEF HasFile
    <2> HIDE DEF j
    <2>6. PubOK(p)' BY <1>2, <1>3, <2>4, <2>5 DEF PubOK, HasFile
    <2> QED BY <1>3, <1>4, <1>5, <2>1, <2>2, <2>3, <2>6, SameFiles, PublishStep
  <1>10. CASE file[w]["pending"] = Nobody
    <2>1. pub' = [pub EXCEPT ![p] = j] /\ Put(w, "pending", Payload) BY <1>7, <1>10, Constants DEF PubWrite
    <2> HIDE DEF w
    <2>2. /\ Undisturbed(Nobody)
          /\ file' \in [Wakes -> [Dirs -> Copy \cup {Nobody}]]
          /\ file'[w]["pending"] # Nobody
      BY <1>2, <1>4, <2>1, Constants, Dirs6, PutStep DEF IInv
    <2>3. JournalOK' BY <1>4, <2>2, SameJournal
    <2>4. pub'[p] = j BY <1>6, <2>1
    <2>5. \E d \in Dirs : file'[w][d] # Nobody BY <2>2, Dirs6
    <2> HIDE DEF j
    <2>6. PubOK(p)' BY <1>2, <1>3, <2>4, <2>5 DEF PubOK, HasFile
    <2> QED BY <1>3, <1>4, <1>5, <2>1, <2>2, <2>3, <2>6, PublishStep
  <1> QED BY <1>8, <1>9, <1>10

LEMMA PubCommitStep ==
  ASSUME IInv, NEW p \in Registrars \cup Pollers, PubCommit(p)
  PROVE  IInv'
  <1> DEFINE w == pub[p].wake
  <1>1. pub[p].at # "idle" /\ pub[p].at = "written" BY DEF PubCommit
  <1>2. w \in Wakes /\ HasFile(w) /\ NoPub \in PubRec /\ NoPub.at = "idle" BY <1>1, PubFields
  <1>3. /\ pub' = [pub EXCEPT ![p] = NoPub]
        /\ UNCHANGED <<registered, anchor, scanned, reserved, desired, seen, source, leases, file, lock, reg, poll,
                       cancel, world>>
        /\ (arm[w] \in Active /\ arm' = [arm EXCEPT ![w] = "published"]) \/ arm' = arm
        /\ applied' = [applied EXCEPT ![w] = "pending"] \/ applied' = applied
    BY DEF PubCommit
  <1> HIDE DEF w
  <1>4. ArmsType' BY <1>2, <1>3 DEF IInv, TypeOK, ArmsType, Active, Dirs
  <1>5. Undisturbed(Nobody) BY <1>3, NoFileStep
  <1>6. ASSUME NEW v \in Wakes PROVE WakeOK(v)'
    <2>1. WakeOK(v) BY DEF IInv, JournalOK
    <2>2. arm'[v] = arm[v] \/ (v = w /\ arm[v] \in Active /\ arm'[v] = "published")
      BY <1>2, <1>3 DEF IInv, TypeOK, ArmsType
    <2>3. CASE arm'[v] = arm[v]
      BY <1>3, <2>1, <2>3 DEF WakeOK, HasFile, source
    <2>4. CASE v = w /\ arm[v] \in Active /\ arm'[v] = "published"
      <3>1. HasFile(v)' BY <1>2, <1>3, <2>4 DEF HasFile
      <3> QED BY <1>3, <2>1, <2>4, <3>1 DEF WakeOK, source
    <2> QED BY <2>2, <2>3, <2>4
  <1>7. JournalOK' BY <1>2, <1>3, <1>4, <1>5, <1>6, JournalStep
  <1>8. pub'[p] = NoPub BY <1>3 DEF IInv, TypeOK
  <1>9. PubOK(p)' BY <1>2, <1>8 DEF PubOK
  <1> QED BY <1>2, <1>3, <1>4, <1>5, <1>7, <1>9, SameFiles, PublishStep

-----------------------------------------------------------------------------
(* Cancellation.                                                           *)

LEMMA OperatorStep ==
  ASSUME IInv, NEW x \in Operators, NEW k \in CancelRec, cancel' = [cancel EXCEPT ![x] = k], CancelOK(x)',
         UNCHANGED <<source, leases, reg, pub, poll>>, ArmsType', WorldType', JournalOK', Undisturbed(x),
         file' \in [Wakes -> [Dirs -> Copy \cup {Nobody}]], lock' \in [Wakes -> Processes \cup {Nobody}]
  PROVE  IInv'
  <1>1. x \notin Pollers BY JournalAssumption
  <1>2. SourceType' /\ LeaseType'
    BY DEF IInv, TypeOK, SourceType, LeaseType, source, leases
  <1>3. cancel' \in [Operators -> CancelRec] /\ \A y \in Operators : y # x => cancel'[y] = cancel[y]
    BY DEF IInv, TypeOK
  <1>4. TypeOK'
    BY <1>2, <1>3 DEF IInv, TypeOK
  <1>5. \A n \in Pollers : n # x /\ poll'[n] = poll[n] BY <1>1
  <1> QED BY <1>3, <1>4, <1>5, Assemble

LEMMA CancelFields ==
  ASSUME IInv, NEW x \in Operators, cancel[x].at # "idle"
  PROVE  /\ cancel[x] \in CancelRec /\ cancel[x].wake \in Wakes /\ lock[cancel[x].wake] = x
         /\ file[cancel[x].wake]["cancelled"] # Nobody /\ Ended(cancel[x].wake) /\ HasFile(cancel[x].wake)
         /\ cancel[x].from \in {"pending", "firing"}
  <1>1. cancel[x] \in CancelRec /\ CancelOK(x) BY DEF IInv, TypeOK, ProcsOK
  <1> QED BY <1>1, Dirs6 DEF CancelOK, Ended, HasFile

LEMMA CancelWriteStep ==
  ASSUME IInv, NEW x \in Operators, NEW w \in Wakes, CancelWrite(x, w)
  PROVE  IInv'
  <1> DEFINE from == IF file[w]["pending"] # Nobody THEN "pending" ELSE "firing"
             c == Touched(file[w][from])
             k == [at |-> "written", wake |-> w, from |-> from]
  <1>1. from \in {"pending", "firing"} /\ from \in Dirs /\ file[w][from] # Nobody
    BY Dirs6 DEF CancelWrite
  <1>2. c \in Copy BY <1>1, SameFiles, Copies
  <1>3. /\ Put(w, "cancelled", c) /\ lock[w] = Nobody /\ lock' = [lock EXCEPT ![w] = x]
        /\ cancel' = [cancel EXCEPT ![x] = k]
        /\ UNCHANGED <<arms, source, leases, reg, pub, poll, world>>
    BY DEF CancelWrite
  <1>4. k \in CancelRec /\ k.at = "written" /\ k.wake = w /\ k.from = from
    BY <1>1 DEF CancelRec
  <1> HIDE DEF from, c, k
  <1>5. x \in Processes BY DEF Processes
  <1>6. /\ lock' \in [Wakes -> Processes \cup {Nobody}] /\ lock'[w] = x
        /\ \A v \in Wakes : v # w => lock'[v] = lock[v]
    BY <1>3, <1>5, LockType DEF IInv
  <1>7. \A v \in Wakes, n \in Processes : n # x /\ lock[v] = n => lock'[v] = n
    BY <1>3, <1>6, Constants
  <1>8. /\ Undisturbed(x)
        /\ file' \in [Wakes -> [Dirs -> Copy \cup {Nobody}]]
        /\ file'[w]["cancelled"] # Nobody
    BY <1>2, <1>3, <1>7, Dirs6, PutStep DEF IInv
  <1>9. cancel'[x] = k BY <1>3 DEF IInv, TypeOK
  <1>10. CancelOK(x)' BY <1>1, <1>4, <1>6, <1>8, <1>9 DEF CancelOK
  <1>11. ArmsType' BY <1>3 DEF IInv, TypeOK, ArmsType, arms
  <1> QED BY <1>3, <1>4, <1>6, <1>8, <1>10, <1>11, SameWorld, SameJournal, OperatorStep

\* The next step of the same cancellation.
LEMMA CancelTo ==
  ASSUME IInv, NEW x \in Operators, cancel[x].at # "idle", NEW step \in {"written", "unlinked", "retired"},
         cancel' = [cancel EXCEPT ![x].at = step]
  PROVE  \E k \in CancelRec : /\ cancel' = [cancel EXCEPT ![x] = k] /\ cancel'[x] = k
                              /\ k.at = step /\ k.wake = cancel[x].wake /\ k.from = cancel[x].from
  <1> DEFINE k == [cancel[x] EXCEPT !.at = step]
  <1>1. k \in CancelRec /\ k.at = step /\ k.wake = cancel[x].wake /\ k.from = cancel[x].from
    BY CancelFields DEF CancelRec
  <1>2. cancel' = [cancel EXCEPT ![x] = k] /\ cancel'[x] = k BY DEF IInv, TypeOK
  <1> QED BY <1>1, <1>2

LEMMA CancelUnlinkStep ==
  ASSUME IInv, NEW x \in Operators, CancelUnlink(x)
  PROVE  IInv'
  <1> DEFINE w == cancel[x].wake
             d == cancel[x].from
  <1>1. cancel[x].at # "idle" BY DEF CancelUnlink
  <1>2. w \in Wakes /\ lock[w] = x /\ file[w]["cancelled"] # Nobody /\ d \in {"pending", "firing"}
    BY <1>1, CancelFields
  <1>3. Unlink(w, d) /\ UNCHANGED <<arms, source, leases, lock, reg, pub, poll, world>> BY DEF CancelUnlink
  <1>4. PICK k \in CancelRec : /\ cancel' = [cancel EXCEPT ![x] = k] /\ cancel'[x] = k
                               /\ k.at = "unlinked" /\ k.wake = w /\ k.from = d
    BY <1>1, CancelTo DEF CancelUnlink
  <1> HIDE DEF w, d
  <1>5. x \in Processes BY DEF Processes
  <1>6. /\ Undisturbed(x)
        /\ file' \in [Wakes -> [Dirs -> Copy \cup {Nobody}]]
        /\ \A v \in Wakes, e \in Dirs : v # w \/ e # d => file'[v][e] = file[v][e]
    BY <1>2, <1>3, <1>5, Dirs6, SameFiles, UnlinkStep DEF IInv
  <1>7. CancelOK(x)' BY <1>2, <1>3, <1>4, <1>6, Dirs6 DEF CancelOK
  <1>8. ArmsType' BY <1>3 DEF IInv, TypeOK, ArmsType, arms
  <1> QED BY <1>3, <1>4, <1>6, <1>7, <1>8, SameWorld, SameFiles, SameJournal, OperatorStep

LEMMA CancelRetireStep ==
  ASSUME IInv, NEW x \in Operators, CancelRetire(x)
  PROVE  IInv'
  <1> DEFINE w == cancel[x].wake
  <1>1. cancel[x].at # "idle" BY DEF CancelRetire
  <1>2. w \in Wakes /\ lock[w] = x /\ file[w]["cancelled"] # Nobody /\ HasFile(w)
        /\ cancel[x].from \in {"pending", "firing"}
    BY <1>1, CancelFields
  <1>3. (Retire(w, "cancelled") \/ UNCHANGED arms) /\ UNCHANGED <<source, leases, file, lock, reg, pub, poll, world>>
    BY DEF CancelRetire
  <1>4. PICK k \in CancelRec : /\ cancel' = [cancel EXCEPT ![x] = k] /\ cancel'[x] = k
                               /\ k.at = "retired" /\ k.wake = w /\ k.from = cancel[x].from
    BY <1>1, CancelTo DEF CancelRetire
  <1> HIDE DEF w
  <1>5. Undisturbed(x) BY <1>3, NoFileStep
  <1>6. CancelOK(x)' BY <1>2, <1>3, <1>4 DEF CancelOK
  <1>7. ArmsType' /\ JournalOK'
    <2>1. CASE Retire(w, "cancelled") BY <1>2, <1>3, <1>5, <2>1, Dirs6, RetireStep
    <2>2. CASE UNCHANGED arms
      <3>1. ArmsType' BY <2>2 DEF IInv, TypeOK, ArmsType, arms
      <3> QED BY <1>3, <1>5, <2>2, <3>1, SameJournal
    <2> QED BY <1>3, <2>1, <2>2
  <1> QED BY <1>3, <1>4, <1>5, <1>6, <1>7, SameWorld, SameFiles, OperatorStep

LEMMA CancelDoneStep ==
  ASSUME IInv, NEW x \in Operators, CancelDone(x)
  PROVE  IInv'
  <1> DEFINE w == cancel[x].wake
  <1>1. cancel[x].at # "idle" BY DEF CancelDone
  <1>2. w \in Wakes /\ lock[w] = x /\ file[w]["cancelled"] # Nobody /\ Ended(w)
    BY <1>1, CancelFields
  <1>3. /\ lock' = [lock EXCEPT ![w] = Nobody] /\ cancel' = [cancel EXCEPT ![x] = NoCancel]
        /\ cancelled' = [cancelled EXCEPT ![w] = TRUE]
        /\ UNCHANGED <<arms, source, leases, file, reg, pub, poll, emitted, late, prompts, crashes>>
    BY DEF CancelDone
  <1> HIDE DEF w
  <1>4. x \in Processes BY DEF Processes
  <1>5. /\ lock' \in [Wakes -> Processes \cup {Nobody}]
        /\ \A v \in Wakes : v # w => lock'[v] = lock[v]
    BY <1>2, <1>3, LockType DEF IInv
  <1>6. \A v \in Wakes, n \in Processes : n # x /\ lock[v] = n => lock'[v] = n
    BY <1>2, <1>5
  <1>7. Undisturbed(x) /\ file' \in [Wakes -> [Dirs -> Copy \cup {Nobody}]]
    BY <1>2, <1>3, <1>4, LockStep DEF IInv, TypeOK
  <1>8. NoCancel \in CancelRec /\ NoCancel.at = "idle" BY Constants DEF NoCancel
  <1>9. cancel'[x] = NoCancel BY <1>3 DEF IInv, TypeOK
  <1>10. CancelOK(x)' BY <1>8, <1>9 DEF CancelOK
  <1>11. ArmsType' BY <1>3 DEF IInv, TypeOK, ArmsType, arms
  <1>12. WorldType' BY <1>2, <1>3 DEF IInv, TypeOK, WorldType
  <1> QED BY <1>3, <1>5, <1>7, <1>8, <1>10, <1>11, <1>12, SameJournal, OperatorStep

-----------------------------------------------------------------------------
(* Retention, the source, time and crashes.                                *)

\* A step of no process in particular.
LEMMA EnvironmentStep ==
  ASSUME IInv, UNCHANGED <<arms, file, lock, reg, pub, poll, cancel>>, SourceType', LeaseType', WorldType',
         JournalOK'
  PROVE  IInv'
  <1>1. ArmsType' BY DEF IInv, TypeOK, ArmsType, arms
  <1>2. TypeOK' BY <1>1 DEF IInv, TypeOK
  <1>3. Undisturbed(Nobody) BY NoFileStep
  <1>4. \A n \in Pollers : n # Nobody /\ poll'[n] = poll[n] BY Constants DEF Processes
  <1>5. \A x \in Operators : x # Nobody /\ cancel'[x] = cancel[x] BY Constants DEF Processes
  <1> QED BY <1>2, <1>3, <1>4, <1>5, Assemble

\* A receipt ahead of some wake's scan is after its anchor, so it is pinned.
LEMMA CompactStep ==
  ASSUME IInv, NEW through, Compact(through)
  PROVE  IInv'
  <1>1. /\ receipt' = [o \in Occurrences |-> IF receipt[o] <= through /\ ~Pinned(o) THEN 0 ELSE receipt[o]]
        /\ UNCHANGED <<arms, nextSeq, checkpoint, ingested, leases, file, lock, reg, pub, poll, cancel, world>>
    BY DEF Compact
  <1>2. receipt \in [Occurrences -> Nat] /\ nextSeq \in Nat \ {0} /\ ingested \subseteq Occurrences
    BY DEF IInv, TypeOK, SourceType
  <1>3. SourceType' BY <1>1, <1>2 DEF IInv, TypeOK, SourceType
  <1>4. LeaseType' BY <1>1, SameLease DEF IInv
  <1>5. SourceOK'
    BY <1>1, <1>2 DEF IInv, JournalOK, SourceOK
  <1>6. ASSUME NEW c \in Registrars PROVE RegOK(c)'
    BY <1>1 DEF IInv, JournalOK, RegOK, leases
  <1>7. ASSUME NEW w \in Wakes PROVE WakeOK(w)'
    <2>1. WakeOK(w) /\ scanned[w] \in Nat /\ anchor[w].seq \in Nat
      BY DEF IInv, JournalOK, TypeOK, ArmsType
    <2>2. UNCHANGED <<arm, anchor, scanned, reserved, desired, seen, file, nextSeq>> BY <1>1 DEF arms
    <2>3. ASSUME arm[w] \in Active, NEW o \in ingested, receipt[o] > scanned[w]
          PROVE  receipt'[o] > scanned[w]
      <3>1. o \in Occurrences /\ receipt[o] \in Nat BY <1>2
      <3>2. receipt[o] > anchor[w].seq BY <2>1, <2>3, <3>1 DEF WakeOK
      <3>3. Pinned(o) BY <2>3, <3>2 DEF Pinned
      <3> QED BY <1>1, <2>3, <3>1, <3>3
    <2> QED BY <1>1, <2>1, <2>2, <2>3 DEF WakeOK, HasFile
  <1>8. JournalOK' BY <1>5, <1>6, <1>7 DEF JournalOK
  <1> QED BY <1>1, <1>3, <1>4, <1>8, SameWorld, EnvironmentStep

LEMMA ClockStep ==
  ASSUME IInv, Emit \/ Deadline
  PROVE  IInv'
  <1>1. UNCHANGED <<arms, source, leases, file, lock, reg, pub, poll, cancel>>
    BY DEF Emit, Deadline
  <1>2. WorldType'
    <2>1. WorldType BY DEF IInv, TypeOK
    <2>2. late' \in BOOLEAN BY <2>1, Zenon DEF Emit, Deadline, WorldType
    <2>3. emitted' \in Nat BY <2>1 DEF Emit, Deadline, WorldType
    <2>4. UNCHANGED <<prompts, crashes, cancelled>> BY DEF Emit, Deadline
    <2> QED BY <2>1, <2>2, <2>3, <2>4 DEF WorldType
  <1>3. SourceType' BY <1>1 DEF IInv, TypeOK, SourceType, source
  <1>4. Undisturbed(Nobody) BY <1>1, NoFileStep
  <1>5. JournalOK' BY <1>1, <1>4, SameJournal
  <1> QED BY <1>1, <1>2, <1>3, <1>5, SameLease, EnvironmentStep

LEMMA LeaseExpiresStep ==
  ASSUME IInv, LeaseExpires
  PROVE  IInv'
  <1>1. lease \in [owner : Nat, live : BOOLEAN] BY DEF IInv, TypeOK, LeaseType
  <1>2. lease' \in [owner : Nat, live : BOOLEAN] /\ lease'.owner = lease.owner BY <1>1 DEF LeaseExpires
  <1>3. UNCHANGED <<arms, source, generation, file, lock, reg, pub, poll, cancel, world>> BY DEF LeaseExpires
  <1>4. LeaseType' BY <1>2, <1>3 DEF IInv, TypeOK, LeaseType
  <1>5. SourceType' /\ SourceOK' BY <1>3 DEF IInv, TypeOK, SourceType, JournalOK, SourceOK, source
  <1>6. ASSUME NEW c \in Registrars PROVE RegOK(c)'
    BY <1>2, <1>3 DEF IInv, JournalOK, RegOK, source
  <1>7. ASSUME NEW w \in Wakes PROVE WakeOK(w)'
    BY <1>3 DEF IInv, JournalOK, WakeOK, HasFile, arms, source
  <1>8. JournalOK' BY <1>5, <1>6, <1>7 DEF JournalOK
  <1> QED BY <1>3, <1>4, <1>5, <1>8, SameWorld, EnvironmentStep

LEMMA CrashStep ==
  ASSUME IInv, NEW p \in Processes, Crash(p)
  PROVE  IInv'
  <1>1. NoCall \in CallRec /\ NoPub \in PubRec /\ NoPoll \in PollRec /\ NoCancel \in CancelRec
        /\ NoCall.at = "idle" /\ NoPub.at = "idle" /\ NoPoll.at = "idle" /\ NoPoll.ends = {} /\ NoCancel.at = "idle"
    BY Constants DEF NoCall, NoPub, NoPoll, NoCancel
  <1>2. /\ reg' = [c \in Registrars |-> IF c = p THEN NoCall ELSE reg[c]]
        /\ pub' = [q \in Registrars \cup Pollers |-> IF q = p THEN NoPub ELSE pub[q]]
        /\ poll' = [m \in Pollers |-> IF m = p THEN NoPoll ELSE poll[m]]
        /\ cancel' = [x \in Operators |-> IF x = p THEN NoCancel ELSE cancel[x]]
        /\ lock' = [w \in Wakes |-> IF lock[w] = p THEN Nobody ELSE lock[w]]
        /\ UNCHANGED <<arms, source, leases, file, emitted, late, prompts, cancelled>>
    BY DEF Crash
  <1>3. /\ reg' \in [Registrars -> CallRec] /\ pub' \in [Registrars \cup Pollers -> PubRec]
        /\ poll' \in [Pollers -> PollRec] /\ cancel' \in [Operators -> CancelRec]
        /\ lock' \in [Wakes -> Processes \cup {Nobody}]
    BY <1>1, <1>2 DEF IInv, TypeOK
  <1>4. ArmsType' /\ SourceType' /\ LeaseType'
    BY <1>2 DEF IInv, TypeOK, ArmsType, SourceType, LeaseType, arms, source, leases
  <1>5. WorldType' BY <1>2 DEF Crash, IInv, TypeOK, WorldType
  <1>6. TypeOK' BY <1>2, <1>3, <1>4, <1>5 DEF IInv, TypeOK
  <1>7. Undisturbed(p) BY <1>2 DEF Undisturbed, HasFile, Ended
  <1>8. ASSUME NEW n \in Pollers PROVE (n # p /\ poll'[n] = poll[n]) \/ PollOK(n)'
    <2>1. CASE n # p BY <1>2, <2>1
    <2>2. CASE n = p
      <3>1. poll'[n] = NoPoll BY <1>2, <2>2
      <3> QED BY <1>1, <3>1 DEF PollOK, Locked, Fires
    <2> QED BY <2>1, <2>2
  <1>9. ASSUME NEW q \in Registrars \cup Pollers PROVE pub'[q] = pub[q] \/ PubOK(q)'
    BY <1>1, <1>2 DEF PubOK
  <1>10. ASSUME NEW x \in Operators PROVE (x # p /\ cancel'[x] = cancel[x]) \/ CancelOK(x)'
    BY <1>1, <1>2 DEF CancelOK
  <1>11. JournalOK'
    <2>1. SourceOK' BY <1>2 DEF IInv, JournalOK, SourceOK, source
    <2>2. ASSUME NEW c \in Registrars PROVE RegOK(c)'
      <3>1. reg'[c] = reg[c] \/ reg'[c] = NoCall BY <1>2
      <3>2. RegOK(c) BY DEF IInv, JournalOK
      <3> QED BY <1>1, <1>2, <3>1, <3>2 DEF RegOK, source, leases
    <2>3. ASSUME NEW w \in Wakes PROVE WakeOK(w)'
      BY <1>2 DEF IInv, JournalOK, WakeOK, HasFile, arms, source
    <2> QED BY <2>1, <2>2, <2>3 DEF JournalOK
  <1> QED BY <1>6, <1>7, <1>8, <1>9, <1>10, <1>11, Assemble

-----------------------------------------------------------------------------
(* The theorems.                                                           *)

LEMMA InitIInv == Init => IInv
  <1> SUFFICES ASSUME Init PROVE IInv OBVIOUS
  <1>1. NoCall \in CallRec /\ NoPub \in PubRec /\ NoPoll \in PollRec /\ NoCancel \in CancelRec
        /\ NoCall.at = "idle" /\ NoPub.at = "idle" /\ NoPoll.at = "idle" /\ NoPoll.ends = {} /\ NoCancel.at = "idle"
    BY Constants DEF NoCall, NoPub, NoPoll, NoCancel
  <1>2. ArmsType /\ SourceType /\ WorldType
    <2>1. ArmsType BY DEF Init, ArmsType
    <2>2. SourceType BY DEF Init, SourceType
    <2>3. late \in BOOLEAN /\ cancelled \in [Wakes -> BOOLEAN] BY Zenon DEF Init
    <2>4. emitted \in Nat /\ prompts \in [Wakes -> Nat] /\ crashes \in Nat BY DEF Init
    <2> QED BY <2>1, <2>2, <2>3, <2>4 DEF WorldType
  <1>3. LeaseType
    <2>1. [owner |-> 0, live |-> FALSE] \in [owner : Nat, live : BOOLEAN] OBVIOUS
    <2> QED BY <2>1 DEF Init, LeaseType
  <1>4. TypeOK BY <1>1, <1>2, <1>3 DEF Init, TypeOK
  <1>5. ProcsOK
    BY <1>1 DEF Init, ProcsOK, PollOK, PubOK, CancelOK, Locked, Fires
  <1>6. JournalOK
    BY <1>1 DEF Init, JournalOK, SourceOK, RegOK, WakeOK, Active
  <1> QED BY <1>4, <1>5, <1>6 DEF IInv

LEMMA StepIInv == IInv /\ [Next]_vars => IInv'
  <1> SUFFICES ASSUME IInv, [Next]_vars PROVE IInv' OBVIOUS
  <1>1. ASSUME NEW c \in Registrars, Register(c) PROVE IInv'
    BY <1>1, ArmCallStep, ArmEndsStep, ArmLeaseStep, ArmPrepareStep DEF Register
  <1>2. ASSUME NEW p \in Registrars \cup Pollers, Publish(p) PROVE IInv'
    BY <1>2, PubWriteStep, PubCommitStep DEF Publish
  <1>3. ASSUME NEW m \in Pollers, NEW w \in Wakes, PollWake(m, w) PROVE IInv'
    BY <1>3, PollPublishStep, SkipStep, PendingRetiredStep, PendingExpiredStep, PendingMatchedStep,
       PendingScannedStep, PendingReservedStep, DispatchRouteStep DEF PollWake
  <1>4. ASSUME NEW m \in Pollers, PollStep(m) PROVE IInv'
    BY <1>4, PollStartStep, PollPublishedStep, ObserveStep, ObserveFailsStep, IngestStep, SweepRetireStep,
       SweepUnlinkStep, SweepDoneStep, MatchWriteStep, MatchUnlinkStep, MatchCommitStep, PlaceStep, UnplaceStep,
       PendingDoneStep, DispatchUnsafeStep, DispatchCountStep, DispatchPasteStep, DispatchEndsStep, PollDoneStep
    DEF PollStep
  <1>5. ASSUME NEW x \in Operators, CancelStep(x) PROVE IInv'
    BY <1>5, CancelWriteStep, CancelUnlinkStep, CancelRetireStep, CancelDoneStep DEF CancelStep
  <1>6. CASE UNCHANGED vars
    <2>1. UNCHANGED <<arms, source, leases, file, lock, reg, pub, poll, cancel, world>> BY <1>6 DEF vars
    <2>2. Undisturbed(Nobody) /\ SourceType'
      BY <2>1, NoFileStep DEF IInv, TypeOK, SourceType, source
    <2>3. JournalOK' BY <2>1, <2>2, SameJournal
    <2> QED BY <2>1, <2>2, <2>3, SameLease, SameWorld, EnvironmentStep
  <1> QED BY <1>1, <1>2, <1>3, <1>4, <1>5, <1>6, CompactStep, ClockStep, LeaseExpiresStep, CrashStep DEF Next

\* The inductive invariant: who relies on which file, lock and lease, that a
\* lease still held has seen the last checkpoint, and that no scan, anchor or
\* receipt runs ahead of the journal's next sequence.
THEOREM SignalInvariant == Spec => []IInv
  BY InitIInv, StepIInv, PTL DEF Spec

\* Every variable of the journal, the record files and the calls keeps its type.
THEOREM SignalTypeCorrect == Spec => []TypeOK
  <1>1. IInv => TypeOK BY DEF IInv
  <1> QED BY <1>1, SignalInvariant, PTL

\* No matching receipt falls behind an unmatched wake's scan (evaluate,
\* ingest, arm and compact_receipts), for any number of wakes, pollers,
\* crashes and lost leases.
THEOREM NothingLost == Spec => []NoReceiptLost
  <1>1. IInv => NoReceiptLost BY DEF IInv, JournalOK, WakeOK, NoReceiptLost
  <1> QED BY <1>1, SignalInvariant, PTL

\* A published or retired arm has a record file, whatever process dies
\* between the write and the unlink of a move.
THEOREM RecordsKept == Spec => []RecordNeverLost
  <1>1. IInv => RecordNeverLost BY DEF IInv, JournalOK, WakeOK, RecordNeverLost, HasFile
  <1> QED BY <1>1, SignalInvariant, PTL

-----------------------------------------------------------------------------
(* One poller: what is over stays over.  The pane is given a prompt only   *)
(* for a wake that the sweep of the same pass did not find ended.          *)

OnePoller == \A m, n \in Pollers : m = n

Armed(w) == arm[w] \notin {"none", "preparing"}
Retired(w) == arm[w] = "tombstoned"

\* A record that ended other than by a cancellation that may have died.
Over(w) == \E d \in Terminal \ {"cancelled"} : file[w][d] # Nobody

\* Records, and the calls that work on them, are of registrations that were
\* made ...
ArmedOK ==
  /\ \A w \in Wakes : HasFile(w) => Armed(w)
  /\ \A p \in Registrars \cup Pollers : pub[p].at # "idle" => Armed(pub[p].wake)
  /\ \A m \in Pollers : poll[m].at \in Locked => Armed(poll[m].wake)

\* ... and a registration whose call still has its lease is not made yet.
LeaseOK ==
  \A c \in Registrars : reg[c].at = "leased" /\ lease.owner = reg[c].token => arm[reg[c].wake] = "preparing"

\* What is expired or cancelled is retired in the journal.
ClosedOK ==
  /\ \A w \in Wakes : cancelled[w] \/ file[w]["expired"] # Nobody => Retired(w)
  /\ \A x \in Operators : cancel[x].at = "retired" => Retired(cancel[x].wake)

\* The phases of poll_once after the sweep, and the steps on a firing record
\* up to its terminal copy.
Moves == {"place", "unplace"}
InPending(r) == r.at \in {"pending", "matched", "written", "projected"} \/ (r.at \in Moves /\ r.from = "pending")
InDispatch(r) == r.at \in {"dispatch", "routed", "counted", "pasted"} \/ (r.at \in Moves /\ r.from = "firing")
Firing(r) == r.at \in {"routed", "counted", "pasted"} \/ (r.at = "place" /\ r.from = "firing")

\* An ended record that is not retired yet is one the sweep has still to see,
\* or one that this pass has dispatched.
Fence(r) ==
  /\ r.at \in Locked => r.wake \notin r.todo
  /\ r.at \in Moves => (IF r.from = "pending" THEN Retired(r.wake) ELSE r.dest # "expired")
  /\ Firing(r) => ~Retired(r.wake)
  /\ \A w \in Wakes : Over(w) /\ ~Retired(w) =>
       /\ ~InPending(r)
       /\ r.at \in {"sweep", "retired"} => \E d \in Terminal : <<w, d>> \in r.ends
       /\ InDispatch(r) => w \notin r.todo /\ (r.wake = w => r.at \in {"dispatch", "unplace"})

FInv == ArmedOK /\ LeaseOK /\ ClosedOK /\ \A m \in Pollers : Fence(poll[m])

\* What all steps but those of arm() do to the journal's states, and what a
\* step of the poller does to the rest.
Calm == \A w \in Wakes : arm'[w] = arm[w] \/ (Armed(w) /\ arm'[w] = "tombstoned")
                           \/ (arm[w] \in Active /\ arm'[w] = "published")

LeaseKept == lease'.owner \in {lease.owner, 0}

\* Copies appear only of registrations that were made, and among the expired
\* ones only of retired registrations.
Filed ==
  \A w \in Wakes :
    /\ \A d \in Dirs : file'[w][d] # Nobody => file[w][d] # Nobody \/ Armed(w)
    /\ file'[w]["expired"] # Nobody => file[w]["expired"] # Nobody \/ Retired(w)'

\* No copy appears.
Thins == \A w \in Wakes, d \in Dirs : file'[w][d] # Nobody => file[w][d] # Nobody

-----------------------------------------------------------------------------
(* Parts of FInv that most steps keep.                                     *)

LEMMA CalmSteady ==
  ASSUME Calm
  PROVE  \A w \in Wakes : (Armed(w) => Armed(w)') /\ (Retired(w) => Retired(w)')
  BY DEF Calm, Armed, Retired, Active

LEMMA SameCalm ==
  ASSUME UNCHANGED arm
  PROVE  Calm
  BY DEF Calm

LEMMA RetireCalm ==
  ASSUME IInv, NEW w \in Wakes, NEW s, Armed(w), Retire(w, s)
  PROVE  Calm /\ Retired(w)' /\ \A v \in Wakes : v # w => arm'[v] = arm[v]
  BY DEF Retire, Calm, IInv, TypeOK, ArmsType, Retired

LEMMA ThinsFiled ==
  ASSUME Thins
  PROVE  Filed /\ \A w \in Wakes : (Over(w)' => Over(w)) /\ (HasFile(w)' => HasFile(w))
  BY Dirs6 DEF Thins, Filed, Over, HasFile, Terminal, Dirs

LEMMA SameThins ==
  ASSUME UNCHANGED file
  PROVE  Thins
  BY DEF Thins

LEMMA UnlinkThins ==
  ASSUME IInv, NEW w \in Wakes, NEW d \in Dirs, Unlink(w, d)
  PROVE  Thins
  BY DEF Unlink, Thins, IInv, TypeOK

LEMMA PutFiled ==
  ASSUME IInv, NEW w \in Wakes, NEW d \in Dirs, NEW k \in Copy, Put(w, d, k), Armed(w),
         d = "expired" => Retired(w)'
  PROVE  /\ Filed
         /\ \A v \in Wakes : Over(v)' => Over(v) \/ (v = w /\ d \in Terminal \ {"cancelled"})
  <1>1. \A v \in Wakes, e \in Dirs : v # w \/ e # d => file'[v][e] = file[v][e]
    BY FileType DEF IInv, Put
  <1>2. "expired" \in Dirs BY DEF Dirs, Terminal
  <1>3. Filed BY <1>1, <1>2 DEF Filed
  <1>4. \A v \in Wakes : Over(v)' => Over(v) \/ (v = w /\ d \in Terminal \ {"cancelled"})
    BY <1>1, Dirs6 DEF Over
  <1> QED BY <1>3, <1>4

LEMMA ArmedKept ==
  ASSUME IInv, IInv', FInv, Filed,
         \A w \in Wakes : Armed(w) => Armed(w)',
         \A p \in Registrars \cup Pollers : pub'[p] = pub[p] \/ (pub'[p].at # "idle" => Armed(pub[p].wake)'),
         \A m \in Pollers : poll'[m] = poll[m] \/ (poll'[m].at \in Locked => Armed(poll[m].wake)')
  PROVE  ArmedOK'
  <1>1. \A w \in Wakes : HasFile(w)' => Armed(w)'
    BY DEF FInv, ArmedOK, Filed, HasFile
  <1>2. ASSUME NEW p \in Registrars \cup Pollers, pub'[p].at # "idle" PROVE Armed(pub[p].wake)'
    BY <1>2 DEF FInv, ArmedOK, IInv, ProcsOK, PubOK, Armed
  <1>3. ASSUME NEW m \in Pollers, poll'[m].at \in Locked PROVE Armed(poll[m].wake)'
    BY <1>3 DEF FInv, ArmedOK, IInv, ProcsOK, PollOK, Armed
  <1> QED BY <1>1, <1>2, <1>3 DEF ArmedOK

LEMMA LeaseStep ==
  ASSUME IInv, FInv, Calm, LeaseKept,
         \A c \in Registrars : reg'[c] = reg[c] \/ reg'[c].at # "leased"
  PROVE  LeaseOK'
  <1> SUFFICES ASSUME NEW c \in Registrars, reg'[c].at = "leased", lease'.owner = reg'[c].token
               PROVE  arm'[reg'[c].wake] = "preparing"
    BY DEF LeaseOK
  <1>1. reg'[c] = reg[c] OBVIOUS
  <1>2. reg[c].wake \in Wakes /\ reg[c].token # 0
    BY <1>1 DEF IInv, JournalOK, RegOK
  <1>3. arm[reg[c].wake] = "preparing"
    BY <1>1, <1>2 DEF LeaseKept, FInv, LeaseOK
  <1> QED BY <1>1, <1>2, <1>3 DEF Calm, Armed, Active

LEMMA ClosedKept ==
  ASSUME IInv, FInv, Filed, UNCHANGED cancelled,
         \A w \in Wakes : Retired(w) => Retired(w)',
         \A x \in Operators : cancel'[x] = cancel[x] \/ cancel'[x].at # "retired"
  PROVE  ClosedOK'
  <1>1. \A w \in Wakes : (cancelled[w] \/ file[w]["expired"] # Nobody => Retired(w))
    BY DEF FInv, ClosedOK
  <1>2. \A w \in Wakes : (cancelled'[w] \/ file'[w]["expired"] # Nobody => Retired(w)')
    BY <1>1 DEF Filed
  <1>3. ASSUME NEW x \in Operators, cancel'[x].at = "retired" PROVE Retired(cancel[x].wake)'
    BY <1>3 DEF FInv, ClosedOK, IInv, ProcsOK, CancelOK, Retired
  <1> QED BY <1>2, <1>3 DEF ClosedOK

LEMMA FenceSame ==
  ASSUME IInv, FInv, NEW m \in Pollers, poll'[m] = poll[m],
         \A w \in Wakes : Retired(w) => Retired(w)',
         \A w \in Wakes : Over(w)' => Over(w) \/ Retired(w)',
         Firing(poll[m]) => arm'[poll[m].wake] # "tombstoned"
  PROVE  Fence(poll[m])'
  <1> DEFINE r == poll[m]
  <1>1. Fence(r) BY DEF FInv
  <1>2. r.at \in Locked => r.wake \in Wakes BY DEF IInv, ProcsOK, PollOK
  <1>3. Moves \subseteq Locked BY DEF Moves, Locked
  <1>4. poll'[m] = r OBVIOUS
  <1> HIDE DEF r
  <1>5. r.at \in Moves => (IF r.from = "pending" THEN arm'[r.wake] = "tombstoned" ELSE r.dest # "expired")
    BY <1>1, <1>2, <1>3 DEF Fence, Retired
  <1>6. Firing(r) => arm'[r.wake] # "tombstoned"
    BY DEF r
  <1>7. \A w \in Wakes : Over(w)' /\ ~Retired(w)' => Over(w) /\ ~Retired(w) OBVIOUS
  <1> QED BY <1>1, <1>4, <1>5, <1>6, <1>7 DEF Fence, Retired

-----------------------------------------------------------------------------
(* The steps of the one poller.                                            *)

\* A step of the poller, put together from its parts.
LEMMA PollerFence ==
  ASSUME IInv, IInv', FInv, OnePoller, NEW m \in Pollers, Calm, LeaseKept, Filed,
         UNCHANGED <<reg, cancel, cancelled>>,
         \A p \in Registrars \cup Pollers : pub'[p] = pub[p] \/ (pub'[p].at # "idle" => Armed(pub[p].wake)'),
         poll'[m].at \in Locked => Armed(poll[m].wake)',
         Fence(poll[m])'
  PROVE  FInv'
  <1>1. \A n \in Pollers : n = m BY DEF OnePoller
  <1>2. \A w \in Wakes : (Armed(w) => Armed(w)') /\ (Retired(w) => Retired(w)') BY CalmSteady
  <1>3. ASSUME NEW n \in Pollers
        PROVE  poll'[n] = poll[n] \/ (poll'[n].at \in Locked => Armed(poll[n].wake)')
    BY <1>1
  <1>4. ArmedOK' BY <1>2, <1>3, ArmedKept
  <1>5. LeaseOK' BY LeaseStep
  <1>6. ClosedOK' BY <1>2, ClosedKept
  <1>7. ASSUME NEW n \in Pollers PROVE Fence(poll[n])' BY <1>1
  <1> QED BY <1>4, <1>5, <1>6, <1>7 DEF FInv

\* The fields of the poller's next state.
LEMMA Now ==
  ASSUME IInv, NEW m \in Pollers, NEW r, Goes(m, r)
  PROVE  poll'[m] = r
  BY DEF IInv, TypeOK, Goes

LEMMA StepFields ==
  ASSUME IInv, NEW m \in Pollers, NEW step \in PollSteps, Goes(m, [poll[m] EXCEPT !.at = step])
  PROVE  /\ poll'[m].at = step /\ poll'[m].wake = poll[m].wake /\ poll'[m].todo = poll[m].todo
         /\ poll'[m].from = poll[m].from /\ poll'[m].dest = poll[m].dest /\ poll'[m].ends = poll[m].ends
  BY Now, PollFields DEF PollRec

LEMMA HoldFields ==
  ASSUME IInv, NEW m \in Pollers, NEW w \in Wakes, NEW step \in PollSteps, Hold(m, w, step)
  PROVE  poll'[m].at = step /\ poll'[m].wake = w /\ poll'[m].todo = poll[m].todo \ {w}
  BY Now, PollFields DEF Hold, PollRec

LEMMA DropFields ==
  ASSUME IInv, NEW m \in Pollers, NEW w \in Wakes, Drop(m, w)
  PROVE  poll'[m].at = poll[m].at /\ poll'[m].wake = Nobody /\ poll'[m].todo = poll[m].todo \ {w}
  BY Now, PollFields DEF Drop, PollRec

LEMMA MovingFields ==
  ASSUME IInv, NEW m \in Pollers, NEW w \in Wakes, NEW from, NEW dest, NEW k, Moving(m, w, from, dest, k)
  PROVE  /\ poll'[m].at = "place" /\ poll'[m].wake = w /\ poll'[m].todo = poll[m].todo \ {w}
         /\ poll'[m].from = from /\ poll'[m].dest = dest
  BY Now, PollFields DEF Moving, PollRec

LEMMA ReleaseFields ==
  ASSUME IInv, NEW m \in Pollers, NEW step, Release(m, step)
  PROVE  poll'[m].at = step /\ poll'[m].wake = Nobody /\ poll'[m].todo = poll[m].todo
  <1> DEFINE r == [NoPoll EXCEPT !.at = step, !.todo = poll[m].todo, !.late = poll[m].late]
  <1>1. poll'[m] = r BY Now DEF Release
  <1>2. r.at = step /\ r.wake = Nobody /\ r.todo = poll[m].todo BY DEF NoPoll
  <1> HIDE DEF r
  <1> QED BY <1>1, <1>2

\* A step to a place before the sweep.
LEMMA EasyFence ==
  ASSUME IInv, IInv', FInv, OnePoller, NEW m \in Pollers,
         poll'[m].at \in {"idle", "publish", "observe", "ingest"},
         UNCHANGED <<arms, file, reg, cancel, world>>, LeaseKept,
         \A p \in Registrars \cup Pollers : pub'[p] = pub[p] \/ (pub'[p].at # "idle" => Armed(pub[p].wake)')
  PROVE  FInv'
  <1>1. Calm /\ Filed /\ UNCHANGED cancelled
    BY SameCalm, SameThins, ThinsFiled DEF arms, world
  <1>2. poll'[m].at \notin Locked BY DEF Locked
  <1>3. Fence(poll[m])'
    BY <1>2 DEF Fence, Locked, Moves, Firing, InPending, InDispatch
  <1> QED BY <1>1, <1>2, <1>3, PollerFence

LEMMA PollStartFence ==
  ASSUME IInv, IInv', FInv, OnePoller, NEW m \in Pollers, PollStart(m)
  PROVE  FInv'
  <1>1. PICK cut \in {anchor[w].pos : w \in {v \in Wakes : Earliest(v)}} \cup (IF Polled = {} THEN {0} ELSE {}) :
          Goes(m, [NoPoll EXCEPT !.at = "publish", !.todo = {w \in Wakes : arm[w] \in Active},
                                 !.reads = (Polled # {}), !.cutoff = cut, !.now = emitted, !.late = late])
    BY DEF PollStart
  <1> DEFINE r == [NoPoll EXCEPT !.at = "publish", !.todo = {w \in Wakes : arm[w] \in Active},
                                 !.reads = (Polled # {}), !.cutoff = cut, !.now = emitted, !.late = late]
  <1>2. poll'[m].at = "publish"
    <2>1. poll'[m] = r BY <1>1, Now
    <2>2. r.at = "publish" BY DEF NoPoll
    <2> HIDE DEF r
    <2> QED BY <2>1, <2>2
  <1>3. LeaseKept /\ UNCHANGED <<arms, file, reg, pub, cancel, world>> BY DEF PollStart, LeaseKept, leases
  <1> QED BY <1>2, <1>3, EasyFence

LEMMA PollPublishFence ==
  ASSUME IInv, IInv', FInv, OnePoller, NEW m \in Pollers, NEW w \in Wakes, PollPublish(m, w)
  PROVE  FInv'
  <1>1. poll'[m].at = "publish"
    BY Now, PollFields DEF PollPublish, PollRec
  <1>2. LeaseKept /\ UNCHANGED <<arms, file, reg, cancel, world>> BY DEF PollPublish, LeaseKept, leases
  <1>3. UNCHANGED arm BY <1>2 DEF arms
  <1>4. ASSUME NEW p \in Registrars \cup Pollers
        PROVE  pub'[p] = pub[p] \/ (pub'[p].at # "idle" => Armed(pub[p].wake)')
    <2>1. CASE arm[w] \in Active /\ pub' = [pub EXCEPT ![m] = [at |-> "read", wake |-> w]]
      <3>1. pub'[p] = pub[p] \/ pub'[p].wake = w
        BY <2>1 DEF IInv, TypeOK
      <3> QED BY <1>3, <2>1, <3>1 DEF Armed, Active
    <2>2. CASE UNCHANGED pub BY <2>2
    <2> QED BY <2>1, <2>2 DEF PollPublish
  <1> QED BY <1>1, <1>2, <1>4, EasyFence

LEMMA PollDoneFence ==
  ASSUME IInv, IInv', FInv, OnePoller, NEW m \in Pollers, PollDone(m)
  PROVE  FInv'
  <1>1. poll'[m].at = "idle" BY Now DEF PollDone, NoPoll
  <1>2. LeaseKept /\ UNCHANGED <<arms, file, reg, pub, cancel, world>> BY DEF PollDone, LeaseKept, leases
  <1> QED BY <1>1, <1>2, EasyFence

\* The sweep begins with every terminal record.
LEMMA SweepingFence ==
  ASSUME IInv, IInv', FInv, OnePoller, NEW m \in Pollers, Sweeping(m), LeaseKept,
         UNCHANGED <<arms, file, reg, pub, cancel, world>>
  PROVE  FInv'
  <1> DEFINE ends == {e \in Wakes \X Terminal : file[e[1]][e[2]] # Nobody}
  <1> DEFINE r == [NoPoll EXCEPT !.at = "sweep", !.late = poll[m].late, !.ends = ends, !.skip = {e[1] : e \in ends}]
  <1>1. poll'[m].at = "sweep" /\ poll'[m].ends = ends
    <2>1. poll'[m] = r BY Now DEF Sweeping
    <2>2. r.at = "sweep" /\ r.ends = ends BY DEF NoPoll
    <2> HIDE DEF r
    <2> QED BY <2>1, <2>2
  <1>2. Calm /\ Filed /\ UNCHANGED cancelled
    BY SameCalm, SameThins, ThinsFiled DEF arms, world
  <1>3. \A w \in Wakes : Over(w)' => \E d \in Terminal : <<w, d>> \in ends
    BY DEF Over
  <1> HIDE DEF ends
  <1>4. Fence(poll[m])'
    BY <1>1, <1>3 DEF Fence, Locked, Moves, Firing, InPending, InDispatch
  <1>5. poll'[m].at \notin Locked BY <1>1 DEF Locked
  <1> QED BY <1>2, <1>4, <1>5, PollerFence

LEMMA BeforeSweepFence ==
  ASSUME IInv, IInv', FInv, OnePoller, NEW m \in Pollers,
         PollPublished(m) \/ Observe(m) \/ ObserveFails(m) \/ Ingest(m) \/ IngestRefused(m)
  PROVE  FInv'
  <1>1. UNCHANGED <<arms, file, reg, pub, cancel, world>>
    BY DEF PollPublished, Observe, ObserveFails, Ingest, IngestRefused
  <1>2. LeaseKept
    BY DEF PollPublished, Observe, ObserveFails, Ingest, IngestRefused, LeaseKept, leases
  <1>3. CASE Sweeping(m) BY <1>1, <1>2, <1>3, SweepingFence
  <1>4. CASE Observe(m)
    <2>1. poll'[m].at = "ingest"
      BY <1>4, Now, PollFields DEF Observe, PollRec
    <2> QED BY <1>1, <1>2, <2>1, EasyFence
  <1>5. CASE Goes(m, [poll[m] EXCEPT !.at = "observe"])
    <2>1. poll'[m].at = "observe"
      BY <1>5, Now, PollFields DEF PollRec
    <2> QED BY <1>1, <1>2, <2>1, EasyFence
  <1> QED BY <1>3, <1>4, <1>5 DEF PollPublished, ObserveFails, Ingest, IngestRefused

\* What the sweep takes off its list is retired: of the records that ended,
\* only an expired one may give way to a reservation, and that one is retired
\* already.
LEMMA SweepRetireFence ==
  ASSUME IInv, IInv', FInv, OnePoller, NEW m \in Pollers, NEW e \in Wakes \X Terminal, SweepRetire(m, e)
  PROVE  FInv'
  <1>1. /\ poll[m].at = "sweep" /\ e \in poll[m].ends /\ e[1] \in Wakes /\ e[2] \in Terminal /\ e = <<e[1], e[2]>>
        /\ UNCHANGED <<source, leases, file, lock, reg, pub, cancel, world>>
    BY DEF SweepRetire
  <1>2. file[e[1]][e[2]] # Nobody BY <1>1, PollFields DEF PollOK
  <1>3. Armed(e[1]) BY <1>1, <1>2, Dirs6 DEF FInv, ArmedOK, HasFile
  <1>4. Filed /\ LeaseKept /\ UNCHANGED cancelled
    BY <1>1, SameThins, ThinsFiled DEF LeaseKept, leases, world
  <1>5. Fence(poll[m]) BY DEF FInv
  <1>6. Calm /\ Retired(e[1])'
    <2>1. CASE Retires(e[1], e[2])
      BY <1>1, <1>3, <2>1, RetireCalm DEF SweepRetire
    <2>2. CASE ~Retires(e[1], e[2])
      <3>1. e[2] = "expired" BY <1>3, <2>2 DEF Retires, Armed
      <3>2. Retired(e[1]) BY <1>1, <1>2, <3>1 DEF FInv, ClosedOK
      <3>3. UNCHANGED arm BY <2>2 DEF SweepRetire, arms
      <3> QED BY <3>2, <3>3, SameCalm DEF Retired
    <2> QED BY <2>1, <2>2
  <1>7. poll'[m].at \in {"sweep", "retired"} /\ poll'[m].ends = poll[m].ends \ {e}
    <2>1. CASE Goes(m, [poll[m] EXCEPT !.at = "retired", !.wake = e[1], !.ends = @ \ {e}])
      BY <2>1, Now, PollFields DEF PollRec
    <2>2. CASE Goes(m, [poll[m] EXCEPT !.ends = @ \ {e}])
      BY <1>1, <2>2, Now, PollFields DEF PollRec
    <2> QED BY <2>1, <2>2 DEF SweepRetire
  <1>8. ASSUME NEW w \in Wakes, Over(w)', ~Retired(w)'
        PROVE  \E d \in Terminal : <<w, d>> \in poll'[m].ends
    <2>1. Over(w) /\ ~Retired(w) BY <1>1, <1>6, <1>8, CalmSteady DEF Over
    <2>2. PICK d \in Terminal : <<w, d>> \in poll[m].ends BY <1>1, <1>5, <2>1 DEF Fence
    <2>3. <<w, d>> # e BY <1>6, <1>8
    <2> QED BY <1>7, <2>2, <2>3
  <1>9. Fence(poll[m])'
    BY <1>7, <1>8 DEF Fence, Locked, Moves, Firing, InPending, InDispatch
  <1>10. poll'[m].at \notin Locked BY <1>7 DEF Locked
  <1> QED BY <1>1, <1>4, <1>6, <1>9, <1>10, PollerFence

LEMMA SweepUnlinkFence ==
  ASSUME IInv, IInv', FInv, OnePoller, NEW m \in Pollers, SweepUnlink(m)
  PROVE  FInv'
  <1>1. /\ poll[m].at = "retired" /\ poll[m].wake \in Wakes
        /\ UNCHANGED <<arms, leases, reg, pub, cancel, world>>
    BY PollFields DEF SweepUnlink, PollOK
  <1>2. Thins BY <1>1, Dirs6, UnlinkThins DEF SweepUnlink
  <1>3. poll'[m].at = "sweep" /\ poll'[m].ends = poll[m].ends
    BY Now, PollFields DEF SweepUnlink, PollRec
  <1>4. Calm /\ LeaseKept /\ UNCHANGED <<arm, cancelled>>
    BY <1>1, SameCalm DEF arms, LeaseKept, leases, world
  <1>5. \A w \in Wakes : Over(w)' /\ ~Retired(w)' => Over(w) /\ ~Retired(w)
    BY <1>2, <1>4, ThinsFiled DEF Retired
  <1>6. Fence(poll[m]) BY DEF FInv
  <1>7. Fence(poll[m])'
    BY <1>1, <1>3, <1>5, <1>6 DEF Fence, Locked, Moves, Firing, InPending, InDispatch
  <1>8. poll'[m].at \notin Locked BY <1>3 DEF Locked
  <1> QED BY <1>1, <1>2, <1>4, <1>7, <1>8, ThinsFiled, PollerFence

LEMMA SweepDoneFence ==
  ASSUME IInv, IInv', FInv, OnePoller, NEW m \in Pollers, SweepDone(m)
  PROVE  FInv'
  <1>1. /\ poll[m].at = "sweep" /\ poll[m].ends = {}
        /\ UNCHANGED <<arms, leases, file, reg, pub, cancel, world>>
    BY DEF SweepDone
  <1>2. poll'[m].at = "pending"
    BY Now, PollFields DEF SweepDone, PollRec
  <1>3. Calm /\ LeaseKept /\ Filed /\ UNCHANGED <<arm, cancelled>>
    BY <1>1, SameCalm, SameThins, ThinsFiled DEF arms, LeaseKept, leases, world
  <1>4. Fence(poll[m]) BY DEF FInv
  <1>5. \A w \in Wakes : Over(w) => Retired(w)
    BY <1>1, <1>4 DEF Fence
  <1>6. \A w \in Wakes : Over(w)' => Retired(w)'
    BY <1>1, <1>3, <1>5 DEF Over, Retired
  <1>7. Fence(poll[m])'
    BY <1>2, <1>6 DEF Fence, Locked, Moves, Firing, InPending, InDispatch
  <1>8. poll'[m].at \notin Locked BY <1>2 DEF Locked
  <1> QED BY <1>1, <1>3, <1>7, <1>8, PollerFence

\* While the pending records are gone through, every ended record is retired.
LEMMA PendingFence ==
  ASSUME IInv, IInv', FInv, OnePoller, NEW m \in Pollers, InPending(poll[m]), InPending(poll[m])',
         Calm, Filed, \A w \in Wakes : Over(w)' => Over(w) \/ Retired(w)',
         UNCHANGED <<leases, reg, pub, cancel, world>>,
         poll'[m].at \in Locked => Armed(poll[m].wake)',
         poll'[m].at \in Locked => poll'[m].wake \notin poll'[m].todo,
         poll'[m].at \in Moves => Retired(poll[m].wake)'
  PROVE  FInv'
  <1>1. LeaseKept /\ UNCHANGED cancelled BY DEF LeaseKept, leases, world
  <1>2. Fence(poll[m]) BY DEF FInv
  <1>3. \A w \in Wakes : Over(w)' => Retired(w)'
    BY <1>2, CalmSteady DEF Fence
  <1>4. Fence(poll[m])'
    BY <1>3 DEF Fence, InPending, Moves, Firing
  <1> QED BY <1>1, <1>4, PollerFence

\* The pending loop lets go of a wake, or goes on with one.
LEMMA LoopFence ==
  ASSUME IInv, IInv', FInv, OnePoller, NEW m \in Pollers, InPending(poll[m]), poll'[m].at = "pending",
         UNCHANGED <<arm, leases, reg, pub, cancel, world>>, Thins
  PROVE  FInv'
  <1>1. poll'[m].at \notin Locked /\ poll'[m].at \notin Moves BY DEF Locked, Moves
  <1>2. InPending(poll[m])' BY DEF InPending
  <1>3. Calm /\ Filed /\ \A w \in Wakes : Over(w)' => Over(w) BY SameCalm, ThinsFiled
  <1> QED BY <1>1, <1>2, <1>3, PendingFence

LEMMA PendingLoopFence ==
  ASSUME IInv, IInv', FInv, OnePoller, NEW m \in Pollers, NEW w \in Wakes,
         PendingIdle(m, w) \/ PendingScanned(m, w)
  PROVE  FInv'
  <1>1. Turn(m, w) /\ Drop(m, w) /\ UNCHANGED <<arm, leases, file, reg, pub, cancel, world>>
    BY DEF PendingIdle, PendingScanned, Evaluable, arms
  <1>2. poll'[m].at = "pending" BY <1>1, DropFields DEF Turn
  <1>3. InPending(poll[m]) BY <1>1 DEF Turn, InPending
  <1> QED BY <1>1, <1>2, <1>3, SameThins, LoopFence

LEMMA PendingHoldFence ==
  ASSUME IInv, IInv', FInv, OnePoller, NEW m \in Pollers, NEW w \in Wakes,
         PendingMatched(m, w) \/ PendingReserved(m, w)
  PROVE  FInv'
  <1>1. /\ Turn(m, w) /\ Hold(m, w, "matched") /\ arm[w] = "published"
        /\ UNCHANGED <<arm, leases, file, reg, pub, cancel, world>>
    BY DEF PendingMatched, PendingReserved, Evaluable, Reserve, arms
  <1>2. "matched" \in PollSteps BY DEF PollSteps
  <1>3. poll'[m].at = "matched" /\ poll'[m].wake = w /\ poll'[m].todo = poll[m].todo \ {w}
    BY <1>1, <1>2, HoldFields
  <1>4. InPending(poll[m]) BY <1>1 DEF Turn, InPending
  <1>5. InPending(poll[m])' BY <1>3 DEF InPending
  <1>6. Armed(poll[m].wake)' BY <1>1, <1>3 DEF Armed
  <1>7. poll'[m].at \notin Moves BY <1>3 DEF Moves
  <1>8. Calm /\ Filed /\ \A v \in Wakes : Over(v)' => Over(v) BY <1>1, SameCalm, SameThins, ThinsFiled
  <1> QED BY <1>1, <1>3, <1>4, <1>5, <1>6, <1>7, <1>8, PendingFence

LEMMA PendingMoveFence ==
  ASSUME IInv, IInv', FInv, OnePoller, NEW m \in Pollers, NEW w \in Wakes,
         PendingRetired(m, w) \/ PendingExpired(m, w)
  PROVE  FInv'
  <1>1. Turn(m, w) /\ UNCHANGED <<leases, file, reg, pub, cancel, world>>
    BY DEF PendingRetired, PendingExpired, Evaluable
  <1>2. PICK dest, k : Moving(m, w, "pending", dest, k)
    BY DEF PendingRetired, PendingExpired
  <1>3. /\ poll'[m].at = "place" /\ poll'[m].wake = w /\ poll'[m].todo = poll[m].todo \ {w}
        /\ poll'[m].from = "pending"
    BY <1>2, MovingFields
  <1>4. Calm /\ arm'[w] = "tombstoned"
    <2>1. CASE PendingRetired(m, w)
      <3>1. UNCHANGED arm BY <2>1 DEF PendingRetired, arms
      <3> QED BY <2>1, <3>1, SameCalm DEF PendingRetired
    <2>2. CASE PendingExpired(m, w)
      <3>1. Armed(w) BY <2>2 DEF PendingExpired, Evaluable, Armed
      <3> QED BY <2>2, <3>1, RetireCalm DEF PendingExpired, Retired
    <2> QED BY <2>1, <2>2
  <1>5. InPending(poll[m]) BY <1>1 DEF Turn, InPending
  <1>6. InPending(poll[m])' BY <1>3 DEF InPending, Moves
  <1>7. Armed(poll[m].wake)' BY <1>3, <1>4 DEF Armed
  <1>8. Retired(poll[m].wake)' BY <1>3, <1>4 DEF Retired
  <1>9. Filed /\ \A v \in Wakes : Over(v)' => Over(v) BY <1>1, SameThins, ThinsFiled
  <1> QED BY <1>1, <1>3, <1>4, <1>5, <1>6, <1>7, <1>8, <1>9, PendingFence

\* A locked wake is one whose registration was made.
LEMMA LockedWake ==
  ASSUME IInv, FInv, NEW m \in Pollers, poll[m].at \in Locked
  PROVE  /\ poll[m].wake \in Wakes /\ Armed(poll[m].wake) /\ poll[m].wake \notin poll[m].todo
         /\ lock[poll[m].wake] = m
  BY DEF IInv, ProcsOK, PollOK, FInv, ArmedOK, Fence

LEMMA MatchFence ==
  ASSUME IInv, IInv', FInv, OnePoller, NEW m \in Pollers, MatchWrite(m) \/ MatchUnlink(m) \/ MatchCommit(m)
  PROVE  FInv'
  <1>1. InPending(poll[m]) /\ poll[m].at \in Locked
    BY DEF MatchWrite, MatchUnlink, MatchCommit, InPending, Locked
  <1>2. UNCHANGED <<arm, leases, reg, pub, cancel, world>>
    BY DEF MatchWrite, MatchUnlink, MatchCommit, arms
  <1>3. CASE /\ MatchWrite(m) \/ MatchCommit(m)
             /\ Release(m, "pending") /\ UNCHANGED file
    BY <1>1, <1>2, <1>3, ReleaseFields, SameThins, LoopFence
  <1>4. ASSUME NEW step \in {"written", "projected"}, Goes(m, [poll[m] EXCEPT !.at = step]), Filed,
               \A w \in Wakes : Over(w)' => Over(w)
        PROVE  FInv'
    <2>1. step \in PollSteps BY DEF PollSteps
    <2>2. poll'[m].at = step /\ poll'[m].wake = poll[m].wake /\ poll'[m].todo = poll[m].todo
      BY <1>4, <2>1, StepFields
    <2>3. InPending(poll[m])' BY <2>2 DEF InPending
    <2>4. Armed(poll[m].wake)' /\ poll'[m].wake \notin poll'[m].todo
      BY <1>1, <1>2, <2>2, LockedWake DEF Armed
    <2>5. poll'[m].at \notin Moves BY <2>2 DEF Moves
    <2> QED BY <1>1, <1>2, <1>4, <2>3, <2>4, <2>5, SameCalm, PendingFence
  <1>5. CASE MatchWrite(m) /\ Put(poll[m].wake, "firing", Payload) /\ Goes(m, [poll[m] EXCEPT !.at = "written"])
    <2>1. Filed /\ \A w \in Wakes : Over(w)' => Over(w)
      BY <1>1, <1>5, LockedWake, PutFiled, Constants, Dirs6
    <2> QED BY <1>4, <1>5, <2>1
  <1>6. CASE MatchUnlink(m)
    <2>1. Filed /\ \A w \in Wakes : Over(w)' => Over(w)
      BY <1>1, <1>6, LockedWake, UnlinkThins, ThinsFiled, Dirs6 DEF MatchUnlink
    <2> QED BY <1>4, <1>6, <2>1 DEF MatchUnlink
  <1>7. MatchCommit(m) => Release(m, "pending") /\ UNCHANGED file BY DEF MatchCommit
  <1>8. MatchWrite(m) => \/ Release(m, "pending") /\ UNCHANGED file
                         \/ Put(poll[m].wake, "firing", Payload) /\ Goes(m, [poll[m] EXCEPT !.at = "written"])
    BY DEF MatchWrite
  <1> QED BY <1>3, <1>5, <1>6, <1>7, <1>8

LEMMA PendingDoneFence ==
  ASSUME IInv, IInv', FInv, OnePoller, NEW m \in Pollers, PendingDone(m)
  PROVE  FInv'
  <1>1. poll[m].at = "pending" /\ UNCHANGED <<arm, leases, file, reg, pub, cancel, world>>
    BY DEF PendingDone, arms
  <1>2. poll'[m].at = "dispatch"
    BY Now, PollFields DEF PendingDone, PollRec
  <1>3. Calm /\ LeaseKept /\ Filed /\ UNCHANGED cancelled
    BY <1>1, SameCalm, SameThins, ThinsFiled DEF LeaseKept, leases, world
  <1>4. Fence(poll[m]) BY DEF FInv
  <1>5. \A w \in Wakes : Over(w) => Retired(w)
    BY <1>1, <1>4 DEF Fence, InPending
  <1>6. \A w \in Wakes : Over(w)' => Retired(w)'
    BY <1>1, <1>5 DEF Over, Retired
  <1>7. Fence(poll[m])'
    BY <1>2, <1>6 DEF Fence, Locked, Moves, Firing
  <1>8. poll'[m].at \notin Locked BY <1>2 DEF Locked
  <1> QED BY <1>1, <1>3, <1>7, <1>8, PollerFence

\* Among the firing records, an ended one that is not retired is one this
\* pass is done with.
LEMMA DispatchFence ==
  ASSUME IInv, IInv', FInv, OnePoller, NEW m \in Pollers, InDispatch(poll[m]), InDispatch(poll[m])',
         UNCHANGED <<arm, leases, reg, pub, cancel, cancelled>>, Filed,
         poll'[m].at \in Locked => Armed(poll[m].wake)',
         poll'[m].at \in Locked => poll'[m].wake \notin poll'[m].todo,
         poll'[m].at \in Moves => poll'[m].dest # "expired",
         Firing(poll[m])' => ~Retired(poll[m].wake)',
         poll'[m].todo \subseteq poll[m].todo,
         \A w \in Wakes : Over(w)' /\ ~Over(w) => w \notin poll'[m].todo,
         \A w \in Wakes : Over(w)' /\ ~Retired(w) /\ poll'[m].wake = w => poll'[m].at \in {"dispatch", "unplace"}
  PROVE  FInv'
  <1>1. LeaseKept BY DEF LeaseKept, leases
  <1>2. Fence(poll[m]) BY DEF FInv
  <1>3. \A w \in Wakes : Retired(w)' <=> Retired(w) BY DEF Retired
  <1>4. \A w \in Wakes : Over(w)' /\ ~Retired(w)' => w \notin poll'[m].todo
    BY <1>2, <1>3 DEF Fence
  <1>5. ~InPending(poll[m])' /\ poll'[m].at \notin {"sweep", "retired"}
    BY DEF InDispatch, InPending, Moves
  <1>6. poll'[m].at \in Moves => poll'[m].from # "pending"
    BY DEF InDispatch, Moves
  <1>7. \A w \in Wakes : Over(w)' /\ ~Retired(w)' /\ poll'[m].wake = w => poll'[m].at \in {"dispatch", "unplace"}
    BY <1>3
  <1>8. Fence(poll[m])'
    BY <1>4, <1>5, <1>6, <1>7 DEF Fence
  <1> QED BY <1>1, <1>8, SameCalm, PollerFence

LEMMA DispatchSkippedFence ==
  ASSUME IInv, IInv', FInv, OnePoller, NEW m \in Pollers, NEW w \in Wakes, DispatchSkipped(m, w)
  PROVE  FInv'
  <1>1. poll[m].at = "dispatch" /\ Drop(m, w) /\ UNCHANGED <<arm, leases, file, reg, pub, cancel, cancelled>>
    BY DEF DispatchSkipped, arms, world
  <1>2. poll'[m].at = "dispatch" /\ poll'[m].todo = poll[m].todo \ {w}
    BY <1>1, DropFields
  <1>3. InDispatch(poll[m]) BY <1>1 DEF InDispatch
  <1>4. InDispatch(poll[m])' BY <1>2 DEF InDispatch
  <1>5. poll'[m].at \notin Locked /\ poll'[m].at \notin Moves BY <1>2 DEF Locked, Moves
  <1>6. ~Firing(poll[m])' BY <1>2 DEF Firing
  <1>7. Filed /\ \A v \in Wakes : Over(v)' => Over(v) BY <1>1, SameThins, ThinsFiled
  <1> QED BY <1>1, <1>2, <1>3, <1>4, <1>5, <1>6, <1>7, DispatchFence

\* A record with a published arm that the dispatch still has to see did not end.
LEMMA DispatchRouteFence ==
  ASSUME IInv, IInv', FInv, OnePoller, NEW m \in Pollers, NEW w \in Wakes, DispatchRoute(m, w)
  PROVE  FInv'
  <1> DEFINE k == Touched(file[w]["firing"])
  <1>1. /\ poll[m].at = "dispatch" /\ w \in poll[m].todo /\ arm[w] = "published" /\ Hold(m, w, "routed")
        /\ UNCHANGED <<arm, leases, reg, pub, cancel, cancelled>>
    BY DEF DispatchRoute, Authorized, arms, world
  <1>2. k \in Copy /\ Put(w, "firing", k)
    BY Copies, Constants DEF DispatchRoute, Authorized
  <1> HIDE DEF k
  <1>3. "routed" \in PollSteps BY DEF PollSteps
  <1>4. poll'[m].at = "routed" /\ poll'[m].wake = w /\ poll'[m].todo = poll[m].todo \ {w}
    BY <1>1, <1>3, HoldFields
  <1>5. InDispatch(poll[m]) BY <1>1 DEF InDispatch
  <1>6. InDispatch(poll[m])' BY <1>4 DEF InDispatch
  <1>7. Armed(w) /\ ~Retired(w) BY <1>1 DEF Armed, Retired
  <1>8. Armed(poll[m].wake)' BY <1>1, <1>4 DEF Armed
  <1>9. ~Retired(poll[m].wake)' BY <1>1, <1>4 DEF Retired
  <1>10. Filed /\ \A v \in Wakes : Over(v)' => Over(v)
    BY <1>2, <1>7, PutFiled, Dirs6
  <1>11. ~Over(w) BY <1>1, <1>5, <1>7 DEF FInv, Fence
  <1>12. poll'[m].at \notin Moves BY <1>4 DEF Moves
  <1> QED BY <1>1, <1>4, <1>5, <1>6, <1>8, <1>9, <1>10, <1>11, <1>12, DispatchFence

\* The wake of a record that is being dispatched is neither ended nor retired.
LEMMA FiringWake ==
  ASSUME IInv, FInv, NEW m \in Pollers, Firing(poll[m])
  PROVE  /\ InDispatch(poll[m]) /\ poll[m].at \in Locked
         /\ poll[m].wake \in Wakes /\ ~Retired(poll[m].wake) /\ ~Over(poll[m].wake)
  <1>1. InDispatch(poll[m]) /\ poll[m].at \in Locked /\ poll[m].at \notin {"dispatch", "unplace"}
    BY DEF Firing, InDispatch, Locked, Moves
  <1>2. poll[m].wake \in Wakes BY <1>1, LockedWake
  <1> QED BY <1>1, <1>2 DEF FInv, Fence

LEMMA DispatchMoveFence ==
  ASSUME IInv, IInv', FInv, OnePoller, NEW m \in Pollers,
         DispatchUnsafe(m) \/ DispatchBlind(m) \/ DispatchTimeout(m) \/ DispatchAcked(m)
  PROVE  FInv'
  <1> DEFINE w == poll[m].wake
  <1>1. Firing(poll[m])
    BY DEF DispatchUnsafe, DispatchBlind, DispatchTimeout, DispatchAcked, Firing
  <1>2. /\ InDispatch(poll[m]) /\ poll[m].at \in Locked /\ w \in Wakes /\ ~Retired(w) /\ ~Over(w) /\ Armed(w)
    BY <1>1, FiringWake, LockedWake
  <1>3. UNCHANGED <<arm, leases, file, reg, pub, cancel, cancelled>>
    BY DEF DispatchUnsafe, DispatchBlind, DispatchTimeout, DispatchAcked, arms, world
  <1>4. PICK dest \in {"failed", "pending", "submitted"} : \E k : Moving(m, w, "firing", dest, k)
    BY DEF DispatchUnsafe, DispatchBlind, DispatchTimeout, DispatchAcked, Requeue
  <1> HIDE DEF w
  <1>5. /\ poll'[m].at = "place" /\ poll'[m].wake = w /\ poll'[m].todo = poll[m].todo \ {w}
        /\ poll'[m].from = "firing" /\ poll'[m].dest = dest
    BY <1>2, <1>4, MovingFields
  <1>6. InDispatch(poll[m])' BY <1>5 DEF InDispatch, Moves
  <1>7. Armed(poll[m].wake)' BY <1>2, <1>3, <1>5 DEF Armed
  <1>8. ~Retired(poll[m].wake)' BY <1>2, <1>3, <1>5 DEF Retired
  <1>9. Filed /\ \A v \in Wakes : Over(v)' => Over(v) BY <1>3, SameThins, ThinsFiled
  <1> QED BY <1>2, <1>3, <1>5, <1>6, <1>7, <1>8, <1>9, DispatchFence

LEMMA DispatchOnFence ==
  ASSUME IInv, IInv', FInv, OnePoller, NEW m \in Pollers, DispatchCount(m) \/ DispatchPaste(m)
  PROVE  FInv'
  <1>1. Firing(poll[m]) BY DEF DispatchCount, DispatchPaste, Firing
  <1>2. UNCHANGED <<arm, leases, reg, pub, cancel, cancelled>>
    BY DEF DispatchCount, DispatchPaste, arms, world
  <1>3. /\ InDispatch(poll[m]) /\ poll[m].at \in Locked /\ poll[m].wake \in Wakes
        /\ ~Retired(poll[m].wake) /\ ~Over(poll[m].wake) /\ Armed(poll[m].wake)
        /\ poll[m].wake \notin poll[m].todo
    BY <1>1, FiringWake, LockedWake
  <1>4. PICK step \in {"counted", "pasted"} : Goes(m, [poll[m] EXCEPT !.at = step])
    BY DEF DispatchCount, DispatchPaste
  <1>5. step \in PollSteps BY DEF PollSteps
  <1>6. poll'[m].at = step /\ poll'[m].wake = poll[m].wake /\ poll'[m].todo = poll[m].todo
    BY <1>4, <1>5, StepFields
  <1>7. Filed /\ \A v \in Wakes : Over(v)' => Over(v)
    <2>1. CASE DispatchCount(m)
      <3> DEFINE k == Changed(file[poll[m].wake]["firing"].attempts + 1, file[poll[m].wake]["firing"].defers)
      <3>1. k \in Copy BY <2>1, Dispatching, Copies DEF DispatchCount, Fires
      <3>2. Put(poll[m].wake, "firing", k) BY <2>1 DEF DispatchCount
      <3> HIDE DEF k
      <3> QED BY <1>3, <3>1, <3>2, PutFiled, Dirs6
    <2>2. CASE DispatchPaste(m) BY <2>2, SameThins, ThinsFiled DEF DispatchPaste
    <2> QED BY <2>1, <2>2
  <1>8. InDispatch(poll[m])' BY <1>6 DEF InDispatch
  <1>9. Armed(poll[m].wake)' BY <1>2, <1>3, <1>6 DEF Armed
  <1>10. ~Retired(poll[m].wake)' BY <1>2, <1>3, <1>6 DEF Retired
  <1>11. poll'[m].at \notin Moves BY <1>6 DEF Moves
  <1> QED BY <1>2, <1>3, <1>6, <1>7, <1>8, <1>9, <1>10, <1>11, DispatchFence

\* The moved record is written: from pending/ it is that of a retired wake,
\* from firing/ one the dispatch has already taken off its list.
LEMMA PlaceFence ==
  ASSUME IInv, IInv', FInv, OnePoller, NEW m \in Pollers, Place(m)
  PROVE  FInv'
  <1>1. poll[m].at = "place" /\ poll[m].at \in Locked BY DEF Place, Locked
  <1>2. PICK w \in Wakes, d \in Dirs : w = poll[m].wake /\ d = poll[m].dest
    BY <1>1, LockedWake, PollFields
  <1>3. /\ poll[m].at = "place" /\ poll[m].at \in Locked /\ poll[m].copy \in Copy
        /\ Put(w, d, poll[m].copy) /\ UNCHANGED <<arm, leases, reg, pub, cancel, world, cancelled>>
    BY <1>1, <1>2, PollFields DEF Place, arms, world
  <1>4. w \in Wakes /\ Armed(w) /\ w \notin poll[m].todo BY <1>3, <1>2, LockedWake
  <1>5. "unplace" \in PollSteps BY DEF PollSteps
  <1>6. /\ poll'[m].at = "unplace" /\ poll'[m].wake = w /\ poll'[m].todo = poll[m].todo
        /\ poll'[m].from = poll[m].from /\ poll'[m].dest = d
    BY <1>5, <1>2, StepFields DEF Place
  <1>7. Fence(poll[m]) BY DEF FInv
  <1>8. poll[m].from \in {"pending", "firing"} BY <1>3, PollFields DEF PollOK
  <1>9. IF poll[m].from = "pending" THEN Retired(w) ELSE d # "expired"
    BY <1>3, <1>7, <1>2 DEF Fence, Moves
  <1>10. Retired(w) => Retired(w)' BY <1>3 DEF Retired
  <1>11. Filed /\ \A v \in Wakes : Over(v)' => Over(v) \/ v = w
    BY <1>3, <1>4, <1>9, <1>10, PutFiled
  <1>12. Armed(poll[m].wake)' BY <1>3, <1>4, <1>6 DEF Armed
  <1>13. CASE poll[m].from = "pending"
    <2>1. InPending(poll[m]) BY <1>3, <1>13 DEF InPending, Moves
    <2>2. InPending(poll[m])' BY <1>6, <1>13 DEF InPending, Moves
    <2>3. Retired(poll[m].wake)' BY <1>3, <1>6, <1>9, <1>13 DEF Retired
    <2>4. \A v \in Wakes : Over(v)' => Over(v) \/ Retired(v)'
      BY <1>9, <1>10, <1>11, <1>13
    <2> QED BY <1>3, <1>4, <1>6, <1>11, <1>12, <2>1, <2>2, <2>3, <2>4, SameCalm, PendingFence
  <1>14. CASE poll[m].from = "firing"
    <2>1. InDispatch(poll[m]) BY <1>3, <1>14 DEF InDispatch, Moves
    <2>2. InDispatch(poll[m])' BY <1>6, <1>14 DEF InDispatch, Moves
    <2>3. ~Firing(poll[m])' BY <1>6 DEF Firing
    <2>4. d # "expired" BY <1>9, <1>14
    <2> QED BY <1>3, <1>4, <1>6, <1>11, <1>12, <2>1, <2>2, <2>3, <2>4, DispatchFence
  <1> QED BY <1>8, <1>13, <1>14

LEMMA UnplaceFence ==
  ASSUME IInv, IInv', FInv, OnePoller, NEW m \in Pollers, Unplace(m)
  PROVE  FInv'
  <1>1. /\ poll[m].at = "unplace" /\ poll[m].at \in Locked /\ poll[m].from \in {"pending", "firing"}
        /\ poll[m].from \in Dirs
        /\ UNCHANGED <<arm, leases, reg, pub, cancel, world, cancelled>>
    BY PollFields DEF Unplace, PollOK, Locked, arms, world
  <1>2. Thins BY <1>1, LockedWake, UnlinkThins DEF Unplace
  <1>3. CASE poll[m].from = "pending"
    <2>1. InPending(poll[m]) BY <1>1, <1>3 DEF InPending, Moves
    <2>2. poll'[m].at = "pending" BY <1>3, ReleaseFields DEF Unplace
    <2> QED BY <1>1, <1>2, <2>1, <2>2, LoopFence
  <1>4. CASE poll[m].from = "firing"
    <2>1. InDispatch(poll[m]) BY <1>1, <1>4 DEF InDispatch, Moves
    <2>2. poll'[m].at = "dispatch" /\ poll'[m].todo = poll[m].todo BY <1>4, ReleaseFields DEF Unplace
    <2>3. InDispatch(poll[m])' BY <2>2 DEF InDispatch
    <2>4. poll'[m].at \notin Locked /\ poll'[m].at \notin Moves BY <2>2 DEF Locked, Moves
    <2>5. ~Firing(poll[m])' BY <2>2 DEF Firing
    <2>6. Filed /\ \A v \in Wakes : Over(v)' => Over(v) BY <1>2, ThinsFiled
    <2> QED BY <1>1, <2>1, <2>2, <2>3, <2>4, <2>5, <2>6, DispatchFence
  <1> QED BY <1>1, <1>3, <1>4

-----------------------------------------------------------------------------
(* The steps of the other processes.                                       *)

\* A step that leaves the poller alone, put together from its parts.
LEMMA OtherFence ==
  ASSUME IInv, IInv', FInv, UNCHANGED poll, Filed, LeaseOK', ClosedOK',
         \A w \in Wakes : (Armed(w) => Armed(w)') /\ (Retired(w) => Retired(w)'),
         \A p \in Registrars \cup Pollers : pub'[p] = pub[p] \/ (pub'[p].at # "idle" => Armed(pub[p].wake)'),
         \A w \in Wakes : Over(w)' => Over(w),
         \A m \in Pollers : Firing(poll[m]) => arm'[poll[m].wake] # "tombstoned"
  PROVE  FInv'
  <1>1. ArmedOK' BY ArmedKept
  <1>2. ASSUME NEW m \in Pollers PROVE Fence(poll[m])' BY FenceSame
  <1> QED BY <1>1, <1>2 DEF FInv

\* What the poller is dispatching stays so when a step leaves arms alone, or
\* retires a wake whose lock another process has.
LEMMA FiringKept ==
  ASSUME IInv, FInv, UNCHANGED poll, NEW m \in Pollers, Firing(poll[m]),
         \/ UNCHANGED arm
         \/ \E w \in Wakes : lock[w] # m /\ \A v \in Wakes : v # w => arm'[v] = arm[v]
         \/ \A w \in Wakes : arm'[w] = arm[w] \/ arm'[w] # "tombstoned"
  PROVE  arm'[poll[m].wake] # "tombstoned"
  <1>1. poll[m].wake \in Wakes /\ arm[poll[m].wake] # "tombstoned" /\ lock[poll[m].wake] = m
    BY FiringWake, LockedWake DEF Retired
  <1> QED BY <1>1

\* A step that changes neither the arms nor the files.
LEMMA QuietFence ==
  ASSUME IInv, IInv', FInv, UNCHANGED <<arm, file, poll, cancel, cancelled>>, LeaseKept,
         \A c \in Registrars : reg'[c] = reg[c] \/ reg'[c].at # "leased",
         \A p \in Registrars \cup Pollers : pub'[p] = pub[p] \/ (pub'[p].at # "idle" => Armed(pub[p].wake)')
  PROVE  FInv'
  <1>1. Calm /\ Filed /\ \A w \in Wakes : Over(w)' => Over(w)
    BY SameCalm, SameThins, ThinsFiled
  <1>2. \A w \in Wakes : (Armed(w) => Armed(w)') /\ (Retired(w) => Retired(w)') BY <1>1, CalmSteady
  <1>3. LeaseOK' BY <1>1, LeaseStep
  <1>4. ClosedOK' BY <1>1, <1>2, ClosedKept
  <1>5. \A m \in Pollers : Firing(poll[m]) => arm'[poll[m].wake] # "tombstoned" BY FiringKept
  <1> QED BY <1>1, <1>2, <1>3, <1>4, <1>5, OtherFence

LEMMA ArmEndsFence ==
  ASSUME IInv, IInv', FInv, NEW c \in Registrars,
         ArmAgain(c) \/ ArmBusy(c) \/ ArmFail(c) \/ ArmLost(c) \/ \E w \in Wakes : ArmCall(c, w)
  PROVE  FInv'
  <1>1. UNCHANGED <<arm, file, poll, cancel, cancelled>>
    BY DEF ArmAgain, ArmBusy, ArmFail, ArmLost, ArmCall, arms, world
  <1>2. LeaseKept
    <2>1. lease' = lease \/ lease' = [owner |-> 0, live |-> FALSE]
      BY DEF ArmAgain, ArmBusy, ArmFail, ArmLost, ArmCall, leases
    <2> QED BY <2>1 DEF LeaseKept
  <1>3. ASSUME NEW b \in Registrars PROVE reg'[b] = reg[b] \/ reg'[b].at # "leased"
    <2>1. CASE reg' = [reg EXCEPT ![c] = NoCall]
      BY <2>1 DEF IInv, TypeOK, NoCall
    <2>2. CASE \E w \in Wakes : ArmCall(c, w)
      <3>1. PICK w \in Wakes : ArmCall(c, w) BY <2>2
      <3> DEFINE r == [NoCall EXCEPT !.at = "called", !.wake = w, !.pos = emitted]
      <3>2. reg' = [reg EXCEPT ![c] = r] BY <3>1 DEF ArmCall
      <3>3. r.at = "called" BY DEF NoCall
      <3> HIDE DEF r
      <3> QED BY <3>2, <3>3 DEF IInv, TypeOK
    <2> QED BY <2>1, <2>2 DEF ArmAgain, ArmBusy, ArmFail, ArmLost
  <1>4. ASSUME NEW p \in Registrars \cup Pollers
        PROVE  pub'[p] = pub[p] \/ (pub'[p].at # "idle" => Armed(pub[p].wake)')
    <2>1. CASE UNCHANGED pub BY <2>1
    <2>2. CASE ArmAgain(c) /\ pub' # pub
      <3>1. PICK w : w = reg[c].wake OBVIOUS
      <3>2. arm[w] \in Active /\ pub' = [pub EXCEPT ![c] = [at |-> "read", wake |-> w]]
        BY <2>2, <3>1 DEF ArmAgain
      <3>3. pub'[p] = pub[p] \/ pub'[p].wake = w BY <3>2 DEF IInv, TypeOK
      <3> QED BY <1>1, <3>2, <3>3 DEF Armed, Active
    <2> QED BY <2>1, <2>2 DEF ArmBusy, ArmFail, ArmLost, ArmCall
  <1> QED BY <1>1, <1>2, <1>3, <1>4, QuietFence

\* The lease's new token is none of the other calls'.
LEMMA ArmLeaseFence ==
  ASSUME IInv, IInv', FInv, NEW c \in Registrars, ArmLease(c)
  PROVE  FInv'
  <1>1. PICK w \in Wakes : w = reg[c].wake
    BY DEF ArmLease, IInv, JournalOK, RegOK
  <1>2. /\ arm[w] \in {"none", "preparing"} /\ arm' = [arm EXCEPT ![w] = "preparing"]
        /\ lease' = [owner |-> generation + 1, live |-> TRUE]
        /\ reg' = [reg EXCEPT ![c] = [@ EXCEPT !.at = "leased", !.token = generation + 1, !.seen = checkpoint]]
        /\ UNCHANGED <<file, pub, poll, cancel, cancelled>>
    BY <1>1 DEF ArmLease, world
  <1>3. arm'[w] = "preparing" /\ \A v \in Wakes : v # w => arm'[v] = arm[v]
    BY <1>2 DEF IInv, TypeOK, ArmsType
  <1>4. \A v \in Wakes : (Armed(v) => Armed(v)') /\ (Retired(v) => Retired(v)')
    BY <1>2, <1>3 DEF Armed, Retired
  <1>5. LeaseOK'
    <2> SUFFICES ASSUME NEW b \in Registrars, reg'[b].at = "leased", lease'.owner = reg'[b].token
                 PROVE  arm'[reg'[b].wake] = "preparing"
      BY DEF LeaseOK
    <2>1. lease'.owner = generation + 1 BY <1>2
    <2>2. CASE b = c
      <3>1. reg'[b].wake = w
        BY <1>1, <1>2, <2>2, CallFields DEF IInv, TypeOK, CallRec
      <3> QED BY <1>3, <3>1
    <2>3. CASE b # c
      <3>1. reg'[b] = reg[b] BY <1>2, <2>3 DEF IInv, TypeOK
      <3>2. reg[b].token \in Nat /\ generation \in Nat /\ reg[b].token <= generation
        BY <3>1 DEF IInv, TypeOK, LeaseType, CallRec, JournalOK, RegOK
      <3>3. reg[b].token = generation + 1 BY <2>1, <3>1
      <3> QED BY <3>2, <3>3
    <2> QED BY <2>2, <2>3
  <1>6. Filed /\ \A v \in Wakes : Over(v)' => Over(v) BY <1>2, SameThins, ThinsFiled
  <1>7. ClosedOK' BY <1>2, <1>4, <1>6, ClosedKept
  <1>8. \A v \in Wakes : arm'[v] = arm[v] \/ arm'[v] # "tombstoned" BY <1>3
  <1>9. \A m \in Pollers : Firing(poll[m]) => arm'[poll[m].wake] # "tombstoned" BY <1>2, <1>8, FiringKept
  <1> QED BY <1>2, <1>4, <1>5, <1>6, <1>7, <1>9, OtherFence

\* Only the call that has the lease makes the registration.
LEMMA ArmPrepareFence ==
  ASSUME IInv, IInv', FInv, NEW c \in Registrars, ArmPrepare(c)
  PROVE  FInv'
  <1>1. PICK w \in Wakes : w = reg[c].wake
    BY DEF ArmPrepare, IInv, JournalOK, RegOK
  <1>2. /\ arm' = [arm EXCEPT ![w] = "prepared"]
        /\ lease' = [owner |-> 0, live |-> FALSE]
        /\ reg' = [reg EXCEPT ![c] = NoCall]
        /\ pub' = [pub EXCEPT ![c] = [at |-> "read", wake |-> w]]
        /\ UNCHANGED <<file, poll, cancel, cancelled>>
    BY <1>1 DEF ArmPrepare, world
  <1>3. arm[w] = "preparing"
    BY <1>1 DEF ArmPrepare, LeaseHeld, FInv, LeaseOK
  <1>4. arm'[w] = "prepared" /\ \A v \in Wakes : v # w => arm'[v] = arm[v]
    BY <1>2 DEF IInv, TypeOK, ArmsType
  <1>5. \A v \in Wakes : (Armed(v) => Armed(v)') /\ (Retired(v) => Retired(v)')
    BY <1>3, <1>4 DEF Armed, Retired
  <1>6. LeaseOK'
    <2> SUFFICES ASSUME NEW b \in Registrars, reg'[b].at = "leased", lease'.owner = reg'[b].token
                 PROVE  FALSE
      BY DEF LeaseOK
    <2>1. lease'.owner = 0 BY <1>2
    <2>2. reg'[b].token # 0 BY DEF IInv, JournalOK, RegOK
    <2> QED BY <2>1, <2>2
  <1>7. ASSUME NEW p \in Registrars \cup Pollers
        PROVE  pub'[p] = pub[p] \/ (pub'[p].at # "idle" => Armed(pub[p].wake)')
    <2>1. pub'[p] = pub[p] \/ pub'[p].wake = w BY <1>2 DEF IInv, TypeOK
    <2> QED BY <1>4, <2>1 DEF Armed
  <1>8. Filed /\ \A v \in Wakes : Over(v)' => Over(v) BY <1>2, SameThins, ThinsFiled
  <1>9. ClosedOK' BY <1>2, <1>5, <1>8, ClosedKept
  <1>10. \A v \in Wakes : arm'[v] = arm[v] \/ arm'[v] # "tombstoned" BY <1>4
  <1>11. \A m \in Pollers : Firing(poll[m]) => arm'[poll[m].wake] # "tombstoned" BY <1>2, <1>10, FiringKept
  <1> QED BY <1>2, <1>5, <1>6, <1>7, <1>8, <1>9, <1>11, OtherFence

LEMMA PubWriteFence ==
  ASSUME IInv, IInv', FInv, NEW p \in Registrars \cup Pollers, PubWrite(p)
  PROVE  FInv'
  <1>1. PICK w \in Wakes : w = pub[p].wake
    BY DEF PubWrite, IInv, ProcsOK, PubOK
  <1>2. Armed(w) BY <1>1 DEF PubWrite, FInv, ArmedOK
  <1>3. UNCHANGED <<arm, lease, reg, poll, cancel, cancelled>> BY DEF PubWrite, arms, leases, world
  <1>4. Filed /\ \A v \in Wakes : Over(v)' => Over(v)
    <2>1. CASE UNCHANGED file BY <2>1, SameThins, ThinsFiled
    <2>2. CASE Put(w, "pending", Payload) BY <1>2, <2>2, PutFiled, Constants, Dirs6
    <2> QED BY <1>1, <2>1, <2>2 DEF PubWrite
  <1>5. Calm /\ LeaseKept BY <1>3, SameCalm DEF LeaseKept
  <1>6. \A v \in Wakes : (Armed(v) => Armed(v)') /\ (Retired(v) => Retired(v)') BY <1>5, CalmSteady
  <1>7. ASSUME NEW q \in Registrars \cup Pollers
        PROVE  pub'[q] = pub[q] \/ (pub'[q].at # "idle" => Armed(pub[q].wake)')
    <2>1. pub'[q] = pub[q] \/ pub'[q].at = "idle" \/ pub'[q].wake = w
      BY <1>1 DEF PubWrite, IInv, TypeOK, PubRec, NoPub
    <2> QED BY <1>2, <1>3, <2>1 DEF Armed
  <1>8. LeaseOK' BY <1>3, <1>5, LeaseStep
  <1>9. ClosedOK' BY <1>3, <1>4, <1>6, ClosedKept
  <1>10. \A m \in Pollers : Firing(poll[m]) => arm'[poll[m].wake] # "tombstoned" BY <1>3, FiringKept
  <1> QED BY <1>3, <1>4, <1>6, <1>7, <1>8, <1>9, <1>10, OtherFence

LEMMA PubCommitFence ==
  ASSUME IInv, IInv', FInv, NEW p \in Registrars \cup Pollers, PubCommit(p)
  PROVE  FInv'
  <1>1. PICK w \in Wakes : w = pub[p].wake
    BY DEF PubCommit, IInv, ProcsOK, PubOK
  <1>2. /\ pub' = [pub EXCEPT ![p] = NoPub]
        /\ UNCHANGED <<lease, file, reg, poll, cancel, cancelled>>
    BY DEF PubCommit, leases, world
  <1>3. arm' = arm \/ (arm[w] \in Active /\ arm' = [arm EXCEPT ![w] = "published"])
    BY <1>1 DEF PubCommit
  <1>4. \A v \in Wakes : arm'[v] = arm[v] \/ (arm[v] \in Active /\ arm'[v] = "published")
    BY <1>3 DEF IInv, TypeOK, ArmsType
  <1>5. Calm /\ LeaseKept BY <1>2, <1>4 DEF Calm, LeaseKept
  <1>6. \A v \in Wakes : (Armed(v) => Armed(v)') /\ (Retired(v) => Retired(v)') BY <1>5, CalmSteady
  <1>7. \A q \in Registrars \cup Pollers : pub'[q] = pub[q] \/ pub'[q].at = "idle"
    BY <1>2 DEF IInv, TypeOK, NoPub
  <1>8. Filed /\ \A v \in Wakes : Over(v)' => Over(v) BY <1>2, SameThins, ThinsFiled
  <1>9. LeaseOK' BY <1>2, <1>5, LeaseStep
  <1>10. ClosedOK' BY <1>2, <1>6, <1>8, ClosedKept
  <1>11. \A v \in Wakes : arm'[v] = arm[v] \/ arm'[v] # "tombstoned" BY <1>4
  <1>12. \A m \in Pollers : Firing(poll[m]) => arm'[poll[m].wake] # "tombstoned" BY <1>2, <1>11, FiringKept
  <1> QED BY <1>2, <1>6, <1>7, <1>8, <1>9, <1>10, <1>12, OtherFence

\* The steps of a cancellation on the files, under the wake's lock.
LEMMA CancelFilesFence ==
  ASSUME IInv, IInv', FInv, NEW x \in Operators, CancelUnlink(x) \/ \E w \in Wakes : CancelWrite(x, w)
  PROVE  FInv'
  <1>1. UNCHANGED <<arm, lease, reg, pub, poll, cancelled>>
    BY DEF CancelUnlink, CancelWrite, arms, leases, world
  <1>2. Filed /\ \A v \in Wakes : Over(v)' => Over(v)
    <2>1. CASE CancelUnlink(x)
      <3>1. cancel[x].wake \in Wakes /\ cancel[x].from \in Dirs
        BY <2>1, Dirs6 DEF CancelUnlink, IInv, ProcsOK, CancelOK
      <3> QED BY <2>1, <3>1, UnlinkThins, ThinsFiled DEF CancelUnlink
    <2>2. CASE \E w \in Wakes : CancelWrite(x, w)
      <3>1. PICK w \in Wakes : CancelWrite(x, w) BY <2>2
      <3> DEFINE from == IF file[w]["pending"] # Nobody THEN "pending" ELSE "firing"
                 k == Touched(file[w][from])
      <3>2. from \in Dirs BY Dirs6
      <3>3. file[w][from] # Nobody /\ Put(w, "cancelled", k) BY <3>1 DEF CancelWrite
      <3> HIDE DEF from
      <3>4. k \in Copy BY <3>2, <3>3, SameFiles, Copies
      <3>5. Armed(w) BY <3>2, <3>3 DEF FInv, ArmedOK, HasFile
      <3> HIDE DEF k
      <3>6. "cancelled" \in Dirs BY Dirs6
      <3> QED BY <3>3, <3>4, <3>5, <3>6, PutFiled
    <2> QED BY <2>1, <2>2
  <1>3. Calm /\ LeaseKept BY <1>1, SameCalm DEF LeaseKept
  <1>4. \A v \in Wakes : (Armed(v) => Armed(v)') /\ (Retired(v) => Retired(v)') BY <1>3, CalmSteady
  <1>5. LeaseOK' BY <1>1, <1>3, LeaseStep
  <1>6. ASSUME NEW y \in Operators PROVE cancel'[y] = cancel[y] \/ cancel'[y].at # "retired"
    BY DEF CancelUnlink, CancelWrite, IInv, TypeOK, CancelRec
  <1>7. ClosedOK' BY <1>1, <1>2, <1>4, <1>6, ClosedKept
  <1>8. \A m \in Pollers : Firing(poll[m]) => arm'[poll[m].wake] # "tombstoned" BY <1>1, FiringKept
  <1> QED BY <1>1, <1>2, <1>4, <1>5, <1>7, <1>8, OtherFence

\* The wake that is retired is locked by the operator, not by the poller.
LEMMA CancelRetireFence ==
  ASSUME IInv, IInv', FInv, NEW x \in Operators, CancelRetire(x)
  PROVE  FInv'
  <1>1. PICK w \in Wakes : w = cancel[x].wake
    BY DEF CancelRetire, IInv, ProcsOK, CancelOK
  <1>2. lock[w] = x /\ file[w]["cancelled"] # Nobody
    BY <1>1 DEF CancelRetire, IInv, ProcsOK, CancelOK
  <1>3. Armed(w) BY <1>2, Dirs6 DEF FInv, ArmedOK, HasFile
  <1>4. Retire(w, "cancelled")
    BY <1>1, <1>3 DEF CancelRetire, Retires, Armed
  <1>5. Calm /\ Retired(w)' /\ \A v \in Wakes : v # w => arm'[v] = arm[v]
    BY <1>3, <1>4, RetireCalm
  <1>6. /\ cancel' = [cancel EXCEPT ![x].at = "retired"]
        /\ UNCHANGED <<lease, file, reg, pub, poll, cancelled>>
    BY DEF CancelRetire, leases, world
  <1>7. Filed /\ \A v \in Wakes : Over(v)' => Over(v) BY <1>6, SameThins, ThinsFiled
  <1>8. \A v \in Wakes : (Armed(v) => Armed(v)') /\ (Retired(v) => Retired(v)') BY <1>5, CalmSteady
  <1>9. LeaseKept BY <1>6 DEF LeaseKept
  <1>10. LeaseOK' BY <1>5, <1>6, <1>9, LeaseStep
  <1>11. ClosedOK'
    <2>1. \A v \in Wakes : cancelled'[v] \/ file'[v]["expired"] # Nobody => Retired(v)'
      BY <1>6, <1>8 DEF FInv, ClosedOK
    <2>2. ASSUME NEW y \in Operators, cancel'[y].at = "retired" PROVE Retired(cancel[y].wake)'
      <3>1. CASE y = x
        <4>1. cancel'[y].wake = w BY <1>1, <1>6, <3>1 DEF IInv, TypeOK, CancelRec
        <4> QED BY <1>5, <4>1 DEF Retired
      <3>2. CASE y # x
        <4>1. cancel'[y] = cancel[y] BY <1>6, <3>2 DEF IInv, TypeOK
        <4>2. cancel[y].wake \in Wakes /\ arm[cancel[y].wake] = "tombstoned"
          BY <2>2, <4>1 DEF FInv, ClosedOK, Retired, IInv, ProcsOK, CancelOK
        <4> QED BY <1>8, <4>1, <4>2 DEF Retired
      <3> QED BY <3>1, <3>2
    <2> QED BY <2>1, <2>2 DEF ClosedOK
  <1>12. ASSUME NEW m \in Pollers, Firing(poll[m]) PROVE arm'[poll[m].wake] # "tombstoned"
    <2>1. lock[w] # m BY <1>2, Disjoint
    <2> QED BY <1>5, <1>6, <1>12, <2>1, FiringKept
  <1> QED BY <1>6, <1>7, <1>8, <1>10, <1>11, <1>12, OtherFence

LEMMA CancelDoneFence ==
  ASSUME IInv, IInv', FInv, NEW x \in Operators, CancelDone(x)
  PROVE  FInv'
  <1>1. PICK w \in Wakes : w = cancel[x].wake
    BY DEF CancelDone, IInv, ProcsOK, CancelOK
  <1>2. Retired(w) BY <1>1 DEF CancelDone, FInv, ClosedOK
  <1>3. /\ cancel' = [cancel EXCEPT ![x] = NoCancel] /\ cancelled' = [cancelled EXCEPT ![w] = TRUE]
        /\ UNCHANGED <<arm, lease, file, reg, pub, poll>>
    BY <1>1 DEF CancelDone, arms, leases
  <1>4. Calm /\ LeaseKept BY <1>3, SameCalm DEF LeaseKept
  <1>5. \A v \in Wakes : (Armed(v) => Armed(v)') /\ (Retired(v) => Retired(v)') BY <1>4, CalmSteady
  <1>6. LeaseOK' BY <1>3, <1>4, LeaseStep
  <1>7. ClosedOK'
    <2>1. \A v \in Wakes : v = w \/ cancelled'[v] = cancelled[v]
      BY <1>3 DEF IInv, TypeOK, WorldType
    <2>2. \A v \in Wakes : cancelled'[v] \/ file'[v]["expired"] # Nobody => Retired(v)'
      BY <1>2, <1>3, <1>5, <2>1 DEF FInv, ClosedOK
    <2>3. ASSUME NEW y \in Operators, cancel'[y].at = "retired" PROVE Retired(cancel[y].wake)'
      <3>1. cancel'[y] = cancel[y] BY <1>3, <2>3 DEF IInv, TypeOK, NoCancel
      <3> QED BY <1>3, <2>3, <3>1 DEF FInv, ClosedOK, Retired
    <2> QED BY <2>2, <2>3 DEF ClosedOK
  <1>8. Filed /\ \A v \in Wakes : Over(v)' => Over(v) BY <1>3, SameThins, ThinsFiled
  <1>9. \A m \in Pollers : Firing(poll[m]) => arm'[poll[m].wake] # "tombstoned" BY <1>3, FiringKept
  <1> QED BY <1>3, <1>5, <1>6, <1>7, <1>8, <1>9, OtherFence

LEMMA EnvironmentFence ==
  ASSUME IInv, IInv', FInv,
         Emit \/ Deadline \/ LeaseExpires \/ UNCHANGED vars \/ \E o \in Occurrences : Compact(receipt[o])
  PROVE  FInv'
  <1>1. UNCHANGED <<arm, file, reg, pub, poll, cancel, cancelled>>
    BY DEF Emit, Deadline, LeaseExpires, Compact, arms, world, vars
  <1>2. lease'.owner = lease.owner
    <2>1. CASE LeaseExpires
      BY <2>1 DEF LeaseExpires, IInv, TypeOK, LeaseType
    <2>2. CASE UNCHANGED lease BY <2>2
    <2> QED BY <2>1, <2>2 DEF Emit, Deadline, Compact, leases, vars
  <1>3. LeaseKept BY <1>2 DEF LeaseKept
  <1> QED BY <1>1, <1>3, QuietFence

\* A dead process relies on nothing.
LEMMA CrashFence ==
  ASSUME IInv, IInv', FInv, NEW p \in Processes, Crash(p)
  PROVE  FInv'
  <1>1. /\ \A c \in Registrars : reg'[c] = reg[c] \/ reg'[c] = NoCall
        /\ \A q \in Registrars \cup Pollers : pub'[q] = pub[q] \/ pub'[q] = NoPub
        /\ \A m \in Pollers : poll'[m] = poll[m] \/ poll'[m] = NoPoll
        /\ \A x \in Operators : cancel'[x] = cancel[x] \/ cancel'[x] = NoCancel
        /\ UNCHANGED <<arm, lease, file, cancelled>>
    BY DEF Crash, arms, leases
  <1>2. NoCall.at = "idle" /\ NoPub.at = "idle" /\ NoPoll.at = "idle" /\ NoCancel.at = "idle"
    BY DEF NoCall, NoPub, NoPoll, NoCancel
  <1>3. Calm /\ LeaseKept BY <1>1, SameCalm DEF LeaseKept
  <1>4. \A v \in Wakes : (Armed(v) => Armed(v)') /\ (Retired(v) => Retired(v)') BY <1>3, CalmSteady
  <1>5. Filed /\ \A v \in Wakes : Over(v)' => Over(v) BY <1>1, SameThins, ThinsFiled
  <1>6. LeaseOK' BY <1>1, <1>2, <1>3, LeaseStep
  <1>7. ClosedOK' BY <1>1, <1>2, <1>4, <1>5, ClosedKept
  <1>8. ASSUME NEW m \in Pollers PROVE poll'[m] = poll[m] \/ (poll'[m].at \in Locked => Armed(poll[m].wake)')
    BY <1>1, <1>2 DEF Locked
  <1>9. ASSUME NEW q \in Registrars \cup Pollers
        PROVE  pub'[q] = pub[q] \/ (pub'[q].at # "idle" => Armed(pub[q].wake)')
    BY <1>1, <1>2
  <1>10. ArmedOK' BY <1>4, <1>5, <1>8, <1>9, ArmedKept
  <1>11. ASSUME NEW m \in Pollers PROVE Fence(poll[m])'
    <2>1. CASE poll'[m] = poll[m]
      <3>1. Firing(poll[m]) => arm'[poll[m].wake] # "tombstoned"
        BY <1>1, FiringWake DEF Retired
      <3> QED BY <1>4, <1>5, <2>1, <3>1, FenceSame
    <2>2. CASE poll'[m] = NoPoll
      BY <1>2, <2>2 DEF Fence, Locked, Moves, Firing, InPending, InDispatch
    <2> QED BY <1>1, <2>1, <2>2
  <1> QED BY <1>6, <1>7, <1>10, <1>11 DEF FInv

-----------------------------------------------------------------------------
(* The fence.                                                              *)

LEMMA InitFInv == Init => FInv
  <1> SUFFICES ASSUME Init PROVE FInv OBVIOUS
  <1>1. NoCall.at = "idle" /\ NoPub.at = "idle" /\ NoPoll.at = "idle" /\ NoCancel.at = "idle"
    BY DEF NoCall, NoPub, NoPoll, NoCancel
  <1>2. "expired" \in Dirs /\ Terminal \subseteq Dirs BY DEF Dirs, Terminal
  <1>3. \A w \in Wakes, d \in Dirs : file[w][d] = Nobody BY DEF Init
  <1>4. \A w \in Wakes : ~Over(w) /\ ~HasFile(w) BY <1>2, <1>3 DEF Over, HasFile
  <1>5. ArmedOK BY <1>1, <1>4 DEF Init, ArmedOK, Locked
  <1>6. LeaseOK BY <1>1 DEF Init, LeaseOK
  <1>7. ClosedOK BY <1>1, <1>2, <1>3 DEF Init, ClosedOK
  <1>8. ASSUME NEW m \in Pollers PROVE Fence(poll[m])
    <2>1. poll[m].at = "idle" BY <1>1 DEF Init
    <2> QED BY <1>4, <2>1 DEF Fence, Locked, Moves, Firing
  <1> QED BY <1>5, <1>6, <1>7, <1>8 DEF FInv

LEMMA StepFInv == OnePoller /\ IInv /\ IInv' /\ FInv /\ [Next]_vars => FInv'
  <1> SUFFICES ASSUME OnePoller, IInv, IInv', FInv, [Next]_vars PROVE FInv' OBVIOUS
  <1>1. ASSUME NEW c \in Registrars, Register(c) PROVE FInv'
    BY <1>1, ArmEndsFence, ArmLeaseFence, ArmPrepareFence DEF Register
  <1>2. ASSUME NEW p \in Registrars \cup Pollers, Publish(p) PROVE FInv'
    BY <1>2, PubWriteFence, PubCommitFence DEF Publish
  <1>3. ASSUME NEW m \in Pollers, NEW w \in Wakes, PollWake(m, w) PROVE FInv'
    BY <1>3, PollPublishFence, PendingLoopFence, PendingHoldFence, PendingMoveFence, DispatchSkippedFence,
       DispatchRouteFence DEF PollWake
  <1>4. ASSUME NEW m \in Pollers, PollStep(m) PROVE FInv'
    BY <1>4, PollStartFence, BeforeSweepFence, SweepRetireFence, SweepUnlinkFence, SweepDoneFence, MatchFence,
       PlaceFence, UnplaceFence, PendingDoneFence, DispatchMoveFence, DispatchOnFence, PollDoneFence
    DEF PollStep
  <1>5. ASSUME NEW x \in Operators, CancelStep(x) PROVE FInv'
    BY <1>5, CancelFilesFence, CancelRetireFence, CancelDoneFence DEF CancelStep
  <1> QED BY <1>1, <1>2, <1>3, <1>4, <1>5, EnvironmentFence, CrashFence DEF Next

\* Only DispatchPaste gives a prompt, for a wake that neither ended nor was
\* retired.
LEMMA PromptFenced ==
  ASSUME IInv, FInv, [Next]_vars, NEW w \in Wakes, prompts'[w] > prompts[w]
  PROVE  ~cancelled[w] /\ \A d \in Terminal \ {"cancelled"} : file[w][d] = Nobody
  <1>1. prompts \in [Wakes -> Nat] BY DEF IInv, TypeOK, WorldType
  <1>2. prompts' # prompts BY <1>1
  <1>3. PICK m \in Pollers : DispatchPaste(m)
    <2>1. ASSUME NEW c \in Registrars PROVE ~Register(c)
      BY <1>2 DEF Register, ArmCall, ArmAgain, ArmBusy, ArmLease, ArmFail, ArmPrepare, ArmLost, world
    <2>2. ASSUME NEW p \in Registrars \cup Pollers PROVE ~Publish(p)
      BY <1>2 DEF Publish, PubWrite, PubCommit, world
    <2>3. ASSUME NEW m \in Pollers, NEW v \in Wakes PROVE ~PollWake(m, v)
      BY <1>2 DEF PollWake, PollPublish, PendingIdle, PendingRetired, PendingExpired, PendingMatched,
         PendingScanned, PendingReserved, DispatchSkipped, DispatchRoute, world
    <2>4. ASSUME NEW m \in Pollers, PollStep(m) PROVE DispatchPaste(m)
      BY <1>2, <2>4 DEF PollStep, PollStart, PollPublished, Observe, ObserveFails, Ingest, IngestRefused,
         SweepRetire, SweepUnlink, SweepDone, MatchWrite, MatchUnlink, MatchCommit, Place, Unplace, PendingDone,
         DispatchUnsafe, DispatchBlind, DispatchCount, DispatchAcked, DispatchTimeout, PollDone, world
    <2>5. ASSUME NEW x \in Operators PROVE ~CancelStep(x)
      BY <1>2 DEF CancelStep, CancelWrite, CancelUnlink, CancelRetire, CancelDone, world
    <2>6. ~(\E o \in Occurrences : Compact(receipt[o])) /\ ~Emit /\ ~LeaseExpires /\ ~Deadline
      BY <1>2 DEF Compact, Emit, LeaseExpires, Deadline, world
    <2>7. \A p \in Processes : ~Crash(p) BY <1>2 DEF Crash
    <2>8. ~UNCHANGED vars BY <1>2 DEF vars, world
    <2> QED BY <2>1, <2>2, <2>3, <2>4, <2>5, <2>6, <2>7, <2>8 DEF Next
  <1>4. poll[m].at = "counted" /\ prompts' = [prompts EXCEPT ![poll[m].wake] = @ + 1]
    BY <1>3 DEF DispatchPaste
  <1>5. w = poll[m].wake BY <1>1, <1>4
  <1>6. ~Retired(w) /\ ~Over(w)
    BY <1>4, <1>5, FiringWake DEF Firing
  <1>7. ~cancelled[w] BY <1>6 DEF FInv, ClosedOK
  <1> QED BY <1>6, <1>7 DEF Over

\* With one poller on the root, an ended record that the journal has not
\* retired is one the pass has still to sweep or has itself dispatched:
\* retire_terminal_record, cancel_record and poll_once's order of phases.
THEOREM FenceInvariant == OnePoller => (Spec => [](IInv /\ FInv))
  <1>1. CASE OnePoller
    <2>1. IInv /\ FInv /\ [Next]_vars => (IInv /\ FInv)'
      BY <1>1, StepIInv, StepFInv
    <2> QED BY <2>1, InitIInv, InitFInv, PTL DEF Spec
  <1> QED BY <1>1

\* With one poller on the root, no wake that was submitted, failed, expired
\* or cancelled is prompted for again, whatever copies of its record other
\* processes still publish: authorize_firing_record with the sweep before it.
THEOREM NoPromptAfterEnd == OnePoller => (Spec => TerminalFences)
  <1>1. IInv /\ FInv /\ [Next]_vars =>
          [\A w \in Wakes : prompts'[w] > prompts[w] =>
             ~cancelled[w] /\ \A d \in Terminal \ {"cancelled"} : file[w][d] = Nobody]_vars
    BY PromptFenced
  <1>2. CASE OnePoller
    BY <1>1, <1>2, FenceInvariant, PTL DEF Spec, TerminalFences
  <1> QED BY <1>2

=============================================================================
