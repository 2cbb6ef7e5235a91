--------------------------- MODULE LegacyWakeProofs ---------------------------
(***************************************************************************)
(* What LegacyWake guarantees for any number of wakes, retries and crashes:*)
(* the evidence behind "submitted" for any number of monitors, and for one *)
(* monitor that no record is lost and that no attempt is free.             *)
(***************************************************************************)
EXTENDS LegacyWake, TLAPS

-----------------------------------------------------------------------------
(* The inductive invariant. *)

(* A busy process has a wake, and a monitor a copy of it in memory. *)
Busy ==
  /\ \A w \in Workers : m[w].pc # "idle" => m[w].wake \in Wakes /\ m[w].copy.on
  /\ canceller.pc # "idle" => canceller.wake \in Wakes

(* Where a monitor is once its save is done; in the app-server part the    *)
(* copy has the app-server target.                                         *)
Place(w) == IF m[w].pc \in {"write", "unlink"} THEN m[w].after ELSE m[w].pc

AppPcs == {"app", "preflight", "starting"}
Placed(w) == Place(w) \notin {"write", "unlink"} /\ (Place(w) \in AppPcs => m[w].copy.app)
Places == \A w \in Workers : Placed(w)

(* What "submitted" rests on, in a record and in one about to be saved. *)
Given(i, c) == consumed[i] > 0 \/ (c.app /\ pasted[i] > 0)

Evidence ==
  /\ \A i \in acks : consumed[i] > 0
  /\ \A w \in Workers :
       m[w].pc = "write" /\ m[w].to = "submitted" => Given(m[w].wake, m[w].copy)
  /\ \A i \in Wakes : file[i]["submitted"].on => Given(i, file[i]["submitted"])

(* The effects lock keeps monitors and cancel apart. *)
Locks == \A w \in Workers : Shared(w) => ~Exclusive

(* Whoever is about to unlink a file has left another, or the archive has it. *)
Stored(i, d) == file[i][d].on \/ i \in archived \/ i \in cleaned

Saved ==
  /\ \A w \in Workers : m[w].pc = "unlink" =>
       m[w].src # m[w].to /\ Stored(m[w].wake, m[w].to)
  /\ canceller.pc # "idle" => canceller.src \in {"pending", "firing"}
  /\ canceller.pc = "write" => file[canceller.wake][canceller.src].on
  /\ canceller.pc = "unlink" => Stored(canceller.wake, "cancelled")
  /\ \A i \in Wakes : archiver[i] # "none" =>
       archiver[i] \in Terminal /\ (i \in archived \/ i \in cleaned)

Inv == TypeOK /\ Busy /\ Places /\ Evidence /\ Locks

-----------------------------------------------------------------------------
(* The copy that counts is a copy: some directory of those that hold one   *)
(* comes first.                                                            *)
LEMMA FindsCopy ==
  ASSUME TypeOK, NEW i \in Wakes, Exists(i)
  PROVE  find_record(i) \in Dirs /\ file[i][find_record(i)].on
<1> DEFINE first(d) == d \in Copies(i) /\ \A e \in Copies(i) : Rank[d] <= Rank[e]
<1>1. \E d \in Copies(i) : \A e \in Copies(i) : Rank[d] <= Rank[e]
  <2>1. CASE "pending" \in Copies(i)
    BY <2>1 DEF Copies, Dirs, Rank
  <2>2. CASE "pending" \notin Copies(i) /\ "firing" \in Copies(i)
    BY <2>2 DEF Copies, Dirs, Rank
  <2>3. CASE "pending" \notin Copies(i) /\ "firing" \notin Copies(i) /\ "submitted" \in Copies(i)
    BY <2>3 DEF Copies, Dirs, Rank
  <2>4. CASE Copies(i) \subseteq {"failed", "cancelled"} /\ "failed" \in Copies(i)
    BY <2>4 DEF Rank
  <2>5. CASE Copies(i) \subseteq {"cancelled"}
    BY <2>5 DEF Rank, Exists
  <2> QED BY <2>1, <2>2, <2>3, <2>4, <2>5 DEF Copies, Dirs
<1>2. find_record(i) \in Copies(i)
  BY <1>1 DEF find_record
<1> QED BY <1>2 DEF Copies

LEMMA Constants ==
  /\ NoFile \in Copy /\ Fresh \in Copy /\ Fresh.on /\ ~NoFile.on
  /\ Idle \in Memory /\ Idle.pc = "idle"
  /\ NoLock \in LockFile
BY DEF NoFile, Fresh, Copy, Idle, Memory, Pcs, Dirs, NoLock, LockFile

(* Putting a copy into a directory changes that copy only. *)
LEMMA PutType ==
  ASSUME TypeOK, NEW i \in Wakes, NEW d \in Dirs, NEW c \in Copy, Put(i, d, c)
  PROVE  /\ file' \in [Wakes -> [Dirs -> Copy]]
         /\ \A j \in Wakes, e \in Dirs :
              file'[j][e] = IF j = i /\ e = d THEN c ELSE file[j][e]
BY DEF TypeOK, Put

(* A save that is begun, and a move to another place, change one memory. *)
LEMMA SaveStep ==
  ASSUME TypeOK, NEW w \in Workers, NEW c \in Copy, NEW d \in Dirs, NEW q \in Pcs,
         SaveAs(w, c, d, q)
  PROVE  /\ m' \in [Workers -> Memory] /\ \A v \in Workers \ {w} : m'[v] = m[v]
         /\ m'[w].pc = "write" /\ m'[w].wake = m[w].wake /\ m'[w].src = m[w].src
         /\ m'[w].copy = c /\ m'[w].to = d /\ m'[w].after = q
<1> DEFINE r == [m[w] EXCEPT !.pc = "write", !.copy = c, !.to = d, !.after = q]
<1>1. m[w] \in Memory
  BY DEF TypeOK
<1>2. /\ r \in Memory /\ r.pc = "write" /\ r.wake = m[w].wake /\ r.src = m[w].src
      /\ r.copy = c /\ r.to = d /\ r.after = q
  BY <1>1 DEF Memory, Pcs
<1>3. m' = [m EXCEPT ![w] = r]
  BY DEF SaveAs, Saving
<1> HIDE DEF r
<1> QED BY <1>2, <1>3 DEF TypeOK

LEMMA GotoStep ==
  ASSUME TypeOK, NEW w \in Workers, NEW q \in Pcs, Goto(w, q)
  PROVE  /\ m' \in [Workers -> Memory] /\ \A v \in Workers \ {w} : m'[v] = m[v]
         /\ m'[w].pc = q
         /\ q # "idle" => /\ m'[w].wake = m[w].wake /\ m'[w].copy = m[w].copy
                          /\ m'[w].src = m[w].src /\ m'[w].to = m[w].to
                          /\ m'[w].after = m[w].after
<1> DEFINE r == [m[w] EXCEPT !.pc = q]
<1>1. m[w] \in Memory
  BY DEF TypeOK
<1>2. /\ r \in Memory /\ r.pc = q /\ r.wake = m[w].wake /\ r.src = m[w].src
      /\ r.copy = m[w].copy /\ r.to = m[w].to /\ r.after = m[w].after
  BY <1>1 DEF Memory
<1>3. m' = [m EXCEPT ![w] = IF q = "idle" THEN Idle ELSE r]
  BY DEF Goto
<1> HIDE DEF r
<1> QED BY <1>2, <1>3, Constants DEF TypeOK

LEMMA FailStep ==
  ASSUME TypeOK, NEW w \in Workers, NEW c \in Copy, Fail(w, c)
  PROVE  /\ m' \in [Workers -> Memory] /\ \A v \in Workers \ {w} : m'[v] = m[v]
         /\ m'[w].pc = "releasing" /\ m'[w].wake = m[w].wake /\ m'[w].copy = c
         /\ m'[w].src = m[w].src /\ m'[w].after = "write"
<1> DEFINE r == [m[w] EXCEPT !.pc = "releasing", !.copy = c, !.after = "write"]
<1>1. m[w] \in Memory
  BY DEF TypeOK
<1>2. /\ r \in Memory /\ r.pc = "releasing" /\ r.wake = m[w].wake /\ r.copy = c
      /\ r.src = m[w].src /\ r.after = "write"
  BY <1>1 DEF Memory, Pcs
<1>3. m' = [m EXCEPT ![w] = r]
  BY DEF Fail
<1> HIDE DEF r
<1> QED BY <1>2, <1>3 DEF TypeOK

(* An attempt or a deferral more, or another route, is a copy of the record. *)
LEMMA CopyUpdates ==
  ASSUME NEW c \in Copy
  PROVE  /\ [c EXCEPT !.attempts = @ + 1] \in Copy /\ [c EXCEPT !.attempts = @ + 1].on = c.on
         /\ [c EXCEPT !.attempts = @ + 1].app = c.app
         /\ [c EXCEPT !.deferrals = @ + 1] \in Copy /\ [c EXCEPT !.deferrals = @ + 1].on = c.on
         /\ [c EXCEPT !.app = TRUE] \in Copy /\ [c EXCEPT !.app = TRUE].on = c.on
         /\ [c EXCEPT !.app = TRUE].app
         /\ [c EXCEPT !.attempts = @ + 1].attempts = c.attempts + 1
         /\ [c EXCEPT !.deferrals = @ + 1].attempts = c.attempts
         /\ [c EXCEPT !.app = TRUE].attempts = c.attempts
<1>1. c.attempts \in Nat /\ c.deferrals \in Nat
  BY DEF Copy
<1>2. c.attempts + 1 \in Nat /\ c.deferrals + 1 \in Nat
  BY <1>1
<1> DEFINE a == c.attempts + 1
           d == c.deferrals + 1
<1> HIDE DEF a, d
<1>3. /\ [c EXCEPT !.attempts = a] \in Copy /\ [c EXCEPT !.attempts = a].on = c.on
      /\ [c EXCEPT !.attempts = a].app = c.app
      /\ [c EXCEPT !.deferrals = d] \in Copy /\ [c EXCEPT !.deferrals = d].on = c.on
      /\ [c EXCEPT !.app = TRUE] \in Copy /\ [c EXCEPT !.app = TRUE].on = c.on
      /\ [c EXCEPT !.app = TRUE].app
  BY <1>2 DEF Copy, a, d
<1>4. /\ [c EXCEPT !.attempts = a].attempts = a /\ [c EXCEPT !.deferrals = d].attempts = c.attempts
      /\ [c EXCEPT !.app = TRUE].attempts = c.attempts
  BY DEF Copy
<1> QED BY <1>3, <1>4 DEF a, d

(* The memory of a save, and what a fallback, a note and a paste make of one. *)
LEMMA SavingMemory ==
  ASSUME NEW w \in Workers, m[w] \in Memory, NEW c \in Copy, NEW d \in Dirs, NEW q \in Pcs
  PROVE  LET s == Saving(w, c, d, q)
         IN  /\ s \in Memory /\ s.pc = "write" /\ s.wake = m[w].wake /\ s.copy = c /\ s.to = d
             /\ s.after = q /\ s.src = m[w].src
BY DEF Saving, Memory, Pcs

LEMMA MemoryUpdates ==
  ASSUME NEW r \in Memory, NEW d \in Dirs
  PROVE  LET t == [r EXCEPT !.fell = TRUE]
             u == [r EXCEPT !.src = d]
             v == [r EXCEPT !.pc = "waiting", !.after = "idle"]
         IN  /\ t \in Memory /\ t.pc = r.pc /\ t.wake = r.wake /\ t.copy = r.copy /\ t.to = r.to
             /\ t.after = r.after /\ t.src = r.src
             /\ u \in Memory /\ u.pc = r.pc /\ u.wake = r.wake /\ u.copy = r.copy /\ u.to = r.to
             /\ u.after = r.after /\ u.src = d
             /\ v \in Memory /\ v.pc = "waiting" /\ v.wake = r.wake /\ v.copy = r.copy
             /\ v.src = r.src
BY DEF Memory, Pcs

-----------------------------------------------------------------------------
(* Most steps of a monitor change its memory, the lock file and perhaps    *)
(* the session's prompts.  Private says what they keep.                    *)
OnlyMonitor ==
  /\ UNCHANGED <<file, archived, archiver, acks, canceller, known, cleaned, closed>>
  /\ crashes' \in 0 .. MaxCrashes /\ lock' \in LockFile
  /\ prompts' \in [Wakes -> Nat] /\ pasted' \in [Wakes -> Nat] /\ consumed' = consumed
  /\ \A i \in Wakes : pasted'[i] >= pasted[i]

Private(w) ==
  /\ OnlyMonitor
  /\ m' \in [Workers -> Memory] /\ \A v \in Workers \ {w} : m'[v] = m[v]
  /\ m'[w].pc # "idle" => m'[w].wake \in Wakes /\ m'[w].copy.on
  /\ m'[w].pc # "unlink" /\ Placed(w)'
  /\ (m[w].pc = "write" /\ m[w].to = "submitted" => Given(m[w].wake, m[w].copy))'
  /\ Shared(w)' => Shared(w) \/ ~Exclusive

LEMMA Prompted ==
  ASSUME TypeOK, NEW i \in Wakes, Prompt(i)
  PROVE  /\ prompts' \in [Wakes -> Nat] /\ pasted' \in [Wakes -> Nat] /\ consumed' = consumed
         /\ \A j \in Wakes : pasted'[j] >= pasted[j]
         /\ pasted'[i] > 0
BY DEF TypeOK, Prompt

(* A save that is begun by a monitor that holds the effects lock. *)
LEMMA PrivateSave ==
  ASSUME Inv, NEW w \in Workers, NEW c \in Copy, NEW d \in Dirs, NEW q \in Pcs,
         m[w].pc # "idle", SaveAs(w, c, d, q), OnlyMonitor, Shared(w) \/ ~Exclusive,
         c.on, q \in AppPcs => c.app, q \notin {"write", "unlink"},
         d = "submitted" => consumed[m[w].wake] > 0 \/ (c.app /\ pasted'[m[w].wake] > 0)
  PROVE  Private(w)
BY SaveStep DEF Inv, Busy, Private, Given, OnlyMonitor, Placed, Place, AppPcs

LEMMA PrivateGoto ==
  ASSUME Inv, NEW w \in Workers, NEW q \in Pcs, q \notin {"write", "unlink"},
         m[w].pc # "idle", Goto(w, q), OnlyMonitor, Shared(w) \/ ~Exclusive \/ q = "idle",
         q \in AppPcs => m[w].copy.app
  PROVE  Private(w)
BY GotoStep DEF Inv, Busy, Private, Shared, Placed, Place, AppPcs

LEMMA PrivateFail ==
  ASSUME Inv, NEW w \in Workers, NEW c \in Copy, c.on,
         m[w].pc # "idle", Fail(w, c), OnlyMonitor, Shared(w)
  PROVE  Private(w)
BY FailStep DEF Inv, Busy, Private, Placed, Place, AppPcs

(* Private steps preserve the invariant. *)
LEMMA PrivateKeeps == ASSUME Inv, NEW w \in Workers, Private(w) PROVE Inv'
<1>1. TypeOK'
  BY DEF Inv, TypeOK, Private, OnlyMonitor
<1>2. Busy' /\ Places'
  BY DEF Inv, Busy, Places, Placed, Place, Private, OnlyMonitor
<1>3. Locks'
  BY DEF Inv, Locks, Private, OnlyMonitor, Shared, Exclusive
<1>4. Evidence'
  <2>1. \A i \in Wakes, c \in Copy : Given(i, c) => Given(i, c)'
    BY DEF Inv, TypeOK, Private, OnlyMonitor, Given
  <2>2. \A v \in Workers : (m[v].pc = "write" /\ m[v].to = "submitted" => Given(m[v].wake, m[v].copy))'
    BY <2>1 DEF Inv, TypeOK, Memory, Busy, Evidence, Private
  <2> QED BY <2>1, <2>2 DEF Inv, TypeOK, Evidence, Private, OnlyMonitor, Dirs
<1> QED BY <1>1, <1>2, <1>3, <1>4 DEF Inv

LEMMA PrivateSaved == ASSUME Inv, Saved, NEW w \in Workers, Private(w) PROVE Saved'
BY DEF Inv, TypeOK, Saved, Private, OnlyMonitor, Stored

-----------------------------------------------------------------------------
(* The steps of a monitor but Write and Unlink are private. *)

Deciding(w) ==
  \/ Admit(w) \/ Route(w) \/ (\E d \in {"firing", "failed"} : Transition(w, d))
  \/ CapturePane(w) \/ PastePrompt(w) \/ AckObserved(w) \/ AckTimeout(w)
  \/ AppAttempt(w) \/ AppPreflight(w) \/ AppRequeue(w) \/ AppStart(w) \/ AppNote(w)

Locking(w) ==
  \/ LockExists(w) \/ LockRead(w) \/ LockRemove(w) \/ LockCreate(w) \/ LockPid(w)
  \/ LockRelease(w)

LEMMA Still == ASSUME Inv, UNCHANGED <<disk, canceller, world, ghost>> PROVE OnlyMonitor
BY DEF Inv, TypeOK, OnlyMonitor, disk, world, ghost

LEMMA DecidingIsPrivate ==
  ASSUME Inv, NEW w \in Workers, m[w].pc # "idle", Deciding(w) PROVE Private(w)
<1> DEFINE c == m[w].copy
           i == m[w].wake
<1>1. /\ c \in Copy /\ c.on /\ i \in Wakes
      /\ Counted(w) \in Copy /\ Counted(w).on /\ Counted(w).app = c.app
      /\ m[w] \in Memory
  BY CopyUpdates DEF Inv, TypeOK, Memory, Busy, Counted
<1>a. m[w].pc \in AppPcs => c.app
  BY DEF Inv, Places, Placed, Place, AppPcs
<1> USE <1>1 DEF Pcs, Dirs, AppPcs
<1>2. CASE Admit(w)
  BY <1>2, Still, PrivateGoto DEF Admit
<1>3. CASE Route(w)
  <2> DEFINE a == [c EXCEPT !.app = TRUE]
  <2>1. OnlyMonitor /\ Shared(w)
    BY <1>3, Still DEF Route, Shared
  <2>2. a \in Copy /\ a.on /\ a.app
    BY CopyUpdates
  <2>3. CASE SaveAs(w, c, "failed", "idle") \/ SaveAs(w, c, "firing", "locking")
    BY <2>1, <2>3, PrivateSave
  <2>4. CASE m' = [m EXCEPT ![w] = [Saving(w, a, "firing", "app") EXCEPT !.fell = TRUE]]
    <3> HIDE DEF a
    <3> DEFINE s == Saving(w, a, "firing", "app")
               r == [s EXCEPT !.fell = TRUE]
    <3>a. /\ s \in Memory /\ s.pc = "write" /\ s.wake = i /\ s.copy = a /\ s.to = "firing"
          /\ s.after = "app"
      BY <2>2, SavingMemory
    <3>1. /\ r \in Memory /\ r.pc = "write" /\ r.wake = i /\ r.copy = a /\ r.to = "firing"
          /\ r.after = "app"
      <4> HIDE DEF s
      <4> QED BY <3>a, MemoryUpdates
    <3>2. m' = [m EXCEPT ![w] = r]
      BY <2>4
    <3> HIDE DEF r
    <3> QED BY <2>1, <2>2, <3>1, <3>2 DEF Inv, TypeOK, Private, Placed, Place
  <2> QED BY <1>3, <2>3, <2>4 DEF Route
<1>4. ASSUME NEW d \in {"firing", "failed"}, Transition(w, d) PROVE Private(w)
  BY <1>4, Still, PrivateSave, PrivateGoto DEF Transition
<1>5. CASE CapturePane(w)
  <2>1. OnlyMonitor /\ Shared(w)
    BY <1>5, Still DEF CapturePane, Shared
  <2>2. CASE requeue_unsafe_pane(w)
    <3> DEFINE u == [c EXCEPT !.deferrals = @ + 1]
               d == IF u.deferrals >= MaxDeferrals THEN "failed" ELSE "pending"
    <3>1. u \in Copy /\ u.on /\ d \in Dirs /\ d # "submitted"
      BY CopyUpdates
    <3>2. SaveAs(w, u, d, "releasing")
      BY <2>2 DEF requeue_unsafe_pane
    <3> HIDE DEF u, d
    <3> QED BY <2>1, <3>1, <3>2, PrivateSave
  <2> QED BY <1>5, <2>1, <2>2, PrivateSave, PrivateFail DEF CapturePane
<1>6. CASE PastePrompt(w)
  <2>1. Shared(w) /\ OnlyMonitor
    BY <1>6, Prompted DEF PastePrompt, Shared, Inv, TypeOK, OnlyMonitor, disk, world, ghost
  <2>2. CASE m' = [m EXCEPT ![w] = [@ EXCEPT !.pc = "waiting", !.after = "idle"]]
    <3> DEFINE r == [m[w] EXCEPT !.pc = "waiting", !.after = "idle"]
    <3>1. r \in Memory /\ r.pc = "waiting" /\ r.wake = i /\ r.copy = c
      <4>1. "pending" \in Dirs
        OBVIOUS
      <4> QED BY <4>1, MemoryUpdates
    <3> HIDE DEF r
    <3>2. m' = [m EXCEPT ![w] = r]
      BY <2>2 DEF r
    <3> QED BY <2>1, <3>1, <3>2 DEF Inv, TypeOK, Private, Placed, Place
  <2> QED BY <1>6, <2>1, <2>2, PrivateFail DEF PastePrompt
<1>7. CASE AckObserved(w)
  BY <1>7, Still, PrivateSave DEF AckObserved, Shared, Inv, Evidence
<1>8. CASE AckTimeout(w)
  BY <1>8, Still, PrivateSave DEF AckTimeout, Shared, requeue_or_fail
<1>9. CASE AppAttempt(w)
  BY <1>9, <1>a, Still, PrivateSave DEF AppAttempt, Shared
<1>10. CASE AppPreflight(w)
  BY <1>10, <1>a, Still, PrivateSave DEF AppPreflight, AppFail, Shared
<1>11. CASE AppRequeue(w)
  BY <1>11, <1>a, Still, PrivateSave DEF AppRequeue, AppFail, Shared
<1>12. CASE AppStart(w)
  <2>1. Shared(w) /\ OnlyMonitor
    BY <1>12, Prompted DEF AppStart, Shared, Inv, TypeOK, OnlyMonitor, disk, world, ghost
  <2>2. CASE Prompt(i) /\ SaveAs(w, c, "submitted", "idle")
    <3>1. c.app /\ pasted'[i] > 0
      BY <1>12, <1>a, <2>2, Prompted DEF AppStart, Inv
    <3> QED BY <2>1, <2>2, <3>1, PrivateSave
  <2> QED BY <1>12, <2>1, <2>2, PrivateSave DEF AppStart, AppFail
<1>13. CASE AppNote(w)
  <2> DEFINE d == find_record(i)
             f == file[i][d]
  <2>1. CASE ~Exists(i)
    BY <1>13, <2>1, Still, PrivateGoto DEF AppNote, Shared
  <2>2. CASE Exists(i)
    <3>1. d \in Dirs /\ f \in Copy /\ f.on
      BY <2>2, FindsCopy DEF Inv, TypeOK
    <3>2. d = "submitted" => Given(i, f)
      BY <3>1 DEF Inv, Evidence
    <3> DEFINE s == Saving(w, f, d, "idle")
               r == [s EXCEPT !.src = d]
    <3>3. m' = [m EXCEPT ![w] = r]
      BY <1>13, <2>2 DEF AppNote
    <3>4. OnlyMonitor /\ Shared(w) /\ UNCHANGED world
      BY <1>13, Still DEF AppNote, Shared
    <3> HIDE DEF d, f
    <3>5. /\ r \in Memory /\ r.pc = "write" /\ r.wake = i /\ r.copy = f /\ r.to = d
          /\ r.after = "idle"
      <4>1. m[w] \in Memory /\ "idle" \in Pcs
        BY DEF Inv, TypeOK, Pcs
      <4>2. /\ s \in Memory /\ s.pc = "write" /\ s.wake = i /\ s.copy = f /\ s.to = d
            /\ s.after = "idle"
        <5> HIDE DEF Pcs, Dirs, AppPcs
        <5> QED BY <3>1, <4>1, SavingMemory
      <4> HIDE DEF s, Pcs, Dirs, AppPcs
      <4> QED BY <3>1, <4>2, MemoryUpdates
    <3> HIDE DEF r
    <3> QED BY <3>1, <3>2, <3>3, <3>4, <3>5 DEF Inv, TypeOK, Private, Given, world, Placed, Place
  <2> QED BY <2>1, <2>2
<1> QED
  BY <1>2, <1>3, <1>4, <1>5, <1>6, <1>7, <1>8, <1>9, <1>10, <1>11, <1>12, <1>13 DEF Deciding

LEMMA LockingIsPrivate ==
  ASSUME Inv, NEW w \in Workers, m[w].pc # "idle", Locking(w) PROVE Private(w)
<1>1. m[w].copy \in Copy /\ m[w].copy.on /\ Shared(w)
  BY DEF Inv, TypeOK, Memory, Busy, Locking, LockExists, LockRead, LockRemove, LockCreate, LockPid,
         LockRelease, Shared
<1>a. lock' \in LockFile
  <2>1. lock \in LockFile
    BY DEF Inv, TypeOK
  <2>2. NoLock \in LockFile /\ [by |-> w, on |-> TRUE, pid |-> FALSE] \in LockFile
        /\ [lock EXCEPT !.pid = TRUE] \in LockFile
    BY <2>1 DEF LockFile, NoLock
  <2> QED
    BY <2>1, <2>2 DEF Locking, LockExists, LockRead, LockRemove, LockCreate, LockPid, LockRelease
<1>2. OnlyMonitor
  BY <1>a DEF Inv, TypeOK, Locking, LockExists, LockRead, LockRemove, LockCreate, LockPid,
              LockRelease, LockStep, OnlyMonitor, world, ghost
<1> USE <1>1, <1>2 DEF Pcs, Dirs, AppPcs
<1>3. CASE LockExists(w) \/ LockRead(w) \/ LockRemove(w) \/ LockPid(w)
  BY <1>3, PrivateGoto DEF LockExists, LockRead, LockRemove, LockPid
<1>4. CASE LockCreate(w)
  BY <1>4, PrivateGoto, PrivateSave DEF LockCreate, requeue_or_fail
<1>5. CASE LockRelease(w)
  BY <1>5, PrivateGoto, PrivateSave DEF LockRelease, requeue_or_fail
<1> QED BY <1>3, <1>4, <1>5 DEF Locking

(* Listing a copy starts a memory of its own; a crash ends one. *)
LEMMA ListIsPrivate ==
  ASSUME Inv, NEW w \in Workers, NEW i \in Wakes, NEW d \in {"pending", "firing"}, List(w, i, d)
  PROVE  Private(w)
<1> DEFINE f == file[i][d]
           q == IF d = "pending" THEN "evaluated" ELSE "listed"
           r == [Idle EXCEPT !.pc = q, !.wake = i, !.copy = f, !.src = d]
<1>1. f \in Copy /\ f.on /\ OnlyMonitor /\ m' = [m EXCEPT ![w] = r]
  BY Still DEF Inv, TypeOK, List, Dirs
<1>2. q \in {"evaluated", "listed"}
  OBVIOUS
<1> HIDE DEF f, q
<1>3. r \in Memory /\ r.pc = q /\ r.wake = i /\ r.copy = f
  BY <1>1, <1>2, Constants DEF Memory, Pcs, Dirs, Idle
<1> HIDE DEF r
<1> QED BY <1>1, <1>2, <1>3 DEF Inv, TypeOK, Private, Shared, Placed, Place, AppPcs

LEMMA CrashIsPrivate == ASSUME Inv, NEW w \in Workers, Crash(w) PROVE Private(w)
<1>1. OnlyMonitor
  BY LegacyConstants DEF Inv, TypeOK, LockFile, Crash, Die, OnlyMonitor, world
<1> QED BY <1>1, PrivateGoto DEF Crash, Pcs, AppPcs

-----------------------------------------------------------------------------
(* The two halves of replace_record. *)

LEMMA Writing == ASSUME Inv, NEW w \in Workers, Write(w) PROVE Inv'
<1> DEFINE i == m[w].wake
           d == m[w].to
           c == m[w].copy
           q == IF m[w].src = d THEN m[w].after ELSE "unlink"
<1>1. /\ m[w] \in Memory /\ m[w].pc = "write" /\ i \in Wakes /\ d \in Dirs /\ c \in Copy /\ c.on
      /\ q \in Pcs /\ q # "write" /\ (q = "unlink" => m[w].after = Place(w))
      /\ (q # "unlink" => q = Place(w)) /\ m[w].after \notin {"write", "unlink"}
  BY DEF Inv, TypeOK, Memory, Busy, Write, Places, Placed, Place, Pcs
<1>2. /\ Put(i, d, c) /\ Goto(w, q)
      /\ UNCHANGED <<archived, archiver, lock, acks, canceller, world, ghost>>
  BY DEF Write
<1> HIDE DEF i, d, c, q
<1>3. /\ file' \in [Wakes -> [Dirs -> Copy]]
      /\ \A j \in Wakes, e \in Dirs : file'[j][e] = IF j = i /\ e = d THEN c ELSE file[j][e]
  BY <1>1, <1>2, PutType DEF Inv
<1>4. /\ m' \in [Workers -> Memory] /\ \A v \in Workers \ {w} : m'[v] = m[v]
      /\ m'[w].pc = q
      /\ q # "idle" => m'[w].wake = i /\ m'[w].copy = c /\ m'[w].to = d /\ m'[w].after = m[w].after
  BY <1>1, <1>2, GotoStep DEF Inv, i, c, d
<1>5. TypeOK'
  BY <1>2, <1>3, <1>4 DEF Inv, TypeOK, world, ghost
<1>6. Busy' /\ Locks'
  BY <1>1, <1>2, <1>4 DEF Inv, Busy, Locks, Shared, Exclusive
<1>7. Places'
  BY <1>1, <1>4 DEF Inv, Places, Placed, Place, AppPcs, c
<1>8. Evidence'
  <2>1. /\ d = "submitted" => Given(i, c)
        /\ \A j \in Wakes, e \in Copy : Given(j, e)' <=> Given(j, e)
    BY <1>1, <1>2 DEF Inv, Evidence, Given, world, i, c, d
  <2>2. \A j \in Wakes : file'[j]["submitted"].on => Given(j, file'[j]["submitted"])
    BY <1>1, <1>3, <2>1 DEF Inv, Evidence, Dirs
  <2>3. \A v \in Workers :
          m'[v].pc = "write" /\ m'[v].to = "submitted" => Given(m'[v].wake, m'[v].copy)
    BY <1>1, <1>4 DEF Inv, Evidence
  <2> QED BY <1>2, <2>2, <2>3 DEF Inv, Evidence, Given, world
<1> QED BY <1>5, <1>6, <1>7, <1>8 DEF Inv

LEMMA Unlinking == ASSUME Inv, NEW w \in Workers, Unlink(w) PROVE Inv'
<1> DEFINE i == m[w].wake
           d == m[w].src
           q == m[w].after
<1>1. /\ m[w] \in Memory /\ m[w].pc = "unlink" /\ i \in Wakes /\ d \in Dirs /\ m[w].copy.on
      /\ q \in Pcs /\ q = Place(w) /\ q \notin {"write", "unlink"}
  BY DEF Inv, TypeOK, Memory, Busy, Unlink, Places, Placed, Place
<1>2. /\ Put(i, d, NoFile) /\ Goto(w, q)
      /\ UNCHANGED <<archived, archiver, lock, acks, canceller, world, ghost>>
  BY DEF Unlink
<1> HIDE DEF i, d, q
<1>3. /\ file' \in [Wakes -> [Dirs -> Copy]]
      /\ \A j \in Wakes, e \in Dirs : file'[j][e] = IF j = i /\ e = d THEN NoFile ELSE file[j][e]
  BY <1>1, <1>2, PutType, Constants DEF Inv
<1>4. /\ m' \in [Workers -> Memory] /\ \A v \in Workers \ {w} : m'[v] = m[v]
      /\ m'[w].pc = q /\ (q # "idle" => m'[w].wake = i /\ m'[w].copy = m[w].copy)
  BY <1>1, <1>2, GotoStep DEF Inv, i
<1>5. TypeOK'
  BY <1>2, <1>3, <1>4 DEF Inv, TypeOK, world, ghost
<1>6. Busy' /\ Locks'
  BY <1>1, <1>2, <1>4 DEF Inv, Busy, Locks, Shared, Exclusive
<1>7. Places'
  BY <1>1, <1>4 DEF Inv, Places, Placed, Place, AppPcs
<1>8. Evidence'
  <2>1. \A j \in Wakes : file'[j]["submitted"].on => Given(j, file'[j]["submitted"])
    BY <1>1, <1>3, Constants DEF Inv, Evidence, Dirs
  <2>2. \A v \in Workers :
          m'[v].pc = "write" /\ m'[v].to = "submitted" => Given(m'[v].wake, m'[v].copy)
    BY <1>1, <1>4 DEF Inv, Evidence
  <2> QED BY <1>2, <2>1, <2>2 DEF Inv, Evidence, Given, world
<1> QED BY <1>5, <1>6, <1>7, <1>8 DEF Inv

-----------------------------------------------------------------------------
(* The commands of the operator, the session and the request. *)

Operating ==
  \/ Cancel
  \/ \E i \in Wakes : \/ Create(i) \/ Consume(i) \/ CancelAdmit(i)
                      \/ ArchiveWrite(i) \/ ArchiveUnlink(i) \/ ArchiveDies(i) \/ Cleanup(i)

(* What they do to the directories: at most one copy changes, and no       *)
(* submitted copy appears.                                                 *)
LEMMA FileTypes ==
  ASSUME Inv, NEW i \in Wakes, NEW d \in Dirs, NEW c \in Copy, Put(i, d, c),
         d # "submitted" \/ ~c.on
  PROVE  /\ file' \in [Wakes -> [Dirs -> Copy]]
         /\ \A j \in Wakes : file'[j]["submitted"].on => file'[j]["submitted"] = file[j]["submitted"]
BY PutType DEF Inv, Dirs

LEMMA OperatingKeeps == ASSUME Inv, Operating PROVE Inv'
<1> DEFINE Quiet ==
      /\ file' \in [Wakes -> [Dirs -> Copy]]
      /\ \A j \in Wakes : file'[j]["submitted"].on => file'[j]["submitted"] = file[j]["submitted"]
<1> HIDE DEF Quiet
<1>1. CASE CancelWrite
  <2>1. canceller.wake \in Wakes /\ canceller.src \in Dirs
    BY <1>1 DEF CancelWrite, Inv, TypeOK, Busy
  <2>2. Quiet
    BY <1>1, <2>1, FileTypes DEF CancelWrite, Inv, TypeOK, Dirs, Quiet
  <2> QED
    BY <1>1, <2>2 DEF CancelWrite, Quiet, Inv, TypeOK, Busy, Places, Placed, Place, Evidence, Given,
                      Locks, Shared, Exclusive, world, ghost
<1>2. CASE CancelUnlink
  <2>1. canceller.wake \in Wakes /\ canceller.src \in Dirs
    BY <1>2 DEF CancelUnlink, Inv, TypeOK, Busy
  <2>2. Quiet
    BY <1>2, <2>1, FileTypes, Constants DEF CancelUnlink, Quiet
  <2> QED
    BY <1>2, <2>1, <2>2 DEF CancelUnlink, NotCancelling, Quiet, Inv, TypeOK, Busy, Places, Placed,
                      Place, Evidence, Given, Locks, Shared, Exclusive, world, Dirs
<1>3. CASE CancelDies
  BY <1>3, LegacyConstants
     DEF CancelDies, Die, NotCancelling, Inv, TypeOK, Busy, Places, Placed, Place, Evidence, Given,
         Locks, Shared, Exclusive, world, disk, Dirs
<1>4. ASSUME NEW i \in Wakes, CancelAdmit(i) PROVE Inv'
  <2>1. find_record(i) \in Dirs
    BY <1>4 DEF CancelAdmit, Dirs
  <2> QED
    BY <1>4, <2>1 DEF CancelAdmit, Inv, TypeOK, Busy, Places, Placed, Place, Evidence, Given,
                      Locks, Shared, Exclusive, world, disk, ghost
<1>5. ASSUME NEW i \in Wakes, Create(i) PROVE Inv'
  <2>1. Quiet
    BY <1>5, FileTypes, Constants DEF Create, Quiet, Dirs
  <2> QED
    BY <1>5, <2>1 DEF Create, Quiet, Inv, TypeOK, Busy, Places, Placed, Place, Evidence, Given,
                      Locks, Shared, Exclusive, world
<1>6. ASSUME NEW i \in Wakes, ArchiveUnlink(i) PROVE Inv'
  <2>1. archiver[i] \in Dirs
    BY <1>6 DEF ArchiveUnlink, Inv, TypeOK
  <2>2. Quiet
    BY <1>6, <2>1, FileTypes, Constants DEF ArchiveUnlink, Quiet
  <2> QED
    BY <1>6, <2>2 DEF ArchiveUnlink, Quiet, Inv, TypeOK, Busy, Places, Placed, Place, Evidence, Given,
                      Locks, Shared, Exclusive, world, ghost
<1>7. ASSUME NEW i \in Wakes, ArchiveWrite(i) \/ ArchiveDies(i) \/ Cleanup(i) PROVE Inv'
  <2>1. UNCHANGED <<file, lock, acks, m, canceller, world>>
    BY <1>7 DEF ArchiveWrite, ArchiveDies, Cleanup
  <2>2. TypeOK'
    <3>1. CASE ArchiveWrite(i)
      BY <2>1, <3>1 DEF ArchiveWrite, Terminal, Dirs, Inv, TypeOK, world, ghost
    <3>2. CASE ArchiveDies(i)
      BY <2>1, <3>2, LegacyConstants DEF ArchiveDies, Die, Inv, TypeOK, world
    <3>3. CASE Cleanup(i)
      BY <2>1, <3>3 DEF Cleanup, Inv, TypeOK, world
    <3> QED BY <1>7, <3>1, <3>2, <3>3
  <2> QED
    BY <2>1, <2>2 DEF Inv, Busy, Places, Placed, Place, Evidence, Given, Locks, Shared, Exclusive, world
<1>8. ASSUME NEW i \in Wakes, Consume(i) PROVE Inv'
  <2>1. /\ prompts' \in [Wakes -> Nat] /\ consumed' \in [Wakes -> Nat] /\ consumed'[i] > 0
        /\ \A j \in Wakes : consumed'[j] >= consumed[j]
    BY <1>8 DEF Consume, Inv, TypeOK
  <2>2. \A j \in Wakes, c \in Copy : Given(j, c) => Given(j, c)'
    BY <1>8, <2>1 DEF Consume, Given, Inv, TypeOK
  <2>3. Evidence'
    BY <1>8, <2>1, <2>2 DEF Consume, Evidence, Inv, TypeOK, Memory, Busy, Dirs
  <2> QED
    BY <1>8, <2>1, <2>3 DEF Consume, Inv, TypeOK, Busy, Places, Placed, Place, Locks, Shared, Exclusive,
                            ghost
<1> QED
  BY <1>1, <1>2, <1>3, <1>4, <1>5, <1>6, <1>7, <1>8 DEF Operating, Cancel

-----------------------------------------------------------------------------
LEMMA Initially == Init => Inv /\ Saved
<1> SUFFICES ASSUME Init PROVE Inv /\ Saved
  OBVIOUS
<1>1. TypeOK
  BY Constants, LegacyConstants DEF Init, TypeOK, NotCancelling, Dirs
<1>2. Busy /\ Places /\ Locks
  BY Constants DEF Init, NotCancelling, Busy, Places, Placed, Place, AppPcs, Locks, Shared
<1>3. Evidence
  BY Constants DEF Init, Evidence, Dirs
<1>4. Saved
  BY Constants DEF Init, NotCancelling, Saved
<1> QED BY <1>1, <1>2, <1>3, <1>4 DEF Inv

(* Every step is private to a monitor, a half of a save, or an operator's. *)
LEMMA StepKinds ==
  ASSUME Inv, Next
  PROVE  Operating \/ \E w \in Workers : Private(w) \/ Write(w) \/ Unlink(w)
<1>1. ASSUME NEW w \in Workers, Step(w), m[w].pc # "idle"
      PROVE  Private(w) \/ Write(w) \/ Unlink(w)
  <2>1. Write(w) \/ Unlink(w) \/ Deciding(w) \/ Locking(w)
    BY <1>1 DEF Step, Deciding, Locking
  <2> QED BY <1>1, <2>1, DecidingIsPrivate, LockingIsPrivate
<1>2. ASSUME NEW w \in Workers, Step(w) PROVE m[w].pc # "idle"
  BY <1>2 DEF Step, Write, Unlink, Admit, Route, Transition, LockExists, LockRead, LockRemove,
              LockCreate, LockPid, LockRelease, CapturePane, PastePrompt, AckObserved, AckTimeout,
              AppAttempt, AppPreflight, AppRequeue, AppStart, AppNote
<1> QED BY <1>1, <1>2, ListIsPrivate, CrashIsPrivate DEF Next, Operating

LEMMA Inductive == Inv /\ [Next]_vars => Inv'
<1> SUFFICES ASSUME Inv, [Next]_vars PROVE Inv'
  OBVIOUS
<1>1. CASE Next
  BY <1>1, StepKinds, PrivateKeeps, Writing, Unlinking, OperatingKeeps
<1>2. CASE UNCHANGED vars
  BY <1>2 DEF vars, disk, world, ghost, Inv, TypeOK, Busy, Places, Placed, Place, Evidence, Given,
              Locks, Shared, Exclusive
<1> QED BY <1>1, <1>2

THEOREM Invariance == Spec => []Inv
BY Initially, Inductive, PTL DEF Spec

(* Files, lock and memories keep their types under every action. *)
THEOREM LegacyTypeCorrect == Spec => []TypeOK
<1>1. Inv => TypeOK
  BY DEF Inv
<1> QED BY <1>1, Invariance, PTL

(* A record says "submitted" only on the acknowledgement of the hook or of *)
(* turn/start, for any number of monitors, crashes and retries.            *)
THEOREM SubmitsOnAck == Spec => []SubmittedMeansGiven
<1>1. Inv => SubmittedMeansGiven
  BY DEF Inv, Evidence, Given, SubmittedMeansGiven
<1> QED BY <1>1, Invariance, PTL

-----------------------------------------------------------------------------
(* One monitor: nothing is lost. *)
OneMonitor == \A v, w \in Workers : v = w

OnDisk == \A i \in known \ cleaned : (\E d \in Dirs : file[i][d].on) \/ i \in archived

LEMMA LostIfNotOnDisk == NeverLost <=> OnDisk
BY DEF NeverLost, OnDisk, Exists, Copies

Kept == Saved /\ OnDisk

LEMMA PrivateKept == ASSUME Inv, Kept, NEW w \in Workers, Private(w) PROVE Kept'
<1>1. UNCHANGED <<file, archived, known, cleaned>>
  BY DEF Private, OnlyMonitor
<1>2. OnDisk'
  BY <1>1 DEF Kept, OnDisk
<1> QED BY <1>2, PrivateSaved DEF Kept

LEMMA WriteKept == ASSUME Inv, Kept, OneMonitor, NEW w \in Workers, Write(w) PROVE Kept'
<1> DEFINE i == m[w].wake
           d == m[w].to
           c == m[w].copy
           q == IF m[w].src = d THEN m[w].after ELSE "unlink"
<1>1. /\ m[w].pc = "write" /\ i \in Wakes /\ d \in Dirs /\ c \in Copy /\ c.on /\ q \in Pcs
      /\ ~Exclusive /\ (q = "unlink" => m[w].src # d)
  BY DEF Inv, TypeOK, Memory, Busy, Write, Places, Placed, Place, Pcs, Locks, Shared
<1>2. /\ Put(i, d, c) /\ Goto(w, q)
      /\ UNCHANGED <<archived, archiver, lock, acks, canceller, world, ghost>>
  BY DEF Write
<1> HIDE DEF i, d, c, q
<1>3. \A j \in Wakes, e \in Dirs : file'[j][e] = IF j = i /\ e = d THEN c ELSE file[j][e]
  BY <1>1, <1>2, PutType DEF Inv
<1>4. /\ m'[w].pc = q
      /\ q # "idle" => m'[w].wake = i /\ m'[w].to = d /\ m'[w].src = m[w].src
  BY <1>1, <1>2, GotoStep DEF Inv, i, d
<1>5. Saved'
  BY <1>1, <1>2, <1>3, <1>4 DEF Kept, Saved, OneMonitor, Stored, Exclusive, ghost
<1>6. OnDisk'
  <2> SUFFICES ASSUME NEW j \in known \ cleaned, j \notin archived
               PROVE  \E e \in Dirs : file'[j][e].on
    BY <1>2 DEF OnDisk, ghost
  <2>1. j \in Wakes
    BY DEF Inv, TypeOK
  <2>2. PICK e \in Dirs : file[j][e].on
    BY DEF Kept, OnDisk
  <2> QED BY <1>1, <1>3, <2>1, <2>2
<1> QED BY <1>5, <1>6 DEF Kept

LEMMA UnlinkKept == ASSUME Inv, Kept, OneMonitor, NEW w \in Workers, Unlink(w) PROVE Kept'
<1> DEFINE i == m[w].wake
           d == m[w].src
           q == m[w].after
<1>1. /\ m[w].pc = "unlink" /\ i \in Wakes /\ d \in Dirs /\ q \in Pcs /\ q # "unlink"
      /\ ~Exclusive /\ d # m[w].to /\ m[w].to \in Dirs /\ Stored(i, m[w].to)
  BY DEF Inv, TypeOK, Memory, Busy, Unlink, Places, Placed, Place, Locks, Shared, Kept, Saved
<1>2. /\ Put(i, d, NoFile) /\ Goto(w, q)
      /\ UNCHANGED <<archived, archiver, lock, acks, canceller, world, ghost>>
  BY DEF Unlink
<1> HIDE DEF i, d, q
<1>3. \A j \in Wakes, e \in Dirs : file'[j][e] = IF j = i /\ e = d THEN NoFile ELSE file[j][e]
  BY <1>1, <1>2, PutType, Constants DEF Inv
<1>4. m'[w].pc = q
  BY <1>1, <1>2, GotoStep DEF Inv
<1>5. Saved'
  BY <1>1, <1>2, <1>4 DEF Kept, Saved, OneMonitor, Exclusive, ghost
<1>6. OnDisk'
  <2> SUFFICES ASSUME NEW j \in known \ cleaned, j \notin archived
               PROVE  \E e \in Dirs : file'[j][e].on
    BY <1>2 DEF OnDisk, ghost
  <2>1. j \in Wakes
    BY DEF Inv, TypeOK
  <2>2. CASE j = i
    BY <1>1, <1>3, <2>2 DEF Stored
  <2>3. CASE j # i
    BY <1>3, <2>1, <2>3 DEF Kept, OnDisk
  <2> QED BY <2>2, <2>3
<1> QED BY <1>5, <1>6 DEF Kept

LEMMA OperatingKept == ASSUME Inv, Kept, OneMonitor, Operating PROVE Kept'
<1>1. CASE CancelWrite
  <2> DEFINE i == canceller.wake
             c == file[i][canceller.src]
  <2>1. i \in Wakes /\ c \in Copy /\ c.on /\ canceller' = [canceller EXCEPT !.pc = "unlink"]
    BY <1>1 DEF CancelWrite, Inv, TypeOK, Busy, Kept, Saved
  <2>2. /\ Put(i, "cancelled", c)
        /\ canceller'.pc = "unlink" /\ canceller'.wake = i /\ canceller'.src = canceller.src
        /\ UNCHANGED <<archived, archiver, lock, acks, m, world, ghost>>
    BY <1>1, <2>1 DEF CancelWrite, Inv, TypeOK
  <2> HIDE DEF i, c
  <2>3. \A j \in Wakes, e \in Dirs :
          file'[j][e] = IF j = i /\ e = "cancelled" THEN c ELSE file[j][e]
    BY <2>1, <2>2, PutType DEF Inv, Dirs
  <2>4. OnDisk'
    BY <2>1, <2>2, <2>3 DEF Kept, OnDisk, Inv, TypeOK, ghost
  <2>5. \A w \in Workers : m[w].pc # "unlink"
    BY <1>1 DEF CancelWrite, Inv, Locks, Shared, Exclusive
  <2>6. Saved'
    BY <1>1, <2>1, <2>2, <2>3, <2>5 DEF CancelWrite, Kept, Saved, Stored, ghost, Dirs
  <2> QED BY <2>4, <2>6 DEF Kept
<1>2. CASE CancelUnlink
  <2> DEFINE i == canceller.wake
             d == canceller.src
  <2>1. i \in Wakes /\ d \in {"pending", "firing"} /\ Stored(i, "cancelled")
    BY <1>2 DEF CancelUnlink, Inv, TypeOK, Busy, Kept, Saved
  <2>2. /\ Put(i, d, NoFile) /\ canceller'.pc = "idle"
        /\ UNCHANGED <<archived, archiver, m, known, cleaned>>
    BY <1>2 DEF CancelUnlink, NotCancelling
  <2> HIDE DEF i, d
  <2>3. \A j \in Wakes, e \in Dirs : file'[j][e] = IF j = i /\ e = d THEN NoFile ELSE file[j][e]
    BY <2>1, <2>2, PutType, Constants DEF Inv, Dirs
  <2>4. OnDisk'
    BY <2>1, <2>2, <2>3 DEF Kept, OnDisk, Stored, Inv, TypeOK, Dirs
  <2>5. \A w \in Workers : m[w].pc # "unlink"
    BY <1>2 DEF CancelUnlink, Inv, Locks, Shared, Exclusive
  <2>6. Saved'
    BY <2>2, <2>5 DEF Kept, Saved
  <2> QED BY <2>4, <2>6 DEF Kept
<1>3. CASE CancelDies
  BY <1>3 DEF CancelDies, NotCancelling, Kept, Saved, Stored, OnDisk, disk
<1>4. ASSUME NEW i \in Wakes, CancelAdmit(i) PROVE Kept'
  BY <1>4, FindsCopy DEF CancelAdmit, Inv, Kept, Saved, Stored, OnDisk, disk, ghost, Exclusive, Shared
<1>5. ASSUME NEW i \in Wakes, Create(i) PROVE Kept'
  <2>1. \A j \in Wakes, e \in Dirs :
          file'[j][e] = IF j = i /\ e = "pending" THEN Fresh ELSE file[j][e]
    BY <1>5, PutType, Constants DEF Create, Inv, Dirs
  <2>2. OnDisk'
    BY <1>5, <2>1, Constants DEF Create, Kept, OnDisk, Inv, TypeOK, Dirs
  <2>3. \A j \in Wakes, e \in Dirs : file[j][e].on => file'[j][e].on
    BY <2>1, Constants
  <2>4. \A j \in Wakes, e \in Dirs : Stored(j, e) => Stored(j, e)'
    BY <1>5, <2>3 DEF Create, Stored
  <2>5. /\ \A w \in Workers : m[w].pc = "unlink" => m[w].wake \in Wakes /\ m[w].to \in Dirs
        /\ canceller.pc # "idle" => canceller.wake \in Wakes /\ canceller.src \in Dirs
    BY DEF Inv, TypeOK, Memory, Busy
  <2>6. Saved'
    BY <1>5, <2>3, <2>4, <2>5 DEF Create, Kept, Saved, Dirs
  <2> QED BY <2>2, <2>6 DEF Kept
<1>6. ASSUME NEW i \in Wakes, ArchiveUnlink(i) PROVE Kept'
  <2> DEFINE d == archiver[i]
  <2>1. d \in Terminal /\ d \in Dirs /\ (i \in archived \/ i \in cleaned)
    BY <1>6 DEF ArchiveUnlink, Inv, TypeOK, Kept, Saved
  <2>2. /\ Put(i, d, NoFile) /\ archiver' = [archiver EXCEPT ![i] = "none"]
        /\ UNCHANGED <<archived, m, canceller, known, cleaned>>
    BY <1>6 DEF ArchiveUnlink, ghost
  <2> HIDE DEF d
  <2>3. \A j \in Wakes, e \in Dirs : file'[j][e] = IF j = i /\ e = d THEN NoFile ELSE file[j][e]
    BY <2>1, <2>2, PutType, Constants DEF Inv
  <2>4. OnDisk'
    BY <2>1, <2>2, <2>3 DEF Kept, OnDisk, Inv, TypeOK
  <2>5. Saved'
    BY <2>1, <2>2, <2>3 DEF Kept, Saved, Stored, Inv, TypeOK, Memory, Busy, Terminal, Dirs
  <2> QED BY <2>4, <2>5 DEF Kept
<1>7. ASSUME NEW i \in Wakes, ArchiveWrite(i) \/ ArchiveDies(i) \/ Cleanup(i) PROVE Kept'
  <2>1. UNCHANGED <<file, m, canceller, known>>
    BY <1>7 DEF ArchiveWrite, ArchiveDies, Cleanup, ghost
  <2>2. OnDisk'
    BY <1>7, <2>1 DEF ArchiveWrite, ArchiveDies, Cleanup, ghost, Kept, OnDisk
  <2>3. Saved'
    BY <1>7, <2>1 DEF ArchiveWrite, ArchiveDies, Cleanup, ghost, Kept, Saved, Stored, Inv, TypeOK
  <2> QED BY <2>2, <2>3 DEF Kept
<1>8. ASSUME NEW i \in Wakes, Consume(i) PROVE Kept'
  BY <1>8 DEF Consume, Kept, Saved, Stored, OnDisk, ghost
<1> QED
  BY <1>1, <1>2, <1>3, <1>4, <1>5, <1>6, <1>7, <1>8 DEF Operating, Cancel

LEMMA KeptInductive == ASSUME OneMonitor, Inv, Kept, [Next]_vars PROVE Kept'
<1>1. CASE Next
  BY <1>1, StepKinds, PrivateKept, WriteKept, UnlinkKept, OperatingKept
<1>2. CASE UNCHANGED vars
  BY <1>2 DEF vars, disk, ghost, Kept, Saved, Stored, OnDisk
<1> QED BY <1>1, <1>2

(* With one monitor per wake root, no record is lost: whoever dies between *)
(* the two halves of a save, cancel or archive, for any number of wakes.   *)
THEOREM LosesNothing == OneMonitor => (Spec => []NeverLost)
<1> SUFFICES ASSUME OneMonitor PROVE Spec => []NeverLost
  OBVIOUS
<1>1. Init => Inv /\ Kept
  BY Initially DEF Kept, OnDisk, Init
<1>2. Inv /\ Kept /\ [Next]_vars => (Inv /\ Kept)'
  BY Inductive, KeptInductive
<1>3. Inv /\ Kept => NeverLost
  BY LostIfNotOnDisk DEF Kept
<1> QED BY <1>1, <1>2, <1>3, PTL DEF Spec

-----------------------------------------------------------------------------
(* One monitor: no attempt is free.                                        *)

Allowed == MaxAttempts + crashes

EarlyPcs == {"routing", "locking", "reading", "removing", "creating", "owning", "held", "app"}
TriedPcs == {"pasting", "preflight", "starting"}

Dispatching(w) == Shared(w) /\ m[w].src = "firing"

(* The files.  A firing copy is at its limit only while it is dispatched:  *)
(* the dispatch unlinks it, or dies and raises the limit.                  *)
Tallied ==
  \A i \in Wakes :
    /\ \A d \in Dirs : file[i][d].on => i \in known /\ file[i][d].attempts <= Allowed
    /\ \A d \in {"pending", "firing"} : file[i][d].on => pasted[i] <= file[i][d].attempts
    /\ file[i]["pending"].on => file[i]["pending"].attempts < Allowed
    /\ file[i]["firing"].on => \/ file[i]["firing"].attempts < Allowed
                               \/ \E w \in Workers : Dispatching(w) /\ m[w].wake = i
    /\ pasted[i] > 0 => i \in known

(* A dispatch before its attempt is counted. *)
EarlyOK(w) ==
  /\ m[w].src = "firing" /\ ~file[m[w].wake]["pending"].on
  /\ pasted[m[w].wake] <= m[w].copy.attempts /\ m[w].copy.attempts < Allowed
  /\ m[w].pc # "unlink" /\ (m[w].pc = "write" => m[w].to = "firing")

(* A dispatch whose attempt is counted and not used. *)
TriedOK(w) ==
  /\ m[w].src = "firing" /\ ~file[m[w].wake]["pending"].on
  /\ pasted[m[w].wake] < m[w].copy.attempts /\ m[w].copy.attempts <= Allowed
  /\ m[w].pc # "unlink" /\ (m[w].pc = "write" => m[w].to = "firing")
  /\ m[w].pc # "write" => file[m[w].wake]["firing"].attempts = m[w].copy.attempts

(* A dispatch that has only its outcome to save. *)
DoneOK(w) ==
  /\ m[w].src = "firing"
  /\ pasted[m[w].wake] <= m[w].copy.attempts /\ m[w].copy.attempts <= Allowed

(* A save. *)
SaveOK(w) ==
  /\ m[w].after \in {"idle", "releasing", "noting", "locking", "app"} \cup TriedPcs
  /\ m[w].after \in {"idle", "releasing", "noting"} /\ m[w].src = "firing" => m[w].to # "firing"
  /\ m[w].after \in {"releasing", "noting"} => m[w].src = "firing"
  /\ m[w].pc = "write" =>
       /\ m[w].copy.attempts <= Allowed
       /\ m[w].to \in {"pending", "firing"} => pasted[m[w].wake] <= m[w].copy.attempts
       /\ m[w].to = "pending" \/ (m[w].to = "firing" /\ m[w].src # "firing") => m[w].copy.attempts < Allowed

MemoryOK(w) ==
  /\ m[w].wake \in known
  /\ m[w].pc = "evaluated" => m[w].src = "pending"
  /\ m[w].pc = "listed" => m[w].src = "firing"
  /\ Place(w) \in EarlyPcs => EarlyOK(w)
  /\ Place(w) \in TriedPcs => TriedOK(w)
  /\ m[w].pc = "waiting" \/ (m[w].pc = "releasing" /\ m[w].after = "write") => DoneOK(w)
  /\ m[w].pc = "noting" \/ (m[w].pc = "releasing" /\ m[w].after # "write") => ~file[m[w].wake]["firing"].on
  /\ m[w].pc \in {"write", "unlink"} => SaveOK(w)

Remembered == \A w \in Workers : m[w].pc # "idle" => MemoryOK(w)

LEMMA AllowedType == ASSUME TypeOK PROVE Allowed \in Nat /\ Allowed >= MaxAttempts /\ Allowed >= 1
BY LegacyConstants DEF TypeOK, Allowed

(* The firing copy counts only if there is no pending one. *)
LEMMA FindsFirst ==
  ASSUME TypeOK, NEW i \in Wakes, Exists(i), find_record(i) # "pending"
  PROVE  ~file[i]["pending"].on
<1>1. CASE "pending" \in Copies(i)
  <2>1. \A e \in Copies(i) : Rank["pending"] <= Rank[e]
    BY DEF Copies, Dirs, Rank
  <2>2. /\ find_record(i) \in Copies(i)
        /\ \A e \in Copies(i) : Rank[find_record(i)] <= Rank[e]
    BY <1>1, <2>1 DEF find_record
  <2>3. Rank[find_record(i)] <= Rank["pending"]
    BY <1>1, <2>2
  <2> QED BY <2>2, <2>3 DEF Copies, Dirs, Rank
<1>2. CASE "pending" \notin Copies(i)
  BY <1>2 DEF Copies, Dirs
<1> QED BY <1>1, <1>2

(* A step that changes no file, and pastes at most the prompt whose        *)
(* attempt is counted.                                                     *)
CountedStep(w) ==
  /\ UNCHANGED <<file, known, crashes>>
  /\ \/ pasted' = pasted
     \/ /\ m[w].pc \in TriedPcs
        /\ pasted' = [pasted EXCEPT ![m[w].wake] = @ + 1]
  /\ m'[w].pc # "idle" => MemoryOK(w)'
  /\ Dispatching(w) => \/ Dispatching(w)' /\ m'[w].wake = m[w].wake
                       \/ ~file[m[w].wake]["firing"].on

LEMMA CountedStepKeeps ==
  ASSUME Inv, OneMonitor, Tallied, Remembered, NEW w \in Workers, CountedStep(w)
  PROVE  Tallied' /\ Remembered'
<1>1. Remembered'
  BY DEF OneMonitor, Remembered, CountedStep
<1>2. Allowed' = Allowed
  BY DEF CountedStep, Allowed
<1>3. \A i \in Wakes : file[i]["firing"].on =>
        \/ file[i]["firing"].attempts < Allowed
        \/ \E v \in Workers : Dispatching(v)' /\ m'[v].wake = i
  BY DEF Tallied, CountedStep, OneMonitor
<1>4. \A i \in Wakes :
        /\ \A d \in {"pending", "firing"} : file[i][d].on => pasted'[i] <= file[i][d].attempts
        /\ pasted'[i] > 0 => i \in known
  <2>1. CASE pasted' = pasted
    BY <2>1 DEF Tallied
  <2>2. CASE /\ m[w].pc \in TriedPcs
             /\ pasted' = [pasted EXCEPT ![m[w].wake] = @ + 1]
    <3> DEFINE i == m[w].wake
    <3>1. i \in Wakes /\ i \in known /\ TriedOK(w) /\ m[w].pc # "write"
      BY <2>2 DEF Inv, Busy, Remembered, MemoryOK, Place, TriedPcs
    <3>2. pasted'[i] = pasted[i] + 1 /\ \A j \in Wakes \ {i} : pasted'[j] = pasted[j]
      BY <2>2, <3>1 DEF Inv, TypeOK
    <3>3. /\ ~file[i]["pending"].on /\ pasted[i] < m[w].copy.attempts
          /\ file[i]["firing"].attempts = m[w].copy.attempts
      BY <3>1 DEF TriedOK
    <3>4. pasted[i] \in Nat /\ m[w].copy.attempts \in Nat
      BY <3>1 DEF Inv, TypeOK, Memory, Copy
    <3> HIDE DEF i
    <3> QED BY <3>1, <3>2, <3>3, <3>4 DEF Tallied
  <2> QED BY <2>1, <2>2 DEF CountedStep
<1>5. UNCHANGED <<file, known>>
  BY DEF CountedStep
<1>6. Tallied'
  BY <1>2, <1>3, <1>4, <1>5 DEF Tallied
<1> QED BY <1>1, <1>6
(* What a dispatch before its attempt, one after it, and one that is over  *)
(* may save.                                                               *)
SavedWell(w, c, d, q) ==
  /\ c \in Copy /\ d \in Dirs /\ q \in Pcs /\ c.attempts <= Allowed
  /\ \/ d \in Terminal /\ q = "idle"
     \/ d \in Terminal /\ q \in {"releasing", "noting"} /\ m[w].src = "firing"
     \/ /\ d = "pending" /\ pasted[m[w].wake] <= c.attempts /\ c.attempts < Allowed
        /\ q = "idle" \/ (q = "releasing" /\ m[w].src = "firing")
     \/ /\ d = "firing" /\ q = "idle" /\ m[w].src = "pending"
        /\ pasted[m[w].wake] <= c.attempts /\ c.attempts < Allowed
     \/ /\ d = "firing" /\ m[w].src = "firing" /\ ~file[m[w].wake]["pending"].on
        /\ \/ q \in {"locking", "app"} /\ pasted[m[w].wake] <= c.attempts /\ c.attempts < Allowed
           \/ q \in TriedPcs /\ pasted[m[w].wake] < c.attempts

(* The memory after a save was begun is sound. *)
SaveMade(w, c, d, q) ==
  /\ m'[w].pc = "write" /\ m'[w].wake = m[w].wake /\ m'[w].src = m[w].src
  /\ m'[w].copy = c /\ m'[w].to = d /\ m'[w].after = q

LEMMA SaveRemembers ==
  ASSUME Inv, Remembered, NEW w \in Workers, m[w].pc # "idle", NEW c, NEW d, NEW q,
         SavedWell(w, c, d, q), SaveMade(w, c, d, q),
         UNCHANGED <<file, known, crashes>>,
         pasted' = pasted \/ d \in Terminal
  PROVE  MemoryOK(w)' /\ (Dispatching(w) => Dispatching(w)')
<1>1. Allowed' = Allowed /\ Allowed \in Nat
  BY AllowedType DEF Allowed, Inv
<1>2. m[w].wake \in known /\ c.attempts \in Nat /\ pasted[m[w].wake] \in Nat
  BY DEF Remembered, MemoryOK, SavedWell, Copy, Inv, TypeOK, Busy
<1>3. Dispatching(w) => Dispatching(w)'
  BY DEF Dispatching, Shared, SaveMade
<1>4. Place(w)' = q /\ (q \in EarlyPcs \cup TriedPcs => d = "firing")
  BY DEF Place, SaveMade, SavedWell, EarlyPcs, TriedPcs
<1>5. q \in EarlyPcs => EarlyOK(w)'
  BY <1>1, <1>2 DEF EarlyOK, EarlyPcs, TriedPcs, SaveMade, SavedWell, Terminal
<1>6. q \in TriedPcs => TriedOK(w)'
  BY <1>1, <1>2 DEF TriedOK, TriedPcs, SaveMade, SavedWell, Terminal
<1>7. SaveOK(w)'
  <2>1. m'[w].after \in {"idle", "releasing", "noting", "locking", "app"} \cup TriedPcs
    BY DEF SaveMade, SavedWell
  <2>2. m'[w].after \in {"idle", "releasing", "noting"} /\ m'[w].src = "firing" => m'[w].to # "firing"
    BY DEF SaveMade, SavedWell, Terminal, TriedPcs
  <2>3. m'[w].after \in {"releasing", "noting"} => m'[w].src = "firing"
    BY DEF SaveMade, SavedWell, TriedPcs
  <2>4. /\ m'[w].copy.attempts <= Allowed'
        /\ m'[w].to \in {"pending", "firing"} => pasted'[m'[w].wake] <= m'[w].copy.attempts
        /\ m'[w].to = "pending" \/ (m'[w].to = "firing" /\ m'[w].src # "firing") =>
             m'[w].copy.attempts < Allowed'
    BY <1>1, <1>2 DEF SaveMade, SavedWell, Terminal
  <2> QED BY <2>1, <2>2, <2>3, <2>4 DEF SaveOK
<1> QED
  BY <1>2, <1>3, <1>4, <1>5, <1>6, <1>7 DEF MemoryOK, SaveMade

LEMMA SaveCounts ==
  ASSUME Inv, Remembered, NEW w \in Workers, m[w].pc # "idle", NEW c, NEW d, NEW q,
         SavedWell(w, c, d, q), SaveAs(w, c, d, q),
         UNCHANGED <<file, known, crashes>>,
         \/ pasted' = pasted
         \/ /\ m[w].pc \in TriedPcs /\ d \in Terminal
            /\ pasted' = [pasted EXCEPT ![m[w].wake] = @ + 1]
  PROVE  CountedStep(w)
<1>1. c \in Copy /\ d \in Dirs /\ q \in Pcs
  BY DEF SavedWell
<1>2. SaveMade(w, c, d, q)
  BY <1>1, SaveStep DEF Inv, SaveMade
<1>3. MemoryOK(w)' /\ (Dispatching(w) => Dispatching(w)')
  BY <1>2, SaveRemembers
<1>4. m'[w].wake = m[w].wake
  BY <1>2 DEF SaveMade
<1> QED BY <1>3, <1>4 DEF CountedStep

(* A dispatch goes on before its attempt. *)
LEMMA EarlyCounts ==
  ASSUME Inv, Remembered, NEW w \in Workers, m[w].pc # "idle", NEW q \in EarlyPcs,
         Goto(w, q), UNCHANGED <<file, known, crashes, pasted>>,
         m[w].src = "firing", ~file[m[w].wake]["pending"].on,
         pasted[m[w].wake] <= m[w].copy.attempts, m[w].copy.attempts < Allowed
  PROVE  CountedStep(w)
<1>1. q \in Pcs /\ q \notin {"idle", "write", "unlink", "evaluated", "listed"}
  BY DEF EarlyPcs, Pcs
<1>2. /\ m'[w].pc = q /\ m'[w].wake = m[w].wake /\ m'[w].copy = m[w].copy
      /\ m'[w].src = m[w].src
  BY <1>1, GotoStep DEF Inv
<1>3. Allowed' = Allowed
  BY DEF Allowed
<1>4. EarlyOK(w)'
  BY <1>1, <1>2, <1>3 DEF EarlyOK
<1>5. MemoryOK(w)'
  BY <1>1, <1>2, <1>4 DEF MemoryOK, Remembered, Place, EarlyPcs, TriedPcs
<1> QED BY <1>1, <1>2, <1>5 DEF CountedStep, Dispatching, Shared

(* A dispatch is over without an outcome saved yet. *)
LEMMA DoneCounts ==
  ASSUME Inv, Remembered, NEW w \in Workers, m[w].pc # "idle", NEW c \in Copy,
         m'[w].pc = "waiting" \/ (m'[w].pc = "releasing" /\ m'[w].after = "write"),
         m'[w].wake = m[w].wake, m'[w].src = m[w].src, m'[w].copy = c,
         UNCHANGED <<file, known, crashes>>,
         m[w].src = "firing", c.attempts <= Allowed,
         \/ pasted' = pasted /\ pasted[m[w].wake] <= c.attempts
         \/ /\ m[w].pc \in TriedPcs /\ pasted[m[w].wake] < c.attempts
            /\ pasted' = [pasted EXCEPT ![m[w].wake] = @ + 1]
  PROVE  CountedStep(w)
<1>1. /\ m[w].wake \in Wakes /\ m[w].wake \in known /\ pasted[m[w].wake] \in Nat
      /\ c.attempts \in Nat
  BY DEF Inv, TypeOK, Busy, Remembered, MemoryOK, Copy
<1>2. pasted'[m[w].wake] <= c.attempts
  BY <1>1 DEF Inv, TypeOK
<1>3. DoneOK(w)'
  BY <1>2 DEF DoneOK, Allowed
<1>4. MemoryOK(w)'
  BY <1>1, <1>3 DEF MemoryOK, Place, EarlyPcs, TriedPcs
<1> QED BY <1>4 DEF CountedStep, Dispatching, Shared

LEMMA DecidingCounts ==
  ASSUME Inv, OneMonitor, Tallied, Remembered, NEW w \in Workers, m[w].pc # "idle", Deciding(w)
  PROVE  CountedStep(w)
<1> DEFINE c == m[w].copy
           i == m[w].wake
<1>a. c \in Copy /\ i \in Wakes /\ m[w] \in Memory /\ m[w].src \in Dirs
  BY DEF Inv, TypeOK, Memory, Busy
<1>b. Counted(w) \in Copy /\ Counted(w).attempts = c.attempts + 1
  BY <1>a, CopyUpdates DEF Counted
<1>1. /\ c \in Copy /\ i \in Wakes /\ m[w] \in Memory /\ m[w].src \in Dirs
      /\ Counted(w) \in Copy /\ Counted(w).attempts = c.attempts + 1
      /\ c.attempts \in Nat /\ pasted[i] \in Nat
  BY <1>a, <1>b DEF Inv, TypeOK, Copy
<1>2. MemoryOK(w)
  BY DEF Remembered
<1>3. Allowed \in Nat /\ Allowed >= MaxAttempts /\ MaxAttempts \in Nat
  BY AllowedType, LegacyConstants DEF Inv
<1>4. UNCHANGED <<file, known, crashes>>
  BY DEF Deciding, Admit, Route, Transition, CapturePane, PastePrompt, AckObserved, AckTimeout,
         AppAttempt, AppPreflight, AppRequeue, AppStart, AppNote, disk, ghost
<1>5. m[w].pc \in EarlyPcs => /\ m[w].src = "firing" /\ ~file[i]["pending"].on
                              /\ pasted[i] <= c.attempts /\ c.attempts < Allowed
  BY <1>2 DEF MemoryOK, EarlyOK, Place, EarlyPcs
<1>6. m[w].pc \in TriedPcs => /\ m[w].src = "firing" /\ ~file[i]["pending"].on
                              /\ pasted[i] < c.attempts /\ c.attempts <= Allowed
  BY <1>2 DEF MemoryOK, TriedOK, Place, TriedPcs
<1>7. ASSUME Goto(w, "idle"), ~Shared(w) \/ ~file[i]["firing"].on, UNCHANGED pasted
      PROVE  CountedStep(w)
  <2>1. m'[w].pc = "idle"
    BY <1>7, GotoStep DEF Inv, Pcs
  <2> QED BY <1>4, <1>7, <2>1 DEF CountedStep, Dispatching
<1>8. CASE Admit(w)
  <2>1. m[w].pc = "listed" /\ UNCHANGED pasted /\ ~Shared(w)
    BY <1>8 DEF Admit, world, Shared
  <2>2. CASE Finds(i, "firing", c)
    <3>1. /\ file[i]["firing"].on /\ ~file[i]["pending"].on /\ c = file[i]["firing"]
      BY <1>1, <2>2, FindsCopy, FindsFirst DEF Finds, Inv
    <3>2. pasted[i] <= c.attempts /\ c.attempts < Allowed
      BY <1>1, <2>1, <3>1 DEF Tallied, Dispatching, OneMonitor
    <3>3. m[w].src = "firing"
      BY <1>2, <2>1 DEF MemoryOK
    <3>4. PICK q \in {"app", "routing"} : Goto(w, q)
      BY <1>8, <2>2 DEF Admit
    <3>5. q \in EarlyPcs
      BY DEF EarlyPcs
    <3> QED BY <1>4, <2>1, <3>1, <3>2, <3>3, <3>4, <3>5, EarlyCounts
  <2>3. CASE ~Finds(i, "firing", c)
    BY <1>7, <1>8, <2>1, <2>3 DEF Admit
  <2> QED BY <2>2, <2>3
<1>9. CASE Route(w)
  <2>1. m[w].pc = "routing" /\ UNCHANGED pasted
    BY <1>9 DEF Route, world
  <2>2. /\ m[w].src = "firing" /\ ~file[i]["pending"].on
        /\ pasted[i] <= c.attempts /\ c.attempts < Allowed
    BY <1>5, <2>1 DEF EarlyPcs
  <2>3. CASE SaveAs(w, c, "failed", "idle")
    <3>1. SavedWell(w, c, "failed", "idle")
      BY <1>1, <1>3, <2>2 DEF SavedWell, Terminal, Dirs, Pcs
    <3> QED BY <1>4, <2>1, <2>3, <3>1, SaveCounts
  <2>4. CASE SaveAs(w, c, "firing", "locking")
    <3>1. SavedWell(w, c, "firing", "locking")
      BY <1>1, <1>3, <2>2 DEF SavedWell, Dirs, Pcs
    <3> QED BY <1>4, <2>1, <2>4, <3>1, SaveCounts
  <2> DEFINE a == [c EXCEPT !.app = TRUE]
  <2>5. CASE m' = [m EXCEPT ![w] = [Saving(w, a, "firing", "app") EXCEPT !.fell = TRUE]]
    <3>1. a \in Copy /\ a.attempts = c.attempts
      BY <1>1, CopyUpdates
    <3> HIDE DEF a
    <3> DEFINE s == Saving(w, a, "firing", "app")
               r == [s EXCEPT !.fell = TRUE]
    <3>2. /\ s \in Memory /\ s.pc = "write" /\ s.wake = i /\ s.copy = a /\ s.to = "firing"
          /\ s.after = "app" /\ s.src = m[w].src
      BY <1>1, <3>1, SavingMemory DEF Dirs, Pcs
    <3>3. /\ r.pc = "write" /\ r.wake = i /\ r.copy = a /\ r.to = "firing"
          /\ r.after = "app" /\ r.src = m[w].src
      <4> HIDE DEF s
      <4> QED BY <1>1, <3>2, MemoryUpdates
    <3>4. m'[w] = r
      BY <2>5 DEF Inv, TypeOK
    <3> HIDE DEF r
    <3>5. SaveMade(w, a, "firing", "app")
      BY <3>3, <3>4 DEF SaveMade
    <3>6. SavedWell(w, a, "firing", "app")
      BY <1>1, <1>3, <2>2, <3>1 DEF SavedWell, Dirs, Pcs
    <3>7. MemoryOK(w)' /\ (Dispatching(w) => Dispatching(w)')
      BY <1>4, <2>1, <3>5, <3>6, SaveRemembers
    <3> QED BY <1>4, <2>1, <3>5, <3>7 DEF CountedStep, SaveMade
  <2> QED BY <1>9, <2>3, <2>4, <2>5 DEF Route
<1>10. ASSUME NEW d \in {"firing", "failed"}, Transition(w, d) PROVE CountedStep(w)
  <2>1. m[w].pc = "evaluated" /\ UNCHANGED pasted /\ ~Shared(w) /\ m[w].src = "pending"
    BY <1>2, <1>10 DEF Transition, world, Shared, MemoryOK
  <2>2. CASE Finds(i, "pending", c)
    <3>1. file[i]["pending"].on /\ c = file[i]["pending"]
      BY <1>1, <2>2, FindsCopy DEF Finds, Inv
    <3>2. pasted[i] <= c.attempts /\ c.attempts < Allowed
      BY <1>1, <3>1 DEF Tallied
    <3>3. SavedWell(w, c, d, "idle")
      BY <1>1, <1>3, <2>1, <3>2 DEF SavedWell, Terminal, Dirs, Pcs
    <3> QED BY <1>4, <1>10, <2>1, <2>2, <3>3, SaveCounts DEF Transition
  <2>3. CASE ~Finds(i, "pending", c)
    BY <1>7, <1>10, <2>1, <2>3 DEF Transition
  <2> QED BY <2>2, <2>3
<1>11. CASE CapturePane(w)
  <2>1. m[w].pc = "held" /\ UNCHANGED pasted
    BY <1>11 DEF CapturePane, world
  <2>2. /\ m[w].src = "firing" /\ ~file[i]["pending"].on
        /\ pasted[i] <= c.attempts /\ c.attempts < Allowed
    BY <1>5, <2>1 DEF EarlyPcs
  <2>3. CASE Fail(w, Counted(w))
    BY <1>1, <1>3, <1>4, <2>1, <2>2, <2>3, FailStep, DoneCounts DEF Inv
  <2>4. CASE requeue_unsafe_pane(w)
    <3> DEFINE u == [c EXCEPT !.deferrals = @ + 1]
               d == IF u.deferrals >= MaxDeferrals THEN "failed" ELSE "pending"
    <3>1. u \in Copy /\ u.attempts = c.attempts /\ d \in {"failed", "pending"}
      BY <1>1, CopyUpdates
    <3>2. SaveAs(w, u, d, "releasing")
      BY <2>4 DEF requeue_unsafe_pane
    <3> HIDE DEF u, d
    <3>3. SavedWell(w, u, d, "releasing")
      BY <1>1, <1>3, <2>2, <3>1 DEF SavedWell, Terminal, Dirs, Pcs
    <3> QED BY <1>4, <2>1, <3>2, <3>3, SaveCounts
  <2>5. CASE SaveAs(w, Counted(w), "firing", "pasting")
    <3>1. SavedWell(w, Counted(w), "firing", "pasting")
      BY <1>1, <1>3, <2>2 DEF SavedWell, TriedPcs, Dirs, Pcs
    <3> QED BY <1>4, <2>1, <2>5, <3>1, SaveCounts
  <2> QED BY <1>11, <2>3, <2>4, <2>5 DEF CapturePane
<1>12. CASE PastePrompt(w)
  <2>1. m[w].pc = "pasting" /\ m[w].pc \in TriedPcs
    BY <1>12 DEF PastePrompt, TriedPcs
  <2>2. pasted' = pasted \/ pasted' = [pasted EXCEPT ![i] = @ + 1]
    BY <1>12 DEF PastePrompt, Prompt, world
  <2>3. CASE Fail(w, c)
    BY <1>1, <1>4, <1>6, <2>1, <2>2, <2>3, FailStep, DoneCounts DEF Inv
  <2>4. CASE m' = [m EXCEPT ![w] = [@ EXCEPT !.pc = "waiting", !.after = "idle"]]
    <3> DEFINE r == [m[w] EXCEPT !.pc = "waiting", !.after = "idle"]
    <3>1. r.pc = "waiting" /\ r.wake = i /\ r.copy = c /\ r.src = m[w].src
      BY <1>1, MemoryUpdates DEF Dirs
    <3>2. m'[w] = r
      BY <2>4 DEF Inv, TypeOK
    <3> HIDE DEF r
    <3> QED BY <1>1, <1>4, <1>6, <2>1, <2>2, <3>1, <3>2, DoneCounts
  <2> QED BY <1>12, <2>3, <2>4 DEF PastePrompt
<1>13. CASE AckObserved(w) \/ AckTimeout(w)
  <2>1. m[w].pc = "waiting" /\ UNCHANGED pasted
    BY <1>13 DEF AckObserved, AckTimeout, world
  <2>2. m[w].src = "firing" /\ pasted[i] <= c.attempts /\ c.attempts <= Allowed
    BY <1>2, <2>1 DEF MemoryOK, DoneOK
  <2>3. PICK d \in Dirs : /\ SaveAs(w, c, d, "releasing")
                          /\ d \in Terminal \/ (d = "pending" /\ c.attempts < MaxAttempts)
    BY <1>1, <1>3, <1>13 DEF AckObserved, AckTimeout, requeue_or_fail, Dirs, Terminal
  <2>4. SavedWell(w, c, d, "releasing")
    BY <1>1, <1>3, <2>2, <2>3 DEF SavedWell, Pcs
  <2> QED BY <1>4, <2>1, <2>3, <2>4, SaveCounts
<1>14. CASE AppAttempt(w)
  <2>1. m[w].pc = "app" /\ UNCHANGED pasted
    BY <1>14 DEF AppAttempt, world
  <2>2. SavedWell(w, Counted(w), "firing", "preflight")
    BY <1>1, <1>3, <1>5, <2>1 DEF SavedWell, TriedPcs, EarlyPcs, Dirs, Pcs
  <2> QED BY <1>4, <1>14, <2>1, <2>2, SaveCounts DEF AppAttempt
<1>15. CASE AppPreflight(w) \/ AppRequeue(w) \/ AppStart(w)
  <2>1. m[w].pc \in TriedPcs
    BY <1>15 DEF AppPreflight, AppRequeue, AppStart, TriedPcs
  <2>2. PICK d \in Dirs, q \in Pcs :
          /\ SaveAs(w, c, d, q)
          /\ \/ /\ d \in Terminal /\ q \in {"idle", "noting"}
                /\ pasted' = pasted \/ pasted' = [pasted EXCEPT ![i] = @ + 1]
             \/ d = "pending" /\ q = "idle" /\ c.attempts < MaxAttempts /\ pasted' = pasted
             \/ d = "firing" /\ q = "starting" /\ pasted' = pasted
    <3>1. CASE AppPreflight(w)
      BY <1>1, <3>1 DEF AppPreflight, AppFail, world, Dirs, Pcs, Terminal
    <3>2. CASE AppRequeue(w)
      BY <1>1, <1>3, <3>2 DEF AppRequeue, AppFail, world, Dirs, Pcs, Terminal
    <3>3. CASE AppStart(w)
      BY <1>1, <3>3 DEF AppStart, AppFail, Prompt, world, Dirs, Pcs, Terminal
    <3> QED BY <1>15, <3>1, <3>2, <3>3
  <2>3. SavedWell(w, c, d, q)
    BY <1>1, <1>3, <1>6, <2>1, <2>2 DEF SavedWell, TriedPcs
  <2> QED BY <1>4, <2>1, <2>2, <2>3, SaveCounts
<1>16. CASE AppNote(w)
  <2> DEFINE d == find_record(i)
             f == file[i][d]
  <2>1. m[w].pc = "noting" /\ ~file[i]["firing"].on /\ UNCHANGED pasted
    BY <1>2, <1>16 DEF AppNote, MemoryOK, world
  <2>2. CASE ~Exists(i)
    BY <1>7, <1>16, <2>1, <2>2 DEF AppNote
  <2>3. CASE Exists(i)
    <3>1. d \in Dirs /\ f \in Copy /\ f.on
      BY <1>1, <2>3, FindsCopy DEF Inv, TypeOK
    <3>2. d # "firing" /\ f.attempts <= Allowed
      BY <1>1, <2>1, <3>1 DEF Tallied
    <3>3. d = "pending" => pasted[i] <= f.attempts /\ f.attempts < Allowed
      BY <1>1, <3>1 DEF Tallied
    <3> DEFINE s == Saving(w, f, d, "idle")
               r == [s EXCEPT !.src = d]
    <3>4. m' = [m EXCEPT ![w] = r]
      BY <1>16, <2>3 DEF AppNote
    <3> HIDE DEF d, f
    <3>5. /\ s \in Memory /\ s.pc = "write" /\ s.wake = i /\ s.copy = f /\ s.to = d
          /\ s.after = "idle"
      BY <1>1, <3>1, SavingMemory DEF Pcs
    <3>6. /\ r.pc = "write" /\ r.wake = i /\ r.copy = f /\ r.to = d
          /\ r.after = "idle" /\ r.src = d
      <4> HIDE DEF s
      <4> QED BY <3>1, <3>5, MemoryUpdates
    <3>7. m'[w] = r
      BY <3>4 DEF Inv, TypeOK
    <3> HIDE DEF r
    <3>8. SaveOK(w)'
      BY <1>4, <2>1, <3>2, <3>3, <3>6, <3>7 DEF SaveOK, Allowed
    <3>9. MemoryOK(w)'
      BY <1>2, <1>4, <3>6, <3>7, <3>8 DEF MemoryOK, Place, EarlyPcs, TriedPcs
    <3> QED BY <1>4, <2>1, <3>9 DEF CountedStep
  <2> QED BY <2>2, <2>3
<1> QED
  BY <1>8, <1>9, <1>10, <1>11, <1>12, <1>13, <1>14, <1>15, <1>16 DEF Deciding

LEMMA LockingCounts ==
  ASSUME Inv, Remembered, NEW w \in Workers, m[w].pc # "idle", Locking(w)
  PROVE  CountedStep(w)
<1> DEFINE c == m[w].copy
           i == m[w].wake
<1>1. c \in Copy /\ i \in Wakes /\ c.attempts \in Nat
  BY DEF Inv, TypeOK, Memory, Busy, Copy
<1>2. MemoryOK(w)
  BY DEF Remembered
<1>3. Allowed \in Nat /\ Allowed >= MaxAttempts /\ MaxAttempts \in Nat
  BY AllowedType, LegacyConstants DEF Inv
<1>4. UNCHANGED <<file, known, crashes, pasted>>
  BY DEF Locking, LockExists, LockRead, LockRemove, LockCreate, LockPid, LockRelease, LockStep,
         world, ghost
<1>5. m[w].pc \in EarlyPcs => /\ m[w].src = "firing" /\ ~file[i]["pending"].on
                              /\ pasted[i] <= c.attempts /\ c.attempts < Allowed
  BY <1>2 DEF MemoryOK, EarlyOK, Place, EarlyPcs
<1>6. ASSUME NEW d \in {"failed", "pending"}, SaveAs(w, c, d, "idle"),
             d = "pending" => c.attempts < MaxAttempts,
             pasted[i] <= c.attempts, c.attempts <= Allowed
      PROVE  CountedStep(w)
  <2>1. SavedWell(w, c, d, "idle")
    BY <1>1, <1>3, <1>6 DEF SavedWell, Terminal, Dirs, Pcs
  <2> QED BY <1>4, <1>6, <2>1, SaveCounts
<1>7. CASE LockExists(w) \/ LockRead(w) \/ LockRemove(w) \/ LockPid(w)
  <2>1. m[w].pc \in EarlyPcs /\ \E q \in EarlyPcs : Goto(w, q)
    BY <1>7 DEF LockExists, LockRead, LockRemove, LockPid, EarlyPcs
  <2> QED BY <1>4, <1>5, <2>1, EarlyCounts
<1>8. CASE LockCreate(w)
  <2>1. m[w].pc \in EarlyPcs /\ "owning" \in EarlyPcs
    BY <1>8 DEF LockCreate, EarlyPcs
  <2>2. CASE lock.on
    BY <1>1, <1>3, <1>5, <1>6, <1>8, <2>1, <2>2 DEF LockCreate, requeue_or_fail
  <2>3. CASE ~lock.on
    BY <1>4, <1>5, <1>8, <2>1, <2>3, EarlyCounts DEF LockCreate
  <2> QED BY <2>2, <2>3
<1>9. CASE LockRelease(w)
  <2>1. m[w].pc = "releasing"
    BY <1>9 DEF LockRelease
  <2>2. CASE m[w].after = "write"
    <3>1. pasted[i] <= c.attempts /\ c.attempts <= Allowed
      BY <1>2, <2>1, <2>2 DEF MemoryOK, DoneOK
    <3> QED BY <1>1, <1>3, <1>6, <1>9, <2>2, <3>1 DEF LockRelease, requeue_or_fail
  <2>3. CASE m[w].after # "write"
    <3>1. m'[w].pc = "idle"
      BY <1>9, <2>3, GotoStep DEF LockRelease, Inv, Pcs
    <3>2. ~file[i]["firing"].on
      BY <1>2, <2>1, <2>3 DEF MemoryOK
    <3> QED BY <1>4, <3>1, <3>2 DEF CountedStep
  <2> QED BY <2>2, <2>3
<1> QED BY <1>7, <1>8, <1>9 DEF Locking

LEMMA ListCounts ==
  ASSUME Inv, Tallied, NEW w \in Workers, NEW i \in Wakes, NEW d \in {"pending", "firing"},
         List(w, i, d)
  PROVE  CountedStep(w)
<1> DEFINE f == file[i][d]
           q == IF d = "pending" THEN "evaluated" ELSE "listed"
           r == [Idle EXCEPT !.pc = q, !.wake = i, !.copy = f, !.src = d]
<1>1. /\ f.on /\ m'[w] = r /\ UNCHANGED <<file, known, crashes, pasted>> /\ m[w].pc = "idle"
  BY DEF Inv, TypeOK, List, disk, world, ghost
<1>2. r.pc = q /\ r.wake = i /\ r.src = d
  BY DEF Idle
<1>3. i \in known
  BY <1>1 DEF Tallied, Dirs
<1> HIDE DEF r, f
<1>4. MemoryOK(w)'
  BY <1>1, <1>2, <1>3 DEF MemoryOK, Place, EarlyPcs, TriedPcs
<1> QED BY <1>1, <1>4 DEF CountedStep, Dispatching, Shared

(* A crash leaves a firing copy that may have used its last attempt: the   *)
(* limit is one higher from then on.                                       *)
LEMMA CrashCounts ==
  ASSUME Inv, OneMonitor, Tallied, NEW w \in Workers, Crash(w)
  PROVE  Tallied' /\ Remembered'
<1>1. UNCHANGED <<file, known, pasted>> /\ crashes' = crashes + 1 /\ m'[w].pc = "idle"
  BY GotoStep DEF Crash, Die, world, Inv, Pcs
<1>2. Remembered'
  BY <1>1 DEF Remembered, OneMonitor
<1>3. Allowed \in Nat /\ Allowed' = Allowed + 1
  BY <1>1, AllowedType, LegacyConstants DEF Inv, TypeOK, Allowed
<1>4. \A i \in Wakes, d \in Dirs :
        file[i][d].attempts \in Nat /\ (file[i][d].on => file[i][d].attempts < Allowed')
  BY <1>3 DEF Inv, TypeOK, Copy, Tallied
<1>5. Tallied'
  BY <1>1, <1>3, <1>4 DEF Tallied, Dirs
<1> QED BY <1>2, <1>5

LEMMA WriteCounts ==
  ASSUME Inv, OneMonitor, Tallied, Remembered, NEW w \in Workers, Write(w)
  PROVE  Tallied' /\ Remembered'
<1> DEFINE i == m[w].wake
           d == m[w].to
           c == m[w].copy
           q == IF m[w].src = d THEN m[w].after ELSE "unlink"
<1>1. /\ m[w].pc = "write" /\ i \in Wakes /\ d \in Dirs /\ c \in Copy /\ c.on /\ q \in Pcs
      /\ m[w].after \in Pcs /\ m[w].after \notin {"write", "unlink"} /\ Place(w) = m[w].after
      /\ m[w].src \in Dirs
  BY DEF Inv, TypeOK, Memory, Busy, Write, Places, Placed, Place, Pcs
<1>2. Put(i, d, c) /\ Goto(w, q) /\ UNCHANGED <<known, crashes, pasted>>
  BY DEF Write, world, ghost
<1>3. MemoryOK(w) /\ SaveOK(w)
  BY <1>1 DEF Remembered, MemoryOK
<1>4. q = IF m[w].src = d THEN m[w].after ELSE "unlink"
  OBVIOUS
<1> HIDE DEF q
<1>5. \A j \in Wakes, e \in Dirs : file'[j][e] = IF j = i /\ e = d THEN c ELSE file[j][e]
  BY <1>1, <1>2, PutType DEF Inv
<1>6. /\ m'[w].pc = q
      /\ q # "idle" => /\ m'[w].wake = i /\ m'[w].copy = c /\ m'[w].src = m[w].src
                       /\ m'[w].to = d /\ m'[w].after = m[w].after
  BY <1>1, <1>2, GotoStep DEF Inv
<1>7. Allowed' = Allowed
  BY <1>2 DEF Allowed
<1>8. \/ m[w].after \in EarlyPcs /\ m[w].src = "firing" /\ d = "firing"
      \/ m[w].after \in TriedPcs /\ m[w].src = "firing" /\ d = "firing"
      \/ m[w].after \in {"releasing", "noting"} /\ q = "unlink"
      \/ m[w].after = "idle" /\ (m[w].src = "firing" => d # "firing")
  BY <1>1, <1>3, <1>4 DEF SaveOK, MemoryOK, EarlyOK, TriedOK, EarlyPcs
<1>9. m'[w].pc # "idle" => MemoryOK(w)'
  <2> SUFFICES ASSUME q # "idle" PROVE MemoryOK(w)'
    BY <1>6
  <2>1. CASE m[w].after \in EarlyPcs /\ m[w].src = "firing" /\ d = "firing"
    <3>1. q = m[w].after /\ EarlyOK(w)
      BY <1>1, <1>3, <1>4, <2>1 DEF MemoryOK
    <3>2. ~file'[i]["pending"].on
      BY <1>1, <1>5, <2>1, <3>1 DEF EarlyOK, Dirs
    <3>3. EarlyOK(w)'
      BY <1>1, <1>2, <1>6, <1>7, <3>1, <3>2 DEF EarlyOK
    <3> QED
      BY <1>2, <1>3, <1>6, <2>1, <3>1, <3>3 DEF MemoryOK, Place, EarlyPcs, TriedPcs
  <2>2. CASE m[w].after \in TriedPcs /\ m[w].src = "firing" /\ d = "firing"
    <3>1. q = m[w].after /\ TriedOK(w)
      BY <1>1, <1>3, <1>4, <2>2 DEF MemoryOK
    <3>2. ~file'[i]["pending"].on /\ file'[i]["firing"] = c
      BY <1>1, <1>5, <2>2, <3>1 DEF TriedOK, Dirs
    <3>3. TriedOK(w)'
      BY <1>1, <1>2, <1>6, <1>7, <3>1, <3>2 DEF TriedOK
    <3> QED
      BY <1>2, <1>3, <1>6, <2>2, <3>1, <3>3 DEF MemoryOK, Place, EarlyPcs, TriedPcs
  <2>3. CASE q = "unlink" /\ m[w].after \in {"releasing", "noting", "idle"}
    <3>1. SaveOK(w)'
      BY <1>3, <1>6, <2>3 DEF SaveOK
    <3> QED
      BY <1>2, <1>3, <1>6, <2>3, <3>1 DEF MemoryOK, Place, EarlyPcs, TriedPcs
  <2> QED BY <1>4, <1>8, <2>1, <2>2, <2>3
<1>10. Remembered'
  BY <1>9 DEF Remembered, OneMonitor
<1>11. /\ i \in known /\ c.attempts <= Allowed
       /\ d \in {"pending", "firing"} => pasted[i] <= c.attempts
       /\ d = "pending" \/ (d = "firing" /\ m[w].src # "firing") => c.attempts < Allowed
  BY <1>1, <1>3 DEF MemoryOK, SaveOK
<1>12. d = "firing" /\ m[w].src = "firing" => Dispatching(w)' /\ m'[w].wake = i
  BY <1>4, <1>6, <1>8 DEF Dispatching, Shared, EarlyPcs, TriedPcs
<1>13. Dispatching(w) => Dispatching(w)' /\ m'[w].wake = i
  BY <1>4, <1>6, <1>8 DEF Dispatching, Shared, EarlyPcs, TriedPcs
<1> HIDE DEF i, d, c
<1>14. Tallied'
  <2> SUFFICES ASSUME NEW j \in Wakes
               PROVE  /\ \A e \in Dirs : file'[j][e].on => j \in known' /\ file'[j][e].attempts <= Allowed'
                      /\ \A e \in {"pending", "firing"} :
                           file'[j][e].on => pasted'[j] <= file'[j][e].attempts
                      /\ file'[j]["pending"].on => file'[j]["pending"].attempts < Allowed'
                      /\ file'[j]["firing"].on =>
                           \/ file'[j]["firing"].attempts < Allowed'
                           \/ \E v \in Workers : Dispatching(v)' /\ m'[v].wake = j
                      /\ pasted'[j] > 0 => j \in known'
    BY DEF Tallied
  <2>1. \A e \in Dirs : file'[j][e].on => j \in known' /\ file'[j][e].attempts <= Allowed'
    BY <1>2, <1>5, <1>7, <1>11 DEF Tallied
  <2>2. \A e \in {"pending", "firing"} : file'[j][e].on => pasted'[j] <= file'[j][e].attempts
    BY <1>2, <1>5, <1>11 DEF Tallied, Dirs
  <2>3. file'[j]["pending"].on => file'[j]["pending"].attempts < Allowed'
    BY <1>5, <1>7, <1>11 DEF Tallied, Dirs
  <2>4. file'[j]["firing"].on =>
          \/ file'[j]["firing"].attempts < Allowed'
          \/ \E v \in Workers : Dispatching(v)' /\ m'[v].wake = j
    <3>1. CASE j = i /\ d = "firing"
      BY <1>5, <1>7, <1>11, <1>12, <3>1 DEF Dirs
    <3>2. CASE ~(j = i /\ d = "firing")
      <4>1. file'[j]["firing"] = file[j]["firing"]
        BY <1>5, <3>2 DEF Dirs
      <4>2. \A v \in Workers : v = w
        BY DEF OneMonitor
      <4> QED BY <1>7, <1>13, <4>1, <4>2 DEF Tallied, i
    <3> QED BY <3>1, <3>2
  <2> QED BY <1>2, <2>1, <2>2, <2>3, <2>4 DEF Tallied
<1> QED BY <1>10, <1>14

LEMMA UnlinkCounts ==
  ASSUME Inv, OneMonitor, Tallied, Remembered, NEW w \in Workers, Unlink(w)
  PROVE  Tallied' /\ Remembered'
<1> DEFINE i == m[w].wake
           d == m[w].src
           q == m[w].after
<1>1. /\ m[w].pc = "unlink" /\ i \in Wakes /\ d \in Dirs /\ q \in Pcs /\ Place(w) = q
      /\ q \notin {"write", "unlink"}
  BY DEF Inv, TypeOK, Memory, Busy, Unlink, Places, Placed, Place
<1>2. Put(i, d, NoFile) /\ Goto(w, q) /\ UNCHANGED <<known, crashes, pasted>>
  BY DEF Unlink, world, ghost
<1>3. MemoryOK(w) /\ SaveOK(w)
  BY <1>1 DEF Remembered, MemoryOK
<1>4. q \in {"idle", "releasing", "noting"} /\ (q # "idle" => d = "firing")
  BY <1>1, <1>3 DEF SaveOK, MemoryOK, EarlyOK, TriedOK, EarlyPcs
<1>5. \A j \in Wakes, e \in Dirs : file'[j][e] = IF j = i /\ e = d THEN NoFile ELSE file[j][e]
  BY <1>1, <1>2, PutType, Constants DEF Inv
<1>6. /\ m'[w].pc = q
      /\ q # "idle" => m'[w].wake = i /\ m'[w].after = q /\ m'[w].src = d
  BY <1>1, <1>2, GotoStep DEF Inv
<1>7. Allowed' = Allowed
  BY <1>2 DEF Allowed
<1>8. q # "idle" => ~file'[i]["firing"].on
  BY <1>1, <1>4, <1>5, Constants
<1>9. m'[w].pc # "idle" => MemoryOK(w)'
  BY <1>2, <1>3, <1>4, <1>6, <1>8 DEF MemoryOK, Place, EarlyPcs, TriedPcs
<1>10. Remembered'
  BY <1>9 DEF Remembered, OneMonitor
<1>11. Dispatching(w) => ~file'[i]["firing"].on
  BY <1>1, <1>5, Constants DEF Dispatching
<1>12. \A j \in Wakes, e \in Dirs : file'[j][e].on => file[j][e].on /\ file'[j][e] = file[j][e]
  BY <1>5, Constants
<1>13. \A v \in Workers : v = w
  BY DEF OneMonitor
<1> HIDE DEF i, d, q
<1>14. \A j \in Wakes : file'[j]["firing"].on => file'[j]["firing"].attempts < Allowed'
  BY <1>7, <1>11, <1>12, <1>13 DEF Tallied, Dirs, i
<1>15. Tallied'
  BY <1>2, <1>7, <1>12, <1>14 DEF Tallied, Dirs
<1> QED BY <1>10, <1>15

(* What the commands do to the files: they copy a record into cancelled/,  *)
(* make a new one, and unlink no firing copy that is being dispatched.     *)
CommandStep ==
  /\ UNCHANGED <<m, pasted>> /\ known \subseteq known'
  /\ crashes' \in Nat /\ crashes' >= crashes
  /\ \A j \in Wakes, e \in Dirs : file'[j][e].on =>
       \/ file[j][e].on /\ file'[j][e] = file[j][e]
       \/ e = "cancelled" /\ \E d \in Dirs : file[j][d].on /\ file'[j][e] = file[j][d]
       \/ e = "pending" /\ j \notin known /\ j \in known' /\ file'[j][e] = Fresh
  /\ \A w \in Workers : Shared(w) => file'[m[w].wake]["firing"] = file[m[w].wake]["firing"]

LEMMA CommandStepKeeps ==
  ASSUME Inv, Tallied, Remembered, CommandStep
  PROVE  Tallied' /\ Remembered'
<1>1. Allowed \in Nat /\ Allowed' \in Nat /\ Allowed' >= Allowed /\ Allowed' >= 1
  <2>1. crashes \in Nat /\ crashes' \in Nat /\ crashes' >= crashes
    BY LegacyConstants DEF Inv, TypeOK, CommandStep
  <2>2. Allowed = MaxAttempts + crashes /\ Allowed' = MaxAttempts + crashes'
    BY DEF Allowed
  <2>3. MaxAttempts \in Nat /\ MaxAttempts >= 1
    BY LegacyConstants
  <2>4. \A k \in Nat : MaxAttempts + k \in Nat /\ MaxAttempts + k >= 1
    BY <2>3
  <2>5. \A n, a, b \in Nat : b >= a => n + b >= n + a
    OBVIOUS
  <2> QED BY <2>1, <2>2, <2>3, <2>4, <2>5
<1>2. \A j \in Wakes : pasted[j] \in Nat /\ \A e \in Dirs : file[j][e].attempts \in Nat
  BY DEF Inv, TypeOK, Copy
<1>3. Fresh.attempts = 0
  BY DEF Fresh, NoFile
<1>4. \A j \in Wakes : j \notin known => pasted[j] = 0
  BY <1>2 DEF Tallied
<1>5. \A j \in Wakes, e \in Dirs : file'[j][e].on => file'[j][e].attempts <= Allowed' /\ j \in known'
  BY <1>1, <1>2, <1>3 DEF CommandStep, Tallied
<1>6. \A j \in Wakes : /\ file'[j]["pending"].on => file'[j]["pending"].attempts < Allowed'
                       /\ \A e \in {"pending", "firing"} :
                            file'[j][e].on => pasted'[j] <= file'[j][e].attempts
  BY <1>1, <1>2, <1>3, <1>4 DEF CommandStep, Tallied, Dirs
<1>7. \A j \in Wakes : file'[j]["firing"].on =>
        \/ file'[j]["firing"].attempts < Allowed'
        \/ \E w \in Workers : Dispatching(w)' /\ m'[w].wake = j
  <2> SUFFICES ASSUME NEW j \in Wakes, file'[j]["firing"].on
               PROVE  \/ file'[j]["firing"].attempts < Allowed'
                      \/ \E w \in Workers : Dispatching(w)' /\ m'[w].wake = j
    OBVIOUS
  <2>1. file[j]["firing"].on /\ file'[j]["firing"] = file[j]["firing"]
    BY DEF CommandStep, Dirs
  <2>2. \A w \in Workers : (Dispatching(w)' <=> Dispatching(w)) /\ m'[w] = m[w]
    BY DEF CommandStep, Dispatching, Shared
  <2>3. file[j]["firing"].attempts \in Nat
    BY <1>2 DEF Dirs
  <2> QED BY <1>1, <2>1, <2>2, <2>3 DEF Tallied
<1>8. Tallied'
  BY <1>4, <1>5, <1>6, <1>7 DEF Tallied, CommandStep
<1>9. ASSUME NEW w \in Workers, m[w].pc # "idle" PROVE MemoryOK(w)'
  <2> DEFINE i == m[w].wake
  <2>1. /\ MemoryOK(w) /\ m' = m /\ pasted' = pasted /\ i \in known /\ i \in known' /\ i \in Wakes
        /\ m[w].copy.attempts \in Nat
    BY <1>9 DEF Remembered, MemoryOK, CommandStep, Inv, TypeOK, Busy, Memory, Copy
  <2>2. ~file[i]["pending"].on => ~file'[i]["pending"].on
    BY <2>1 DEF CommandStep, Dirs
  <2>3. Shared(w) => file'[i]["firing"] = file[i]["firing"]
    BY DEF CommandStep
  <2>4. Place(w) \in EarlyPcs => EarlyOK(w)'
    BY <1>1, <2>1, <2>2 DEF MemoryOK, EarlyOK
  <2>5. Place(w) \in TriedPcs => TriedOK(w)'
    <3> SUFFICES ASSUME Place(w) \in TriedPcs PROVE TriedOK(w)'
      OBVIOUS
    <3>1. Shared(w)
      BY DEF Place, TriedPcs, Shared
    <3> QED BY <1>1, <2>1, <2>2, <2>3, <3>1 DEF MemoryOK, TriedOK
  <2>6. m[w].pc = "waiting" \/ (m[w].pc = "releasing" /\ m[w].after = "write") => DoneOK(w)'
    BY <1>1, <2>1 DEF MemoryOK, DoneOK
  <2>7. m[w].pc = "noting" \/ (m[w].pc = "releasing" /\ m[w].after # "write") =>
          ~file'[i]["firing"].on
    BY <2>1, <2>3 DEF MemoryOK, Shared
  <2>8. m[w].pc \in {"write", "unlink"} => SaveOK(w)'
    BY <1>1, <2>1 DEF MemoryOK, SaveOK
  <2>9. Place(w)' = Place(w)
    BY <2>1 DEF Place
  <2> QED BY <2>1, <2>4, <2>5, <2>6, <2>7, <2>8, <2>9 DEF MemoryOK
<1>10. Remembered'
  BY <1>9 DEF Remembered, CommandStep
<1> QED BY <1>8, <1>10

LEMMA OperatingCommands == ASSUME Inv, Kept, Operating PROVE CommandStep
<1>1. crashes \in Nat
  BY LegacyConstants DEF Inv, TypeOK
<1>2. CASE CancelWrite
  <2> DEFINE i == canceller.wake
             c == file[i][canceller.src]
  <2>1. i \in Wakes /\ canceller.src \in Dirs /\ c \in Copy /\ c.on
    BY <1>2 DEF CancelWrite, Inv, TypeOK, Busy, Kept, Saved
  <2>2. Put(i, "cancelled", c) /\ UNCHANGED <<m, pasted, known, crashes>>
    BY <1>2 DEF CancelWrite, world, ghost
  <2>3. \A j \in Wakes, e \in Dirs :
          file'[j][e] = IF j = i /\ e = "cancelled" THEN c ELSE file[j][e]
    BY <2>1, <2>2, PutType DEF Inv, Dirs
  <2>4. \A w \in Workers : ~Shared(w)
    BY <1>2 DEF CancelWrite, Inv, Locks, Exclusive
  <2> QED BY <1>1, <2>1, <2>2, <2>3, <2>4 DEF CommandStep
<1>3. CASE CancelUnlink
  <2> DEFINE i == canceller.wake
             d == canceller.src
  <2>1. i \in Wakes /\ d \in Dirs
    BY <1>3 DEF CancelUnlink, Inv, TypeOK, Busy
  <2>2. Put(i, d, NoFile) /\ UNCHANGED <<m, pasted, known, crashes>>
    BY <1>3 DEF CancelUnlink, world
  <2>3. \A j \in Wakes, e \in Dirs : file'[j][e] = IF j = i /\ e = d THEN NoFile ELSE file[j][e]
    BY <2>1, <2>2, PutType, Constants DEF Inv
  <2>4. \A w \in Workers : ~Shared(w)
    BY <1>3 DEF CancelUnlink, Inv, Locks, Exclusive
  <2> QED BY <1>1, <2>2, <2>3, <2>4, Constants DEF CommandStep
<1>4. ASSUME UNCHANGED <<file, m, pasted, known>>, crashes' = crashes \/ crashes' = crashes + 1
      PROVE  CommandStep
  BY <1>1, <1>4 DEF CommandStep
<1>5. CASE CancelDies
  BY <1>4, <1>5 DEF CancelDies, Die, disk, world
<1>6. ASSUME NEW i \in Wakes,
             CancelAdmit(i) \/ ArchiveWrite(i) \/ ArchiveDies(i) \/ Cleanup(i) \/ Consume(i)
      PROVE  CommandStep
  BY <1>4, <1>6 DEF CancelAdmit, ArchiveWrite, ArchiveDies, Die, Cleanup, Consume, disk, world, ghost
<1>7. ASSUME NEW i \in Wakes, Create(i) PROVE CommandStep
  <2>1. \A j \in Wakes, e \in Dirs :
          file'[j][e] = IF j = i /\ e = "pending" THEN Fresh ELSE file[j][e]
    BY <1>7, PutType, Constants DEF Create, Inv, Dirs
  <2>2. /\ UNCHANGED <<m, pasted, crashes>> /\ known' = known \cup {i} /\ i \notin known
    BY <1>7 DEF Create, world
  <2>3. \A w \in Workers : Shared(w) => m[w].wake \in Wakes
    BY DEF Inv, Busy, Shared
  <2> QED BY <1>1, <2>1, <2>2, <2>3 DEF CommandStep, Dirs
<1>8. ASSUME NEW i \in Wakes, ArchiveUnlink(i) PROVE CommandStep
  <2> DEFINE d == archiver[i]
  <2>1. d \in Terminal /\ d \in Dirs
    BY <1>8 DEF ArchiveUnlink, Inv, TypeOK, Kept, Saved
  <2>2. Put(i, d, NoFile) /\ UNCHANGED <<m, pasted, known, crashes>>
    BY <1>8 DEF ArchiveUnlink, world, ghost
  <2> HIDE DEF d
  <2>3. \A j \in Wakes, e \in Dirs : file'[j][e] = IF j = i /\ e = d THEN NoFile ELSE file[j][e]
    BY <2>1, <2>2, PutType, Constants DEF Inv
  <2>4. \A w \in Workers : Shared(w) => m[w].wake \in Wakes
    BY DEF Inv, Busy, Shared
  <2>5. \A w \in Workers : Shared(w) => file'[m[w].wake]["firing"] = file[m[w].wake]["firing"]
    BY <2>1, <2>3, <2>4 DEF Terminal, Dirs
  <2> QED BY <1>1, <2>2, <2>3, <2>5, Constants DEF CommandStep
<1> QED
  BY <1>2, <1>3, <1>5, <1>6, <1>7, <1>8 DEF Operating, Cancel

Count == Tallied /\ Remembered

LEMMA CountsInitially == Init => Count
<1> SUFFICES ASSUME Init PROVE Count
  OBVIOUS
<1>1. \A i \in Wakes : pasted[i] = 0 /\ \A d \in Dirs : ~file[i][d].on
  BY Constants DEF Init
<1>2. \A w \in Workers : m[w].pc = "idle"
  BY Constants DEF Init
<1> QED BY <1>1, <1>2 DEF Count, Tallied, Remembered, Dirs

LEMMA CountsInductive ==
  ASSUME OneMonitor, Inv, Kept, Count, [Next]_vars
  PROVE  Count'
<1> USE DEF Count
<1>1. ASSUME NEW w \in Workers, Step(w) PROVE Count'
  <2>1. m[w].pc # "idle"
    BY <1>1 DEF Step, Write, Unlink, Admit, Route, Transition, LockExists, LockRead, LockRemove,
                LockCreate, LockPid, LockRelease, CapturePane, PastePrompt, AckObserved, AckTimeout,
                AppAttempt, AppPreflight, AppRequeue, AppStart, AppNote
  <2>2. Write(w) \/ Unlink(w) \/ Deciding(w) \/ Locking(w)
    BY <1>1 DEF Step, Deciding, Locking
  <2> QED
    BY <2>1, <2>2, WriteCounts, UnlinkCounts, DecidingCounts, LockingCounts, CountedStepKeeps
<1>2. ASSUME NEW w \in Workers, Crash(w) PROVE Count'
  BY <1>2, CrashCounts
<1>3. ASSUME NEW w \in Workers, NEW i \in Wakes, NEW d \in {"pending", "firing"}, List(w, i, d)
      PROVE  Count'
  BY <1>3, ListCounts, CountedStepKeeps
<1>4. CASE Operating
  BY <1>4, OperatingCommands, CommandStepKeeps
<1>5. CASE UNCHANGED vars
  BY <1>5 DEF vars, disk, world, ghost, Tallied, Remembered, Allowed, Dispatching, Shared, MemoryOK,
              Place, EarlyOK, TriedOK, DoneOK, SaveOK
<1> QED BY <1>1, <1>2, <1>3, <1>4, <1>5 DEF Next, Operating

(* With one monitor per wake root no retry is free: every prompt that was  *)
(* pasted or started as a turn is an attempt in the copy that counts, and  *)
(* attempts go beyond max_attempts only by the number of crashes, for any  *)
(* number of wakes, attempts, deferrals and crashes.                       *)
THEOREM CountsAttempts == OneMonitor => (Spec => []AttemptsCounted)
<1> SUFFICES ASSUME OneMonitor PROVE Spec => []AttemptsCounted
  OBVIOUS
<1>1. Init => Inv /\ Kept /\ Count
  BY Initially, CountsInitially DEF Kept, OnDisk, Init
<1>2. Inv /\ Kept /\ Count /\ [Next]_vars => (Inv /\ Kept /\ Count)'
  BY Inductive, KeptInductive, CountsInductive
<1>3. Inv /\ Count => AttemptsCounted
  <2> SUFFICES ASSUME Inv, Count PROVE AttemptsCounted
    OBVIOUS
  <2>1. \A i \in Wakes : Exists(i) => find_record(i) \in Dirs /\ file[i][find_record(i)].on
    BY FindsCopy DEF Inv
  <2> QED BY <2>1 DEF Count, Tallied, Allowed, AttemptsCounted, Copies
<1> QED BY <1>1, <1>2, <1>3, PTL DEF Spec
=============================================================================
