------------------------------ MODULE LegacyWake ------------------------------
(***************************************************************************)
(* Life of a schema 1 wake for a tmux pane, with its app-server fallback.  *)
(*                                                                         *)
(* The status of such a record is the directory its file is in: a change   *)
(* of status writes the file in the new directory and then unlinks the old *)
(* one, so that a crash between the two leaves two copies, and find_record *)
(* decides by the order of the directories which one counts.  Injectors    *)
(* exclude each other from a pane by a lock file that holds a process id.  *)
(* The prompt is acknowledged by a hook that the agent's session runs.     *)
(*                                                                         *)
(* All wakes are for one pane.  A pause is a pass that does not happen     *)
(* (module WakeIntent has the pause protocol, which dispatch shares).      *)
(***************************************************************************)
EXTENDS Integers, FiniteSets

CONSTANTS
  Wakes, Workers,
  NoWake, Dead,    \* not a wake; not a process
  MaxAttempts,     \* max_attempts of every record
  MaxDeferrals,    \* max_safety_deferrals of every record
  MaxCrashes       \* bound: how often processes die

ASSUME LegacyConstants ==
  /\ NoWake \notin Wakes /\ Dead \notin Workers
  /\ MaxAttempts \in Nat \ {0} /\ MaxDeferrals \in Nat \ {0} /\ MaxCrashes \in Nat

VARIABLES
  file,      \* [Wakes -> [Dirs -> copy]]
  archived,  \* wakes with a file in archive/
  archiver,  \* [Wakes -> directory archive_record has still to unlink from, or "none"]
  lock,      \* the lock file of the pane
  acks,      \* wakes with a file in acks/
  m,         \* monitors: [Workers -> memory]
  canceller, \* the cancel command, holding the exclusive effects lock
  prompts,   \* [Wakes -> prompts the session has not consumed yet] (external)
  pasted,    \* [Wakes -> prompts that were pasted or started as a turn] (external)
  consumed,  \* [Wakes -> prompts the session has consumed] (external)
  known,     \* wakes that were requested; ids are never used twice (ghost)
  cleaned,   \* wakes whose archived file was deleted after its retention time (ghost)
  closed,    \* wakes that cancel has reported as cancelled (ghost)
  crashes    \* how many processes have died (ghost)

disk == <<file, archived, archiver, lock, acks>>
world == <<prompts, pasted, consumed>>
ghost == <<known, cleaned, closed, crashes>>
vars == <<disk, m, canceller, world, ghost>>

-----------------------------------------------------------------------------
Dirs == {"pending", "firing", "submitted", "failed", "cancelled"}
Terminal == {"submitted", "failed", "cancelled"}

(* A copy: app when the target was changed to the app-server fallback. *)
Copy == [on : BOOLEAN, attempts : Nat, deferrals : Nat, app : BOOLEAN]
NoFile == [on |-> FALSE, attempts |-> 0, deferrals |-> 0, app |-> FALSE]
Fresh == [NoFile EXCEPT !.on = TRUE]

(* ACTIVE_STATUS_DIRS: iter_records reads the directories in this order    *)
(* and sorts stably by time of creation and id, equal for all copies.      *)
Rank == [pending |-> 1, firing |-> 2, submitted |-> 3, failed |-> 4, cancelled |-> 5]

Copies(i) == {d \in Dirs : file[i][d].on}
Exists(i) == Copies(i) # {}
find_record(i) == CHOOSE d \in Copies(i) : \A e \in Copies(i) : Rank[d] <= Rank[e]

Finds(i, d, c) == Exists(i) /\ find_record(i) = d /\ file[i][d] = c

Put(i, d, c) == file' = [file EXCEPT ![i] = [@ EXCEPT ![d] = c]]

(* A process's memory: the copy it works on, the save it is making, and    *)
(* whether this dispatch fell back from tmux to the app server.            *)
Idle == [pc |-> "idle", wake |-> NoWake, copy |-> NoFile, src |-> "pending",
         to |-> "pending", after |-> "idle", fell |-> FALSE]
Pcs == {"idle", "evaluated", "listed", "write", "unlink", "routing", "locking", "reading",
        "removing", "creating", "owning", "held", "pasting", "waiting", "releasing",
        "app", "preflight", "starting", "noting"}
Memory == [pc : Pcs, wake : Wakes \cup {NoWake}, copy : Copy, src : Dirs, to : Dirs,
           after : Pcs, fell : BOOLEAN]

Goto(w, q) == m' = [m EXCEPT ![w] = IF q = "idle" THEN Idle ELSE [@ EXCEPT !.pc = q]]

(* records.replace_record, in two steps: save copy c in directory d and go *)
(* on at q.                                                                *)
Saving(w, c, d, q) == [m[w] EXCEPT !.pc = "write", !.copy = c, !.to = d, !.after = q]

SaveAs(w, c, d, q) == m' = [m EXCEPT ![w] = Saving(w, c, d, q)]

(* The effects lock: shared from admission on, exclusive while cancelling. *)
Shared(w) == m[w].pc \notin {"idle", "evaluated", "listed"}
Exclusive == canceller.pc # "idle"

-----------------------------------------------------------------------------
Create(i) ==
  /\ i \notin known
  /\ Put(i, "pending", Fresh) /\ known' = known \cup {i}
  /\ UNCHANGED <<archived, archiver, lock, acks, m, canceller, world, cleaned, closed, crashes>>

(* Mutant: the old file is unlinked before the new one is written. *)
WriteLast(w) ==
  /\ m[w].pc = "write"
  /\ IF m[w].src # m[w].to /\ file[m[w].wake][m[w].src].on
     THEN Put(m[w].wake, m[w].src, NoFile) /\ UNCHANGED m
     ELSE Put(m[w].wake, m[w].to, m[w].copy) /\ Goto(w, m[w].after)
  /\ UNCHANGED <<archived, archiver, lock, acks, canceller, world, ghost>>

Write(w) ==
  /\ m[w].pc = "write"
  /\ Put(m[w].wake, m[w].to, m[w].copy)
  /\ Goto(w, IF m[w].src = m[w].to THEN m[w].after ELSE "unlink")
  /\ UNCHANGED <<archived, archiver, lock, acks, canceller, world, ghost>>

Unlink(w) ==
  /\ m[w].pc = "unlink"
  /\ Put(m[w].wake, m[w].src, NoFile)
  /\ Goto(w, m[w].after)
  /\ UNCHANGED <<archived, archiver, lock, acks, canceller, world, ghost>>

(* A pass lists every pending and every firing copy, without a lock. *)
List(w, i, d) ==
  /\ m[w].pc = "idle" /\ file[i][d].on
  /\ m' = [m EXCEPT ![w] = [Idle EXCEPT !.pc = IF d = "pending" THEN "evaluated" ELSE "listed",
                                        !.wake = i, !.copy = file[i][d], !.src = d]]
  /\ UNCHANGED <<disk, canceller, world, ghost>>

(* wake_control.transition_pending: the predicate holds (d = "firing") or  *)
(* is invalid (d = "failed"), and the copy is still the record.            *)
Transition(w, d) ==
  /\ m[w].pc = "evaluated" /\ ~Exclusive
  /\ IF Finds(m[w].wake, "pending", m[w].copy) THEN SaveAs(w, m[w].copy, d, "idle")
     ELSE Goto(w, "idle")
  /\ UNCHANGED <<disk, canceller, world, ghost>>

(* wake_control.guard_dispatch *)
Admit(w) ==
  /\ m[w].pc = "listed" /\ ~Exclusive
  /\ Goto(w, IF Finds(m[w].wake, "firing", m[w].copy)
             THEN (IF m[w].copy.app THEN "app" ELSE "routing") ELSE "idle")
  /\ UNCHANGED <<disk, canceller, world, ghost>>

(* The panes of the session are matched with the recorded identity: none,  *)
(* one or several match, or the identity is incomplete.                    *)
Route(w) ==
  /\ m[w].pc = "routing"
  /\ \/ SaveAs(w, m[w].copy, "failed", "idle")
     \/ SaveAs(w, m[w].copy, "firing", "locking")
     \/ m' = [m EXCEPT ![w] =
                 [Saving(w, [m[w].copy EXCEPT !.app = TRUE], "firing", "app") EXCEPT !.fell = TRUE]]
  /\ UNCHANGED <<disk, canceller, world, ghost>>

(* Mutant: a wake out of attempts takes the status of an expired signal wake. *)
RequeueExpired(w, c, q) ==
  SaveAs(w, c, IF c.attempts >= MaxAttempts THEN "expired" ELSE "pending", q)

requeue_or_fail(w, c, q) ==
  SaveAs(w, c, IF c.attempts >= MaxAttempts THEN "failed" ELSE "pending", q)

requeue_unsafe_pane(w) ==
  LET c == [m[w].copy EXCEPT !.deferrals = @ + 1]
  IN SaveAs(w, c, IF c.deferrals >= MaxDeferrals THEN "failed" ELSE "pending", "releasing")

-----------------------------------------------------------------------------
(* PaneLock.  The file is identified by the process that made it; pid says *)
(* whether it holds that process's id yet.                                 *)
NoLock == [by |-> Dead, on |-> FALSE, pid |-> FALSE]
LockFile == [by : Workers \cup {Dead}, on : BOOLEAN, pid : BOOLEAN]

LockStep == UNCHANGED <<file, archived, archiver, acks, canceller, world, ghost>>

LockExists(w) ==
  m[w].pc = "locking" /\ Goto(w, IF lock.on THEN "reading" ELSE "creating")
  /\ UNCHANGED lock /\ LockStep

(* Unreadable, without a number, or of a dead process: removed. *)
LockRead(w) ==
  /\ m[w].pc = "reading"
  /\ Goto(w, IF lock.on /\ lock.pid /\ lock.by # Dead THEN "creating" ELSE "removing")
  /\ UNCHANGED lock /\ LockStep

(* Mutant: a lock that is there is never removed. *)
LockRemoveNever(w) ==
  m[w].pc = "removing" /\ Goto(w, "creating") /\ UNCHANGED lock /\ LockStep

LockRemove(w) ==
  m[w].pc = "removing" /\ lock' = NoLock /\ Goto(w, "creating") /\ LockStep

(* O_CREAT | O_EXCL.  A held lock is no attempt. *)
LockCreate(w) ==
  /\ m[w].pc = "creating"
  /\ IF lock.on THEN requeue_or_fail(w, m[w].copy, "idle") /\ UNCHANGED lock
     ELSE Goto(w, "owning") /\ lock' = [by |-> w, on |-> TRUE, pid |-> FALSE]
  /\ LockStep

(* The id goes to the file that was created, wherever its name is now. *)
LockPid(w) ==
  /\ m[w].pc = "owning" /\ Goto(w, "held")
  /\ lock' = IF lock.on /\ lock.by = w THEN [lock EXCEPT !.pid = TRUE] ELSE lock
  /\ LockStep

(* __exit__ unlinks the name, whatever it stands for by then; then the     *)
(* handlers outside the lock save what is left to save.                    *)
LockRelease(w) ==
  /\ m[w].pc = "releasing" /\ lock' = NoLock
  /\ IF m[w].after = "write" THEN requeue_or_fail(w, m[w].copy, "idle") ELSE Goto(w, "idle")
  /\ LockStep

(* An exception in the locked part: the lock goes first. *)
Fail(w, c) == m' = [m EXCEPT ![w] = [@ EXCEPT !.pc = "releasing", !.copy = c, !.after = "write"]]

-----------------------------------------------------------------------------
(* The locked part of _dispatch_firing_record_unlocked. *)

Counted(w) == [m[w].copy EXCEPT !.attempts = @ + 1]

(* Mutant: the attempt is counted in memory and saved with its outcome. *)
CapturePaneUncounted(w) ==
  /\ m[w].pc = "held"
  /\ \/ Fail(w, Counted(w))
     \/ requeue_unsafe_pane(w)
     \/ m' = [m EXCEPT ![w] = [@ EXCEPT !.pc = "pasting", !.copy = Counted(w)]]
  /\ UNCHANGED <<disk, canceller, world, ghost>>

CapturePane(w) ==
  /\ m[w].pc = "held"
  /\ \/ Fail(w, Counted(w))
     \/ requeue_unsafe_pane(w)
     \/ SaveAs(w, Counted(w), "firing", "pasting")
  /\ UNCHANGED <<disk, canceller, world, ghost>>

Prompt(i) ==
  /\ prompts' = [prompts EXCEPT ![i] = @ + 1] /\ pasted' = [pasted EXCEPT ![i] = @ + 1]
  /\ UNCHANGED consumed

(* One of the tmux commands may fail, before or after the paste. *)
PastePrompt(w) ==
  /\ m[w].pc = "pasting"
  /\ \/ Prompt(m[w].wake) /\ m' = [m EXCEPT ![w] = [@ EXCEPT !.pc = "waiting", !.after = "idle"]]
     \/ Prompt(m[w].wake) /\ Fail(w, m[w].copy)
     \/ UNCHANGED world /\ Fail(w, m[w].copy)
  /\ UNCHANGED <<disk, canceller, ghost>>

AckObserved(w) ==
  /\ m[w].pc = "waiting" /\ m[w].wake \in acks
  /\ SaveAs(w, m[w].copy, "submitted", "releasing")
  /\ UNCHANGED <<disk, canceller, world, ghost>>

(* Mutant: a prompt that was pasted is taken for submitted. *)
AckAssumed(w) ==
  /\ m[w].pc = "waiting" /\ m[w].wake \notin acks
  /\ SaveAs(w, m[w].copy, "submitted", "releasing")
  /\ UNCHANGED <<disk, canceller, world, ghost>>

AckTimeout(w) ==
  /\ m[w].pc = "waiting" /\ m[w].wake \notin acks
  /\ requeue_or_fail(w, m[w].copy, "releasing")
  /\ UNCHANGED <<disk, canceller, world, ghost>>

-----------------------------------------------------------------------------
(* app_server.dispatch_app_server_record, with retry_active_writer. *)

AppAttempt(w) ==
  /\ m[w].pc = "app" /\ SaveAs(w, Counted(w), "firing", "preflight")
  /\ UNCHANGED <<disk, canceller, world, ghost>>

(* A dispatch that fell back notes on a failed record that no target is left. *)
AppFail(w) == SaveAs(w, m[w].copy, "failed", IF m[w].fell THEN "noting" ELSE "idle")

(* The client cannot be made or the thread not resumed, or its status is noted. *)
AppPreflight(w) ==
  /\ m[w].pc = "preflight" /\ (SaveAs(w, m[w].copy, "firing", "starting") \/ AppFail(w))
  /\ UNCHANGED <<disk, canceller, world, ghost>>

(* requeue_app_server_record: the thread has an active writer. *)
AppRequeue(w) ==
  /\ m[w].pc = "starting"
  /\ IF m[w].copy.attempts >= MaxAttempts THEN AppFail(w)
     ELSE SaveAs(w, m[w].copy, "pending", "idle")
  /\ UNCHANGED <<disk, canceller, world, ghost>>

(* The thread is not idle, or turn/start is accepted, refused, or timed    *)
(* out with the turn running.                                              *)
AppStart(w) ==
  /\ m[w].pc = "starting"
  /\ \/ Prompt(m[w].wake) /\ SaveAs(w, m[w].copy, "submitted", "idle")
     \/ Prompt(m[w].wake) /\ AppFail(w)
     \/ UNCHANGED world /\ AppFail(w)
  /\ UNCHANGED <<disk, canceller, ghost>>

(* The record is looked up again and saved where it is found. *)
AppNote(w) ==
  /\ m[w].pc = "noting"
  /\ LET i == m[w].wake IN
     IF Exists(i)
     THEN m' = [m EXCEPT ![w] = [Saving(w, file[i][find_record(i)], find_record(i), "idle")
                                   EXCEPT !.src = find_record(i)]]
     ELSE Goto(w, "idle")
  /\ UNCHANGED <<disk, canceller, world, ghost>>

-----------------------------------------------------------------------------
(* A process dies: its memory and its effects lock go, its lock file stays. *)
Die == crashes < MaxCrashes /\ crashes' = crashes + 1

Crash(w) ==
  /\ m[w].pc # "idle" /\ Die /\ Goto(w, "idle")
  /\ lock' = IF lock.by = w THEN [lock EXCEPT !.by = Dead] ELSE lock
  /\ UNCHANGED <<file, archived, archiver, acks, canceller, world, known, cleaned, closed>>

(* hook.handle_payload: the session consumes a prompt.  The acknowledgement*)
(* is written if any copy of the wake is found.                            *)
Consume(i) ==
  /\ prompts[i] > 0
  /\ prompts' = [prompts EXCEPT ![i] = @ - 1] /\ consumed' = [consumed EXCEPT ![i] = @ + 1]
  /\ acks' = IF Exists(i) \/ i \in archived THEN acks \cup {i} ELSE acks
  /\ UNCHANGED <<file, archived, archiver, lock, m, canceller, pasted, ghost>>

(* wake_control._cancel and records._cancel_found *)
NotCancelling == [pc |-> "idle", wake |-> NoWake, src |-> "pending"]

CancelAdmit(i) ==
  /\ ~Exclusive /\ \A w \in Workers : ~Shared(w)
  /\ Exists(i) /\ find_record(i) \in {"pending", "firing"}
  /\ canceller' = [pc |-> "write", wake |-> i, src |-> find_record(i)]
  /\ UNCHANGED <<disk, m, world, ghost>>

CancelWrite ==
  LET i == canceller.wake IN
  /\ canceller.pc = "write" /\ canceller' = [canceller EXCEPT !.pc = "unlink"]
  /\ Put(i, "cancelled", file[i][canceller.src])
  /\ UNCHANGED <<archived, archiver, lock, acks, m, world, ghost>>

CancelUnlink ==
  LET i == canceller.wake IN
  /\ canceller.pc = "unlink" /\ canceller' = NotCancelling
  /\ Put(i, canceller.src, NoFile) /\ closed' = closed \cup {i}
  /\ UNCHANGED <<archived, archiver, lock, acks, m, world, known, cleaned, crashes>>

CancelDies ==
  /\ Exclusive /\ canceller' = NotCancelling /\ Die
  /\ UNCHANGED <<disk, m, world, known, cleaned, closed>>

(* records.archive_record, without a lock. *)
ArchiveWrite(i) ==
  /\ archiver[i] = "none" /\ Exists(i) /\ find_record(i) \in Terminal
  /\ archived' = archived \cup {i} /\ archiver' = [archiver EXCEPT ![i] = find_record(i)]
  /\ UNCHANGED <<file, lock, acks, m, canceller, world, ghost>>

ArchiveUnlink(i) ==
  /\ archiver[i] # "none" /\ archiver' = [archiver EXCEPT ![i] = "none"]
  /\ Put(i, archiver[i], NoFile)
  /\ UNCHANGED <<archived, lock, acks, m, canceller, world, ghost>>

ArchiveDies(i) ==
  /\ archiver[i] # "none" /\ archiver' = [archiver EXCEPT ![i] = "none"] /\ Die
  /\ UNCHANGED <<file, archived, lock, acks, m, canceller, world, known, cleaned, closed>>

(* cleanup_archived_records with delete, past the retention time. *)
Cleanup(i) ==
  /\ i \in archived /\ archived' = archived \ {i} /\ cleaned' = cleaned \cup {i}
  /\ UNCHANGED <<file, archiver, lock, acks, m, canceller, world, known, closed, crashes>>

-----------------------------------------------------------------------------
Init ==
  /\ file = [i \in Wakes |-> [d \in Dirs |-> NoFile]]
  /\ archived = {} /\ archiver = [i \in Wakes |-> "none"]
  /\ lock = NoLock /\ acks = {}
  /\ m = [w \in Workers |-> Idle] /\ canceller = NotCancelling
  /\ prompts = [i \in Wakes |-> 0] /\ pasted = [i \in Wakes |-> 0]
  /\ consumed = [i \in Wakes |-> 0]
  /\ known = {} /\ cleaned = {} /\ closed = {} /\ crashes = 0

Step(w) ==
  \/ Write(w) \/ Unlink(w) \/ Admit(w) \/ Route(w)
  \/ \E d \in {"firing", "failed"} : Transition(w, d)
  \/ LockExists(w) \/ LockRead(w) \/ LockRemove(w) \/ LockCreate(w) \/ LockPid(w)
  \/ LockRelease(w) \/ CapturePane(w) \/ PastePrompt(w) \/ AckObserved(w) \/ AckTimeout(w)
  \/ AppAttempt(w) \/ AppPreflight(w) \/ AppRequeue(w) \/ AppStart(w)
  \/ AppNote(w)

Cancel == CancelWrite \/ CancelUnlink \/ CancelDies

Next ==
  \/ \E w \in Workers : Step(w) \/ Crash(w)
                        \/ \E i \in Wakes, d \in {"pending", "firing"} : List(w, i, d)
  \/ \E i \in Wakes : \/ Create(i) \/ Consume(i) \/ CancelAdmit(i)
                      \/ ArchiveWrite(i) \/ ArchiveUnlink(i) \/ ArchiveDies(i) \/ Cleanup(i)
  \/ Cancel

Spec == Init /\ [][Next]_vars

(* Fairness.  Processes die MaxCrashes times at most; a live monitor goes  *)
(* on, and a pass evaluates every pending copy and dispatches every firing *)
(* one, so each is listed again and again.  A cancel command ends.         *)
LiveSpec ==
  /\ Spec
  /\ WF_vars(Cancel)
  /\ \A w \in Workers :
       /\ WF_vars(Step(w))
       /\ \A i \in Wakes, d \in {"pending", "firing"} : SF_vars(List(w, i, d))

-----------------------------------------------------------------------------
TypeOK ==
  /\ file \in [Wakes -> [Dirs -> Copy]]
  /\ archived \subseteq Wakes /\ archiver \in [Wakes -> Dirs \cup {"none"}]
  /\ lock \in LockFile /\ acks \subseteq Wakes
  /\ m \in [Workers -> Memory]
  /\ canceller \in [pc : {"idle", "write", "unlink"}, wake : Wakes \cup {NoWake}, src : Dirs]
  /\ prompts \in [Wakes -> Nat] /\ pasted \in [Wakes -> Nat] /\ consumed \in [Wakes -> Nat]
  /\ known \subseteq Wakes /\ cleaned \subseteq Wakes /\ closed \subseteq Wakes /\ crashes \in 0 .. MaxCrashes

(* With one monitor, whoever dies between writing a record in its new      *)
(* directory and unlinking it in the old, the record is in some directory. *)
NeverLost == \A i \in known \ cleaned : Exists(i) \/ i \in archived

(* With one monitor every prompt is preceded by an attempt that is on disk *)
(* in the copy that counts, whatever older copies crashes leave behind: no *)
(* retry is made for free, and only a crash makes one beyond the limit.    *)
AttemptsCounted ==
  \A i \in Wakes :
    /\ Exists(i) /\ find_record(i) \in {"pending", "firing"} =>
         pasted[i] <= file[i][find_record(i)].attempts
    /\ \A d \in Copies(i) : file[i][d].attempts <= MaxAttempts + crashes

(* A record says "submitted" only if the recipient was given the prompt:   *)
(* by the acknowledgement of the hook or of turn/start.                    *)
SubmittedMeansGiven ==
  \A i \in Wakes : file[i]["submitted"].on =>
    consumed[i] > 0 \/ (file[i]["submitted"].app /\ pasted[i] > 0)

(* Every wake whose predicate holds comes to rest: retries and deferrals   *)
(* run out, copies left by crashes are worked off, and the lock file of a  *)
(* dead injector does not block its pane.                                  *)
Settles == <>[](\A i \in known : Copies(i) \subseteq Terminal)

(* Once cancel has answered "cancelled" nothing more is pasted             *)
(* (docs/runtime-state-lifecycle.md: cancel when a wake should not fire).  *)
CancelFences == [][\A i \in closed : pasted'[i] = pasted[i]]_vars
=============================================================================
