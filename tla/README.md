# codex-wake: a TLA+ model of durable wakes

codex-wake delivers a message to a coding agent at a later time: when a delay
has passed, at a date, when a file, process or event shows up. A request becomes
a durable record under a *wake root* (a directory); any number of monitor
processes poll the root, decide that a record is due, and submit its text to the
recipient's runtime (a Codex or Grok session, a tmux pane, an app server).
Operators cancel, pause, resume, reconcile and archive. Processes may be killed
at any instruction; nothing but files survives.

What the program has to get right is short to say and hard to test: a wake
reaches its recipient once at most, never early, never after it expired, was
cancelled or was fenced off, and is never silently lost; an event a wake waits
for is not missed; agents' messages to each other are announced once and claimed
once; and the provider requests that wakes and agents cause stay
within the budget an operator approved. This project models the code that
carries these promises, checks it with TLC on small instances and proves its
safety with TLAPS for every instance, three of the properties under the documented
limit of one monitor per root.

Paths below are relative to the repository (`src/codex_wake/...` is the package).

## 1. Inventory

| Component | State | Operations | Interacts with |
|---|---|---|---|
| Scheduling intents (`native_intents`, `native_delivery`, `runtime_wakes`) | one JSON file per intent in `pending/`: status, delivery, attempts, routes, events | retain, evaluate, dispatch, submit, read back | clock, adapters, control, policy, archive |
| Eligibility (`native_intents.eligibility`, `dispatch_gate`) | saved UTC and counter anchors | a pure decision | clock services |
| Emergency controls (`wake_control`) | `emergency-control/state.json`, effects lock | pause, status, resume, cancel | every dispatch |
| Wake policy (`wake_policy`) | `wake-owners.json`, policy lock | register, complete_owner, effect_guard | every schema 8 record |
| Frozen routes (`permission_wake`, `permission_migration`) | `wake_route_progress` in the record | select, skip, fall back, hold | permission store |
| Archive (`records.archive_record`) | `archive/` | copy then unlink | repeated requests |
| Runtime adapters (`codex_runtime`, `runtime_delivery`, `grok_runtime`) | none; the recipient's queue is external | resolve, observe, submit, reconcile | dispatch |
| Legacy wakes (`daemon`, `injector`, `hook`, `records`) | schemas 1 to 5 in status directories, pane locks, ack files | evaluate, inject, wait for ack, requeue | control, tmux |
| Signals (`signal_store`, `signal_records`, `github_polling`, `event_wake`, `daemon`) | SQLite: arms, source leases, receipts, reservations, lifecycle, outbox; record files | arm, publish, poll, ingest, evaluate, fire, retire, compact, cancel | legacy wakes |
| A2A (`a2a_mailbox`, `a2a_bus`, `a2a_scheduler`, `a2a_delivery`, `a2a_backup`, `a2a_recovery`, `a2a_recovery_disposition`) | SQLite: messages, receipts, notification attempts, leases, capabilities, pause and recovery hold; snapshots | send, reply, read, acknowledge, cancel, notify, pause, rotate, revoke, snapshot, recover, dispose, release | recipients' clients, goals |
| Request admission (`request_admission`) | attempts on threads, receipts under a lock, the governor switch | enter, reserve, submit, settle, deny and pause | objective ledger, native goals |
| Objective ledger (`objective_ledger`, `lifecycle_budget`) | one JSON file per objective: configuration, actors, sessions, completions, completion plan | configure, authorize, reserve, record, bind, settle, protect, resolve | request admission, agents |
| Goals (`goal_supervision`, `goal_renewal`, `goal_governance`) | budgets, the governor switch | reserve, renew, settle, switch | A2A, intents, request admission |
| Agents (`agent_lifecycle`, `agent_handoff`, `agent_refresh`) | ownership journal | start, hand over, refresh | intents, objective ledger, controller |
| Controller, custody stores, webhooks, strict executor, supervisor, local control, command line, release tooling | see `PROJECT.json` | | |

`PROJECT.json` lists every component with its source files and status.

Behaviours that are hard:

* **Crash between effect and record.** The submission and the write that records
  it cannot be one step. The code persists the ambiguity first, and from then on
  only reads back (`native_delivery.py:219`, `runtime_wakes.py:174`).
* **Two monitors, one record.** Records are listed without a lock, and dispatched
  later under one.
* **Late acceptance.** A queue command that timed out may still have been taken.
* **Fences.** Pause, cancel and an owner's completion must stop effects that
  other processes have already begun to prepare, across three locks taken in
  different orders.
* **Unlocked archive.** The copy and the unlink bracket writes of others.
* **Status directories.** The older records change status by writing a file in
  one directory and unlinking it in another; a crash between leaves two.
* **Lock files.** A pane is guarded by a file that holds a process id, and that a
  waiting process may take for stale.
* **Leases against ingestion.** Arming a wake spans two transactions; between
  them the source may be polled, the lease may expire and another may take it.
* **Journal and files.** A signal wake's state is a row in SQLite and a file in a
  status directory; each changes first in turn, and each is what some process
  believes.
* **Leases that run out.** A mail dispatcher holds leases by time, not by life; one
  that stalls in its transport may deliver after another has taken over.
* **Going back in time.** A damaged mailbox is replaced by a snapshot, which has
  forgotten prompts, claims and cancellations of the meantime.
* **Lost completions.** A provider request costs money whether or not its answer
  comes back, comes back twice, or names more than was reserved.
* **Time.** Readings are intervals, counters drift and restart, and the clock
  that says "due" is older than the effect it admits.

The `hazards` of `PROJECT.json` name each of these at its line, with the
properties that would break if the code got it wrong.

What makes each component correct:

* intents: at most one submission per intent and per key; an effect is never
  forgotten; "submitted" only on evidence; what is closed was never sent;
* eligibility: no verdict that leads to an effect or to failure is false;
* controls: once pause has answered that nothing is in flight, nothing is sent;
* policy: once a completion is durable, no wake it stops is sent;
* routes: the next is tried only after one that certainly sent nothing;
* archive: a repeated request does not revive a finished wake;
* legacy wakes: a crash loses no record and makes no retry for free, "submitted"
  rests on an acknowledgement, one injector works on a pane, cancelled is final;
* signals: no matching receipt is lost between anchor and match; a wake that
  ended is not prompted for again; a registered wake always has a record file;
* A2A: one prompt and one first claim per message, a cancelled message is neither
  announced nor claimed, announcements keep the order of sending, all of it
  across leases that run out, crashes and recoveries from a snapshot;
* budget: what the provider bills stays within what an operator approved, funds
  protected for completion stay available, only a proof settles a reservation,
  usage is never forgotten, the gateway pauses a goal only while it governs;
* liveness: legacy wakes come to rest, expired wakes end, unknown submissions that can be resolved are.

## 2. Modules

| Module | Role |
|---|---|
| `WakeTime` | the eligibility decision in a machine of true time and honest clocks |
| `WakeIntent` | intents, monitors, controls, owners, routes, archive, recipient |
| `WakePromise` | what an intent promises, in four states per wake |
| `LegacyWake` | schema 1 records: status directories, injector, pane lock, hook, app-server fallback |
| `SignalJournal` | event wakes: the signal journal, its record files, registrars, pollers, cancel |
| `A2AMail` | the agents' mailbox, its notification dispatchers, recovery from a snapshot |
| `ObjectiveLedger` | the durable allowance of one objective |
| `RequestGateway` | provider requests over that ledger (EXTENDS it), the governor switch |
| `WakeTimeProofs`, `WakeIntentProofs`, `WakePromiseProofs`, `LegacyWakeProofs`, `SignalJournalProofs`, `A2AMailProofs`, `RequestGatewayProofs` | theorems |
| `FiniteSums` | lemmas on sums over finite sets, for `RequestGatewayProofs` |
| `MCWakeTime`, `MCWakeIntent`, `MCSignals`, `MCMail`, `MCBudget` and `MC*.cfg` | small instances |

### WakeTime

`intent` is the retained request with its UTC and counter anchors, `clock` one
observation, `now` the true time which the code never sees. `CounterBounds` and
`UtcBounds` are the two branches of `native_intents.eligibility`; the code
divides by frequency and drift in floating point and moves the result outwards
with `math.nextafter`, the model multiplies every comparison by the common
denominator and moves it by one unit, so that nothing is rounded. `dispatch_gate`
adds the reserve. `Tick`, `Reboot`, `Appear` and `Observe` are the world: an
observation is honest (UTC bounds enclose the time; within a boot the counter
advances at its frequency up to the declared drift and one tick) and either
source may be missing at any moment.

### WakeIntent

One action is one atomic effect on a file or on the recipient, or one lock taken.

| State | Code |
|---|---|
| `rec[i]` | the file of intent `i` in `pending/`; `delivery` is `native_delivery` or `runtime_delivery`, `next` is `wake_route_progress`, `ended` is `owner_completion` |
| `archived`, `archiving` | `archive/`, and archives between copy and unlink |
| `owners` | the completion of the root's owner in `wake-owners.json` |
| `paused` | `emergency-control/state.json` |
| `pc, cur, snap, rt, res, clk, age` | one process: position, wake, remembered record, route, adapter's answer, the pass's clock, boundaries crossed since the last gate |
| `cancelling`, `ender, todo, visiting, got` | a running cancel and a running `complete_owner` |
| `sent, inbox, late` | the recipient (external) |
| `phase` | true time: before release, in the window, within the reserve, expired |

| Actions | Code |
|---|---|
| `Retain` | `native_intents.retain`, `runtime_wakes.retain` |
| `PollStart`, `Evaluate`, `List` | one pass of the daemon over intents |
| `TakeEffects`, `CheckPaused`, `TakePolicy`, `Admit`, `ApplyOwner` | `delivery_guard`, `effect_guard`, `guard_dispatch` |
| `Enter` to `Conclude` | `native_intents.dispatch`, `permission_wake.dispatch_native`, `native_delivery`, `runtime_wakes.dispatch` |
| `Reconcile`, `ReadBack`, `ReadNothing` | `native reconcile`, `reconcile_native`, and the uncertain branches |
| `CancelAdmit`, `CancelCommit`, `CancelDies` | `wake_control._cancel`, `records.cancel_record` |
| `Pause`, `PauseStatus`, `Resume` | `change_control`, `in_flight` |
| `CompleteOwner`, `OwnerRead`, `OwnerWrite`, `OwnerReturn` | `wake_policy.complete_owner` |
| `ArchiveWrite`, `ArchiveUnlink`, `ArchiveDies` | `records.archive_record` |
| `Crash`, `Tick`, `Arrive`, `ActivatePermissions` | the world |

Locks are `flock`s, which a dead process drops; so who holds a lock is read off
the positions (`EffectsShared`, `PolicyFree`, `WakeFree`) and is no variable.

Abstractions, and why they are safe:

* Events, timestamps and texts are left out of records, so two records compare
  equal more often than in the code. The code's "snapshot is still the record"
  tests therefore succeed more often in the model: it has more behaviours.
* A submission whose outcome is unknown counts as sent, including one that in
  truth was lost. `AtMostOnce` is the stronger for it.
* `eligibility` and `dispatch_gate` appear as the set of verdicts `WakeTime`
  shows to be possible in each phase: any true verdict, or none.
* Permission decisions are a free choice.
* The model has the requests that carry a stable key. Requests without one are
  deduplicated only while active (`README.md:282`). One key is used by native or
  by runtime requests, not by both: the two are serialised by different locks.
* One owner per root; a wake belongs to it or to none.
* Archive copies of schemas 6 to 8 carry no retention time, so `cleanup` never
  deletes them and the model has no such action.

### WakePromise

A wake is `none`, `open`, `sent` or `closed`; a key is claimed once; only an open
wake is sent or closed, and both are final. `WakeIntent` implements it with
`outcome[i]` read off record, archive and recipient (`Fate`).

### LegacyWake

Schema 1 wakes for one tmux pane. One action is one file written, unlinked or
read, one command to tmux or the app server, or one answer of theirs.

| State | Code |
|---|---|
| `file[i][d]` | the file of wake `i` in directory `d`: `attempts`, `safety_deferrals`, and whether the target is the app-server fallback |
| `archived`, `archiver` | `archive/`, and archives between copy and unlink |
| `lock` | the pane's lock file: who made it, whether its process id is written |
| `acks` | `acks/` |
| `m[w]` | a monitor: position, wake, copy in memory, the save under way |
| `canceller` | a cancel command, which holds the exclusive effects lock |
| `prompts, pasted, consumed` | the session (external) |

| Actions | Code |
|---|---|
| `Create` | `cli.create_record` |
| `Write`, `Unlink` | the two halves of `replace_record` and `move_record` |
| `List`, `Transition`, `Admit` | a pass: listing, `transition_pending`, `guard_dispatch` |
| `Route` | matching the panes of the session, or the fallback |
| `LockExists` to `LockRelease` | `PaneLock` |
| `CapturePane`, `PastePrompt`, `AckObserved`, `AckTimeout` | the locked part of `_dispatch_firing_record_unlocked` |
| `AppAttempt` to `AppNote` | `dispatch_app_server_record`, and what follows a failed fallback |
| `Consume` | `hook.handle_payload` |
| `CancelAdmit`, `CancelWrite`, `CancelUnlink` | `wake_control._cancel`, `_cancel_found` |
| `ArchiveWrite`, `ArchiveUnlink`, `Cleanup` | `archive_record`, `cleanup_archived_records` |
| `Crash`, `CancelDies`, `ArchiveDies` | the world |

`find_record(i)` is the copy in the directory that comes first, as `iter_records`
and its stable sort make it. Abstractions: events and times are left out of
records, so the code's comparisons of snapshots succeed more often in the model;
a predicate may hold, or be invalid, whenever its wake is evaluated, and the
backoff after a requeue is ignored, so that a retry may come at once; scanning
the directories is one step; a process id is not used again. What a pane shows,
and whether tmux or the app server answers, is a free choice. Pause is the
protocol of `WakeIntent`, and here a pass that does not happen.

### SignalJournal

One action is one SQLite transaction or one change of a record file; any process
may die between two of them.

| State | Code |
|---|---|
| `arm, registered, anchor` | the `arms` row: state, `registered_at`, source position and `local_after_sequence` |
| `scanned, reserved` | `evaluation_progress`, `match_reservations` |
| `desired, applied` | `wake_lifecycle` |
| `receipt, nextSeq, checkpoint` | receipts by local sequence, `next_sequence`, the source checkpoint |
| `lease, generation` | the source lease, live until time turns it off |
| `file[w][d]` | the copy of record `w` in status directory `d`: the outbox payload byte for byte, or changed, with its counters |
| `lock` | `WakeLifecycleLock` |
| `reg, pub, poll, cancel` | calls of `arm`, `_complete_registration_publication`, `poll_once`, `cancel_record` under way |
| `emitted, late, prompts, crashes` | source, deadline, pane (external) |
| `ingested, seen, cancelled` | history, for the properties |

| Actions | Code |
|---|---|
| `ArmCall` to `ArmLost` | `SignalJournal.arm`: first transaction with the lease, adapter's anchor, second transaction |
| `PubWrite`, `PubCommit` | `_complete_registration_publication` |
| `PollStart` to `PollPublished` | what a pass lists, `reconcile_publications` |
| `Observe` to `IngestRefused` | `github_polling`, `ingest` of one page |
| `SweepRetire`, `SweepUnlink`, `SweepDone` | retirement of wakes whose record ended |
| `PendingIdle` to `PendingReserved` | `evaluate`, `transition_signal_pending` |
| `MatchWrite`, `MatchUnlink`, `MatchCommit` | `_complete_match_publication` |
| `DispatchRoute` to `DispatchTimeout` | `authorize_firing_record` and the injector's attempt |
| `Place`, `Unplace` | `move_record`, `replace_record` |
| `CancelWrite` to `CancelDone` | `cancel_record`, `_retire_signal_terminal` |
| `Compact` | `compact_receipts` |
| `Emit`, `LeaseExpires`, `Deadline`, `Crash` | the world |

Abstractions: one source, a GitHub source whose clock is the number of
occurrences it has produced; what a wake's clauses make of an occurrence is its
`Class` (match, match but held back, no match, not of this wake's filter). With one source
`last_local_sequence` is `next_sequence - 1`; the preparer token of an arm is the
source lease; revision 2 of the outbox exists once a match is reserved; a wake's
retention pin is the range of sequences after its anchor. The injector's part is
that of `LegacyWake` in fewer steps, without the pane lock. Cancel opens the
journal without a publisher, as the code does, so a pending copy published
meanwhile is left to the next sweep.

### A2AMail

One action is one SQLite transaction, or one call of the recipient's client. A
dispatcher may die between any two, and time may run out for any lease whose
owner is still at work.

| State | Code |
|---|---|
| `mail[m]` | the rows of message `m`: `global_seq`, admission, outbox status, attempts, owner and generation of the attempt and whether its lease still runs, recipient state, claiming generation |
| `nextSeq` | the autoincrement of `global_seq` |
| `lease[n]` | `mail_leases`: the dispatcher's and one per recipient |
| `actor`, `enrolled`, `paused` | capabilities with their generation, the root's enrollment, `meta.paused` |
| `hold, disposed, boundary, epoch` | recovery hold, disposition with `legacy_through_sequence`, and which operator secret is current |
| `snapshot` | what the last snapshot holds |
| `ps[s]` | a dispatcher in `NotificationDispatcher.tick`: position, secret, jobs, generations of its leases, outcome in hand |
| `past` | deadlines (external) |
| `issued, prompts, claims, cancelled` | history, for the properties |

| Actions | Code |
|---|---|
| `Send`, `Reply`, `Look`, `Read`, `Ack`, `Cancel` | `Mailbox`, each with `_expire` on the rows it touches |
| `Start`, `Tick`, `Recover`, `LookPaused`, `Scan`, `TakeJob`, `NoMoreJobs`, `Defer`, `Renew`, `LeaseRecipient`, `RecipientBusy`, `Claim`, `Context`, `Deliver`, `Finish`, `Free`, `End` | `tick` and the scheduler's transactions in its order |
| `Raise` | a transaction of the tick raises; claim and context are caught, the rest ends the tick through its `finally` clauses |
| `SetPaused`, `Enroll`, `Rotate`, `Revoke` | `BusStore` |
| `Backup`, `Restore`, `Dispose`, `Release` | snapshot, recovery, disposition, release of the hold |
| `Deadline`, `LeaseRunsOut`, `AttemptRunsOut`, `Crash` | the world |

Abstractions: which waiting notifications are due (`next_attempt`, the scan's
limit) is a free choice; a clock that is not certain enough makes a transaction
raise; all threads are enrolled under one root and may write to each other. A
recovery is one step: the exclusive lifecycle lock, and after it the marker file,
refuse every connection until it is complete. A prompt whose fate is unknown
counts as one that arrived, which makes `NotifiedOnce` the stronger. A message is
one uuid and is admitted once, so a sender who after a recovery sends the same
text again sends another message.

### ObjectiveLedger and RequestGateway

The ledger is one JSON file replaced under an exclusive lock, so every method is
one action and its derived accounting (`_view`, `_completion_status`) is a set of
operators. Two accounting owners exclude each other: lifecycle actors
(`Reserve`, `Record`, `RecordGoal`, `RecordSampledFloor`, `AdoptActiveGoal`,
`BindGoal`), and the request transport, which binds an empty ledger
(`BindRequests`, `RegisterThread`, `ContinueThread`, `ReserveRequest`,
`SettleRequest`, `SettleUnknown`, `ProtectCompletion`, `AssignCompletion`,
`ResolveCompletion`). `Configure`, `Authorize`, `Correction` and `View` are the
operator's and the host's.

The gateway composes with it: an attempt calls ledger actions as conjuncts of its
own.

| State | Code |
|---|---|
| `attempt[r]` | one `execute()`: position, thread, the copy of the switch it read |
| `lock` | the lock on the source receipt |
| `governor, revision, copies, switching` | `governor_enabled` in the allocation, in each member's receipt, and a `change()` under way |
| `goal, pauseVerified` | the registered native goal, `request_admission_pause` |
| `sends, billed` | the provider (external) |

| Actions | Code |
|---|---|
| `Enter`, `Refuse`, `Admit`, `Deny` | `_context`, `sync`, `reserve_request`, `_pause_registered_goal` |
| `Submit`, `SubmitFails`, `Complete`, `Fail` | submission under the lock, the stream's completion, the except clause |
| `InheritThread` | `_inherit_thread` |
| `PreservePause`, `ChangeBegin`, `ChangeMember`, `ChangeEnd` | the governor switch |
| `Crash`, `GoalResumed` | the world |

Abstractions: identities are one-to-one with attempts, threads and obligations;
time is a trusted upper bound taken from a small set; the reviewed bounds are on
input and output tokens and count cached ones, so a bill within the reservation
may still be reported as outside (`outside`). What the provider bills is fixed
when a request is submitted, whatever becomes of its answer.

## 3. Runs

| Run | Instance | Shows |
|---|---|---|
| `time` | 4 requests (after, after with stop, at with stop, file), 8 instants, 2 boots, readings narrow, too wide or absent | `DueIsTrue`, `MissedIsTrue` |
| `native` | two requests with one key, two processes | `AtMostOnce`, `EffectRemembered`, `SubmittedMeansQueued`, `PauseFences`, `SentBeforeExpiry`, `ClosedMeansUnsent`, `TerminalIsFinal`, `KeepsPromise` |
| `policy` | a terminal-runtime wake with an owner that holds and two routes, two processes | `AtMostOnce`, `EffectRemembered`, `SubmittedMeansQueued`, `OwnerEndFences`, `KeepsPromise` |
| `live` | a wake with owner and two routes, one process, fairness | `ExpiredSettles`, `UnknownResolves` |
| `legacy` | a schema 1 wake, one monitor, two attempts, two deferrals, two deaths of any process, fairness | `NeverLost`, `AttemptsCounted`, `SubmittedMeansGiven`, `Settles` |
| `signals` | two wakes, one registrar, one poller, one operator; an occurrence that does not match, then one that does; three leases, one death | `NoReceiptLost`, `RecordNeverLost`, `TerminalFences` |
| `mail` | two messages to one recipient and an answer, two dispatchers, two attempts, one crash, one snapshot and one recovery | `NotifiedOnce`, `CancelMeansUnsent`, `ClaimOnce`, `InOrder` |
| `budget` | two requests on a source and a child thread, a lifecycle actor, a goal, one response id, two obligations, two configurations | `BilledWithinCap`, `SessionCapShared`, `ProtectionKept`, `SettledHasProof`, `PauseOnlyWhileGoverned`, `UsageNeverForgotten` |
| `runtime_cancel` | violation | `UnknownHolds` |
| `owner_race` | violation | `TerminalIsFinal` for owned wakes |
| `legacy_cancel` | violation; one wake, one death | `CancelFences` |
| `signal_retry` | violation; one wake, no death | `AttemptsBounded` |

Bounds. In the runs of `WakeTime`, `WakeIntent` and `LegacyWake` nothing is cut
off by a state constraint: the spaces are finite because time has four phases, a wake's attempts and routes are bounded by the protocol
itself, and a pass re-reads the clock only when the phase has changed. Two
processes are enough for every race between two snapshots, and the proofs cover
the rest. Two wakes with one key are what repeated requests need; the owner and
route instances have one wake, since wakes share nothing but key and locks. In
`time` the drift is two parts in ten so that it matters within eight seconds, the
reserve is two, and the readings include one wider than admitted; `Horizon` goes
past expiry and stop of every request. Symmetry exchanges the two processes and
is used in safety runs only. `time` disables the deadlock check because its world
ends at `Horizon`; in `WakeIntent` no run deadlocks.

In `legacy` two attempts and two deferrals are the least with a retry that is not
the last one, and two deaths let a second process die on what the first left
behind (`MaxCrashes` also bounds the attempts: `AttemptsCounted` says that only a
death makes one beyond the limit). It has one monitor, as
`docs/support-boundary.md:12` asks for, so the only locks it meets are those of
dead injectors. With two monitors `NeverLost` fails in the model, since the
backoff that in practice keeps a requeue and the next evaluation apart is not in
it. `legacy` disables the deadlock check because an archived and cleaned wake ends
the behaviour.

In `signals` the matching occurrence comes second, so that the first can move
checkpoint and sequence past an anchor; a page replays one occurrence behind the
checkpoint (`Overlap`) and an evaluation looks at one candidate, so that each is
cut short. `MaxLeases` is what a lost and a repeated registration need,
`MaxPrompts` what a retry needs. `FewTroubles` bounds crashes, leases, prompts,
cancellations and the deadline together (`MaxTroubles` is three, so that any
three of them meet in one behaviour). There is one poller, as the
support boundary asks. `NoReceiptLost` and `RecordNeverLost` are proved for any
number; `TerminalFences` is proved for one and fails with two: a poller that is
past its sweep matches the pending copy which the other's stale publication wrote
after the record ended, and dispatches it before any pass has retired the arm.

In `mail` a second message is what order needs, a second dispatcher what a lost
lease needs, and a second attempt what a refused prompt needs; two generations of
a lease are its loss and its being taken again. `FewTroubles` adds up what
happens in a behaviour, each event at a cost (`MCMail` lists them), and admits
three. That is enough for each of the combinations the properties are about: a
dispatcher that lost its lease while two messages wait; an expiry, a crash or a
cancellation during an attempt; a message that is cancelled, claimed or announced
after its snapshot was taken, and then recovered; a dispatcher of the old epoch
that goes on after the recovery; new mail after the release. After a recovery the
operator works in the order of `docs/a2a-recovery.md`. Every bound but these is
absent from the proofs.

In `budget` a request may use one to three tokens and reserves two, so that a
bill can be under, at and over the reservation; the limit is four, six after an
extension, of which one is prior usage and three are protected; two attempts
share one response id, so that a duplicate completion is possible. `FewHostOps`
bounds extensions, switches, child threads, assignments and resolved obligations
to two in a behaviour (`MaxHostOps`), since requests are what the properties are
about. Symmetry exchanges requests, in `signals` wakes, and in
`mail` dispatchers and the two messages. These three runs check for deadlock.

Fairness (`LiveSpec` of `WakeIntent`). Monitors die any number of times and finally stay up: the
service manager restarts them. A live process takes its next step (weak
fairness). A lock asked for again on every pass is granted in the end, and clock
and recipient answer now and then (strong fairness). A cancel or owner command
that runs ends or dies. Nothing is assumed of operators: they may never resume.

Fairness (`LiveSpec` of `LegacyWake`). A live monitor takes its next step and a
running cancel ends (weak fairness). A pass goes over every pending and every
firing copy, so each is listed again and again (strong fairness of `List`). That
processes die a bounded number of times is the bound `MaxCrashes`.

Each property has a mutant in `PROJECT.json`: a plausible change of a modelled
definition under which TLC finds the property violated.

## 4. Findings

* **Cancelling a runtime wake with an unknown submission** (`runtime_cancel`,
  `src/codex_wake/wake_control.py:209`). `_cancel` refuses wakes whose native or
  app-server delivery is uncertain and does not look at `runtime_delivery`.
  `docs/wake-emergency-controls.md:49` says that unknown submissions hold. The
  wake is not sent again, but its outcome is no longer read back.
* **A submitted wake put back to firing** (`owner_race`,
  `src/codex_wake/wake_control.py:292`). `guard_dispatch` reads the record, takes
  the wake lock, and writes the copy it read before. A `native reconcile` that
  recorded "submitted" in between is lost until another read-back. It needs a
  durable completion that the record does not yet carry. The message is not sent
  again: `AtMostOnce` and `EffectRemembered` hold in the same instance.
* **A cancelled legacy wake fires** (`legacy_cancel`,
  `src/codex_wake/records.py:629`). After a monitor died between writing the
  firing file and unlinking the pending one, `cancel WAKE_ID` removes the pending
  copy and answers "cancelled"; the firing copy is then found, admitted and
  pasted. `cancel --all` visits both copies.
* **A signal wake is retried without end** (`signal_retry`,
  `src/codex_wake/signal_store.py:925`). A firing record that is requeued becomes
  a changed pending copy; the next pass finds the reservation and publishes the
  firing record again from its outbox bytes, whose counters are zero. So
  `max_attempts` and `max_safety_deferrals` never end the retries, although
  `docs/dev/wake-record-schema.md:58` and `docs/event-driven-wakes.md:416` say
  that they do. The deadline does.

## 5. Proofs

Everything here is for any sets of wakes and monitors, any number of routes, any
assignment of keys, owners and kinds that satisfies `IntentConstants`, and for
`WakeTime` any readings, drifts and frequencies that satisfy `ClockConstants` and
`ReadingTypes`.

**WakeIntentProofs.** No property is inductive by itself: each depends on who
holds which lock and on what a process still remembers of a record it read
before it had the lock. `Inv` adds that:

* `Busy`, `Locks`: who works on what, and whom the locks exclude;
* `Shapes`: what a delivery says of status and attempts;
* `Counted`: what the record remembers of the recipient's side;
* `OnePerKey`, `Archive`: one known wake per key, and an archived wake that is
  active again was sent and is only read back;
* `Standing`: where a dispatch stands, the disk agrees (after `Commit` it is
  uncertain and nothing has been sent yet, and so on);
* `Remembered`, `OwnerCopy`: a copy held without the lock, or over a slow read,
  is still the record, or the wake was sent and the copy says so;
* `Cancelling`, `OwnerGate`, `Fenced`: nobody is past a gate that is shut.

`Inv` is shown inductive one action at a time, and implies `SubmitsAtMostOnce`,
`RemembersEffects`, `ClosesUnsent`, `SubmitsOnEvidence`, `PauseIsAFence` and
`OwnerEndIsAFence`. `SendsBeforeExpiry` needs a second, small invariant
(`Timely`: a handoff crosses one phase boundary at most), which rests on the one
timing assumption of the model, that a handoff takes less time than the reserve
(30 s command timeout against 35 s). `TerminalStays` is proved for roots without
wake policies; `owner_race` shows that it fails with them.

**WakePromiseProofs.** `ImplementsPromise`: every step of `WakeIntent` is a step
of `WakePromise` under `Fate`, or a stutter, from `Inv`.

**WakeTimeProofs.** `DueVerdictIsTrue` and `MissedVerdictIsTrue`: from an
invariant saying that the observation at hand is honest about the true time, the
bounds of whichever branch is taken enclose the true time (nonlinear arithmetic
is isolated in a few lemmas on products), and the verdicts follow.

**LegacyWakeProofs.** For any sets of wakes and monitors and any limits that
satisfy `LegacyConstants`. All steps of a monitor but `Write` and `Unlink` change
only its memory, the lock file and the session (`Private`); that class is shown to
keep the invariant once. `Inv` adds to the types that a busy process has a wake
and a copy (`Busy`), that in the app-server part the copy has that target
(`Places`), that acknowledgements, saves under way and files that say "submitted"
have their evidence (`Evidence`), and that monitors and cancel exclude each other
(`Locks`). `SubmitsOnAck` follows for any number of monitors. `LosesNothing`
assumes one monitor and adds `Saved`: whoever is about to unlink a file has
written another that is still there, or the archive has taken it. `CountsAttempts`
(`AttemptsCounted`) assumes one monitor too. The counter is on disk, in the
monitor's memory and in copies that a death has left behind, so the invariant says
it of all three. `Tallied`: every copy is within `MaxAttempts + crashes`, every
copy that may still be dispatched has counted all prompts, and a firing copy is at
its limit only while it is being dispatched (a death raises the limit by one). `Remembered`: what a
dispatch knows of the file before it has counted its attempt (`EarlyOK`), after
(`TriedOK`), when it is done (`DoneOK`) and while it saves (`SaveOK`).

**SignalJournalProofs.** For any sets of wakes, registrars, pollers and operators
and any classes and limits that satisfy `JournalAssumption`. `IInv` adds to the
types what a call under way knows (`ProcsOK`) and how rows, leases and receipts
hang together (`RegOK`, `WakeOK`, `SourceOK`). `NothingLost` (`NoReceiptLost`)
rests on three facts. Every
ingested occurrence is at most the checkpoint, and as long as a registrar's lease
is the current one the checkpoint is at most what the registrar saw when it took
it (an ingest clears the lease), so what is committed when an arm is prepared does
not come after its anchor. Receipts committed later get sequences from `nextSeq`
on, which every scan has still ahead. Compaction keeps what an active arm pins.
`RecordsKept`
(`RecordNeverLost`) follows each pair of a write and an unlink.

`NoPromptAfterEnd` (`TerminalFences`) assumes one poller (`OnePoller`); with two
TLC finds the counterexample described in Section 3. It needs more than
`authorize_firing_record` checks, since a record can end on disk before the
journal knows: a death after the terminal copy was written leaves an arm
"published" with a firing or pending copy beside it. `FInv` adds that records
exist only of registrations that were made, which needs that the lease decides
who makes one (`ArmedOK`, `LeaseOK`); that what is expired or cancelled is retired
(`ClosedOK`, so that a reservation cannot keep the sweep from retiring an ended
record); and `Fence`, one statement for each phase of `poll_once`: an ended record
that is not retired is on the sweep's list while the sweep runs, does not exist
while the pending records are gone through, and is off the list, or in the hands
of the dispatcher that ended it, while the firing records are. The order of the
phases in `poll_once` is what the proof rests on.

**A2AMailProofs.** For any sets of messages, threads and schedulers and any limits
that satisfy `MailAssumption`. `IInv` adds to the types

* `ProcOK`: at most one dispatcher has an attempt on a message, whatever epoch it
  belongs to; until it has sent, nobody was prompted for that message; and in the
  current epoch no earlier notification to the recipient is queued;
* `MailOK`: a message that was prompted for or is in some dispatcher's hands
  (`Used`) does not wait, and a granted claim or an answered cancellation shows in
  the row, as far as the row can still be worked on;
* `BusOK`: a disposed mailbox has no snapshot-era notification waiting or under
  way, and under the hold it has nothing but snapshot-era messages;
* `SnapshotOK`: the snapshot knows only messages that were sent, with sequences
  below its own next one.

The point of the argument is that after a recovery the rows do not say what
happened: a row of the snapshot may wait although its prompt went out. Such a row
is harmless between recovery and disposition (`Quiet`), since nothing passes
`Entitled` or `Active` there, and the disposition takes it out of the queue. So
the facts on rows are stated outside `Quiet`, or for rows that are not
snapshot-era in a mailbox without hold (`Current`). Most actions change few rows
and one process: the lemmas `Kept`, `KeptByMail` and `KeptByTick` show once that
such a step keeps `IInv`, and each action is shown to be such a step. From
`MailInvariant` follow `MailNotifiedOnce`, `MailCancelMeansUnsent`,
`MailClaimOnce`, and `MailInOrder`: `claim` takes the head of the queue, and what
is sent later gets a larger sequence.

**RequestGatewayProofs.** For any requests, threads, configurations and amounts
that satisfy `LedgerAssumption` and `GatewayAssumption`. Of the sets only `Kinds`,
the kinds of obligation, is assumed finite: that the ledger has finitely many
records at any time is part of the invariant. `GatewayInvariant`
relates an attempt's position to the receipt lock and to its actor: an attempt
that decides or has reserved holds the lock, so the switch it read is the one in
force (`SwitchReadFresh`), and the actor of an attempt that can still complete is
not settled. From it `SettlementSound` (`SettledHasProof`), `UsageMonotone`
(`UsageNeverForgotten`) and `PauseGoverned` (`PauseOnlyWhileGoverned`).

`AllowanceInvariant` adds `BInv`, for the properties about money. The bills are
not in the ledger, and what the ledger adds up falls when a request is settled
below its reservation, so neither total is inductive. `Exposure` is the amount in
between: the contract's bound for an attempt, until a completion proves a smaller
bill. `WithinCap` and `SessionsWithinCap` say that the exposure of the governed
attempts, and of those of each continuation group, was within some configuration
an operator authorized; the ledger's own total is at least the exposure, so an
admission keeps both, and a limit that is lowered later does no harm. `Records`
collects what the sums need of the single records (finitely many, reserved with
the contract's bound, proofs that name what was billed, closed sessions without
prior usage). `KnownWithinLimit` says that while everything is accounted for and an
attempt is open, the whole load is within the limit in force: that is what makes a
settlement free only what it leaves unused, and `ProtectionStands`
(`ProtectionKept`) needs it. `BillsWithinCap` (`BilledWithinCap`) and
`GroupsWithinSessionCap` (`SessionCapShared`) follow by comparing bill and
exposure summand by summand.

**FiniteSums.** `SumFunctionOnSet` adds in an order that `CHOOSE` picks.
The lemmas show that the order does not matter (`SumRemove`), and how a sum
follows a change of its set or summands (`SumPart`, `SumMonotone`, `SumSplit`,
`SumChange`, `SumAdd`). The library's induction theorems take the property as an
operator, which the provers cannot instantiate; `SubsetInduction` takes it as a
set of subsets, and is itself proved from the least size of a counterexample
(`LeastNatural`, from the well-foundedness of `<`).

Only model-checked: `ExpiredSettles`, `UnknownResolves` and `Settles`. They are
liveness under fairness, which is outside the prover's reach. Every safety
property that a passing run checks is proved.

## 6. Not modelled, and the plan

Within the modelled parts: keyless requests; migration between record schemas; a
damaged control file (the code reads it as paused) or owner file; scopes over
several roots; `emergency_interrupt`; the permission store's own transactions; for
legacy records the OpenClaw transport, native schema 4, and reuse of process ids.
No run has two injectors on one pane: `PaneLock` creates its file and writes the
process id in two steps, so a second injector can take the file for stale and
remove it (`src/codex_wake/injector.py:284`). That needs two monitors on one root,
which the support boundary rules out; it is listed as a hazard without property.
Of signals: the other source families and webhook ingestion, `positive_only`
clauses, archive of signal records, explicit release of retention pins, liveness.
Of the ledger: damaged files, the controller's side of registration, policies over
several objectives.

Of A2A: rate and capacity refusals, retention and compaction (`a2a_operations`),
receipt signals to senders, reply wakes and their gate, the reopening of saved
recipients, several roots, liveness. Two observations about it have no run, since no document
promises otherwise. A notification the snapshot shows as uncertain is left so by
the disposition and never expires, and the order of `claim`
(`src/codex_wake/a2a_scheduler.py:232`) then holds back every new notification to
that recipient. And an attempt that ends unsent after its message has expired
leaves the notification deferred for good.

Next, in this order:

1. `A2AMail`: liveness of an accepted notification; retention and compaction.
2. `SignalJournal`: liveness of a matched wake.
3. `GoalRenewal`: reserve, renew and settle exactly once across crashes.
4. `AgentHandoff`: one owner across a handoff that is interrupted.

Left out for good: argument parsing, HTTP and socket handling, systemd
integration, terminal layout, release tooling. They are I/O around the stores
above, with no protocol of their own.
