------------------------------- MODULE WakeTime -------------------------------
(***************************************************************************)
(* When a retained scheduling intent may be dispatched: the pure decision  *)
(* native_intents.eligibility and the stricter native_intents.dispatch_gate*)
(* that guards every effect (schemas 6, 7 and 8 share both).               *)
(*                                                                         *)
(* A clock observation carries UTC bounds, a host counter, both or none.   *)
(* Times are whole seconds.  The counter branch of the code divides by the *)
(* frequency and the drift rate; here both sides of every comparison are   *)
(* multiplied by the common denominator `den', so nothing is rounded, and  *)
(* math.nextafter is one unit of 1/den outwards.                           *)
(*                                                                         *)
(* The machine around the decision lets time pass, hosts reboot and clock  *)
(* services come and go, and asks whether a verdict is ever false of the   *)
(* true time, which no line of the code can see.                           *)
(***************************************************************************)
EXTENDS Integers

CONSTANTS
  UtcWidthLimit,    \* widest UTC interval admitted by valid_utc (300 s)
  DispatchReserve,  \* window reserved by dispatch_gate (35 s)
  PpmScale,         \* 10^6: rate_ppm is a fraction of it
  RateLimit,        \* largest admitted rate_ppm (5000)
  Requests,         \* the scheduling requests the model issues
  Epochs,           \* boot epochs of the host counter
  UtcReadings,      \* values a UTC observation may take
  CounterReadings,  \* values a counter observation may take
  Instants,         \* bound: the true times the model explores
  Starts,           \* bound: the true times of the request
  Anchors           \* bound: the counter observations at the request

ASSUME ClockConstants ==
  /\ UtcWidthLimit \in Nat /\ DispatchReserve \in Nat
  /\ PpmScale \in Nat /\ RateLimit \in Nat /\ RateLimit < PpmScale

ASSUME ReadingTypes ==
  /\ Instants \subseteq Nat /\ Epochs \subseteq Nat
  /\ Starts \subseteq Instants /\ Anchors \subseteq CounterReadings
  /\ UtcReadings \subseteq [ok : BOOLEAN, lower : Int, upper : Int]
  /\ CounterReadings \subseteq
       [ok : BOOLEAN, epoch : Epochs, value : Nat, freq : Nat, rate : Nat]
  /\ Requests \subseteq
       [kind : {"after", "at", "file"}, delay : Nat, ttl : Nat, tolerance : Nat,
        dueAt : Nat, hasStop : BOOLEAN, stopAt : Nat]

VARIABLES
  now,       \* true time
  epoch,     \* epoch of the running boot
  exists,    \* the awaited file of a "file" schedule exists
  intent,    \* scheduling_intent of the record, with the anchors of retain
  made,      \* true time of the request (ghost)
  clock      \* the observation made at `now', with neither source when there is none

vars == <<now, epoch, exists, intent, made, clock>>

-----------------------------------------------------------------------------
(* Validation of evidence. *)

valid_utc(u) ==
  u.ok /\ 0 < u.lower /\ u.lower <= u.upper /\ u.upper - u.lower <= UtcWidthLimit

valid_counter(c) ==
  c.ok /\ 0 <= c.value /\ 0 < c.freq /\ c.rate <= RateLimit

(* The relative origin can be checked against UTC again. *)
UtcPair(i, c) == valid_utc(c.utc) /\ valid_utc(i.utcAnchor)

Continuous(i, c) ==
  /\ valid_counter(i.counterAnchor) /\ valid_counter(c.counter)
  /\ c.counter.epoch = i.counterAnchor.epoch
  /\ c.counter.freq = i.counterAnchor.freq
  /\ c.counter.value >= i.counterAnchor.value

Rate(i, c) ==
  IF i.counterAnchor.rate >= c.counter.rate THEN i.counterAnchor.rate ELSE c.counter.rate

-----------------------------------------------------------------------------
(* Mutant: the lower bound ignores the declared drift. *)
CounterBoundsNoDrift(i, c) ==
  LET s == PpmScale
      r == Rate(i, c)
      delta == c.counter.value - i.counterAnchor.value
      den == (c.counter.freq * (s + r)) * (s - r)
  IN [den |-> den,
      lower |-> ((delta - 1) * (s + r)) * (s - r),
      upper |-> ((delta + 1) * s) * (s + r) + 1,
      due |-> i.delay * den,
      expiry |-> (i.delay + i.ttl) * den,
      tolerance |-> i.tolerance * den]

(* Elapsed bounds from the counter: seconds scaled by den. *)
CounterBounds(i, c) ==
  LET s == PpmScale
      r == Rate(i, c)
      delta == c.counter.value - i.counterAnchor.value
      den == (c.counter.freq * (s + r)) * (s - r)
      lower == ((delta - 1) * s) * (s - r) - 1
  IN [den |-> den,
      lower |-> IF lower < 0 THEN 0 ELSE lower,
      upper |-> ((delta + 1) * s) * (s + r) + 1,
      due |-> i.delay * den,
      expiry |-> (i.delay + i.ttl) * den,
      tolerance |-> i.tolerance * den]

(* Absolute bounds from UTC: an "at" schedule, or a saved UTC origin. *)
UtcBounds(i, c) ==
  LET due == IF i.kind = "at" THEN i.dueAt ELSE i.utcAnchor.upper + i.delay
  IN [den |-> 1, lower |-> c.utc.lower, upper |-> c.utc.upper,
      due |-> due, expiry |-> due + i.ttl, tolerance |-> i.tolerance]

UseCounter(i, c) == i.kind # "at" /\ Continuous(i, c) /\ ~UtcPair(i, c)
UseUtc(i, c) == valid_utc(c.utc) /\ (i.kind = "at" \/ valid_utc(i.utcAnchor))
Bounds(i, c) == IF UseCounter(i, c) THEN CounterBounds(i, c) ELSE UtcBounds(i, c)

(* Reasons to keep the intent without consulting any bound. *)
StopUnknown(i, c) == i.hasStop /\ ~valid_utc(c.utc)
StopReached(i, c) == i.hasStop /\ valid_utc(c.utc) /\ c.utc.lower >= i.stopAt
StopUncertain(i, c) ==
  i.hasStop /\ valid_utc(c.utc) /\ c.utc.lower < i.stopAt /\ c.utc.upper >= i.stopAt
Unanchored(i) ==
  i.kind # "at" /\ ~valid_counter(i.counterAnchor) /\ ~valid_utc(i.utcAnchor)
ContinuityLost(i, c) ==
  /\ i.kind # "at" /\ valid_counter(i.counterAnchor) /\ valid_counter(c.counter)
  /\ ~Continuous(i, c) /\ ~UtcPair(i, c)
NoBounds(i, c) == ~UseCounter(i, c) /\ ~UseUtc(i, c)

(* The verdict's state; `file' is Path(schedule["path"]).exists(). *)
eligibility(i, c, file) ==
  LET b == Bounds(i, c)
  IN IF StopUnknown(i, c) THEN "pending_time"
     ELSE IF StopReached(i, c) THEN "missed_deadline"
     ELSE IF StopUncertain(i, c) \/ Unanchored(i) \/ ContinuityLost(i, c)
             \/ NoBounds(i, c) THEN "pending_time"
     ELSE IF b.lower >= b.expiry THEN "missed_deadline"
     ELSE IF b.upper >= b.expiry \/ b.upper - b.lower > b.tolerance THEN "pending_time"
     ELSE IF b.lower < b.due \/ (i.kind = "file" /\ ~file) THEN "pending"
     ELSE "due"

(* Mutant: the reserve before an absolute stop is forgotten. *)
WindowTooSmallNoStop(i, c) ==
  LET b == Bounds(i, c) IN b.expiry - b.upper <= DispatchReserve * b.den

(* dispatch_window_seconds <= 35: to expiry, and to an absolute stop. *)
WindowTooSmall(i, c) ==
  LET b == Bounds(i, c)
  IN \/ b.expiry - b.upper <= DispatchReserve * b.den
     \/ i.hasStop /\ i.stopAt - c.utc.upper <= DispatchReserve

dispatch_gate(i, c, file) ==
  LET verdict == eligibility(i, c, file)
  IN IF verdict = "due" /\ WindowTooSmall(i, c) THEN "pending_time" ELSE verdict

-----------------------------------------------------------------------------
(* What an honest clock may report at true time t: UTC bounds enclose it,  *)
(* and within one boot the counter advances at its frequency, up to the    *)
(* declared drift and one tick.  The services are external to the code.    *)

UtcTrue(u, t) == valid_utc(u) => u.lower <= t /\ t <= u.upper

CounterTrue(i, c, elapsed) ==
  Continuous(i, c) =>
    LET s == PpmScale
        r == Rate(i, c)
        delta == c.counter.value - i.counterAnchor.value
    IN /\ (delta - 1) * s <= (c.counter.freq * elapsed) * (s + r)
       /\ (delta + 1) * s >= (c.counter.freq * elapsed) * (s - r)

Clocks == [utc : UtcReadings, counter : CounterReadings]

Honest(i, c, t0, t) == UtcTrue(c.utc, t) /\ CounterTrue(i, c, t - t0)

-----------------------------------------------------------------------------
(* valid_utc and valid_counter are asked before every use of an anchor, so *)
(* an invalid observation saved here is the None the code saves.           *)
WithAnchors(r, c) ==
  [kind |-> r.kind, delay |-> r.delay, ttl |-> r.ttl, tolerance |-> r.tolerance,
   dueAt |-> r.dueAt, hasStop |-> r.hasStop, stopAt |-> r.stopAt,
   counterAnchor |-> c.counter, utcAnchor |-> c.utc]

(* retain: the request is kept with whatever evidence the clock had. *)
Init ==
  /\ now \in Starts /\ made = now
  /\ epoch \in Epochs
  /\ exists = FALSE
  /\ \E r \in Requests, c \in [utc : UtcReadings, counter : Anchors] :
       /\ UtcTrue(c.utc, now) /\ (c.counter.ok => c.counter.epoch = epoch)
       /\ intent = WithAnchors(r, c)
       /\ clock = c

(* An observation is spent when the world moves on: time passes, the host  *)
(* reboots, the awaited file appears.                                      *)
Spent == \E u \in UtcReadings, n \in CounterReadings :
           ~u.ok /\ ~n.ok /\ clock' = [utc |-> u, counter |-> n]

Tick == now + 1 \in Instants /\ now' = now + 1 /\ Spent
        /\ UNCHANGED <<epoch, exists, intent, made>>

Reboot == epoch' \in Epochs /\ epoch' > epoch /\ Spent
          /\ UNCHANGED <<now, exists, intent, made>>

Appear == ~exists /\ exists' = TRUE /\ Spent
          /\ UNCHANGED <<now, epoch, intent, made>>

(* Mutant: a recovered clock becomes the new origin of the intent. *)
ObserveRebase(c) ==
  /\ ~clock.utc.ok /\ ~clock.counter.ok
  /\ c.counter.ok => c.counter.epoch = epoch
  /\ Honest(intent, c, made, now)
  /\ clock' = c /\ intent' = WithAnchors(intent, c)
  /\ UNCHANGED <<now, epoch, exists, made>>

(* snapshot: one of the readings an honest clock can give now. *)
Observe(c) ==
  /\ ~clock.utc.ok /\ ~clock.counter.ok
  /\ c.counter.ok => c.counter.epoch = epoch
  /\ Honest(intent, c, made, now)
  /\ clock' = c
  /\ UNCHANGED <<now, epoch, exists, intent, made>>

Next == Tick \/ Reboot \/ Appear \/ \E c \in Clocks : Observe(c)

Spec == Init /\ [][Next]_vars

-----------------------------------------------------------------------------
TypeOK ==
  /\ now \in Instants /\ made \in Instants /\ epoch \in Epochs /\ exists \in BOOLEAN
  /\ clock \in Clocks
  /\ intent.utcAnchor \in UtcReadings /\ intent.counterAnchor \in Anchors
  /\ \E r \in Requests :
       intent = WithAnchors(r, [utc |-> intent.utcAnchor, counter |-> intent.counterAnchor])

Verdict == dispatch_gate(intent, clock, exists)

(* The anchor's own uncertainty: a UTC origin is taken at its upper bound. *)
OriginWidth ==
  IF intent.kind # "at" /\ valid_utc(intent.utcAnchor)
  THEN intent.utcAnchor.upper - intent.utcAnchor.lower ELSE 0

Release == IF intent.kind = "at" THEN intent.dueAt ELSE made + intent.delay

(* An effect admitted by dispatch_gate is never early, and its reserved    *)
(* handoff ends before the wake's expiry and before its absolute stop,     *)
(* whichever clock source, boot or drift the two readings came from.  A    *)
(* relative deadline restored from UTC may be late by the width of the     *)
(* saved origin and by no more.                                            *)
DueIsTrue ==
  Verdict = "due" =>
    /\ now >= Release
    /\ now + DispatchReserve < Release + intent.ttl + OriginWidth
    /\ intent.hasStop => now + DispatchReserve < intent.stopAt
    /\ intent.kind = "file" => exists

(* A wake is failed for a missed deadline only when the true time is past  *)
(* its expiry or its absolute stop: no verdict of the gate discards a wake *)
(* that could still be delivered.                                          *)
MissedIsTrue ==
  Verdict = "missed_deadline" =>
    \/ now >= Release + intent.ttl
    \/ intent.hasStop /\ now >= intent.stopAt
=============================================================================
