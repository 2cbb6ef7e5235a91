---------------------------- MODULE WakeTimeProofs ----------------------------
(***************************************************************************)
(* The verdicts of WakeTime are true of the time, for every width limit,   *)
(* reserve, drift limit, request, boot and pair of honest readings.        *)
(*                                                                         *)
(* The invariant carries what the anchors and the present observation say  *)
(* of the true time.  The counter branch compares scaled bounds; Cancel and*)
(* its uses take the common factors out again.                             *)
(***************************************************************************)
EXTENDS WakeTime, TLAPS

UtcReading == [ok : BOOLEAN, lower : Int, upper : Int]
CounterReading == [ok : BOOLEAN, epoch : Epochs, value : Nat, freq : Nat, rate : Nat]

Intent == [kind : {"after", "at", "file"}, delay : Nat, ttl : Nat, tolerance : Nat,
           dueAt : Nat, hasStop : BOOLEAN, stopAt : Nat,
           counterAnchor : CounterReading, utcAnchor : UtcReading]

(* Evidence is typed and honest, and time does not run back. *)
Evidence ==
  /\ now \in Nat /\ made \in Nat /\ made <= now
  /\ intent \in Intent
  /\ clock.utc \in UtcReading /\ clock.counter \in CounterReading
  /\ UtcTrue(intent.utcAnchor, made)
  /\ Honest(intent, clock, made, now)

TInv == TypeOK /\ Evidence

-----------------------------------------------------------------------------
(* Arithmetic. *)

LEMMA Cancel ==
  ASSUME NEW a \in Int, NEW b \in Int, NEW k \in Nat, k > 0
  PROVE  (a * k <= b * k => a <= b) /\ (a * k < b * k => a < b)
BY SMTT(30)

(* The scaled lower bound does not exceed the elapsed time. *)
LEMMA LowerIsTrue ==
  ASSUME NEW s \in Nat, NEW r \in Nat, r < s, NEW f \in Nat, f > 0,
         NEW d \in Int, NEW e \in Nat, NEW x \in Nat,
         (d - 1) * s <= (f * e) * (s + r),
         ((d - 1) * s) * (s - r) - 1 >= x * ((f * (s + r)) * (s - r))
  PROVE  x <= e
<1> DEFINE m == (d - 1) * s
           p == s + r
           q == s - r
<1>1. m \in Int /\ p \in Nat /\ p > 0 /\ q \in Nat /\ q > 0
  OBVIOUS
<1>2. m <= (f * e) * p /\ m * q - 1 >= x * ((f * p) * q)
  OBVIOUS
<1> HIDE DEF m, p, q
<1>3. x * ((f * p) * q) = ((x * f) * p) * q /\ (x * f) * p \in Int
  BY <1>1, SMTT(30)
<1>4. ((x * f) * p) * q <= m * q
  BY <1>1, <1>2, <1>3
<1>5. (x * f) * p <= m
  BY <1>1, <1>3, <1>4, Cancel
<1>6. (x * f) * p <= (f * e) * p
  BY <1>1, <1>2, <1>3, <1>5
<1>7. x * f <= f * e
  BY <1>1, <1>6, Cancel
<1>8. x * f <= e * f
  BY <1>7
<1> QED
  BY <1>8, Cancel

(* The elapsed time does not exceed the scaled upper bound. *)
LEMMA UpperIsTrue ==
  ASSUME NEW s \in Nat, NEW r \in Nat, r < s, NEW f \in Nat, f > 0,
         NEW d \in Int, NEW e \in Nat, NEW x \in Int,
         (d + 1) * s >= (f * e) * (s - r),
         x * ((f * (s + r)) * (s - r)) > ((d + 1) * s) * (s + r) + 1
  PROVE  e < x
<1> DEFINE m == (d + 1) * s
           p == s + r
           q == s - r
<1>1. m \in Int /\ p \in Nat /\ p > 0 /\ q \in Nat /\ q > 0
  OBVIOUS
<1>2. (f * e) * q <= m /\ m * p < x * ((f * p) * q)
  OBVIOUS
<1> HIDE DEF m, p, q
<1>3. x * ((f * p) * q) = ((x * f) * q) * p /\ (x * f) * q \in Int
  BY <1>1, SMTT(30)
<1>4. m < (x * f) * q
  BY <1>1, <1>2, <1>3, Cancel
<1>5. (e * f) * q < (x * f) * q
  BY <1>1, <1>2, <1>3, <1>4
<1>6. e * f < x * f
  BY <1>1, <1>5, Cancel
<1> QED
  BY <1>6, Cancel

-----------------------------------------------------------------------------
(* What the bounds say of the true time. *)

(* The lower bound has not reached a point of the schedule before the time *)
(* has, and before expiry the upper bound is not passed by the time.       *)
LEMMA CounterIsTrue ==
  ASSUME Evidence, UseCounter(intent, clock)
  PROVE  LET b == CounterBounds(intent, clock) IN
         /\ b.lower >= b.due => now >= made + intent.delay
         /\ b.lower >= b.expiry => now >= made + intent.delay + intent.ttl
         /\ b.expiry - b.upper > DispatchReserve * b.den =>
              now + DispatchReserve < made + intent.delay + intent.ttl
<1> DEFINE s == PpmScale
           r == Rate(intent, clock)
           f == clock.counter.freq
           d == clock.counter.value - intent.counterAnchor.value
           e == now - made
           den == (f * (s + r)) * (s - r)
           low == ((d - 1) * s) * (s - r) - 1
           up == ((d + 1) * s) * (s + r) + 1
           D == intent.delay
           T == intent.ttl
<1>1. intent.counterAnchor \in CounterReading /\ clock.counter \in CounterReading
  BY DEF Evidence, Intent
<1>2. /\ s \in Nat /\ r \in Nat /\ r < s /\ f \in Nat /\ f > 0 /\ d \in Int
      /\ DispatchReserve \in Nat
  BY <1>1, ClockConstants DEF UseCounter, Continuous, valid_counter, Rate, CounterReading
<1>3. e \in Nat /\ D \in Nat /\ T \in Nat /\ now \in Nat /\ made \in Nat
  BY DEF Evidence, Intent
<1>4. (d - 1) * s <= (f * e) * (s + r) /\ (d + 1) * s >= (f * e) * (s - r)
  BY DEF Evidence, Honest, CounterTrue, UseCounter
<1>5. CounterBounds(intent, clock) =
        [den |-> den, lower |-> IF low < 0 THEN 0 ELSE low, upper |-> up,
         due |-> D * den, expiry |-> (D + T) * den, tolerance |-> intent.tolerance * den]
  BY DEF CounterBounds
<1> HIDE DEF r, f, d, e, D, T
<1>6. s + r \in Nat /\ s + r > 0 /\ s - r \in Nat /\ s - r > 0
  BY <1>2
<1>7. f * (s + r) \in Nat /\ f * (s + r) > 0
  BY <1>2, <1>6, SMTT(30)
<1>8. den \in Nat /\ den > 0
  BY <1>6, <1>7, SMTT(30)
<1>9. low \in Int /\ up \in Int
  BY <1>2
<1>10. ASSUME NEW x \in Nat, (IF low < 0 THEN 0 ELSE low) >= x * den PROVE x <= e
  <2>1. CASE low < 0
    <3>1. x * den <= 0 * den
      BY <1>8, <1>10, <2>1
    <3> QED
      BY <1>3, <1>8, <3>1, Cancel
  <2>2. CASE low >= 0
    BY <1>2, <1>3, <1>4, <1>10, <2>2, LowerIsTrue
  <2> QED
    BY <1>9, <2>1, <2>2
<1>11. ASSUME (D + T) * den - up > DispatchReserve * den PROVE e < D + T - DispatchReserve
  <2>1. (D + T - DispatchReserve) * den > up
    <3> HIDE DEF den, up
    <3> QED
      BY <1>2, <1>3, <1>8, <1>9, <1>11, SMTT(30)
  <2>2. D + T - DispatchReserve \in Int
    BY <1>2, <1>3
  <2> QED
    BY <1>2, <1>3, <1>4, <2>1, <2>2, UpperIsTrue
<1> HIDE DEF den, low, up
<1> QED
  BY <1>2, <1>3, <1>5, <1>10, <1>11 DEF e, D, T

LEMMA CounterTyped ==
  ASSUME Evidence, UseCounter(intent, clock)
  PROVE  LET b == CounterBounds(intent, clock) IN
         b.lower \in Int /\ b.due \in Int /\ b.expiry \in Int /\ b.upper \in Int /\ b.den \in Int
<1>1. /\ intent.counterAnchor \in CounterReading /\ clock.counter \in CounterReading
      /\ intent.delay \in Nat /\ intent.ttl \in Nat
  BY DEF Evidence, Intent
<1>2. /\ PpmScale \in Nat /\ Rate(intent, clock) \in Nat /\ clock.counter.freq \in Nat
      /\ clock.counter.value - intent.counterAnchor.value \in Int
  BY <1>1, ClockConstants DEF Rate, CounterReading
<1> QED
  BY <1>1, <1>2, SMTT(30) DEF CounterBounds

LEMMA UtcTyped ==
  ASSUME Evidence, UseUtc(intent, clock)
  PROVE  LET b == UtcBounds(intent, clock) IN
         b.lower \in Int /\ b.due \in Int /\ b.expiry \in Int /\ b.upper \in Int /\ b.den \in Int
<1>1. /\ clock.utc \in UtcReading /\ intent.utcAnchor \in UtcReading
      /\ intent.delay \in Nat /\ intent.ttl \in Nat /\ intent.dueAt \in Nat
  BY DEF Evidence, Intent
<1> QED
  BY <1>1 DEF UtcBounds, UtcReading

LEMMA UtcIsTrue ==
  ASSUME Evidence, UseUtc(intent, clock)
  PROVE  LET b == UtcBounds(intent, clock) IN
         /\ b.lower >= b.due => now >= Release
         /\ b.lower >= b.expiry => now >= Release + intent.ttl
         /\ b.expiry - b.upper > DispatchReserve * b.den =>
              now + DispatchReserve < Release + intent.ttl + OriginWidth
<1>1. clock.utc.lower <= now /\ now <= clock.utc.upper
  BY DEF Evidence, Honest, UtcTrue, UseUtc
<1>2. intent.kind # "at" => /\ valid_utc(intent.utcAnchor)
                            /\ intent.utcAnchor.lower <= made /\ made <= intent.utcAnchor.upper
  BY DEF Evidence, UtcTrue, UseUtc
<1>3. /\ clock.utc.lower \in Int /\ clock.utc.upper \in Int
      /\ intent.utcAnchor.lower \in Int /\ intent.utcAnchor.upper \in Int
      /\ intent.delay \in Nat /\ intent.ttl \in Nat /\ intent.dueAt \in Nat
      /\ now \in Nat /\ made \in Nat /\ DispatchReserve \in Nat
  BY ClockConstants DEF Evidence, Intent, UtcReading
<1> QED
  BY <1>1, <1>2, <1>3 DEF UtcBounds, Release, OriginWidth

-----------------------------------------------------------------------------
LEMMA TimeInitially == Init => TInv
<1> SUFFICES ASSUME Init PROVE TInv
  OBVIOUS
<1>1. PICK q \in Requests, c \in [utc : UtcReadings, counter : Anchors] :
        /\ UtcTrue(c.utc, now) /\ (c.counter.ok => c.counter.epoch = epoch)
        /\ intent = WithAnchors(q, c) /\ clock = c
  BY DEF Init
<1>2. /\ c.utc \in UtcReadings /\ c.utc \in UtcReading
      /\ c.counter \in Anchors /\ c.counter \in CounterReadings /\ c.counter \in CounterReading
  BY ReadingTypes DEF UtcReading, CounterReading
<1>3. now \in Nat /\ made = now /\ now \in Instants /\ epoch \in Epochs /\ exists \in BOOLEAN
  BY ReadingTypes DEF Init
<1>4. intent \in Intent /\ intent.utcAnchor = c.utc /\ intent.counterAnchor = c.counter
  BY <1>1, <1>2, ReadingTypes DEF WithAnchors, Intent
<1>5. TypeOK
  <2>1. c \in Clocks
    BY <1>2 DEF Clocks
  <2>2. intent = WithAnchors(q, [utc |-> c.utc, counter |-> c.counter])
    BY <1>1 DEF WithAnchors
  <2> QED
    BY <1>1, <1>2, <1>3, <1>4, <2>1, <2>2 DEF TypeOK
<1>6. CounterTrue(intent, clock, made - now)
  <2>1. Rate(intent, clock) \in Nat /\ Rate(intent, clock) = c.counter.rate
    BY <1>1, <1>2, <1>4 DEF Rate, CounterReading
  <2>2. ASSUME Continuous(intent, clock)
        PROVE  c.counter.value - c.counter.value = 0 /\ c.counter.freq \in Nat
    BY <1>2 DEF CounterReading
  <2> QED
    BY <1>1, <1>3, <1>4, <2>1, <2>2, ClockConstants DEF CounterTrue
<1> QED
  BY <1>1, <1>2, <1>3, <1>4, <1>5, <1>6 DEF TInv, Evidence, Honest

LEMMA TimeInductive == TInv /\ [Next]_vars => TInv'
<1> SUFFICES ASSUME TInv, [Next]_vars PROVE TInv'
  OBVIOUS
<1> USE DEF TInv, TypeOK, Evidence
<1>1. ASSUME Spent, UNCHANGED <<intent, made>>, now' \in Instants, now' >= now,
             epoch' \in Epochs, exists' \in BOOLEAN
      PROVE  TInv'
  <2>1. PICK u \in UtcReadings, n \in CounterReadings :
          ~u.ok /\ ~n.ok /\ clock' = [utc |-> u, counter |-> n]
    BY <1>1 DEF Spent
  <2>2. /\ clock'.utc \in UtcReading /\ clock'.counter \in CounterReading /\ clock' \in Clocks
        /\ now' \in Nat
    BY <1>1, <2>1, ReadingTypes DEF UtcReading, CounterReading, Clocks
  <2>3. Honest(intent, clock, made, now)'
    BY <2>1 DEF Honest, UtcTrue, CounterTrue, Continuous, valid_utc, valid_counter
  <2> QED
    BY <1>1, <2>2, <2>3 DEF UtcTrue, valid_utc, WithAnchors
<1>2. CASE Tick
  BY <1>1, <1>2, ReadingTypes DEF Tick
<1>3. CASE Reboot
  BY <1>1, <1>3 DEF Reboot
<1>4. CASE Appear
  BY <1>1, <1>4 DEF Appear
<1>5. ASSUME NEW c \in Clocks, Observe(c) PROVE TInv'
  <2>1. c.utc \in UtcReading /\ c.counter \in CounterReading
    BY ReadingTypes DEF Clocks, UtcReading, CounterReading
  <2>2. Honest(intent, clock, made, now)' /\ UtcTrue(intent.utcAnchor, made)'
    BY <1>5 DEF Observe, Honest, UtcTrue, CounterTrue, Continuous, Rate, valid_utc, valid_counter
  <2> QED
    BY <1>5, <2>1, <2>2 DEF Observe, WithAnchors
<1>6. CASE UNCHANGED vars
  BY <1>6 DEF vars, UtcTrue, Honest, CounterTrue, Continuous, Rate, valid_utc, valid_counter,
       WithAnchors
<1> QED
  BY <1>2, <1>3, <1>4, <1>5, <1>6 DEF Next

LEMMA TimeInvariance == Spec => []TInv
BY TimeInitially, TimeInductive, PTL DEF Spec

(* The stored intent keeps its request and its anchors: no observation,    *)
(* reboot or recovered clock ever becomes its new origin.                  *)
THEOREM TimeTypeCorrect == Spec => []TypeOK
<1>1. TInv => TypeOK
  BY DEF TInv
<1> QED
  BY <1>1, TimeInvariance, PTL

(* An effect the gate admits is not early, and its reserve ends before the *)
(* expiry and the stop, for every clock source, drift and boot.            *)
THEOREM DueVerdictIsTrue == Spec => []DueIsTrue
<1>1. ASSUME TInv PROVE DueIsTrue
  <2> SUFFICES ASSUME Verdict = "due"
               PROVE  /\ now >= Release
                      /\ now + DispatchReserve < Release + intent.ttl + OriginWidth
                      /\ intent.hasStop => now + DispatchReserve < intent.stopAt
                      /\ intent.kind = "file" => exists
    BY DEF DueIsTrue
  <2> DEFINE b == Bounds(intent, clock)
  <2>1. /\ eligibility(intent, clock, exists) = "due" /\ ~WindowTooSmall(intent, clock)
    BY DEF Verdict, dispatch_gate
  <2>2. /\ ~StopUnknown(intent, clock) /\ ~NoBounds(intent, clock)
        /\ ~(b.lower < b.due) /\ (intent.kind = "file" => exists)
    BY <2>1 DEF eligibility
  <2>3. ~(b.expiry - b.upper <= DispatchReserve * b.den)
    BY <2>1 DEF WindowTooSmall
  <2>4. ASSUME intent.hasStop PROVE now + DispatchReserve < intent.stopAt
    <3>1. valid_utc(clock.utc)
      BY <2>2, <2>4 DEF StopUnknown
    <3>2. now <= clock.utc.upper /\ ~(intent.stopAt - clock.utc.upper <= DispatchReserve)
      BY <1>1, <2>1, <2>4, <3>1 DEF TInv, Evidence, Honest, UtcTrue, WindowTooSmall
    <3>3. /\ intent.stopAt \in Nat /\ clock.utc.upper \in Int /\ now \in Nat
          /\ DispatchReserve \in Nat
      BY <1>1, ClockConstants DEF TInv, Evidence, Intent, UtcReading
    <3> QED
      BY <3>2, <3>3
  <2>5. /\ intent.delay \in Nat /\ intent.ttl \in Nat /\ intent.dueAt \in Nat
        /\ now \in Nat /\ made \in Nat /\ DispatchReserve \in Nat
        /\ OriginWidth \in Nat
    BY <1>1, ClockConstants DEF TInv, Evidence, Intent, OriginWidth, valid_utc, UtcReading
  <2>6. CASE UseCounter(intent, clock)
    <3>1. b = CounterBounds(intent, clock) /\ intent.kind # "at"
      BY <2>6 DEF Bounds, UseCounter
    <3>2. b.lower \in Int /\ b.due \in Int /\ b.expiry \in Int /\ b.upper \in Int /\ b.den \in Int
      BY <1>1, <2>6, CounterTyped, <3>1 DEF TInv
    <3> HIDE DEF b
    <3>3. b.lower >= b.due /\ b.expiry - b.upper > DispatchReserve * b.den
      BY <2>2, <2>3, <2>5, <3>2
    <3>4. now >= made + intent.delay /\ now + DispatchReserve < made + intent.delay + intent.ttl
      BY <1>1, <2>6, <3>1, <3>3, CounterIsTrue DEF TInv
    <3> QED
      BY <2>2, <2>4, <2>5, <3>1, <3>4 DEF Release
  <2>7. CASE ~UseCounter(intent, clock)
    <3>1. b = UtcBounds(intent, clock) /\ UseUtc(intent, clock)
      BY <2>2, <2>7 DEF Bounds, NoBounds
    <3>2. b.lower \in Int /\ b.due \in Int /\ b.expiry \in Int /\ b.upper \in Int /\ b.den \in Int
      BY <1>1, <3>1, UtcTyped DEF TInv
    <3> HIDE DEF b
    <3>3. b.lower >= b.due /\ b.expiry - b.upper > DispatchReserve * b.den
      BY <2>2, <2>3, <2>5, <3>2
    <3> QED
      BY <1>1, <2>2, <2>4, <3>1, <3>3, UtcIsTrue DEF TInv
  <2> QED
    BY <2>6, <2>7
<1> QED
  BY <1>1, TimeInvariance, PTL

(* A missed-deadline verdict is only given when the expiry or the stop is  *)
(* past in truth.                                                          *)
THEOREM MissedVerdictIsTrue == Spec => []MissedIsTrue
<1>1. ASSUME TInv PROVE MissedIsTrue
  <2> SUFFICES ASSUME Verdict = "missed_deadline"
               PROVE  now >= Release + intent.ttl \/ (intent.hasStop /\ now >= intent.stopAt)
    BY DEF MissedIsTrue
  <2> DEFINE b == Bounds(intent, clock)
  <2>1. eligibility(intent, clock, exists) = "missed_deadline"
    BY DEF Verdict, dispatch_gate
  <2>2. StopReached(intent, clock) \/ (~NoBounds(intent, clock) /\ b.lower >= b.expiry)
    BY <2>1 DEF eligibility
  <2>3. CASE StopReached(intent, clock)
    <3>1. clock.utc.lower <= now /\ clock.utc.lower >= intent.stopAt /\ intent.hasStop
      BY <1>1, <2>3 DEF TInv, Evidence, Honest, UtcTrue, StopReached
    <3>2. intent.stopAt \in Nat /\ clock.utc.lower \in Int /\ now \in Nat
      BY <1>1 DEF TInv, Evidence, Intent, UtcReading
    <3> QED
      BY <3>1, <3>2
  <2>4. CASE UseCounter(intent, clock) /\ b.lower >= b.expiry
    <3>1. b = CounterBounds(intent, clock) /\ intent.kind # "at"
      BY <2>4 DEF Bounds, UseCounter
    <3> QED
      BY <1>1, <2>4, <3>1, CounterIsTrue DEF TInv, Release
  <2>5. CASE ~UseCounter(intent, clock) /\ UseUtc(intent, clock) /\ b.lower >= b.expiry
    BY <1>1, <2>5, UtcIsTrue DEF TInv, Bounds
  <2> QED
    BY <2>2, <2>3, <2>4, <2>5 DEF NoBounds
<1> QED
  BY <1>1, TimeInvariance, PTL
===============================================================================
