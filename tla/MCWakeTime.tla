----------------------------- MODULE MCWakeTime -----------------------------
(* Small instances of WakeTime.  One second of the model is one second; the *)
(* reserve is 2, the widest UTC interval 2, the drift two parts in ten.      *)
EXTENDS WakeTime

CONSTANTS Horizon, Ticks, Freq

MCInstants == 1 .. Horizon
MCEpochs == {1, 2}

(* A reading of width 3 is wider than UtcWidthLimit and must be refused. *)
MCUtcReadings ==
  {[ok |-> FALSE, lower |-> 0, upper |-> 0]} \cup
  {u \in [ok : {TRUE}, lower : 0 .. Horizon, upper : 1 .. (Horizon + 2)] :
     u.upper - u.lower \in {1, 3}}

MCCounterReadings ==
  {[ok |-> FALSE, epoch |-> 1, value |-> 0, freq |-> 0, rate |-> 0]} \cup
  [ok : {TRUE}, epoch : MCEpochs, value : Ticks, freq : {Freq}, rate : {2}]

MCAnchors == {c \in MCCounterReadings : c.epoch = 1 /\ c.value = 0}

Ask(k, d, s) ==
  [kind |-> k, delay |-> IF k = "after" THEN d ELSE 0, ttl |-> 5, tolerance |-> 3,
   dueAt |-> IF k = "at" THEN d + 1 ELSE 0, hasStop |-> s, stopAt |-> IF s THEN 6 ELSE 0]

MCRequests == {Ask("after", 2, FALSE), Ask("after", 1, TRUE), Ask("at", 2, TRUE),
               Ask("file", 0, FALSE)}
=============================================================================
