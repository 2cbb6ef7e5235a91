---------------------------- MODULE MCWakeIntent ----------------------------
(* Small instances of WakeIntent: which wakes exist and what each carries.  *)
EXTENDS WakeIntent, TLC

CONSTANTS
  n1, n2,   \* native wakes without policy, requested with the same key
  p1, p2,   \* native wakes with an owner
  g1        \* a wake for a terminal runtime

MCKey == [i \in Wakes |-> IF i = n2 THEN n1 ELSE i]
MCOwnerEnd ==
  [i \in Wakes |-> CASE i = p1 -> "retire"
                     [] i = p2 \/ (i = g1 /\ i \in PolicyWakes) -> "hold"
                     [] OTHER -> "none"]
MCRoutes == [i \in Wakes |-> IF i = p1 \/ (i = g1 /\ i \in PolicyWakes) THEN 2 ELSE 0]
MonitorSymmetry == Permutations(Workers)
=============================================================================
