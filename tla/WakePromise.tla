----------------------------- MODULE WakePromise -----------------------------
(***************************************************************************)
(* What a durable wake intent promises, without monitors, locks, records or*)
(* crashes: a request is taken up at most once per key; its wake is either *)
(* closed without ever reaching the recipient, or submitted once.          *)
(***************************************************************************)
CONSTANTS Wakes, Key

VARIABLE outcome   \* [Wakes -> "none" | "open" | "sent" | "closed"]

Fate == {"none", "open", "sent", "closed"}

PInit == outcome = [i \in Wakes |-> "none"]

Become(i, from, to) == outcome[i] = from /\ outcome' = [outcome EXCEPT ![i] = to]

Unclaimed(i) == \A j \in Wakes : Key[j] = Key[i] => outcome[j] = "none"

Open(i) == Unclaimed(i) /\ Become(i, "none", "open")
Refuse(i) == Unclaimed(i) /\ Become(i, "none", "closed")  \* the owner has already ended
Close(i) == Become(i, "open", "closed")
Submit(i) == Become(i, "open", "sent")

PNext == \E i \in Wakes : Open(i) \/ Refuse(i) \/ Close(i) \/ Submit(i)

PSpec == PInit /\ [][PNext]_outcome
=============================================================================
