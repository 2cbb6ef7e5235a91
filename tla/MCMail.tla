------------------------------- MODULE MCMail -------------------------------
(* A small mailbox: two messages to one recipient and an answer.            *)
EXTENDS A2AMail, TLC, FiniteSetsExt

CONSTANTS re, a, b

MCFrom == [m \in Messages |-> IF m = re THEN b ELSE a]
MCTo == [m \in Messages |-> IF m = re THEN a ELSE b]

(***************************************************************************)
(* What disturbs the mail is bounded together, each trouble with its cost: *)
(* a message sent, a recovery and a dispatcher that lost its lease cost    *)
(* one; a deadline, a crash, a cancellation and a receipt two; a final     *)
(* receipt, an unnotified message, a withdrawn enrollment and a change of  *)
(* capability three.  A pause without the snapshot it is for costs two, a  *)
(* snapshot without the pause as well.  After a recovery what led to it is *)
(* cheaper, so that a message cancelled or claimed before it meets         *)
(* dispatch, cancellation and claim after it.                              *)
(***************************************************************************)
CONSTANTS MaxTroubles

Count(x) == IF x THEN 1 ELSE 0

\* s works although its dispatcher's lease has run out or is another's.
Stale(s) == ps[s].at \notin {"down", "idle"} /\ ~Fence(s, Dispatcher, ps[s].dgen)

Answered(m) == CASE mail[m].rcp = "unread" -> 0 [] mail[m].rcp \in Final -> 3 [] OTHER -> 2 - epoch

Unnotified == {m \in issued : mail[m].adm = "accepted" /\ mail[m].out = "suppressed"}

Troubles ==
  Cardinality(issued) + epoch + Cardinality({s \in Schedulers : Stale(s)})
    + 2 * Cardinality(past) + (2 - epoch) * Cardinality(cancelled) + MapThenSumSet(Answered, Messages)
    + 2 * crashes + 3 * Cardinality(Unnotified)
    + (IF epoch > 0 THEN 0 ELSE
         2 * Count(paused <=> copies = 0) + 3 * (Count(~enrolled) + actor[a].gen + actor[b].gen - 2))

\* After a recovery the operator disposes, releases, enrolls, issues both
\* capabilities and resumes, in the order of docs/a2a-recovery.md.
Orderly ==
  epoch > 0 => /\ enrolled => ~hold
               /\ actor[a].on => enrolled
               /\ actor[b].on => actor[a].on
               /\ paused \/ actor[b].on

\* A snapshot is taken of one message at most and its notification is tried
\* once; dispatchers rest while an answer exists.
FewTroubles ==
  /\ Troubles <= MaxTroubles /\ Orderly
  /\ copies > 0 => (epoch = 0 => Cardinality(issued) <= 1) /\ \A m \in Messages : mail[m].tries <= 1
  /\ re \in issued => \A s \in Schedulers : ps[s].at \in {"down", "idle"}

Symmetry == Permutations(Schedulers) \cup Permutations(Messages \ {re})
=============================================================================
