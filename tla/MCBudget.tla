------------------------------- MODULE MCBudget -------------------------------
(* Small instance of the request gateway and its objective ledger.         *)
EXTENDS RequestGateway, TLC

CONSTANTS source, child, review, remedy

\* The first configuration, and what an operator may extend or reset it to.
MCConfigs ==
  {[rev |-> 1, tok |-> 4, dl |-> 2, sessTok |-> 3, sessSec |-> 1, cycles |-> 1],
   [rev |-> 2, tok |-> 6, dl |-> 2, sessTok |-> 3, sessSec |-> 1, cycles |-> 1]}

\* Attempts are interchangeable and no liveness is checked here.
Symmetry == Permutations(Requests)

MCParent == [t \in Threads |-> source]

MCOblTokens == [k \in Kinds |-> IF k = remedy THEN 2 ELSE 1]

MCOblSeconds == [k \in Kinds |-> 1]

\* Bound on what operator and host do besides the requests themselves.
MaxHostOps == 2

FewHostOps ==
  revision + Cardinality(authorized) + (IF child \in Threads /\ sessions[child].on THEN 1 ELSE 0)
    + Cardinality({t \in Threads : sessions[t].purpose # Nobody})
    + (IF plan = Nobody THEN 0 ELSE Cardinality({k \in Kinds : plan[k].state # "pending"}))
  <= 1 + MaxHostOps
=============================================================================
