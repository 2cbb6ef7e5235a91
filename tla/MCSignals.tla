------------------------------ MODULE MCSignals ------------------------------
(* Small instances of the signal journal.                                   *)
EXTENDS SignalJournal, TLC

\* The first occurrence is not what the wakes ask for, the second is.
MCClass == [o \in Occurrences |-> IF o = 1 THEN "other" ELSE "match"]

\* Bound on what disturbs the registration and the firing of a wake.
CONSTANT MaxTroubles

FewTroubles ==
  crashes + generation + (IF late THEN 1 ELSE 0) + Cardinality({w \in Wakes : file[w]["cancelled"] # Nobody})
    + Cardinality({e \in Wakes \X (1..MaxPrompts) : e[2] <= prompts[e[1]]}) <= MaxTroubles

WakeSymmetry == Permutations(Wakes)
=============================================================================
