------------------------------ MODULE FiniteSums ------------------------------
(***************************************************************************)
(* Facts about sums over finite sets, for the totals the allowance ledger  *)
(* derives from its actor records.  SumFunctionOnSet adds the values in an *)
(* order its definition chooses; the lemmas say that the order does not    *)
(* matter and how a sum follows a change of its set or of its summands.    *)
(***************************************************************************)
EXTENDS Naturals, FiniteSets, FiniteSetsExt, FiniteSetTheorems, TLAPS

-----------------------------------------------------------------------------
(* Induction, with the property as a set so that it can be instantiated.   *)

LEMMA LeastNatural ==
  ASSUME NEW N \in SUBSET Nat, N # {}
  PROVE  \E n \in N : \A k \in N : n <= k
  <1>1. PICK n \in N : \A k \in N : ~(<<k, n>> \in OpToRel(<, Nat))
    BY NatLessThanWellFounded, WFMin
  <1>2. \A k \in N : ~(k < n)
    BY <1>1 DEF OpToRel
  <1>3. QED
    BY <1>2

\* A family that contains {} and every nonempty subset of S all of whose
\* one-element removals it contains, contains S.
LEMMA SubsetInduction ==
  ASSUME NEW S, IsFiniteSet(S), NEW F, {} \in F,
         \A T \in SUBSET S : T # {} /\ (\A x \in T : T \ {x} \in F) => T \in F
  PROVE  S \in F
  <1> DEFINE Bad == {T \in SUBSET S : T \notin F}
             Sizes == {n \in Nat : \E T \in Bad : Cardinality(T) = n}
  <1>1. \A T \in SUBSET S : IsFiniteSet(T) /\ Cardinality(T) \in Nat
    BY FS_Subset, FS_CardinalityType
  <1>2. SUFFICES ASSUME Bad # {} PROVE FALSE
    OBVIOUS
  <1>3. PICK n \in Sizes : \A k \in Sizes : n <= k
    <2>1. Sizes # {} /\ Sizes \in SUBSET Nat
      BY <1>1, <1>2
    <2> HIDE DEF Sizes
    <2>2. QED
      BY <2>1, LeastNatural
  <1>4. PICK T \in Bad : Cardinality(T) = n
    BY <1>3
  <1>5. T # {} /\ T \in SUBSET S
    BY <1>4
  <1>6. \A x \in T : Cardinality(T \ {x}) = n - 1 /\ Cardinality(T \ {x}) \in Nat
    BY <1>1, <1>4, <1>5, FS_RemoveElement
  <1>7. \A x \in T : T \ {x} \notin Bad /\ T \ {x} \in SUBSET S
    <2> SUFFICES ASSUME NEW x \in T, T \ {x} \in Bad PROVE FALSE
      BY <1>5
    <2>1. Cardinality(T \ {x}) \in Sizes
      BY <1>6
    <2>2. QED
      BY <1>3, <1>6, <2>1
  <1>8. QED
    BY <1>4, <1>5, <1>7

-----------------------------------------------------------------------------
(* The recursive function behind SumFunctionOnSet.                         *)

Pick(s) == CHOOSE x \in s : TRUE

Step(g, s, h) == IF s = {} THEN 0 ELSE g[Pick(s)] + h[s \ {Pick(s)}]

Totals(g, S) == CHOOSE h : h = [s \in SUBSET S |-> Step(g, s, h)]

LEMMA PickIn ==
  ASSUME NEW s, s # {}
  PROVE  Pick(s) \in s
  BY DEF Pick

LEMMA SumTotals ==
  ASSUME NEW g, NEW S
  PROVE  SumFunctionOnSet(g, S) = Totals(g, S)[S]
  BY DEF SumFunctionOnSet, FoldFunctionOnSet, MapThenFoldSet, Totals, Step, Pick

\* The recursion has a solution on the subsets of a finite set.
LEMMA TotalsDefined ==
  ASSUME NEW g, NEW S, IsFiniteSet(S)
  PROVE  \A s \in SUBSET S : Totals(g, S)[s] = Step(g, s, Totals(g, S))
  <1> DEFINE Upto(n) == {s \in SUBSET S : Cardinality(s) <= n}
             Solved(n) == \E h : h = [s \in Upto(n) |-> Step(g, s, h)]
             Open == {n \in Nat : ~Solved(n)}
  <1>1. \A s \in SUBSET S : IsFiniteSet(s) /\ Cardinality(s) \in Nat /\ Cardinality(s) <= Cardinality(S)
    BY FS_Subset, FS_CardinalityType
  <1>2. \A s \in SUBSET S : s # {} => /\ Pick(s) \in s
                                      /\ s \ {Pick(s)} \in SUBSET S
                                      /\ Cardinality(s \ {Pick(s)}) = Cardinality(s) - 1
    BY <1>1, PickIn, FS_RemoveElement
  <1>3. Solved(0)
    <2> DEFINE h == [s \in Upto(0) |-> 0]
    <2>1. \A s \in Upto(0) : s = {}
      BY <1>1, FS_EmptySet
    <2>2. h = [s \in Upto(0) |-> Step(g, s, h)]
      BY <2>1 DEF Step
    <2>3. QED
      BY <2>2
  <1>4. ASSUME NEW n \in Nat, Solved(n)
        PROVE  Solved(n + 1)
    <2>1. PICK h : h = [s \in Upto(n) |-> Step(g, s, h)]
      BY <1>4
    <2> DEFINE k == [s \in Upto(n + 1) |-> Step(g, s, h)]
    <2>2. \A s \in Upto(n + 1) : s # {} => s \ {Pick(s)} \in Upto(n)
      BY <1>1, <1>2
    <2>3. \A s \in Upto(n) : s \in Upto(n + 1) /\ h[s] = Step(g, s, h)
      BY <1>1, <2>1
    <2>4. \A s \in Upto(n) : k[s] = h[s]
      BY <2>3
    <2>5. \A s \in Upto(n + 1) : Step(g, s, h) = Step(g, s, k)
      <3> HIDE DEF Upto, k
      <3>1. QED
        BY <2>2, <2>4 DEF Step
    <2>6. k = [s \in Upto(n + 1) |-> Step(g, s, k)]
      <3> HIDE DEF Upto
      <3>1. QED
        BY <2>5
    <2>7. QED
      BY <2>6
  <1>5. \A n \in Nat : Solved(n)
    <2> HIDE DEF Solved
    <2>1. SUFFICES ASSUME Open # {} PROVE FALSE
      OBVIOUS
    <2>2. PICK n \in Open : \A k \in Open : n <= k
      <3> HIDE DEF Open
      <3>1. QED
        BY <2>1, LeastNatural DEF Open
    <2>3. n \in Nat /\ ~Solved(n) /\ n # 0
      BY <1>3, <2>2
    <2>4. n - 1 \in Nat /\ Solved(n - 1) /\ n = (n - 1) + 1
      BY <2>2, <2>3
    <2>5. QED
      BY <1>4, <2>3, <2>4
  <1>6. Upto(Cardinality(S)) = SUBSET S
    BY <1>1
  <1>7. \E h : h = [s \in SUBSET S |-> Step(g, s, h)]
    <2>1. Cardinality(S) \in Nat
      BY FS_CardinalityType
    <2> HIDE DEF Upto
    <2>2. QED
      BY <1>5, <1>6, <2>1
  <1>8. Totals(g, S) = [s \in SUBSET S |-> Step(g, s, Totals(g, S))]
    BY <1>7 DEF Totals
  <1>9. QED
    BY <1>8

\* It is the same one whatever larger set it is computed for.
LEMMA TotalsLocal ==
  ASSUME NEW g, NEW S, IsFiniteSet(S), NEW T \in SUBSET S
  PROVE  Totals(g, S)[T] = SumFunctionOnSet(g, T)
  <1> DEFINE F == {s \in SUBSET T : Totals(g, S)[s] = Totals(g, T)[s]}
  <1>1. IsFiniteSet(T)
    BY FS_Subset
  <1>2. \A s \in SUBSET T : /\ Totals(g, S)[s] = Step(g, s, Totals(g, S))
                            /\ Totals(g, T)[s] = Step(g, s, Totals(g, T))
    BY <1>1, TotalsDefined
  <1>3. {} \in F
    BY <1>2 DEF Step
  <1>4. ASSUME NEW s \in SUBSET T, s # {}, \A x \in s : s \ {x} \in F
        PROVE  s \in F
    <2>1. Totals(g, S)[s \ {Pick(s)}] = Totals(g, T)[s \ {Pick(s)}]
      BY <1>4, PickIn
    <2>2. QED
      BY <1>2, <1>4, <2>1 DEF Step
  <1>5. T \in F
    <2> HIDE DEF F
    <2>1. QED
      BY <1>1, <1>3, <1>4, SubsetInduction
  <1>6. QED
    BY <1>5, SumTotals

LEMMA SumEmpty ==
  ASSUME NEW g
  PROVE  SumFunctionOnSet(g, {}) = 0
  BY FS_EmptySet, SumTotals, TotalsDefined DEF Step

LEMMA SumPick ==
  ASSUME NEW g, NEW S, IsFiniteSet(S), S # {}
  PROVE  SumFunctionOnSet(g, S) = g[Pick(S)] + SumFunctionOnSet(g, S \ {Pick(S)})
  <1>1. SumFunctionOnSet(g, S) = g[Pick(S)] + Totals(g, S)[S \ {Pick(S)}]
    BY SumTotals, TotalsDefined DEF Step
  <1>2. QED
    BY <1>1, TotalsLocal

-----------------------------------------------------------------------------
(* Sums of natural numbers.                                                *)

LEMMA SumNat ==
  ASSUME NEW g, NEW S, IsFiniteSet(S), \A x \in S : g[x] \in Nat
  PROVE  SumFunctionOnSet(g, S) \in Nat
  <1> DEFINE F == {T \in SUBSET S : SumFunctionOnSet(g, T) \in Nat}
  <1>1. {} \in F
    BY SumEmpty
  <1>2. ASSUME NEW T \in SUBSET S, T # {}, \A x \in T : T \ {x} \in F
        PROVE  T \in F
    <2>1. Pick(T) \in T /\ SumFunctionOnSet(g, T) = g[Pick(T)] + SumFunctionOnSet(g, T \ {Pick(T)})
      BY <1>2, PickIn, SumPick, FS_Subset
    <2>2. QED
      BY <1>2, <2>1
  <1>3. S \in F
    <2> HIDE DEF F
    <2>1. QED
      BY <1>1, <1>2, SubsetInduction
  <1>4. QED
    BY <1>3

\* The order of summation does not matter: any element may be taken first.
LEMMA SumRemove ==
  ASSUME NEW g, NEW S, IsFiniteSet(S), \A x \in S : g[x] \in Nat
  PROVE  \A x \in S : SumFunctionOnSet(g, S) = g[x] + SumFunctionOnSet(g, S \ {x})
  <1> DEFINE Sum(T) == SumFunctionOnSet(g, T)
             F == {T \in SUBSET S : \A x \in T : Sum(T) = g[x] + Sum(T \ {x})}
  <1>1. {} \in F
    BY SumEmpty
  <1>2. ASSUME NEW T \in SUBSET S, T # {}, \A x \in T : T \ {x} \in F
        PROVE  T \in F
    <2> DEFINE p == Pick(T)
    <2>1. p \in T /\ g[p] \in Nat /\ Sum(T) = g[p] + Sum(T \ {p})
      BY <1>2, PickIn, SumPick, FS_Subset
    <2> HIDE DEF Sum, p
    <2>2. ASSUME NEW x \in T, x # p
          PROVE  Sum(T) = g[x] + Sum(T \ {x})
      <3>1. Sum(T \ {p}) = g[x] + Sum((T \ {p}) \ {x})
        BY <1>2, <2>1, <2>2
      <3>2. Sum(T \ {x}) = g[p] + Sum((T \ {x}) \ {p})
        BY <1>2, <2>1, <2>2
      <3>3. (T \ {p}) \ {x} = (T \ {x}) \ {p}
        OBVIOUS
      <3>4. Sum((T \ {p}) \ {x}) \in Nat /\ g[x] \in Nat /\ g[p] \in Nat
        BY <2>1, FS_Subset, SumNat DEF Sum
      <3>5. QED
        BY <2>1, <3>1, <3>2, <3>3, <3>4
    <2>3. QED
      BY <2>1, <2>2
  <1>3. S \in F
    <2> HIDE DEF F
    <2>1. QED
      BY <1>1, <1>2, SubsetInduction
  <1>4. QED
    BY <1>3

\* What an element contributes to the sum of g over S.
Share(g, S, x) == IF x \in S THEN g[x] ELSE 0

Part(g, S, V) == SumFunctionOnSet(g, S \cap V)

LEMMA SumPart ==
  ASSUME NEW V, IsFiniteSet(V), NEW S, NEW g, \A y \in S : g[y] \in Nat, NEW x \in V
  PROVE  /\ Part(g, S, V) \in Nat /\ Share(g, S, x) \in Nat /\ Part(g, S, V \ {x}) \in Nat
         /\ Part(g, S, V) = Share(g, S, x) + Part(g, S, V \ {x})
  <1>1. IsFiniteSet(S \cap V) /\ IsFiniteSet(S \cap (V \ {x}))
    BY FS_Subset
  <1>2. Part(g, S, V) \in Nat /\ Part(g, S, V \ {x}) \in Nat /\ Share(g, S, x) \in Nat
    BY <1>1, SumNat DEF Part, Share
  <1>3. CASE x \in S
    <2>1. S \cap (V \ {x}) = (S \cap V) \ {x}
      OBVIOUS
    <2>2. QED
      BY <1>1, <1>2, <1>3, <2>1, SumRemove DEF Share, Part
  <1>4. CASE x \notin S
    <2>1. S \cap (V \ {x}) = S \cap V
      BY <1>4
    <2>2. Share(g, S, x) = 0 /\ Part(g, S, V \ {x}) = Part(g, S, V)
      BY <1>4, <2>1 DEF Share, Part
    <2>3. QED
      BY <1>2, <2>2
  <1>5. QED
    BY <1>3, <1>4

\* Two sums are bounded by two others when every element's shares are.
LEMMA SumCompare ==
  ASSUME NEW U, IsFiniteSet(U),
         NEW Q \in SUBSET U, NEW R \in SUBSET U, NEW S \in SUBSET U, NEW T \in SUBSET U,
         NEW d, NEW e, NEW f, NEW g,
         \A x \in Q : d[x] \in Nat, \A x \in R : e[x] \in Nat,
         \A x \in S : f[x] \in Nat, \A x \in T : g[x] \in Nat,
         \A x \in U : Share(d, Q, x) + Share(e, R, x) <= Share(f, S, x) + Share(g, T, x)
  PROVE  SumFunctionOnSet(d, Q) + SumFunctionOnSet(e, R) <= SumFunctionOnSet(f, S) + SumFunctionOnSet(g, T)
  <1> DEFINE F == {V \in SUBSET U : Part(d, Q, V) + Part(e, R, V) <= Part(f, S, V) + Part(g, T, V)}
  <1>1. {} \in F
    <2>1. \A A \in SUBSET U : A \cap {} = {}
      OBVIOUS
    <2>2. QED
      BY <2>1, SumEmpty DEF Part
  <1>2. ASSUME NEW V \in SUBSET U, V # {}, \A x \in V : V \ {x} \in F
        PROVE  V \in F
    <2>1. PICK x \in V : V \ {x} \in F
      BY <1>2
    <2>2. IsFiniteSet(V)
      BY FS_Subset
    <2>3. Part(d, Q, V) = Share(d, Q, x) + Part(d, Q, V \ {x})
      BY <2>2, SumPart
    <2>4. Part(e, R, V) = Share(e, R, x) + Part(e, R, V \ {x})
      BY <2>2, SumPart
    <2>5. Part(f, S, V) = Share(f, S, x) + Part(f, S, V \ {x})
      BY <2>2, SumPart
    <2>6. Part(g, T, V) = Share(g, T, x) + Part(g, T, V \ {x})
      BY <2>2, SumPart
    <2>7. Share(d, Q, x) \in Nat /\ Share(e, R, x) \in Nat /\ Share(f, S, x) \in Nat /\ Share(g, T, x) \in Nat
      BY DEF Share
    <2>8. /\ Part(d, Q, V \ {x}) \in Nat /\ Part(e, R, V \ {x}) \in Nat
          /\ Part(f, S, V \ {x}) \in Nat /\ Part(g, T, V \ {x}) \in Nat
      BY <2>2, SumPart
    <2>9. /\ Share(d, Q, x) + Share(e, R, x) <= Share(f, S, x) + Share(g, T, x)
          /\ Part(d, Q, V \ {x}) + Part(e, R, V \ {x}) <= Part(f, S, V \ {x}) + Part(g, T, V \ {x})
      BY <2>1
    <2>10. QED
      BY <2>3, <2>4, <2>5, <2>6, <2>7, <2>8, <2>9
  <1>3. U \in F
    <2> HIDE DEF F
    <2>1. QED
      BY <1>1, <1>2, SubsetInduction
  <1>4. Q \cap U = Q /\ R \cap U = R /\ S \cap U = S /\ T \cap U = T
    OBVIOUS
  <1>5. QED
    BY <1>3, <1>4 DEF Part

LEMMA SumMonotone ==
  ASSUME NEW U, IsFiniteSet(U), NEW R \in SUBSET U, NEW S \in SUBSET U, NEW e, NEW f,
         \A x \in R : e[x] \in Nat, \A x \in S : f[x] \in Nat,
         \A x \in U : Share(e, R, x) <= Share(f, S, x)
  PROVE  SumFunctionOnSet(e, R) <= SumFunctionOnSet(f, S)
  <1>1. \A x \in U : Share(f, S, x) \in Nat /\ Share(e, R, x) \in Nat /\ Share(e, {}, x) = 0
    BY DEF Share
  <1>2. \A x \in U : Share(e, R, x) + Share(e, {}, x) <= Share(f, S, x) + Share(e, {}, x)
    BY <1>1
  <1>3. {} \in SUBSET U /\ \A x \in {} : e[x] \in Nat
    OBVIOUS
  <1>4. SumFunctionOnSet(e, R) + SumFunctionOnSet(e, {}) <= SumFunctionOnSet(f, S) + SumFunctionOnSet(e, {})
    BY <1>2, <1>3, SumCompare
  <1>5. SumFunctionOnSet(e, R) \in Nat /\ SumFunctionOnSet(f, S) \in Nat /\ SumFunctionOnSet(e, {}) = 0
    BY SumNat, SumEmpty, FS_Subset
  <1>6. QED
    BY <1>4, <1>5

\* A sum is the sum of two others when every element's share is.
LEMMA SumSplit ==
  ASSUME NEW U, IsFiniteSet(U), NEW R \in SUBSET U, NEW S \in SUBSET U, NEW T \in SUBSET U,
         NEW e, NEW f, NEW g,
         \A x \in R : e[x] \in Nat, \A x \in S : f[x] \in Nat, \A x \in T : g[x] \in Nat,
         \A x \in U : Share(e, R, x) = Share(f, S, x) + Share(g, T, x)
  PROVE  SumFunctionOnSet(e, R) = SumFunctionOnSet(f, S) + SumFunctionOnSet(g, T)
  <1>1. \A x \in U : /\ Share(e, R, x) \in Nat /\ Share(f, S, x) \in Nat /\ Share(g, T, x) \in Nat
                     /\ Share(e, {}, x) = 0
    BY DEF Share
  <1>2. \A x \in U : /\ Share(e, R, x) + Share(e, {}, x) <= Share(f, S, x) + Share(g, T, x)
                     /\ Share(f, S, x) + Share(g, T, x) <= Share(e, R, x) + Share(e, {}, x)
    BY <1>1
  <1>3. {} \in SUBSET U /\ \A x \in {} : e[x] \in Nat
    OBVIOUS
  <1>4. SumFunctionOnSet(e, R) + SumFunctionOnSet(e, {}) <= SumFunctionOnSet(f, S) + SumFunctionOnSet(g, T)
    BY <1>2, <1>3, SumCompare
  <1>5. SumFunctionOnSet(f, S) + SumFunctionOnSet(g, T) <= SumFunctionOnSet(e, R) + SumFunctionOnSet(e, {})
    BY <1>2, <1>3, SumCompare
  <1>6. /\ SumFunctionOnSet(e, R) \in Nat /\ SumFunctionOnSet(f, S) \in Nat /\ SumFunctionOnSet(g, T) \in Nat
        /\ SumFunctionOnSet(e, {}) = 0
    BY SumNat, SumEmpty, FS_Subset
  <1>7. QED
    BY <1>4, <1>5, <1>6

LEMMA SumSame ==
  ASSUME NEW S, IsFiniteSet(S), NEW e, NEW f, \A x \in S : f[x] \in Nat /\ e[x] = f[x]
  PROVE  SumFunctionOnSet(e, S) = SumFunctionOnSet(f, S)
  <1>1. \A x \in S : Share(e, S, x) = Share(f, S, x) /\ Share(f, S, x) \in Nat
    BY DEF Share
  <1>2. SumFunctionOnSet(e, S) <= SumFunctionOnSet(f, S) /\ SumFunctionOnSet(f, S) <= SumFunctionOnSet(e, S)
    BY <1>1, SumMonotone
  <1>3. SumFunctionOnSet(e, S) \in Nat /\ SumFunctionOnSet(f, S) \in Nat
    BY SumNat
  <1>4. QED
    BY <1>2, <1>3

\* One summand changes.
LEMMA SumChange ==
  ASSUME NEW S, IsFiniteSet(S), NEW x \in S, NEW e, NEW f,
         \A y \in S : e[y] \in Nat /\ f[y] \in Nat /\ (y # x => e[y] = f[y])
  PROVE  SumFunctionOnSet(e, S) + f[x] = SumFunctionOnSet(f, S) + e[x]
  <1>1. IsFiniteSet(S \ {x})
    BY FS_Subset
  <1>2. SumFunctionOnSet(e, S \ {x}) = SumFunctionOnSet(f, S \ {x}) /\ SumFunctionOnSet(f, S \ {x}) \in Nat
    BY <1>1, SumSame, SumNat
  <1>3. /\ SumFunctionOnSet(e, S) = e[x] + SumFunctionOnSet(e, S \ {x})
        /\ SumFunctionOnSet(f, S) = f[x] + SumFunctionOnSet(f, S \ {x})
    BY SumRemove
  <1>4. QED
    BY <1>2, <1>3

\* One element joins the set.
LEMMA SumAdd ==
  ASSUME NEW S, IsFiniteSet(S), NEW x, x \notin S, NEW e, NEW f,
         e[x] \in Nat, \A y \in S : f[y] \in Nat /\ e[y] = f[y]
  PROVE  SumFunctionOnSet(e, S \cup {x}) = SumFunctionOnSet(f, S) + e[x]
  <1>1. IsFiniteSet(S \cup {x}) /\ (S \cup {x}) \ {x} = S
    BY FS_AddElement
  <1>2. SumFunctionOnSet(e, S \cup {x}) = e[x] + SumFunctionOnSet(e, S)
    BY <1>1, SumRemove
  <1>3. SumFunctionOnSet(e, S) = SumFunctionOnSet(f, S) /\ SumFunctionOnSet(f, S) \in Nat
    BY SumSame, SumNat
  <1>4. QED
    BY <1>2, <1>3

\* A finite set of naturals has the maximum Max stands for.
LEMMA MaxIn ==
  ASSUME NEW S \in SUBSET Nat, IsFiniteSet(S), S # {}
  PROVE  Max(S) \in S /\ \A y \in S : y <= Max(S)
  <1> DEFINE F == {T \in SUBSET S : T = {} \/ \E x \in T : \A y \in T : x >= y}
  <1>1. ASSUME NEW T \in SUBSET S, T # {}, \A x \in T : T \ {x} \in F
        PROVE  T \in F
    <2>1. PICK z \in T : T \ {z} \in F
      BY <1>1
    <2>2. CASE T \ {z} = {}
      BY <2>1, <2>2
    <2>3. CASE \E x \in T \ {z} : \A y \in T \ {z} : x >= y
      <3>1. PICK x \in T \ {z} : \A y \in T \ {z} : x >= y
        BY <2>3
      <3>2. CASE x >= z
        BY <3>1, <3>2
      <3>3. CASE z >= x
        <4>1. \A y \in T : z >= y
          BY <3>1, <3>3
        <4>2. QED
          BY <4>1
      <3>4. QED
        BY <3>2, <3>3
    <2>4. QED
      BY <2>1, <2>2, <2>3
  <1>2. S \in F
    <2>1. {} \in F
      OBVIOUS
    <2> HIDE DEF F
    <2>2. QED
      BY <1>1, <2>1, SubsetInduction
  <1>3. PICK x \in S : \A y \in S : x >= y
    BY <1>2
  <1>4. Max(S) \in S /\ \A y \in S : Max(S) >= y
    BY <1>3 DEF Max
  <1>5. QED
    BY <1>4

=============================================================================
