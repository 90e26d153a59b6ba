-------------------------- MODULE Calculators_proofs --------------------------
(***************************************************************************)
(* Proofs about the screens that compute, for every catalog within the     *)
(* assumptions, any number of fields, stables, buildings, chains and       *)
(* machines, and every number that can be typed.                           *)
(*                                                                         *)
(* What a screen shows is a function of its inputs, so the inductive       *)
(* invariants say what the inputs can be (Inputs, HerdInputs, and the      *)
(* screen) and each property is a lemma about the engines' operators on    *)
(* such inputs.  The totals are folds over finite sets; what is needed of  *)
(* a sum is proved first, by induction over the finite set (SetInduction,  *)
(* from the well-founded subset order of the library), then used by name.  *)
(* A herd is accounted for through its plan: the same list of needs        *)
(* whatever the bonus, and only the land of each depends on it (HerdPlan). *)
(***************************************************************************)
EXTENDS Calculators, FiniteSetTheorems, WellFoundedInduction, TLAPS

(* Induction over a finite set.  The theorems of the library take the        *)
(* statement as an operator; here it is the set Good of the subsets it holds *)
(* of, so that a proof can name it.                                          *)
LEMMA SetInduction ==
  ASSUME NEW S, IsFiniteSet(S), NEW Good,
         ASSUME NEW u, u \subseteq S, IsFiniteSet(u),
                \A v : v \subseteq u /\ v # u => v \in Good
         PROVE  u \in Good
  PROVE  S \in Good
<1> DEFINE Bad == FiniteSubsetsOf(S) \ Good
<1>1. SUFFICES ASSUME S \notin Good PROVE FALSE
  OBVIOUS
<1>2. S \in Bad
  BY <1>1 DEF FiniteSubsetsOf
<1>3. PICK u \in Bad : \A v \in Bad : ~(<<v, u>> \in StrictSubsetOrdering(S))
  <2>1. IsWellFoundedOn(StrictSubsetOrdering(S), FiniteSubsetsOf(S))
    BY FS_StrictSubsetOrderingWellFounded
  <2>2. Bad \subseteq FiniteSubsetsOf(S)
    OBVIOUS
  <2> HIDE DEF Bad
  <2> QED
    BY <1>2, <2>1, <2>2, WFMin
<1>4. u \subseteq S /\ IsFiniteSet(u) /\ u \notin Good
  BY DEF FiniteSubsetsOf
<1>5. ASSUME NEW v, v \subseteq u, v # u
      PROVE  v \in Good
  <2>1. IsFiniteSet(v) /\ v \subseteq S
    BY <1>4, <1>5, FS_Subset
  <2>2. <<v, u>> \in StrictSubsetOrdering(S)
    BY <1>4, <1>5, <2>1 DEF StrictSubsetOrdering
  <2>3. v \notin Bad
    BY <1>3, <2>2
  <2> QED
    BY <2>1, <2>3 DEF FiniteSubsetsOf
<1>6. QED
  BY <1>4, <1>5

Pick(s) == CHOOSE x \in s : TRUE
LEMMA PickIn == ASSUME NEW s, s # {} PROVE Pick(s) \in s
BY DEF Pick

\* The step that takes out the element the fold takes out.
LEMMA PickInduction ==
  ASSUME NEW S, IsFiniteSet(S), NEW Good, {} \in Good,
         ASSUME NEW u, u \subseteq S, IsFiniteSet(u), u # {},
                Pick(u) \in u, u \ {Pick(u)} \in Good
         PROVE  u \in Good
  PROVE  S \in Good
<1>1. ASSUME NEW u, u \subseteq S, IsFiniteSet(u),
             \A v : v \subseteq u /\ v # u => v \in Good
      PROVE  u \in Good
  <2>1. CASE u = {}
    BY <2>1
  <2>2. CASE u # {}
    <3>1. Pick(u) \in u
      BY <2>2, PickIn
    <3> DEFINE v == u \ {Pick(u)}
    <3>2. v \subseteq u /\ v # u
      BY <3>1
    <3>3. v \in Good
      BY <3>2, <1>1
    <3> QED
      BY <1>1, <2>2, <3>1, <3>3
  <2> QED
    BY <2>1, <2>2
<1>2. QED
  BY <1>1, SetInduction

IsSum(h, g, S) ==
  h = [s \in SUBSET S |-> IF s = {} THEN 0 ELSE g[Pick(s)] + h[s \ {Pick(s)}]]

LEMMA SumUnfolded ==
  ASSUME NEW g, NEW S
  PROVE  SumFunctionOnSet(g, S) = (CHOOSE h : IsSum(h, g, S))[S]
BY DEF SumFunctionOnSet, FoldFunctionOnSet, MapThenFoldSet, IsSum, Pick

LEMMA SumAgrees ==
  ASSUME NEW g, NEW S, NEW T, NEW h, NEW k, IsSum(h, g, S), IsSum(k, g, T),
         NEW s, s \subseteq S, s \subseteq T, IsFiniteSet(s)
  PROVE  h[s] = k[s]
<1> DEFINE Good == {u \in SUBSET s : h[u] = k[u]}
<1>1. {} \in Good
  BY DEF IsSum
<1>2. ASSUME NEW u, u \subseteq s, u # {}, u \ {Pick(u)} \in Good
      PROVE  u \in Good
  <2>1. h[u] = g[Pick(u)] + h[u \ {Pick(u)}]
    BY <1>2 DEF IsSum
  <2>2. k[u] = g[Pick(u)] + k[u \ {Pick(u)}]
    BY <1>2 DEF IsSum
  <2> QED
    BY <1>2, <2>1, <2>2
<1>3. s \in Good
  <2> HIDE DEF Good
  <2> QED
    BY <1>1, <1>2, PickInduction
<1>4. QED
  BY <1>3

LEMMA SumExists ==
  ASSUME NEW g, NEW S, IsFiniteSet(S)
  PROVE  \E h : IsSum(h, g, S)
<1> DEFINE Good == {u \in SUBSET S : \E h : IsSum(h, g, u)}
           H(u) == CHOOSE h : IsSum(h, g, u)
<1>1. ASSUME NEW u, u \subseteq S, IsFiniteSet(u),
             \A v : v \subseteq u /\ v # u => v \in Good
      PROVE  u \in Good
  <2>1. ASSUME NEW v, v \subseteq u, v # u
        PROVE  IsSum(H(v), g, v) /\ IsFiniteSet(v)
    <3>1. \E h : IsSum(h, g, v)
      BY <1>1, <2>1
    <3>2. IsFiniteSet(v)
      BY <1>1, <2>1, FS_Subset
    <3> QED
      BY <3>1, <3>2
  <2> HIDE DEF H
  <2> DEFINE k == [s \in SUBSET u |-> IF s = {} THEN 0
                    ELSE g[Pick(s)] + H(s \ {Pick(s)})[s \ {Pick(s)}]]
  <2>2. ASSUME NEW s \in SUBSET u, s # {}, NEW t, t = s \ {Pick(s)},
               NEW w, w = t \ {Pick(t)}
        PROVE  H(t)[t] = k[t]
    <3>1. t \subseteq u /\ t # u
      BY <2>2, PickIn
    <3>2. IsSum(H(t), g, t)
      BY <2>1, <3>1
    <3>3. w \subseteq t /\ w # u
      BY <2>2, <3>1
    <3>4. IsSum(H(w), g, w) /\ IsFiniteSet(w)
      BY <2>1, <3>1, <3>3
    <3>5. H(t)[w] = H(w)[w]
      BY <3>2, <3>3, <3>4, SumAgrees
    <3>6. H(t)[t] = IF t = {} THEN 0 ELSE g[Pick(t)] + H(t)[w]
      BY <2>2, <3>2 DEF IsSum
    <3>7. k[t] = IF t = {} THEN 0 ELSE g[Pick(t)] + H(w)[w]
      BY <2>2, <3>1
    <3> QED
      BY <3>5, <3>6, <3>7
  <2>3. IsSum(k, g, u)
    BY <2>2 DEF IsSum
  <2> QED
    BY <1>1, <2>3
<1>2. S \in Good
  <2> HIDE DEF Good
  <2> QED
    BY <1>1, SetInduction
<1>3. QED
  BY <1>2

LEMMA SumIs ==
  ASSUME NEW g, NEW S, IsFiniteSet(S), NEW h, IsSum(h, g, S),
         NEW s \in SUBSET S
  PROVE  SumFunctionOnSet(g, s) = h[s]
<1> DEFINE c == CHOOSE k : IsSum(k, g, s)
<1>1. IsFiniteSet(s)
  BY FS_Subset
<1>2. IsSum(c, g, s)
  BY <1>1, SumExists
<1>3. SumFunctionOnSet(g, s) = c[s]
  BY SumUnfolded
<1> HIDE DEF c
<1>4. QED
  BY <1>1, <1>2, <1>3, SumAgrees

LEMMA SumEmpty == ASSUME NEW g PROVE SumFunctionOnSet(g, {}) = 0
<1>1. PICK h : IsSum(h, g, {})
  BY SumExists, FS_EmptySet
<1>2. SumFunctionOnSet(g, {}) = h[{}]
  BY <1>1, SumIs, FS_EmptySet
<1>3. QED
  BY <1>1, <1>2 DEF IsSum

LEMMA SumStep ==
  ASSUME NEW g, NEW S, IsFiniteSet(S), S # {}
  PROVE  SumFunctionOnSet(g, S) = g[Pick(S)] + SumFunctionOnSet(g, S \ {Pick(S)})
<1>1. PICK h : IsSum(h, g, S)
  BY SumExists
<1>2. SumFunctionOnSet(g, S) = h[S]
  BY <1>1, SumIs
<1>3. SumFunctionOnSet(g, S \ {Pick(S)}) = h[S \ {Pick(S)}]
  BY <1>1, SumIs
<1>4. h[S] = g[Pick(S)] + h[S \ {Pick(S)}]
  BY <1>1 DEF IsSum
<1>5. QED
  BY <1>2, <1>3, <1>4

LEMMA SumType ==
  ASSUME NEW S, IsFiniteSet(S), NEW g, \A x \in S : g[x] \in Int
  PROVE  SumFunctionOnSet(g, S) \in Int
<1> DEFINE Good == {u \in SUBSET S : SumFunctionOnSet(g, u) \in Int}
<1>1. {} \in Good
  BY SumEmpty
<1>2. ASSUME NEW u, u \subseteq S, IsFiniteSet(u), u # {}, Pick(u) \in u,
             u \ {Pick(u)} \in Good
      PROVE  u \in Good
  BY <1>2, SumStep
<1>3. S \in Good
  <2> HIDE DEF Good
  <2> QED
    BY <1>1, <1>2, PickInduction
<1>4. QED
  BY <1>3

LEMMA SumTake ==
  ASSUME NEW S, IsFiniteSet(S), NEW g, \A x \in S : g[x] \in Int, NEW y \in S
  PROVE  SumFunctionOnSet(g, S) = g[y] + SumFunctionOnSet(g, S \ {y})
<1> DEFINE Good == {u \in SUBSET S : \A z \in u :
              SumFunctionOnSet(g, u) = g[z] + SumFunctionOnSet(g, u \ {z})}
<1>1. ASSUME NEW u, u \subseteq S, IsFiniteSet(u),
             \A v : v \subseteq u /\ v # u => v \in Good
      PROVE  u \in Good
  <2> SUFFICES ASSUME NEW z \in u
               PROVE  SumFunctionOnSet(g, u) = g[z] + SumFunctionOnSet(g, u \ {z})
    BY <1>1
  <2>1. PICK p \in u : SumFunctionOnSet(g, u) = g[p] + SumFunctionOnSet(g, u \ {p})
    BY <1>1, SumStep, PickIn
  <2>2. CASE z = p
    BY <2>1, <2>2
  <2>3. CASE z # p
    <3>1. SumFunctionOnSet(g, u \ {p}) = g[z] + SumFunctionOnSet(g, (u \ {p}) \ {z})
      <4>1. u \ {p} \in Good
        <5>1. u \ {p} \subseteq u /\ u \ {p} # u
          BY <2>1
        <5> HIDE DEF Good
        <5> QED
          BY <1>1, <5>1
      <4> QED
        BY <4>1, <2>3, <2>1
    <3>2. SumFunctionOnSet(g, u \ {z}) = g[p] + SumFunctionOnSet(g, (u \ {z}) \ {p})
      <4>1. u \ {z} \in Good
        <5>1. u \ {z} \subseteq u /\ u \ {z} # u
          OBVIOUS
        <5> HIDE DEF Good
        <5> QED
          BY <1>1, <5>1
      <4> QED
        BY <4>1, <2>3
    <3>3. SumFunctionOnSet(g, (u \ {z}) \ {p}) = SumFunctionOnSet(g, (u \ {p}) \ {z})
      <4>1. (u \ {z}) \ {p} = (u \ {p}) \ {z}
        OBVIOUS
      <4> QED
        BY <4>1
    <3>4. SumFunctionOnSet(g, (u \ {p}) \ {z}) \in Int
      <4>1. PICK v \in SUBSET u : v = (u \ {p}) \ {z}
        OBVIOUS
      <4>2. IsFiniteSet(v)
        BY <1>1, FS_Subset
      <4>3. \A x \in v : g[x] \in Int
        BY <1>1
      <4>4. SumFunctionOnSet(g, v) \in Int
        BY <4>2, <4>3, SumType
      <4> QED
        BY <4>1, <4>4
    <3>5. g[p] \in Int /\ g[z] \in Int
      BY <1>1
    <3> QED
      BY <2>1, <3>1, <3>2, <3>3, <3>4, <3>5
  <2> QED
    BY <2>2, <2>3
<1>2. S \in Good
  <2> HIDE DEF Good
  <2> QED
    BY <1>1, SetInduction
<1>3. QED
  BY <1>2

LEMMA SumSame ==
  ASSUME NEW S, IsFiniteSet(S), NEW g, NEW h, \A x \in S : g[x] = h[x]
  PROVE  SumFunctionOnSet(g, S) = SumFunctionOnSet(h, S)
<1> DEFINE Good == {u \in SUBSET S : SumFunctionOnSet(g, u) = SumFunctionOnSet(h, u)}
<1>1. {} \in Good
  BY SumEmpty
<1>2. ASSUME NEW u, u \subseteq S, IsFiniteSet(u), u # {}, Pick(u) \in u,
             u \ {Pick(u)} \in Good
      PROVE  u \in Good
  BY <1>2, SumStep
<1>3. S \in Good
  <2> HIDE DEF Good
  <2> QED
    BY <1>1, <1>2, PickInduction
<1>4. QED
  BY <1>3

LEMMA SumSplit ==
  ASSUME NEW S, IsFiniteSet(S), NEW g, \A x \in S : g[x] \in Int,
         NEW A, A \subseteq S
  PROVE  SumFunctionOnSet(g, S) = SumFunctionOnSet(g, A) + SumFunctionOnSet(g, S \ A)
<1> DEFINE Good == {u \in SUBSET A : SumFunctionOnSet(g, S)
                     = SumFunctionOnSet(g, u) + SumFunctionOnSet(g, S \ u)}
<1>1. {} \in Good
  <2>1. S \ {} = S
    OBVIOUS
  <2> QED
    BY <2>1, SumEmpty, SumType
<1>2. ASSUME NEW u, u \subseteq A, IsFiniteSet(u), u # {}, Pick(u) \in u,
             u \ {Pick(u)} \in Good
      PROVE  u \in Good
  <2>1. PICK p \in u : p = Pick(u)
    BY <1>2
  <2>2. PICK v \in SUBSET u : v = u \ {p}
    OBVIOUS
  <2>3. PICK B \in SUBSET S : B = S \ v
    OBVIOUS
  <2>4. IsFiniteSet(v) /\ v \subseteq S /\ IsFiniteSet(B) /\ IsFiniteSet(S \ u)
    BY <1>2, FS_Subset
  <2>5. p \in B /\ B \ {p} = S \ u /\ p \in S
    BY <1>2, <2>2, <2>3
  <2>6. SumFunctionOnSet(g, u) = g[p] + SumFunctionOnSet(g, v)
    BY <1>2, <2>1, <2>2, SumStep
  <2>7. SumFunctionOnSet(g, B) = g[p] + SumFunctionOnSet(g, S \ u)
    <3>1. SumFunctionOnSet(g, B) = g[p] + SumFunctionOnSet(g, B \ {p})
      BY <2>4, <2>5, SumTake
    <3> QED
      BY <3>1, <2>5
  <2>8. SumFunctionOnSet(g, S) = SumFunctionOnSet(g, v) + SumFunctionOnSet(g, B)
    BY <1>2, <2>1, <2>2, <2>3
  <2>9. SumFunctionOnSet(g, v) \in Int /\ SumFunctionOnSet(g, S \ u) \in Int
    BY <2>4, SumType
  <2> QED
    BY <1>2, <2>5, <2>6, <2>7, <2>8, <2>9
<1>3. A \in Good
  <2>1. IsFiniteSet(A)
    BY FS_Subset
  <2> HIDE DEF Good
  <2> QED
    BY <1>1, <1>2, <2>1, PickInduction
<1>4. QED
  BY <1>3

LEMMA SumIsNat ==
  ASSUME NEW S, IsFiniteSet(S), NEW g, \A x \in S : g[x] \in Nat
  PROVE  SumFunctionOnSet(g, S) \in Nat
<1> DEFINE Good == {u \in SUBSET S : SumFunctionOnSet(g, u) \in Nat}
<1>1. {} \in Good
  BY SumEmpty
<1>2. ASSUME NEW u, u \subseteq S, IsFiniteSet(u), u # {}, Pick(u) \in u,
             u \ {Pick(u)} \in Good
      PROVE  u \in Good
  BY <1>2, SumStep
<1>3. S \in Good
  <2> HIDE DEF Good
  <2> QED
    BY <1>1, <1>2, PickInduction
<1>4. QED
  BY <1>3

\* A sum of more parts, or of larger ones, is no smaller.
LEMMA SumGrows ==
  ASSUME NEW S, IsFiniteSet(S), NEW g, NEW h, NEW T \in SUBSET S,
         \A x \in S : h[x] \in Nat,
         \A x \in T : g[x] \in Int /\ g[x] <= h[x]
  PROVE  SumFunctionOnSet(g, T) <= SumFunctionOnSet(h, S)
<1> DEFINE Good == {u \in SUBSET T : SumFunctionOnSet(g, u) <= SumFunctionOnSet(h, u)}
<1>0. IsFiniteSet(T)
  BY FS_Subset
<1>1. {} \in Good
  BY SumEmpty
<1>2. ASSUME NEW u, u \subseteq T, IsFiniteSet(u), u # {}, Pick(u) \in u,
             u \ {Pick(u)} \in Good
      PROVE  u \in Good
  <2>1. PICK p \in T : p = Pick(u)
    BY <1>2
  <2>2. PICK v \in SUBSET u : v = u \ {p}
    OBVIOUS
  <2>6. IsFiniteSet(v) /\ v \subseteq T
    BY <1>2, FS_Subset
  <2>3. /\ SumFunctionOnSet(g, u) = g[p] + SumFunctionOnSet(g, v)
        /\ SumFunctionOnSet(h, u) = h[p] + SumFunctionOnSet(h, v)
    BY <1>2, <2>1, <2>2, SumStep
  <2>4. SumFunctionOnSet(g, v) \in Int /\ SumFunctionOnSet(h, v) \in Int
    BY <2>6, SumType
  <2>5. SumFunctionOnSet(g, v) <= SumFunctionOnSet(h, v)
    BY <1>2, <2>1, <2>2
  <2> QED
    BY <1>2, <2>3, <2>4, <2>5
<1>3. T \in Good
  <2> HIDE DEF Good
  <2> QED
    BY <1>0, <1>1, <1>2, PickInduction
<1>4. SumFunctionOnSet(h, S) = SumFunctionOnSet(h, T) + SumFunctionOnSet(h, S \ T)
  BY SumSplit
<1>5. SumFunctionOnSet(h, S \ T) \in Nat
  <2>1. IsFiniteSet(S \ T)
    BY FS_Subset
  <2> QED
    BY <2>1, SumIsNat
<1>6. SumFunctionOnSet(h, T) \in Int /\ SumFunctionOnSet(g, T) \in Int
  BY <1>0, SumType
<1>7. QED
  BY <1>3, <1>4, <1>5, <1>6

LEMMA SumOfOnes ==
  ASSUME NEW S, IsFiniteSet(S), NEW g, \A x \in S : g[x] = 1
  PROVE  SumFunctionOnSet(g, S) = Cardinality(S)
<1> DEFINE Good == {u \in SUBSET S : SumFunctionOnSet(g, u) = Cardinality(u)}
<1>1. {} \in Good
  BY SumEmpty, FS_EmptySet
<1>2. ASSUME NEW u, u \subseteq S, IsFiniteSet(u), u # {}, Pick(u) \in u,
             u \ {Pick(u)} \in Good
      PROVE  u \in Good
  <2>1. Cardinality(u \ {Pick(u)}) = Cardinality(u) - 1 /\ Cardinality(u) \in Nat
    BY <1>2, FS_RemoveElement, FS_CardinalityType
  <2>2. SumFunctionOnSet(g, u) = 1 + SumFunctionOnSet(g, u \ {Pick(u)})
    BY <1>2, SumStep
  <2> QED
    BY <1>2, <2>1, <2>2
<1>3. S \in Good
  <2> HIDE DEF Good
  <2> QED
    BY <1>1, <1>2, PickInduction
<1>4. QED
  BY <1>3

\* A table: S in rows by key, one sum per row; the rows add up to the whole.
Row(S, key, c) == {x \in S : key[x] = c}
IsTable(S, g, K, key, rows) ==
  /\ \A x \in S : g[x] \in Int /\ key[x] \in K
  /\ \A c \in K : rows[c] = SumFunctionOnSet(g, Row(S, key, c))

LEMMA SumByRows ==
  ASSUME NEW S, IsFiniteSet(S), NEW K, IsFiniteSet(K),
         NEW g, NEW key, NEW rows, IsTable(S, g, K, key, rows)
  PROVE  SumFunctionOnSet(rows, K) = SumFunctionOnSet(g, S)
<1>0. /\ \A x \in S : g[x] \in Int
      /\ \A x \in S : key[x] \in K
      /\ \A c \in K : rows[c] = SumFunctionOnSet(g, Row(S, key, c))
  BY DEF IsTable
<1> DEFINE In(u) == {x \in S : key[x] \in u}
           Good == {u \in SUBSET K : SumFunctionOnSet(rows, u) = SumFunctionOnSet(g, In(u))}
<1>1. {} \in Good
  <2>1. In({}) = {}
    OBVIOUS
  <2> QED
    BY <2>1, SumEmpty
<1>2. ASSUME NEW u, u \subseteq K, IsFiniteSet(u), u # {}, Pick(u) \in u,
             u \ {Pick(u)} \in Good
      PROVE  u \in Good
  <2>1. PICK p \in u : p = Pick(u)
    BY <1>2
  <2>2. PICK v \in SUBSET u : v = u \ {p}
    OBVIOUS
  <2>3. /\ In(u) \ Row(S, key, p) = In(v) /\ Row(S, key, p) \subseteq In(u)
        /\ In(u) \subseteq S
    BY <2>1, <2>2 DEF Row
  <2>4. IsFiniteSet(In(u)) /\ \A x \in In(u) : g[x] \in Int
    BY <1>0, FS_Subset
  <2>5. rows[p] = SumFunctionOnSet(g, Row(S, key, p))
    BY <1>0, <1>2, <2>1
  <2>6. SumFunctionOnSet(rows, v) = SumFunctionOnSet(g, In(v))
    BY <1>2, <2>1, <2>2
  <2>7. SumFunctionOnSet(rows, u) = rows[p] + SumFunctionOnSet(rows, v)
    BY <1>2, <2>1, <2>2, SumStep
  <2> HIDE DEF In
  <2>8. SumFunctionOnSet(g, In(u)) = SumFunctionOnSet(g, Row(S, key, p))
                                      + SumFunctionOnSet(g, In(u) \ Row(S, key, p))
    BY <2>3, <2>4, SumSplit
  <2> QED
    BY <1>2, <2>3, <2>5, <2>6, <2>7, <2>8
<1>3. K \in Good
  <2> HIDE DEF Good
  <2> QED
    BY <1>1, <1>2, PickInduction
<1>4. In(K) = S
  BY <1>0
<1>5. QED
  BY <1>3, <1>4

RatioSum(g, S) == FoldFunctionOnSet(Plus, Zero, g, S)
IsRatioSum(h, g, S) ==
  h = [s \in SUBSET S |-> IF s = {} THEN Zero ELSE Plus(g[Pick(s)], h[s \ {Pick(s)}])]

LEMMA RatioSumUnfolded ==
  ASSUME NEW g, NEW S
  PROVE  RatioSum(g, S) = (CHOOSE h : IsRatioSum(h, g, S))[S]
BY DEF RatioSum, FoldFunctionOnSet, MapThenFoldSet, IsRatioSum, Pick

LEMMA RatioSumAgrees ==
  ASSUME NEW g, NEW S, NEW T, NEW h, NEW k, IsRatioSum(h, g, S), IsRatioSum(k, g, T),
         NEW s, s \subseteq S, s \subseteq T, IsFiniteSet(s)
  PROVE  h[s] = k[s]
<1> DEFINE Good == {u \in SUBSET s : h[u] = k[u]}
<1>1. {} \in Good
  BY DEF IsRatioSum
<1>2. ASSUME NEW u, u \subseteq s, u # {}, u \ {Pick(u)} \in Good
      PROVE  u \in Good
  <2>1. h[u] = Plus(g[Pick(u)], h[u \ {Pick(u)}])
    BY <1>2 DEF IsRatioSum
  <2>2. k[u] = Plus(g[Pick(u)], k[u \ {Pick(u)}])
    BY <1>2 DEF IsRatioSum
  <2> QED
    BY <1>2, <2>1, <2>2
<1>3. s \in Good
  <2> HIDE DEF Good
  <2> QED
    BY <1>1, <1>2, PickInduction
<1>4. QED
  BY <1>3

LEMMA RatioSumExists ==
  ASSUME NEW g, NEW S, IsFiniteSet(S)
  PROVE  \E h : IsRatioSum(h, g, S)
<1> DEFINE Good == {u \in SUBSET S : \E h : IsRatioSum(h, g, u)}
           H(u) == CHOOSE h : IsRatioSum(h, g, u)
<1>1. ASSUME NEW u, u \subseteq S, IsFiniteSet(u),
             \A v : v \subseteq u /\ v # u => v \in Good
      PROVE  u \in Good
  <2>1. ASSUME NEW v, v \subseteq u, v # u
        PROVE  IsRatioSum(H(v), g, v) /\ IsFiniteSet(v)
    <3>1. \E h : IsRatioSum(h, g, v)
      BY <1>1, <2>1
    <3>2. IsFiniteSet(v)
      BY <1>1, <2>1, FS_Subset
    <3> QED
      BY <3>1, <3>2
  <2> HIDE DEF H
  <2> DEFINE k == [s \in SUBSET u |-> IF s = {} THEN Zero
                    ELSE Plus(g[Pick(s)], H(s \ {Pick(s)})[s \ {Pick(s)}])]
  <2>2. ASSUME NEW s \in SUBSET u, s # {}, NEW t, t = s \ {Pick(s)},
               NEW w, w = t \ {Pick(t)}
        PROVE  H(t)[t] = k[t]
    <3>1. t \subseteq u /\ t # u
      BY <2>2, PickIn
    <3>2. IsRatioSum(H(t), g, t)
      BY <2>1, <3>1
    <3>3. w \subseteq t /\ w # u
      BY <2>2, <3>1
    <3>4. IsRatioSum(H(w), g, w) /\ IsFiniteSet(w)
      BY <2>1, <3>1, <3>3
    <3>5. H(t)[w] = H(w)[w]
      BY <3>2, <3>3, <3>4, RatioSumAgrees
    <3>6. H(t)[t] = IF t = {} THEN Zero ELSE Plus(g[Pick(t)], H(t)[w])
      BY <2>2, <3>2 DEF IsRatioSum
    <3>7. k[t] = IF t = {} THEN Zero ELSE Plus(g[Pick(t)], H(w)[w])
      BY <2>2, <3>1
    <3> QED
      BY <3>5, <3>6, <3>7
  <2>3. IsRatioSum(k, g, u)
    BY <2>2 DEF IsRatioSum
  <2> QED
    BY <1>1, <2>3
<1>2. S \in Good
  <2> HIDE DEF Good
  <2> QED
    BY <1>1, SetInduction
<1>3. QED
  BY <1>2

LEMMA RatioSumIs ==
  ASSUME NEW g, NEW S, IsFiniteSet(S), NEW h, IsRatioSum(h, g, S),
         NEW s \in SUBSET S
  PROVE  RatioSum(g, s) = h[s]
<1> DEFINE c == CHOOSE k : IsRatioSum(k, g, s)
<1>1. IsFiniteSet(s)
  BY FS_Subset
<1>2. IsRatioSum(c, g, s)
  BY <1>1, RatioSumExists
<1>3. RatioSum(g, s) = c[s]
  BY RatioSumUnfolded
<1> HIDE DEF c
<1>4. QED
  BY <1>1, <1>2, <1>3, RatioSumAgrees

LEMMA RatioSumEmpty == ASSUME NEW g PROVE RatioSum(g, {}) = Zero
<1>1. PICK h : IsRatioSum(h, g, {})
  BY RatioSumExists, FS_EmptySet
<1>2. RatioSum(g, {}) = h[{}]
  BY <1>1, RatioSumIs, FS_EmptySet
<1>3. QED
  BY <1>1, <1>2 DEF IsRatioSum

LEMMA RatioSumStep ==
  ASSUME NEW g, NEW S, IsFiniteSet(S), S # {}
  PROVE  RatioSum(g, S) = Plus(g[Pick(S)], RatioSum(g, S \ {Pick(S)}))
<1>1. PICK h : IsRatioSum(h, g, S)
  BY RatioSumExists
<1>2. RatioSum(g, S) = h[S]
  BY <1>1, RatioSumIs
<1>3. RatioSum(g, S \ {Pick(S)}) = h[S \ {Pick(S)}]
  BY <1>1, RatioSumIs
<1>4. h[S] = Plus(g[Pick(S)], h[S \ {Pick(S)}])
  BY <1>1 DEF IsRatioSum
<1>5. QED
  BY <1>2, <1>3, <1>4


\* Ratios that are k/D for a whole number k add up as those numbers do.
Over(D, k, q) == q.n \in Int /\ q.d \in Nat \ {0} /\ q.n * D = k * q.d

LEMMA PlusOver ==
  ASSUME NEW D \in Nat \ {0}, NEW a, NEW b, NEW k \in Int, NEW l \in Int,
         Over(D, k, a), Over(D, l, b)
  PROVE  Over(D, k + l, Plus(a, b))
<1>0. /\ a.n \in Int /\ a.d \in Nat \ {0} /\ a.n * D = k * a.d
      /\ b.n \in Int /\ b.d \in Nat \ {0} /\ b.n * D = l * b.d
  BY DEF Over
<1>1. CASE a.d = b.d
  <2>1. Plus(a, b).n = a.n + b.n /\ Plus(a, b).d = a.d
    BY <1>1 DEF Plus, Ratio
  <2>2. (a.n + b.n) * D = a.n * D + b.n * D /\ (k + l) * a.d = k * a.d + l * a.d
    BY <1>0
  <2> QED
    BY <1>0, <1>1, <2>1, <2>2 DEF Over
<1>2. CASE a.d # b.d
  <2>1. Plus(a, b).n = a.n * b.d + b.n * a.d /\ Plus(a, b).d = a.d * b.d
    BY <1>2 DEF Plus, Ratio
  <2>2. (a.n * b.d + b.n * a.d) * D = (a.n * D) * b.d + (b.n * D) * a.d
    BY <1>0
  <2>3. (k + l) * (a.d * b.d) = (k * a.d) * b.d + (l * b.d) * a.d
    BY <1>0
  <2>4. a.d * b.d \in Nat \ {0} /\ a.n * b.d + b.n * a.d \in Int
    BY <1>0
  <2> QED
    BY <1>0, <2>1, <2>2, <2>3, <2>4 DEF Over
<1>3. QED
  BY <1>1, <1>2

LEMMA RatioSumOver ==
  ASSUME NEW S, IsFiniteSet(S), NEW D \in Nat \ {0}, NEW g, NEW k,
         \A x \in S : k[x] \in Int /\ Over(D, k[x], g[x])
  PROVE  Over(D, SumFunctionOnSet(k, S), RatioSum(g, S))
<1> DEFINE Good == {u \in SUBSET S : Over(D, SumFunctionOnSet(k, u), RatioSum(g, u))}
<1>1. {} \in Good
  <2>1. RatioSum(g, {}).n = 0 /\ RatioSum(g, {}).d = 1
    BY RatioSumEmpty DEF Zero, Ratio
  <2> QED
    BY <2>1, SumEmpty DEF Over
<1>2. ASSUME NEW u, u \subseteq S, IsFiniteSet(u), u # {}, Pick(u) \in u,
             u \ {Pick(u)} \in Good
      PROVE  u \in Good
  <2>1. PICK p \in S : p = Pick(u)
    BY <1>2
  <2>2. PICK v \in SUBSET u : v = u \ {p}
    OBVIOUS
  <2>3. IsFiniteSet(v) /\ \A x \in v : k[x] \in Int
    BY <1>2, FS_Subset
  <2>4. SumFunctionOnSet(k, v) \in Int
    BY <2>3, SumType
  <2>5. Over(D, SumFunctionOnSet(k, v), RatioSum(g, v))
    BY <1>2, <2>1, <2>2
  <2>6. RatioSum(g, u) = Plus(g[p], RatioSum(g, v))
    BY <1>2, <2>1, <2>2, RatioSumStep
  <2>7. SumFunctionOnSet(k, u) = k[p] + SumFunctionOnSet(k, v)
    BY <1>2, <2>1, <2>2, SumStep
  <2>8. Over(D, k[p] + SumFunctionOnSet(k, v), Plus(g[p], RatioSum(g, v)))
    BY <2>1, <2>4, <2>5, PlusOver
  <2> QED
    BY <1>2, <2>6, <2>7, <2>8
<1>3. S \in Good
  <2> HIDE DEF Good
  <2> QED
    BY <1>1, <1>2, PickInduction
<1>4. QED
  BY <1>3

\* Two ratios over one D are the same if their numbers are.
LEMMA SameOver ==
  ASSUME NEW D \in Nat \ {0}, NEW k \in Int, NEW a, NEW b,
         Over(D, k, a), Over(D, k, b)
  PROVE  Same(a, b)
<1>1. /\ a.n \in Int /\ a.d \in Nat \ {0} /\ a.n * D = k * a.d
      /\ b.n \in Int /\ b.d \in Nat \ {0} /\ b.n * D = k * b.d
  BY DEF Over
<1>2. (a.n * b.d) * D = (b.n * a.d) * D
  <2>1. (a.n * b.d) * D = (a.n * D) * b.d /\ (b.n * a.d) * D = (b.n * D) * a.d
    BY <1>1
  <2>2. (k * a.d) * b.d = (k * b.d) * a.d
    BY <1>1
  <2> QED
    BY <1>1, <2>1, <2>2
<1>3. \A x, y \in Int : x * D = y * D => x = y
  OBVIOUS
<1>4. a.n * b.d \in Int /\ b.n * a.d \in Int
  BY <1>1
<1>5. QED
  BY <1>2, <1>3, <1>4 DEF Same

LEMMA SameDifferences ==
  ASSUME NEW D \in Nat \ {0}, NEW k \in Int, NEW l \in Int,
         NEW a, NEW b, NEW c, NEW d,
         Over(D, k, a), Over(D, k, b), Over(D, l, c), Over(D, l, d)
  PROVE  Same(Minus(a, c), Minus(b, d))
<1>1. ASSUME NEW x, NEW y, Over(D, k, x), Over(D, l, y)
      PROVE  Over(D, k + (-l), Minus(x, y))
  <2>1. PICK z : z = Ratio(-y.n, y.d)
    OBVIOUS
  <2>2. /\ y.n \in Int /\ y.d \in Nat \ {0} /\ y.n * D = l * y.d
        /\ z.n = -y.n /\ z.d = y.d
    BY <1>1, <2>1 DEF Over, Ratio
  <2>3. (-y.n) * D = -(y.n * D) /\ (-l) * y.d = -(l * y.d)
    BY <2>2
  <2>4. Over(D, -l, z)
    BY <2>2, <2>3 DEF Over
  <2>5. -l \in Int
    OBVIOUS
  <2>6. Over(D, k + (-l), Plus(x, z))
    BY <1>1, <2>4, <2>5, PlusOver
  <2> QED
    BY <2>1, <2>6 DEF Minus
<1>2. Over(D, k + (-l), Minus(a, c)) /\ Over(D, k + (-l), Minus(b, d))
  BY <1>1
<1>3. k + (-l) \in Int
  OBVIOUS
<1>4. QED
  BY <1>2, <1>3, SameOver

\* Whatever numbers a finite set has as divisors, some number is a multiple of
\* all of them.
LEMMA CommonMultiple ==
  ASSUME NEW S, IsFiniteSet(S), NEW d, \A x \in S : d[x] \in Nat \ {0}
  PROVE  \E D \in Nat \ {0} : \A x \in S : \E k \in Nat : D = k * d[x]
<1> DEFINE Good == {u \in SUBSET S :
              \E D \in Nat \ {0} : \A x \in u : \E k \in Nat : D = k * d[x]}
<1>1. {} \in Good
  OBVIOUS
<1>2. ASSUME NEW u, u \subseteq S, IsFiniteSet(u), u # {}, Pick(u) \in u,
             u \ {Pick(u)} \in Good
      PROVE  u \in Good
  <2>1. PICK p \in S : p = Pick(u)
    BY <1>2
  <2>2. PICK D \in Nat \ {0} : \A x \in u \ {p} : \E k \in Nat : D = k * d[x]
    BY <1>2, <2>1
  <2>3. PICK E \in Nat \ {0} : E = D * d[p]
    OBVIOUS
  <2>4. ASSUME NEW x \in u
        PROVE  \E k \in Nat : E = k * d[x]
    <3>1. CASE x = p
      BY <2>3, <3>1
    <3>2. CASE x # p
      <4>1. PICK k \in Nat : D = k * d[x]
        BY <2>2, <3>2
      <4>2. d[x] \in Nat /\ d[p] \in Nat
        BY <1>2
      <4>3. E = (k * d[p]) * d[x] /\ k * d[p] \in Nat
        BY <2>3, <4>1, <4>2
      <4> QED
        BY <4>3
    <3> QED
      BY <3>1, <3>2
  <2> QED
    BY <1>2, <2>4
<1>3. S \in Good
  <2> HIDE DEF Good
  <2> QED
    BY <1>1, <1>2, PickInduction
<1>4. QED
  BY <1>3
LEMMA FiniteImage ==
  ASSUME NEW S, IsFiniteSet(S), NEW g
  PROVE  IsFiniteSet({g[x] : x \in S})
<1> DEFINE T == {g[x] : x \in S}
           f == [x \in S |-> g[x]]
<1>1. f \in Surjection(S, T)
  BY DEF Surjection
<1>2. QED
  BY <1>1, FS_Surjection

LEMMA SumOfZeros ==
  ASSUME NEW S, IsFiniteSet(S), NEW g, \A x \in S : g[x] = 0
  PROVE  SumFunctionOnSet(g, S) = 0
<1> DEFINE Good == {u \in SUBSET S : SumFunctionOnSet(g, u) = 0}
<1>1. {} \in Good
  BY SumEmpty
<1>2. ASSUME NEW u, u \subseteq S, IsFiniteSet(u), u # {}, Pick(u) \in u,
             u \ {Pick(u)} \in Good
      PROVE  u \in Good
  BY <1>2, SumStep
<1>3. S \in Good
  <2> HIDE DEF Good
  <2> QED
    BY <1>1, <1>2, PickInduction
<1>4. QED
  BY <1>3

\* The sum over a renamed set.
Renamed(f, S) == {f[x] : x \in S}

LEMMA SumRenamed ==
  ASSUME NEW S, IsFiniteSet(S), NEW f, \A x, y \in S : f[x] = f[y] => x = y,
         NEW g, NEW h, \A x \in S : h[x] = g[f[x]] /\ h[x] \in Int
  PROVE  SumFunctionOnSet(h, S) = SumFunctionOnSet(g, Renamed(f, S))
<1> DEFINE Good == {u \in SUBSET S :
              SumFunctionOnSet(h, u) = SumFunctionOnSet(g, Renamed(f, u))}
<1>1. {} \in Good
  <2>1. Renamed(f, {}) = {}
    BY DEF Renamed
  <2> QED
    BY <2>1, SumEmpty
<1>2. ASSUME NEW u, u \subseteq S, IsFiniteSet(u), u # {}, Pick(u) \in u,
             u \ {Pick(u)} \in Good
      PROVE  u \in Good
  <2>1. PICK p \in u : p = Pick(u)
    BY <1>2
  <2>2. PICK v \in SUBSET u : v = u \ {p}
    OBVIOUS
  <2>3. PICK r : r = Renamed(f, u)
    OBVIOUS
  <2>4. /\ f[p] \in r /\ r \ {f[p]} = Renamed(f, v)
        /\ \A y \in r : g[y] \in Int
    BY <1>2, <2>1, <2>2, <2>3 DEF Renamed
  <2>5. IsFiniteSet(r)
    BY <1>2, <2>3, FiniteImage DEF Renamed
  <2>6. SumFunctionOnSet(g, r) = g[f[p]] + SumFunctionOnSet(g, r \ {f[p]})
    BY <2>4, <2>5, SumTake
  <2>7. SumFunctionOnSet(h, u) = h[p] + SumFunctionOnSet(h, v)
    BY <1>2, <2>1, <2>2, SumStep
  <2>8. SumFunctionOnSet(h, v) = SumFunctionOnSet(g, Renamed(f, v))
    BY <1>2, <2>1, <2>2
  <2>9. h[p] = g[f[p]]
    BY <1>2, <2>1
  <2> QED
    BY <1>2, <2>3, <2>4, <2>6, <2>7, <2>8, <2>9
<1>3. S \in Good
  <2> HIDE DEF Good
  <2> QED
    BY <1>1, <1>2, PickInduction
<1>4. QED
  BY <1>3

\* A sum over the lines of a table of parts, and the sum of the sums of the parts.
Part(L, I, b) == {c \in I : <<b, c>> \in L}
IsPart(L, I, b, q, r) ==
  \E p : (\A c \in Part(L, I, b) : p[c] = q[<<b, c>>]) /\ r = RatioSum(p, Part(L, I, b))

LEMMA PartsAddUp ==
  ASSUME NEW I, IsFiniteSet(I), NEW L \in SUBSET (I \X I), NEW D \in Nat \ {0},
         NEW q, \A l \in L : \E k \in Nat : Over(D, k, q[l]),
         NEW H \in SUBSET I, \A l \in L : l[1] \in H \/ q[l].n = 0,
         NEW r, \A b \in H : IsPart(L, I, b, q, r[b])
  PROVE  \E k \in Int : Over(D, k, RatioSum(r, H)) /\ Over(D, k, RatioSum(q, L))
<1>1. PICK K : K = [l \in L |-> CHOOSE k \in Nat : Over(D, k, q[l])]
  OBVIOUS
<1>2. \A l \in L : K[l] \in Nat /\ Over(D, K[l], q[l])
  BY <1>1
<1>3. IsFiniteSet(L) /\ IsFiniteSet(H)
  BY FS_Product, FS_Subset
<1>4. PICK key : key = [l \in L |-> l[1]]
  OBVIOUS
<1>5. PICK T : T = [b \in I |-> SumFunctionOnSet(K, Row(L, key, b))]
  OBVIOUS
<1>6. Over(D, SumFunctionOnSet(K, L), RatioSum(q, L))
  <2>1. \A l \in L : K[l] \in Int /\ Over(D, K[l], q[l])
    BY <1>2
  <2>2. IsFiniteSet(L)
    BY <1>3
  <2> QED
    BY <2>1, <2>2, RatioSumOver
<1>7. SumFunctionOnSet(T, I) = SumFunctionOnSet(K, L)
  <2>1. IsTable(L, K, I, key, T)
    BY <1>2, <1>4, <1>5 DEF IsTable
  <2> QED
    BY <1>3, <2>1, SumByRows
<1>8. \A b \in I : T[b] \in Int
  <2> SUFFICES ASSUME NEW b \in I PROVE T[b] \in Int
    OBVIOUS
  <2>1. PICK R \in SUBSET L : R = Row(L, key, b)
    BY DEF Row
  <2>2. IsFiniteSet(R) /\ \A l \in R : K[l] \in Int
    BY <1>2, <1>3, FS_Subset
  <2> QED
    BY <1>5, <2>1, <2>2, SumType
<1>9. ASSUME NEW b \in H
      PROVE  Over(D, T[b], r[b])
  <2>1. PICK P \in SUBSET I : P = Part(L, I, b)
    BY DEF Part
  <2>2. PICK p : (\A c \in P : p[c] = q[<<b, c>>]) /\ r[b] = RatioSum(p, P)
    BY <2>1 DEF IsPart
  <2>3. PICK k : k = [c \in P |-> K[<<b, c>>]]
    OBVIOUS
  <2>4. \A c \in P : <<b, c>> \in L /\ k[c] = K[<<b, c>>]
    BY <2>1, <2>3 DEF Part
  <2>5. ASSUME NEW c \in P
        PROVE  k[c] \in Int /\ Over(D, k[c], p[c])
    <3>1. PICK l \in L : l = <<b, c>>
      BY <2>4
    <3>2. k[c] = K[l] /\ p[c] = q[l]
      BY <2>2, <2>4, <3>1
    <3>3. K[l] \in Int /\ Over(D, K[l], q[l])
      BY <1>2
    <3> QED
      BY <3>2, <3>3
  <2>6. IsFiniteSet(P)
    BY FS_Subset
  <2>7. Over(D, SumFunctionOnSet(k, P), r[b])
    BY <2>2, <2>5, <2>6, RatioSumOver
  <2>8. PICK f : f = [c \in P |-> <<b, c>>]
    OBVIOUS
  <2>9. Renamed(f, P) = Row(L, key, b)
    <3>1. ASSUME NEW c \in P
          PROVE  f[c] \in Row(L, key, b)
      <4>1. PICK l \in L : l = <<b, c>>
        BY <2>4
      <4>2. l[1] = b /\ f[c] = l
        BY <2>8, <4>1
      <4> QED
        BY <1>4, <4>2 DEF Row
    <3>2. ASSUME NEW l \in Row(L, key, b)
          PROVE  \E c \in P : l = f[c]
      <4>1. l \in L /\ l[1] = b
        BY <1>4 DEF Row
      <4>2. PICK x \in I, y \in I : l = <<x, y>>
        BY <4>1
      <4>3. l = <<b, y>>
        BY <4>1, <4>2
      <4>4. y \in P
        BY <2>1, <4>1, <4>3 DEF Part
      <4> QED
        BY <2>8, <4>3, <4>4
    <3> QED
      BY <3>1, <3>2 DEF Renamed
  <2>10. \A x, y \in P : f[x] = f[y] => x = y
    BY <2>8
  <2>11. \A c \in P : k[c] = K[f[c]] /\ k[c] \in Int
    BY <2>4, <2>5, <2>8
  <2>12. SumFunctionOnSet(k, P) = SumFunctionOnSet(K, Renamed(f, P))
    BY <2>6, <2>10, <2>11, SumRenamed
  <2> QED
    BY <1>5, <2>7, <2>9, <2>12
<1>10. Over(D, SumFunctionOnSet(T, H), RatioSum(r, H))
  <2>1. \A b \in H : T[b] \in Int /\ Over(D, T[b], r[b])
    BY <1>8, <1>9
  <2> QED
    BY <1>3, <2>1, RatioSumOver
<1>11. ASSUME NEW b \in I \ H
       PROVE  T[b] = 0
  <2>1. PICK R \in SUBSET L : R = Row(L, key, b)
    BY DEF Row
  <2>2. ASSUME NEW l \in R
        PROVE  K[l] = 0
    <3>1. q[l].n = 0
      BY <1>4, <2>1 DEF Row
    <3>2. 0 * D = K[l] * q[l].d /\ q[l].d \in Nat \ {0} /\ K[l] \in Nat
      BY <1>2, <3>1 DEF Over
    <3>3. \A x \in Nat, y \in Nat \ {0} : 0 = x * y => x = 0
      OBVIOUS
    <3> QED
      BY <3>2, <3>3
  <2>3. IsFiniteSet(R)
    BY <1>3, FS_Subset
  <2>4. SumFunctionOnSet(K, R) = 0
    BY <2>2, <2>3, SumOfZeros
  <2> QED
    BY <1>5, <2>1, <2>4
<1>12. SumFunctionOnSet(T, I) = SumFunctionOnSet(T, H)
  <2>1. SumFunctionOnSet(T, I) = SumFunctionOnSet(T, H) + SumFunctionOnSet(T, I \ H)
    BY <1>8, SumSplit
  <2>2. SumFunctionOnSet(T, I \ H) = 0
    <3>1. IsFiniteSet(I \ H)
      BY FS_Subset
    <3> QED
      BY <1>11, <3>1, SumOfZeros
  <2>3. SumFunctionOnSet(T, H) \in Int
    BY <1>3, <1>8, SumType
  <2> QED
    BY <2>1, <2>2, <2>3
<1>13. SumFunctionOnSet(T, H) \in Int
  BY <1>3, <1>8, SumType
<1>14. QED
  BY <1>6, <1>7, <1>10, <1>12, <1>13
-----------------------------------------------------------------------------
(* The inputs every screen can hold.                                         *)
Rows(Kind) == IsFiniteSet(DOMAIN shown) /\ \A id \in DOMAIN shown : shown[id] \in Kind
FieldRows == screen = "fields" => Rows(Field)
StableRows ==
  screen = "stables" =>
    Rows(Stable) /\ \A s \in DOMAIN shown : shown[s].count <= shown[s].capacity
BuildingRows ==
  screen = "production" =>
    /\ DOMAIN shown = Ids
    /\ \A b \in Ids : DOMAIN shown[b] \subseteq Ids
                      /\ \A c \in DOMAIN shown[b] : shown[b][c] \in OwnChains
Team ==
  screen = "speed" =>
    /\ shown \in [team : SUBSET DOMAIN Machines, area : Areas \cup {0},
                  efficiency : MinEfficiency .. MaxEfficiency]
Inputs == farm \in Farms /\ FieldRows /\ StableRows /\ BuildingRows /\ Team

LEMMA PutRow ==
  ASSUME NEW Kind, Rows(Kind), NEW id, NEW row \in Kind, shown' = Put(id, row)
  PROVE  Rows(Kind)'
<1>1. shown' = [x \in {id} \cup DOMAIN shown |-> IF x \in {id} THEN row ELSE shown[x]]
  BY DEF Put, With
<1>2. DOMAIN shown' = DOMAIN shown \cup {id}
  BY <1>1
<1>3. IsFiniteSet(DOMAIN shown')
  BY <1>2, FS_AddElement DEF Rows
<1>4. \A x \in DOMAIN shown' : shown'[x] \in Kind
  BY <1>1 DEF Rows
<1>5. QED
  BY <1>3, <1>4 DEF Rows

LEMMA InputsInit == Init => Inputs
<1> SUFFICES ASSUME Init PROVE Inputs
  OBVIOUS
<1>1. screen = "fields" \/ screen = "stables" => shown = Empty
  BY DEF Init
<1>2. screen \in {"fields", "stables"} => \A K : Rows(K)
  BY <1>1, FS_EmptySet DEF Rows, Empty
<1>3. FieldRows
  BY <1>2 DEF FieldRows
<1>4. StableRows
  BY <1>1, <1>2 DEF StableRows, Empty
<1>5. BuildingRows
  BY DEF Init, BuildingRows, Empty
<1>6. Team
  BY DEF Init, Team
<1>7. QED
  BY <1>3, <1>4, <1>5, <1>6 DEF Init, Inputs

LEMMA InputsStep == Inputs /\ [Next]_vars => Inputs'
<1> SUFFICES ASSUME Inputs, [Next]_vars PROVE Inputs'
  OBVIOUS
<1>1. CASE UNCHANGED vars
  BY <1>1 DEF Inputs, FieldRows, StableRows, BuildingRows, Team, Rows, vars
<1>2. CASE ChangeFarm
  BY <1>2 DEF ChangeFarm, Inputs, FieldRows, StableRows, BuildingRows, Team, Rows
<1>3. ASSUME NEW id \in Ids, EditField(id)
      PROVE  Inputs'
  <2>1. PICK crop \in CropChoices, hectares \in 1 .. MaxNumber,
             bonus \in Bonuses \cup {None}, silage \in BOOLEAN :
          Show("fields", Put(id, [crop |-> crop, hectares |-> hectares,
                                  bonus |-> bonus, silage |-> silage]))
    BY <1>3 DEF EditField
  <2>2. PICK row : row = [crop |-> crop, hectares |-> hectares,
                          bonus |-> bonus, silage |-> silage]
    OBVIOUS
  <2>3. row \in Field
    BY <2>2, RowsAssumption, InputsAssumption DEF Field
  <2>4. screen = "fields" /\ screen' = "fields" /\ farm' = farm /\ shown' = Put(id, row)
    BY <2>1, <2>2 DEF Show
  <2>5. Rows(Field)'
    BY <2>3, <2>4, PutRow DEF Inputs, FieldRows
  <2> QED
    BY <2>4, <2>5 DEF Inputs, FieldRows, StableRows, BuildingRows, Team
<1>4. ASSUME NEW id \in Ids, EditStable(id)
      PROVE  Inputs'
  <2>0. PICK sp \in DOMAIN AnimalTypes, capacity \in 0 .. MaxNumber :
          \E count \in 0 .. capacity :
            Show("stables", Put(id, [species |-> sp, count |-> count, capacity |-> capacity]))
    BY <1>4 DEF EditStable
  <2>1. PICK count \in 0 .. capacity :
          Show("stables", Put(id, [species |-> sp, count |-> count, capacity |-> capacity]))
    BY <2>0
  <2>2. PICK row : row = [species |-> sp, count |-> count, capacity |-> capacity]
    OBVIOUS
  <2> DEFINE Sound == {r \in Stable : r.count <= r.capacity}
  <2>3. row \in Sound
    <3>1. sp \in SpeciesAll
      BY AnimalCatalogAssumption DEF IsAnimalType
    <3> QED
      BY <2>2, <3>1, InputsAssumption DEF Stable
  <2>4. /\ screen = "stables" /\ screen' = "stables" /\ farm' = farm
        /\ shown' = Put(id, row)
    BY <2>1, <2>2 DEF Show
  <2>5. Rows(Sound)
    BY <2>4 DEF Inputs, StableRows, Rows
  <2>6. Rows(Sound)'
    <3> HIDE DEF Sound
    <3> QED
      BY <2>3, <2>4, <2>5, PutRow
  <2>7. StableRows'
    BY <2>6 DEF Rows, StableRows
  <2> QED
    BY <2>4, <2>7 DEF Inputs, FieldRows, BuildingRows, Team
<1>5. ASSUME NEW id \in Ids, RemoveRow(id)
      PROVE  Inputs'
  <2>1. /\ screen \in {"fields", "stables"} /\ UNCHANGED <<screen, farm>>
        /\ shown' = [x \in DOMAIN shown \ {id} |-> shown[x]]
    BY <1>5 DEF RemoveRow, Restrict
  <2>2. ASSUME IsFiniteSet(DOMAIN shown)
        PROVE  IsFiniteSet(DOMAIN shown')
    BY <2>1, <2>2, FS_RemoveElement
  <2>3. FieldRows' /\ StableRows'
    BY <2>1, <2>2 DEF Inputs, FieldRows, StableRows, Rows
  <2> QED
    BY <2>1, <2>3 DEF Inputs, BuildingRows, Team
<1>6. ASSUME screen = "herd", screen' = "herd", farm' = farm
      PROVE  Inputs'
  BY <1>6 DEF Inputs, FieldRows, StableRows, BuildingRows, Team
<1>7. ASSUME NEW b \in Ids, NEW c \in Ids, EditChain(b, c)
      PROVE  Inputs'
  <2>1. PICK chain \in OwnChains :
          Show("production", [shown EXCEPT ![b] = With(@, c, chain)])
    BY <1>7 DEF EditChain
  <2>2. PICK new : new = With(shown[b], c, chain)
    OBVIOUS
  <2>3. new = [x \in {c} \cup DOMAIN shown[b] |->
                 IF x \in {c} THEN chain ELSE shown[b][x]]
    BY <2>2 DEF With
  <2>4. /\ screen = "production" /\ screen' = "production" /\ farm' = farm
        /\ shown' = [shown EXCEPT ![b] = new]
    BY <2>1, <2>2 DEF Show
  <2>5. BuildingRows'
    BY <2>3, <2>4 DEF Inputs, BuildingRows
  <2> QED
    BY <2>4, <2>5 DEF Inputs, FieldRows, StableRows, Team
<1>8. ASSUME NEW b \in Ids, NEW c \in Ids, RemoveChain(b, c)
      PROVE  Inputs'
  <2>1. PICK new : new = Restrict(shown[b], DOMAIN shown[b] \ {c})
    OBVIOUS
  <2>2. new = [x \in DOMAIN shown[b] \ {c} |-> shown[b][x]]
    BY <2>1 DEF Restrict
  <2>3. /\ screen = "production" /\ screen' = "production" /\ farm' = farm
        /\ shown' = [shown EXCEPT ![b] = new]
    BY <1>8, <2>1 DEF RemoveChain, Show
  <2>4. BuildingRows'
    BY <2>2, <2>3 DEF Inputs, BuildingRows
  <2> QED
    BY <2>3, <2>4 DEF Inputs, FieldRows, StableRows, Team
<1>9. ASSUME screen = "speed", screen' = "speed", farm' = farm, Team'
      PROVE  Inputs'
  BY <1>9 DEF Inputs, FieldRows, StableRows, BuildingRows
<1>10. ASSUME NEW m \in DOMAIN Machines, ToggleMachine(m)
       PROVE  Inputs'
  <2>1. screen = "speed" /\ screen' = "speed" /\ farm' = farm
    BY <1>10 DEF ToggleMachine, Show
  <2>2. shown' = [shown EXCEPT !.team = IF m \in @ THEN @ \ {m} ELSE @ \cup {m}]
    BY <1>10 DEF ToggleMachine, Show
  <2>3. Team'
    BY <2>1, <2>2 DEF Inputs, Team
  <2> QED
    BY <1>9, <2>1, <2>3
<1>11. ASSUME NEW text \in Areas, SetArea(text)
       PROVE  Inputs'
  <2>1. /\ screen = "speed" /\ screen' = "speed" /\ farm' = farm
        /\ shown' = [shown EXCEPT !.area = text]
    BY <1>11 DEF SetArea, Show
  <2>2. Team'
    BY <2>1 DEF Inputs, Team
  <2> QED
    BY <1>9, <2>1, <2>2
<1>12. ASSUME NEW text \in TypedShares, SetEfficiency(text)
       PROVE  Inputs'
  <2>1. /\ screen = "speed" /\ screen' = "speed" /\ farm' = farm
        /\ shown' = [shown EXCEPT !.efficiency = ClampEfficiency(text)]
    BY <1>12 DEF SetEfficiency, Show
  <2>2. ClampEfficiency(text) \in MinEfficiency .. MaxEfficiency
    BY OneAssumption DEF TypedShares, ClampEfficiency, Clamp, MinEfficiency, MaxEfficiency
  <2>3. Team'
    BY <2>1, <2>2 DEF Inputs, Team
  <2> QED
    BY <1>9, <2>1, <2>3
<1>13. QED
  <2>1. ASSUME NEW key, NEW text, TypeNumber(key, text)
        PROVE  Inputs'
    BY <1>6, <2>1 DEF TypeNumber, Show
  <2>2. CASE PickFeedType \/ PickCrop \/ PickSilage \/ ToggleStraw
    BY <1>6, <2>2 DEF PickFeedType, PickCrop, PickSilage, ToggleStraw, Show
  <2> QED
    BY <1>1, <1>2, <1>3, <1>4, <1>5, <1>7, <1>8, <1>10, <1>11, <1>12, <2>1, <2>2
       DEF Next

LEMMA InputsInvariance == Spec => []Inputs
BY InputsInit, InputsStep, PTL DEF Spec
-----------------------------------------------------------------------------
(* A field is worth its crop.                                                *)
LEMMA OverrideIsAFarm ==
  ASSUME NEW in \in Field, NEW f \in FarmContext, NEW c, in.bonus # None
  PROVE  CropProjection(c, [hectares |-> in.hectares, bonus |-> in.bonus,
                            silage |-> in.silage], f)
           = CropProjection(c, [in EXCEPT !.bonus = None],
                            [f EXCEPT !.bonus = in.bonus])
<1> DEFINE one   == [hectares |-> in.hectares, bonus |-> in.bonus, silage |-> in.silage]
           other == [in EXCEPT !.bonus = None]
           g     == [f EXCEPT !.bonus = in.bonus]
<1>1. /\ one.hectares = other.hectares /\ one.silage = other.silage
      /\ f.difficulty = g.difficulty /\ f.sell = g.sell
  BY DEF Field, FarmContext
<1>2. EffectiveBonus(one.bonus, f) = EffectiveBonus(other.bonus, g)
  BY DEF Field, FarmContext, EffectiveBonus, OrElse
<1> HIDE DEF one, other, g
<1>3. CropProjection(c, one, f) = CropProjection(c, other, g)
  BY <1>1, <1>2 DEF CropProjection
<1>4. QED
  BY <1>3 DEF one, other, g

LEMMA FieldsFitTheTables ==
  ASSUME NEW in \in Field, NEW f \in FarmContext, in.crop \in DOMAIN Crops,
         NEW p, p = CropProjection(in.crop,
                      [hectares |-> in.hectares, bonus |-> in.bonus,
                       silage |-> in.silage], f)
  PROVE  /\ p.gross = p.income[f.difficulty]
         /\ ~p.silage => p.income = IncomeByDifficulty(in.crop, in.hectares, p.bonus, f.sell)
         /\ ~p.silage /\ in.bonus = None =>
              p.gross = CompareCrops(in.hectares, f)[in.crop].gross
         /\ p.silage => p.baseline = p.maxSeasonal
<1> DEFINE c      == in.crop
           silage == in.silage /\ c \in DOMAIN SilageCrops
           area   == AreaM2(in.hectares)
           bonus  == EffectiveBonus(in.bonus, f)
           liters == IF silage THEN SilageLiters(c, area, bonus)
                               ELSE CropLiters(c, area, bonus)
<1>1. /\ p.silage = silage /\ p.bonus = bonus
      /\ p.gross = liters * PriceOf(c, silage, f.sell) * IncomeScalars[f.difficulty]
      /\ p.baseline = GrossByDifficulty(liters, PriceOf(c, silage, "baseline"))
      /\ p.maxSeasonal = GrossByDifficulty(liters, PriceOf(c, silage, "max_seasonal"))
      /\ p.income = IF f.sell = "max_seasonal" THEN p.maxSeasonal ELSE p.baseline
  BY DEF CropProjection
<1>2. f.sell \in SellPrices /\ f.difficulty \in Difficulties
  BY DEF FarmContext
<1>3. p.income = GrossByDifficulty(liters, PriceOf(c, silage, f.sell))
  <2> HIDE DEF silage, area, bonus, liters
  <2> QED
    BY <1>1, <1>2 DEF SellPrices
<1>4. p.gross = p.income[f.difficulty]
  <2> HIDE DEF silage, area, bonus, liters
  <2> QED
    BY <1>1, <1>2, <1>3 DEF GrossByDifficulty
<1>5. ~p.silage => p.income = IncomeByDifficulty(c, in.hectares, p.bonus, f.sell)
  BY <1>1, <1>3 DEF IncomeByDifficulty, PriceOf
<1>6. ASSUME ~p.silage, in.bonus = None
      PROVE  p.gross = CompareCrops(in.hectares, f)[c].gross
  <2> DEFINE plain == [hectares |-> in.hectares, bonus |-> None, silage |-> FALSE]
             q == CropProjection(c, plain, f)
  <2>1. CompareCrops(in.hectares, f)[c] = q
    BY DEF CompareCrops
  <2>2. /\ plain.hectares = in.hectares /\ plain.bonus = None
        /\ ~plain.silage
    OBVIOUS
  <2>3. q.gross = CropLiters(c, area, bonus) * PricePerLiter(c, f.sell)
                    * IncomeScalars[f.difficulty]
    <3> HIDE DEF plain
    <3> QED
      BY <1>6, <2>2 DEF CropProjection, PriceOf
  <2>4. p.gross = CropLiters(c, area, bonus) * PricePerLiter(c, f.sell)
                    * IncomeScalars[f.difficulty]
    BY <1>1, <1>6 DEF PriceOf
  <2> QED
    BY <2>1, <2>3, <2>4
<1>7. p.silage => p.baseline = p.maxSeasonal
  BY <1>1 DEF PriceOf
<1>8. QED
  BY <1>4, <1>5, <1>6, <1>7

\* Every field that has a crop of the catalog is worth what the farm, the table
\* of comparison and the table of incomes say of that crop, under the bonus of
\* the field or else of the farm, whatever was edited before and on whatever
\* catalog (cropEngine.ts, cropProjection and compareCrops).
THEOREM FieldsKeepTheirWorth == Spec => []FieldsAreWorthTheirCrops
<1>1. ASSUME Inputs PROVE FieldsAreWorthTheirCrops
  <2>1. farm \in FarmContext
    BY <1>1, FarmsAssumption DEF Inputs
  <2>2. ASSUME screen = "fields", NEW f \in Assigned(shown)
        PROVE  shown[f] \in Field /\ shown[f].crop \in DOMAIN Crops
    BY <1>1, <2>2 DEF Inputs, FieldRows, Rows, Assigned
  <2>3. OverridesAreFarmsOfTheirOwn
    BY <2>1, <2>2, OverrideIsAFarm DEF OverridesAreFarmsOfTheirOwn, Projected
  <2>4. FieldAgreesWithTheTables
    BY <2>1, <2>2, FieldsFitTheTables DEF FieldAgreesWithTheTables, Projected
  <2> QED
    BY <2>3, <2>4 DEF FieldsAreWorthTheirCrops
<1>2. QED
  BY <1>1, InputsInvariance, PTL
-----------------------------------------------------------------------------
(* The time a team takes.                                                    *)
LEMMA Division ==
  ASSUME NEW a \in Nat, NEW b \in Nat \ {0}
  PROVE  /\ a \div b \in Nat
         /\ (a \div b) * b <= a
         /\ a < (a \div b) * b + b
OBVIOUS

LEMMA ClockIsRight ==
  ASSUME NEW t, t.n \in Nat, t.d \in Nat \ {0}
  PROVE  LET c == HoursAndMinutes(t)
             m == 60 * c.hours + c.minutes
         IN /\ c.minutes \in 0 .. 59 /\ c.hours \in Nat
            /\ 2 * (m * t.d - 60 * t.n) \in -t.d .. t.d
<1> DEFINE a == 2 * 60 * t.n + t.d
           q == a \div (2 * t.d)
           c == HoursAndMinutes(t)
<1>1. a \in Nat /\ 2 * t.d \in Nat \ {0}
  OBVIOUS
<1>2. q \in Nat /\ q * (2 * t.d) <= a /\ a < q * (2 * t.d) + 2 * t.d
  <2> HIDE DEF a
  <2> QED
    BY <1>1, Division
<1>3. c.hours = q \div 60 /\ c.minutes = q % 60
  BY DEF HoursAndMinutes
<1> HIDE DEF q, c
<1>4. c.hours \in Nat /\ c.minutes \in 0 .. 59 /\ 60 * c.hours + c.minutes = q
  BY <1>2, <1>3
<1>5. 2 * (q * t.d - 60 * t.n) = q * (2 * t.d) - 120 * t.n
  BY <1>2
<1>6. q * (2 * t.d) \in Int
  BY <1>2
<1>7. 2 * (q * t.d - 60 * t.n) \in -t.d .. t.d
  <2>1. PICK z \in Int : z = q * (2 * t.d)
    BY <1>6
  <2>2. z <= 120 * t.n + t.d /\ 120 * t.n + t.d < z + 2 * t.d
    BY <1>2, <2>1
  <2>3. z - 120 * t.n \in -t.d .. t.d
    BY <2>2
  <2> QED
    BY <1>5, <2>1, <2>3
<1>8. QED
  BY <1>4, <1>7 DEF c

Work(e) == [m \in DOMAIN Machines |-> Capacity(Machines[m]) * e]
TeamWork(T, e) == SumFunctionOnSet(Work(e), T)

LEMMA WorkIsNat ==
  ASSUME NEW e \in Nat
  PROVE  \A m \in DOMAIN Machines :
           Capacity(Machines[m]) \in Nat /\ Work(e)[m] \in Nat
BY MachinesAssumption DEF Work, Capacity, SpeedMachineInput

LEMMA TeamWorkIsNat ==
  ASSUME NEW T \in SUBSET DOMAIN Machines, NEW e \in Nat
  PROVE  TeamWork(T, e) \in Nat
<1>1. IsFiniteSet(T)
  BY MachinesAssumption, FS_Subset
<1>2. QED
  BY <1>1, WorkIsNat, SumIsNat DEF TeamWork

LEMMA TeamWorks ==
  ASSUME NEW T \in SUBSET DOMAIN Machines, NEW e \in Nat
  PROVE  TeamCapacity(Restrict(Machines, T), e) = TeamWork(T, e)
<1> DEFINE team == Restrict(Machines, T)
           g == [m \in DOMAIN team |-> Capacity(team[m]) * e]
<1>1. DOMAIN team = T /\ \A m \in T : team[m] = Machines[m]
  BY DEF Restrict
<1>2. TeamCapacity(team, e) = SumFunctionOnSet(g, DOMAIN g)
  BY DEF TeamCapacity, SumOver, SumFunction
<1>3. IsFiniteSet(T)
  BY MachinesAssumption, FS_Subset
<1>4. DOMAIN g = T /\ \A m \in T : g[m] = Work(e)[m]
  BY <1>1 DEF Work
<1> HIDE DEF g, team
<1>5. SumFunctionOnSet(g, T) = SumFunctionOnSet(Work(e), T)
  BY <1>3, <1>4, SumSame
<1>6. QED
  BY <1>2, <1>4, <1>5 DEF TeamWork, team

\* A larger team, or one that works better, works no slower.
LEMMA TeamWorkGrows ==
  ASSUME NEW T \in SUBSET DOMAIN Machines, NEW U \in SUBSET T,
         NEW e \in Nat, NEW d \in 0 .. e
  PROVE  TeamWork(U, d) <= TeamWork(T, e)
<1>1. IsFiniteSet(T)
  BY MachinesAssumption, FS_Subset
<1>2. \A m \in T : Work(e)[m] \in Nat
  BY WorkIsNat
<1>3. ASSUME NEW m \in U
      PROVE  Work(d)[m] \in Int /\ Work(d)[m] <= Work(e)[m]
  <2>1. PICK c \in Nat : c = Capacity(Machines[m])
    BY WorkIsNat
  <2>2. c * d <= c * e /\ c * d \in Int
    OBVIOUS
  <2> QED
    BY <2>1, <2>2 DEF Work
<1>4. QED
  BY <1>1, <1>2, <1>3, SumGrows DEF TeamWork

LEMMA TeamOfOne ==
  ASSUME NEW m \in DOMAIN Machines, NEW e \in Nat
  PROVE  TeamWork({m}, e) = Capacity(Machines[m]) * e
<1>1. IsFiniteSet({m}) /\ {m} \ {m} = {}
  BY FS_Singleton
<1>2. \A x \in {m} : Work(e)[x] \in Int
  BY WorkIsNat
<1>3. TeamWork({m}, e) = Work(e)[m] + TeamWork({m} \ {m}, e)
  BY <1>1, <1>2, SumTake DEF TeamWork
<1>4. TeamWork({m} \ {m}, e) = 0
  BY <1>1, SumEmpty DEF TeamWork
<1>5. QED
  BY <1>2, <1>3, <1>4 DEF Work

LEMMA Projects ==
  ASSUME NEW T \in SUBSET DOMAIN Machines, NEW area \in Nat \cup {None},
         NEW e \in MinEfficiency .. MaxEfficiency
  PROVE  LET r == WorkSpeedProjection(Restrict(Machines, T), area, e)
             h == IF area # None /\ area > 0 THEN area ELSE 0
         IN /\ h \in Nat /\ e \in Nat
            /\ r.workHours = WorkHours(h, TeamWork(T, e))
            /\ r.workHours # None =>
                 r.hours = HoursAndMinutes(r.workHours).hours
                 /\ r.minutes = HoursAndMinutes(r.workHours).minutes
            /\ \A m \in T : r.machines[m].soloHours = WorkHours(h, TeamWork({m}, e))
<1> DEFINE team == Restrict(Machines, T)
           r == WorkSpeedProjection(team, area, e)
           h == IF area # None /\ area > 0 THEN area ELSE 0
<1>1. e \in Nat /\ h \in Nat
  BY OneAssumption DEF MinEfficiency, MaxEfficiency
<1>2. ClampEfficiency(e) = e
  BY NoneAssumption, OneAssumption
     DEF ClampEfficiency, Clamp, MinEfficiency, MaxEfficiency
<1>3. TeamCapacity(team, e) = TeamWork(T, e)
  BY <1>1, TeamWorks
<1>4. DOMAIN team = T /\ \A m \in T : team[m] = Machines[m]
  BY DEF Restrict
<1>5. \A m \in T : TeamWork({m}, e) = Capacity(team[m]) * e
  BY <1>1, <1>4, TeamOfOne
<1> HIDE DEF team
<1>6. r.workHours = WorkHours(h, TeamWork(T, e))
  BY <1>2, <1>3 DEF WorkSpeedProjection
<1>7. r.workHours # None =>
        r.hours = HoursAndMinutes(r.workHours).hours
        /\ r.minutes = HoursAndMinutes(r.workHours).minutes
  BY <1>2, <1>3 DEF WorkSpeedProjection
<1>8. \A m \in T : r.machines[m].soloHours = WorkHours(h, TeamWork({m}, e))
  BY <1>2, <1>4, <1>5 DEF WorkSpeedProjection
<1>9. QED
  BY <1>1, <1>6, <1>7, <1>8 DEF team

LEMMA MoreWorkIsFaster ==
  ASSUME NEW h \in Nat, NEW w \in Nat, NEW v \in Nat, w <= v,
         WorkHours(h, w) # None
  PROVE  /\ WorkHours(h, v) # None
         /\ AtMost(WorkHours(h, v), WorkHours(h, w))
<1> DEFINE N == h * 10 * One
<1>1. w > 0 /\ h > 0 /\ v > 0 /\ N \in Nat
  BY OneAssumption DEF WorkHours
<1>2. WorkHours(h, v) = [n |-> N, d |-> v] /\ WorkHours(h, w) = [n |-> N, d |-> w]
  BY <1>1 DEF WorkHours, Ratio
<1> HIDE DEF N
<1>3. N * w <= N * v
  BY <1>1
<1>4. WorkHours(h, v).n = N /\ WorkHours(h, v).d = v
  BY <1>2
<1>5. WorkHours(h, w).n = N /\ WorkHours(h, w).d = w
  BY <1>2
<1>6. AtMost(WorkHours(h, v), WorkHours(h, w))
  BY <1>3, <1>4, <1>5 DEF AtMost
<1>7. WorkHours(h, v) # None
  <2>1. WorkHours(h, v) \in [n : Int, d : Int]
    BY <1>1, <1>2
  <2> QED
    BY <2>1, NoneAssumption
<1>8. QED
  BY <1>6, <1>7

LEMMA HoursAreRatios ==
  ASSUME NEW h \in Nat, NEW w \in Nat, NEW t, t = WorkHours(h, w), t # None
  PROVE  t.n \in Nat \ {0} /\ t.d \in Nat \ {0}
<1>1. h > 0 /\ w > 0 /\ t = [n |-> h * 10 * One, d |-> w]
  BY DEF WorkHours, Ratio
<1>2. h * 10 * One \in Nat \ {0}
  BY <1>1, OneAssumption
<1>3. QED
  BY <1>1, <1>2

\* Whatever machines are in the team, on whatever area: the clock shows the time
\* to the nearest minute and never sixty of them, one machine more or a better
\* efficiency never makes the work longer, and no machine alone is faster than
\* its team (workSpeedEngine.ts, workSpeedProjection).
THEOREM TimesStayRight == Spec => []TimesAreRight
<1>1. ASSUME Inputs, screen = "speed", Speed.workHours # None
      PROVE  /\ Speed.minutes \in 0 .. 59
             /\ 2 * ((60 * Speed.hours + Speed.minutes) * Speed.workHours.d
                       - 60 * Speed.workHours.n)
                  \in -Speed.workHours.d .. Speed.workHours.d
             /\ \A m \in DOMAIN Machines, e \in shown.efficiency .. MaxEfficiency :
                  LET more == WorkSpeedProjection(
                                Restrict(Machines, shown.team \cup {m}), shown.area, e)
                  IN more.workHours # None /\ AtMost(more.workHours, Speed.workHours)
             /\ \A m \in shown.team :
                  Speed.machines[m].soloHours # None =>
                    AtMost(Speed.workHours, Speed.machines[m].soloHours)
  <2>1. PICK T \in SUBSET DOMAIN Machines : T = shown.team
    BY <1>1 DEF Inputs, Team
  <2>2. PICK a \in Nat \cup {None} : a = shown.area
    BY <1>1, InputsAssumption DEF Inputs, Team
  <2>3. PICK e \in MinEfficiency .. MaxEfficiency : e = shown.efficiency
    BY <1>1 DEF Inputs, Team
  <2>4. PICK h \in Nat : h = IF a # None /\ a > 0 THEN a ELSE 0
    BY <2>2
  <2>5. PICK r : r = Speed
    OBVIOUS
  <2>6. r = WorkSpeedProjection(Restrict(Machines, T), a, e)
    BY <2>1, <2>2, <2>3, <2>5 DEF Speed
  <2>7. /\ e \in Nat
        /\ r.workHours = WorkHours(h, TeamWork(T, e))
        /\ r.hours = HoursAndMinutes(r.workHours).hours
        /\ r.minutes = HoursAndMinutes(r.workHours).minutes
        /\ \A m \in T : r.machines[m].soloHours = WorkHours(h, TeamWork({m}, e))
    BY <1>1, <2>4, <2>5, <2>6, Projects
  <2>8. TeamWork(T, e) \in Nat
    BY <2>7, TeamWorkIsNat
  <2>9. r.workHours.n \in Nat \ {0} /\ r.workHours.d \in Nat \ {0}
    BY <1>1, <2>5, <2>7, <2>8, HoursAreRatios
  <2>10. /\ r.minutes \in 0 .. 59
         /\ 2 * ((60 * r.hours + r.minutes) * r.workHours.d - 60 * r.workHours.n)
              \in -r.workHours.d .. r.workHours.d
    <3>1. PICK t : t = r.workHours
      OBVIOUS
    <3>2. t.n \in Nat /\ t.d \in Nat \ {0}
      BY <2>9, <3>1
    <3>3. /\ HoursAndMinutes(t).minutes \in 0 .. 59
          /\ 2 * ((60 * HoursAndMinutes(t).hours + HoursAndMinutes(t).minutes) * t.d
                    - 60 * t.n) \in -t.d .. t.d
      BY <3>2, ClockIsRight
    <3> QED
      BY <2>7, <3>1, <3>3
  <2>11. ASSUME NEW m \in DOMAIN Machines, NEW d \in e .. MaxEfficiency,
                NEW more, more = WorkSpeedProjection(Restrict(Machines, T \cup {m}), a, d)
         PROVE  more.workHours # None /\ AtMost(more.workHours, r.workHours)
    <3>1. PICK U \in SUBSET DOMAIN Machines : U = T \cup {m}
      OBVIOUS
    <3>2. d \in MinEfficiency .. MaxEfficiency
      BY <2>3, OneAssumption DEF MinEfficiency, MaxEfficiency
    <3>3. d \in Nat /\ more.workHours = WorkHours(h, TeamWork(U, d))
      BY <2>4, <2>11, <3>1, <3>2, Projects
    <3>4. T \in SUBSET U /\ e \in 0 .. d
      BY <2>7, <2>11, <3>1, <3>3
    <3>5. TeamWork(T, e) <= TeamWork(U, d) /\ TeamWork(U, d) \in Nat
      BY <3>3, <3>4, TeamWorkGrows, TeamWorkIsNat
    <3>6. WorkHours(h, TeamWork(T, e)) # None
      BY <1>1, <2>5, <2>7
    <3> QED
      BY <2>7, <2>8, <3>3, <3>5, <3>6, MoreWorkIsFaster
  <2>12. ASSUME NEW m \in T, r.machines[m].soloHours # None
         PROVE  AtMost(r.workHours, r.machines[m].soloHours)
    <3>1. {m} \in SUBSET T /\ e \in 0 .. e /\ {m} \in SUBSET DOMAIN Machines
      BY <2>7
    <3>2. TeamWork({m}, e) <= TeamWork(T, e) /\ TeamWork({m}, e) \in Nat
      BY <2>7, <3>1, TeamWorkGrows, TeamWorkIsNat
    <3>3. WorkHours(h, TeamWork({m}, e)) # None
      BY <2>7, <2>12
    <3> QED
      BY <2>7, <2>8, <3>2, <3>3, MoreWorkIsFaster
  <2> QED
    BY <2>1, <2>2, <2>3, <2>5, <2>10, <2>11, <2>12
<1>2. Inputs => TimesAreRight
  BY <1>1 DEF TimesAreRight, ClockIsTheTime, TeamsGetFaster
<1>3. QED
  BY <1>2, InputsInvariance, PTL
-----------------------------------------------------------------------------
(* The totals of the fields.                                                 *)
LEMMA WorthIsNat ==
  ASSUME NEW in \in Field, in.crop \in DOMAIN Crops, NEW f \in FarmContext
  PROVE  CropProjection(in.crop, [hectares |-> in.hectares, bonus |-> in.bonus,
                                  silage |-> in.silage], f) \in CropResult
<1> DEFINE c      == in.crop
           silage == in.silage /\ c \in DOMAIN SilageCrops
           area   == AreaM2(in.hectares)
           bonus  == EffectiveBonus(in.bonus, f)
           liters == IF silage THEN SilageLiters(c, area, bonus)
                               ELSE CropLiters(c, area, bonus)
           Price(sell) == PriceOf(c, silage, sell)
<1>1. /\ in.hectares \in Nat /\ f.bonus \in Nat /\ (in.bonus = None \/ in.bonus \in Nat)
      /\ in.silage \in BOOLEAN /\ f.difficulty \in Difficulties
  BY DEF Field, FarmContext
<1>2. /\ Crops[c].yield \in Nat /\ Crops[c].price \in Nat /\ Crops[c].factor \in Nat
      /\ Crops[c].seed \in Nat /\ Crops[c].weight \in Nat
      /\ Silage.price \in Nat /\ Silage.weight \in Nat
  BY CropCatalogAssumption DEF EngineCrop
<1>3. area \in Nat /\ bonus \in Nat /\ silage \in BOOLEAN
  BY <1>1 DEF AreaM2, EffectiveBonus, OrElse
<1> HIDE DEF area, bonus
<1>4. silage => SilageCrops[c].yield \in Nat /\ SilageCrops[c].chaff \in Nat
  BY CropCatalogAssumption DEF EngineSilageCrop
<1>5. CropLiters(c, area, bonus) \in Nat
  BY <1>2, <1>3, OneAssumption DEF CropLiters
<1>6. silage => SilageLiters(c, area, bonus) \in Nat
  BY <1>3, <1>4, OneAssumption DEF SilageLiters
<1>7. liters \in Nat
  BY <1>5, <1>6
<1>8. \A sell : Price(sell) \in Nat
  BY <1>2 DEF PriceOf, PricePerLiter
<1> HIDE DEF liters, silage, c, Price
<1>9. ASSUME NEW price \in Nat
      PROVE  GrossByDifficulty(liters, price) \in [Difficulties -> Nat]
  BY <1>7, CropCatalogAssumption DEF GrossByDifficulty
<1>10. /\ GrossByDifficulty(liters, Price("baseline")) \in [Difficulties -> Nat]
       /\ GrossByDifficulty(liters, Price("max_seasonal")) \in [Difficulties -> Nat]
  BY <1>8, <1>9
<1>11. /\ liters * (IF silage THEN Silage.weight ELSE Crops[c].weight) \in Nat
       /\ liters * Price(f.sell) * IncomeScalars[f.difficulty] \in Nat
       /\ SeedLiters(c, area) \in Nat
  BY <1>1, <1>2, <1>3, <1>7, <1>8, CropCatalogAssumption DEF SeedLiters
<1>12. CropProjection(in.crop, [hectares |-> in.hectares, bonus |-> in.bonus,
                                silage |-> in.silage], f)
         = [silage |-> silage, bonus |-> bonus, liters |-> liters,
            tons |-> liters * (IF silage THEN Silage.weight ELSE Crops[c].weight),
            price |-> Price(f.sell),
            gross |-> liters * Price(f.sell) * IncomeScalars[f.difficulty],
            income |-> IF f.sell = "max_seasonal"
                       THEN GrossByDifficulty(liters, Price("max_seasonal"))
                       ELSE GrossByDifficulty(liters, Price("baseline")),
            baseline |-> GrossByDifficulty(liters, Price("baseline")),
            maxSeasonal |-> GrossByDifficulty(liters, Price("max_seasonal")),
            seed |-> SeedLiters(c, area)]
  BY DEF CropProjection, silage, c, area, bonus, liters, Price
<1>13. QED
  BY <1>3, <1>7, <1>8, <1>10, <1>11, <1>12 DEF CropResult

\* A table with a row per crop, and a total over the fields.
LEMMA RowsPerCrop ==
  ASSUME IsFiniteSet(DOMAIN shown), NEW g, \A f \in Assigned(shown) : g[f] \in Int,
         NEW K, K = {shown[f].crop : f \in Assigned(shown)},
         NEW rows, \A c \in K : rows[c] = SumFunctionOnSet(g, Growing(shown, c))
  PROVE  SumFunctionOnSet(rows, K) = SumFunctionOnSet(g, Assigned(shown))
<1>1. PICK A : A = Assigned(shown)
  OBVIOUS
<1>2. PICK key : key = [f \in DOMAIN shown |-> shown[f].crop]
  OBVIOUS
<1>3. A \subseteq DOMAIN shown /\ IsFiniteSet(A)
  BY <1>1, FS_Subset DEF Assigned
<1>4. \A f \in A : key[f] \in K /\ key[f] = shown[f].crop
  BY <1>1, <1>2, <1>3
<1>5. K = {key[f] : f \in A}
  BY <1>1, <1>4
<1>6. IsFiniteSet({key[f] : f \in A})
  BY <1>3, FiniteImage
<1>7. \A c \in K : Growing(shown, c) = Row(A, key, c)
  BY <1>1, <1>4 DEF Growing, Row
<1>8. \A c \in K : rows[c] = SumFunctionOnSet(g, Row(A, key, c))
  BY <1>7
<1>9. \A f \in A : g[f] \in Int
  BY <1>1
<1>10. \A f \in A : key[f] \in K
  BY <1>4
<1>11. IsFiniteSet(K)
  BY <1>5, <1>6
<1>12. SumFunctionOnSet(rows, K) = SumFunctionOnSet(g, A)
  <2>1. IsTable(A, g, K, key, rows)
    BY <1>8, <1>9, <1>10 DEF IsTable
  <2> QED
    BY <1>3, <1>11, <2>1, SumByRows
<1>13. QED
  BY <1>1, <1>12

LEMMA FieldTotals == Inputs => SummaryAddsUp
<1> SUFFICES ASSUME Inputs, screen = "fields" PROVE SummaryAddsUp
  BY DEF SummaryAddsUp
<1> DEFINE A == Assigned(shown)
           K == {shown[f].crop : f \in A}
           D == CropDistribution(shown, farm)
           hectares == [f \in A |-> shown[f].hectares]
           gross    == [f \in A |-> Projected(shown, f, farm).gross]
           ones     == [f \in A |-> 1]
<1>1. farm \in FarmContext /\ IsFiniteSet(DOMAIN shown)
      /\ \A f \in A : shown[f] \in Field /\ shown[f].crop \in DOMAIN Crops
  BY FarmsAssumption DEF Inputs, FieldRows, Rows, Assigned
<1>2. IsFiniteSet(A) /\ A \subseteq DOMAIN shown
  BY <1>1, FS_Subset DEF Assigned
<1>3. \A f \in A : hectares[f] \in Int /\ gross[f] \in Int /\ ones[f] \in Int
  <2>1. ASSUME NEW f \in A
        PROVE  Projected(shown, f, farm) \in CropResult /\ shown[f].hectares \in Nat
    BY <1>1, WorthIsNat DEF Projected, Field
  <2> QED
    BY <2>1 DEF CropResult
<1>4. DOMAIN D = K
  BY DEF CropDistribution
<1>5. ASSUME NEW c \in K
      PROVE  /\ D[c].hectares = SumFunctionOnSet(hectares, Growing(shown, c))
             /\ D[c].gross = SumFunctionOnSet(gross, Growing(shown, c))
             /\ D[c].fieldCount = SumFunctionOnSet(ones, Growing(shown, c))
  <2>1. PICK G : G = Growing(shown, c)
    OBVIOUS
  <2>2. G \subseteq A /\ IsFiniteSet(G)
    BY <1>2, <2>1, FS_Subset DEF Growing
  <2>3. /\ D[c].hectares = SumFunctionOnSet([f \in G |-> shown[f].hectares], G)
        /\ D[c].gross = SumFunctionOnSet([f \in G |-> Projected(shown, f, farm).gross], G)
        /\ D[c].fieldCount = Cardinality(G)
    BY <2>1 DEF CropDistribution, SumOver, SumFunction
  <2>4. SumFunctionOnSet([f \in G |-> shown[f].hectares], G) = SumFunctionOnSet(hectares, G)
    BY <2>2, SumSame
  <2>5. SumFunctionOnSet([f \in G |-> Projected(shown, f, farm).gross], G)
          = SumFunctionOnSet(gross, G)
    BY <2>2, SumSame
  <2>6. SumFunctionOnSet(ones, G) = Cardinality(G)
    BY <2>2, SumOfOnes
  <2> QED
    BY <2>1, <2>3, <2>4, <2>5, <2>6
<1>6. /\ Summary.assignedHectares = SumFunctionOnSet(hectares, A)
      /\ Summary.totalGross = SumFunctionOnSet(gross, A)
      /\ Summary.distribution = D
  BY DEF Summary, FarmSummary, SumOver, SumFunction
<1>7. SumFunctionOnSet(ones, A) = Cardinality(A)
  BY <1>2, SumOfOnes
<1> HIDE DEF A, K, D, hectares, gross, ones
<1> DEFINE rowHectares == [c \in K |-> D[c].hectares]
           rowGross    == [c \in K |-> D[c].gross]
           rowCount    == [c \in K |-> D[c].fieldCount]
<1>8. /\ SumFunctionOnSet(rowHectares, K) = SumFunctionOnSet(hectares, A)
      /\ SumFunctionOnSet(rowGross, K) = SumFunctionOnSet(gross, A)
      /\ SumFunctionOnSet(rowCount, K) = SumFunctionOnSet(ones, A)
  <2>1. /\ \A c \in K : rowHectares[c] = SumFunctionOnSet(hectares, Growing(shown, c))
        /\ \A c \in K : rowGross[c] = SumFunctionOnSet(gross, Growing(shown, c))
        /\ \A c \in K : rowCount[c] = SumFunctionOnSet(ones, Growing(shown, c))
    BY <1>5
  <2> HIDE DEF rowHectares, rowGross, rowCount
  <2>2. K = {shown[f].crop : f \in Assigned(shown)} /\ A = Assigned(shown)
    BY DEF K, A
  <2>3. /\ \A f \in Assigned(shown) : hectares[f] \in Int
        /\ \A f \in Assigned(shown) : gross[f] \in Int
        /\ \A f \in Assigned(shown) : ones[f] \in Int
    BY <1>3, <2>2
  <2>4. SumFunctionOnSet(rowHectares, K) = SumFunctionOnSet(hectares, A)
    BY <1>1, <2>1, <2>2, <2>3, RowsPerCrop
  <2>5. SumFunctionOnSet(rowGross, K) = SumFunctionOnSet(gross, A)
    BY <1>1, <2>1, <2>2, <2>3, RowsPerCrop
  <2>6. SumFunctionOnSet(rowCount, K) = SumFunctionOnSet(ones, A)
    BY <1>1, <2>1, <2>2, <2>3, RowsPerCrop
  <2> QED
    BY <2>4, <2>5, <2>6
<1>9. QED
  BY <1>4, <1>6, <1>7, <1>8, A = Assigned(shown)
     DEF SummaryAddsUp, SumOver, SumFunction, A
-----------------------------------------------------------------------------
(* The totals of the stables.                                                *)
Counts     == [s \in DOMAIN shown |-> shown[s].count]
Capacities == [s \in DOMAIN shown |-> shown[s].capacity]
Ones       == [s \in DOMAIN shown |-> 1]

LEMMA HerdsAdd ==
  ASSUME IsFiniteSet(DOMAIN shown), NEW S \in SUBSET DOMAIN shown
  PROVE  /\ HerdsOf(shown, S).animals = SumFunctionOnSet(Counts, S)
         /\ HerdsOf(shown, S).capacity = SumFunctionOnSet(Capacities, S)
         /\ HerdsOf(shown, S).stableCount = SumFunctionOnSet(Ones, S)
         /\ HerdsOf(shown, S).utilization
              = Utilization(SumFunctionOnSet(Counts, S), SumFunctionOnSet(Capacities, S))
<1>1. IsFiniteSet(S)
  BY FS_Subset
<1>2. SumOver(S, LAMBDA s : shown[s].count) = SumFunctionOnSet(Counts, S)
  <2>1. PICK g : g = [s \in S |-> shown[s].count]
    OBVIOUS
  <2>2. SumOver(S, LAMBDA s : shown[s].count) = SumFunctionOnSet(g, S)
    BY <2>1 DEF SumOver, SumFunction
  <2>3. PICK h : h = Counts
    OBVIOUS
  <2>4. \A s \in S : g[s] = h[s]
    BY <2>1, <2>3 DEF Counts
  <2> QED
    BY <1>1, <2>2, <2>3, <2>4, SumSame
<1>3. SumOver(S, LAMBDA s : shown[s].capacity) = SumFunctionOnSet(Capacities, S)
  <2>1. PICK g : g = [s \in S |-> shown[s].capacity]
    OBVIOUS
  <2>2. SumOver(S, LAMBDA s : shown[s].capacity) = SumFunctionOnSet(g, S)
    BY <2>1 DEF SumOver, SumFunction
  <2>3. PICK h : h = Capacities
    OBVIOUS
  <2>4. \A s \in S : g[s] = h[s]
    BY <2>1, <2>3 DEF Capacities
  <2> QED
    BY <1>1, <2>2, <2>3, <2>4, SumSame
<1>4. SumFunctionOnSet(Ones, S) = Cardinality(S)
  BY <1>1, SumOfOnes DEF Ones
<1>5. QED
  BY <1>2, <1>3, <1>4 DEF HerdsOf

LEMMA RowsPerSpecies ==
  ASSUME IsFiniteSet(DOMAIN shown), NEW g, \A s \in DOMAIN shown : g[s] \in Int,
         NEW K, K = {shown[s].species : s \in DOMAIN shown},
         NEW rows, \A sp \in K : rows[sp] = SumFunctionOnSet(g, Housing(shown, sp))
  PROVE  SumFunctionOnSet(rows, K) = SumFunctionOnSet(g, DOMAIN shown)
<1>1. PICK A : A = DOMAIN shown
  OBVIOUS
<1>2. PICK key : key = [s \in DOMAIN shown |-> shown[s].species]
  OBVIOUS
<1>3. \A s \in A : key[s] \in K /\ key[s] = shown[s].species
  BY <1>1, <1>2
<1>4. IsFiniteSet(A)
  BY <1>1
<1>5. IsFiniteSet({key[s] : s \in A})
  BY <1>4, FiniteImage
<1>6. \A sp \in K : Housing(shown, sp) = Row(A, key, sp)
  BY <1>1, <1>3 DEF Housing, Row
<1>7. \A sp \in K : rows[sp] = SumFunctionOnSet(g, Row(A, key, sp))
  BY <1>6
<1>8. IsTable(A, g, K, key, rows)
  BY <1>1, <1>3, <1>7 DEF IsTable
<1>9. IsFiniteSet(K)
  <2>1. K = {key[s] : s \in A}
    BY <1>1, <1>3
  <2> QED
    BY <2>1, <1>5
<1>10. SumFunctionOnSet(rows, K) = SumFunctionOnSet(g, A)
  BY <1>4, <1>8, <1>9, SumByRows
<1>11. QED
  BY <1>1, <1>10

LEMMA StableTotals == Inputs => StablesAddUp
<1> SUFFICES ASSUME Inputs, screen = "stables" PROVE StablesAddUp
  BY DEF StablesAddUp
<1> DEFINE K == {shown[s].species : s \in DOMAIN shown}
           D == SummarizeBySpecies(shown)
           all == TotalsOf(shown)
<1>1. /\ IsFiniteSet(DOMAIN shown)
      /\ \A s \in DOMAIN shown : shown[s] \in Stable /\ shown[s].count <= shown[s].capacity
  BY DEF Inputs, StableRows, Rows
<1>2. /\ \A s \in DOMAIN shown : Counts[s] \in Nat /\ Counts[s] <= Capacities[s]
      /\ \A s \in DOMAIN shown : Capacities[s] \in Nat
      /\ \A s \in DOMAIN shown : Ones[s] \in Nat
  BY <1>1 DEF Counts, Capacities, Ones, Stable
<1>3. DOMAIN D = K
  BY DEF SummarizeBySpecies
<1>4. ASSUME NEW sp \in K
      PROVE  /\ D[sp].animals = SumFunctionOnSet(Counts, Housing(shown, sp))
             /\ D[sp].capacity = SumFunctionOnSet(Capacities, Housing(shown, sp))
             /\ D[sp].stableCount = SumFunctionOnSet(Ones, Housing(shown, sp))
  <2>1. PICK H \in SUBSET DOMAIN shown : H = Housing(shown, sp)
    BY DEF Housing
  <2>2. D[sp] = HerdsOf(shown, H)
    BY <2>1 DEF SummarizeBySpecies
  <2>3. /\ HerdsOf(shown, H).animals = SumFunctionOnSet(Counts, H)
        /\ HerdsOf(shown, H).capacity = SumFunctionOnSet(Capacities, H)
        /\ HerdsOf(shown, H).stableCount = SumFunctionOnSet(Ones, H)
    BY <1>1, HerdsAdd
  <2> QED
    BY <2>1, <2>2, <2>3
<1>5. /\ all.animals = SumFunctionOnSet(Counts, DOMAIN shown)
      /\ all.capacity = SumFunctionOnSet(Capacities, DOMAIN shown)
      /\ all.stableCount = SumFunctionOnSet(Ones, DOMAIN shown)
      /\ all.utilization = Utilization(SumFunctionOnSet(Counts, DOMAIN shown),
                                       SumFunctionOnSet(Capacities, DOMAIN shown))
  <2>1. PICK A \in SUBSET DOMAIN shown : A = DOMAIN shown
    OBVIOUS
  <2>2. all = HerdsOf(shown, A)
    BY <2>1 DEF TotalsOf
  <2>3. /\ HerdsOf(shown, A).animals = SumFunctionOnSet(Counts, A)
        /\ HerdsOf(shown, A).capacity = SumFunctionOnSet(Capacities, A)
        /\ HerdsOf(shown, A).stableCount = SumFunctionOnSet(Ones, A)
        /\ HerdsOf(shown, A).utilization
             = Utilization(SumFunctionOnSet(Counts, A), SumFunctionOnSet(Capacities, A))
    BY <1>1, HerdsAdd
  <2> QED
    BY <2>1, <2>2, <2>3
<1>6. AtMost(all.utilization, Ratio(1, 1))
  <2>1. PICK n \in Nat : n = SumFunctionOnSet(Counts, DOMAIN shown)
    BY <1>1, <1>2, SumIsNat
  <2>2. PICK c \in Nat : c = SumFunctionOnSet(Capacities, DOMAIN shown)
    BY <1>1, <1>2, SumIsNat
  <2>3. n <= c
    <3>1. PICK A : A = DOMAIN shown
      OBVIOUS
    <3>2. PICK g : g = Counts
      OBVIOUS
    <3>3. PICK h : h = Capacities
      OBVIOUS
    <3>4. /\ IsFiniteSet(A) /\ A \in SUBSET A
          /\ \A s \in A : h[s] \in Nat
          /\ \A s \in A : g[s] \in Int /\ g[s] <= h[s]
      BY <1>1, <1>2, <3>1, <3>2, <3>3
    <3>5. SumFunctionOnSet(g, A) <= SumFunctionOnSet(h, A)
      BY <3>4, SumGrows
    <3> QED
      BY <2>1, <2>2, <3>1, <3>2, <3>3, <3>5
  <2>4. AtMost(Utilization(n, c), Ratio(1, 1))
    BY <2>3 DEF AtMost, Utilization, Ratio, Zero
  <2> QED
    BY <1>5, <2>1, <2>2, <2>4
<1> HIDE DEF D, all
<1> DEFINE rowAnimals  == [sp \in K |-> D[sp].animals]
           rowCapacity == [sp \in K |-> D[sp].capacity]
           rowCount    == [sp \in K |-> D[sp].stableCount]
<1>7. /\ SumFunctionOnSet(rowAnimals, K) = SumFunctionOnSet(Counts, DOMAIN shown)
      /\ SumFunctionOnSet(rowCapacity, K) = SumFunctionOnSet(Capacities, DOMAIN shown)
      /\ SumFunctionOnSet(rowCount, K) = SumFunctionOnSet(Ones, DOMAIN shown)
  <2>1. /\ \A sp \in K : rowAnimals[sp] = SumFunctionOnSet(Counts, Housing(shown, sp))
        /\ \A sp \in K : rowCapacity[sp] = SumFunctionOnSet(Capacities, Housing(shown, sp))
        /\ \A sp \in K : rowCount[sp] = SumFunctionOnSet(Ones, Housing(shown, sp))
    BY <1>4
  <2>2. /\ \A s \in DOMAIN shown : Counts[s] \in Int
        /\ \A s \in DOMAIN shown : Capacities[s] \in Int
        /\ \A s \in DOMAIN shown : Ones[s] \in Int
    BY <1>2
  <2>3. PICK k : k = K
    OBVIOUS
  <2> HIDE DEF rowAnimals, rowCapacity, rowCount
  <2>4. SumFunctionOnSet(rowAnimals, k) = SumFunctionOnSet(Counts, DOMAIN shown)
    BY <1>1, <2>1, <2>2, <2>3, RowsPerSpecies
  <2>5. SumFunctionOnSet(rowCapacity, k) = SumFunctionOnSet(Capacities, DOMAIN shown)
    BY <1>1, <2>1, <2>2, <2>3, RowsPerSpecies
  <2>6. SumFunctionOnSet(rowCount, k) = SumFunctionOnSet(Ones, DOMAIN shown)
    BY <1>1, <2>1, <2>2, <2>3, RowsPerSpecies
  <2> QED
    BY <2>3, <2>4, <2>5, <2>6
<1> HIDE DEF K
<1>8. QED
  BY <1>3, <1>5, <1>6, <1>7 DEF StablesAddUp, SumOver, SumFunction, D, all
-----------------------------------------------------------------------------
(* The chains of the buildings.                                              *)
IsBuilding(B) == DOMAIN B \in SUBSET Ids /\ \A c \in DOMAIN B : IsUserChain(B[c])
Buildings(bs) == DOMAIN bs = Ids /\ \A b \in Ids : IsBuilding(bs[b])

\* The number of parts a building cuts its month in.
Month(B) == IF ActiveChains(B) = {} THEN 1 ELSE Cardinality(ActiveChains(B))
InParts(q, m) == q.n \in Nat /\ q.d \in {1, m}

LEMMA InputsAreBuildings == Inputs /\ screen = "production" => Buildings(shown)
BY ChainsAssumption DEF Inputs, BuildingRows, Buildings, IsBuilding

LEMMA MonthIsPositive ==
  ASSUME NEW B, IsBuilding(B)
  PROVE  /\ Month(B) \in Nat \ {0}
         /\ ActiveChains(B) # {} => Cardinality(ActiveChains(B)) # 0
<1>1. PICK A \in SUBSET Ids : A = ActiveChains(B)
  BY DEF ActiveChains, Resolvable, IsBuilding
<1>2. IsFiniteSet(A)
  BY RowsAssumption, FS_Subset
<1>3. Cardinality(A) \in Nat /\ (Cardinality(A) = 0 <=> A = {})
  BY <1>2, FS_CardinalityType, FS_EmptySet
<1>4. QED
  BY <1>1, <1>3 DEF Month

\* What a chain that takes part runs with.
LEMMA ChainResolves ==
  ASSUME NEW B, IsBuilding(B), NEW c \in Resolvable(B)
  PROVE  LET R == ResolveChain(B[c])
         IN /\ c \in DOMAIN B /\ B[c].active \in BOOLEAN /\ R.cycles \in Nat
            /\ B[c].cycles # None => R.cycles = B[c].cycles
            /\ \A s \in DOMAIN R.inputs : R.inputs[s] \in Nat
            /\ \A s \in DOMAIN R.outputs : R.outputs[s] \in Nat
<1> DEFINE R == ResolveChain(B[c])
<1>1. PICK chain : chain = B[c]
  OBVIOUS
<1>2. c \in DOMAIN B /\ IsUserChain(chain) /\ ~Stale(chain) /\ ~Incomplete(chain)
  BY <1>1 DEF Resolvable, IsBuilding
<1>3. PICK cat : cat = IF chain.catalog = None THEN chain ELSE CatalogChains[chain.catalog]
  OBVIOUS
<1>4. /\ R.cycles = OrElse(chain.cycles, cat.cycles)
      /\ R.inputs = OrElse(chain.inputs, cat.inputs)
      /\ R.outputs = OrElse(chain.outputs, cat.outputs)
  BY <1>1, <1>3 DEF ResolveChain
<1>5. CASE chain.catalog = None
  BY <1>1, <1>2, <1>3, <1>4, <1>5 DEF IsUserChain, Incomplete, OrElse
<1>6. CASE chain.catalog # None
  <2>1. chain.catalog \in DOMAIN CatalogChains
    BY <1>2, <1>6 DEF Stale
  <2>2. /\ cat.cycles \in Nat
        /\ \A s \in DOMAIN cat.inputs : cat.inputs[s] \in Nat
        /\ \A s \in DOMAIN cat.outputs : cat.outputs[s] \in Nat
    BY <1>3, <1>6, <2>1, ChainCatalogAssumption
  <2> QED
    BY <1>1, <1>2, <1>4, <2>2 DEF IsUserChain, OrElse
<1>7. QED
  BY <1>5, <1>6

LEMMA ChainRuns ==
  ASSUME NEW B, IsBuilding(B), NEW c \in Resolvable(B)
  PROVE  LET cycles == ChainCycles(B, c)
         IN /\ cycles.n \in Nat /\ cycles.d \in {1, Month(B)}
            /\ B[c].active => /\ cycles.n = ResolveChain(B[c]).cycles
                              /\ cycles.d = Cardinality(ActiveChains(B))
            /\ ~B[c].active => cycles.n = 0
<1>1. PICK n \in Nat : n = ResolveChain(B[c]).cycles
  BY ChainResolves
<1>2. CASE B[c].active
  <2>1. ActiveChains(B) # {}
    BY <1>2 DEF ActiveChains
  <2>2. Cardinality(ActiveChains(B)) # 0 /\ Month(B) = Cardinality(ActiveChains(B))
    BY <2>1, MonthIsPositive DEF Month
  <2>3. ChainCycles(B, c) = Ratio(n, Cardinality(ActiveChains(B)))
    BY <1>1, <1>2, <2>2 DEF ChainCycles, EffectiveCycles
  <2> QED
    BY <1>1, <1>2, <2>2, <2>3 DEF Ratio
<1>3. CASE ~B[c].active
  BY <1>3 DEF ChainCycles, Zero, Ratio
<1>4. QED
  BY <1>2, <1>3

LEMMA MonthIsShared == Inputs => ChainsShareTheMonth
<1> SUFFICES ASSUME Inputs, screen = "production",
                    NEW b \in Ids, NEW c \in Resolvable(shown[b])
             PROVE  LET cycles == ChainCycles(shown[b], c)
                    IN IF c \in {x \in Resolvable(shown[b]) : shown[b][x].active}
                       THEN /\ cycles.n = OrElse(shown[b][c].cycles,
                                                 ResolveChain(shown[b][c]).cycles)
                            /\ cycles.d = Cardinality(
                                 {x \in Resolvable(shown[b]) : shown[b][x].active})
                       ELSE cycles.n = 0
  BY DEF ChainsShareTheMonth
<1>1. PICK B : B = shown[b]
  OBVIOUS
<1>2. IsBuilding(B) /\ c \in Resolvable(B)
  BY <1>1, InputsAreBuildings DEF Buildings
<1>3. /\ B[c].active => /\ ChainCycles(B, c).n = ResolveChain(B[c]).cycles
                        /\ ChainCycles(B, c).d = Cardinality(ActiveChains(B))
      /\ ~B[c].active => ChainCycles(B, c).n = 0
  BY <1>2, ChainRuns
<1>4. B[c].cycles # None => ResolveChain(B[c]).cycles = B[c].cycles
  BY <1>2, ChainResolves
<1>5. {x \in Resolvable(B) : B[x].active} = ActiveChains(B)
  BY DEF ActiveChains
<1>6. c \in ActiveChains(B) <=> B[c].active
  BY <1>2 DEF ActiveChains
<1>7. QED
  BY <1>1, <1>3, <1>4, <1>5, <1>6 DEF OrElse

LEMMA PartsAreOver ==
  ASSUME NEW m \in Nat \ {0}, NEW j \in Nat, NEW D \in Nat \ {0}, D = j * m,
         NEW q, InParts(q, m)
  PROVE  \E k \in Nat : Over(D, k, q)
<1>1. PICK n \in Nat : n = q.n
  BY DEF InParts
<1>2. CASE q.d = 1
  <2>1. n * D \in Nat /\ n * D = (n * D) * 1
    OBVIOUS
  <2> QED
    BY <1>1, <1>2, <2>1 DEF Over
<1>3. CASE q.d = m
  <2>1. PICK k \in Nat : k = n * j
    OBVIOUS
  <2>2. n * D = k * m
    BY <2>1
  <2>3. Over(D, k, q)
    BY <1>1, <1>3, <2>2 DEF Over
  <2> QED
    BY <2>3
<1>4. QED
  BY <1>2, <1>3 DEF InParts

\* Some number of parts suits every building.
LEMMA CommonMonth ==
  ASSUME NEW bs, Buildings(bs)
  PROVE  \E D \in Nat \ {0} : \A b \in Ids : \E j \in Nat : D = j * Month(bs[b])
<1>1. PICK d : d = [b \in Ids |-> Month(bs[b])]
  OBVIOUS
<1>2. \A b \in Ids : d[b] \in Nat \ {0}
  BY <1>1, MonthIsPositive DEF Buildings
<1>3. PICK D \in Nat \ {0} : \A b \in Ids : \E j \in Nat : D = j * d[b]
  BY <1>2, RowsAssumption, CommonMultiple
<1>4. QED
  BY <1>1, <1>3

\* The monthly quantity of one slug, one side of the recipe.
LEMMA QuantityInParts ==
  ASSUME NEW recipe, NEW s, s \in DOMAIN recipe => recipe[s] \in Nat,
         NEW cycles, NEW m, InParts(cycles, m)
  PROVE  /\ InParts(QuantityPerMonth(recipe, s, cycles), m)
         /\ s \notin DOMAIN recipe => QuantityPerMonth(recipe, s, cycles).n = 0
<1>1. CASE s \in DOMAIN recipe
  <2>1. recipe[s] * cycles.n \in Nat
    BY <1>1 DEF InParts
  <2> QED
    BY <1>1, <2>1 DEF QuantityPerMonth, InParts, Ratio
<1>2. CASE s \notin DOMAIN recipe
  BY <1>2 DEF QuantityPerMonth, InParts, Ratio, Zero
<1>3. QED
  BY <1>1, <1>2

LEMMA ChainQuantities ==
  ASSUME NEW B, IsBuilding(B), NEW c \in Resolvable(B), NEW s
  PROVE  /\ InParts(ChainInput(B, c, s), Month(B))
         /\ InParts(ChainOutput(B, c, s), Month(B))
         /\ s \notin Slugs(B) => ChainInput(B, c, s).n = 0 /\ ChainOutput(B, c, s).n = 0
<1>1. PICK R : R = ResolveChain(B[c])
  OBVIOUS
<1>2. PICK cycles : cycles = ChainCycles(B, c)
  OBVIOUS
<1>3. InParts(cycles, Month(B))
  BY <1>2, ChainRuns DEF InParts
<1>4. /\ s \in DOMAIN R.inputs => R.inputs[s] \in Nat
      /\ s \in DOMAIN R.outputs => R.outputs[s] \in Nat
  BY <1>1, ChainResolves
<1>5. /\ ChainInput(B, c, s) = QuantityPerMonth(R.inputs, s, cycles)
      /\ ChainOutput(B, c, s) = QuantityPerMonth(R.outputs, s, cycles)
  BY <1>1, <1>2 DEF ChainInput, ChainOutput
<1>6. s \notin Slugs(B) => s \notin DOMAIN R.inputs /\ s \notin DOMAIN R.outputs
  BY <1>1 DEF Slugs
<1>7. /\ InParts(QuantityPerMonth(R.inputs, s, cycles), Month(B))
      /\ s \notin DOMAIN R.inputs => QuantityPerMonth(R.inputs, s, cycles).n = 0
  BY <1>3, <1>4, QuantityInParts
<1>8. /\ InParts(QuantityPerMonth(R.outputs, s, cycles), Month(B))
      /\ s \notin DOMAIN R.outputs => QuantityPerMonth(R.outputs, s, cycles).n = 0
  BY <1>3, <1>4, QuantityInParts
<1>9. QED
  BY <1>5, <1>6, <1>7, <1>8

\* One side of the farm's summary, added up building by building, is the sum
\* over the chains of all buildings.
Lines(bs) == {l \in Ids \X Ids : l[2] \in Resolvable(bs[l[1]])}

LEMMA SideAddsUp ==
  ASSUME NEW bs, Buildings(bs), NEW D \in Nat \ {0},
         \A b \in Ids : \E j \in Nat : D = j * Month(bs[b]), NEW s, NEW q,
         \A l \in Lines(bs) : /\ InParts(q[l], Month(bs[l[1]]))
                              /\ s \notin Slugs(bs[l[1]]) => q[l].n = 0,
         NEW r, \A b \in Handling(bs, s) :
                  \E p : /\ \A c \in Resolvable(bs[b]) : p[c] = q[<<b, c>>]
                         /\ r[b] = RatioSum(p, Resolvable(bs[b]))
  PROVE  \E k \in Int : /\ Over(D, k, RatioSum(r, Handling(bs, s)))
                        /\ Over(D, k, RatioSum(q, Lines(bs)))
<1>1. PICK I : I = Ids
  OBVIOUS
<1>2. PICK L \in SUBSET (I \X I) : L = Lines(bs)
  BY <1>1 DEF Lines
<1>3. PICK H \in SUBSET I : H = Handling(bs, s)
  BY <1>1 DEF Handling, Buildings
<1>4. ASSUME NEW l \in L
      PROVE  (\E k \in Nat : Over(D, k, q[l])) /\ (l[1] \in H \/ q[l].n = 0)
  <2>1. PICK b \in Ids : b = l[1]
    BY <1>1
  <2>2. PICK j \in Nat : D = j * Month(bs[b])
    OBVIOUS
  <2>3. PICK m \in Nat \ {0} : m = Month(bs[b])
    BY MonthIsPositive DEF Buildings
  <2>4. InParts(q[l], m) /\ (s \notin Slugs(bs[b]) => q[l].n = 0)
    BY <1>2, <2>1, <2>3
  <2>5. \E k \in Nat : Over(D, k, q[l])
    BY <2>2, <2>3, <2>4, PartsAreOver
  <2>6. b \in H \/ s \notin Slugs(bs[b])
    BY <1>3 DEF Handling, Buildings
  <2> QED
    BY <2>1, <2>4, <2>5, <2>6
<1>5. ASSUME NEW b \in H
      PROVE  IsPart(L, I, b, q, r[b])
  <2>1. PICK P : P = Resolvable(bs[b])
    OBVIOUS
  <2>2. Part(L, I, b) = P
    <3>1. P \subseteq I
      BY <1>1, <2>1 DEF Resolvable, Buildings, IsBuilding
    <3>2. \A c \in I : <<b, c>> \in L <=> c \in P
      BY <1>1, <1>2, <2>1 DEF Lines
    <3> QED
      BY <3>1, <3>2 DEF Part
  <2>3. PICK p : (\A c \in P : p[c] = q[<<b, c>>]) /\ r[b] = RatioSum(p, P)
    BY <1>3, <2>1
  <2> QED
    BY <2>2, <2>3 DEF IsPart
<1>6. IsFiniteSet(I)
  BY <1>1, RowsAssumption
<1>7. /\ \A l \in L : \E k \in Nat : Over(D, k, q[l])
      /\ \A l \in L : l[1] \in H \/ q[l].n = 0
  BY <1>4
<1>8. \E k \in Int : Over(D, k, RatioSum(r, H)) /\ Over(D, k, RatioSum(q, L))
  BY <1>5, <1>6, <1>7, PartsAddUp
<1>9. QED
  BY <1>2, <1>3, <1>8

\* What the chains take and give of a slug: building by building, and at once.
Taken(bs, s) ==
  SumRatios(Handling(bs, s), LAMBDA b : ProductionProjection(bs[b]).inputs[s])
Given(bs, s) ==
  SumRatios(Handling(bs, s), LAMBDA b : ProductionProjection(bs[b]).outputs[s])
AllTaken(bs, s) == SumRatios(Lines(bs), LAMBDA l : ChainInput(bs[l[1]], l[2], s))
AllGiven(bs, s) == SumRatios(Lines(bs), LAMBDA l : ChainOutput(bs[l[1]], l[2], s))

LEMMA InputsSide ==
  ASSUME NEW bs, Buildings(bs), NEW D \in Nat \ {0},
         \A b \in Ids : \E j \in Nat : D = j * Month(bs[b]), NEW s
  PROVE  \E k \in Int :
           Over(D, k, Taken(bs, s)) /\ Over(D, k, AllTaken(bs, s))
<1>1. PICK q : q = [l \in Lines(bs) |-> ChainInput(bs[l[1]], l[2], s)]
  OBVIOUS
<1>2. PICK r : r = [b \in Handling(bs, s) |-> ProductionProjection(bs[b]).inputs[s]]
  OBVIOUS
<1>3. AllTaken(bs, s) = RatioSum(q, Lines(bs))
  BY <1>1 DEF AllTaken, SumRatios, FoldFunction, RatioSum
<1>4. Taken(bs, s) = RatioSum(r, Handling(bs, s))
  BY <1>2 DEF Taken, SumRatios, FoldFunction, RatioSum
<1>5. ASSUME NEW l \in Lines(bs)
      PROVE  /\ InParts(q[l], Month(bs[l[1]]))
             /\ s \notin Slugs(bs[l[1]]) => q[l].n = 0
  <2>1. PICK B : B = bs[l[1]]
    OBVIOUS
  <2>2. PICK c \in Resolvable(B) : c = l[2]
    BY <2>1 DEF Lines
  <2>3. IsBuilding(B)
    BY <2>1 DEF Lines, Buildings
  <2>4. /\ InParts(ChainInput(B, c, s), Month(B))
        /\ s \notin Slugs(B) => ChainInput(B, c, s).n = 0
    BY <2>3, ChainQuantities
  <2> QED
    BY <1>1, <2>1, <2>2, <2>4
<1>6. ASSUME NEW b \in Handling(bs, s)
      PROVE  \E p : /\ \A c \in Resolvable(bs[b]) : p[c] = q[<<b, c>>]
                    /\ r[b] = RatioSum(p, Resolvable(bs[b]))
  <2>1. PICK B : B = bs[b]
    OBVIOUS
  <2>2. PICK p : p = [c \in Resolvable(B) |-> ChainInput(B, c, s)]
    OBVIOUS
  <2>3. s \in Slugs(B) /\ b \in Ids /\ IsBuilding(B)
    BY <2>1 DEF Handling, Buildings
  <2>4. r[b] = SumRatios(Resolvable(B), LAMBDA c : ChainInput(B, c, s))
    BY <1>2, <2>1, <2>3 DEF ProductionProjection
  <2>5. SumRatios(Resolvable(B), LAMBDA c : ChainInput(B, c, s))
          = RatioSum(p, Resolvable(B))
    BY <2>2 DEF SumRatios, FoldFunction, RatioSum
  <2>6. ASSUME NEW c \in Resolvable(B)
        PROVE  p[c] = q[<<b, c>>]
    <3>1. c \in Ids
      BY <2>3 DEF Resolvable, IsBuilding
    <3>2. PICK l : l = <<b, c>>
      OBVIOUS
    <3>3. l \in Lines(bs) /\ l[1] = b /\ l[2] = c
      BY <2>1, <2>3, <3>1, <3>2 DEF Lines
    <3> QED
      BY <1>1, <2>1, <2>2, <3>2, <3>3
  <2> QED
    BY <2>1, <2>4, <2>5, <2>6
<1>7. \E k \in Int : /\ Over(D, k, RatioSum(r, Handling(bs, s)))
                     /\ Over(D, k, RatioSum(q, Lines(bs)))
  BY <1>5, <1>6, SideAddsUp
<1>8. QED
  BY <1>3, <1>4, <1>7

LEMMA OutputsSide ==
  ASSUME NEW bs, Buildings(bs), NEW D \in Nat \ {0},
         \A b \in Ids : \E j \in Nat : D = j * Month(bs[b]), NEW s
  PROVE  \E k \in Int :
           Over(D, k, Given(bs, s)) /\ Over(D, k, AllGiven(bs, s))
<1>1. PICK q : q = [l \in Lines(bs) |-> ChainOutput(bs[l[1]], l[2], s)]
  OBVIOUS
<1>2. PICK r : r = [b \in Handling(bs, s) |-> ProductionProjection(bs[b]).outputs[s]]
  OBVIOUS
<1>3. AllGiven(bs, s) = RatioSum(q, Lines(bs))
  BY <1>1 DEF AllGiven, SumRatios, FoldFunction, RatioSum
<1>4. Given(bs, s) = RatioSum(r, Handling(bs, s))
  BY <1>2 DEF Given, SumRatios, FoldFunction, RatioSum
<1>5. ASSUME NEW l \in Lines(bs)
      PROVE  /\ InParts(q[l], Month(bs[l[1]]))
             /\ s \notin Slugs(bs[l[1]]) => q[l].n = 0
  <2>1. PICK B : B = bs[l[1]]
    OBVIOUS
  <2>2. PICK c \in Resolvable(B) : c = l[2]
    BY <2>1 DEF Lines
  <2>3. IsBuilding(B)
    BY <2>1 DEF Lines, Buildings
  <2>4. /\ InParts(ChainOutput(B, c, s), Month(B))
        /\ s \notin Slugs(B) => ChainOutput(B, c, s).n = 0
    BY <2>3, ChainQuantities
  <2> QED
    BY <1>1, <2>1, <2>2, <2>4
<1>6. ASSUME NEW b \in Handling(bs, s)
      PROVE  \E p : /\ \A c \in Resolvable(bs[b]) : p[c] = q[<<b, c>>]
                    /\ r[b] = RatioSum(p, Resolvable(bs[b]))
  <2>1. PICK B : B = bs[b]
    OBVIOUS
  <2>2. PICK p : p = [c \in Resolvable(B) |-> ChainOutput(B, c, s)]
    OBVIOUS
  <2>3. s \in Slugs(B) /\ b \in Ids /\ IsBuilding(B)
    BY <2>1 DEF Handling, Buildings
  <2>4. r[b] = SumRatios(Resolvable(B), LAMBDA c : ChainOutput(B, c, s))
    BY <1>2, <2>1, <2>3 DEF ProductionProjection
  <2>5. SumRatios(Resolvable(B), LAMBDA c : ChainOutput(B, c, s))
          = RatioSum(p, Resolvable(B))
    BY <2>2 DEF SumRatios, FoldFunction, RatioSum
  <2>6. ASSUME NEW c \in Resolvable(B)
        PROVE  p[c] = q[<<b, c>>]
    <3>1. c \in Ids
      BY <2>3 DEF Resolvable, IsBuilding
    <3>2. PICK l : l = <<b, c>>
      OBVIOUS
    <3>3. l \in Lines(bs) /\ l[1] = b /\ l[2] = c
      BY <2>1, <2>3, <3>1, <3>2 DEF Lines
    <3> QED
      BY <1>1, <2>1, <2>2, <3>2, <3>3
  <2> QED
    BY <2>1, <2>4, <2>5, <2>6
<1>7. \E k \in Int : /\ Over(D, k, RatioSum(r, Handling(bs, s)))
                     /\ Over(D, k, RatioSum(q, Lines(bs)))
  BY <1>5, <1>6, SideAddsUp
<1>8. QED
  BY <1>3, <1>4, <1>7

LEMMA ProductionTotals == Inputs => ProductionAddsUp
<1> SUFFICES ASSUME Inputs, screen = "production" PROVE ProductionAddsUp
  BY DEF ProductionAddsUp
<1>1. PICK bs : bs = shown
  OBVIOUS
<1>2. Buildings(bs)
  BY <1>1, InputsAreBuildings
<1>3. PICK D \in Nat \ {0} : \A b \in Ids : \E j \in Nat : D = j * Month(bs[b])
  BY <1>2, CommonMonth
<1>4. ASSUME NEW s
      PROVE  /\ Same(Given(bs, s), AllGiven(bs, s))
             /\ Same(Taken(bs, s), AllTaken(bs, s))
             /\ Same(Minus(Given(bs, s), Taken(bs, s)),
                     Minus(AllGiven(bs, s), AllTaken(bs, s)))
  <2>1. PICK k \in Int : Over(D, k, Taken(bs, s)) /\ Over(D, k, AllTaken(bs, s))
    BY <1>2, <1>3, InputsSide
  <2>2. PICK m \in Int : Over(D, m, Given(bs, s)) /\ Over(D, m, AllGiven(bs, s))
    BY <1>2, <1>3, OutputsSide
  <2> QED
    BY <2>1, <2>2, SameOver, SameDifferences
<1>5. ASSUME NEW s \in DOMAIN ProductionFarmSummary(bs).items
      PROVE  LET item == ProductionFarmSummary(bs).items[s]
             IN /\ item.inputs = Taken(bs, s) /\ item.outputs = Given(bs, s)
                /\ item.net = Minus(Given(bs, s), Taken(bs, s))
  BY DEF ProductionFarmSummary, Taken, Given
<1>6. ASSUME NEW s \in DOMAIN ProductionFarmSummary(shown).items
      PROVE  LET item == ProductionFarmSummary(shown).items[s]
             IN /\ Same(item.outputs, AllGiven(shown, s))
                /\ Same(item.inputs, AllTaken(shown, s))
                /\ Same(item.net, Minus(AllGiven(shown, s), AllTaken(shown, s)))
  BY <1>1, <1>4, <1>5
<1>7. QED
  BY <1>6 DEF ProductionAddsUp, AllGiven, AllTaken, Lines
-----------------------------------------------------------------------------
\* The totals of every screen are the sums of its parts, on whatever farm,
\* catalog and chains and after whatever edits: the rows per crop and per
\* species (FarmSummary.vue, StablesSummary), the month that the running chains
\* of a building share and the quantities of all buildings
\* (productionEngine.ts, useProductionFarmSummary).
THEOREM TotalsStayTheSums == Spec => []TotalsAddUp
<1>1. Inputs => TotalsAddUp
  BY FieldTotals, StableTotals, MonthIsShared, ProductionTotals DEF TotalsAddUp
<1>2. QED
  BY <1>1, InputsInvariance, PTL
-----------------------------------------------------------------------------
(* The inputs of a herd.                                                     *)
HerdInputs ==
  screen = "herd" =>
    /\ shown \in AnimalInputs
    /\ shown.species \in DOMAIN AnimalTypes
    /\ shown.feedType = None <=> shown.species \notin Ruminants

LEMMA AnimalTypeFacts ==
  ASSUME NEW sp \in DOMAIN AnimalTypes
  PROVE  LET a == AnimalTypes[sp]
         IN /\ IsAnimalType(a) /\ a.species = sp /\ sp \in SpeciesAll
            /\ {First(a.silageCrops), First(a.bought), First(a.fieldwork)}
                 \subseteq CropNames \cup {None}
            /\ \A p \in DOMAIN a.components :
                 First(a.components[p].crops) \in CropNames \cup {None}
            /\ sp \in Ruminants => First(a.silageCrops) \in CropNames
<1> DEFINE a == AnimalTypes[sp]
<1>1. IsAnimalType(a) /\ a.species = sp
  BY AnimalCatalogAssumption
<1>2. ASSUME NEW slugs \in Seq(CropNames)
      PROVE  /\ First(slugs) \in CropNames \cup {None}
             /\ slugs # <<>> => First(slugs) \in CropNames
  BY DEF First
<1>3. sp \in SpeciesAll
  BY <1>1 DEF IsAnimalType
<1>4. sp \in Ruminants => a.silageCrops # <<>>
  BY RationsAssumption
<1>5. /\ a.silageCrops \in Seq(CropNames) /\ a.bought \in Seq(CropNames)
      /\ a.fieldwork \in Seq(CropNames)
      /\ \A p \in DOMAIN a.components : a.components[p].crops \in Seq(CropNames)
  BY <1>1 DEF IsAnimalType
<1>6. QED
  BY <1>1, <1>2, <1>3, <1>4, <1>5

LEMMA DefaultsAreInputs ==
  ASSUME NEW sp \in DOMAIN AnimalTypes
  PROVE  LET in == DefaultInputs(sp)
         IN /\ in \in AnimalInputs /\ in.species = sp
            /\ in.feedType = None <=> sp \notin Ruminants
<1> DEFINE a == AnimalTypes[sp]
           in == DefaultInputs(sp)
<1>1. ASSUME NEW p \in Picks
      PROVE  FirstPick(a, p) \in CropNames \cup {None}
  <2>1. PICK bought \in CropNames \cup {None} : bought = First(a.bought)
    BY AnimalTypeFacts
  <2>2. PICK grown \in CropNames \cup {None} : grown = First(a.fieldwork)
    BY AnimalTypeFacts
  <2>3. \A c \in DOMAIN a.components : First(a.components[c].crops) \in CropNames \cup {None}
    BY AnimalTypeFacts
  <2>4. "wheat" \in CropNames
    BY NamesAssumption
  <2> HIDE DEF a
  <2>5. CASE p = "feed"
    BY <2>1, <2>4, <2>5 DEF FirstPick
  <2>6. CASE p = "grown"
    BY <2>2, <2>6 DEF FirstPick
  <2>7. CASE p \notin {"feed", "grown"}
    BY <2>3, <2>7 DEF FirstPick
  <2> QED
    BY <2>5, <2>6, <2>7
<1>2. PICK pick \in [Picks -> CropNames \cup {None}] :
        pick = [p \in Picks |-> IF p \in Visible(sp) THEN FirstPick(a, p) ELSE None]
  BY <1>1
<1>3. PICK silage \in CropNames \cup {None} :
        silage = IF sp \in Ruminants THEN First(a.silageCrops) ELSE None
  BY AnimalTypeFacts
<1>4. in = [species |-> sp, count |-> 0, bonus |-> None,
            feedType |-> IF sp \in Ruminants THEN "tmr" ELSE None,
            straw |-> sp \in {"cow", "buffalo", "pig", "horse"},
            grassHarvests |-> IF sp \in {"chicken", "pig"} THEN None ELSE 2,
            silageCrop |-> silage, sellCount |-> 0,
            boughtShare |-> IF sp = "chicken" THEN 0 ELSE None, pick |-> pick]
  BY <1>2, <1>3 DEF DefaultInputs
<1>5. sp \in SpeciesAll
  BY AnimalTypeFacts
<1>6. "tmr" # None
  BY NamesAssumption DEF FeedTypes
<1>7. QED
  BY <1>4, <1>5, <1>6 DEF AnimalInputs, FeedTypes

LEMMA HerdInputsInit == Init => HerdInputs
<1> SUFFICES ASSUME Init, screen = "herd" PROVE HerdInputs
  BY DEF HerdInputs
<1>1. PICK sp \in DOMAIN AnimalTypes : shown = DefaultInputs(sp)
  BY DEF Init
<1>2. QED
  BY <1>1, DefaultsAreInputs DEF HerdInputs

LEMMA HerdInputsStep == HerdInputs /\ [Next]_vars => HerdInputs'
<1> SUFFICES ASSUME HerdInputs, [Next]_vars, screen' = "herd" PROVE HerdInputs'
  BY DEF HerdInputs
<1>1. CASE UNCHANGED <<screen, shown>>
  BY <1>1 DEF HerdInputs
<1>2. ASSUME screen = "herd", shown' \in AnimalInputs, shown'.species = shown.species,
             shown'.feedType = shown.feedType
      PROVE  HerdInputs'
  BY <1>2 DEF HerdInputs
<1>3. ASSUME NEW key \in {"count", "bonus", "grassHarvests", "sellCount", "boughtShare"},
             NEW text \in TypedIn(key), TypeNumber(key, text)
      PROVE  HerdInputs'
  <2>1. PICK in \in AnimalInputs : in = shown
    BY <1>3 DEF HerdInputs, TypeNumber
  <2>2. PICK x \in Int : x = Stored(text)
    BY OneAssumption, InputsAssumption
       DEF TypedIn, Typed, TypedShares, Stored, OrElse
  <2>3. screen = "herd" /\ shown' = [in EXCEPT ![key] = x]
    BY <1>3, <2>1, <2>2 DEF TypeNumber, Show
  <2>4. \/ shown' = [in EXCEPT !.count = x] \/ shown' = [in EXCEPT !.bonus = x]
        \/ shown' = [in EXCEPT !.grassHarvests = x]
        \/ shown' = [in EXCEPT !.sellCount = x] \/ shown' = [in EXCEPT !.boughtShare = x]
    BY <2>3
  <2>5. shown' \in AnimalInputs /\ shown'.species = in.species
        /\ shown'.feedType = in.feedType
    BY <2>4 DEF AnimalInputs
  <2> QED
    BY <1>2, <2>1, <2>3, <2>5
<1>4. CASE PickFeedType
  <2>1. PICK in \in AnimalInputs : in = shown
    BY <1>4 DEF HerdInputs, PickFeedType
  <2>2. PICK type \in FeedTypes : screen = "herd" /\ shown' = [in EXCEPT !.feedType = type]
    BY <1>4, <2>1 DEF PickFeedType, Show, FeedTypesOffered
  <2>3. "feedType" \in Visible(in.species) /\ type # None
    BY <1>4, <2>1, NamesAssumption DEF PickFeedType
  <2>4. shown' \in AnimalInputs /\ shown'.species = in.species /\ shown'.feedType = type
    BY <2>2 DEF AnimalInputs
  <2>5. in.species \in Ruminants
    <3>1. in.species \in SpeciesAll
      BY DEF AnimalInputs
    <3> QED
      BY <2>3, <3>1 DEF Visible, SpeciesAll, Ruminants
  <2> QED
    BY <2>1, <2>2, <2>3, <2>4, <2>5 DEF HerdInputs
<1>5. CASE PickCrop
  <2>1. PICK in \in AnimalInputs : in = shown
    BY <1>5 DEF HerdInputs, PickCrop
  <2>0. PICK p \in Picks : \E crop \in CropsOffered(AnimalTypes[in.species], p) :
          screen = "herd" /\ shown' = [in EXCEPT !.pick[p] = crop]
    BY <1>5, <2>1 DEF PickCrop, Show
  <2>2. PICK crop \in CropsOffered(AnimalTypes[in.species], p) :
          screen = "herd" /\ shown' = [in EXCEPT !.pick[p] = crop]
    BY <2>0
  <2>3. crop \in CropNames
    <3>1. IsAnimalType(AnimalTypes[in.species])
      BY <2>1, <2>2, AnimalTypeFacts DEF HerdInputs
    <3> QED
      BY <2>2, <3>1 DEF CropsOffered, IsAnimalType, Range
  <2>4. shown' \in AnimalInputs /\ shown'.species = in.species
        /\ shown'.feedType = in.feedType
    BY <2>2, <2>3 DEF AnimalInputs
  <2> QED
    BY <1>2, <2>1, <2>2, <2>4
<1>6. CASE PickSilage
  <2>1. PICK in \in AnimalInputs : in = shown
    BY <1>6 DEF HerdInputs, PickSilage
  <2>2. PICK crop \in Range(AnimalTypes[in.species].silageCrops) :
          screen = "herd" /\ shown' = [in EXCEPT !.silageCrop = crop]
    BY <1>6, <2>1 DEF PickSilage, Show
  <2>3. crop \in CropNames
    <3>1. IsAnimalType(AnimalTypes[in.species])
      BY <2>1, <2>2, AnimalTypeFacts DEF HerdInputs
    <3> QED
      BY <2>2, <3>1 DEF IsAnimalType, Range
  <2>4. shown' \in AnimalInputs /\ shown'.species = in.species
        /\ shown'.feedType = in.feedType
    BY <2>2, <2>3 DEF AnimalInputs
  <2> QED
    BY <1>2, <2>1, <2>2, <2>4
<1>7. CASE ToggleStraw
  <2>1. PICK in \in AnimalInputs : in = shown
    BY <1>7 DEF HerdInputs, ToggleStraw
  <2>2. screen = "herd" /\ shown' = [in EXCEPT !.straw = ~in.straw]
    BY <1>7, <2>1 DEF ToggleStraw, Show
  <2>3. shown' \in AnimalInputs /\ shown'.species = in.species
        /\ shown'.feedType = in.feedType
    BY <2>2 DEF AnimalInputs
  <2> QED
    BY <1>2, <2>1, <2>2, <2>3
<1>8. QED
  <2>1. ASSUME NEW id \in Ids, EditField(id) \/ EditStable(id) \/ RemoveRow(id)
        PROVE  FALSE
    BY <2>1 DEF EditField, EditStable, RemoveRow, Show
  <2>2. ASSUME NEW b \in Ids, NEW c \in Ids, EditChain(b, c) \/ RemoveChain(b, c)
        PROVE  FALSE
    BY <2>2 DEF EditChain, RemoveChain, Show
  <2>3. ASSUME NEW x, ToggleMachine(x) \/ SetArea(x) \/ SetEfficiency(x)
        PROVE  FALSE
    BY <2>3 DEF ToggleMachine, SetArea, SetEfficiency, Show
  <2>4. CASE ChangeFarm
    BY <1>1, <2>4 DEF ChangeFarm
  <2>5. CASE UNCHANGED vars
    BY <1>1, <2>5 DEF vars
  <2> QED
    BY <1>3, <1>4, <1>5, <1>6, <1>7, <2>1, <2>2, <2>3, <2>4, <2>5 DEF Next

LEMMA HerdInvariance == Spec => []HerdInputs
BY HerdInputsInit, HerdInputsStep, PTL DEF Spec
-----------------------------------------------------------------------------
(* The results of the screens are those the engine declares.                 *)
LEMMA RatioSumIsPositive ==
  ASSUME NEW S, IsFiniteSet(S), NEW g, \A x \in S : g[x].n \in Nat /\ g[x].d \in Nat \ {0}
  PROVE  RatioSum(g, S).n \in Nat /\ RatioSum(g, S).d \in Nat \ {0}
<1> DEFINE Good == {u \in SUBSET S :
              RatioSum(g, u).n \in Nat /\ RatioSum(g, u).d \in Nat \ {0}}
<1>1. {} \in Good
  BY RatioSumEmpty DEF Zero, Ratio
<1>2. ASSUME NEW u, u \subseteq S, IsFiniteSet(u), u # {}, Pick(u) \in u,
             u \ {Pick(u)} \in Good
      PROVE  u \in Good
  <2>1. PICK p \in S : p = Pick(u)
    BY <1>2
  <2>2. PICK rest : rest = RatioSum(g, u \ {p})
    OBVIOUS
  <2>3. RatioSum(g, u) = Plus(g[p], rest)
    BY <1>2, <2>1, <2>2, RatioSumStep
  <2>4. /\ rest.n \in Nat /\ rest.d \in Nat \ {0}
        /\ g[p].n \in Nat /\ g[p].d \in Nat \ {0}
    BY <1>2, <2>1, <2>2
  <2>5. /\ g[p].n * rest.d + rest.n * g[p].d \in Nat /\ g[p].n + rest.n \in Nat
        /\ g[p].d * rest.d \in Nat \ {0}
    BY <2>4
  <2>6. Plus(g[p], rest).n \in Nat /\ Plus(g[p], rest).d \in Nat \ {0}
    BY <2>4, <2>5 DEF Plus, Ratio
  <2> QED
    BY <1>2, <2>3, <2>6
<1>3. S \in Good
  <2> HIDE DEF Good
  <2> QED
    BY <1>1, <1>2, PickInduction
<1>4. QED
  BY <1>3

ChainsTake(B, s) == SumRatios(Resolvable(B), LAMBDA c : ChainInput(B, c, s))
ChainsGive(B, s) == SumRatios(Resolvable(B), LAMBDA c : ChainOutput(B, c, s))

LEMMA ProductionResults ==
  ASSUME NEW B, IsBuilding(B)
  PROVE  IsProductionResult(ProductionProjection(B))
<1>1. PICK S \in SUBSET Ids : S = Resolvable(B)
  BY DEF Resolvable, IsBuilding
<1>2. IsFiniteSet(S)
  BY RowsAssumption, FS_Subset
<1>3. PICK m \in Nat \ {0} : m = Month(B)
  BY MonthIsPositive
<1>4. ASSUME NEW s
      PROVE  /\ ChainsTake(B, s).n \in Nat /\ ChainsTake(B, s).d > 0
             /\ ChainsGive(B, s).n \in Nat /\ ChainsGive(B, s).d > 0
  <2>1. PICK p : p = [c \in S |-> ChainInput(B, c, s)]
    OBVIOUS
  <2>2. PICK q : q = [c \in S |-> ChainOutput(B, c, s)]
    OBVIOUS
  <2>3. \A c \in S : InParts(p[c], m) /\ InParts(q[c], m)
    BY <1>1, <1>3, <2>1, <2>2, ChainQuantities
  <2>4. \A c \in S : p[c].n \in Nat /\ p[c].d \in Nat \ {0}
    BY <2>3 DEF InParts
  <2>5. \A c \in S : q[c].n \in Nat /\ q[c].d \in Nat \ {0}
    BY <2>3 DEF InParts
  <2>6. ChainsTake(B, s) = RatioSum(p, S)
    BY <1>1, <2>1 DEF ChainsTake, SumRatios, FoldFunction, RatioSum
  <2>7. ChainsGive(B, s) = RatioSum(q, S)
    BY <1>1, <2>2 DEF ChainsGive, SumRatios, FoldFunction, RatioSum
  <2>8. RatioSum(p, S).n \in Nat /\ RatioSum(p, S).d \in Nat \ {0}
    BY <1>2, <2>4, RatioSumIsPositive
  <2>9. RatioSum(q, S).n \in Nat /\ RatioSum(q, S).d \in Nat \ {0}
    BY <1>2, <2>5, RatioSumIsPositive
  <2> QED
    BY <2>6, <2>7, <2>8, <2>9
<1>5. Cardinality(ActiveChains(B)) \in Nat
  <2>1. PICK A \in SUBSET S : A = ActiveChains(B)
    BY <1>1 DEF ActiveChains
  <2>2. IsFiniteSet(A)
    BY <1>2, FS_Subset
  <2> QED
    BY <2>1, <2>2, FS_CardinalityType
<1>6. PICK r : r = ProductionProjection(B)
  OBVIOUS
<1>7. ASSUME NEW s \in Slugs(B)
      PROVE  /\ r.inputs[s].n \in Nat /\ r.inputs[s].d > 0
             /\ r.outputs[s].n \in Nat /\ r.outputs[s].d > 0
  <2>1. r.inputs[s] = ChainsTake(B, s) /\ r.outputs[s] = ChainsGive(B, s)
    BY <1>6 DEF ProductionProjection, ChainsTake, ChainsGive
  <2> QED
    BY <1>4, <2>1
<1>8. r.activeCount \in Nat /\ DOMAIN r.inputs = Slugs(B) /\ DOMAIN r.outputs = Slugs(B)
  BY <1>5, <1>6 DEF ProductionProjection
<1>9. IsProductionResult(r)
  BY <1>7, <1>8 DEF IsProductionResult
<1>10. QED
  BY <1>6, <1>9

LEMMA SpeedResults ==
  ASSUME NEW T \in SUBSET DOMAIN Machines, NEW area \in Nat \cup {None},
         NEW e \in MinEfficiency .. MaxEfficiency
  PROVE  IsWorkSpeedResult(WorkSpeedProjection(Restrict(Machines, T), area, e))
<1>1. PICK team : team = Restrict(Machines, T)
  OBVIOUS
<1>2. PICK r : r = WorkSpeedProjection(team, area, e)
  OBVIOUS
<1>3. PICK h \in Nat : h = IF area # None /\ area > 0 THEN area ELSE 0
  OBVIOUS
<1>4. DOMAIN team = T /\ \A m \in T : team[m] = Machines[m]
  BY <1>1 DEF Restrict
<1>5. e \in Nat /\ 1 \in Nat
  BY OneAssumption DEF MinEfficiency, MaxEfficiency
<1>6. ClampEfficiency(e) = e
  BY NoneAssumption, OneAssumption
     DEF ClampEfficiency, Clamp, MinEfficiency, MaxEfficiency
<1>7. PICK w \in Nat : w = TeamWork(T, e)
  BY <1>5, TeamWorkIsNat
<1>8. PICK v \in Nat : v = TeamWork(T, 1)
  BY TeamWorkIsNat
<1>9. TeamCapacity(team, e) = w /\ TeamCapacity(team, 1) = v
  BY <1>1, <1>5, <1>7, <1>8, TeamWorks
<1>10. /\ r.hectares = h /\ r.efficiency = e /\ r.capacity = v /\ r.effective = w
       /\ r.workHours = WorkHours(h, w) /\ DOMAIN r.machines = T
       /\ r.workHours = None => r.hours = None /\ r.minutes = None
  BY <1>2, <1>3, <1>4, <1>6, <1>9 DEF WorkSpeedProjection
<1>11. ASSUME r.workHours # None
       PROVE  /\ r.workHours.n > 0 /\ r.workHours.d > 0
              /\ r.hours \in Nat /\ r.minutes \in Nat
  <2>1. PICK t : t = r.workHours
    OBVIOUS
  <2>2. t.n \in Nat \ {0} /\ t.d \in Nat \ {0}
    BY <1>10, <1>11, <2>1, HoursAreRatios
  <2>3. r.hours = HoursAndMinutes(t).hours /\ r.minutes = HoursAndMinutes(t).minutes
    BY <1>1, <1>2, <1>11, <2>1, Projects
  <2>4. t.n \in Nat /\ t.d \in Nat \ {0}
    BY <2>2
  <2>5. HoursAndMinutes(t).minutes \in 0 .. 59 /\ HoursAndMinutes(t).hours \in Nat
    BY <2>4, ClockIsRight
  <2> QED
    BY <2>1, <2>2, <2>3, <2>5
<1>12. ASSUME NEW m \in T
       PROVE  /\ r.machines[m].soloHours # None =>
                   r.machines[m].soloHours.n > 0 /\ r.machines[m].soloHours.d > 0
              /\ AtMost(Zero, r.machines[m].share)
              /\ AtMost(r.machines[m].share, Ratio(1, 1))
  <2>1. PICK x \in Nat : x = TeamWork({m}, e)
    BY <1>5, TeamWorkIsNat
  <2>2. x = Capacity(team[m]) * e
    BY <1>4, <1>5, <2>1, TeamOfOne
  <2>3. x <= w
    <3>1. {m} \in SUBSET T /\ e \in 0 .. e
      BY <1>5
    <3> QED
      BY <1>5, <1>7, <2>1, <3>1, TeamWorkGrows
  <2>4. /\ r.machines[m].soloHours = WorkHours(h, x)
        /\ r.machines[m].share = IF w > 0 THEN Ratio(x, w) ELSE Zero
    BY <1>2, <1>3, <1>4, <1>6, <1>9, <2>2 DEF WorkSpeedProjection
  <2>5. WorkHours(h, x) # None => WorkHours(h, x).n > 0 /\ WorkHours(h, x).d > 0
    BY HoursAreRatios
  <2>6. AtMost(Zero, r.machines[m].share) /\ AtMost(r.machines[m].share, Ratio(1, 1))
    BY <2>3, <2>4 DEF AtMost, Zero, Ratio
  <2> QED
    BY <2>4, <2>5, <2>6
<1>13. QED
  BY <1>1, <1>2, <1>5, <1>10, <1>11, <1>12 DEF IsWorkSpeedResult
-----------------------------------------------------------------------------
(* What a herd gives and takes.                                              *)
IsHerd(in) ==
  /\ in \in AnimalInputs /\ in.species \in DOMAIN AnimalTypes
  /\ in.feedType = None <=> in.species \notin Ruminants

LEMMA FactorsAreNat ==
  ASSUME NEW in, IsHerd(in), NEW a, a = AnimalTypes[in.species]
  PROVE  ProductMultiplier(a, in) \in Nat
<1>1. IsAnimalType(a) /\ a.species = in.species
  BY AnimalCatalogAssumption DEF IsHerd
<1>2. PICK n \in Nat : n = FeedFactor(a, in.feedType)
  BY <1>1, OneAssumption DEF FeedFactor, IsAnimalType
<1>3. PICK m \in Nat : m = StrawFactor(in.straw)
  BY OneAssumption, AnimalCatalogAssumption DEF StrawFactor
<1>4. n * m \in Nat /\ n * One \in Nat /\ One * One \in Nat
  BY OneAssumption
<1>5. CASE a.species = "cow"
  BY <1>2, <1>3, <1>4, <1>5 DEF ProductMultiplier
<1>6. CASE a.species = "buffalo"
  BY <1>2, <1>4, <1>6 DEF ProductMultiplier
<1>7. CASE a.species \notin {"cow", "buffalo"}
  BY <1>4, <1>7 DEF ProductMultiplier
<1>8. QED
  BY <1>5, <1>6, <1>7

LEMMA HerdAmounts ==
  ASSUME NEW in, IsHerd(in), NEW f, NEW a, a = AnimalTypes[in.species]
  PROVE  /\ \A key \in DOMAIN Production(a, in, f) :
              key \in RateKeys /\ Production(a, in, f)[key] \in Int
         /\ \A key \in DOMAIN Consumption(a, in) :
              key \in RateKeys /\ Consumption(a, in)[key] \in Int
         /\ \A key : PerYear(Production(a, in, f), key) \in Int
         /\ \A key : PerYear(Consumption(a, in), key) \in Int
<1>1. /\ IsAnimalType(a) /\ in.count \in Int
      /\ \A key \in DOMAIN a.rates : key \in RateKeys /\ a.rates[key] \in Int
  BY AnimalCatalogAssumption DEF IsHerd, IsAnimalType, AnimalInputs
<1>2. BuffaloSlurry \in Nat /\ One \in Nat
  BY OneAssumption, AnimalCatalogAssumption
<1>3. \A key \in DOMAIN a.rates : a.rates[key] < 0 <=> key \in {"food", "straw"}
  BY RationsAssumption DEF IsHerd
<1>4. ASSUME NEW key \in DOMAIN Production(a, in, f)
      PROVE  key \in RateKeys /\ Production(a, in, f)[key] \in Int
  <2>1. key \in DOMAIN a.rates /\ a.rates[key] \in Nat
    BY <1>1 DEF Production
  <2>2. PICK rate \in Nat : rate = a.rates[key]
    BY <2>1
  <2>3. PICK gated \in Nat : gated = GatedRate(a.species, key, rate, in.straw)
    BY <1>2 DEF GatedRate
  <2>4. PICK m \in Nat : m = ProductMultiplier(a, in)
    BY FactorsAreNat
  <2>5. Production(a, in, f)[key]
          = in.count * IF key \in ProductKeys(a) THEN rate * m ELSE gated * One * One
    BY <2>2, <2>3, <2>4 DEF Production
  <2>6. rate * m \in Nat /\ gated * One * One \in Nat
    BY <1>2
  <2>7. PICK x \in Nat : x = IF key \in ProductKeys(a) THEN rate * m ELSE gated * One * One
    BY <2>6
  <2>8. in.count * x \in Int
    BY <1>1
  <2> QED
    BY <1>1, <2>1, <2>5, <2>7, <2>8
<1>5. ASSUME NEW key \in DOMAIN Consumption(a, in)
      PROVE  key \in RateKeys /\ Consumption(a, in)[key] \in Int
  <2>1. /\ key \in DOMAIN a.rates /\ a.rates[key] < 0
        /\ Consumption(a, in)[key]
             = -GatedRate(a.species, key, a.rates[key], in.straw) * in.count
    BY DEF Consumption
  <2>2. PICK rate \in Int : rate = a.rates[key] /\ rate < 0
    BY <1>1, <2>1
  <2>3. PICK gated \in Int : gated = GatedRate(a.species, key, rate, in.straw) /\ gated <= 0
    BY <1>3, <2>1, <2>2 DEF GatedRate
  <2>4. PICK x \in Nat : x = -gated
    BY <2>3
  <2>5. x * in.count \in Int
    BY <1>1
  <2> QED
    BY <1>1, <2>1, <2>2, <2>3, <2>4, <2>5
<1>6. \A n \in Int : n * MonthsPerYear \in Int
  BY DEF MonthsPerYear
<1>7. QED
  BY <1>4, <1>5, <1>6 DEF PerYear

\* What a need takes of the land: liters over a yield that grows with the bonus,
\* straw's apart.
Factor(slug, b) == IF slug = "straw" THEN One ELSE One + b
Entry(p, k, b) ==
  [key |-> k, slug |-> p.slug[k], liters |-> p.liters[k],
   area |-> AreaFor(p.liters[k], p.base[k] * Factor(p.slug[k], b)),
   cost |-> p.cost[k]]
Entries(p, b) == {Entry(p, k, b) : k \in p.keys}
IsPlan(p) ==
  /\ p.keys \in SUBSET FieldworkKeys
  /\ \A k \in p.keys : /\ p.slug[k] \in CropNames \cup {None} /\ p.liters[k] \in Nat
                       /\ p.base[k] \in Int /\ p.cost[k] \in Nat

CropBase(slug) == IF slug \in DOMAIN Crops THEN Crops[slug].yield ELSE 0
SilageBase(slug) ==
  IF slug \in DOMAIN SilageCrops THEN SilageCrops[slug].yield * SilageCrops[slug].chaff
                                 ELSE 0

LEMMA YieldsHaveABase ==
  ASSUME NEW slug, NEW b \in Int
  PROVE  /\ CropBase(slug) \in Nat /\ CropYield(slug, b) = CropBase(slug) * Factor(slug, b)
         /\ SilageBase(slug) \in Nat
         /\ SilageYield(slug, b) = SilageBase(slug) * Factor(slug, b)
<1>1. \A x \in Nat : x * One \in Nat /\ 0 * One = 0 /\ 0 * (One + b) = 0
  BY OneAssumption
<1>2. /\ slug \in DOMAIN Crops => Crops[slug].yield \in Nat
      /\ slug \in DOMAIN SilageCrops =>
           SilageCrops[slug].yield \in Nat /\ SilageCrops[slug].chaff \in Nat
  BY CropCatalogAssumption DEF EngineCrop, EngineSilageCrop
<1>3. slug = "straw" => slug \notin DOMAIN Crops /\ slug \notin DOMAIN SilageCrops
  BY RationsAssumption
<1>4. CropBase(slug) \in Nat /\ CropYield(slug, b) = CropBase(slug) * Factor(slug, b)
  BY <1>1, <1>2, <1>3 DEF CropBase, CropYield, Factor
<1>5. SilageBase(slug) \in Nat
      /\ SilageYield(slug, b) = SilageBase(slug) * Factor(slug, b)
  BY <1>1, <1>2, <1>3 DEF SilageBase, SilageYield, Factor
<1>6. QED
  BY <1>4, <1>5

LEMMA EntryOfGrass ==
  ASSUME NEW p, NEW k, NEW b \in Int, NEW in, NEW h \in Int,
         OrElse(in.grassHarvests, 1) = h, p.slug[k] = "grass",
         p.base[k] = GrassYield * h, p.cost[k] = 0
  PROVE  Entry(p, k, b) = GrassNeed(k, in, b, p.liters[k])
<1>1. GrassYield \in Nat /\ One + b \in Int
  BY OneAssumption, AnimalCatalogAssumption
<1>2. (GrassYield * h) * (One + b) = GrassYield * (One + b) * h
  BY <1>1
<1>3. Factor(p.slug[k], b) = One + b
  BY DEF Factor
<1>4. QED
  BY <1>2, <1>3 DEF Entry, GrassNeed, Need

LEMMA EntryOfStraw ==
  ASSUME NEW p, NEW k, NEW b \in Int, p.slug[k] = "straw",
         p.base[k] = StrawYield, p.cost[k] = 0
  PROVE  Entry(p, k, b) = StrawNeed(k, p.liters[k], b)
BY DEF Entry, StrawNeed, Need, Factor

LEMMA EntryBought ==
  ASSUME NEW p, NEW k, NEW b \in Int, NEW price, p.base[k] = 0,
         p.cost[k] = p.liters[k] * price
  PROVE  Entry(p, k, b) = Bought(k, p.slug[k], p.liters[k], price)
<1>1. 0 * Factor(p.slug[k], b) = 0
  BY OneAssumption DEF Factor
<1>2. QED
  BY <1>1 DEF Entry, Bought, AreaFor

LEMMA EntryOfCrop ==
  ASSUME NEW p, NEW k, NEW b \in Int, NEW slug, p.slug[k] = slug, p.cost[k] = 0
  PROVE  /\ p.base[k] = CropBase(slug) =>
              Entry(p, k, b) = Need(k, slug, p.liters[k], CropYield(slug, b))
         /\ p.base[k] = SilageBase(slug) =>
              Entry(p, k, b) = Need(k, slug, p.liters[k], SilageYield(slug, b))
<1>1. /\ CropYield(slug, b) = CropBase(slug) * Factor(slug, b)
      /\ SilageYield(slug, b) = SilageBase(slug) * Factor(slug, b)
  BY YieldsHaveABase
<1>2. QED
  BY <1>1 DEF Entry, Need

\* What is listed of the food of a herd: the liters of all entries but bedding.
Listed(p) == SumFunctionOnSet(p.liters, p.keys \ {"straw-bedding"})

LEMMA SumAdd ==
  ASSUME NEW S, IsFiniteSet(S), NEW x, x \notin S, NEW g, g[x] \in Int,
         \A y \in S : g[y] \in Int
  PROVE  SumFunctionOnSet(g, {x} \cup S) = g[x] + SumFunctionOnSet(g, S)
<1>1. PICK T : T = {x} \cup S
  OBVIOUS
<1>2. x \in T /\ T \ {x} = S /\ \A y \in T : g[y] \in Int
  BY <1>1
<1>3. IsFiniteSet(T)
  BY <1>1, FS_AddElement
<1>4. QED
  BY <1>1, <1>2, <1>3, SumTake

LEMMA SumOfTwo ==
  ASSUME NEW g, NEW x, NEW y, x # y, g[x] \in Int, g[y] \in Int, NEW S, S = {x, y}
  PROVE  IsFiniteSet(S) /\ SumFunctionOnSet(g, S) = g[x] + g[y]
<1>1. PICK rest : rest = S \ {x}
  OBVIOUS
<1>2. rest = {y} /\ rest \ {y} = {} /\ x \in S /\ y \in rest
  BY <1>1
<1>3. IsFiniteSet(rest)
  BY <1>2, FS_Singleton
<1>4. IsFiniteSet(S)
  <2>1. S = rest \cup {x}
    BY <1>1
  <2> QED
    BY <1>3, <2>1, FS_AddElement
<1>5. SumFunctionOnSet(g, S) = g[x] + SumFunctionOnSet(g, S \ {x})
  <2>1. \A z \in S : g[z] \in Int
    OBVIOUS
  <2> QED
    BY <1>2, <1>4, <2>1, SumTake
<1>6. SumFunctionOnSet(g, rest) = g[y] + SumFunctionOnSet(g, rest \ {y})
  <2>1. \A z \in rest : g[z] \in Int
    BY <1>2
  <2> QED
    BY <1>2, <1>3, <2>1, SumTake
<1>7. SumFunctionOnSet(g, rest \ {y}) = 0
  BY <1>2, SumEmpty
<1>8. QED
  BY <1>1, <1>4, <1>5, <1>6, <1>7

\* The plan of a mixed ration: hay, silage, straw and minerals, and the bedding.
IsMixedRation(p, a, crop, h, food, bedding) ==
  \A in : \A b \in Int :
    /\ in.feedType = "tmr" /\ OrElse(in.grassHarvests, 1) = h
    /\ OrElse(in.silageCrop, First(a.silageCrops)) = crop
    => RuminantFieldwork(a, in, b, food, bedding) = Entries(p, b)

LEMMA MixedRation ==
  ASSUME NEW a, IsAnimalType(a), a.ratios # None,
         DOMAIN a.ratios = {"hay", "silage", "straw", "mineral"},
         a.ratios.hay + a.ratios.silage + a.ratios.straw + a.ratios.mineral = One,
         NEW crop \in CropNames, NEW h \in Int, NEW food \in Nat, food > 0,
         NEW bedding \in Nat
  PROVE  \E p : /\ IsPlan(p) /\ Listed(p) = food * One
                /\ IsMixedRation(p, a, crop, h, food, bedding)
<1>1. PICK hay \in Nat, silage \in Nat, straw \in Nat, mineral \in Nat :
        /\ hay = a.ratios.hay /\ silage = a.ratios.silage
        /\ straw = a.ratios.straw /\ mineral = a.ratios.mineral
  BY DEF IsAnimalType
<1> DEFINE Four == {"hay", "tmr-straw", "mineralFeed", "silage"}
<1>2. PICK K : K = Four \cup (IF bedding > 0 THEN {"straw-bedding"} ELSE {})
  OBVIOUS
<1>3. PICK liters : liters = [k \in K |->
        CASE k = "hay" -> food * hay [] k = "tmr-straw" -> food * straw
          [] k = "mineralFeed" -> food * mineral [] k = "silage" -> food * silage
          [] OTHER -> bedding * One]
  OBVIOUS
<1>4. PICK slug : slug = [k \in K |->
        CASE k = "hay" -> "grass" [] k = "mineralFeed" -> "mineralFeed"
          [] k = "silage" -> crop [] OTHER -> "straw"]
  OBVIOUS
<1>5. PICK base : base = [k \in K |->
        CASE k = "hay" -> GrassYield * h [] k = "mineralFeed" -> 0
          [] k = "silage" -> SilageBase(crop) [] OTHER -> StrawYield]
  OBVIOUS
<1>6. PICK cost : cost = [k \in K |->
        IF k = "mineralFeed" THEN food * mineral * MineralFeedPrice ELSE 0]
  OBVIOUS
<1>7. PICK p : p = [keys |-> K, liters |-> liters, slug |-> slug, base |-> base,
                    cost |-> cost]
  OBVIOUS
<1>8. /\ p.keys = K /\ Four \subseteq K
      /\ p.liters["hay"] = food * hay /\ p.liters["tmr-straw"] = food * straw
      /\ p.liters["mineralFeed"] = food * mineral /\ p.liters["silage"] = food * silage
  BY <1>2, <1>3, <1>7
<1>9. /\ p.slug["hay"] = "grass" /\ p.slug["tmr-straw"] = "straw"
      /\ p.slug["mineralFeed"] = "mineralFeed" /\ p.slug["silage"] = crop
  BY <1>2, <1>4, <1>7
<1>10. /\ p.base["hay"] = GrassYield * h /\ p.base["tmr-straw"] = StrawYield
       /\ p.base["mineralFeed"] = 0 /\ p.base["silage"] = SilageBase(crop)
  BY <1>2, <1>5, <1>7
<1>11. /\ p.cost["hay"] = 0 /\ p.cost["tmr-straw"] = 0 /\ p.cost["silage"] = 0
       /\ p.cost["mineralFeed"] = food * mineral * MineralFeedPrice
  BY <1>2, <1>6, <1>7
<1>12. "straw-bedding" \in K =>
         /\ p.liters["straw-bedding"] = bedding * One /\ p.slug["straw-bedding"] = "straw"
         /\ p.base["straw-bedding"] = StrawYield /\ p.cost["straw-bedding"] = 0
  BY <1>3, <1>4, <1>5, <1>6, <1>7
<1>13. /\ food * hay \in Nat /\ food * straw \in Nat /\ food * mineral \in Nat
       /\ food * silage \in Nat /\ bedding * One \in Nat /\ GrassYield * h \in Int
       /\ food * mineral * MineralFeedPrice \in Nat /\ StrawYield \in Nat
       /\ SilageBase(crop) \in Nat
  <2>1. GrassYield \in Nat /\ StrawYield \in Nat /\ MineralFeedPrice \in Nat /\ One \in Nat
    BY OneAssumption, AnimalCatalogAssumption
  <2>2. SilageBase(crop) \in Nat
    BY 0 \in Int, YieldsHaveABase
  <2> QED
    BY <2>1, <2>2
<1>14. IsPlan(p)
  <2>1. K \in SUBSET FieldworkKeys
    BY <1>2 DEF FieldworkKeys
  <2>2. ASSUME NEW k \in K
        PROVE  /\ p.slug[k] \in CropNames \cup {None} /\ p.liters[k] \in Nat
               /\ p.base[k] \in Int /\ p.cost[k] \in Nat
    BY <1>2, <1>8, <1>9, <1>10, <1>11, <1>12, <1>13, NamesAssumption
  <2> QED
    BY <1>8, <2>1, <2>2 DEF IsPlan
<1>15. Listed(p) = food * One
  <2>1. PICK g : g = p.liters
    OBVIOUS
  <2>2. /\ g["hay"] \in Int /\ g["tmr-straw"] \in Int
        /\ g["mineralFeed"] \in Int /\ g["silage"] \in Int
    BY <1>8, <1>13, <2>1
  <2>3. PICK two : two = {"mineralFeed", "silage"}
    OBVIOUS
  <2>4. IsFiniteSet(two) /\ SumFunctionOnSet(g, two) = g["mineralFeed"] + g["silage"]
    BY <2>2, <2>3, SumOfTwo
  <2>5. IsFiniteSet({"tmr-straw"} \cup two)
    <3>1. IsFiniteSet(two \cup {"tmr-straw"})
      BY <2>4, FS_AddElement
    <3>2. two \cup {"tmr-straw"} = {"tmr-straw"} \cup two
      OBVIOUS
    <3> QED
      BY <3>1, <3>2
  <2>6. SumFunctionOnSet(g, {"tmr-straw"} \cup two)
          = g["tmr-straw"] + SumFunctionOnSet(g, two)
    <3>1. "tmr-straw" \notin two /\ \A y \in two : g[y] \in Int
      BY <2>2, <2>3
    <3> QED
      BY <2>2, <2>4, <3>1, SumAdd
  <2>7. PICK three : three = {"tmr-straw"} \cup two
    OBVIOUS
  <2>8. SumFunctionOnSet(g, {"hay"} \cup three) = g["hay"] + SumFunctionOnSet(g, three)
    <3>1. "hay" \notin three /\ \A y \in three : g[y] \in Int
      BY <2>2, <2>3, <2>7
    <3> QED
      BY <2>2, <2>5, <2>7, <3>1, SumAdd
  <2>9. p.keys \ {"straw-bedding"} = {"hay"} \cup three
    BY <1>2, <1>8, <2>3, <2>7
  <2>10. food * hay + (food * straw + (food * mineral + food * silage))
           = food * (hay + silage + straw + mineral)
    OBVIOUS
  <2> QED
    BY <1>1, <1>8, <2>1, <2>4, <2>6, <2>7, <2>8, <2>9, <2>10 DEF Listed
<1>16. ASSUME NEW in, NEW b \in Int, in.feedType = "tmr",
              OrElse(in.grassHarvests, 1) = h,
              OrElse(in.silageCrop, First(a.silageCrops)) = crop
       PROVE  RuminantFieldwork(a, in, b, food, bedding) = Entries(p, b)
  <2>1. Entry(p, "hay", b) = GrassNeed("hay", in, b, food * hay)
    BY <1>8, <1>9, <1>10, <1>11, <1>16, EntryOfGrass
  <2>2. Entry(p, "tmr-straw", b) = StrawNeed("tmr-straw", food * straw, b)
    BY <1>8, <1>9, <1>10, <1>11, EntryOfStraw
  <2>3. Entry(p, "mineralFeed", b)
          = Bought("mineralFeed", "mineralFeed", food * mineral, MineralFeedPrice)
    <3>1. PICK key : key = "mineralFeed"
      OBVIOUS
    <3>2. p.base[key] = 0 /\ p.cost[key] = p.liters[key] * MineralFeedPrice
      BY <1>8, <1>10, <1>11, <3>1
    <3>3. Entry(p, key, b) = Bought(key, p.slug[key], p.liters[key], MineralFeedPrice)
      BY <3>2, EntryBought
    <3> QED
      BY <1>8, <1>9, <3>1, <3>3
  <2>4. Entry(p, "silage", b) = Need("silage", crop, food * silage, SilageYield(crop, b))
    BY <1>8, <1>9, <1>10, <1>11, EntryOfCrop
  <2>5. "straw-bedding" \in K =>
          Entry(p, "straw-bedding", b) = StrawNeed("straw-bedding", bedding * One, b)
    BY <1>12, EntryOfStraw
  <2>6. RuminantFieldwork(a, in, b, food, bedding)
          = {GrassNeed("hay", in, b, food * hay), StrawNeed("tmr-straw", food * straw, b),
             Bought("mineralFeed", "mineralFeed", food * mineral, MineralFeedPrice)}
            \cup {Need("silage", crop, food * silage, SilageYield(crop, b))}
            \cup (IF bedding > 0
                  THEN {StrawNeed("straw-bedding", bedding * One, b)} ELSE {})
    <3>1. in.feedType # None /\ crop # None
      BY <1>16, NamesAssumption DEF FeedTypes
    <3>2. OrElse(in.feedType, "tmr") = "tmr"
      BY <1>16 DEF OrElse
    <3> QED
      BY <1>1, <1>16, <3>1, <3>2 DEF RuminantFieldwork
  <2>7. Entries(p, b)
          = {Entry(p, "hay", b), Entry(p, "tmr-straw", b), Entry(p, "mineralFeed", b),
             Entry(p, "silage", b)}
            \cup (IF bedding > 0 THEN {Entry(p, "straw-bedding", b)} ELSE {})
    BY <1>2, <1>8 DEF Entries
  <2> QED
    BY <1>2, <2>1, <2>2, <2>3, <2>4, <2>5, <2>6, <2>7
<1>17. QED
  BY <1>14, <1>15, <1>16 DEF IsMixedRation

\* The plan of a herd that eats nothing, one kind of grass, or grass and silage.
LEMMA NoRation ==
  \E p : IsPlan(p) /\ p.keys = {} /\ Listed(p) = 0 /\ \A b : Entries(p, b) = {}
<1>1. PICK p : p = [keys |-> {}, liters |-> <<>>, slug |-> <<>>, base |-> <<>>, cost |-> <<>>]
  OBVIOUS
<1>2. p.keys = {}
  BY <1>1
<1>3. p.keys \ {"straw-bedding"} = {}
  BY <1>2
<1>4. Listed(p) = 0
  BY <1>3, SumEmpty DEF Listed
<1>5. QED
  BY <1>2, <1>4 DEF IsPlan, Entries

IsGrassRation(p, key, h, liters) ==
  \A in : \A b \in Int : OrElse(in.grassHarvests, 1) = h =>
    {GrassNeed(key, in, b, liters)} = Entries(p, b)

LEMMA GrassRation ==
  ASSUME NEW key \in {"hay", "grass"}, NEW h \in Int, NEW liters \in Nat
  PROVE  \E p : /\ IsPlan(p) /\ Listed(p) = liters
                /\ IsGrassRation(p, key, h, liters)
<1>1. PICK p : p = [keys |-> {key}, liters |-> [k \in {key} |-> liters],
                    slug |-> [k \in {key} |-> "grass"],
                    base |-> [k \in {key} |-> GrassYield * h],
                    cost |-> [k \in {key} |-> 0]]
  OBVIOUS
<1>2. /\ p.keys = {key} /\ p.liters[key] = liters /\ p.slug[key] = "grass"
      /\ p.base[key] = GrassYield * h /\ p.cost[key] = 0
  BY <1>1
<1>3. GrassYield * h \in Int
  BY AnimalCatalogAssumption
<1>4. IsPlan(p)
  BY <1>2, <1>3, NamesAssumption DEF IsPlan, FieldworkKeys
<1>5. Listed(p) = liters
  <2>1. PICK g : g = p.liters
    OBVIOUS
  <2>2. g[key] \in Int
    BY <1>2, <2>1
  <2>3. PICK only : only = p.keys \ {"straw-bedding"}
    OBVIOUS
  <2>4. only = {key} /\ only \ {key} = {}
    BY <1>2, <2>3
  <2>5. IsFiniteSet(only) /\ key \in only /\ \A k \in only : g[k] \in Int
    BY <2>2, <2>4, FS_Singleton
  <2>6. SumFunctionOnSet(g, only) = g[key] + SumFunctionOnSet(g, only \ {key})
    BY <2>5, SumTake
  <2>7. SumFunctionOnSet(g, only \ {key}) = 0
    BY <2>4, SumEmpty
  <2> QED
    BY <1>2, <2>1, <2>3, <2>6, <2>7 DEF Listed
<1>6. ASSUME NEW in, NEW b \in Int, OrElse(in.grassHarvests, 1) = h
      PROVE  {GrassNeed(key, in, b, liters)} = Entries(p, b)
  <2>1. Entry(p, key, b) = GrassNeed(key, in, b, liters)
    BY <1>2, <1>6, EntryOfGrass
  <2> QED
    BY <1>2, <2>1 DEF Entries
<1>7. QED
  BY <1>4, <1>5, <1>6 DEF IsGrassRation

IsSimpleRation(p, crop, h, liters) ==
  \A in : \A b \in Int : OrElse(in.grassHarvests, 1) = h =>
    {GrassNeed("grass", in, b, liters),
     Need("silage", crop, liters, SilageYield(crop, b))} = Entries(p, b)

LEMMA SimpleRation ==
  ASSUME NEW crop \in CropNames, NEW h \in Int, NEW liters \in Nat
  PROVE  \E p : /\ IsPlan(p) /\ Listed(p) = 2 * liters
                /\ IsSimpleRation(p, crop, h, liters)
<1> DEFINE Two == {"grass", "silage"}
<1>1. PICK p : p = [keys |-> Two, liters |-> [k \in Two |-> liters],
                    slug |-> [k \in Two |-> IF k = "grass" THEN "grass" ELSE crop],
                    base |-> [k \in Two |-> IF k = "grass" THEN GrassYield * h
                                                           ELSE SilageBase(crop)],
                    cost |-> [k \in Two |-> 0]]
  OBVIOUS
<1>2. /\ p.keys = {"grass", "silage"} /\ p.liters["grass"] = liters
      /\ p.slug["grass"] = "grass" /\ p.base["grass"] = GrassYield * h
      /\ p.cost["grass"] = 0
  BY <1>1
<1>3. /\ p.liters["silage"] = liters /\ p.slug["silage"] = crop
      /\ p.base["silage"] = SilageBase(crop) /\ p.cost["silage"] = 0
  BY <1>1
<1>4. GrassYield * h \in Int
  BY AnimalCatalogAssumption
<1>5. SilageBase(crop) \in Nat
  BY 0 \in Int, YieldsHaveABase
<1>6. IsPlan(p)
  BY <1>2, <1>3, <1>4, <1>5, NamesAssumption DEF IsPlan, FieldworkKeys
<1>7. Listed(p) = 2 * liters
  <2>1. PICK g : g = p.liters
    OBVIOUS
  <2>2. g["grass"] \in Int /\ g["silage"] \in Int
    BY <1>2, <1>3, <2>1
  <2>3. PICK both : both = p.keys \ {"straw-bedding"}
    OBVIOUS
  <2>4. both = {"grass", "silage"}
    BY <1>2, <2>3
  <2>5. SumFunctionOnSet(g, both) = g["grass"] + g["silage"]
    BY <2>2, <2>4, SumOfTwo
  <2> QED
    BY <1>2, <1>3, <2>1, <2>3, <2>5 DEF Listed
<1>8. ASSUME NEW in, NEW b \in Int, OrElse(in.grassHarvests, 1) = h
      PROVE  {GrassNeed("grass", in, b, liters),
              Need("silage", crop, liters, SilageYield(crop, b))} = Entries(p, b)
  <2>1. Entry(p, "grass", b) = GrassNeed("grass", in, b, liters)
    BY <1>2, <1>8, EntryOfGrass
  <2>2. Entry(p, "silage", b) = Need("silage", crop, liters, SilageYield(crop, b))
    BY <1>3, EntryOfCrop
  <2> QED
    BY <1>2, <2>1, <2>2 DEF Entries
<1>9. QED
  BY <1>6, <1>7, <1>8 DEF IsSimpleRation

\* The plan of a flock: what is bought of its feed, and what is grown.
IsFlockRation(p, share, feed, crop, food) ==
  \A a, in : \A b \in Int :
    /\ BoughtShare(in) = share
    /\ OrElse(in.pick["feed"], First(a.bought)) = feed
    /\ OrElse(in.pick["grown"], First(a.fieldwork)) = crop
    => ChickenFieldwork(a, in, b, food) = Entries(p, b)

LEMMA FlockRation ==
  ASSUME NEW share \in 0 .. One, NEW feed \in CropNames \cup {None},
         NEW crop \in CropNames \cup {None}, NEW food \in Nat
  PROVE  \E p : /\ IsPlan(p) /\ Listed(p) = food * One
                /\ IsFlockRation(p, share, feed, crop, food)
<1>1. PICK bought \in Nat, grown \in Nat :
        bought = food * share /\ grown = food * (One - share)
  <2>1. food * share \in Nat /\ food * (One - share) \in Nat
    BY OneAssumption
  <2> QED
    BY <2>1
<1>2. bought + grown = food * One
  BY <1>1, OneAssumption
<1>3. PICK price \in Nat : price = IF feed \in DOMAIN FeedPrices THEN FeedPrices[feed] ELSE 0
  BY AnimalCatalogAssumption
<1> DEFINE Both == {"feed", "grown"}
<1>4. PICK g : g = [k \in Both |-> IF k = "feed" THEN bought ELSE grown]
  OBVIOUS
<1>5. PICK K \in SUBSET Both : K = {k \in Both : g[k] > 0}
  OBVIOUS
<1>6. PICK p : p = [keys |-> K, liters |-> g,
                    slug |-> [k \in Both |-> IF k = "feed" THEN feed ELSE crop],
                    base |-> [k \in Both |-> IF k = "feed" THEN 0 ELSE CropBase(crop)],
                    cost |-> [k \in Both |-> IF k = "feed" THEN bought * price ELSE 0]]
  OBVIOUS
<1>7. /\ p.keys = K /\ p.liters = g /\ p.liters["feed"] = bought /\ p.slug["feed"] = feed
      /\ p.base["feed"] = 0 /\ p.cost["feed"] = bought * price
  BY <1>4, <1>6
<1>8. /\ p.liters["grown"] = grown /\ p.slug["grown"] = crop
      /\ p.base["grown"] = CropBase(crop) /\ p.cost["grown"] = 0
  BY <1>4, <1>6
<1>9. CropBase(crop) \in Nat
  BY 0 \in Int, YieldsHaveABase
<1>10. bought * price \in Nat
  OBVIOUS
<1>11. IsPlan(p)
  <2>1. K \in SUBSET FieldworkKeys
    BY <1>5 DEF FieldworkKeys, Picks
  <2>2. ASSUME NEW k \in K
        PROVE  /\ p.slug[k] \in CropNames \cup {None} /\ p.liters[k] \in Nat
               /\ p.base[k] \in Int /\ p.cost[k] \in Nat
    <3>1. CASE k = "feed"
      BY <1>1, <1>7, <1>10, <3>1
    <3>2. CASE k = "grown"
      BY <1>1, <1>8, <1>9, <3>2
    <3> QED
      BY <1>5, <3>1, <3>2
  <2>3. p.keys = K
    BY <1>7
  <2> QED
    BY <2>1, <2>2, <2>3 DEF IsPlan
<1>12. Listed(p) = food * One
  <2>1. PICK S : S = Both
    OBVIOUS
  <2>2. g["feed"] = bought /\ g["grown"] = grown
    BY <1>4
  <2>3. IsFiniteSet(S) /\ SumFunctionOnSet(g, S) = g["feed"] + g["grown"]
    <3>1. "feed" # "grown" /\ g["feed"] \in Int /\ g["grown"] \in Int
      BY <1>1, <2>2
    <3>2. S = {"feed", "grown"}
      BY <2>1
    <3> QED
      BY <3>1, <3>2, SumOfTwo
  <2>4. \A k \in S : g[k] \in Int
    BY <1>1, <2>1, <2>2
  <2>5. K \in SUBSET S /\ IsFiniteSet(S \ K) /\ IsFiniteSet(K)
    BY <2>1, <2>3, FS_Subset
  <2>6. SumFunctionOnSet(g, S) = SumFunctionOnSet(g, K) + SumFunctionOnSet(g, S \ K)
    BY <2>3, <2>4, <2>5, SumSplit
  <2>7. \A k \in S \ K : g[k] = 0
    BY <1>1, <1>5, <2>1, <2>2
  <2>8. SumFunctionOnSet(g, S \ K) = 0
    BY <2>5, <2>7, SumOfZeros
  <2>9. SumFunctionOnSet(g, K) \in Int
    BY <2>4, <2>5, SumType
  <2>10. p.keys \ {"straw-bedding"} = K
    BY <1>5, <1>7
  <2>11. SumFunctionOnSet(g, K) = bought + grown
    BY <1>1, <2>2, <2>3, <2>6, <2>8, <2>9
  <2> QED
    BY <1>2, <1>7, <2>10, <2>11 DEF Listed
<1>13. ASSUME NEW a, NEW in, NEW b \in Int, BoughtShare(in) = share,
              OrElse(in.pick["feed"], First(a.bought)) = feed,
              OrElse(in.pick["grown"], First(a.fieldwork)) = crop
       PROVE  ChickenFieldwork(a, in, b, food) = Entries(p, b)
  <2>1. Entry(p, "feed", b) = Bought("feed", feed, bought, price)
    <3>1. p.cost["feed"] = p.liters["feed"] * price /\ p.base["feed"] = 0
      BY <1>7
    <3>2. Entry(p, "feed", b) = Bought("feed", p.slug["feed"], p.liters["feed"], price)
      BY <3>1, EntryBought
    <3> QED
      BY <1>7, <3>2
  <2>2. Entry(p, "grown", b) = Need("grown", crop, grown, CropYield(crop, b))
    BY <1>8, EntryOfCrop
  <2>3. ChickenFieldwork(a, in, b, food)
          = (IF bought > 0 THEN {Bought("feed", feed, bought, price)} ELSE {})
            \cup (IF grown > 0 THEN {Need("grown", crop, grown, CropYield(crop, b))} ELSE {})
    BY <1>1, <1>3, <1>13 DEF ChickenFieldwork
  <2>4. ("feed" \in K <=> bought > 0) /\ ("grown" \in K <=> grown > 0)
    BY <1>4, <1>5
  <2>5. Entries(p, b) = (IF bought > 0 THEN {Entry(p, "feed", b)} ELSE {})
                        \cup (IF grown > 0 THEN {Entry(p, "grown", b)} ELSE {})
    BY <1>7, <2>4 DEF Entries
  <2> QED
    BY <2>1, <2>2, <2>3, <2>5
<1>14. QED
  BY <1>11, <1>12, <1>13 DEF IsFlockRation

\* The plan of pigs and horses, who eat components.
IsComponentRation(p, a, count, pick, h) ==
  \A in : \A b \in Int :
    in.count = count /\ in.pick = pick /\ OrElse(in.grassHarvests, 1) = h
    => ComponentFieldwork(a, in, b) = Entries(p, b)

LEMMA ComponentRation ==
  ASSUME NEW sp \in DOMAIN AnimalTypes, NEW a, a = AnimalTypes[sp],
         NEW count \in Int, NEW pick \in [Picks -> CropNames \cup {None}], NEW h \in Int
  PROVE  \E p : /\ IsPlan(p)
                /\ IsComponentRation(p, a, count, pick, h)
<1>1. PICK C : C = DOMAIN a.components
  OBVIOUS
<1>2. /\ C \subseteq Picks \cup {"hay"} /\ \A c \in C : a.components[c].liters \in Nat
      /\ \A c \in C : First(a.components[c].crops) \in CropNames \cup {None}
  BY <1>1, AnimalTypeFacts DEF IsAnimalType
<1>3. PICK liters : liters = [c \in C |-> a.components[c].liters * MonthsPerYear * count * One]
  OBVIOUS
<1>4. ASSUME NEW c \in C
      PROVE  liters[c] \in Int
  <2>1. PICK n \in Nat : n = a.components[c].liters
    BY <1>2
  <2>2. n * 12 * count * One \in Int
    BY OneAssumption
  <2> QED
    BY <1>3, <2>1, <2>2 DEF MonthsPerYear
<1>5. PICK K \in SUBSET C : K = {c \in C : liters[c] > 0}
  OBVIOUS
<1>6. PICK slug : slug = [c \in K |-> IF c = "hay" THEN "grass"
                                      ELSE OrElse(pick[c], First(a.components[c].crops))]
  OBVIOUS
<1>7. PICK p : p = [keys |-> K, liters |-> liters, slug |-> slug,
                    base |-> [c \in K |-> IF c = "hay" THEN GrassYield * h
                                                        ELSE CropBase(slug[c])],
                    cost |-> [c \in K |-> 0]]
  OBVIOUS
<1>8. ASSUME NEW c \in K
      PROVE  /\ p.liters[c] = liters[c] /\ p.slug[c] = slug[c] /\ p.cost[c] = 0
             /\ p.base[c] = IF c = "hay" THEN GrassYield * h ELSE CropBase(slug[c])
  BY <1>7
<1>9. IsPlan(p)
  <2>1. K \in SUBSET FieldworkKeys
    BY <1>2, <1>5 DEF FieldworkKeys
  <2>2. ASSUME NEW c \in K
        PROVE  slug[c] \in CropNames \cup {None}
    BY <1>2, <1>6, NamesAssumption DEF OrElse
  <2>3. ASSUME NEW c \in K
        PROVE  p.base[c] \in Int
    <3>1. CropBase(slug[c]) \in Nat
      BY 0 \in Int, YieldsHaveABase
    <3>2. GrassYield * h \in Int
      BY AnimalCatalogAssumption
    <3> QED
      BY <1>8, <3>1, <3>2
  <2>4. p.keys = K
    BY <1>7
  <2> QED
    BY <1>4, <1>5, <1>8, <2>1, <2>2, <2>3, <2>4 DEF IsPlan
<1>10. ASSUME NEW in, NEW b \in Int, in.count = count, in.pick = pick,
              OrElse(in.grassHarvests, 1) = h
       PROVE  ComponentFieldwork(a, in, b) = Entries(p, b)
  <2> DEFINE Portion(c) == IF c = "hay" THEN GrassNeed("hay", in, b, liters[c])
                       ELSE Need(c, slug[c], liters[c], CropYield(slug[c], b))
  <2>1. ASSUME NEW c \in K
        PROVE  Entry(p, c, b) = Portion(c)
    <3>1. PICK l : l = p.liters[c]
      OBVIOUS
    <3>2. CASE c = "hay"
      <4>1. p.slug[c] = "grass" /\ p.base[c] = GrassYield * h /\ p.cost[c] = 0
        BY <1>6, <1>8, <3>2
      <4>2. Entry(p, c, b) = GrassNeed(c, in, b, p.liters[c])
        BY <1>10, <4>1, EntryOfGrass
      <4> QED
        BY <1>8, <3>2, <4>2
    <3>3. CASE c # "hay"
      <4>1. PICK s : s = slug[c]
        OBVIOUS
      <4>2. p.slug[c] = s /\ p.base[c] = CropBase(s) /\ p.cost[c] = 0
        BY <1>8, <3>3, <4>1
      <4>3. Entry(p, c, b) = Need(c, s, p.liters[c], CropYield(s, b))
        BY <4>2, EntryOfCrop
      <4> QED
        BY <1>8, <3>3, <4>1, <4>3
    <3> QED
      BY <3>2, <3>3
  <2>2. ComponentFieldwork(a, in, b) = {Portion(c) : c \in K}
    <3>1. \A c \in C : a.components[c].liters * MonthsPerYear * in.count * One = liters[c]
      BY <1>3, <1>10
    <3>2. \A c \in K : c # "hay" =>
            OrElse(in.pick[c], First(a.components[c].crops)) = slug[c]
      BY <1>6, <1>10
    <3> QED
      BY <1>1, <1>5, <3>1, <3>2 DEF ComponentFieldwork
  <2>3. Entries(p, b) = {Entry(p, c, b) : c \in K}
    BY <1>7 DEF Entries
  <2> HIDE DEF Portion
  <2> QED
    BY <2>1, <2>2, <2>3
<1>11. QED
  BY <1>9, <1>10 DEF IsComponentRation

\* The same herd, whatever the bonus of its fields: everything the ration is
\* made from.
SameRation(in, new) ==
  /\ new.species = in.species /\ new.count = in.count /\ new.feedType = in.feedType
  /\ new.straw = in.straw /\ new.grassHarvests = in.grassHarvests
  /\ new.silageCrop = in.silageCrop /\ new.boughtShare = in.boughtShare
  /\ new.pick = in.pick
Times(in) == IF in.feedType = "simple" THEN 2 ELSE 1
FedFromTheRation == Ruminants \cup {"chicken", "sheep", "goat"}

LEMMA HarvestsAreInt ==
  ASSUME NEW in, IsHerd(in)
  PROVE  OrElse(in.grassHarvests, 1) \in Int
BY DEF IsHerd, AnimalInputs, OrElse

LEMMA RuminantPlan ==
  ASSUME NEW in, IsHerd(in), in.species \in Ruminants,
         NEW a, a = AnimalTypes[in.species], NEW food \in Nat, NEW bedding \in Nat
  PROVE  \E p : /\ IsPlan(p) /\ Listed(p) = food * One * Times(in)
                /\ \A new : \A b \in Int : SameRation(in, new) =>
                     RuminantFieldwork(a, new, b, food, bedding) = Entries(p, b)
<1>1. PICK h \in Int : h = OrElse(in.grassHarvests, 1)
  BY HarvestsAreInt
<1>2. PICK crop \in CropNames : crop = OrElse(in.silageCrop, First(a.silageCrops))
  <2>1. First(a.silageCrops) \in CropNames
    BY AnimalTypeFacts DEF IsHerd
  <2>2. in.silageCrop \in CropNames \cup {None}
    BY DEF IsHerd, AnimalInputs
  <2> QED
    BY <2>1, <2>2 DEF OrElse
<1>3. in.feedType \in FeedTypes /\ in.feedType # None
  BY NamesAssumption DEF IsHerd, AnimalInputs
<1>4. PICK eaten \in Nat : eaten = food * One
  <2>1. food * One \in Nat
    BY OneAssumption
  <2> QED
    BY <2>1
<1>5. crop # None
  BY NamesAssumption
<1>6. ASSUME NEW new, SameRation(in, new)
      PROVE  /\ OrElse(new.grassHarvests, 1) = h /\ OrElse(new.feedType, "tmr") = in.feedType
             /\ OrElse(new.silageCrop, First(a.silageCrops)) = crop
             /\ new.feedType = in.feedType
  BY <1>1, <1>2, <1>3, <1>6 DEF SameRation, OrElse
<1>7. CASE food = 0
  <2>1. PICK p : IsPlan(p) /\ p.keys = {} /\ Listed(p) = 0 /\ \A b : Entries(p, b) = {}
    BY NoRation
  <2>2. ASSUME NEW new, NEW b \in Int
        PROVE  RuminantFieldwork(a, new, b, food, bedding) = {}
    BY <1>7 DEF RuminantFieldwork
  <2>3. Listed(p) = food * One * Times(in)
    BY <1>7, <2>1, OneAssumption DEF Times
  <2> QED
    BY <2>1, <2>2, <2>3
<1>8. CASE food # 0 /\ in.feedType = "tmr"
  <2>1. /\ IsAnimalType(a) /\ a.ratios # None
        /\ DOMAIN a.ratios = {"hay", "silage", "straw", "mineral"}
        /\ a.ratios.hay + a.ratios.silage + a.ratios.straw + a.ratios.mineral = One
    BY AnimalCatalogAssumption, RationsAssumption DEF IsHerd
  <2>2. food > 0
    BY <1>8
  <2>3. PICK p : /\ IsPlan(p) /\ Listed(p) = food * One
                 /\ IsMixedRation(p, a, crop, h, food, bedding)
    BY <2>1, <2>2, MixedRation
  <2>4. Listed(p) = food * One * Times(in)
    BY <1>4, <1>8, <2>3 DEF Times
  <2>5. ASSUME NEW new, NEW b \in Int, SameRation(in, new)
        PROVE  RuminantFieldwork(a, new, b, food, bedding) = Entries(p, b)
    BY <1>6, <1>8, <2>3, <2>5 DEF IsMixedRation
  <2> QED
    BY <2>3, <2>4, <2>5
<1>9. CASE food # 0 /\ in.feedType = "simple"
  <2>1. PICK p : /\ IsPlan(p) /\ Listed(p) = 2 * eaten
                 /\ IsSimpleRation(p, crop, h, eaten)
    BY SimpleRation
  <2>2. Listed(p) = food * One * Times(in)
    BY <1>4, <1>9, <2>1 DEF Times
  <2>3. ASSUME NEW new, NEW b \in Int, SameRation(in, new)
        PROVE  RuminantFieldwork(a, new, b, food, bedding) = Entries(p, b)
    <3>1. RuminantFieldwork(a, new, b, food, bedding)
            = {GrassNeed("grass", new, b, eaten)}
              \cup {Need("silage", crop, eaten, SilageYield(crop, b))}
      BY <1>4, <1>5, <1>6, <1>9, <2>3 DEF RuminantFieldwork
    <3>2. {GrassNeed("grass", new, b, eaten), Need("silage", crop, eaten, SilageYield(crop, b))}
            = Entries(p, b)
      BY <1>6, <2>1, <2>3 DEF IsSimpleRation
    <3> QED
      BY <3>1, <3>2
  <2> QED
    BY <2>1, <2>2, <2>3
<1>10. CASE food # 0 /\ in.feedType \in {"hay", "grass"}
  <2>1. PICK key \in {"hay", "grass"} : key = in.feedType
    BY <1>10
  <2>2. PICK p : /\ IsPlan(p) /\ Listed(p) = eaten
                 /\ IsGrassRation(p, key, h, eaten)
    BY GrassRation
  <2>3. Listed(p) = food * One * Times(in)
    BY <1>4, <1>10, <2>2 DEF Times
  <2>4. ASSUME NEW new, NEW b \in Int, SameRation(in, new)
        PROVE  RuminantFieldwork(a, new, b, food, bedding) = Entries(p, b)
    <3>1. RuminantFieldwork(a, new, b, food, bedding) = {GrassNeed(key, new, b, eaten)}
      BY <1>4, <1>6, <1>10, <2>1, <2>4 DEF RuminantFieldwork
    <3> QED
      BY <1>6, <2>2, <2>4, <3>1 DEF IsGrassRation
  <2> QED
    BY <2>2, <2>3, <2>4
<1>11. QED
  BY <1>3, <1>7, <1>8, <1>9, <1>10 DEF FeedTypes

LEMMA FlockPlan ==
  ASSUME NEW in, IsHerd(in), in.species = "chicken",
         NEW a, a = AnimalTypes[in.species], NEW food \in Nat
  PROVE  \E p : /\ IsPlan(p) /\ Listed(p) = food * One
                /\ \A new : \A b \in Int : SameRation(in, new) =>
                     ChickenFieldwork(a, new, b, food) = Entries(p, b)
<1>1. PICK share \in 0 .. One : share = BoughtShare(in)
  <2>1. in.boughtShare \in Int \cup {None} /\ One \in Nat
    BY OneAssumption DEF IsHerd, AnimalInputs
  <2>2. OrElse(in.boughtShare, 0) \in Int
    BY <2>1 DEF OrElse
  <2>3. BoughtShare(in) \in 0 .. One
    BY <2>1, <2>2 DEF BoughtShare, Clamp
  <2> QED
    BY <2>3
<1>2. PICK feed \in CropNames \cup {None} : feed = OrElse(in.pick["feed"], First(a.bought))
  <2>1. in.pick["feed"] \in CropNames \cup {None}
    BY DEF IsHerd, AnimalInputs, Picks
  <2>2. First(a.bought) \in CropNames \cup {None}
    BY AnimalTypeFacts DEF IsHerd
  <2> QED
    BY <2>1, <2>2 DEF OrElse
<1>3. PICK crop \in CropNames \cup {None} : crop = OrElse(in.pick["grown"], First(a.fieldwork))
  <2>1. in.pick["grown"] \in CropNames \cup {None}
    BY DEF IsHerd, AnimalInputs, Picks
  <2>2. First(a.fieldwork) \in CropNames \cup {None}
    BY AnimalTypeFacts DEF IsHerd
  <2> QED
    BY <2>1, <2>2 DEF OrElse
<1>4. PICK p : IsPlan(p) /\ Listed(p) = food * One /\ IsFlockRation(p, share, feed, crop, food)
  BY FlockRation
<1>5. ASSUME NEW new, NEW b \in Int, SameRation(in, new)
      PROVE  ChickenFieldwork(a, new, b, food) = Entries(p, b)
  <2>1. BoughtShare(new) = share
    BY <1>1, <1>5 DEF SameRation, BoughtShare
  <2>2. new.pick = in.pick
    BY <1>5 DEF SameRation
  <2> QED
    BY <1>2, <1>3, <1>4, <2>1, <2>2 DEF IsFlockRation
<1>6. QED
  BY <1>4, <1>5

LEMMA ComponentPlan ==
  ASSUME NEW in, IsHerd(in), NEW a, a = AnimalTypes[in.species]
  PROVE  \E p : /\ IsPlan(p)
                /\ \A new : \A b \in Int : SameRation(in, new) =>
                     ComponentFieldwork(a, new, b) = Entries(p, b)
<1>1. PICK sp \in DOMAIN AnimalTypes : sp = in.species
  BY DEF IsHerd
<1>2. PICK count \in Int : count = in.count
  BY DEF IsHerd, AnimalInputs
<1>3. PICK pick \in [Picks -> CropNames \cup {None}] : pick = in.pick
  BY DEF IsHerd, AnimalInputs
<1>4. PICK h \in Int : h = OrElse(in.grassHarvests, 1)
  BY HarvestsAreInt
<1>5. a = AnimalTypes[sp]
  BY <1>1
<1>6. PICK p : IsPlan(p) /\ IsComponentRation(p, a, count, pick, h)
  BY <1>5, ComponentRation
<1>7. ASSUME NEW new, NEW b \in Int, SameRation(in, new)
      PROVE  ComponentFieldwork(a, new, b) = Entries(p, b)
  <2>1. new.count = count /\ new.pick = pick /\ OrElse(new.grassHarvests, 1) = h
    BY <1>2, <1>3, <1>4, <1>7 DEF SameRation
  <2> QED
    BY <1>6, <2>1 DEF IsComponentRation
<1>8. QED
  BY <1>6, <1>7

\* A herd of a negative count eats a negative amount, and is fed nothing.
Fed(x) == IF x > 0 THEN x ELSE 0

LEMMA FedAlone ==
  ASSUME NEW a, NEW new, NEW b, NEW food \in Int, NEW bedding \in Int
  PROVE  /\ RuminantFieldwork(a, new, b, food, bedding)
              = RuminantFieldwork(a, new, b, Fed(food), Fed(bedding))
         /\ BoughtShare(new) \in 0 .. One =>
              ChickenFieldwork(a, new, b, food) = ChickenFieldwork(a, new, b, Fed(food))
<1>1. RuminantFieldwork(a, new, b, food, bedding)
        = RuminantFieldwork(a, new, b, Fed(food), Fed(bedding))
  <2>1. CASE food <= 0
    BY <2>1 DEF RuminantFieldwork, Fed
  <2>2. CASE food > 0 /\ bedding <= 0
    <3>1. Fed(food) = food /\ Fed(bedding) = 0 /\ ~(bedding > 0) /\ ~(0 > 0)
      BY <2>2 DEF Fed
    <3> QED
      BY <3>1 DEF RuminantFieldwork
  <2>3. CASE food > 0 /\ bedding > 0
    BY <2>3 DEF Fed
  <2> QED
    BY <2>1, <2>2, <2>3
<1>2. ASSUME NEW share \in 0 .. One, share = BoughtShare(new)
      PROVE  ChickenFieldwork(a, new, b, food) = ChickenFieldwork(a, new, b, Fed(food))
  <2>1. CASE food > 0
    BY <2>1 DEF Fed
  <2>2. CASE food <= 0
    <3>1. /\ ~(food * share > 0) /\ ~(food * (One - share) > 0)
          /\ ~(0 * share > 0) /\ ~(0 * (One - share) > 0)
      <4>1. PICK eaten \in Nat, rest \in Nat : eaten = -food /\ rest = One - share
        BY <2>2, OneAssumption
      <4>2. share \in Nat /\ eaten * share >= 0 /\ eaten * rest >= 0
        BY OneAssumption
      <4>3. food * share = -(eaten * share) /\ food * rest = -(eaten * rest)
        BY <4>1, <4>2
      <4>4. eaten * share \in Nat /\ eaten * rest \in Nat
        BY <4>2
      <4> QED
        BY <4>1, <4>2, <4>3, <4>4
    <3>2. Fed(food) = 0
      BY <2>2 DEF Fed
    <3>3. ChickenFieldwork(a, new, b, food) = {}
      BY <1>2, <3>1 DEF ChickenFieldwork
    <3>4. ChickenFieldwork(a, new, b, 0) = {}
      BY <1>2, <3>1 DEF ChickenFieldwork
    <3> QED
      BY <3>2, <3>3, <3>4
  <2> QED
    BY <2>1, <2>2
<1>3. QED
  BY <1>1, <1>2

\* Every herd has a plan: what has to be grown or bought for it is the same list
\* whatever the bonus, and only the land each entry takes depends on the bonus.
IsPlanOf(p, in, f) ==
  LET a == AnimalTypes[in.species]
  IN /\ IsPlan(p)
     /\ in.species \in FedFromTheRation =>
          Listed(p) = Fed(PerYear(Consumption(a, in), "food")) * One * Times(in)
     /\ \A new : SameRation(in, new) /\ EffectiveBonus(new.bonus, f) \in Int =>
          Fieldwork(a, new, f) = Entries(p, EffectiveBonus(new.bonus, f))

LEMMA HerdPlan ==
  ASSUME NEW in, IsHerd(in), NEW f
  PROVE  \E p : IsPlanOf(p, in, f)
<1>1. PICK a : a = AnimalTypes[in.species]
  OBVIOUS
<1>2. a.species = in.species /\ in.species \in SpeciesAll
  BY <1>1, AnimalTypeFacts DEF IsHerd
<1>3. PICK due \in Int : due = PerYear(Consumption(a, in), "food")
  BY <1>1, HerdAmounts
<1>4. PICK laid \in Int : laid = PerYear(Consumption(a, in), "straw")
  BY <1>1, HerdAmounts
<1>5. ASSUME NEW new, SameRation(in, new)
      PROVE  Consumption(a, new) = Consumption(a, in)
  BY <1>5 DEF SameRation, Consumption
<1>6. in.species \notin Ruminants => Times(in) = 1
  BY NamesAssumption DEF IsHerd, Times, FeedTypes
<1>14. PICK food \in Nat, bedding \in Nat : food = Fed(due) /\ bedding = Fed(laid)
  BY DEF Fed
<1>7. food * One * 1 = food * One
  BY OneAssumption
<1>8. CASE in.species \in Ruminants
  <2>1. PICK p : /\ IsPlan(p) /\ Listed(p) = food * One * Times(in)
                 /\ \A new : \A b \in Int : SameRation(in, new) =>
                      RuminantFieldwork(a, new, b, food, bedding) = Entries(p, b)
    BY <1>1, <1>8, RuminantPlan
  <2>2. ASSUME NEW new, SameRation(in, new), EffectiveBonus(new.bonus, f) \in Int
        PROVE  Fieldwork(a, new, f) = Entries(p, EffectiveBonus(new.bonus, f))
    <3>1. Fieldwork(a, new, f)
            = RuminantFieldwork(a, new, EffectiveBonus(new.bonus, f), due, laid)
      BY <1>2, <1>3, <1>4, <1>5, <1>8, <2>2 DEF Fieldwork, Ruminants
    <3>2. Fieldwork(a, new, f)
            = RuminantFieldwork(a, new, EffectiveBonus(new.bonus, f), food, bedding)
      BY <1>14, <3>1, FedAlone
    <3> QED
      BY <2>1, <2>2, <3>2
  <2> QED
    BY <1>1, <1>3, <1>14, <2>1, <2>2 DEF IsPlanOf
<1>9. CASE in.species = "chicken"
  <2>1. PICK p : /\ IsPlan(p) /\ Listed(p) = food * One
                 /\ \A new : \A b \in Int : SameRation(in, new) =>
                      ChickenFieldwork(a, new, b, food) = Entries(p, b)
    BY <1>1, <1>9, FlockPlan
  <2>2. ASSUME NEW new, SameRation(in, new), EffectiveBonus(new.bonus, f) \in Int
        PROVE  Fieldwork(a, new, f) = Entries(p, EffectiveBonus(new.bonus, f))
    <3>1. Fieldwork(a, new, f) = ChickenFieldwork(a, new, EffectiveBonus(new.bonus, f), due)
      BY <1>2, <1>3, <1>5, <1>9, <2>2 DEF Fieldwork, Ruminants
    <3>2. BoughtShare(new) \in 0 .. One
      <4>1. in.boughtShare \in Int \cup {None} /\ One \in Nat
        BY OneAssumption DEF IsHerd, AnimalInputs
      <4>2. OrElse(in.boughtShare, 0) \in Int
        BY <4>1 DEF OrElse
      <4>3. OrElse(new.boughtShare, 0) = OrElse(in.boughtShare, 0)
        BY <2>2 DEF SameRation
      <4> QED
        BY <4>1, <4>2, <4>3 DEF BoughtShare, Clamp
    <3>3. Fieldwork(a, new, f) = ChickenFieldwork(a, new, EffectiveBonus(new.bonus, f), food)
      BY <1>14, <3>1, <3>2, FedAlone
    <3> QED
      BY <2>1, <2>2, <3>3
  <2>3. Times(in) = 1
    BY <1>6, <1>9 DEF Ruminants
  <2> QED
    BY <1>1, <1>3, <1>7, <1>14, <2>1, <2>2, <2>3 DEF IsPlanOf
<1>10. CASE in.species \in {"pig", "horse"}
  <2>1. PICK p : /\ IsPlan(p)
                 /\ \A new : \A b \in Int : SameRation(in, new) =>
                      ComponentFieldwork(a, new, b) = Entries(p, b)
    BY <1>1, ComponentPlan
  <2>2. ASSUME NEW new, SameRation(in, new), EffectiveBonus(new.bonus, f) \in Int
        PROVE  Fieldwork(a, new, f) = Entries(p, EffectiveBonus(new.bonus, f))
    <3>1. Fieldwork(a, new, f) = ComponentFieldwork(a, new, EffectiveBonus(new.bonus, f))
      BY <1>2, <1>10 DEF Fieldwork, Ruminants
    <3> QED
      BY <2>1, <2>2, <3>1
  <2> QED
    BY <1>1, <1>10, <2>1, <2>2 DEF IsPlanOf, FedFromTheRation, Ruminants
<1>11. CASE in.species \in {"sheep", "goat"} /\ due <= 0
  <2>1. PICK p : IsPlan(p) /\ p.keys = {} /\ Listed(p) = 0 /\ \A b : Entries(p, b) = {}
    BY NoRation
  <2>2. ASSUME NEW new, SameRation(in, new), EffectiveBonus(new.bonus, f) \in Int
        PROVE  Fieldwork(a, new, f) = Entries(p, EffectiveBonus(new.bonus, f))
    BY <1>2, <1>3, <1>5, <1>11, <2>1, <2>2 DEF Fieldwork, Ruminants
  <2>3. Times(in) = 1 /\ Fed(due) * One * 1 = 0
    BY <1>6, <1>11, OneAssumption DEF Ruminants, Fed
  <2> QED
    BY <1>1, <1>3, <2>1, <2>2, <2>3 DEF IsPlanOf
<1>12. CASE in.species \in {"sheep", "goat"} /\ due > 0
  <2>1. PICK h \in Int : h = OrElse(in.grassHarvests, 1)
    BY HarvestsAreInt
  <2>6. food = due
    BY <1>12, <1>14 DEF Fed
  <2>2. PICK eaten \in Nat : eaten = food * One
    <3>1. food * One \in Nat
      BY OneAssumption
    <3> QED
      BY <3>1
  <2>3. PICK p : IsPlan(p) /\ Listed(p) = eaten /\ IsGrassRation(p, "grass", h, eaten)
    BY GrassRation
  <2>4. ASSUME NEW new, SameRation(in, new), EffectiveBonus(new.bonus, f) \in Int
        PROVE  Fieldwork(a, new, f) = Entries(p, EffectiveBonus(new.bonus, f))
    <3>1. PICK b \in Int : b = EffectiveBonus(new.bonus, f)
      BY <2>4
    <3>2. Fieldwork(a, new, f) = {GrassNeed("grass", new, b, eaten)}
      BY <1>2, <1>3, <1>5, <1>12, <2>2, <2>4, <2>6, <3>1 DEF Fieldwork, Ruminants
    <3>3. OrElse(new.grassHarvests, 1) = h
      BY <2>1, <2>4 DEF SameRation
    <3> QED
      BY <2>3, <3>1, <3>2, <3>3 DEF IsGrassRation
  <2>5. Times(in) = 1
    BY <1>6, <1>12 DEF Ruminants
  <2> QED
    BY <1>1, <1>3, <1>7, <1>14, <2>2, <2>3, <2>4, <2>5 DEF IsPlanOf
<1>13. QED
  BY <1>2, <1>8, <1>9, <1>10, <1>11, <1>12 DEF SpeciesAll, Ruminants

LEMMA KeysAreFinite == IsFiniteSet(FieldworkKeys)
<1>1. ASSUME NEW x, NEW y
      PROVE  IsFiniteSet({x, y})
  <2>1. IsFiniteSet({x} \cup {y})
    BY FS_Singleton, FS_AddElement
  <2>2. {x} \cup {y} = {x, y}
    OBVIOUS
  <2> QED
    BY <2>1, <2>2
<1>2. /\ IsFiniteSet({"hay", "grass"}) /\ IsFiniteSet({"silage", "tmr-straw"})
      /\ IsFiniteSet({"mineralFeed", "straw-bedding"}) /\ IsFiniteSet({"feed", "grown"})
      /\ IsFiniteSet({"base", "grain"}) /\ IsFiniteSet({"protein", "root"})
  BY <1>1
<1>3. IsFiniteSet({"hay", "grass"} \cup {"silage", "tmr-straw"})
  BY <1>2, FS_Union
<1>4. IsFiniteSet({"mineralFeed", "straw-bedding"} \cup {"feed", "grown"})
  BY <1>2, FS_Union
<1>5. IsFiniteSet({"base", "grain"} \cup {"protein", "root"})
  BY <1>2, FS_Union
<1>6. IsFiniteSet(({"mineralFeed", "straw-bedding"} \cup {"feed", "grown"})
                  \cup ({"base", "grain"} \cup {"protein", "root"}))
  BY <1>4, <1>5, FS_Union
<1>7. IsFiniteSet(({"hay", "grass"} \cup {"silage", "tmr-straw"})
                  \cup (({"mineralFeed", "straw-bedding"} \cup {"feed", "grown"})
                        \cup ({"base", "grain"} \cup {"protein", "root"})))
  BY <1>3, <1>6, FS_Union
<1>8. FieldworkKeys
        = ({"hay", "grass"} \cup {"silage", "tmr-straw"})
          \cup (({"mineralFeed", "straw-bedding"} \cup {"feed", "grown"})
                \cup ({"base", "grain"} \cup {"protein", "root"}))
  BY DEF FieldworkKeys, Picks
<1>9. QED
  BY <1>7, <1>8

\* What the fieldwork costs, lists and takes of the land.
Costs(needs) == SumOver(needs, LAMBDA r : r.cost)
Eaten(needs) == {r \in needs : r.key # "straw-bedding"}
ListedIn(needs) == SumOver(Eaten(needs), LAMBDA r : r.liters)
Land(needs) == SumRatios(needs, LAMBDA r : r.area)

LEMMA EntryIsNeed ==
  ASSUME NEW p, IsPlan(p), NEW b \in Int, NEW k \in p.keys
  PROVE  /\ Entry(p, k, b) \in FieldworkRequirement
         /\ Entry(p, k, b).area.n \in Nat /\ Entry(p, k, b).area.d \in Nat \ {0}
         /\ Entry(p, k, b).key = k /\ Entry(p, k, b).liters = p.liters[k]
         /\ Entry(p, k, b).cost = p.cost[k]
<1>1. /\ k \in FieldworkKeys /\ p.slug[k] \in CropNames \cup {None}
      /\ p.liters[k] \in Nat /\ p.base[k] \in Int /\ p.cost[k] \in Nat
  BY DEF IsPlan
<1>2. PICK factor \in Int : factor = Factor(p.slug[k], b)
  BY OneAssumption DEF Factor
<1>3. PICK yield \in Int : yield = p.base[k] * factor
  <2>1. p.base[k] * factor \in Int
    BY <1>1
  <2> QED
    BY <2>1
<1>4. AreaFor(p.liters[k], yield) \in [n : Nat, d : Nat \ {0}]
  BY <1>1 DEF AreaFor, Zero, Ratio
<1>5. PICK area \in [n : Nat, d : Nat \ {0}] : area = AreaFor(p.liters[k], yield)
  BY <1>4
<1>6. Entry(p, k, b) = [key |-> k, slug |-> p.slug[k], liters |-> p.liters[k],
                        area |-> area, cost |-> p.cost[k]]
  BY <1>2, <1>3, <1>5 DEF Entry
<1>7. QED
  BY <1>1, <1>5, <1>6 DEF FieldworkRequirement

LEMMA PlanSums ==
  ASSUME NEW p, IsPlan(p), NEW b \in Int, NEW needs, needs = Entries(p, b)
  PROVE  /\ needs \subseteq FieldworkRequirement
         /\ Costs(needs) = SumFunctionOnSet(p.cost, p.keys) /\ Costs(needs) \in Nat
         /\ ListedIn(needs) = Listed(p)
         /\ Land(needs).n \in Nat /\ Land(needs).d > 0
<1>1. PICK K \in SUBSET FieldworkKeys : K = p.keys
  BY DEF IsPlan
<1>2. IsFiniteSet(K)
  BY KeysAreFinite, FS_Subset
<1>3. PICK f : f = [k \in K |-> Entry(p, k, b)]
  OBVIOUS
<1>4. ASSUME NEW k \in K
      PROVE  /\ f[k] \in FieldworkRequirement /\ f[k].key = k
             /\ f[k].area.n \in Nat /\ f[k].area.d \in Nat \ {0}
             /\ f[k].liters = p.liters[k] /\ p.liters[k] \in Int
             /\ f[k].cost = p.cost[k] /\ p.cost[k] \in Nat
  <2>1. f[k] = Entry(p, k, b)
    BY <1>3
  <2>2. p.liters[k] \in Nat /\ p.cost[k] \in Nat
    BY <1>1 DEF IsPlan
  <2> QED
    BY <1>1, <2>1, <2>2, EntryIsNeed
<1>5. needs = Renamed(f, K) /\ needs = {f[k] : k \in K}
  BY <1>1, <1>3 DEF Entries, Renamed
<1>6. IsFiniteSet(needs)
  BY <1>2, <1>5, FiniteImage
<1>7. \A k, l \in K : f[k] = f[l] => k = l
  BY <1>4
<1>8. needs \subseteq FieldworkRequirement
  BY <1>4, <1>5
<1>9. PICK cost : cost = [r \in needs |-> r.cost]
  OBVIOUS
<1>10. PICK charged : charged = p.cost
  OBVIOUS
<1>11. \A k \in K : charged[k] = cost[f[k]] /\ charged[k] \in Int
  BY <1>4, <1>5, <1>9, <1>10
<1>12. SumFunctionOnSet(charged, K) = SumFunctionOnSet(cost, needs)
  <2>1. SumFunctionOnSet(charged, K) = SumFunctionOnSet(cost, Renamed(f, K))
    BY <1>2, <1>7, <1>11, SumRenamed
  <2> QED
    BY <1>5, <2>1
<1>13. Costs(needs) = SumFunctionOnSet(cost, needs)
  BY <1>9 DEF Costs, SumOver, SumFunction
<1>14. SumFunctionOnSet(charged, K) \in Nat
  <2>1. \A k \in K : charged[k] \in Nat
    BY <1>4, <1>10
  <2> QED
    BY <1>2, <2>1, SumIsNat
<1>15. PICK J \in SUBSET K : J = K \ {"straw-bedding"}
  OBVIOUS
<1>16. PICK eaten : eaten = Eaten(needs)
  OBVIOUS
<1>17. eaten = Renamed(f, J)
  BY <1>4, <1>5, <1>15, <1>16 DEF Eaten, Renamed
<1>18. PICK liters : liters = [r \in eaten |-> r.liters]
  OBVIOUS
<1>19. PICK amounts : amounts = p.liters
  OBVIOUS
<1>20. \A k \in J : amounts[k] = liters[f[k]] /\ amounts[k] \in Int
  BY <1>4, <1>17, <1>18, <1>19 DEF Renamed
<1>21. SumFunctionOnSet(amounts, J) = SumFunctionOnSet(liters, eaten)
  <2>1. IsFiniteSet(J)
    BY <1>2, FS_Subset
  <2>2. \A k, l \in J : f[k] = f[l] => k = l
    BY <1>7
  <2> QED
    BY <1>17, <1>20, <2>1, <2>2, SumRenamed
<1>22. ListedIn(needs) = SumFunctionOnSet(liters, eaten)
  BY <1>16, <1>18 DEF ListedIn, SumOver, SumFunction
<1>23. Listed(p) = SumFunctionOnSet(amounts, J)
  BY <1>1, <1>15, <1>19 DEF Listed
<1>24. PICK area : area = [r \in needs |-> r.area]
  OBVIOUS
<1>25. \A r \in needs : area[r].n \in Nat /\ area[r].d \in Nat \ {0}
  BY <1>4, <1>5, <1>24
<1>26. Land(needs) = RatioSum(area, needs)
  BY <1>24 DEF Land, SumRatios, FoldFunction, RatioSum
<1>27. RatioSum(area, needs).n \in Nat /\ RatioSum(area, needs).d \in Nat \ {0}
  BY <1>6, <1>25, RatioSumIsPositive
<1>28. QED
  BY <1>1, <1>8, <1>10, <1>12, <1>13, <1>14, <1>21, <1>22, <1>23, <1>26, <1>27

LEMMA HerdResults ==
  ASSUME NEW in, IsHerd(in), NEW f \in FarmContext
  PROVE  IsAnimalResult(AnimalProjection(in, f))
<1>1. PICK a : a = AnimalTypes[in.species]
  OBVIOUS
<1>2. PICK needs : needs = Fieldwork(a, in, f)
  OBVIOUS
<1>3. PICK b \in Int : b = EffectiveBonus(in.bonus, f)
  BY DEF IsHerd, AnimalInputs, EffectiveBonus, OrElse, FarmContext
<1>4. PICK p : IsPlanOf(p, in, f)
  BY HerdPlan
<1>5. IsPlan(p) /\ needs = Entries(p, b)
  BY <1>1, <1>2, <1>3, <1>4 DEF IsPlanOf, SameRation
<1>6. /\ needs \subseteq FieldworkRequirement /\ Costs(needs) \in Nat
      /\ Land(needs).n \in Nat /\ Land(needs).d > 0
  BY <1>5, PlanSums
<1>7. IsAnimalType(a)
  BY <1>1, AnimalTypeFacts DEF IsHerd
<1>8. PICK keys : keys = ProductKeys(a)
  OBVIOUS
<1>9. keys \subseteq {"milk", "eggs", "wool"} /\ IsFiniteSet(keys)
  <2>1. a.product # None =>
          a.product.slug \in {"milk", "buffalo_milk", "goat_milk", "eggs", "wool"}
    BY <1>1, RationsAssumption DEF IsHerd
  <2>2. keys \subseteq {"milk", "eggs", "wool"}
    BY <1>8, <2>1 DEF ProductKeys
  <2>3. IsFiniteSet({"milk"} \cup {"eggs"})
    BY FS_Singleton, FS_AddElement
  <2>4. IsFiniteSet(({"milk"} \cup {"eggs"}) \cup {"wool"})
    BY <2>3, FS_AddElement
  <2>5. keys \in SUBSET (({"milk"} \cup {"eggs"}) \cup {"wool"})
    BY <2>2
  <2> QED
    BY <2>2, <2>4, <2>5, FS_Subset
<1>10. PICK given : given = Production(a, in, f)
  OBVIOUS
<1>11. PICK g : g = [k \in keys |-> PerYear(given, k)]
  OBVIOUS
<1>12. \A k \in keys : g[k] \in Int
  BY <1>1, <1>10, <1>11, HerdAmounts
<1>13. PICK product \in Int : product = SumFunctionOnSet(g, keys)
  BY <1>9, <1>12, SumType
<1>14. PICK price \in Nat : price = ProductPrice(a, f)
  <2>1. f.sell \in SellPrices /\ MilkScalars[f.sell] \in Nat
    BY AnimalCatalogAssumption DEF FarmContext
  <2>2. CASE a.product = None
    BY <2>2 DEF ProductPrice
  <2>3. CASE a.product # None
    <3>1. PICK x \in Nat : x = a.product.price
      BY <1>7, <2>3 DEF IsAnimalType
    <3>2. PICK y \in Nat : y = OrElse(a.product.scalar, MilkScalars[f.sell])
      BY <1>7, <2>1, <2>3 DEF IsAnimalType, OrElse
    <3>3. x * y \in Nat
      OBVIOUS
    <3> QED
      BY <2>3, <3>1, <3>2, <3>3 DEF ProductPrice
  <2> QED
    BY <2>2, <2>3
<1>15. PICK scalar \in Nat : scalar = a.scalars[f.difficulty]
  BY <1>7 DEF IsAnimalType, FarmContext
<1>16. PICK revenue \in Int : revenue = product * price * scalar
  <2>1. product * price * scalar \in Int
    OBVIOUS
  <2> QED
    BY <2>1
<1>17. PICK sales \in Int : sales = OrElse(in.sellCount, 0) * OrElse(a.salePrice, 0)
  <2>1. PICK x \in Int : x = OrElse(in.sellCount, 0)
    BY DEF IsHerd, AnimalInputs, OrElse
  <2>2. PICK y \in Nat : y = OrElse(a.salePrice, 0)
    BY <1>7 DEF IsAnimalType, OrElse
  <2>3. x * y \in Int
    OBVIOUS
  <2> QED
    BY <2>1, <2>2, <2>3
<1>18. PICK r : r = AnimalProjection(in, f)
  OBVIOUS
<1>19. product = SumOver(ProductKeys(a), LAMBDA k : PerYear(Production(a, in, f), k))
  BY <1>8, <1>10, <1>11, <1>13 DEF SumOver, SumFunction
<1>20. /\ r.production = given /\ r.consumption = Consumption(a, in) /\ r.product = product
       /\ r.productRevenue = revenue /\ r.salesRevenue = sales /\ r.needs = needs
  BY <1>1, <1>2, <1>10, <1>14, <1>15, <1>16, <1>17, <1>18, <1>19 DEF AnimalProjection
<1>21. r.feedCost = Costs(needs) /\ r.area = Land(needs)
  BY <1>1, <1>2, <1>18 DEF AnimalProjection, Costs, Land
<1>22. r.net = r.productRevenue + r.salesRevenue * One * One - r.feedCost * One
  BY <1>18 DEF AnimalProjection
<1>23. r.net \in Int
  <2>1. PICK paid \in Nat : paid = Costs(needs)
    BY <1>6
  <2>2. r.net = revenue + sales * One * One - paid * One
    BY <1>20, <1>21, <1>22, <2>1
  <2>3. revenue + sales * One * One - paid * One \in Int
    BY OneAssumption
  <2> QED
    BY <2>2, <2>3
<1>24. /\ \A key \in DOMAIN r.production : key \in RateKeys /\ r.production[key] \in Int
       /\ \A key \in DOMAIN r.consumption : key \in RateKeys /\ r.consumption[key] \in Int
  BY <1>1, <1>10, <1>20, HerdAmounts
<1>25. IsAnimalResult(r)
  BY <1>6, <1>20, <1>21, <1>23, <1>24 DEF IsAnimalResult
<1>26. QED
  BY <1>18, <1>25

ScreenIsKnown == screen \in {"fields", "stables", "production", "herd", "speed"}

LEMMA ScreenInvariance == Spec => []ScreenIsKnown
<1>1. Init => ScreenIsKnown
  BY DEF Init, ScreenIsKnown
<1>2. ScreenIsKnown /\ [Next]_vars => ScreenIsKnown'
  <2>1. Next => UNCHANGED screen
    BY DEF Next, ChangeFarm, EditField, EditStable, RemoveRow, TypeNumber,
           PickFeedType, PickCrop, PickSilage, ToggleStraw, EditChain, RemoveChain,
           ToggleMachine, SetArea, SetEfficiency, Show
  <2> QED
    BY <2>1 DEF ScreenIsKnown, vars
<1>3. QED
  BY <1>1, <1>2, PTL DEF Spec

\* The inputs of every screen stay such as the program can hold, and every
\* projection is defined on them -- each number is one the engine declares, no
\* divisor is zero -- for any catalog, farms, machines and chains within the
\* assumptions and after whatever edits (cropEngine.ts, animalEngine.ts,
\* productionEngine.ts, workSpeedEngine.ts).
THEOREM ResultsStayDefined == Spec => []TypeOK
<1>1. ASSUME Inputs, HerdInputs, ScreenIsKnown
      PROVE  TypeOK
  <2>1. farm \in FarmContext
    BY <1>1, FarmsAssumption DEF Inputs
  <2>2. CASE screen = "fields"
    <3>1. \A f \in DOMAIN shown : shown[f] \in Field
      BY <1>1, <2>2 DEF Inputs, FieldRows, Rows
    <3>2. ASSUME NEW f \in Assigned(shown)
          PROVE  Projected(shown, f, farm) \in CropResult
      <4>1. PICK in \in Field : in = shown[f] /\ in.crop \in DOMAIN Crops
        BY <3>1 DEF Assigned
      <4>2. PICK where \in FarmContext : where = farm
        BY <2>1
      <4>3. CropProjection(in.crop, [hectares |-> in.hectares, bonus |-> in.bonus,
                                     silage |-> in.silage], where) \in CropResult
        BY <4>1, WorthIsNat
      <4> QED
        BY <4>1, <4>2, <4>3 DEF Projected
    <3> QED
      BY <2>1, <2>2, <3>1, <3>2 DEF TypeOK
  <2>3. CASE screen = "stables"
    <3>1. \A s \in DOMAIN shown : shown[s] \in Stable
      BY <1>1, <2>3 DEF Inputs, StableRows, Rows
    <3> QED
      BY <2>1, <2>3, <3>1 DEF TypeOK
  <2>4. CASE screen = "production"
    <3>1. ASSUME NEW b \in Ids
          PROVE  /\ \A c \in DOMAIN shown[b] : IsUserChain(shown[b][c])
                 /\ IsProductionResult(ProductionProjection(shown[b]))
      <4>1. PICK B : B = shown[b]
        OBVIOUS
      <4>2. IsBuilding(B)
        BY <1>1, <2>4, <4>1, InputsAreBuildings DEF Buildings
      <4>3. IsProductionResult(ProductionProjection(B))
        BY <4>2, ProductionResults
      <4> QED
        BY <4>1, <4>2, <4>3 DEF IsBuilding
    <3> QED
      BY <2>1, <2>4, <3>1 DEF TypeOK
  <2>5. CASE screen = "herd"
    <3>1. PICK in : in = shown
      OBVIOUS
    <3>2. PICK where \in FarmContext : where = farm
      BY <2>1
    <3>3. IsHerd(in)
      BY <1>1, <2>5, <3>1 DEF HerdInputs, IsHerd
    <3>4. IsAnimalResult(AnimalProjection(in, where))
      BY <3>3, HerdResults
    <3>5. shown \in AnimalInputs /\ IsAnimalResult(Herd)
      BY <3>1, <3>2, <3>3, <3>4 DEF IsHerd, Herd
    <3> QED
      BY <2>1, <2>5, <3>5 DEF TypeOK
  <2>6. CASE screen = "speed"
    <3>1. PICK T \in SUBSET DOMAIN Machines : T = shown.team
      BY <1>1, <2>6 DEF Inputs, Team
    <3>2. PICK area \in Nat \cup {None} : area = shown.area
      BY <1>1, <2>6, InputsAssumption DEF Inputs, Team
    <3>3. PICK e \in MinEfficiency .. MaxEfficiency : e = shown.efficiency
      BY <1>1, <2>6 DEF Inputs, Team
    <3>4. IsWorkSpeedResult(WorkSpeedProjection(Restrict(Machines, T), area, e))
      BY SpeedResults
    <3>5. IsWorkSpeedResult(Speed)
      BY <3>1, <3>2, <3>3, <3>4 DEF Speed
    <3> QED
      BY <2>1, <2>6, <3>1, <3>3, <3>5 DEF TypeOK
  <2> QED
    BY <1>1, <2>2, <2>3, <2>4, <2>5, <2>6 DEF ScreenIsKnown
<1>2. QED
  BY <1>1, InputsInvariance, HerdInvariance, ScreenInvariance, PTL
-----------------------------------------------------------------------------
(* How the herds are fed.                                                    *)
LEMMA LandShrinks ==
  ASSUME NEW p, IsPlan(p), NEW low \in Int, NEW high \in Int,
         One + low > 0, low <= high
  PROVE  NoMoreLand(Entries(p, low), Entries(p, high))
<1>1. ASSUME NEW k \in p.keys
      PROVE  /\ AtMost(Entry(p, k, high).area, Entry(p, k, low).area)
             /\ p.slug[k] = "straw" => Entry(p, k, high).area = Entry(p, k, low).area
  <2>1. PICK slug : slug = p.slug[k]
    OBVIOUS
  <2>2. PICK n \in Nat, base \in Int : n = p.liters[k] /\ base = p.base[k]
    BY DEF IsPlan
  <2>3. PICK x \in Nat \ {0}, y \in Nat \ {0} :
          x = Factor(slug, low) /\ y = Factor(slug, high)
    <3>1. Factor(slug, low) \in Nat \ {0} /\ Factor(slug, high) \in Nat \ {0}
      BY OneAssumption DEF Factor
    <3> QED
      BY <3>1
  <2>4. x <= y /\ (slug = "straw" => x = y)
    BY <2>3, OneAssumption DEF Factor
  <2>5. /\ Entry(p, k, low).area = AreaFor(n, base * x)
        /\ Entry(p, k, high).area = AreaFor(n, base * y)
    BY <2>1, <2>2, <2>3 DEF Entry
  <2>6. CASE base <= 0
    <3>1. base * x <= 0 /\ base * y <= 0
      <4>1. PICK c \in Nat : c = -base
        BY <2>6
      <4>2. c * x >= 0 /\ c * y >= 0
        OBVIOUS
      <4>3. base * x = -(c * x) /\ base * y = -(c * y)
        BY <4>1
      <4> QED
        BY <4>2, <4>3
    <3> QED
      BY <2>5, <3>1 DEF AreaFor, AtMost, Zero, Ratio
  <2>7. CASE base > 0
    <3>0. base \in Nat \ {0}
      BY <2>7
    <3>1. base * x > 0 /\ base * y > 0
      BY <3>0
    <3>2. base * x <= base * y
      <4>1. PICK d \in Nat : y = x + d
        <5>1. y - x \in Nat /\ y = x + (y - x)
          BY <2>4
        <5> QED
          BY <5>1
      <4>2. base * y = base * x + base * d /\ base * d >= 0
        BY <3>0, <4>1
      <4> QED
        BY <4>2
    <3>3. PICK v \in Nat, w \in Nat : v = base * x /\ w = base * y
      <4>1. base * x \in Nat /\ base * y \in Nat
        BY <3>0
      <4> QED
        BY <4>1
    <3>4. n * v <= n * w
      <4>1. PICK d \in Nat : w = v + d
        <5>1. w - v \in Nat /\ w = v + (w - v)
          BY <3>2, <3>3
        <5> QED
          BY <5>1
      <4>2. n * w = n * v + n * d /\ n * d >= 0
        BY <4>1
      <4> QED
        BY <4>2
    <3>5. AtMost(AreaFor(n, w), AreaFor(n, v))
      BY <3>1, <3>3, <3>4 DEF AreaFor, AtMost, Ratio
    <3> QED
      BY <2>1, <2>4, <2>5, <3>3, <3>5
  <2> QED
    BY <2>6, <2>7
<1>2. ASSUME NEW k \in p.keys, NEW b
      PROVE  Entry(p, k, b).key = k /\ Entry(p, k, b).slug = p.slug[k]
  BY DEF Entry
<1>3. SUFFICES ASSUME NEW r \in Entries(p, low), NEW s \in Entries(p, high), r.key = s.key
               PROVE  AtMost(s.area, r.area) /\ (r.slug = "straw" => s.area = r.area)
  BY DEF NoMoreLand
<1>4. PICK k \in p.keys : r = Entry(p, k, low)
  BY DEF Entries
<1>5. PICK l \in p.keys : s = Entry(p, l, high)
  BY DEF Entries
<1>6. k = l
  BY <1>2, <1>3, <1>4, <1>5
<1>7. QED
  BY <1>1, <1>2, <1>4, <1>5, <1>6

ProductOf(a, given) == SumOver(ProductKeys(a), LAMBDA k : PerYear(given, k))

\* Another bonus is another plan of the land, and of nothing else.
LEMMA BonusMovesTheLandOnly ==
  ASSUME NEW in, IsHerd(in), NEW f \in FarmContext, NEW b \in Nat,
         NEW new, new = [in EXCEPT !.bonus = b]
  PROVE  LET old == AnimalProjection(in, f)
             other == AnimalProjection(new, f)
         IN /\ SameAnimals(old, other)
            /\ One + EffectiveBonus(in.bonus, f) > 0 =>
                 IF b >= EffectiveBonus(in.bonus, f)
                 THEN NoMoreLand(old.needs, other.needs)
                 ELSE NoMoreLand(other.needs, old.needs)
<1>1. PICK a : a = AnimalTypes[in.species]
  OBVIOUS
<1>2. /\ SameRation(in, in) /\ SameRation(in, new) /\ new.sellCount = in.sellCount
      /\ new.bonus = b /\ new.species = in.species
  BY DEF IsHerd, AnimalInputs, SameRation
<1>3. PICK own \in Int : own = EffectiveBonus(in.bonus, f)
  BY DEF IsHerd, AnimalInputs, EffectiveBonus, OrElse, FarmContext
<1>4. EffectiveBonus(new.bonus, f) = b
  BY <1>2, NoneAssumption DEF EffectiveBonus, OrElse
<1>5. PICK p : IsPlanOf(p, in, f)
  BY HerdPlan
<1>6. /\ IsPlan(p) /\ Fieldwork(a, in, f) = Entries(p, own)
      /\ Fieldwork(a, new, f) = Entries(p, b)
  <2>1. /\ IsPlan(p)
        /\ \A same : SameRation(in, same) /\ EffectiveBonus(same.bonus, f) \in Int =>
             Fieldwork(a, same, f) = Entries(p, EffectiveBonus(same.bonus, f))
    BY <1>1, <1>5 DEF IsPlanOf
  <2>2. Fieldwork(a, in, f) = Entries(p, own)
    BY <1>2, <1>3, <2>1
  <2>3. b \in Int /\ EffectiveBonus(new.bonus, f) \in Int
    BY <1>4
  <2>4. Fieldwork(a, new, f) = Entries(p, b)
    BY <1>2, <1>4, <2>1, <2>3
  <2> QED
    BY <2>1, <2>2, <2>4
<1>7. PICK old : old = AnimalProjection(in, f)
  OBVIOUS
<1>8. PICK other : other = AnimalProjection(new, f)
  OBVIOUS
<1>9. PICK needs : needs = Entries(p, own)
  OBVIOUS
<1>10. PICK news : news = Entries(p, b)
  OBVIOUS
<1>11. Costs(news) = Costs(needs)
  <2>1. Costs(needs) = SumFunctionOnSet(p.cost, p.keys)
    BY <1>6, <1>9, PlanSums
  <2>2. Costs(news) = SumFunctionOnSet(p.cost, p.keys)
    BY <1>6, <1>10, PlanSums
  <2> QED
    BY <2>1, <2>2
<1>12. /\ Production(a, new, f) = Production(a, in, f)
       /\ Consumption(a, new) = Consumption(a, in)
  BY <1>2 DEF SameRation, Production, Consumption, ProductMultiplier
<1>13. old.needs = needs /\ old.feedCost = Costs(needs)
  BY <1>1, <1>6, <1>7, <1>9 DEF AnimalProjection, Costs
<1>14. other.needs = news /\ other.feedCost = Costs(news)
  BY <1>1, <1>2, <1>6, <1>8, <1>10 DEF AnimalProjection, Costs
<1>15. /\ other.production = old.production /\ other.consumption = old.consumption
       /\ other.productRevenue = old.productRevenue /\ other.salesRevenue = old.salesRevenue
  <2>1. /\ old.production = Production(a, in, f) /\ old.consumption = Consumption(a, in)
        /\ old.productRevenue = ProductOf(a, Production(a, in, f)) * ProductPrice(a, f)
                                  * a.scalars[f.difficulty]
        /\ old.salesRevenue = OrElse(in.sellCount, 0) * OrElse(a.salePrice, 0)
    BY <1>1, <1>7 DEF AnimalProjection, ProductOf
  <2>2. /\ other.production = Production(a, new, f) /\ other.consumption = Consumption(a, new)
        /\ other.productRevenue = ProductOf(a, Production(a, new, f)) * ProductPrice(a, f)
                                    * a.scalars[f.difficulty]
        /\ other.salesRevenue = OrElse(new.sellCount, 0) * OrElse(a.salePrice, 0)
    BY <1>1, <1>2, <1>8 DEF AnimalProjection, ProductOf
  <2> QED
    BY <1>2, <1>12, <2>1, <2>2
<1>16. other.net = old.net
  <2>1. old.net = old.productRevenue + old.salesRevenue * One * One - old.feedCost * One
    BY <1>7 DEF AnimalProjection
  <2>2. other.net
          = other.productRevenue + other.salesRevenue * One * One - other.feedCost * One
    BY <1>8 DEF AnimalProjection
  <2> QED
    BY <1>11, <1>13, <1>14, <1>15, <2>1, <2>2
<1>17. SameAnimals(old, other)
  BY <1>15, <1>16 DEF SameAnimals
<1>18. CASE b >= own
  <2>1. One + own > 0 => NoMoreLand(needs, news)
    BY <1>6, <1>9, <1>10, <1>18, LandShrinks
  <2> QED
    BY <1>3, <1>7, <1>8, <1>13, <1>14, <1>17, <1>18, <2>1
<1>19. CASE ~(b >= own)
  <2>1. b <= own /\ One + b > 0
    BY <1>19, OneAssumption
  <2>2. NoMoreLand(news, needs)
    BY <1>6, <1>9, <1>10, <2>1, LandShrinks
  <2> QED
    BY <1>3, <1>7, <1>8, <1>13, <1>14, <1>17, <1>19, <2>2
<1>20. QED
  BY <1>18, <1>19

\* Without bedding nothing is asked for that is not asked for with it.
LEMMA BeddingComesOnTop ==
  ASSUME NEW a, NEW in, NEW new, NEW b, NEW food \in Int, NEW bedding \in Int,
         new.feedType = in.feedType, new.grassHarvests = in.grassHarvests,
         new.silageCrop = in.silageCrop
  PROVE  RuminantFieldwork(a, new, b, food, 0)
           \subseteq RuminantFieldwork(a, in, b, food, bedding)
<1>1. PICK type : type = OrElse(in.feedType, "tmr")
  OBVIOUS
<1>2. PICK slug : slug = OrElse(in.silageCrop, First(a.silageCrops))
  OBVIOUS
<1>3. OrElse(new.feedType, "tmr") = type /\ OrElse(new.silageCrop, First(a.silageCrops)) = slug
  BY <1>1, <1>2
<1>4. \A key, liters : GrassNeed(key, new, b, liters) = GrassNeed(key, in, b, liters)
  BY DEF GrassNeed
<1>5. CASE food <= 0
  BY <1>5 DEF RuminantFieldwork
<1>6. CASE food > 0 /\ type = "tmr" /\ a.ratios # None
  <2>1. PICK mix :
          mix = {GrassNeed("hay", in, b, food * a.ratios.hay),
                 StrawNeed("tmr-straw", food * a.ratios.straw, b),
                 Bought("mineralFeed", "mineralFeed", food * a.ratios.mineral,
                        MineralFeedPrice)}
                \cup (IF slug = None THEN {}
                      ELSE {Need("silage", slug, food * a.ratios.silage,
                                 SilageYield(slug, b))})
    OBVIOUS
  <2>2. RuminantFieldwork(a, new, b, food, 0) = mix
    BY <1>3, <1>4, <1>6, <2>1 DEF RuminantFieldwork
  <2>3. mix \subseteq RuminantFieldwork(a, in, b, food, bedding)
    BY <1>1, <1>2, <1>6, <2>1 DEF RuminantFieldwork
  <2> QED
    BY <2>2, <2>3
<1>7. CASE food > 0 /\ ~(type = "tmr" /\ a.ratios # None)
  <2>1. RuminantFieldwork(a, new, b, food, 0) = RuminantFieldwork(a, in, b, food, bedding)
    BY <1>1, <1>2, <1>3, <1>4, <1>7 DEF RuminantFieldwork
  <2> QED
    BY <2>1
<1>8. QED
  BY <1>5, <1>6, <1>7

LEMMA NoStrawNoBedding ==
  ASSUME NEW in, IsHerd(in), NEW f \in FarmContext, "straw" \in Visible(in.species),
         NEW bare, bare = [in EXCEPT !.straw = FALSE]
  PROVE  LET old == AnimalProjection(in, f)
             new == AnimalProjection(bare, f)
         IN /\ PerYear(new.consumption, "straw") = 0
            /\ PerYear(new.production, "manure") = 0
            /\ new.needs \subseteq old.needs
<1>1. PICK a : a = AnimalTypes[in.species]
  OBVIOUS
<1>2. /\ bare.species = in.species /\ bare.count = in.count /\ bare.feedType = in.feedType
      /\ bare.straw = FALSE /\ bare.grassHarvests = in.grassHarvests
      /\ bare.silageCrop = in.silageCrop /\ bare.pick = in.pick /\ bare.bonus = in.bonus
      /\ in.count \in Int
  BY DEF IsHerd, AnimalInputs
<1>3. IsAnimalType(a) /\ a.species = in.species /\ in.species \in SpeciesAll
  BY <1>1, AnimalTypeFacts DEF IsHerd
<1>4. in.species \in {"cow", "buffalo", "pig", "horse"}
  BY <1>3 DEF Visible, Ruminants, SpeciesAll
<1>5. \A rate : GatedRate(a.species, "straw", rate, FALSE) = 0
                /\ GatedRate(a.species, "manure", rate, FALSE) = 0
  BY <1>3, <1>4 DEF GatedRate
<1>6. "manure" \notin ProductKeys(a)
  <2>1. a.product # None =>
          a.product.slug \in {"milk", "buffalo_milk", "goat_milk", "eggs", "wool"}
    BY <1>1, RationsAssumption DEF IsHerd
  <2> QED
    BY <2>1 DEF ProductKeys
<1>7. PICK eaten : eaten = Consumption(a, bare)
  OBVIOUS
<1>8. PICK given : given = Production(a, bare, f)
  OBVIOUS
<1>9. "straw" \in DOMAIN eaten => eaten["straw"] = 0
  <2>1. SUFFICES ASSUME "straw" \in DOMAIN eaten PROVE eaten["straw"] = 0
    OBVIOUS
  <2>2. eaten["straw"] = -GatedRate(a.species, "straw", a.rates["straw"], bare.straw) * bare.count
    BY <1>7, <2>1 DEF Consumption
  <2>3. eaten["straw"] = -0 * in.count
    BY <1>2, <1>5, <2>2
  <2> QED
    BY <1>2, <2>3
<1>10. "manure" \in DOMAIN given => given["manure"] = 0
  <2>1. SUFFICES ASSUME "manure" \in DOMAIN given PROVE given["manure"] = 0
    OBVIOUS
  <2>2. given["manure"]
          = bare.count * (GatedRate(a.species, "manure", a.rates["manure"], bare.straw)
                            * One * One)
    BY <1>6, <1>8, <2>1 DEF Production
  <2>3. given["manure"] = in.count * (0 * One * One)
    BY <1>2, <1>5, <2>2
  <2> QED
    BY <1>2, <2>3, OneAssumption
<1>11. PICK food \in Int : food = PerYear(Consumption(a, in), "food")
  BY <1>1, HerdAmounts
<1>12. PICK bedding \in Int : bedding = PerYear(Consumption(a, in), "straw")
  BY <1>1, HerdAmounts
<1>13. PerYear(eaten, "food") = food /\ PerYear(eaten, "straw") = 0
  <2>1. \A rate : GatedRate(a.species, "food", rate, bare.straw)
                    = GatedRate(a.species, "food", rate, in.straw)
    BY DEF GatedRate
  <2>2. DOMAIN eaten = DOMAIN Consumption(a, in)
    BY <1>7 DEF Consumption
  <2>3. "food" \in DOMAIN eaten => eaten["food"] = Consumption(a, in)["food"]
    <3>1. SUFFICES ASSUME "food" \in DOMAIN eaten
                   PROVE  eaten["food"] = Consumption(a, in)["food"]
      OBVIOUS
    <3>2. eaten["food"] = -GatedRate(a.species, "food", a.rates["food"], bare.straw) * bare.count
      BY <1>7, <3>1 DEF Consumption
    <3>3. Consumption(a, in)["food"]
            = -GatedRate(a.species, "food", a.rates["food"], in.straw) * in.count
      BY <2>2, <3>1 DEF Consumption
    <3> QED
      BY <1>2, <2>1, <3>2, <3>3
  <2>4. PerYear(eaten, "food") = food
    BY <1>11, <2>2, <2>3 DEF PerYear
  <2> QED
    BY <1>9, <2>4 DEF PerYear, MonthsPerYear
<1>14. PICK b : b = EffectiveBonus(in.bonus, f)
  OBVIOUS
<1>15. Fieldwork(a, bare, f) \subseteq Fieldwork(a, in, f)
  <2>1. CASE in.species \in {"cow", "buffalo"}
    <3>1. Fieldwork(a, bare, f) = RuminantFieldwork(a, bare, b, food, 0)
      BY <1>2, <1>3, <1>7, <1>13, <1>14, <2>1 DEF Fieldwork, Ruminants
    <3>2. Fieldwork(a, in, f) = RuminantFieldwork(a, in, b, food, bedding)
      BY <1>3, <1>11, <1>12, <1>14, <2>1 DEF Fieldwork, Ruminants
    <3>3. RuminantFieldwork(a, bare, b, food, 0)
            \subseteq RuminantFieldwork(a, in, b, food, bedding)
      BY <1>2, BeddingComesOnTop
    <3> QED
      BY <3>1, <3>2, <3>3
  <2>2. CASE in.species \in {"pig", "horse"}
    <3>1. Fieldwork(a, bare, f) = ComponentFieldwork(a, bare, b)
      BY <1>2, <1>3, <1>14, <2>2 DEF Fieldwork, Ruminants
    <3>2. Fieldwork(a, in, f) = ComponentFieldwork(a, in, b)
      BY <1>3, <1>14, <2>2 DEF Fieldwork, Ruminants
    <3>3. ComponentFieldwork(a, bare, b) = ComponentFieldwork(a, in, b)
      BY <1>2 DEF ComponentFieldwork, GrassNeed
    <3> QED
      BY <3>1, <3>2, <3>3
  <2> QED
    BY <1>4, <2>1, <2>2
<1>16. PICK old : old = AnimalProjection(in, f)
  OBVIOUS
<1>17. PICK new : new = AnimalProjection(bare, f)
  OBVIOUS
<1>18. old.needs = Fieldwork(a, in, f)
  BY <1>1, <1>16 DEF AnimalProjection
<1>19. new.needs = Fieldwork(a, bare, f) /\ new.consumption = eaten /\ new.production = given
  BY <1>1, <1>2, <1>7, <1>8, <1>17 DEF AnimalProjection
<1>20. PerYear(given, "manure") = 0
  BY <1>10 DEF PerYear, MonthsPerYear
<1>21. QED
  BY <1>13, <1>15, <1>16, <1>17, <1>18, <1>19, <1>20

\* A herd is fed once, from the land its feed takes, and lies on straw or not,
\* for every catalog with whole rations, every farm and whatever is typed: what
\* is grown and bought is the food consumed (twice for "simple", nothing for a
\* herd of a negative count), another bonus moves nothing but the land, never up
\* when it rises as long as something grows (a bonus above -100 %), and without
\* straw there is neither bedding nor manure and no new need (animalEngine.ts,
\* AnimalInputsPanel.vue).
THEOREM HerdsStayFed == Spec => []HerdsAreFed
<1>1. ASSUME Inputs, HerdInputs
      PROVE  HerdsAreFed
  <2>1. SUFFICES ASSUME screen = "herd" PROVE HerdsAreFed
    BY DEF HerdsAreFed, FeedIsAccounted, LandFollowsTheBonus, StrawOffAsksForNothing
  <2>2. PICK in : in = shown
    OBVIOUS
  <2>3. PICK f \in FarmContext : f = farm
    BY <1>1, FarmsAssumption DEF Inputs
  <2>4. IsHerd(in)
    BY <1>1, <2>1, <2>2 DEF HerdInputs, IsHerd
  <2>5. PICK a : a = AnimalTypes[in.species]
    OBVIOUS
  <2>6. PICK herd : herd = AnimalProjection(in, f)
    OBVIOUS
  <2>7. Herd = herd
    BY <2>2, <2>3, <2>6 DEF Herd
  <2>8. FeedIsAccounted
    <3>1. SUFFICES ASSUME in.species \in {"cow", "buffalo", "chicken", "sheep", "goat"}
                   PROVE  ListedIn(herd.needs)
                            = Fed(PerYear(herd.consumption, "food")) * One
                                * (IF in.feedType = "simple" THEN 2 ELSE 1)
      <4>1. PICK times \in Nat : times = IF in.feedType = "simple" THEN 2 ELSE 1
        OBVIOUS
      <4>2. PICK food : food = PerYear(herd.consumption, "food")
        OBVIOUS
      <4>3. Fed(food) * One * times = IF food > 0 THEN food * One * times ELSE 0
        BY OneAssumption DEF Fed
      <4> QED
        BY <2>2, <2>7, <4>1, <4>2, <4>3 DEF FeedIsAccounted, ListedIn, Eaten
    <3>2. PICK p : IsPlanOf(p, in, f)
      BY <2>4, HerdPlan
    <3>3. PICK b \in Int : b = EffectiveBonus(in.bonus, f)
      BY <2>4 DEF IsHerd, AnimalInputs, EffectiveBonus, OrElse, FarmContext
    <3>4. PICK needs : needs = Entries(p, b)
      OBVIOUS
    <3>5. IsPlan(p) /\ Fieldwork(a, in, f) = needs
      BY <2>5, <3>2, <3>3, <3>4 DEF IsPlanOf, SameRation
    <3>6. Listed(p) = Fed(PerYear(Consumption(a, in), "food")) * One * Times(in)
      BY <2>5, <3>1, <3>2 DEF IsPlanOf, FedFromTheRation, Ruminants
    <3>7. herd.needs = needs /\ herd.consumption = Consumption(a, in)
      BY <2>5, <2>6, <3>5 DEF AnimalProjection
    <3>8. ListedIn(needs) = Listed(p)
      BY <3>4, <3>5, PlanSums
    <3> QED
      BY <3>6, <3>7, <3>8 DEF Times
  <2>9. LandFollowsTheBonus
    <3>1. SUFFICES ASSUME NEW b \in Bonuses
                   PROVE  LET other == AnimalProjection([in EXCEPT !.bonus = b], f)
                          IN /\ SameAnimals(herd, other)
                             /\ One + EffectiveBonus(in.bonus, f) > 0 =>
                                  IF b >= EffectiveBonus(in.bonus, f)
                                  THEN NoMoreLand(herd.needs, other.needs)
                                  ELSE NoMoreLand(other.needs, herd.needs)
      BY <2>2, <2>3, <2>7 DEF LandFollowsTheBonus
    <3>2. b \in Nat
      BY RowsAssumption
    <3>3. PICK new : new = [in EXCEPT !.bonus = b]
      OBVIOUS
    <3>4. PICK other : other = AnimalProjection(new, f)
      OBVIOUS
    <3>5. /\ SameAnimals(herd, other)
          /\ One + EffectiveBonus(in.bonus, f) > 0 =>
               IF b >= EffectiveBonus(in.bonus, f)
               THEN NoMoreLand(herd.needs, other.needs)
               ELSE NoMoreLand(other.needs, herd.needs)
      BY <2>4, <2>6, <3>2, <3>3, <3>4, BonusMovesTheLandOnly
    <3> QED
      BY <3>3, <3>4, <3>5
  <2>10. StrawOffAsksForNothing
    <3>1. SUFFICES ASSUME "straw" \in Visible(in.species)
                   PROVE  LET bare == AnimalProjection([in EXCEPT !.straw = FALSE], f)
                          IN /\ PerYear(bare.consumption, "straw") = 0
                             /\ PerYear(bare.production, "manure") = 0
                             /\ bare.needs \subseteq herd.needs
      BY <2>2, <2>3, <2>7 DEF StrawOffAsksForNothing
    <3>2. PICK new : new = [in EXCEPT !.straw = FALSE]
      OBVIOUS
    <3>3. PICK bare : bare = AnimalProjection(new, f)
      OBVIOUS
    <3>4. /\ PerYear(bare.consumption, "straw") = 0
          /\ PerYear(bare.production, "manure") = 0
          /\ bare.needs \subseteq herd.needs
      BY <2>4, <2>6, <3>1, <3>2, <3>3, NoStrawNoBedding
    <3> QED
      BY <3>2, <3>3, <3>4
  <2> QED
    BY <2>8, <2>9, <2>10 DEF HerdsAreFed
<1>2. QED
  BY <1>1, InputsInvariance, HerdInvariance, PTL
=============================================================================
