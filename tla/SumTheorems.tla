------------------------------ MODULE SumTheorems ------------------------------
(***************************************************************************)
(* What the proofs need to know of SumFunctionOnSet(f, S), the sum of f[k] *)
(* over the k of a finite set S: money is summed over bets, withdrawals    *)
(* and ledger rows.  The operator adds the elements one by one in an order *)
(* that a CHOOSE fixes; the lemmas say that the order does not matter.     *)
(*                                                                         *)
(* Each is an induction over subsets.  It is put as an argument about a    *)
(* smallest counterexample: a set of sets has a minimal element because    *)
(* strict inclusion of finite sets is well founded.                        *)
(***************************************************************************)
EXTENDS Integers, Functions, FiniteSetTheorems, WellFoundedInduction, TLAPS

LEMMA SmallestSubset ==
    ASSUME NEW S, IsFiniteSet(S), NEW T, T \subseteq SUBSET S, T # {}
    PROVE  \E x \in T : \A y \in T : y \subseteq x => y = x
<1> DEFINE R == StrictSubsetOrdering(S)
<1>1. IsWellFoundedOn(R, SUBSET S)
  BY FS_StrictSubsetOrderingWellFounded, FS_FiniteSubsetsOfFinite, Zenon
<1> HIDE DEF R
<1>2. PICK x \in T : \A y \in T : ~ (<<y, x>> \in R)
  BY <1>1, WFMin, Zenon
<1>3. \A y \in T : y \subseteq x => y = x
  BY <1>2 DEF R, StrictSubsetOrdering
<1> QED
  BY <1>3

-----------------------------------------------------------------------------
(* The recursive function behind the fold *)

First(s) == CHOOSE x \in s : TRUE
Folded(g, f, s) == IF s = {} THEN 0 ELSE f[First(s)] + g[s \ {First(s)}]
IsFold(g, f, S) == g = [s \in SUBSET S |-> Folded(g, f, s)]
Fold(f, S) == CHOOSE g : IsFold(g, f, S)

LEMMA SumIsFold == ASSUME NEW f, NEW S PROVE SumFunctionOnSet(f, S) = Fold(f, S)[S]
  BY DEF SumFunctionOnSet, FoldFunctionOnSet, MapThenFoldSet, Fold, IsFold, Folded, First

LEMMA FirstIn == ASSUME NEW s, s # {} PROVE First(s) \in s
  BY DEF First

\* Subsets of S with no more elements than T.
Upto(S, T) == {s \in SUBSET S : Cardinality(s) <= Cardinality(T)}
FoldsUpto(S, T, f) == \E g : g = [s \in Upto(S, T) |-> Folded(g, f, s)]

\* The recursion has a solution: one for the sets smaller than T is extended to
\* those of T's size.
LEMMA FoldExists == ASSUME NEW f, NEW S, IsFiniteSet(S) PROVE IsFold(Fold(f, S), f, S)
<1> DEFINE Bad == {T \in SUBSET S : ~ FoldsUpto(S, T, f)}
<1>1. \A s \in SUBSET S : IsFiniteSet(s) /\ Cardinality(s) \in Nat
  BY FS_Subset, FS_CardinalityType
<1>2. Bad = {}
  <2> SUFFICES ASSUME Bad # {} PROVE FALSE
    OBVIOUS
  <2>1. PICK T \in Bad : \A y \in Bad : y \subseteq T => y = T
    <3>1. Bad \subseteq SUBSET S
      OBVIOUS
    <3> HIDE DEF Bad
    <3> QED
      BY <3>1, SmallestSubset
  <2>2. CASE T = {}
    <3>1. \A s \in Upto(S, T) : s = {}
      BY <1>1, <2>2, FS_EmptySet DEF Upto
    <3> DEFINE g == [s \in Upto(S, T) |-> 0]
    <3>2. g = [s \in Upto(S, T) |-> Folded(g, f, s)]
      BY <3>1 DEF Folded
    <3> QED
      BY <2>1, <3>2 DEF FoldsUpto
  <2>3. CASE T # {}
    <3>1. PICK y \in T : TRUE
      BY <2>3
    <3>2. T \ {y} \notin Bad /\ T \ {y} \in SUBSET S
      BY <2>1, <3>1
    <3>3. PICK g0 : g0 = [s \in Upto(S, T \ {y}) |-> Folded(g0, f, s)]
      BY <3>2 DEF FoldsUpto
    <3> DEFINE g == [s \in Upto(S, T) |-> Folded(g0, f, s)]
    <3>4. ASSUME NEW s \in Upto(S, T) PROVE Folded(g0, f, s) = Folded(g, f, s)
      <4>1. CASE s = {}
        BY <4>1 DEF Folded
      <4>2. CASE s # {}
        <5> DEFINE t == s \ {First(s)}
        <5>1. First(s) \in s
          BY <4>2, FirstIn
        <5>2. s \in SUBSET S /\ T \in SUBSET S /\ t \in SUBSET S
          BY <2>1 DEF Upto
        <5>3. Cardinality(t) = Cardinality(s) - 1
          BY <5>1, <5>2, <1>1, FS_RemoveElement
        <5>4. Cardinality(T \ {y}) = Cardinality(T) - 1
          BY <3>1, <5>2, <1>1, FS_RemoveElement
        <5>5. t \in Upto(S, T \ {y}) /\ t \in Upto(S, T)
          BY <5>2, <5>3, <5>4, <1>1 DEF Upto
        <5>6. g0[t] = Folded(g0, f, t) /\ g[t] = Folded(g0, f, t)
          BY <3>3, <5>5
        <5> QED
          BY <5>6, <4>2 DEF Folded
      <4> QED
        BY <4>1, <4>2
    <3>5. g = [s \in Upto(S, T) |-> Folded(g, f, s)]
      BY <3>4
    <3> QED
      BY <2>1, <3>5 DEF FoldsUpto
  <2> QED
    BY <2>2, <2>3
<1>3. Upto(S, S) = SUBSET S
  BY FS_Subset DEF Upto
<1>4. FoldsUpto(S, S, f)
  BY <1>2
<1>5. \E g : IsFold(g, f, S)
  BY <1>3, <1>4 DEF FoldsUpto, IsFold
<1> QED
  BY <1>5 DEF Fold

-----------------------------------------------------------------------------
(* The recursion's value does not depend on the order *)

LEMMA FoldStep ==
    ASSUME NEW f, NEW S, NEW g, IsFold(g, f, S), NEW s \in SUBSET S, s # {}
    PROVE  First(s) \in s /\ g[s] = f[First(s)] + g[s \ {First(s)}]
  BY FirstIn DEF IsFold, Folded

LEMMA FoldEmpty ==
    ASSUME NEW f, NEW S, NEW g, IsFold(g, f, S) PROVE g[{}] = 0
  BY DEF IsFold, Folded

LEMMA FoldType ==
    ASSUME NEW f, NEW S, NEW g, IsFiniteSet(S), IsFold(g, f, S), \A x \in S : f[x] \in Int,
           NEW T \in SUBSET S
    PROVE  g[T] \in Int
<1> DEFINE Bad == {s \in SUBSET S : g[s] \notin Int}
<1>1. SUFFICES ASSUME Bad # {} PROVE FALSE
  OBVIOUS
<1>2. PICK s \in Bad : \A y \in Bad : y \subseteq s => y = s
  <2>1. Bad \subseteq SUBSET S
    OBVIOUS
  <2> HIDE DEF Bad
  <2> QED
    BY <1>1, <2>1, SmallestSubset
<1>3. s # {} /\ s \in SUBSET S
  <2>1. g[{}] = 0
    BY FoldEmpty
  <2> QED
    BY <1>2, <2>1
<1>4. First(s) \in s /\ g[s] = f[First(s)] + g[s \ {First(s)}]
  BY <1>3, FoldStep
<1>5. g[s \ {First(s)}] \in Int
  BY <1>2, <1>3, <1>4
<1>6. f[First(s)] \in Int
  BY <1>3, <1>4
<1> QED
  BY <1>2, <1>4, <1>5, <1>6

LEMMA FoldRemove ==
    ASSUME NEW f, NEW S, NEW g, IsFiniteSet(S), IsFold(g, f, S), \A x \in S : f[x] \in Int,
           NEW T \in SUBSET S, NEW z \in T
    PROVE  g[T] = f[z] + g[T \ {z}]
<1> DEFINE Bad == {s \in SUBSET S : \E x \in s : g[s] # f[x] + g[s \ {x}]}
<1>1. SUFFICES ASSUME Bad # {} PROVE FALSE
  OBVIOUS
<1>2. PICK s \in Bad : \A y \in Bad : y \subseteq s => y = s
  <2>1. Bad \subseteq SUBSET S
    OBVIOUS
  <2> HIDE DEF Bad
  <2> QED
    BY <1>1, <2>1, SmallestSubset
<1>3. PICK x \in s : g[s] # f[x] + g[s \ {x}]
  BY <1>2
<1>0. s \in SUBSET S /\ s # {}
  BY <1>2, <1>3
<1>4. PICK y : s \in SUBSET S /\ y \in s /\ g[s] = f[y] + g[s \ {y}]
  <2>1. First(s) \in s /\ g[s] = f[First(s)] + g[s \ {First(s)}]
    BY ONLY <1>0, IsFold(g, f, S), FoldStep
  <2> QED
    BY <1>0, <2>1
<1>5. y # x
  BY <1>3, <1>4
<1>6. g[s \ {y}] = f[x] + g[(s \ {y}) \ {x}]
  BY <1>2, <1>3, <1>4, <1>5
<1>7. g[s \ {x}] = f[y] + g[(s \ {x}) \ {y}]
  BY <1>2, <1>3, <1>4, <1>5
<1>8. (s \ {y}) \ {x} = (s \ {x}) \ {y}
  OBVIOUS
<1>9. g[(s \ {x}) \ {y}] \in Int /\ f[x] \in Int /\ f[y] \in Int
  <2>1. (s \ {x}) \ {y} \in SUBSET S
    BY <1>0
  <2> QED
    BY <1>3, <1>4, <2>1, FoldType
<1> DEFINE a == g[(s \ {x}) \ {y}]
<1>10. g[s] = f[y] + (f[x] + a) /\ g[s \ {x}] = f[y] + a
  BY <1>4, <1>6, <1>7, <1>8
<1> HIDE DEF a
<1>11. a \in Int /\ f[x] \in Int /\ f[y] \in Int
  BY <1>9 DEF a
<1> QED
  BY <1>3, <1>10, <1>11

\* Two folds agree on a set on which their functions do.
LEMMA FoldAgree ==
    ASSUME NEW f, NEW S, NEW g, IsFold(g, f, S),
           NEW e, NEW T, NEW h, IsFold(h, e, T),
           NEW U \in SUBSET (S \cap T), IsFiniteSet(U), \A x \in U : f[x] = e[x]
    PROVE  g[U] = h[U]
<1> DEFINE Bad == {s \in SUBSET U : g[s] # h[s]}
<1>1. SUFFICES ASSUME Bad # {} PROVE FALSE
  OBVIOUS
<1>2. PICK s \in Bad : \A y \in Bad : y \subseteq s => y = s
  <2>1. Bad \subseteq SUBSET U
    OBVIOUS
  <2> HIDE DEF Bad
  <2> QED
    BY <1>1, <2>1, SmallestSubset
<1>3. s # {} /\ s \in SUBSET S /\ s \in SUBSET T /\ s \in SUBSET U
  <2>1. g[{}] = 0
    BY FoldEmpty
  <2>2. h[{}] = 0
    BY FoldEmpty
  <2> QED
    BY <1>2, <2>1, <2>2
<1> HIDE DEF Bad
<1>4. First(s) \in s /\ g[s] = f[First(s)] + g[s \ {First(s)}]
  BY ONLY <1>3, IsFold(g, f, S), FoldStep
<1>5. h[s] = e[First(s)] + h[s \ {First(s)}]
  BY ONLY <1>3, IsFold(h, e, T), FoldStep
<1> USE DEF Bad
<1>6. g[s \ {First(s)}] = h[s \ {First(s)}]
  BY <1>2, <1>3, <1>4
<1> QED
  BY <1>2, <1>3, <1>4, <1>5, <1>6

-----------------------------------------------------------------------------
(* Sums *)

\* Induction over the subsets of S, for a set of subsets instead of a formula.
LEMMA SubsetInduction ==
    ASSUME NEW S, IsFiniteSet(S), NEW Good \in SUBSET SUBSET S,
           {} \in Good, \A T \in SUBSET S : \A x \in T : T \ {x} \in Good => T \in Good
    PROVE  S \in Good
<1> DEFINE Bad == (SUBSET S) \ Good
<1>1. SUFFICES ASSUME Bad # {} PROVE FALSE
  OBVIOUS
<1>2. PICK T \in Bad : \A y \in Bad : y \subseteq T => y = T
  <2>1. Bad \subseteq SUBSET S
    OBVIOUS
  <2> HIDE DEF Bad
  <2> QED
    BY <1>1, <2>1, SmallestSubset
<1>3. T # {} /\ T \in SUBSET S /\ T \notin Good
  BY <1>2
<1>4. PICK x : x \in T
  BY <1>3
<1>5. T \ {x} \in SUBSET S /\ T \ {x} # T
  BY <1>3, <1>4
<1>6. T \ {x} \in Good
  BY <1>2, <1>5
<1> QED
  BY <1>3, <1>4, <1>6

IntOn(f, S) == \A x \in S : f[x] \in Int

LEMMA SumEmpty == \A f : SumFunctionOnSet(f, {}) = 0
<1> SUFFICES ASSUME NEW f PROVE SumFunctionOnSet(f, {}) = 0
  OBVIOUS
<1>1. IsFold(Fold(f, {}), f, {})
  BY FoldExists, FS_EmptySet
<1> QED
  BY <1>1, FoldEmpty, SumIsFold

LEMMA SumType ==
    ASSUME NEW S, IsFiniteSet(S), NEW f, IntOn(f, S)
    PROVE  SumFunctionOnSet(f, S) \in Int
<1>1. IsFold(Fold(f, S), f, S)
  BY FoldExists
<1>2. Fold(f, S)[S] \in Int
  BY <1>1, FoldType DEF IntOn
<1> QED
  BY <1>2, SumIsFold

\* Only the values on S matter.
LEMMA SumSame ==
    ASSUME NEW S, IsFiniteSet(S), NEW f, NEW g, \A x \in S : f[x] = g[x]
    PROVE  SumFunctionOnSet(f, S) = SumFunctionOnSet(g, S)
<1>1. IsFold(Fold(f, S), f, S) /\ IsFold(Fold(g, S), g, S)
  BY FoldExists
<1>2. Fold(f, S)[S] = Fold(g, S)[S]
  BY <1>1, FoldAgree
<1> QED
  BY <1>2, SumIsFold

LEMMA SumRemove ==
    ASSUME NEW S, IsFiniteSet(S), NEW f, IntOn(f, S), NEW x \in S
    PROVE  SumFunctionOnSet(f, S) = f[x] + SumFunctionOnSet(f, S \ {x})
<1>1. IsFiniteSet(S \ {x})
  BY FS_RemoveElement
<1>2. IsFold(Fold(f, S), f, S) /\ IsFold(Fold(f, S \ {x}), f, S \ {x})
  BY <1>1, FoldExists
<1>3. Fold(f, S)[S] = f[x] + Fold(f, S)[S \ {x}]
  BY <1>2, FoldRemove DEF IntOn
<1>4. Fold(f, S)[S \ {x}] = Fold(f, S \ {x})[S \ {x}]
  BY <1>1, <1>2, FoldAgree
<1> QED
  BY <1>3, <1>4, SumIsFold

LEMMA SumAdd ==
    ASSUME NEW S, IsFiniteSet(S), NEW f, NEW x, x \notin S, IntOn(f, S \cup {x})
    PROVE  SumFunctionOnSet(f, S \cup {x}) = f[x] + SumFunctionOnSet(f, S)
<1>1. IsFiniteSet(S \cup {x}) /\ (S \cup {x}) \ {x} = S
  BY FS_AddElement
<1>2. SumFunctionOnSet(f, S \cup {x}) = f[x] + SumFunctionOnSet(f, (S \cup {x}) \ {x})
  BY <1>1, SumRemove
<1> QED
  BY <1>1, <1>2

\* A set is summed in two parts.
LEMMA SumParts ==
    ASSUME NEW S, IsFiniteSet(S), NEW f, IntOn(f, S), NEW T \in SUBSET S
    PROVE  SumFunctionOnSet(f, S) = SumFunctionOnSet(f, T) + SumFunctionOnSet(f, S \ T)
<1> DEFINE Sum(U) == SumFunctionOnSet(f, U)
<1> DEFINE Good == {U \in SUBSET T : Sum((S \ T) \cup U) = Sum(U) + Sum(S \ T)}
<1>0. \A U \in SUBSET S : IsFiniteSet(U) /\ IntOn(f, U) /\ Sum(U) \in Int
  BY FS_Subset, SumType DEF IntOn
<1>1. {} \in Good
  BY <1>0, SumEmpty
<1>2. ASSUME NEW U \in SUBSET T, NEW x \in U, U \ {x} \in Good PROVE U \in Good
  <2> DEFINE V == (S \ T) \cup U
  <2>1. Sum(V) = f[x] + Sum(V \ {x})
    <3>1. V \in SUBSET S /\ x \in V
      BY <1>2
    <3> HIDE DEF V
    <3> QED
      BY <1>0, <3>1, SumRemove
  <2>2. Sum(U) = f[x] + Sum(U \ {x})
    BY <1>0, SumRemove
  <2>3. V \ {x} = (S \ T) \cup (U \ {x})
    OBVIOUS
  <2>4. Sum(V \ {x}) = Sum(U \ {x}) + Sum(S \ T)
    BY <1>2, <2>3
  <2>5. f[x] \in Int /\ Sum(U \ {x}) \in Int /\ Sum(S \ T) \in Int
    BY <1>0 DEF IntOn
  <2> HIDE DEF Sum
  <2>6. Sum(V) = Sum(U) + Sum(S \ T)
    BY <2>1, <2>2, <2>4, <2>5
  <2> QED
    BY <2>6
<1>3. T \in Good
  <2>1. IsFiniteSet(T) /\ Good \in SUBSET SUBSET T
    BY FS_Subset
  <2> HIDE DEF Good
  <2>2. \A U \in SUBSET T : \A x \in U : U \ {x} \in Good => U \in Good
    BY <1>2
  <2> QED
    BY <1>1, <2>1, <2>2, SubsetInduction
<1>4. (S \ T) \cup T = S
  OBVIOUS
<1> QED
  BY <1>3, <1>4

LEMMA SumNat ==
    ASSUME NEW S, IsFiniteSet(S), NEW f, \A x \in S : f[x] \in Nat
    PROVE  SumFunctionOnSet(f, S) \in Nat
<1> DEFINE Good == {U \in SUBSET S : SumFunctionOnSet(f, U) \in Nat}
<1>1. {} \in Good
  BY SumEmpty
<1>2. ASSUME NEW U \in SUBSET S, NEW x \in U, U \ {x} \in Good PROVE U \in Good
  <2>1. IsFiniteSet(U) /\ IntOn(f, U)
    BY FS_Subset DEF IntOn
  <2>2. SumFunctionOnSet(f, U) = f[x] + SumFunctionOnSet(f, U \ {x})
    BY <2>1, SumRemove
  <2> QED
    BY <1>2, <2>2
<1>3. Good \in SUBSET SUBSET S
  OBVIOUS
<1> HIDE DEF Good
<1>4. \A U \in SUBSET S : \A x \in U : U \ {x} \in Good => U \in Good
  BY <1>2
<1>5. S \in Good
  BY <1>1, <1>3, <1>4, SubsetInduction
<1> QED
  BY <1>5 DEF Good

LEMMA SumAtMost ==
    ASSUME NEW S, IsFiniteSet(S), NEW f, \A x \in S : f[x] \in Nat, NEW T \in SUBSET S
    PROVE  SumFunctionOnSet(f, T) <= SumFunctionOnSet(f, S)
<1>1. IsFiniteSet(T) /\ IsFiniteSet(S \ T) /\ IntOn(f, S)
  BY FS_Subset DEF IntOn
<1>2. SumFunctionOnSet(f, T) \in Nat /\ SumFunctionOnSet(f, S \ T) \in Nat
  BY <1>1, SumNat
<1>3. SumFunctionOnSet(f, S) = SumFunctionOnSet(f, T) + SumFunctionOnSet(f, S \ T)
  BY <1>1, SumParts
<1> QED
  BY <1>2, <1>3

LEMMA SumZero ==
    ASSUME NEW S, IsFiniteSet(S), NEW f, \A x \in S : f[x] = 0
    PROVE  SumFunctionOnSet(f, S) = 0
<1> DEFINE Good == {U \in SUBSET S : SumFunctionOnSet(f, U) = 0}
<1>1. {} \in Good
  BY SumEmpty
<1>2. ASSUME NEW U \in SUBSET S, NEW x \in U, U \ {x} \in Good PROVE U \in Good
  <2>1. IsFiniteSet(U) /\ IntOn(f, U)
    BY FS_Subset DEF IntOn
  <2>2. SumFunctionOnSet(f, U) = f[x] + SumFunctionOnSet(f, U \ {x})
    BY <2>1, SumRemove
  <2> QED
    BY <1>2, <2>2
<1>3. Good \in SUBSET SUBSET S
  OBVIOUS
<1> HIDE DEF Good
<1>4. \A U \in SUBSET S : \A x \in U : U \ {x} \in Good => U \in Good
  BY <1>2
<1>5. S \in Good
  BY <1>1, <1>3, <1>4, SubsetInduction
<1> QED
  BY <1>5 DEF Good

\* Sums are linear.
LEMMA SumLinear ==
    ASSUME NEW S, IsFiniteSet(S), NEW a \in Int, NEW f, NEW g, NEW h,
           IntOn(f, S), IntOn(g, S), \A x \in S : h[x] = a * f[x] + g[x]
    PROVE  SumFunctionOnSet(h, S) = a * SumFunctionOnSet(f, S) + SumFunctionOnSet(g, S)
<1> DEFINE F(U) == SumFunctionOnSet(f, U)  G(U) == SumFunctionOnSet(g, U)  H(U) == SumFunctionOnSet(h, U)
<1> DEFINE Good == {U \in SUBSET S : H(U) = a * F(U) + G(U)}
<1>0. IntOn(h, S)
  BY DEF IntOn
<1>1. {} \in Good
  BY SumEmpty
<1>2. ASSUME NEW U \in SUBSET S, NEW x \in U, U \ {x} \in Good PROVE U \in Good
  <2>1. IsFiniteSet(U) /\ IntOn(f, U) /\ IntOn(g, U) /\ IntOn(h, U) /\ IsFiniteSet(U \ {x})
        /\ IntOn(f, U \ {x}) /\ IntOn(g, U \ {x})
    BY <1>0, FS_Subset, FS_RemoveElement DEF IntOn
  <2>2. F(U) = f[x] + F(U \ {x}) /\ G(U) = g[x] + G(U \ {x}) /\ H(U) = h[x] + H(U \ {x})
    BY <2>1, SumRemove
  <2>3. F(U \ {x}) \in Int /\ G(U \ {x}) \in Int /\ f[x] \in Int /\ g[x] \in Int
    BY <2>1, SumType DEF IntOn
  <2>4. H(U \ {x}) = a * F(U \ {x}) + G(U \ {x}) /\ h[x] = a * f[x] + g[x]
    BY <1>2
  <2> HIDE DEF F, G, H
  <2>5. a * (f[x] + F(U \ {x})) = a * f[x] + a * F(U \ {x})
    BY <2>3
  <2>6. H(U) = a * F(U) + G(U)
    BY <2>2, <2>3, <2>4, <2>5
  <2> QED
    BY <2>6
<1>3. Good \in SUBSET SUBSET S
  OBVIOUS
<1> HIDE DEF Good
<1>4. \A U \in SUBSET S : \A x \in U : U \ {x} \in Good => U \in Good
  BY <1>2
<1>5. S \in Good
  BY <1>1, <1>3, <1>4, SubsetInduction
<1> QED
  BY <1>5 DEF Good

\* A sum over the images of S under an injection is one over S.
LEMMA SumImage ==
    ASSUME NEW S, IsFiniteSet(S), NEW m, NEW f, NEW g,
           \A x, y \in S : m[x] = m[y] => x = y,
           \A x \in S : f[m[x]] = g[x] /\ g[x] \in Int
    PROVE  SumFunctionOnSet(f, {m[x] : x \in S}) = SumFunctionOnSet(g, S)
<1> DEFINE Im(U) == {m[x] : x \in U}
<1> DEFINE Good == {U \in SUBSET S : IsFiniteSet(Im(U)) /\ SumFunctionOnSet(f, Im(U)) = SumFunctionOnSet(g, U)}
<1>1. {} \in Good
  <2>1. Im({}) = {}
    OBVIOUS
  <2> QED
    BY <2>1, SumEmpty, FS_EmptySet
<1>2. ASSUME NEW U \in SUBSET S, NEW x \in U, U \ {x} \in Good PROVE U \in Good
  <2>1. IsFiniteSet(U) /\ IntOn(g, U)
    BY FS_Subset DEF IntOn
  <2>2. SumFunctionOnSet(g, U) = g[x] + SumFunctionOnSet(g, U \ {x})
    BY <2>1, SumRemove
  <2>3. m[x] \notin Im(U \ {x}) /\ Im(U) = Im(U \ {x}) \cup {m[x]}
    OBVIOUS
  <2>4. IsFiniteSet(Im(U \ {x})) /\ IntOn(f, Im(U \ {x}) \cup {m[x]})
    BY <1>2 DEF IntOn
  <2>5. IsFiniteSet(Im(U))
    <3> HIDE DEF Im
    <3>1. IsFiniteSet(Im(U \ {x}) \cup {m[x]})
      BY <2>4, FS_AddElement
    <3> QED
      BY <2>3, <3>1
  <2>6. SumFunctionOnSet(f, Im(U)) = f[m[x]] + SumFunctionOnSet(f, Im(U \ {x}))
    <3> HIDE DEF Im
    <3> QED
      BY <2>3, <2>4, SumAdd
  <2>7. f[m[x]] = g[x]
    OBVIOUS
  <2>8. SumFunctionOnSet(f, Im(U \ {x})) = SumFunctionOnSet(g, U \ {x})
    BY <1>2
  <2> QED
    BY <2>2, <2>5, <2>6, <2>7, <2>8
<1>3. Good \in SUBSET SUBSET S
  OBVIOUS
<1> HIDE DEF Good
<1>4. \A U \in SUBSET S : \A x \in U : U \ {x} \in Good => U \in Good
  BY <1>2
<1>5. S \in Good
  BY <1>1, <1>3, <1>4, SubsetInduction
<1> QED
  BY <1>5 DEF Good

\* A sum over T is one over a larger set of a function that is 0 outside T.
LEMMA SumPick ==
    ASSUME NEW S, IsFiniteSet(S), NEW T \in SUBSET S, NEW f, NEW g,
           \A x \in S : f[x] \in Int, \A x \in T : f[x] = g[x], \A x \in S \ T : f[x] = 0
    PROVE  SumFunctionOnSet(f, S) = SumFunctionOnSet(g, T)
<1>1. IsFiniteSet(T) /\ IsFiniteSet(S \ T)
  BY FS_Subset
<1>2. SumFunctionOnSet(f, S) = SumFunctionOnSet(f, T) + SumFunctionOnSet(f, S \ T)
  BY SumParts DEF IntOn
<1>3. SumFunctionOnSet(f, S \ T) = 0
  BY <1>1, SumZero
<1>4. SumFunctionOnSet(f, T) = SumFunctionOnSet(g, T)
  BY <1>1, SumSame
<1>5. SumFunctionOnSet(f, T) \in Int
  BY <1>1, SumType DEF IntOn
<1> QED
  BY <1>2, <1>3, <1>4, <1>5

\* The terms of U change by d: so does the sum.
LEMMA SumShift ==
    ASSUME NEW S, IsFiniteSet(S), NEW U \in SUBSET S, NEW f, NEW h, NEW d,
           IntOn(f, S), IntOn(d, U),
           \A x \in U : h[x] = f[x] + d[x], \A x \in S \ U : h[x] = f[x]
    PROVE  SumFunctionOnSet(h, S) = SumFunctionOnSet(f, S) + SumFunctionOnSet(d, U)
<1> DEFINE g == [x \in S |-> IF x \in U THEN d[x] ELSE 0]
<1>1. IntOn(g, S) /\ (\A x \in S : g[x] \in Int) /\ (\A x \in U : g[x] = d[x]) /\ (\A x \in S \ U : g[x] = 0)
  BY DEF IntOn
<1>2. \A x \in S : h[x] = 1 * f[x] + g[x]
  <2> SUFFICES ASSUME NEW x \in S PROVE h[x] = 1 * f[x] + g[x]
    OBVIOUS
  <2>1. f[x] \in Int
    BY DEF IntOn
  <2>2. CASE x \in U
    <3>1. h[x] = f[x] + d[x] /\ g[x] = d[x]
      BY <2>2
    <3>2. d[x] \in Int
      BY <2>2 DEF IntOn
    <3> QED
      BY ONLY <3>1, <3>2, <2>1
  <2>3. CASE x \notin U
    <3>1. h[x] = f[x] /\ g[x] = 0
      BY <2>3
    <3> QED
      BY ONLY <3>1, <2>1
  <2> QED
    BY <2>2, <2>3
<1> HIDE DEF g
<1>3. SumFunctionOnSet(h, S) = 1 * SumFunctionOnSet(f, S) + SumFunctionOnSet(g, S)
  BY <1>1, <1>2, 1 \in Int, SumLinear
<1>4. SumFunctionOnSet(g, S) = SumFunctionOnSet(d, U)
  BY <1>1, SumPick
<1>5. SumFunctionOnSet(f, S) \in Int
  BY SumType
<1> QED
  BY <1>3, <1>4, <1>5

LEMMA SumOne == ASSUME NEW f, NEW x, f[x] \in Int PROVE SumFunctionOnSet(f, {x}) = f[x]
<1>1. IntOn(f, {} \cup {x}) /\ IsFiniteSet({}) /\ {} \cup {x} = {x} /\ x \notin {}
  BY FS_EmptySet DEF IntOn
<1>2. SumFunctionOnSet(f, {} \cup {x}) = f[x] + SumFunctionOnSet(f, {})
  BY <1>1, SumAdd
<1> QED
  BY <1>1, <1>2, SumEmpty
===============================================================================
