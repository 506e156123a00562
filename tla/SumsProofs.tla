------------------------------ MODULE SumsProofs ------------------------------
(***************************************************************************)
(* What Total computes, for every finite set and every function: the fold  *)
(* it is defined by does not depend on the order of the elements.          *)
(*                                                                         *)
(* Inductions are over a set G of the sets (or numbers) for which a claim  *)
(* holds, so that they are statements of first-order logic.                *)
(***************************************************************************)
EXTENDS Sums, FiniteSetTheorems, WellFoundedInduction, TLAPS

-----------------------------------------------------------------------------
(* Induction *)

LEMMA NumberInduction ==
  ASSUME NEW G \in SUBSET Nat, 0 \in G, \A n \in G : n + 1 \in G
  PROVE  G = Nat
  <1>. SUFFICES ASSUME Nat \ G # {} PROVE FALSE
    OBVIOUS
  <1>1. IsWellFoundedOn(OpToRel(<, Nat), Nat)
    BY NatLessThanWellFounded
  <1>2. \E x \in Nat \ G : \A y \in Nat \ G : ~(<<y, x>> \in OpToRel(<, Nat))
    BY <1>1, WFMin
  <1>3. PICK m \in Nat \ G : \A y \in Nat \ G : ~(y < m)
    BY <1>2 DEF OpToRel
  <1>4. m # 0 /\ m - 1 \in Nat /\ m - 1 < m
    BY <1>3
  <1>5. m - 1 \in G
    BY <1>3, <1>4
  <1>6. (m - 1) + 1 = m
    BY <1>4
  <1>. QED
    BY <1>3, <1>5, <1>6

\* A set of subsets of S that has {} and grows by one element at a time has S.
LEMMA SubsetInduction ==
  ASSUME NEW S, IsFiniteSet(S), NEW G \in SUBSET SUBSET S,
         {} \in G, \A T \in G : \A x \in S \ T : T \cup {x} \in G
  PROVE  S \in G
  <1>. DEFINE N == {n \in Nat : \A T \in SUBSET S : Cardinality(T) = n => T \in G}
  <1>1. 0 \in N
    <2>. SUFFICES ASSUME NEW T \in SUBSET S, Cardinality(T) = 0 PROVE T \in G
      OBVIOUS
    <2>1. IsFiniteSet(T)
      BY FS_Subset
    <2>. QED
      BY <2>1, FS_EmptySet
  <1>2. \A n \in N : n + 1 \in N
    <2>. SUFFICES ASSUME NEW n \in N, NEW T \in SUBSET S, Cardinality(T) = n + 1
                  PROVE  T \in G
      OBVIOUS
    <2>. HIDE DEF N
    <2>0. n \in Nat /\ \A T1 \in SUBSET S : Cardinality(T1) = n => T1 \in G
      BY DEF N
    <2>1. IsFiniteSet(T)
      BY FS_Subset
    <2>2. T # {}
      BY <2>0, FS_EmptySet
    <2>3. PICK x \in T : TRUE
      BY <2>2
    <2>4. Cardinality(T \ {x}) = n
      <3>1. Cardinality(T \ {x}) = Cardinality(T) - 1
        BY <2>1, <2>3, FS_RemoveElement
      <3>. QED
        BY <2>0, <3>1
    <2>5. T \ {x} \in G
      BY <2>0, <2>4
    <2>6. (T \ {x}) \cup {x} = T /\ x \in S \ (T \ {x})
      BY <2>3
    <2>. QED
      BY <2>5, <2>6
  <1>3. N = Nat
    <2>. HIDE DEF N
    <2>1. N \in SUBSET Nat
      BY DEF N
    <2>. QED
      BY <1>1, <1>2, <2>1, NumberInduction
  <1>4. Cardinality(S) \in Nat
    BY FS_CardinalityType
  <1>. QED
    BY <1>3, <1>4

-----------------------------------------------------------------------------
(* The fold *)

FirstOf(s) == CHOOSE x \in s : TRUE

\* The sum over s, given the sums g over smaller sets.
FoldStep(f, g, s) == IF s = {} THEN 0 ELSE f[FirstOf(s)] + g[s \ {FirstOf(s)}]

ArePartialSums(f, S, g) == g = [s \in SUBSET S |-> FoldStep(f, g, s)]

PartialSums(f, S) == CHOOSE g : ArePartialSums(f, S, g)

LEMMA TotalIsPartialSum == \A f, S : Total(f, S) = PartialSums(f, S)[S]
  BY DEF Total, MapThenSumSet, MapThenFoldSet, PartialSums, ArePartialSums, FoldStep, FirstOf

LEMMA PartialSumAt ==
  ASSUME NEW f, NEW S, NEW g, ArePartialSums(f, S, g), NEW s \in SUBSET S
  PROVE  g[s] = FoldStep(f, g, s)
  <1>. DEFINE h == [r \in SUBSET S |-> FoldStep(f, g, r)]
  <1>1. h[s] = FoldStep(f, g, s)
    OBVIOUS
  <1>2. g = h
    BY DEF ArePartialSums
  <1>. HIDE DEF h
  <1>. QED
    BY <1>1, <1>2

LEMMA FirstOfIn == \A s : s # {} => FirstOf(s) \in s
  BY DEF FirstOf

LEMMA PartialSumsExist ==
  ASSUME NEW f, NEW S, IsFiniteSet(S)
  PROVE  ArePartialSums(f, S, PartialSums(f, S))
  <1>. DEFINE Upto(g, n) == \A s \in SUBSET S : Cardinality(s) <= n => g[s] = FoldStep(f, g, s)
              N == {n \in Nat : \E g : DOMAIN g = SUBSET S /\ g = [s \in SUBSET S |-> g[s]]
                                       /\ Upto(g, n)}
  <1>0. \A s \in SUBSET S : IsFiniteSet(s) /\ Cardinality(s) \in Nat
    BY FS_Subset, FS_CardinalityType
  <1>1. 0 \in N
    <2>. DEFINE g == [s \in SUBSET S |-> 0]
    <2>1. \A s \in SUBSET S : Cardinality(s) <= 0 => s = {}
      BY <1>0, FS_EmptySet
    <2>2. Upto(g, 0)
      BY <2>1 DEF FoldStep
    <2>. QED
      BY <2>2
  <1>2. \A n \in N : n + 1 \in N
    <2>. SUFFICES ASSUME NEW n \in N PROVE n + 1 \in N
      OBVIOUS
    <2>1. PICK g : DOMAIN g = SUBSET S /\ g = [s \in SUBSET S |-> g[s]] /\ Upto(g, n)
      OBVIOUS
    <2>. DEFINE h == [s \in SUBSET S |-> FoldStep(f, g, s)]
    <2>2. ASSUME NEW s \in SUBSET S, Cardinality(s) <= n + 1
          PROVE  h[s] = FoldStep(f, h, s)
      <3>1. CASE s = {}
        BY <3>1 DEF FoldStep
      <3>2. CASE s # {}
        <4>1. FirstOf(s) \in s
          BY <3>2, FirstOfIn
        <4>2. Cardinality(s \ {FirstOf(s)}) = Cardinality(s) - 1
          BY <1>0, <4>1, FS_RemoveElement
        <4>3. s \ {FirstOf(s)} \in SUBSET S /\ Cardinality(s \ {FirstOf(s)}) <= n
          BY <1>0, <2>2, <4>2
        <4>4. g[s \ {FirstOf(s)}] = FoldStep(f, g, s \ {FirstOf(s)})
          BY <2>1, <4>3
        <4>5. h[s \ {FirstOf(s)}] = g[s \ {FirstOf(s)}]
          BY <4>3, <4>4
        <4>. QED
          BY <3>2, <4>5 DEF FoldStep
      <3>. QED
        BY <3>1, <3>2
    <2>3. Upto(h, n + 1)
      BY <2>2
    <2>4. DOMAIN h = SUBSET S /\ h = [s \in SUBSET S |-> h[s]]
      <3>. HIDE DEF Upto
      <3>. QED
        OBVIOUS
    <2>5. n \in Nat /\ n + 1 \in Nat
      OBVIOUS
    <2>. HIDE DEF h, Upto
    <2>. QED
      BY <2>3, <2>4, <2>5
  <1>3. N = Nat
    <2>. HIDE DEF N
    <2>1. N \in SUBSET Nat
      BY DEF N
    <2>. QED
      BY <1>1, <1>2, <2>1, NumberInduction
  <1>4. Cardinality(S) \in Nat /\ \A s \in SUBSET S : Cardinality(s) <= Cardinality(S)
    BY <1>0, FS_Subset
  <1>5. PICK g : g = [s \in SUBSET S |-> g[s]] /\ Upto(g, Cardinality(S))
    BY <1>3, <1>4
  <1>6. \A s \in SUBSET S : g[s] = FoldStep(f, g, s)
    BY <1>4, <1>5
  <1>7. g = [s \in SUBSET S |-> FoldStep(f, g, s)]
    BY <1>5, <1>6
  <1>. QED
    BY <1>7 DEF PartialSums, ArePartialSums

\* The folds over S and over a part of it agree on what both are defined for.
LEMMA PartialSumsAgree ==
  ASSUME NEW f, NEW S, IsFiniteSet(S), NEW T \in SUBSET S
  PROVE  PartialSums(f, S)[T] = PartialSums(f, T)[T]
  <1>. DEFINE g == PartialSums(f, S)
              h == PartialSums(f, T)
              N == {n \in Nat : \A s \in SUBSET T : Cardinality(s) = n => g[s] = h[s]}
  <1>0. /\ IsFiniteSet(T)
        /\ \A s \in SUBSET T : IsFiniteSet(s) /\ Cardinality(s) \in Nat
    BY FS_Subset, FS_CardinalityType
  <1>1. \A s \in SUBSET T : g[s] = FoldStep(f, g, s) /\ h[s] = FoldStep(f, h, s)
    <2>1. ArePartialSums(f, S, g) /\ ArePartialSums(f, T, h)
      BY <1>0, PartialSumsExist
    <2>. HIDE DEF g, h
    <2>2. \A s \in SUBSET T : s \in SUBSET S
      OBVIOUS
    <2>. QED
      BY <2>1, <2>2, PartialSumAt
  <1>. HIDE DEF g, h
  <1>2. 0 \in N
    BY <1>0, <1>1, FS_EmptySet DEF FoldStep
  <1>3. \A n \in N : n + 1 \in N
    <2>. SUFFICES ASSUME NEW n \in N, NEW s \in SUBSET T, Cardinality(s) = n + 1
                  PROVE  g[s] = h[s]
      OBVIOUS
    <2>. HIDE DEF N
    <2>0. n \in Nat /\ \A r \in SUBSET T : Cardinality(r) = n => g[r] = h[r]
      BY DEF N
    <2>1. s # {} /\ n \in Nat
      BY <2>0, FS_EmptySet
    <2>2. FirstOf(s) \in s
      BY <2>1, FirstOfIn
    <2>3. Cardinality(s \ {FirstOf(s)}) = n
      BY <1>0, <2>1, <2>2, FS_RemoveElement
    <2>4. g[s \ {FirstOf(s)}] = h[s \ {FirstOf(s)}]
      BY <2>0, <2>3
    <2>. QED
      BY <1>1, <2>1, <2>4 DEF FoldStep
  <1>4. N = Nat
    <2>. HIDE DEF N
    <2>1. N \in SUBSET Nat
      BY DEF N
    <2>. QED
      BY <1>2, <1>3, <2>1, NumberInduction
  <1>. QED
    BY <1>0, <1>4 DEF g, h

\* Total without the fold, for the element the fold takes first.
LEMMA TotalUnfolds ==
  ASSUME NEW f, NEW S, IsFiniteSet(S)
  PROVE  /\ S = {} => Total(f, S) = 0
         /\ S # {} => Total(f, S) = f[FirstOf(S)] + Total(f, S \ {FirstOf(S)})
  <1>1. S \in SUBSET S /\ S \ {FirstOf(S)} \in SUBSET S
    OBVIOUS
  <1>2. PartialSums(f, S)[S] = FoldStep(f, PartialSums(f, S), S)
    BY <1>1, PartialSumsExist, PartialSumAt
  <1>3. PartialSums(f, S)[S \ {FirstOf(S)}] = Total(f, S \ {FirstOf(S)})
    BY <1>1, PartialSumsAgree, TotalIsPartialSum
  <1>. QED
    BY <1>2, <1>3, TotalIsPartialSum DEF FoldStep

\* Functions that agree on S have the same total.
LEMMA TotalEqual ==
  ASSUME NEW f, NEW g, NEW S, IsFiniteSet(S), \A x \in S : f[x] = g[x]
  PROVE  Total(f, S) = Total(g, S)
  <1>. DEFINE N == {n \in Nat : \A T \in SUBSET S : Cardinality(T) = n => Total(f, T) = Total(g, T)}
  <1>0. \A T \in SUBSET S : IsFiniteSet(T) /\ Cardinality(T) \in Nat
    BY FS_Subset, FS_CardinalityType
  <1>1. 0 \in N
    BY <1>0, FS_EmptySet, TotalUnfolds
  <1>2. \A n \in N : n + 1 \in N
    <2>. SUFFICES ASSUME NEW n \in N, NEW T \in SUBSET S, Cardinality(T) = n + 1
                  PROVE  Total(f, T) = Total(g, T)
      OBVIOUS
    <2>. HIDE DEF N
    <2>0. n \in Nat /\ \A R \in SUBSET S : Cardinality(R) = n => Total(f, R) = Total(g, R)
      BY DEF N
    <2>1. T # {}
      BY <2>0, FS_EmptySet
    <2>2. FirstOf(T) \in T
      BY <2>1, FirstOfIn
    <2>3. Cardinality(T \ {FirstOf(T)}) = n /\ T \ {FirstOf(T)} \in SUBSET S
      <3>1. Cardinality(T \ {FirstOf(T)}) = Cardinality(T) - 1
        BY <1>0, <2>2, FS_RemoveElement
      <3>. QED
        BY <2>0, <3>1
    <2>4. Total(f, T \ {FirstOf(T)}) = Total(g, T \ {FirstOf(T)})
      BY <2>0, <2>3
    <2>5. f[FirstOf(T)] = g[FirstOf(T)]
      BY <2>2
    <2>. QED
      BY <1>0, <2>1, <2>4, <2>5, TotalUnfolds
  <1>3. N = Nat
    <2>. HIDE DEF N
    <2>1. N \in SUBSET Nat
      BY DEF N
    <2>. QED
      BY <1>1, <1>2, <2>1, NumberInduction
  <1>. QED
    BY <1>0, <1>3

LEMMA TotalEmpty == \A f : Total(f, {}) = 0
  BY FS_EmptySet, TotalUnfolds

LEMMA TotalInt ==
  ASSUME NEW f, NEW S, IsFiniteSet(S), \A x \in S : f[x] \in Int
  PROVE  Total(f, S) \in Int
  <1>. DEFINE N == {n \in Nat : \A T \in SUBSET S : Cardinality(T) = n => Total(f, T) \in Int}
  <1>0. \A T \in SUBSET S : IsFiniteSet(T) /\ Cardinality(T) \in Nat
    BY FS_Subset, FS_CardinalityType
  <1>1. 0 \in N
    BY <1>0, FS_EmptySet, TotalEmpty
  <1>2. \A n \in N : n + 1 \in N
    <2>. SUFFICES ASSUME NEW n \in N, NEW T \in SUBSET S, Cardinality(T) = n + 1
                  PROVE  Total(f, T) \in Int
      OBVIOUS
    <2>. HIDE DEF N
    <2>0. n \in Nat /\ \A R \in SUBSET S : Cardinality(R) = n => Total(f, R) \in Int
      BY DEF N
    <2>1. T # {}
      BY <2>0, FS_EmptySet
    <2>2. FirstOf(T) \in T
      BY <2>1, FirstOfIn
    <2>3. Cardinality(T \ {FirstOf(T)}) = n /\ T \ {FirstOf(T)} \in SUBSET S
      <3>1. Cardinality(T \ {FirstOf(T)}) = Cardinality(T) - 1
        BY <1>0, <2>2, FS_RemoveElement
      <3>. QED
        BY <2>0, <3>1
    <2>4. Total(f, T \ {FirstOf(T)}) \in Int
      BY <2>0, <2>3
    <2>5. f[FirstOf(T)] \in Int
      BY <2>2
    <2>. QED
      BY <1>0, <2>1, <2>4, <2>5, TotalUnfolds
  <1>3. N = Nat
    <2>. HIDE DEF N
    <2>1. N \in SUBSET Nat
      BY DEF N
    <2>. QED
      BY <1>1, <1>2, <2>1, NumberInduction
  <1>. QED
    BY <1>0, <1>3

\* Any element can be taken out first: the sum of SQL or of a reduce does not
\* depend on the order of the rows.
THEOREM TotalRemove ==
  ASSUME NEW f, NEW S, IsFiniteSet(S), \A x \in S : f[x] \in Int
  PROVE  \A y \in S : Total(f, S) = f[y] + Total(f, S \ {y})
  <1>. DEFINE Good(T) == \A y \in T : Total(f, T) = f[y] + Total(f, T \ {y})
              N == {n \in Nat : \A T \in SUBSET S : Cardinality(T) = n => Good(T)}
  <1>0. \A T \in SUBSET S : IsFiniteSet(T) /\ Cardinality(T) \in Nat
    BY FS_Subset, FS_CardinalityType
  <1>1. 0 \in N
    BY <1>0, FS_EmptySet, TotalEmpty
  <1>2. \A n \in N : n + 1 \in N
    <2>. SUFFICES ASSUME NEW n \in N, NEW T \in SUBSET S, Cardinality(T) = n + 1
                  PROVE  Good(T)
      <3>. HIDE DEF Good
      <3>. QED
        OBVIOUS
    <2>0. n \in Nat /\ \A R \in SUBSET S : Cardinality(R) = n => Good(R)
      <3>. HIDE DEF Good
      <3>. QED
        OBVIOUS
    <2>. HIDE DEF N
    <2>1. T # {}
      BY <2>0, FS_EmptySet
    <2>. DEFINE x == FirstOf(T)
    <2>2. x \in T /\ f[x] \in Int
      BY <2>1, FirstOfIn
    <2>. HIDE DEF Good
    <2>3. \A y \in T : Cardinality(T \ {y}) = n /\ T \ {y} \in SUBSET S
      BY <1>0, <2>0, FS_RemoveElement
    <2>4. \A y \in T : Good(T \ {y})
      BY <2>0, <2>3
    <2>5. Total(f, T) = f[x] + Total(f, T \ {x})
      BY <1>0, <2>1, TotalUnfolds
    <2>. HIDE DEF x
    <2>7. ASSUME NEW y \in T PROVE Total(f, T) = f[y] + Total(f, T \ {y})
      <3>1. CASE y = x
        BY <2>5, <3>1
      <3>2. CASE y # x
        <4>1. y \in T \ {x} /\ x \in T \ {y} /\ f[y] \in Int
          BY <2>2, <3>2
        <4>2. (T \ {x}) \ {y} = (T \ {y}) \ {x}
          OBVIOUS
        <4>3. Total(f, T \ {x}) = f[y] + Total(f, (T \ {x}) \ {y})
          BY <2>2, <2>4, <4>1 DEF Good
        <4>4. Total(f, T \ {y}) = f[x] + Total(f, (T \ {y}) \ {x})
          BY <2>4, <4>1 DEF Good
        <4>6. Total(f, T \ {y}) = f[x] + Total(f, (T \ {x}) \ {y})
          BY <4>2, <4>4
        <4>5. Total(f, (T \ {x}) \ {y}) \in Int
          <5>1. (T \ {x}) \ {y} \in SUBSET S
            OBVIOUS
          <5>2. IsFiniteSet((T \ {x}) \ {y})
            BY <1>0, <5>1
          <5>3. \A z \in (T \ {x}) \ {y} : f[z] \in Int
            OBVIOUS
          <5>. QED
            BY <5>2, <5>3, TotalInt
        <4>. QED
          BY <2>2, <2>5, <4>1, <4>3, <4>5, <4>6
      <3>. QED
        BY <3>1, <3>2
    <2>. QED
      BY <2>7 DEF Good
  <1>3. N = Nat
    <2>. HIDE DEF N
    <2>1. N \in SUBSET Nat
      BY DEF N
    <2>. QED
      BY <1>1, <1>2, <2>1, NumberInduction
  <1>. QED
    BY <1>0, <1>3

-----------------------------------------------------------------------------
(* What the other modules use *)

LEMMA TotalInsert ==
  ASSUME NEW f, NEW S, IsFiniteSet(S), \A z \in S : f[z] \in Int,
         NEW x, x \notin S, f[x] \in Int
  PROVE  Total(f, S \cup {x}) = f[x] + Total(f, S)
  <1>1. IsFiniteSet(S \cup {x})
    BY FS_AddElement
  <1>2. \A z \in S \cup {x} : f[z] \in Int
    OBVIOUS
  <1>3. x \in S \cup {x} /\ (S \cup {x}) \ {x} = S
    OBVIOUS
  <1>. QED
    BY <1>1, <1>2, <1>3, TotalRemove

\* The terms that are zero, negative or larger tell about the total.
LEMMA TotalNat ==
  ASSUME NEW f, NEW S, IsFiniteSet(S), \A x \in S : f[x] \in Nat
  PROVE  Total(f, S) \in Nat
  <1>. DEFINE G == {T \in SUBSET S : Total(f, T) \in Nat}
  <1>1. {} \in G
    BY TotalEmpty
  <1>2. ASSUME NEW T \in G, NEW x \in S \ T PROVE T \cup {x} \in G
    <2>1. IsFiniteSet(T) /\ \A z \in T : f[z] \in Int
      BY FS_Subset
    <2>2. Total(f, T \cup {x}) = f[x] + Total(f, T)
      BY <2>1, TotalInsert
    <2>. QED
      BY <2>2
  <1>3. S \in G
    <2>. HIDE DEF G
    <2>1. G \in SUBSET SUBSET S
      BY DEF G
    <2>. QED
      BY <1>1, <1>2, <2>1, SubsetInduction
  <1>. QED
    BY <1>3

LEMMA TotalAtMost ==
  ASSUME NEW f, NEW g, NEW S, IsFiniteSet(S),
         \A x \in S : f[x] \in Int /\ g[x] \in Int /\ f[x] <= g[x]
  PROVE  Total(f, S) <= Total(g, S)
  <1>. DEFINE G == {T \in SUBSET S : Total(f, T) <= Total(g, T)}
  <1>1. {} \in G
    BY TotalEmpty
  <1>2. ASSUME NEW T \in G, NEW x \in S \ T PROVE T \cup {x} \in G
    <2>1. IsFiniteSet(T) /\ \A z \in T : f[z] \in Int /\ g[z] \in Int
      BY FS_Subset
    <2>2. Total(f, T) \in Int /\ Total(g, T) \in Int
      BY <2>1, TotalInt
    <2>3. /\ Total(f, T \cup {x}) = f[x] + Total(f, T)
          /\ Total(g, T \cup {x}) = g[x] + Total(g, T)
      BY <2>1, TotalInsert
    <2>. QED
      BY <2>2, <2>3
  <1>3. S \in G
    <2>. HIDE DEF G
    <2>1. G \in SUBSET SUBSET S
      BY DEF G
    <2>. QED
      BY <1>1, <1>2, <2>1, SubsetInduction
  <1>. QED
    BY <1>3

LEMMA TotalZero ==
  ASSUME NEW f, NEW S, IsFiniteSet(S), \A x \in S : f[x] = 0
  PROVE  Total(f, S) = 0
  <1>. DEFINE G == {T \in SUBSET S : Total(f, T) = 0}
  <1>1. {} \in G
    BY TotalEmpty
  <1>2. ASSUME NEW T \in G, NEW x \in S \ T PROVE T \cup {x} \in G
    <2>1. IsFiniteSet(T) /\ \A z \in T : f[z] \in Int
      BY FS_Subset
    <2>2. Total(f, T \cup {x}) = f[x] + Total(f, T)
      BY <2>1, TotalInsert
    <2>. QED
      BY <2>2
  <1>3. S \in G
    <2>. HIDE DEF G
    <2>1. G \in SUBSET SUBSET S
      BY DEF G
    <2>. QED
      BY <1>1, <1>2, <2>1, SubsetInduction
  <1>. QED
    BY <1>3

\* Adding two functions term by term.
LEMMA TotalPlus ==
  ASSUME NEW f, NEW g, NEW h, NEW S, IsFiniteSet(S),
         \A x \in S : f[x] \in Int /\ g[x] \in Int /\ h[x] = f[x] + g[x]
  PROVE  Total(h, S) = Total(f, S) + Total(g, S)
  <1>. DEFINE G == {T \in SUBSET S : Total(h, T) = Total(f, T) + Total(g, T)}
  <1>1. {} \in G
    BY TotalEmpty
  <1>2. ASSUME NEW T \in G, NEW x \in S \ T PROVE T \cup {x} \in G
    <2>1. IsFiniteSet(T) /\ \A z \in T : f[z] \in Int /\ g[z] \in Int /\ h[z] \in Int
      BY FS_Subset
    <2>2. Total(f, T) \in Int /\ Total(g, T) \in Int
      BY <2>1, TotalInt
    <2>3. /\ Total(f, T \cup {x}) = f[x] + Total(f, T)
          /\ Total(g, T \cup {x}) = g[x] + Total(g, T)
          /\ Total(h, T \cup {x}) = h[x] + Total(h, T)
      BY <2>1, TotalInsert
    <2>. QED
      BY <2>2, <2>3
  <1>3. S \in G
    <2>. HIDE DEF G
    <2>1. G \in SUBSET SUBSET S
      BY DEF G
    <2>. QED
      BY <1>1, <1>2, <2>1, SubsetInduction
  <1>. QED
    BY <1>3

LEMMA TotalMinus ==
  ASSUME NEW f, NEW g, NEW h, NEW S, IsFiniteSet(S),
         \A x \in S : f[x] \in Int /\ g[x] \in Int /\ h[x] = f[x] - g[x]
  PROVE  Total(h, S) = Total(f, S) - Total(g, S)
  <1>1. \A x \in S : h[x] \in Int /\ g[x] \in Int /\ f[x] = h[x] + g[x]
    OBVIOUS
  <1>2. Total(f, S) = Total(h, S) + Total(g, S)
    BY <1>1, TotalPlus
  <1>3. Total(h, S) \in Int /\ Total(g, S) \in Int
    BY <1>1, TotalInt
  <1>. QED
    BY <1>2, <1>3

\* Two sets without a common element.
LEMMA TotalSplit ==
  ASSUME NEW f, NEW A, NEW B, IsFiniteSet(A), IsFiniteSet(B), A \cap B = {},
         \A x \in A \cup B : f[x] \in Int
  PROVE  Total(f, A \cup B) = Total(f, A) + Total(f, B)
  <1>. DEFINE G == {T \in SUBSET B : Total(f, A \cup T) = Total(f, A) + Total(f, T)}
  <1>0. Total(f, A) \in Int
    BY TotalInt
  <1>1. {} \in G
    <2>1. A \cup {} = A
      OBVIOUS
    <2>. QED
      BY <1>0, <2>1, TotalEmpty
  <1>2. ASSUME NEW T \in G, NEW x \in B \ T PROVE T \cup {x} \in G
    <2>1. IsFiniteSet(T) /\ IsFiniteSet(A \cup T) /\ x \notin A \cup T
      BY FS_Subset, FS_Union
    <2>2. \A z \in A \cup T : f[z] \in Int
      OBVIOUS
    <2>3. f[x] \in Int /\ Total(f, T) \in Int
      BY <2>1, <2>2, TotalInt
    <2>4. Total(f, T \cup {x}) = f[x] + Total(f, T)
      BY <2>1, <2>2, TotalInsert
    <2>5. Total(f, (A \cup T) \cup {x}) = f[x] + Total(f, A \cup T)
      BY <2>1, <2>2, <2>3, TotalInsert
    <2>6. A \cup (T \cup {x}) = (A \cup T) \cup {x}
      OBVIOUS
    <2>7. Total(f, A \cup T) = Total(f, A) + Total(f, T)
      OBVIOUS
    <2>8. Total(f, A \cup (T \cup {x})) = f[x] + Total(f, A \cup T)
      BY <2>5, <2>6
    <2>9. Total(f, A \cup (T \cup {x})) = Total(f, A) + Total(f, T \cup {x})
      BY <1>0, <2>3, <2>4, <2>7, <2>8
    <2>. QED
      BY <2>9
  <1>3. B \in G
    <2>. HIDE DEF G
    <2>1. G \in SUBSET SUBSET B
      BY DEF G
    <2>. QED
      BY <1>1, <1>2, <2>1, SubsetInduction
  <1>. QED
    BY <1>3

LEMMA TotalOfPart ==
  ASSUME NEW f, NEW S, IsFiniteSet(S), NEW T \in SUBSET S, \A x \in S : f[x] \in Nat
  PROVE  Total(f, T) <= Total(f, S)
  <1>1. IsFiniteSet(T) /\ IsFiniteSet(S \ T) /\ T \cap (S \ T) = {} /\ T \cup (S \ T) = S
    BY FS_Subset, FS_Difference
  <1>2. Total(f, T \cup (S \ T)) = Total(f, T) + Total(f, S \ T)
    BY <1>1, TotalSplit
  <1>3. Total(f, T) \in Nat /\ Total(f, S \ T) \in Nat
    BY <1>1, TotalNat
  <1>4. Total(f, S) = Total(f, T) + Total(f, S \ T)
    BY <1>1, <1>2
  <1>. QED
    BY <1>3, <1>4

\* No term of a sum of naturals is larger than the sum.
LEMMA TotalCovers ==
  ASSUME NEW f, NEW S, IsFiniteSet(S), \A x \in S : f[x] \in Nat, NEW y \in S
  PROVE  f[y] <= Total(f, S)
  <1>1. IsFiniteSet(S \ {y}) /\ \A x \in S \ {y} : f[x] \in Nat
    BY FS_Subset
  <1>2. Total(f, S \ {y}) \in Nat
    BY <1>1, TotalNat
  <1>3. Total(f, S) = f[y] + Total(f, S \ {y})
    BY TotalRemove
  <1>. QED
    BY <1>2, <1>3

\* One term changes.
LEMMA TotalUpdate ==
  ASSUME NEW f, NEW g, NEW S, IsFiniteSet(S), NEW y \in S,
         \A x \in S : f[x] \in Int /\ g[x] \in Int,
         \A x \in S \ {y} : f[x] = g[x]
  PROVE  Total(g, S) = Total(f, S) + g[y] - f[y]
  <1>1. IsFiniteSet(S \ {y}) /\ \A x \in S \ {y} : f[x] \in Int /\ g[x] \in Int
    BY FS_Subset
  <1>2. Total(f, S \ {y}) = Total(g, S \ {y}) /\ Total(f, S \ {y}) \in Int
    BY <1>1, TotalEqual, TotalInt
  <1>3. /\ Total(f, S) = f[y] + Total(f, S \ {y})
        /\ Total(g, S) = g[y] + Total(g, S \ {y})
    BY TotalRemove
  <1>. QED
    BY <1>2, <1>3
\* Every term is multiplied by c.
LEMMA TotalTimes ==
  ASSUME NEW c \in Int, NEW f, NEW h, NEW S, IsFiniteSet(S),
         \A x \in S : f[x] \in Int /\ h[x] = c * f[x]
  PROVE  Total(h, S) = c * Total(f, S)
  <1>. DEFINE G == {T \in SUBSET S : Total(h, T) = c * Total(f, T)}
  <1>1. {} \in G
    BY TotalEmpty
  <1>2. ASSUME NEW T \in G, NEW x \in S \ T PROVE T \cup {x} \in G
    <2>1. IsFiniteSet(T) /\ \A z \in T : f[z] \in Int /\ h[z] \in Int
      BY FS_Subset
    <2>2. Total(f, T) \in Int /\ f[x] \in Int /\ h[x] \in Int
      BY <2>1, TotalInt
    <2>3. /\ Total(f, T \cup {x}) = f[x] + Total(f, T)
          /\ Total(h, T \cup {x}) = h[x] + Total(h, T)
      BY <2>1, <2>2, TotalInsert
    <2>4. c * (f[x] + Total(f, T)) = c * f[x] + c * Total(f, T)
      BY <2>2
    <2>. QED
      BY <2>2, <2>3, <2>4
  <1>3. S \in G
    <2>. HIDE DEF G
    <2>1. G \in SUBSET SUBSET S
      BY DEF G
    <2>. QED
      BY <1>1, <1>2, <2>1, SubsetInduction
  <1>. QED
    BY <1>3

\* A table f, and its transpose g, added by rows or by columns.
Tabulated(f, g, row, column, S, T) ==
    /\ \A x \in S : \A y \in T : f[x][y] \in Int /\ g[y][x] = f[x][y]
    /\ \A x \in S : row[x] = Total(f[x], T)
    /\ \A y \in T : column[y] = Total(g[y], S)

LEMMA TotalSwap ==
  ASSUME NEW f, NEW g, NEW row, NEW column, NEW S, NEW T, IsFiniteSet(S), IsFiniteSet(T),
         Tabulated(f, g, row, column, S, T)
  PROVE  Total(row, S) = Total(column, T)
  <1>. USE DEF Tabulated
  <1>. DEFINE columns(R) == [y \in T |-> Total(g[y], R)]
              G == {R \in SUBSET S : Total(row, R) = Total(columns(R), T)}
  <1>0. \A x \in S : row[x] \in Int
    BY TotalInt
  <1>1. {} \in G
    <2>1. \A y \in T : columns({})[y] = 0
      BY TotalEmpty
    <2>2. Total(columns({}), T) = 0
      <3>. HIDE DEF columns
      <3>. QED
        BY <2>1, TotalZero
    <2>. QED
      BY <2>2, TotalEmpty
  <1>2. ASSUME NEW R \in G, NEW x \in S \ R PROVE R \cup {x} \in G
    <2>1. IsFiniteSet(R)
      BY FS_Subset
    <2>2. Total(row, R \cup {x}) = row[x] + Total(row, R)
      BY <1>0, <2>1, TotalInsert
    <2>3. ASSUME NEW y \in T
          PROVE  /\ Total(g[y], R \cup {x}) = f[x][y] + Total(g[y], R)
                 /\ Total(g[y], R) \in Int
      <3>. DEFINE terms == g[y]
      <3>1. \A z \in R : terms[z] \in Int
        OBVIOUS
      <3>2. terms[x] = f[x][y] /\ terms[x] \in Int
        OBVIOUS
      <3>. HIDE DEF terms
      <3>3. Total(terms, R \cup {x}) = terms[x] + Total(terms, R) /\ Total(terms, R) \in Int
        BY <2>1, <3>1, <3>2, TotalInsert, TotalInt
      <3>. QED
        BY <3>2, <3>3 DEF terms
    <2>4. Total(columns(R \cup {x}), T) = Total(f[x], T) + Total(columns(R), T)
      <3>. DEFINE old == columns(R)
                  new == columns(R \cup {x})
                  terms == f[x]
      <3>1. \A y \in T : terms[y] \in Int /\ old[y] \in Int /\ new[y] = terms[y] + old[y]
        BY <2>3
      <3>. HIDE DEF columns, old, new, terms
      <3>2. Total(new, T) = Total(terms, T) + Total(old, T)
        BY <3>1, TotalPlus
      <3>. QED
        BY <3>2 DEF old, new, terms
    <2>5. row[x] = Total(f[x], T) /\ Total(row, R) = Total(columns(R), T)
      OBVIOUS
    <2>. QED
      BY <2>2, <2>4, <2>5
  <1>3. S \in G
    <2>. HIDE DEF G
    <2>1. G \in SUBSET SUBSET S
      BY DEF G
    <2>. QED
      BY <1>1, <1>2, <2>1, SubsetInduction
  <1>4. Total(column, T) = Total(columns(S), T)
    <2>1. \A y \in T : column[y] = columns(S)[y]
      OBVIOUS
    <2>. HIDE DEF columns
    <2>. QED
      BY <2>1, TotalEqual
  <1>. QED
    BY <1>3, <1>4
=============================================================================
