--------------------- MODULE MultiwayPartitioningProofs ---------------------
(***************************************************************************)
(* The partitioning algorithm divides the entries: for any number of them  *)
(* and of subsets, every entry is in exactly one subset, once, and a       *)
(* subset's sum is that of the scores of its entries.                      *)
(*                                                                         *)
(* The lemmas about sets and sequences it needs stand first: what a sum    *)
(* over a finite set is, a function defined step by step exists,           *)
(* FlattenSeq has an element for every place in its sequences, a stable    *)
(* sort is a rearrangement.                                                *)
(***************************************************************************)
EXTENDS MultiwayPartitioning, SequenceTheorems, FiniteSetTheorems, FunctionTheorems,
        WellFoundedInduction, TLAPS

(* A set of numbers that is not empty has a least element.                  *)
LEMMA LeastOf ==
  ASSUME NEW S, S \subseteq Nat, S # {}
  PROVE  \E m \in S : \A k \in S : m <= k
<1>1. PICK m \in S : \A k \in S : <<k, m>> \notin OpToRel(<, Nat)
  BY WFMin, NatLessThanWellFounded, Zenon
<1>2. \A k \in S : ~(k < m)
  BY <1>1, Zenon DEF OpToRel
<1>3. \A k \in S : m <= k
  BY <1>2
<1> QED
  BY <1>3

-----------------------------------------------------------------------------
(* Folds over finite sets                                                  *)

(* Of sets that are finite one has the fewest elements.                     *)
LEMMA FewestOf ==
  ASSUME NEW C, C # {}, \A s \in C : IsFiniteSet(s)
  PROVE  \E s \in C : \A t \in C : Cardinality(s) <= Cardinality(t)
<1> DEFINE counts == {Cardinality(s) : s \in C}
<1>1. counts \subseteq Nat /\ counts # {}
  BY FS_CardinalityType
<1>2. PICK m \in counts : \A k \in counts : m <= k
  <2> HIDE DEF counts
  <2> QED
    BY <1>1, LeastOf
<1>3. PICK s \in C : Cardinality(s) = m
  BY <1>2
<1> QED
  BY <1>2, <1>3

(* G folds step over the subsets of S, taking elements as ch says.          *)
Folds(G, D, base, ch, step) ==
  /\ {} \in D => G[{}] = base
  /\ \A s \in D : s # {} => G[s] = step[<<ch[s], G[s \ {ch[s]}]>>]

LEMMA FoldOver ==
  ASSUME NEW S, IsFiniteSet(S), NEW V, NEW base \in V, NEW step \in [S \X V -> V],
         NEW ch, \A s \in SUBSET S : s # {} => ch[s] \in s
  PROVE  \E G \in [SUBSET S -> V] : Folds(G, SUBSET S, base, ch, step)
<1> DEFINE Upto(k) == {s \in SUBSET S : Cardinality(s) <= k}
           Done(k) == \E G \in [Upto(k) -> V] : Folds(G, Upto(k), base, ch, step)
           Bad == {k \in 0 .. Cardinality(S) : ~Done(k)}
<1>1. Cardinality(S) \in Nat /\ \A s \in SUBSET S : /\ IsFiniteSet(s) /\ Cardinality(s) \in Nat
                                                   /\ Cardinality(s) <= Cardinality(S)
                                                   /\ (Cardinality(s) = 0 <=> s = {})
  BY FS_CardinalityType, FS_Subset, FS_EmptySet
<1>2. Bad = {}
  <2> SUFFICES ASSUME Bad # {}
               PROVE  FALSE
    OBVIOUS
  <2>1. PICK m \in Bad : \A k \in Bad : m <= k
    <3>1. Bad \subseteq Nat
      OBVIOUS
    <3> HIDE DEF Bad
    <3> QED
      BY <3>1, LeastOf
  <2>2. m \in 0 .. Cardinality(S) /\ ~Done(m)
    BY <2>1
  <2>3. CASE m = 0
    <3>1. Upto(0) = {{}}
      <4>1. {} \in SUBSET S /\ Cardinality({}) <= 0
        BY FS_EmptySet
      <4>2. ASSUME NEW s \in SUBSET S, Cardinality(s) <= 0
            PROVE  s = {}
        BY <1>1, <4>2
      <4> QED
        BY <4>1, <4>2
    <3> HIDE DEF Upto
    <3> DEFINE G == [s \in Upto(0) |-> base]
    <3>2. G \in [Upto(0) -> V] /\ Folds(G, Upto(0), base, ch, step)
      BY <3>1 DEF Folds
    <3> HIDE DEF G
    <3> QED
      BY <2>2, <2>3, <3>2
  <2>4. CASE m # 0
    <3>1. m - 1 \in 0 .. Cardinality(S) /\ ~(m <= m - 1)
      BY <1>1, <2>2, <2>4
    <3>2. Done(m - 1)
      BY <2>1, <3>1
    <3>3. PICK F \in [Upto(m - 1) -> V] : Folds(F, Upto(m - 1), base, ch, step)
      BY <3>2
    <3>4. /\ {} \in Upto(m - 1)
          /\ \A s \in Upto(m) : s \in SUBSET S
          /\ \A s \in Upto(m) : s # {} => s \ {ch[s]} \in Upto(m - 1)
      <4>1. {} \in SUBSET S /\ Cardinality({}) = 0 /\ m - 1 >= 0
        BY <3>1, FS_EmptySet
      <4>2. ASSUME NEW s \in Upto(m), s # {}
            PROVE  s \ {ch[s]} \in Upto(m - 1)
        <5>1. s \in SUBSET S /\ Cardinality(s) <= m /\ ch[s] \in s /\ IsFiniteSet(s)
          BY <1>1, <4>2
        <5>2. Cardinality(s \ {ch[s]}) = Cardinality(s) - 1
          BY <5>1, FS_RemoveElement
        <5>3. Cardinality(s) - 1 <= m - 1
          BY <1>1, <2>2, <5>1
        <5> QED
          BY <5>1, <5>2, <5>3
      <4> QED
        BY <4>1, <4>2
    <3> DEFINE G == [s \in Upto(m) |->
                       IF s \in Upto(m - 1) THEN F[s] ELSE step[<<ch[s], F[s \ {ch[s]}]>>]]
    <3>5. \A s \in Upto(m - 1) : s \in Upto(m)
      <4>1. ASSUME NEW s \in Upto(m - 1)
            PROVE  s \in SUBSET S /\ Cardinality(s) <= m
        <5>1. Cardinality(s) \in Nat /\ Cardinality(s) <= m - 1 /\ s \in SUBSET S
          BY <1>1
        <5> QED
          BY <2>2, <5>1
      <4> QED
        BY <4>1
    <3>6. \A s \in Upto(m - 1) : s # {} => s \ {ch[s]} \in Upto(m - 1)
      BY <3>4, <3>5
    <3> HIDE DEF Upto
    <3>7. \A s \in Upto(m) : s \notin Upto(m - 1) => s # {} /\ G[s] = step[<<ch[s], F[s \ {ch[s]}]>>]
      BY <3>4
    <3>8. \A s \in Upto(m - 1) : G[s] = F[s]
      BY <3>5
    <3>9. G \in [Upto(m) -> V]
      <4>1. ASSUME NEW s \in Upto(m), s \notin Upto(m - 1)
            PROVE  step[<<ch[s], F[s \ {ch[s]}]>>] \in V
        <5>1. ch[s] \in S /\ F[s \ {ch[s]}] \in V
          BY <3>4, <3>7, <4>1
        <5> QED
          BY <5>1
      <4> QED
        BY <4>1
    <3> HIDE DEF G
    <3>10. ASSUME NEW s \in Upto(m), s # {}
           PROVE  G[s] = step[<<ch[s], G[s \ {ch[s]}]>>]
      <4>1. G[s \ {ch[s]}] = F[s \ {ch[s]}]
        BY <3>4, <3>8, <3>10
      <4>2. CASE s \in Upto(m - 1)
        <5>1. G[s] = F[s] /\ F[s] = step[<<ch[s], F[s \ {ch[s]}]>>]
          BY <3>3, <3>8, <3>10, <4>2 DEF Folds
        <5> QED
          BY <4>1, <5>1
      <4>3. CASE s \notin Upto(m - 1)
        BY <3>7, <4>1, <4>3
      <4> QED
        BY <4>2, <4>3
    <3>11. G[{}] = base
      BY <3>3, <3>4, <3>8 DEF Folds
    <3> QED
      BY <2>2, <3>9, <3>10, <3>11 DEF Folds
  <2> QED
    BY <2>3, <2>4
<1>3. Upto(Cardinality(S)) = SUBSET S
  BY <1>1
<1>4. Done(Cardinality(S))
  <2>1. Cardinality(S) \in 0 .. Cardinality(S)
    BY <1>1
  <2> HIDE DEF Done
  <2> QED
    BY <1>2, <2>1
<1> HIDE DEF Upto
<1>5. PICK G \in [Upto(Cardinality(S)) -> V] : Folds(G, Upto(Cardinality(S)), base, ch, step)
  BY <1>4
<1> QED
  BY <1>3, <1>5

(* A finite set of numbers has a greatest and a smallest one.               *)
LEMMA GreatestIn ==
  ASSUME NEW S, IsFiniteSet(S), S # {}, S \subseteq Int
  PROVE  Max(S) \in S /\ \A y \in S : Max(S) >= y
<1> DEFINE Above(x) == {y \in S : y > x}
<1>1. PICK x \in S : \A y \in S : Cardinality(Above(x)) <= Cardinality(Above(y))
  <2> DEFINE C == {Above(x) : x \in S}
  <2>1. C # {} /\ \A s \in C : IsFiniteSet(s)
    <3>1. \A s \in C : s \in SUBSET S
      OBVIOUS
    <3> HIDE DEF C, Above
    <3>2. \A s \in C : IsFiniteSet(s)
      BY <3>1, FS_Subset
    <3> QED
      BY <3>2 DEF C
  <2>2. PICK s \in C : \A t \in C : Cardinality(s) <= Cardinality(t)
    <3> HIDE DEF C
    <3> QED
      BY <2>1, FewestOf
  <2>3. PICK x \in S : s = Above(x)
    OBVIOUS
  <2>4. \A y \in S : Above(y) \in C
    OBVIOUS
  <2> HIDE DEF C, Above
  <2> QED
    BY <2>2, <2>3, <2>4
<1>2. Above(x) = {}
  <2> SUFFICES ASSUME NEW y \in Above(x)
               PROVE  FALSE
    OBVIOUS
  <2>1. y \in S /\ Above(y) \subseteq Above(x) \ {y} /\ IsFiniteSet(Above(x))
    <3>1. y \in S /\ y > x /\ y \in Int /\ x \in Int
      OBVIOUS
    <3>2. ASSUME NEW z \in Above(y)
          PROVE  z \in Above(x) \ {y}
      <4>1. z \in S /\ z > y /\ z \in Int
        OBVIOUS
      <4> QED
        BY <3>1, <4>1
    <3>3. Above(x) \in SUBSET S
      OBVIOUS
    <3> HIDE DEF Above
    <3> QED
      BY <3>1, <3>2, <3>3, FS_Subset
  <2>2. Cardinality(Above(x) \ {y}) = Cardinality(Above(x)) - 1 /\ Cardinality(Above(x)) \in Nat
    <3> HIDE DEF Above
    <3> QED
      BY <2>1, FS_RemoveElement, FS_CardinalityType
  <2>3. Cardinality(Above(y)) <= Cardinality(Above(x) \ {y}) /\ Cardinality(Above(y)) \in Nat
    <3> HIDE DEF Above
    <3>1. IsFiniteSet(Above(x) \ {y})
      BY <2>1, FS_Subset
    <3>2. IsFiniteSet(Above(y)) /\ Cardinality(Above(y)) <= Cardinality(Above(x) \ {y})
      BY <2>1, <3>1, FS_Subset
    <3> QED
      BY <3>2, FS_CardinalityType
  <2> DEFINE a == Cardinality(Above(x))
             b == Cardinality(Above(y))
  <2>4. a <= b /\ b <= a - 1 /\ a \in Nat /\ b \in Nat
    BY <1>1, <2>1, <2>2, <2>3
  <2> HIDE DEF a, b
  <2> QED
    BY <2>4
<1>3. x \in S /\ \A y \in S : x >= y
  BY <1>2
<1> HIDE DEF Above
<1> QED
  BY <1>3, Zenon DEF Max

LEMMA SmallestIn ==
  ASSUME NEW S, IsFiniteSet(S), S # {}, S \subseteq Int
  PROVE  Min(S) \in S /\ \A y \in S : Min(S) <= y
<1> DEFINE f == [y \in S |-> 0 - y]
           T == {f[y] : y \in S}
<1>1. \A y \in S : f[y] = 0 - y /\ f[y] \in Int
  OBVIOUS
<1>2. f \in Surjection(S, T)
  BY DEF Surjection
<1> HIDE DEF f
<1>3. T # {} /\ T \subseteq Int /\ \A y \in S : f[y] \in T
  BY <1>1
<1>4. \A z \in T : \E y \in S : z = f[y]
  OBVIOUS
<1> HIDE DEF T
<1>5. IsFiniteSet(T)
  BY <1>2, FS_Surjection
<1>6. PICK m : m = Max(T)
  OBVIOUS
<1>7. m \in T /\ \A z \in T : m >= z
  BY <1>3, <1>5, <1>6, GreatestIn
<1>8. PICK x \in S : m = f[x]
  BY <1>4, <1>7
<1>9. \A y \in S : x =< y
  <2> TAKE y \in S
  <2>1. 0 - x >= 0 - y
    BY <1>1, <1>3, <1>7, <1>8
  <2> QED
    BY <2>1
<1> QED
  BY <1>9, Zenon DEF Min

-----------------------------------------------------------------------------
(* Sums                                                                    *)

(* The sum of f over S. *)
Total(f, S) == MapThenSumSet(LAMBDA x : f[x], S)

(* It is made one element after another: iter has the sums of the sets in D. *)
OneOf(s) == CHOOSE x \in s : TRUE
NextTotal(f, iter, s) ==
  IF s = {} THEN 0 ELSE LET x == CHOOSE x \in s : TRUE IN f[x] + iter[s \ {x}]
Adds(f, iter, D) ==
  \A s \in D : iter[s] = IF s = {} THEN 0 ELSE f[OneOf(s)] + iter[s \ {OneOf(s)}]

TotalsAre(f, iter, D) == \A s \in D : Total(f, s) = iter[s]

Agree(F, G, s) == F[s] = G[s]

LEMMA AnyIn ==
  ASSUME NEW s, s # {}
  PROVE  OneOf(s) \in s
BY Zenon DEF OneOf

(* Sums over the same set agree.                                            *)
LEMMA AddsAgree ==
  ASSUME NEW S, IsFiniteSet(S), NEW T, NEW f,
         NEW F, Adds(f, F, SUBSET S), NEW G, Adds(f, G, SUBSET T),
         NEW r \in SUBSET S, r \in SUBSET T
  PROVE  Agree(F, G, r)
<1> DEFINE Bad == {s \in SUBSET S : s \subseteq T /\ F[s] # G[s]}
<1>1. Bad = {}
  <2> SUFFICES ASSUME Bad # {}
               PROVE  FALSE
    OBVIOUS
  <2>1. \A s \in Bad : IsFiniteSet(s)
    BY FS_Subset
  <2>2. PICK s \in Bad : \A t \in Bad : Cardinality(s) <= Cardinality(t)
    <3> HIDE DEF Bad
    <3> QED
      BY <2>1, FewestOf
  <2>3. s \in SUBSET S /\ s \in SUBSET T /\ F[s] # G[s] /\ IsFiniteSet(s)
    BY <2>1
  <2>4. s # {}
    BY <2>3 DEF Adds
  <2> DEFINE t == s \ {OneOf(s)}
  <2>5. OneOf(s) \in s /\ t \in SUBSET S /\ t \in SUBSET T
    BY <2>3, <2>4, AnyIn
  <2>6. Cardinality(t) = Cardinality(s) - 1 /\ Cardinality(s) \in Nat
    <3> HIDE DEF Bad
    <3> QED
      BY <2>3, <2>5, FS_RemoveElement, FS_CardinalityType
  <2>7. t \notin Bad
    <3> HIDE DEF Bad, t
    <3>1. ~(Cardinality(s) <= Cardinality(t))
      BY <2>6
    <3> QED
      BY <2>2, <3>1
  <2>8. F[t] = G[t]
    BY <2>5, <2>7
  <2> QED
    BY <2>3, <2>4, <2>8 DEF Adds
<1> QED
  BY <1>1 DEF Agree

(* The sum is made step by step, over the subsets of S.                     *)
LEMMA TotalIs ==
  ASSUME NEW S, IsFiniteSet(S), NEW f, \A x \in S : f[x] \in Int
  PROVE  \E iter \in [SUBSET S -> Int] : Adds(f, iter, SUBSET S) /\ Total(f, S) = iter[S]
<1> DEFINE ch == [s \in SUBSET S |-> OneOf(s)]
           step == [p \in S \X Int |-> f[p[1]] + p[2]]
           iter == CHOOSE iter : iter = [s \in SUBSET S |-> NextTotal(f, iter, s)]
<1>1. /\ \A s \in SUBSET S : s # {} => ch[s] \in s /\ ch[s] = OneOf(s)
      /\ step \in [S \X Int -> Int] /\ \A x \in S, v \in Int : step[<<x, v>>] = f[x] + v
  BY AnyIn
<1> HIDE DEF ch, step
<1>2. PICK G \in [SUBSET S -> Int] : Folds(G, SUBSET S, 0, ch, step)
  <2> DEFINE V == Int
             zero == 0
  <2>1. zero \in V
    OBVIOUS
  <2> HIDE DEF V, zero
  <2>2. \E G \in [SUBSET S -> V] : Folds(G, SUBSET S, zero, ch, step)
    <3>1. step \in [S \X V -> V] /\ \A s \in SUBSET S : s # {} => ch[s] \in s
      BY <1>1 DEF V
    <3> QED
      BY <2>1, <3>1, FoldOver
  <2> QED
    BY <2>2 DEF V, zero
<1>3. ASSUME NEW s \in SUBSET S
      PROVE  G[s] = IF s = {} THEN 0 ELSE f[OneOf(s)] + G[s \ {OneOf(s)}]
  <2>1. CASE s = {}
    BY <1>2, <2>1 DEF Folds
  <2>2. CASE s # {}
    <3>1. OneOf(s) \in S /\ G[s \ {OneOf(s)}] \in Int /\ ch[s] = OneOf(s)
      BY <1>1, <2>2
    <3>2. G[s] = step[<<OneOf(s), G[s \ {OneOf(s)}]>>]
      BY <1>2, <2>2, <3>1 DEF Folds
    <3> QED
      BY <1>1, <2>2, <3>1, <3>2
  <2> QED
    BY <2>1, <2>2
<1>4. \A g, s : NextTotal(f, g, s) = IF s = {} THEN 0 ELSE f[OneOf(s)] + g[s \ {OneOf(s)}]
  BY Zenon DEF NextTotal, OneOf
<1>5. G = [s \in SUBSET S |-> NextTotal(f, G, s)]
  <2>1. \A s \in SUBSET S : G[s] = NextTotal(f, G, s)
    BY <1>3, <1>4
  <2> QED
    BY <2>1
<1>6. iter = [s \in SUBSET S |-> NextTotal(f, iter, s)]
  BY <1>5, Zenon
<1>7. Total(f, S) = iter[S]
  BY Zenon DEF Total, MapThenSumSet, MapThenFoldSet, NextTotal
<1> HIDE DEF iter
<1>8. Adds(f, iter, SUBSET S)
  <2>1. \A s \in SUBSET S : iter[s] = NextTotal(f, iter, s)
    BY <1>6
  <2> QED
    BY <1>4, <2>1 DEF Adds
<1>9. Adds(f, G, SUBSET S)
  BY <1>3 DEF Adds
<1>10. \A s \in SUBSET S : iter[s] = G[s]
  <2> TAKE s \in SUBSET S
  <2>1. Agree(iter, G, s)
    BY <1>8, <1>9, AddsAgree
  <2> QED
    BY <2>1 DEF Agree
<1>11. iter \in [SUBSET S -> Int]
  BY <1>2, <1>6, <1>10
<1> QED
  BY <1>7, <1>8, <1>11

(* Summing over a part of the set.                                          *)
LEMMA TotalOf ==
  ASSUME NEW S, IsFiniteSet(S), NEW f, \A x \in S : f[x] \in Int
  PROVE  \E iter \in [SUBSET S -> Int] :
           Adds(f, iter, SUBSET S) /\ TotalsAre(f, iter, SUBSET S)
<1>1. PICK iter \in [SUBSET S -> Int] : Adds(f, iter, SUBSET S)
  BY TotalIs
<1>2. ASSUME NEW s \in SUBSET S
      PROVE  Total(f, s) = iter[s]
  <2>1. IsFiniteSet(s) /\ \A x \in s : f[x] \in Int
    BY FS_Subset
  <2>2. PICK g \in [SUBSET s -> Int] : Adds(f, g, SUBSET s) /\ Total(f, s) = g[s]
    BY <2>1, TotalIs
  <2>3. g[s] = iter[s]
    <3>1. s \in SUBSET s
      OBVIOUS
    <3>2. Agree(g, iter, s)
      BY <1>1, <2>1, <2>2, <3>1, AddsAgree
    <3> QED
      BY <3>2 DEF Agree
  <2> QED
    BY <2>2, <2>3
<1> QED
  BY <1>1, <1>2 DEF TotalsAre

(* No number, and a first number to be added.                               *)
LEMMA TotalSteps ==
  ASSUME NEW S, IsFiniteSet(S), NEW f, \A x \in S : f[x] \in Int
  PROVE  /\ Total(f, S) \in Int
         /\ S = {} => Total(f, S) = 0
         /\ S # {} => OneOf(S) \in S /\ Total(f, S) = f[OneOf(S)] + Total(f, S \ {OneOf(S)})
<1>1. PICK iter \in [SUBSET S -> Int] : Adds(f, iter, SUBSET S) /\ TotalsAre(f, iter, SUBSET S)
  BY TotalOf
<1>2. S \in SUBSET S /\ S \ {OneOf(S)} \in SUBSET S
  OBVIOUS
<1>3. Total(f, S) = iter[S] /\ Total(f, S \ {OneOf(S)}) = iter[S \ {OneOf(S)}] /\ iter[S] \in Int
  BY <1>1, <1>2 DEF TotalsAre
<1> QED
  BY <1>1, <1>2, <1>3, AnyIn DEF Adds

(* Any number may be the first.                                             *)
LEMMA TotalWithout ==
  ASSUME NEW S, IsFiniteSet(S), NEW f, \A x \in S : f[x] \in Int, NEW y \in S
  PROVE  Total(f, S) = f[y] + Total(f, S \ {y})
<1> DEFINE Bad == {s \in SUBSET S : \E z \in s : Total(f, s) # f[z] + Total(f, s \ {z})}
<1>1. Bad = {}
  <2> SUFFICES ASSUME Bad # {}
               PROVE  FALSE
    OBVIOUS
  <2>1. \A s \in Bad : IsFiniteSet(s)
    BY FS_Subset
  <2>2. PICK s \in Bad : \A t \in Bad : Cardinality(s) <= Cardinality(t)
    <3> HIDE DEF Bad
    <3> QED
      BY <2>1, FewestOf
  <2>3. s \in SUBSET S /\ IsFiniteSet(s) /\ \A v \in s : f[v] \in Int
    BY <2>1
  <2>4. PICK z \in s : Total(f, s) # f[z] + Total(f, s \ {z})
    BY <2>2
  <2> DEFINE x == OneOf(s)
  <2>5. x \in s /\ Total(f, s) = f[x] + Total(f, s \ {x})
    <3> HIDE DEF Bad
    <3> QED
      BY <2>3, <2>4, TotalSteps
  <2> HIDE DEF x
  <2>6. x # z
    BY <2>4, <2>5
  <2>7. ASSUME NEW v \in s, NEW w \in s \ {v}
        PROVE  Total(f, s \ {v}) = f[w] + Total(f, (s \ {v}) \ {w})
    <3>1. Cardinality(s \ {v}) = Cardinality(s) - 1 /\ Cardinality(s) \in Nat
      <4> HIDE DEF Bad
      <4> QED
        BY <2>3, FS_RemoveElement, FS_CardinalityType
    <3>2. s \ {v} \notin Bad
      <4> HIDE DEF Bad
      <4>1. ~(Cardinality(s) <= Cardinality(s \ {v}))
        BY <3>1
      <4> QED
        BY <2>2, <4>1
    <3>3. s \ {v} \in SUBSET S
      BY <2>3
    <3> QED
      BY <3>2, <3>3
  <2>8. /\ Total(f, s \ {x}) = f[z] + Total(f, (s \ {x}) \ {z})
        /\ Total(f, s \ {z}) = f[x] + Total(f, (s \ {z}) \ {x})
        /\ (s \ {x}) \ {z} = (s \ {z}) \ {x}
    BY <2>4, <2>5, <2>6, <2>7
  <2>9. Total(f, (s \ {z}) \ {x}) \in Int /\ f[x] \in Int /\ f[z] \in Int
    <3>1. IsFiniteSet((s \ {z}) \ {x})
      BY <2>3, FS_Subset
    <3> HIDE DEF Bad
    <3> QED
      BY <2>3, <2>4, <2>5, <3>1, TotalSteps
  <2> HIDE DEF Bad
  <2> DEFINE a == Total(f, (s \ {z}) \ {x})
  <2>10. /\ Total(f, s) = f[x] + (f[z] + a) /\ Total(f, s \ {z}) = f[x] + a
    BY <2>5, <2>8
  <2> HIDE DEF a
  <2>11. f[x] + (f[z] + a) = f[z] + (f[x] + a)
    BY <2>9 DEF a
  <2> QED
    BY <2>4, <2>10, <2>11
<1>2. S \notin Bad
  BY <1>1
<1> QED
  BY <1>2

(* The sum over two sets without a common element.                          *)
LEMMA TotalOfBoth ==
  ASSUME NEW S, IsFiniteSet(S), NEW T, IsFiniteSet(T), S \cap T = {},
         NEW f, \A x \in S \union T : f[x] \in Int
  PROVE  Total(f, S \union T) = Total(f, S) + Total(f, T)
<1> DEFINE Bad == {t \in SUBSET T : Total(f, S \union t) # Total(f, S) + Total(f, t)}
<1>1. Total(f, S) \in Int
  BY TotalSteps
<1>2. Bad = {}
  <2> SUFFICES ASSUME Bad # {}
               PROVE  FALSE
    OBVIOUS
  <2>1. \A s \in Bad : IsFiniteSet(s)
    BY FS_Subset
  <2>2. PICK t \in Bad : \A s \in Bad : Cardinality(t) <= Cardinality(s)
    <3> HIDE DEF Bad
    <3> QED
      BY <2>1, FewestOf
  <2>3. /\ t \in SUBSET T /\ IsFiniteSet(t) /\ \A v \in t : f[v] \in Int
        /\ Total(f, S \union t) # Total(f, S) + Total(f, t)
    BY <2>1
  <2> HIDE DEF Bad
  <2>4. t # {}
    <3>1. Total(f, {}) = 0
      BY FS_EmptySet, TotalSteps
    <3>2. S \union {} = S
      OBVIOUS
    <3>3. Total(f, S) + 0 = Total(f, S)
      BY <1>1
    <3> QED
      BY <2>3, <3>1, <3>2, <3>3
  <2>5. PICK y \in t : TRUE
    BY <2>4
  <2>6. Cardinality(t \ {y}) = Cardinality(t) - 1 /\ Cardinality(t) \in Nat /\ IsFiniteSet(t \ {y})
    BY <2>3, FS_RemoveElement, FS_CardinalityType
  <2>7. t \ {y} \notin Bad
    <3>1. ~(Cardinality(t) <= Cardinality(t \ {y}))
      BY <2>6
    <3> QED
      BY <2>2, <3>1
  <2>8. Total(f, S \union (t \ {y})) = Total(f, S) + Total(f, t \ {y})
    <3>1. t \ {y} \in SUBSET T
      BY <2>3
    <3> QED
      BY <2>7, <3>1 DEF Bad
  <2>9. Total(f, t) = f[y] + Total(f, t \ {y}) /\ Total(f, t \ {y}) \in Int
    <3>1. Total(f, t) = f[y] + Total(f, t \ {y})
      BY <2>3, TotalWithout
    <3>2. \A v \in t \ {y} : f[v] \in Int
      BY <2>3
    <3>3. Total(f, t \ {y}) \in Int
      BY <2>6, <3>2, TotalSteps
    <3> QED
      BY <3>1, <3>3
  <2>10. Total(f, S \union t) = f[y] + Total(f, S \union (t \ {y}))
    <3>1. (S \union t) \ {y} = S \union (t \ {y}) /\ y \in S \union t
      BY <2>3
    <3>2. IsFiniteSet(S \union t) /\ \A v \in S \union t : f[v] \in Int
      BY <2>3, FS_Union
    <3>3. Total(f, S \union t) = f[y] + Total(f, (S \union t) \ {y})
      BY <3>1, <3>2, TotalWithout
    <3> QED
      BY <3>1, <3>3
  <2>11. f[y] \in Int
    BY <2>3
  <2> DEFINE a == Total(f, S)
             b == Total(f, t \ {y})
  <2>12. f[y] + (a + b) = a + (f[y] + b)
    <3>1. a \in Int /\ b \in Int
      BY <1>1, <2>9
    <3> HIDE DEF a, b
    <3> QED
      BY <2>11, <3>1
  <2> QED
    BY <2>3, <2>8, <2>9, <2>10, <2>12
<1>3. T \notin Bad
  BY <1>2
<1> QED
  BY <1>3

(* The numbers may be taken from other places.                              *)
LEMMA TotalAcross ==
  ASSUME NEW S, IsFiniteSet(S), NEW f, \A x \in S : f[x] \in Int,
         NEW h, NEW g, \A x \in S : f[x] = g[h[x]],
         \A x, y \in S : h[x] = h[y] => x = y
  PROVE  Total(f, S) = Total(g, {h[x] : x \in S})
<1> DEFINE Image(s) == {h[x] : x \in s}
           Bad == {s \in SUBSET S : Total(f, s) # Total(g, Image(s))}
<1>1. Bad = {}
  <2> SUFFICES ASSUME Bad # {}
               PROVE  FALSE
    OBVIOUS
  <2>1. \A s \in Bad : IsFiniteSet(s)
    BY FS_Subset
  <2>2. PICK s \in Bad : \A t \in Bad : Cardinality(s) <= Cardinality(t)
    <3> HIDE DEF Bad
    <3> QED
      BY <2>1, FewestOf
  <2>3. /\ s \in SUBSET S /\ IsFiniteSet(s) /\ \A v \in s : f[v] \in Int
        /\ Total(f, s) # Total(g, Image(s))
    BY <2>1
  <2>4. s # {}
    <3>1. Total(f, {}) = 0 /\ Total(g, {}) = 0
      BY FS_EmptySet, TotalSteps
    <3>2. Image({}) = {}
      OBVIOUS
    <3> QED
      BY <2>3, <3>1, <3>2
  <2>5. PICK y \in s : TRUE
    BY <2>4
  <2> DEFINE t == s \ {y}
  <2>6. Cardinality(t) = Cardinality(s) - 1 /\ Cardinality(s) \in Nat /\ t \in SUBSET S
    <3> HIDE DEF Bad
    <3> QED
      BY <2>3, FS_RemoveElement, FS_CardinalityType
  <2>7. t \notin Bad
    <3> HIDE DEF Bad, t
    <3>1. ~(Cardinality(s) <= Cardinality(t))
      BY <2>6
    <3> QED
      BY <2>2, <3>1
  <2>8. Total(f, t) = Total(g, Image(t))
    BY <2>6, <2>7
  <2>9. Total(f, s) = f[y] + Total(f, t)
    <3> HIDE DEF Bad
    <3> QED
      BY <2>3, TotalWithout
  <2>10. Image(s) \ {h[y]} = Image(t) /\ h[y] \in Image(s)
    <3>1. \A x \in s : h[x] = h[y] => x = y
      BY <2>3, <2>5
    <3> QED
      BY <3>1
  <2>11. IsFiniteSet(Image(s)) /\ \A v \in Image(s) : g[v] \in Int
    <3>1. \A x \in s : g[h[x]] \in Int
      BY <2>3
    <3>2. IsFiniteSet(Image(s))
      <4> HIDE DEF Bad
      <4> DEFINE map == [x \in s |-> h[x]]
      <4>1. map \in Surjection(s, Image(s))
        BY DEF Surjection
      <4> HIDE DEF map, Image
      <4> QED
        BY <2>3, <4>1, FS_Surjection
    <3> QED
      BY <3>1, <3>2
  <2>12. Total(g, Image(s)) = g[h[y]] + Total(g, Image(s) \ {h[y]})
    <3> HIDE DEF Image, Bad
    <3> QED
      BY <2>10, <2>11, TotalWithout
  <2>13. f[y] = g[h[y]]
    BY <2>3
  <2> HIDE DEF Image, Bad, t
  <2> QED
    BY <2>3, <2>8, <2>9, <2>10, <2>12, <2>13
<1>2. S \notin Bad
  BY <1>1
<1> QED
  BY <1>2

-----------------------------------------------------------------------------
(* Functions defined step by step                                          *)

(* g yields the value at i from the one at i - 1. *)
Follows(f, n, x, g) ==
  f[0] = x /\ \A i \in 1 .. n : f[i] = g[<<i, f[i - 1]>>]

LEMMA StepByStep ==
  ASSUME NEW n \in Nat, NEW X, NEW x \in X, NEW g \in [(1 .. n) \X X -> X]
  PROVE  \E f \in [0 .. n -> X] : Follows(f, n, x, g)
<1> DEFINE Has(m) == \E f \in [0 .. m -> X] : Follows(f, m, x, g)
           Missing == {m \in 0 .. n : ~Has(m)}
<1> SUFFICES ASSUME Missing # {}
             PROVE  FALSE
  OBVIOUS
<1>1. PICK m \in Missing : \A k \in Missing : m <= k
  <2>1. Missing \subseteq Nat
    OBVIOUS
  <2> HIDE DEF Missing
  <2> QED
    BY <2>1, LeastOf
<1>2. m \in 0 .. n /\ ~Has(m)
  BY <1>1
<1>3. Has(0)
  <2> DEFINE f == [i \in 0 .. 0 |-> x]
  <2>1. f \in [0 .. 0 -> X] /\ f[0] = x /\ 1 .. 0 = {}
    OBVIOUS
  <2> HIDE DEF f
  <2> QED
    BY <2>1 DEF Follows
<1>4. m - 1 \in 0 .. n /\ m - 1 \notin Missing /\ m \in 1 .. n
  <2>1. m # 0
    BY <1>2, <1>3
  <2>2. m \in 1 .. n /\ m - 1 \in 0 .. n /\ ~(m <= m - 1)
    BY <1>2, <2>1
  <2> HIDE DEF Missing
  <2> QED
    BY <1>1, <2>2
<1>5. PICK f \in [0 .. m - 1 -> X] : Follows(f, m - 1, x, g)
  BY <1>4
<1> DEFINE h == [i \in 0 .. m |-> IF i = m THEN g[<<m, f[m - 1]>>] ELSE f[i]]
<1>6. /\ f[m - 1] \in X /\ g[<<m, f[m - 1]>>] \in X
      /\ \A i \in 0 .. m - 1 : f[i] \in X
  BY <1>4
<1>7. h \in [0 .. m -> X]
  BY <1>4, <1>6
<1>8. Follows(h, m, x, g)
  <2>1. h[0] = x
    BY <1>4, <1>5 DEF Follows
  <2>2. ASSUME NEW i \in 1 .. m
        PROVE  h[i] = g[<<i, h[i - 1]>>]
    <3>1. i - 1 \in 0 .. m /\ i - 1 # m /\ h[i - 1] = f[i - 1]
      BY <1>4
    <3>2. CASE i = m
      BY <3>1, <3>2
    <3>3. CASE i # m
      <4>1. i \in 1 .. m - 1 /\ h[i] = f[i]
        BY <1>4, <3>3
      <4> QED
        BY <1>5, <3>1, <4>1 DEF Follows
    <3> QED
      BY <3>2, <3>3
  <2> HIDE DEF h
  <2> QED
    BY <2>1, <2>2 DEF Follows
<1> QED
  BY <1>2, <1>7, <1>8

-----------------------------------------------------------------------------
(* Sequences behind one another                                            *)

PlacesIn(seqs, some) == UNION {{<<i, k>> : k \in DOMAIN seqs[i]} : i \in some}
PlacesOf(seqs) == PlacesIn(seqs, DOMAIN seqs)

(* b says where in seqs each element of s comes from. *)
ComesFrom(s, b, seqs, places) ==
  /\ b \in Bijection(DOMAIN s, places)
  /\ \A p \in DOMAIN s : s[p] = seqs[b[p][1]][b[p][2]]

(* Behind s comes t, the next of the sequences.                             *)
LEMMA OneMore ==
  ASSUME NEW A, NEW n \in Nat, NEW seqs \in [1 .. n -> Seq(A)], NEW m \in 1 .. n,
         NEW s \in Seq(A), NEW b,
         ComesFrom(s, b, seqs, PlacesIn(seqs, 1 .. m - 1))
  PROVE  \E c : ComesFrom(s \o seqs[m], c, seqs, PlacesIn(seqs, 1 .. m))
<1> DEFINE P == PlacesIn(seqs, 1 .. m - 1)
           Q == PlacesIn(seqs, 1 .. m)
           t == seqs[m]
           u == s \o t
           c == [p \in 1 .. Len(s) + Len(t) |->
                   IF p <= Len(s) THEN b[p] ELSE <<m, p - Len(s)>>]
<1>1. /\ Len(s) \in Nat /\ Len(t) \in Nat /\ DOMAIN s = 1 .. Len(s) /\ DOMAIN t = 1 .. Len(t)
      /\ t \in Seq(A)
  OBVIOUS
<1>2. /\ u \in Seq(A) /\ Len(u) = Len(s) + Len(t) /\ DOMAIN u = 1 .. Len(s) + Len(t)
      /\ \A p \in 1 .. Len(s) + Len(t) : u[p] = IF p <= Len(s) THEN s[p] ELSE t[p - Len(s)]
  BY <1>1, ConcatProperties
<1>3. Q = P \union {<<m, k>> : k \in 1 .. Len(t)}
  <2>1. 1 .. m = (1 .. m - 1) \union {m}
    OBVIOUS
  <2> QED
    BY <1>1, <2>1 DEF PlacesIn
<1>4. /\ b \in [1 .. Len(s) -> P]
      /\ \A p, q \in 1 .. Len(s) : b[p] = b[q] => p = q
      /\ \A x \in P : \E p \in 1 .. Len(s) : b[p] = x
      /\ \A p \in 1 .. Len(s) : s[p] = seqs[b[p][1]][b[p][2]]
  <2>1. b \in Bijection(1 .. Len(s), P) /\ \A p \in 1 .. Len(s) : s[p] = seqs[b[p][1]][b[p][2]]
    BY <1>1 DEF ComesFrom
  <2> HIDE DEF P
  <2>2. b \in [1 .. Len(s) -> P] /\ \A p, q \in 1 .. Len(s) : b[p] = b[q] => p = q
    BY <2>1 DEF Bijection, Injection, IsInjective
  <2>3. \A x \in P : \E p \in 1 .. Len(s) : b[p] = x
    BY <2>1 DEF Bijection, Surjection
  <2> QED
    BY <2>1, <2>2, <2>3, Zenon
<1>5. \A x \in P : x[1] \in 1 .. m - 1 /\ x[1] # m
  BY DEF PlacesIn
<1> HIDE DEF P, Q, u, t
<1>6. ASSUME NEW p \in 1 .. Len(s) + Len(t)
      PROVE  /\ c[p] \in Q
             /\ u[p] = seqs[c[p][1]][c[p][2]]
             /\ p <= Len(s) => c[p] = b[p] /\ c[p] \in P
             /\ ~(p <= Len(s)) => c[p] = <<m, p - Len(s)>>
  <2>1. CASE p <= Len(s)
    <3>0. p \in 1 .. Len(s)
      BY <1>1, <2>1
    <3>1. p \in 1 .. Len(s) /\ c[p] = b[p] /\ b[p] \in P
      BY <1>4, <2>1, <3>0
    <3> HIDE DEF c
    <3> QED
      BY <1>2, <1>3, <1>4, <2>1, <3>1
  <2>2. CASE ~(p <= Len(s))
    <3>1. p - Len(s) \in 1 .. Len(t) /\ c[p] = <<m, p - Len(s)>>
      BY <1>1, <2>2
    <3> HIDE DEF c
    <3>2. c[p][1] = m /\ c[p][2] = p - Len(s)
      BY <3>1
    <3> QED
      BY <1>2, <1>3, <2>2, <3>1, <3>2 DEF t
  <2> QED
    BY <2>1, <2>2
<1>7. c \in [1 .. Len(s) + Len(t) -> Q]
  BY <1>6
<1>8. ASSUME NEW p \in 1 .. Len(s) + Len(t), NEW q \in 1 .. Len(s) + Len(t), c[p] = c[q]
      PROVE  p = q
  <2> HIDE DEF c
  <2>1. CASE p <= Len(s) /\ q <= Len(s)
    BY <1>1, <1>4, <1>6, <1>8, <2>1
  <2>2. CASE ~(p <= Len(s)) /\ ~(q <= Len(s))
    <3>1. p - Len(s) = q - Len(s)
      BY <1>6, <1>8, <2>2
    <3> QED
      BY <1>1, <3>1
  <2>3. ASSUME NEW x \in 1 .. Len(s) + Len(t), NEW y \in 1 .. Len(s) + Len(t),
               x <= Len(s), ~(y <= Len(s))
        PROVE  c[x] # c[y]
    BY <1>5, <1>6, <2>3
  <2> QED
    BY <1>8, <2>1, <2>2, <2>3
<1>9. ASSUME NEW x \in Q
      PROVE  \E p \in 1 .. Len(s) + Len(t) : c[p] = x
  <2>1. CASE x \in P
    <3>1. PICK p \in 1 .. Len(s) : b[p] = x
      BY <1>4, <2>1
    <3>2. p \in 1 .. Len(s) + Len(t) /\ p <= Len(s)
      BY <1>1
    <3> HIDE DEF c
    <3> QED
      BY <1>6, <3>1, <3>2
  <2>2. CASE x \notin P
    <3>1. PICK k \in 1 .. Len(t) : x = <<m, k>>
      BY <1>3, <2>2
    <3>2. /\ Len(s) + k \in 1 .. Len(s) + Len(t) /\ ~(Len(s) + k <= Len(s))
          /\ (Len(s) + k) - Len(s) = k
      BY <1>1
    <3> HIDE DEF c
    <3> QED
      BY <1>6, <3>1, <3>2
  <2> QED
    BY <2>1, <2>2
<1>10. c \in Bijection(1 .. Len(s) + Len(t), Q)
  <2> HIDE DEF c
  <2> QED
    BY <1>7, <1>8, <1>9, Fun_IsBij
<1> HIDE DEF c
<1>11. ComesFrom(u, c, seqs, Q)
  BY <1>2, <1>6, <1>10 DEF ComesFrom
<1> QED
  BY <1>11 DEF u, t, Q

(* FlattenSeq has each element of the sequences once.                       *)
LEMMA FlattenIs ==
  ASSUME NEW A, NEW n \in Nat, NEW seqs \in [1 .. n -> Seq(A)]
  PROVE  /\ FlattenSeq(seqs) \in Seq(A)
         /\ \E b : ComesFrom(FlattenSeq(seqs), b, seqs, PlacesOf(seqs))
<1>1. seqs \in Seq(Seq(A)) /\ Len(seqs) = n /\ DOMAIN seqs = 1 .. n
  OBVIOUS
<1> DEFINE Upto(m) == PlacesIn(seqs, 1 .. m)
<1>2. PlacesOf(seqs) = Upto(n)
  BY <1>1 DEF PlacesOf
<1>3. CASE n = 0
  <2>1. FlattenSeq(seqs) = <<>> /\ PlacesOf(seqs) = {}
    BY <1>1, <1>2, <1>3 DEF FlattenSeq, PlacesIn
  <2> DEFINE b == [p \in {} |-> 0]
  <2>2. b \in [{} -> {}]
    OBVIOUS
  <2> HIDE DEF b
  <2>3. b \in Bijection({}, {})
    BY <2>2, Fun_IsBij
  <2>4. DOMAIN <<>> = {} /\ <<>> \in Seq(A)
    OBVIOUS
  <2>5. ComesFrom(<<>>, b, seqs, {})
    BY <2>3, <2>4 DEF ComesFrom
  <2> QED
    BY <2>1, <2>4, <2>5
<1>4. CASE n # 0
  <2> DEFINE Flattens(f) ==
               f = [i \in 1 .. Len(seqs) |->
                      IF i = 1 THEN seqs[i] ELSE f[i - 1] \o seqs[i]]
             all == CHOOSE f : Flattens(f)
             X == Seq(A)
             g == [p \in (1 .. n) \X X |-> p[2] \o seqs[p[1]]]
  <2>1. \A s \in X, t \in X : s \o t \in X
    BY ConcatProperties
  <2>2. g \in [(1 .. n) \X X -> X] /\ <<>> \in X
    BY <2>1
  <2>3. \A i \in 1 .. n, s \in X : g[<<i, s>>] = s \o seqs[i]
    OBVIOUS
  <2>4. \A s \in X : <<>> \o s = s
    BY ConcatEmptySeq
  <2> HIDE DEF X, g
  <2>5. PICK f \in [0 .. n -> X] : Follows(f, n, <<>>, g)
    BY <2>2, StepByStep
  <2> DEFINE e == [i \in 1 .. n |-> f[i]]
  <2>6. Flattens(e)
    <3>1. ASSUME NEW i \in 1 .. n
          PROVE  e[i] = IF i = 1 THEN seqs[i] ELSE e[i - 1] \o seqs[i]
      <4>1. i - 1 \in 0 .. n /\ f[i - 1] \in X /\ e[i] = f[i] /\ seqs[i] \in X
        BY DEF X
      <4>2. f[i] = f[i - 1] \o seqs[i]
        BY <2>3, <2>5, <4>1 DEF Follows
      <4>3. CASE i = 1
        <5>1. f[0] = <<>> /\ f[i - 1] = f[0]
          BY <2>5, <4>3 DEF Follows
        <5> QED
          BY <2>4, <4>1, <4>2, <4>3, <5>1
      <4>4. CASE i # 1
        <5>1. i - 1 \in 1 .. n /\ e[i - 1] = f[i - 1]
          BY <4>4
        <5> QED
          BY <4>1, <4>2, <4>4, <5>1
      <4> QED
        BY <4>3, <4>4
    <3>2. e = [i \in 1 .. n |-> e[i]]
      OBVIOUS
    <3> HIDE DEF e
    <3> QED
      BY <1>1, <3>1, <3>2
  <2>7. Flattens(all)
    BY <2>6
  <2> HIDE DEF all, e
  <2>8. \A i \in 1 .. n : all[i] = IF i = 1 THEN seqs[i] ELSE all[i - 1] \o seqs[i]
    BY <1>1, <2>7
  <2> DEFINE Good(i) == all[i] \in X /\ \E b : ComesFrom(all[i], b, seqs, Upto(i))
             Bad == {i \in 1 .. n : ~Good(i)}
  <2>9. Good(1)
    <3>1. all[1] = seqs[1] /\ seqs[1] \in X /\ 1 \in 1 .. n /\ <<>> \in Seq(A)
      BY <1>4, <2>8 DEF X
    <3> DEFINE b == [p \in {} |-> 0]
    <3>2. b \in Bijection({}, {})
      <4>1. b \in [{} -> {}]
        OBVIOUS
      <4> HIDE DEF b
      <4> QED
        BY <4>1, Fun_IsBij
    <3> HIDE DEF b
    <3>3. PlacesIn(seqs, 1 .. 1 - 1) = {} /\ DOMAIN <<>> = {}
      BY DEF PlacesIn
    <3>4. ComesFrom(<<>>, b, seqs, PlacesIn(seqs, 1 .. 1 - 1))
      BY <3>2, <3>3 DEF ComesFrom
    <3>5. \E c : ComesFrom(<<>> \o seqs[1], c, seqs, PlacesIn(seqs, 1 .. 1))
      BY <3>1, <3>4, OneMore
    <3>6. <<>> \o seqs[1] = all[1]
      BY <2>4, <3>1
    <3> QED
      BY <3>1, <3>5, <3>6
  <2>10. Bad = {}
    <3> SUFFICES ASSUME Bad # {}
                 PROVE  FALSE
      OBVIOUS
    <3>1. PICK m \in Bad : \A k \in Bad : m <= k
      <4>1. Bad \subseteq Nat
        OBVIOUS
      <4> HIDE DEF Bad
      <4> QED
        BY <4>1, LeastOf
    <3>2. m \in 1 .. n /\ ~Good(m) /\ m # 1
      BY <2>9, <3>1
    <3>3. m - 1 \in 1 .. n /\ m - 1 \notin Bad
      <4>1. m - 1 \in 1 .. n /\ ~(m <= m - 1)
        BY <3>2
      <4> HIDE DEF Bad
      <4> QED
        BY <3>1, <4>1
    <3>4. Good(m - 1)
      BY <3>3
    <3>5. PICK b : ComesFrom(all[m - 1], b, seqs, PlacesIn(seqs, 1 .. m - 1))
      BY <3>4
    <3>6. \E c : ComesFrom(all[m - 1] \o seqs[m], c, seqs, PlacesIn(seqs, 1 .. m))
      <4>1. all[m - 1] \in Seq(A)
        BY <3>4 DEF X
      <4> HIDE DEF Good, Bad
      <4> QED
        BY <3>2, <3>5, <4>1, OneMore
    <3>7. all[m] = all[m - 1] \o seqs[m] /\ all[m] \in X
      <4>1. seqs[m] \in X
        BY <3>2 DEF X
      <4> HIDE DEF Upto
      <4> QED
        BY <2>1, <2>8, <3>2, <3>4, <4>1
    <3> QED
      BY <3>2, <3>6, <3>7
  <2>11. n \in 1 .. n
    BY <1>4
  <2>12. Good(n)
    BY <2>10, <2>11
  <2>13. FlattenSeq(seqs) = all[n]
    BY <1>1, <1>4 DEF FlattenSeq, all
  <2> HIDE DEF Upto
  <2> QED
    BY <1>2, <2>12, <2>13 DEF X
<1> QED
  BY <1>3, <1>4

-----------------------------------------------------------------------------
(* Sorting                                                                 *)

TotalOrder(R, N) ==
  /\ \A i \in N : <<i, i>> \in R
  /\ \A i, j \in N : <<i, j>> \in R \/ <<j, i>> \in R
  /\ \A i, j \in N : <<i, j>> \in R /\ <<j, i>> \in R => i = j
  /\ \A i, j, k \in N : <<i, j>> \in R /\ <<j, k>> \in R => <<i, k>> \in R

(* The element of N that k elements are not behind in the order R.          *)
AtPlace(R, N, k) ==
  CHOOSE j \in N : Cardinality({i \in N : <<i, j>> \in R}) = k

(* The places of the elements of a total order are all places, each once.   *)
LEMMA PlacesInOrder ==
  ASSUME NEW n \in Nat, NEW N, N = 1 .. n, NEW R, TotalOrder(R, N)
  PROVE  \E f \in Bijection(N, N) :
           \A k \in N : f[k] = AtPlace(R, N, k)
<1> DEFINE Upto(j) == {i \in N : <<i, j>> \in R}
           Place(j) == Cardinality(Upto(j))
           place == [j \in N |-> Place(j)]
<1>0. /\ \A i \in N : <<i, i>> \in R
      /\ \A i, j \in N : <<i, j>> \in R \/ <<j, i>> \in R
      /\ \A i, j \in N : <<i, j>> \in R /\ <<j, i>> \in R => i = j
      /\ \A i, j, k \in N : <<i, j>> \in R /\ <<j, k>> \in R => <<i, k>> \in R
  BY Zenon DEF TotalOrder
<1>1. IsFiniteSet(N) /\ Cardinality(N) = n
  BY FS_Interval
<1>2. ASSUME NEW j \in N
      PROVE  IsFiniteSet(Upto(j)) /\ Place(j) \in N
  <2>1. Upto(j) \in SUBSET N
    OBVIOUS
  <2>4. Upto(j) # {}
    BY <1>0
  <2> HIDE DEF Upto
  <2>2. IsFiniteSet(Upto(j)) /\ Place(j) <= n
    BY <1>1, <2>1, FS_Subset
  <2>3. Place(j) \in Nat
    BY <2>2, FS_CardinalityType
  <2>5. Place(j) # 0
    BY <2>2, <2>4, FS_EmptySet
  <2> QED
    BY <2>2, <2>3, <2>5
<1>3. ASSUME NEW j \in N, NEW k \in N, <<j, k>> \in R, Place(j) = Place(k)
      PROVE  j = k
  <2>1. Upto(j) \in SUBSET Upto(k)
    BY <1>0, <1>3
  <2>2. Upto(k) = Upto(j)
    <3> HIDE DEF Upto
    <3> QED
      BY <1>2, <1>3, <2>1, FS_Subset
  <2>3. k \in Upto(k)
    BY <1>0
  <2>4. <<k, j>> \in R
    BY <2>2, <2>3
  <2> QED
    BY <1>0, <1>3, <2>4
<1>4. ASSUME NEW j \in N, NEW k \in N, Place(j) = Place(k)
      PROVE  j = k
  <2> HIDE DEF Place
  <2>1. <<j, k>> \in R \/ <<k, j>> \in R
    BY <1>0
  <2> QED
    BY <1>3, <1>4, <2>1
<1>5. place \in [N -> N] /\ \A j \in N : place[j] = Place(j)
  BY <1>2
<1> HIDE DEF place, Place
<1>6. place \in Injection(N, N)
  BY <1>4, <1>5 DEF Injection, IsInjective
<1>7. place \in Surjection(N, N)
  BY <1>1, <1>6, FS_Injection
<1>8. \A k \in N : \E j \in N : Place(j) = k
  BY <1>5, <1>7 DEF Surjection
<1> DEFINE f == [k \in N |-> CHOOSE j \in N : Place(j) = k]
<1>9. \A k \in N : f[k] \in N /\ Place(f[k]) = k
  BY <1>8
<1>10. \A j \in N : Place(j) \in N /\ f[Place(j)] = j
  BY <1>4, <1>5, <1>9
<1>11. f \in [N -> N]
  BY <1>9
<1>12. f \in Bijection(N, N)
  <2> HIDE DEF f
  <2>1. \A a, b \in N : f[a] = f[b] => a = b
    BY <1>9
  <2>2. \A t \in N : \E s \in N : f[s] = t
    BY <1>10
  <2> QED
    BY <1>11, <2>1, <2>2, Fun_IsBij
<1>13. \A k \in N : f[k] = CHOOSE j \in N : Place(j) = k
  OBVIOUS
<1> HIDE DEF f
<1> QED
  BY <1>12, <1>13, Zenon DEF Place, Upto, AtPlace

(* t has the elements of s, in another order.                               *)
Rearranges(t, s) ==
  /\ Len(t) = Len(s)
  /\ \E f \in Bijection(DOMAIN s, DOMAIN s) : \A k \in DOMAIN s : t[k] = s[f[k]]

OrderedBy(R, s) == <<>> \o [k \in DOMAIN s |-> s[AtPlace(R, DOMAIN s, k)]]

(* Sorting by two keys, the greater first in a and the smaller first in b.  *)
LEMMA Sorted ==
  ASSUME NEW A, NEW s \in Seq(A), NEW R,
         NEW a \in [1 .. Len(s) -> Int], NEW b \in [1 .. Len(s) -> Int],
         \A i, j \in 1 .. Len(s) :
           <<i, j>> \in R
             <=> i = j \/ a[i] > a[j]
                   \/ (a[i] = a[j] /\ (b[i] < b[j] \/ (b[i] = b[j] /\ i < j)))
  PROVE  OrderedBy(R, s) \in Seq(A) /\ Rearranges(OrderedBy(R, s), s)
<1> DEFINE n == Len(s)
           N == DOMAIN s
           Bef(i, j) ==
             i = j \/ a[i] > a[j] \/ (a[i] = a[j] /\ (b[i] < b[j] \/ (b[i] = b[j] /\ i < j)))
<1>1. n \in Nat /\ N = 1 .. n
  OBVIOUS
<1>2. \A i \in N : a[i] \in Int /\ b[i] \in Int
  OBVIOUS
<1> HIDE DEF n, N
<1>3. \A i, j \in N : <<i, j>> \in R <=> Bef(i, j)
  BY <1>1, Zenon DEF n
<1>4. \A i \in N : i \in Int
  BY <1>1
<1>5. \A i, j \in N : <<i, j>> \in R \/ <<j, i>> \in R
  <2> TAKE i, j \in N
  <2>1. /\ a[i] \in Int /\ a[j] \in Int /\ b[i] \in Int /\ b[j] \in Int
        /\ i \in Int /\ j \in Int
    BY <1>2, <1>4
  <2>2. Bef(i, j) \/ Bef(j, i)
    BY <2>1
  <2> QED
    BY <1>3, <2>2, Zenon
<1>6. \A i, j \in N : <<i, j>> \in R /\ <<j, i>> \in R => i = j
  <2> TAKE i, j \in N
  <2>1. /\ a[i] \in Int /\ a[j] \in Int /\ b[i] \in Int /\ b[j] \in Int
        /\ i \in Int /\ j \in Int
    BY <1>2, <1>4
  <2>2. Bef(i, j) /\ Bef(j, i) => i = j
    BY <2>1
  <2> QED
    BY <1>3, <2>2, Zenon
<1>7. \A i, j, k \in N : <<i, j>> \in R /\ <<j, k>> \in R => <<i, k>> \in R
  <2> TAKE i, j, k \in N
  <2>1. /\ a[i] \in Int /\ a[j] \in Int /\ a[k] \in Int
        /\ b[i] \in Int /\ b[j] \in Int /\ b[k] \in Int
        /\ i \in Int /\ j \in Int /\ k \in Int
    BY <1>2, <1>4
  <2>2. Bef(i, j) /\ Bef(j, k) => Bef(i, k)
    BY <2>1
  <2> QED
    BY <1>3, <2>2, Zenon
<1>8. \A i \in N : <<i, i>> \in R
  BY <1>3
<1> HIDE DEF Bef
<1>9. PICK f \in Bijection(N, N) : \A k \in N : f[k] = AtPlace(R, N, k)
  <2>1. TotalOrder(R, N)
    BY <1>5, <1>6, <1>7, <1>8, Zenon DEF TotalOrder
  <2> QED
    BY <1>1, <2>1, PlacesInOrder
<1> DEFINE u == [k \in N |-> s[AtPlace(R, N, k)]]
<1>10. \A k \in N : u[k] = s[f[k]]
  BY <1>9
<1>11. \A k \in N : f[k] \in N
  BY <1>9 DEF Bijection, Injection
<1>12. \A k \in N : u[k] \in A
  <2> HIDE DEF u
  <2> QED
    BY <1>1, <1>10, <1>11 DEF n
<1>13. u \in Seq(A) /\ Len(u) = n
  <2>1. u \in [1 .. n -> A]
    BY <1>1, <1>12
  <2> HIDE DEF u
  <2> QED
    BY <1>1, <2>1
<1> HIDE DEF u
<1>14. <<>> \o u = u
  BY <1>13, ConcatEmptySeq
<1>15. Rearranges(u, s)
  BY <1>1, <1>9, <1>10, <1>13 DEF Rearranges, n, N
<1> QED
  BY <1>13, <1>14, <1>15, Zenon DEF OrderedBy, u, N

(* Entries by their score.                                                  *)
LEMMA SortsByScore ==
  ASSUME NEW A, NEW s \in Seq(A),
         \A x \in A : x.score \in Int
  PROVE  StableSort(LessScore, s) \in Seq(A) /\ Rearranges(StableSort(LessScore, s), s)
<1> DEFINE N == DOMAIN s
           Bef(i, j) == i = j \/ (LessScore(s[i], s[j])
                                    \/ (~(LessScore(s[j], s[i])) /\ i < j))
           R == {p \in N \X N : Bef(p[1], p[2])}
           a == [i \in 1 .. Len(s) |-> 0]
           b == [i \in 1 .. Len(s) |-> s[i].score]
           Place(k) == CHOOSE j \in N : Cardinality({i \in N : <<i, j>> \in R}) = k
           Seat(k) == CHOOSE j \in N : Cardinality({i \in N : Bef(i, j)}) = k
<1>1. N = 1 .. Len(s) /\ \A i \in N : s[i] \in A
  OBVIOUS
<1>2. \A i \in N : s[i].score \in Int
  BY <1>1
<1>3. a \in [1 .. Len(s) -> Int] /\ b \in [1 .. Len(s) -> Int]
  BY <1>1, <1>2
<1>4. \A i, j \in N : <<i, j>> \in R <=> Bef(i, j)
  OBVIOUS
<1> HIDE DEF R
<1>5. \A i, j \in 1 .. Len(s) :
        <<i, j>> \in R
          <=> i = j \/ a[i] > a[j]
                \/ (a[i] = a[j] /\ (b[i] < b[j] \/ (b[i] = b[j] /\ i < j)))
  <2> TAKE i, j \in 1 .. Len(s)
  <2>1. Bef(i, j) <=> i = j \/ a[i] > a[j]
                \/ (a[i] = a[j] /\ (b[i] < b[j] \/ (b[i] = b[j] /\ i < j)))
    BY <1>1, <1>2 DEF LessScore
  <2> HIDE DEF Bef, a, b
  <2> QED
    BY <1>1, <1>4, <2>1, Zenon
<1> HIDE DEF a, b
<1>6. OrderedBy(R, s) \in Seq(A) /\ Rearranges(OrderedBy(R, s), s)
  BY <1>3, <1>5, Sorted
<1>7. \A k \in N : Place(k) = Seat(k)
  <2> HIDE DEF Bef
  <2>1. \A j \in N : {i \in N : <<i, j>> \in R} = {i \in N : Bef(i, j)}
    BY <1>4
  <2> TAKE k \in N
  <2>2. \A j \in N : (Cardinality({i \in N : <<i, j>> \in R}) = k)
                       <=> (Cardinality({i \in N : Bef(i, j)}) = k)
    BY <2>1
  <2> QED
    BY <2>2, Zenon
<1>8. [k \in N |-> s[Place(k)]] = [k \in N |-> s[Seat(k)]]
  <2> HIDE DEF Place, Seat
  <2> QED
    BY <1>7
<1>9. OrderedBy(R, s) = <<>> \o [k \in N |-> s[Place(k)]]
  BY Zenon DEF OrderedBy, AtPlace
<1>10. StableSort(LessScore, s) = <<>> \o [k \in N |-> s[Seat(k)]]
  BY Zenon DEF StableSort
<1> HIDE DEF Place, Seat
<1> QED
  BY <1>6, <1>8, <1>9, <1>10

(* Subsets for merge_parts.                                                 *)
LEMMA SortsMoreFirst ==
  ASSUME NEW A, NEW s \in Seq(A),
         \A x \in A : x.sum \in Int /\ Len(x.entries) \in Nat
  PROVE  StableSort(MoreEntriesFirst, s) \in Seq(A) /\ Rearranges(StableSort(MoreEntriesFirst, s), s)
<1> DEFINE N == DOMAIN s
           Bef(i, j) == i = j \/ (MoreEntriesFirst(s[i], s[j])
                                    \/ (~(MoreEntriesFirst(s[j], s[i])) /\ i < j))
           R == {p \in N \X N : Bef(p[1], p[2])}
           a == [i \in 1 .. Len(s) |-> Len(s[i].entries)]
           b == [i \in 1 .. Len(s) |-> s[i].sum]
           Place(k) == CHOOSE j \in N : Cardinality({i \in N : <<i, j>> \in R}) = k
           Seat(k) == CHOOSE j \in N : Cardinality({i \in N : Bef(i, j)}) = k
<1>1. N = 1 .. Len(s) /\ \A i \in N : s[i] \in A
  OBVIOUS
<1>2. \A i \in N : s[i].sum \in Int /\ Len(s[i].entries) \in Nat
  BY <1>1
<1>3. a \in [1 .. Len(s) -> Int] /\ b \in [1 .. Len(s) -> Int]
  BY <1>1, <1>2
<1>4. \A i, j \in N : <<i, j>> \in R <=> Bef(i, j)
  OBVIOUS
<1> HIDE DEF R
<1>5. \A i, j \in 1 .. Len(s) :
        <<i, j>> \in R
          <=> i = j \/ a[i] > a[j]
                \/ (a[i] = a[j] /\ (b[i] < b[j] \/ (b[i] = b[j] /\ i < j)))
  <2> TAKE i, j \in 1 .. Len(s)
  <2>1. Bef(i, j) <=> i = j \/ a[i] > a[j]
                \/ (a[i] = a[j] /\ (b[i] < b[j] \/ (b[i] = b[j] /\ i < j)))
    BY <1>1, <1>2 DEF MoreEntriesFirst
  <2> HIDE DEF Bef, a, b
  <2> QED
    BY <1>1, <1>4, <2>1, Zenon
<1> HIDE DEF a, b
<1>6. OrderedBy(R, s) \in Seq(A) /\ Rearranges(OrderedBy(R, s), s)
  BY <1>3, <1>5, Sorted
<1>7. \A k \in N : Place(k) = Seat(k)
  <2> HIDE DEF Bef
  <2>1. \A j \in N : {i \in N : <<i, j>> \in R} = {i \in N : Bef(i, j)}
    BY <1>4
  <2> TAKE k \in N
  <2>2. \A j \in N : (Cardinality({i \in N : <<i, j>> \in R}) = k)
                       <=> (Cardinality({i \in N : Bef(i, j)}) = k)
    BY <2>1
  <2> QED
    BY <2>2, Zenon
<1>8. [k \in N |-> s[Place(k)]] = [k \in N |-> s[Seat(k)]]
  <2> HIDE DEF Place, Seat
  <2> QED
    BY <1>7
<1>9. OrderedBy(R, s) = <<>> \o [k \in N |-> s[Place(k)]]
  BY Zenon DEF OrderedBy, AtPlace
<1>10. StableSort(MoreEntriesFirst, s) = <<>> \o [k \in N |-> s[Seat(k)]]
  BY Zenon DEF StableSort
<1> HIDE DEF Place, Seat
<1> QED
  BY <1>6, <1>8, <1>9, <1>10

(* Subsets for the result.                                                  *)
LEMMA SortsFewerFirst ==
  ASSUME NEW A, NEW s \in Seq(A),
         \A x \in A : x.sum \in Int /\ Len(x.entries) \in Nat
  PROVE  StableSort(FewerEntriesFirst, s) \in Seq(A) /\ Rearranges(StableSort(FewerEntriesFirst, s), s)
<1> DEFINE N == DOMAIN s
           Bef(i, j) == i = j \/ (FewerEntriesFirst(s[i], s[j])
                                    \/ (~(FewerEntriesFirst(s[j], s[i])) /\ i < j))
           R == {p \in N \X N : Bef(p[1], p[2])}
           a == [i \in 1 .. Len(s) |-> -Len(s[i].entries)]
           b == [i \in 1 .. Len(s) |-> s[i].sum]
           Place(k) == CHOOSE j \in N : Cardinality({i \in N : <<i, j>> \in R}) = k
           Seat(k) == CHOOSE j \in N : Cardinality({i \in N : Bef(i, j)}) = k
<1>1. N = 1 .. Len(s) /\ \A i \in N : s[i] \in A
  OBVIOUS
<1>2. \A i \in N : s[i].sum \in Int /\ Len(s[i].entries) \in Nat
  BY <1>1
<1>3. a \in [1 .. Len(s) -> Int] /\ b \in [1 .. Len(s) -> Int]
  BY <1>1, <1>2
<1>4. \A i, j \in N : <<i, j>> \in R <=> Bef(i, j)
  OBVIOUS
<1> HIDE DEF R
<1>5. \A i, j \in 1 .. Len(s) :
        <<i, j>> \in R
          <=> i = j \/ a[i] > a[j]
                \/ (a[i] = a[j] /\ (b[i] < b[j] \/ (b[i] = b[j] /\ i < j)))
  <2> TAKE i, j \in 1 .. Len(s)
  <2>1. Bef(i, j) <=> i = j \/ a[i] > a[j]
                \/ (a[i] = a[j] /\ (b[i] < b[j] \/ (b[i] = b[j] /\ i < j)))
    BY <1>1, <1>2 DEF FewerEntriesFirst
  <2> HIDE DEF Bef, a, b
  <2> QED
    BY <1>1, <1>4, <2>1, Zenon
<1> HIDE DEF a, b
<1>6. OrderedBy(R, s) \in Seq(A) /\ Rearranges(OrderedBy(R, s), s)
  BY <1>3, <1>5, Sorted
<1>7. \A k \in N : Place(k) = Seat(k)
  <2> HIDE DEF Bef
  <2>1. \A j \in N : {i \in N : <<i, j>> \in R} = {i \in N : Bef(i, j)}
    BY <1>4
  <2> TAKE k \in N
  <2>2. \A j \in N : (Cardinality({i \in N : <<i, j>> \in R}) = k)
                       <=> (Cardinality({i \in N : Bef(i, j)}) = k)
    BY <2>1
  <2> QED
    BY <2>2, Zenon
<1>8. [k \in N |-> s[Place(k)]] = [k \in N |-> s[Seat(k)]]
  <2> HIDE DEF Place, Seat
  <2> QED
    BY <1>7
<1>9. OrderedBy(R, s) = <<>> \o [k \in N |-> s[Place(k)]]
  BY Zenon DEF OrderedBy, AtPlace
<1>10. StableSort(FewerEntriesFirst, s) = <<>> \o [k \in N |-> s[Seat(k)]]
  BY Zenon DEF StableSort
<1> HIDE DEF Place, Seat
<1> QED
  BY <1>6, <1>8, <1>9, <1>10

-----------------------------------------------------------------------------
(* Rearranged sequences                                                    *)

LEMMA RearrangedSet ==
  ASSUME NEW A, NEW s \in Seq(A), NEW t \in Seq(A), Rearranges(t, s)
  PROVE  /\ ToSet(t) = ToSet(s)
         /\ IsInjective(s) => IsInjective(t)
<1>1. PICK f \in Bijection(DOMAIN s, DOMAIN s) : \A k \in DOMAIN s : t[k] = s[f[k]]
  BY DEF Rearranges
<1>2. DOMAIN t = DOMAIN s
  BY DEF Rearranges
<1>3. /\ \A k \in DOMAIN s : f[k] \in DOMAIN s
      /\ \A k, l \in DOMAIN s : f[k] = f[l] => k = l
      /\ \A l \in DOMAIN s : \E k \in DOMAIN s : f[k] = l
  BY DEF Bijection, Injection, Surjection, IsInjective
<1>4. ToSet(t) = ToSet(s)
  <2>1. ASSUME NEW x \in ToSet(t)
        PROVE  x \in ToSet(s)
    <3>1. PICK k \in DOMAIN s : x = t[k]
      BY <1>2 DEF ToSet
    <3>2. x = s[f[k]] /\ f[k] \in DOMAIN s
      BY <1>1, <1>3, <3>1
    <3> QED
      BY <3>2 DEF ToSet
  <2>2. ASSUME NEW x \in ToSet(s)
        PROVE  x \in ToSet(t)
    <3>1. PICK l \in DOMAIN s : x = s[l]
      BY DEF ToSet
    <3>2. PICK k \in DOMAIN s : f[k] = l
      BY <1>3
    <3>3. x = t[k] /\ k \in DOMAIN t
      BY <1>1, <1>2, <3>1, <3>2
    <3> QED
      BY <3>3 DEF ToSet
  <2> QED
    BY <2>1, <2>2
<1>5. ASSUME IsInjective(s)
      PROVE  IsInjective(t)
  <2> SUFFICES ASSUME NEW k \in DOMAIN s, NEW l \in DOMAIN s, t[k] = t[l]
               PROVE  k = l
    BY <1>2 DEF IsInjective
  <2>1. s[f[k]] = s[f[l]] /\ f[k] \in DOMAIN s /\ f[l] \in DOMAIN s
    BY <1>1, <1>3
  <2>2. f[k] = f[l]
    BY <1>5, <2>1 DEF IsInjective
  <2> QED
    BY <1>3, <2>2
<1> QED
  BY <1>4, <1>5

LEMMA JoinedSet ==
  ASSUME NEW A, NEW s \in Seq(A), NEW t \in Seq(A)
  PROVE  /\ s \o t \in Seq(A)
         /\ ToSet(s \o t) = ToSet(s) \union ToSet(t)
         /\ IsInjective(s) /\ IsInjective(t) /\ ToSet(s) \cap ToSet(t) = {}
              => IsInjective(s \o t)
<1> DEFINE u == s \o t
<1>1. /\ Len(s) \in Nat /\ Len(t) \in Nat /\ DOMAIN s = 1 .. Len(s) /\ DOMAIN t = 1 .. Len(t)
  OBVIOUS
<1>2. /\ u \in Seq(A) /\ DOMAIN u = 1 .. Len(s) + Len(t)
      /\ \A k \in 1 .. Len(s) + Len(t) : u[k] = IF k <= Len(s) THEN s[k] ELSE t[k - Len(s)]
  BY <1>1, ConcatProperties
<1> HIDE DEF u
<1>3. ASSUME NEW k \in 1 .. Len(s) + Len(t)
      PROVE  \/ k \in DOMAIN s /\ u[k] = s[k] /\ s[k] \in ToSet(s)
             \/ k \notin DOMAIN s /\ k - Len(s) \in DOMAIN t /\ u[k] = t[k - Len(s)]
                  /\ t[k - Len(s)] \in ToSet(t)
  <2>1. CASE k <= Len(s)
    BY <1>1, <1>2, <2>1 DEF ToSet
  <2>2. CASE ~(k <= Len(s))
    <3>1. k - Len(s) \in DOMAIN t /\ k \notin DOMAIN s
      BY <1>1, <2>2
    <3> QED
      BY <1>2, <2>2, <3>1 DEF ToSet
  <2> QED
    BY <2>1, <2>2
<1>4. ASSUME NEW k \in DOMAIN s
      PROVE  k \in 1 .. Len(s) + Len(t) /\ u[k] = s[k]
  BY <1>1, <1>2
<1>5. ASSUME NEW k \in DOMAIN t
      PROVE  k + Len(s) \in 1 .. Len(s) + Len(t) /\ u[k + Len(s)] = t[k]
  <2>1. /\ k + Len(s) \in 1 .. Len(s) + Len(t) /\ ~(k + Len(s) <= Len(s))
        /\ (k + Len(s)) - Len(s) = k
    BY <1>1
  <2> QED
    BY <1>2, <2>1
<1>6. ToSet(u) = ToSet(s) \union ToSet(t)
  <2>1. ASSUME NEW x \in ToSet(u)
        PROVE  x \in ToSet(s) \union ToSet(t)
    <3>1. PICK k \in 1 .. Len(s) + Len(t) : x = u[k]
      BY <1>2 DEF ToSet
    <3> QED
      BY <1>3, <3>1
  <2>2. ASSUME NEW x \in ToSet(s)
        PROVE  x \in ToSet(u)
    <3>1. PICK k \in DOMAIN s : x = s[k]
      BY DEF ToSet
    <3> QED
      BY <1>2, <1>4, <3>1 DEF ToSet
  <2>3. ASSUME NEW x \in ToSet(t)
        PROVE  x \in ToSet(u)
    <3>1. PICK k \in DOMAIN t : x = t[k]
      BY DEF ToSet
    <3> QED
      BY <1>2, <1>5, <3>1 DEF ToSet
  <2> QED
    BY <2>1, <2>2, <2>3
<1>7. ASSUME IsInjective(s), IsInjective(t), ToSet(s) \cap ToSet(t) = {}
      PROVE  IsInjective(u)
  <2> SUFFICES ASSUME NEW k \in 1 .. Len(s) + Len(t), NEW l \in 1 .. Len(s) + Len(t),
                      u[k] = u[l]
               PROVE  k = l
    BY <1>2 DEF IsInjective
  <2>1. CASE k \in DOMAIN s /\ l \in DOMAIN s
    BY <1>3, <1>7, <2>1 DEF IsInjective
  <2>2. CASE k \notin DOMAIN s /\ l \notin DOMAIN s
    <3>1. k - Len(s) = l - Len(s)
      BY <1>3, <1>7, <2>2 DEF IsInjective
    <3> QED
      BY <1>1, <3>1
  <2>3. CASE k \in DOMAIN s /\ l \notin DOMAIN s
    BY <1>3, <1>7, <2>3
  <2>4. CASE k \notin DOMAIN s /\ l \in DOMAIN s
    BY <1>3, <1>7, <2>4
  <2> QED
    BY <2>1, <2>2, <2>3, <2>4
<1> QED
  BY <1>2, <1>6, <1>7 DEF u

(* Where an element is inserted makes no difference to what is there.       *)
LEMMA InsertedIs ==
  ASSUME NEW A, NEW s \in Seq(A), NEW x \in A, NEW i \in 1 .. Len(s)
  PROVE  InsertAt(s, i, x) \in Seq(A) /\ Rearranges(InsertAt(s, i, x), Append(s, x))
<1> DEFINE n == Len(s)
           left == SubSeq(s, 1, i - 1)
           right == SubSeq(s, i, n)
           t == (left \o <<x>>) \o right
           a == Append(s, x)
<1>1. n \in Nat /\ DOMAIN s = 1 .. n /\ i \in 1 .. n /\ i \in Int
  OBVIOUS
<1>2. /\ left \in Seq(A) /\ Len(left) = i - 1
      /\ \A k \in 1 .. i - 1 : left[k] = s[k]
  BY <1>1, SubSeqProperties
<1>3. /\ right \in Seq(A) /\ Len(right) = n - i + 1
      /\ \A k \in 1 .. n - i + 1 : right[k] = s[i + k - 1]
  BY <1>1, SubSeqProperties
<1>4. a \in Seq(A) /\ Len(a) = n + 1 /\ a[n + 1] = x /\ \A k \in 1 .. n : a[k] = s[k]
  BY <1>1, AppendProperties
<1> HIDE DEF left, right, a, n
<1>5. /\ left \o <<x>> \in Seq(A) /\ Len(left \o <<x>>) = i
      /\ \A k \in 1 .. i : (left \o <<x>>)[k] = IF k < i THEN s[k] ELSE x
  <2>1. <<x>> \in Seq(A) /\ Len(<<x>>) = 1 /\ <<x>>[1] = x
    OBVIOUS
  <2>2. /\ left \o <<x>> \in Seq(A) /\ Len(left \o <<x>>) = i - 1 + 1
        /\ \A k \in 1 .. i - 1 + 1 :
             (left \o <<x>>)[k] = IF k <= i - 1 THEN left[k] ELSE <<x>>[k - (i - 1)]
    BY <1>2, <2>1, ConcatProperties
  <2>3. ASSUME NEW k \in 1 .. i
        PROVE  (left \o <<x>>)[k] = IF k < i THEN s[k] ELSE x
    <3>1. k \in 1 .. i - 1 + 1
      BY <1>1
    <3>2. CASE k < i
      BY <1>1, <1>2, <2>2, <3>1, <3>2
    <3>3. CASE ~(k < i)
      <4>1. k - (i - 1) = 1 /\ ~(k <= i - 1)
        BY <1>1, <3>3
      <4> QED
        BY <2>1, <2>2, <3>1, <3>3, <4>1
    <3> QED
      BY <3>2, <3>3
  <2>4. i - 1 + 1 = i
    BY <1>1
  <2> QED
    BY <2>2, <2>3, <2>4
<1>6. /\ t \in Seq(A) /\ Len(t) = n + 1
      /\ \A k \in 1 .. n + 1 :
           t[k] = IF k < i THEN s[k] ELSE IF k = i THEN x ELSE s[k - 1]
  <2> DEFINE l == left \o <<x>>
  <2>1. l \in Seq(A) /\ Len(l) = i /\ \A k \in 1 .. i : l[k] = IF k < i THEN s[k] ELSE x
    BY <1>5
  <2> HIDE DEF l
  <2>2. /\ l \o right \in Seq(A) /\ Len(l \o right) = i + (n - i + 1)
        /\ \A k \in 1 .. i + (n - i + 1) :
             (l \o right)[k] = IF k <= i THEN l[k] ELSE right[k - i]
    <3>1. l \o right \in Seq(A) /\ Len(l \o right) = Len(l) + Len(right)
      BY <1>3, <2>1, ConcatProperties
    <3>2. \A k \in 1 .. Len(l) + Len(right) :
             (l \o right)[k] = IF k <= Len(l) THEN l[k] ELSE right[k - Len(l)]
      BY <1>3, <2>1, ConcatProperties
    <3> QED
      BY <1>3, <2>1, <3>1, <3>2
  <2>3. i + (n - i + 1) = n + 1
    BY <1>1
  <2>4. ASSUME NEW k \in 1 .. n + 1
        PROVE  (l \o right)[k] = IF k < i THEN s[k] ELSE IF k = i THEN x ELSE s[k - 1]
    <3>1. CASE k <= i
      BY <1>1, <2>1, <2>2, <2>3, <3>1
    <3>2. CASE ~(k <= i)
      <4>1. k - i \in 1 .. n - i + 1 /\ i + (k - i) - 1 = k - 1 /\ ~(k < i) /\ k # i
        BY <1>1, <3>2
      <4>2. right[k - i] = s[k - 1]
        BY <1>3, <4>1
      <4> QED
        BY <2>2, <2>3, <3>2, <4>1, <4>2
    <3> QED
      BY <3>1, <3>2
  <2> QED
    BY <2>2, <2>3, <2>4 DEF l
<1> DEFINE f == [k \in 1 .. n + 1 |-> IF k < i THEN k ELSE IF k = i THEN n + 1 ELSE k - 1]
<1> HIDE DEF t
<1>7. \A k \in 1 .. n + 1 :
        /\ f[k] \in 1 .. n + 1
        /\ f[k] = IF k < i THEN k ELSE IF k = i THEN n + 1 ELSE k - 1
  BY <1>1
<1>8. f \in [1 .. n + 1 -> 1 .. n + 1]
  BY <1>1
<1> HIDE DEF f
<1>9. \A k, l \in 1 .. n + 1 : f[k] = f[l] => k = l
  BY <1>1, <1>7
<1>10. ASSUME NEW l \in 1 .. n + 1
       PROVE  \E k \in 1 .. n + 1 : f[k] = l
  <2>1. CASE l < i
    BY <1>1, <1>7, <2>1
  <2>2. CASE l = n + 1
    BY <1>1, <1>7, <2>2
  <2>3. CASE ~(l < i) /\ l # n + 1
    <3>1. l + 1 \in 1 .. n + 1 /\ ~(l + 1 < i) /\ l + 1 # i /\ (l + 1) - 1 = l
      BY <1>1, <2>3
    <3> QED
      BY <1>7, <3>1
  <2> QED
    BY <2>1, <2>2, <2>3
<1>11. f \in Bijection(1 .. n + 1, 1 .. n + 1)
  BY <1>8, <1>9, <1>10, Fun_IsBij
<1>12. ASSUME NEW k \in 1 .. n + 1
       PROVE  t[k] = a[f[k]]
  <2>1. CASE k < i
    <3>1. k \in 1 .. n /\ f[k] = k
      BY <1>1, <1>7, <2>1
    <3> QED
      BY <1>4, <1>6, <2>1, <3>1
  <2>2. CASE k = i
    <3>1. ~(k < i) /\ f[k] = n + 1
      BY <1>1, <1>7, <2>2
    <3> QED
      BY <1>4, <1>6, <2>2, <3>1
  <2>3. CASE ~(k < i) /\ k # i
    <3>1. k - 1 \in 1 .. n /\ f[k] = k - 1
      BY <1>1, <1>7, <2>3
    <3> QED
      BY <1>4, <1>6, <2>3, <3>1
  <2> QED
    BY <2>1, <2>2, <2>3
<1>13. Rearranges(t, a)
  <2>1. DOMAIN a = 1 .. n + 1
    BY <1>4
  <2> QED
    BY <1>4, <1>6, <1>11, <1>12, <2>1 DEF Rearranges
<1>14. InsertAt(s, i, x) = t
  BY DEF InsertAt, t, left, right, n
<1> QED
  BY <1>6, <1>13, <1>14 DEF a

-----------------------------------------------------------------------------
(* Partitionings                                                           *)

ScoresOf(E) == [e \in E |-> e.score]

(* Subsets of entries whose sum is that of their scores.                    *)
SubsetsOf(E) ==
  {s \in [sum : Int, entries : Seq(E)] : s.sum = Total(ScoresOf(E), ToSet(s.entries))}

(* The entries in the subsets of p. *)
Holds(p) == UNION {ToSet(p[k].entries) : k \in DOMAIN p}

(* No entry stands in p twice. *)
Apart(p) ==
  /\ \A k \in DOMAIN p : IsInjective(p[k].entries)
  /\ \A k, l \in DOMAIN p : k # l => ToSet(p[k].entries) \cap ToSet(p[l].entries) = {}

Singles(p) == \A k \in DOMAIN p : Len(p[k].entries) = 1

LEMMA RearrangedParts ==
  ASSUME NEW E, NEW p \in Seq(SubsetsOf(E)), NEW q \in Seq(SubsetsOf(E)),
         Rearranges(q, p), Apart(p)
  PROVE  /\ Len(q) = Len(p) /\ Apart(q) /\ Holds(q) = Holds(p)
         /\ Singles(p) => Singles(q)
<1>1. PICK f \in Bijection(DOMAIN p, DOMAIN p) : \A k \in DOMAIN p : q[k] = p[f[k]]
  BY DEF Rearranges
<1>2. DOMAIN q = DOMAIN p /\ Len(q) = Len(p)
  BY DEF Rearranges
<1>3. /\ \A k \in DOMAIN p : f[k] \in DOMAIN p
      /\ \A k, l \in DOMAIN p : f[k] = f[l] => k = l
      /\ \A l \in DOMAIN p : \E k \in DOMAIN p : f[k] = l
  BY DEF Bijection, Injection, Surjection, IsInjective
<1>4. Apart(q)
  <2>1. ASSUME NEW k \in DOMAIN q
        PROVE  IsInjective(q[k].entries)
    BY <1>1, <1>2, <1>3 DEF Apart
  <2>2. ASSUME NEW k \in DOMAIN q, NEW l \in DOMAIN q, k # l
        PROVE  ToSet(q[k].entries) \cap ToSet(q[l].entries) = {}
    <3>1. f[k] \in DOMAIN p /\ f[l] \in DOMAIN p /\ f[k] # f[l]
      BY <1>2, <1>3, <2>2
    <3>2. q[k] = p[f[k]] /\ q[l] = p[f[l]]
      BY <1>1, <1>2
    <3>3. ToSet(p[f[k]].entries) \cap ToSet(p[f[l]].entries) = {}
      BY <3>1 DEF Apart
    <3> QED
      BY <3>2, <3>3
  <2> QED
    BY <2>1, <2>2 DEF Apart
<1>5. Holds(q) = Holds(p)
  <2>1. ASSUME NEW x \in Holds(q)
        PROVE  x \in Holds(p)
    <3>1. PICK k \in DOMAIN p : x \in ToSet(q[k].entries)
      BY <1>2 DEF Holds
    <3>2. q[k] = p[f[k]] /\ f[k] \in DOMAIN p
      BY <1>1, <1>3
    <3> QED
      BY <3>1, <3>2 DEF Holds
  <2>2. ASSUME NEW x \in Holds(p)
        PROVE  x \in Holds(q)
    <3>1. PICK l \in DOMAIN p : x \in ToSet(p[l].entries)
      BY DEF Holds
    <3>2. PICK k \in DOMAIN p : f[k] = l
      BY <1>3
    <3>3. q[k] = p[l] /\ k \in DOMAIN q
      BY <1>1, <1>2, <3>2
    <3> QED
      BY <3>1, <3>3 DEF Holds
  <2> QED
    BY <2>1, <2>2
<1>6. ASSUME Singles(p)
      PROVE  Singles(q)
  BY <1>1, <1>2, <1>3, <1>6 DEF Singles
<1> QED
  BY <1>2, <1>4, <1>5, <1>6

LEMMA FinitelyMany ==
  ASSUME NEW A, NEW s \in Seq(A)
  PROVE  IsFiniteSet(ToSet(s)) /\ ToSet(s) \subseteq A
<1>1. Len(s) \in Nat /\ DOMAIN s = 1 .. Len(s) /\ s \in [1 .. Len(s) -> A]
  OBVIOUS
<1>2. s \in Surjection(1 .. Len(s), ToSet(s))
  BY <1>1 DEF Surjection, ToSet
<1>3. IsFiniteSet(1 .. Len(s))
  BY <1>1, FS_Interval
<1> QED
  BY <1>1, <1>2, <1>3, FS_Surjection DEF ToSet

(* A subset with one entry has its score for a sum.                         *)
LEMMA SingleSubset ==
  ASSUME NEW E, \A e \in E : e.score \in Int, NEW e \in E
  PROVE  [sum |-> e.score, entries |-> <<e>>] \in SubsetsOf(E)
<1> DEFINE f == ScoresOf(E)
           single == [sum |-> e.score, entries |-> <<e>>]
<1>1. f[e] = e.score
  BY DEF ScoresOf
<1>2. ToSet(<<e>>) = {e}
  BY DEF ToSet
<1> HIDE DEF f
<1>3. IsFiniteSet({e}) /\ IsFiniteSet({}) /\ {e} \ {e} = {} /\ f[e] \in Int
  BY <1>1, FS_EmptySet, FS_Singleton
<1>4. Total(f, {}) = 0
  BY <1>3, TotalSteps
<1>5. Total(f, {e}) = f[e] + Total(f, {})
  <2>1. e \in {e} /\ \A x \in {e} : f[x] \in Int
    BY <1>3
  <2>2. Total(f, {e}) = f[e] + Total(f, {e} \ {e})
    BY <1>3, <2>1, TotalWithout
  <2> QED
    BY <1>3, <2>2
<1>6. single \in [sum : Int, entries : Seq(E)] /\ single.sum = e.score /\ single.entries = <<e>>
  OBVIOUS
<1> HIDE DEF single
<1>7. single.sum = Total(f, ToSet(single.entries))
  <2>1. f[e] + 0 = f[e]
    BY <1>3
  <2>2. Total(f, {e}) = f[e]
    BY <1>4, <1>5, <2>1
  <2>3. ToSet(single.entries) = {e} /\ single.sum = f[e]
    BY <1>1, <1>2, <1>6
  <2> QED
    BY <2>2, <2>3
<1> QED
  BY <1>6, <1>7 DEF SubsetsOf, f, single

(* Two subsets merged have the scores of both for a sum.                    *)
LEMMA MergedSubset ==
  ASSUME NEW E, \A e \in E : e.score \in Int,
         NEW s \in SubsetsOf(E), NEW t \in SubsetsOf(E),
         IsInjective(s.entries), IsInjective(t.entries),
         ToSet(s.entries) \cap ToSet(t.entries) = {}
  PROVE  /\ MergeSubsets(s, t) \in SubsetsOf(E)
         /\ IsInjective(MergeSubsets(s, t).entries)
         /\ ToSet(MergeSubsets(s, t).entries) = ToSet(s.entries) \union ToSet(t.entries)
<1> DEFINE joined == s.entries \o t.entries
           sorted == StableSort(LessScore, joined)
<1>1. s.entries \in Seq(E) /\ t.entries \in Seq(E) /\ s.sum + t.sum \in Int
  BY DEF SubsetsOf
<1>2. /\ joined \in Seq(E) /\ IsInjective(joined)
      /\ ToSet(joined) = ToSet(s.entries) \union ToSet(t.entries)
  BY <1>1, JoinedSet
<1> HIDE DEF joined
<1>3. sorted \in Seq(E) /\ Rearranges(sorted, joined)
  BY <1>2, SortsByScore
<1> HIDE DEF sorted
<1>4. IsInjective(sorted) /\ ToSet(sorted) = ToSet(joined)
  BY <1>2, <1>3, RearrangedSet
<1>5. MergeSubsets(s, t) = [sum |-> s.sum + t.sum, entries |-> sorted]
  BY Zenon DEF MergeSubsets, sorted, joined
<1>6. s.sum + t.sum = Total(ScoresOf(E), ToSet(sorted))
  <2> DEFINE f == ScoresOf(E)
             a == ToSet(s.entries)
             b == ToSet(t.entries)
  <2>1. IsFiniteSet(a) /\ a \subseteq E /\ IsFiniteSet(b) /\ b \subseteq E
    BY <1>1, FinitelyMany
  <2>2. s.sum = Total(f, a) /\ t.sum = Total(f, b)
    BY DEF SubsetsOf
  <2>3. \A x \in a \union b : f[x] \in Int
    BY <2>1 DEF ScoresOf
  <2>4. a \cap b = {} /\ ToSet(sorted) = a \union b
    BY <1>2, <1>4
  <2> HIDE DEF f, a, b
  <2>5. Total(f, a \union b) = Total(f, a) + Total(f, b)
    BY <2>1, <2>3, <2>4, TotalOfBoth
  <2> QED
    BY <2>2, <2>4, <2>5 DEF f
<1>7. MergeSubsets(s, t) \in SubsetsOf(E) /\ MergeSubsets(s, t).entries = sorted
  BY <1>1, <1>3, <1>5, <1>6 DEF SubsetsOf
<1> QED
  BY <1>2, <1>4, <1>7

LEMMA MinOfTwo ==
  ASSUME NEW a \in Int, NEW b \in Int
  PROVE  Min({a, b}) = IF a <= b THEN a ELSE b
<1> DEFINE m == IF a <= b THEN a ELSE b
<1>1. m \in {a, b} /\ \A y \in {a, b} : m <= y
  OBVIOUS
<1>2. ASSUME NEW x \in {a, b}, \A y \in {a, b} : x <= y
      PROVE  x = m
  BY <1>2
<1> HIDE DEF m
<1>3. (CHOOSE x \in {a, b} : \A y \in {a, b} : x <= y) = m
  BY <1>1, <1>2
<1> QED
  BY <1>3 DEF Min, m

(* merge_parts keeps the entries of both, and makes as many subsets as it   *)
(* may.                                                                     *)
LEMMA MergedParts ==
  ASSUME NEW E, \A e \in E : e.score \in Int, NEW n \in Nat,
         NEW p \in Seq(SubsetsOf(E)), NEW q \in Seq(SubsetsOf(E)),
         Len(p) <= n, Len(q) <= n, Apart(p), Apart(q), Holds(p) \cap Holds(q) = {}
  PROVE  /\ MergeParts(n, p, q) \in Seq(SubsetsOf(E))
         /\ Len(MergeParts(n, p, q)) = IF n <= Len(p) + Len(q) THEN n ELSE Len(p) + Len(q)
         /\ Apart(MergeParts(n, p, q))
         /\ Holds(MergeParts(n, p, q)) = Holds(p) \union Holds(q)
         /\ Singles(p) /\ Singles(q) /\ Len(p) + Len(q) < n => Singles(MergeParts(n, p, q))
<1> DEFINE S == SubsetsOf(E)
           own == StableSort(MoreEntriesFirst, p)
           other == StableSort(MoreEntriesFirst, q)
           end == Min({n, Len(own) + Len(other)})
           start == end - Len(other)
           Part(i) == IF i <= start THEN own[i]
                      ELSE IF i <= Len(own) THEN MergeSubsets(own[i], other[end - i + 1])
                      ELSE other[end - i + 1]
           r == [i \in 1 .. end |-> Part(i)]
<1>1. \A x \in S : x.sum \in Int /\ Len(x.entries) \in Nat
  BY DEF SubsetsOf
<1>2. /\ own \in Seq(S) /\ Rearranges(own, p)
      /\ other \in Seq(S) /\ Rearranges(other, q)
  <2> HIDE DEF S
  <2>1. p \in Seq(S) /\ q \in Seq(S)
    BY DEF S
  <2> QED
    BY <1>1, <2>1, SortsMoreFirst
<1>3. MergeParts(n, p, q) = r
  BY Zenon DEF MergeParts
<1> HIDE DEF own, other
<1>4. /\ Len(own) = Len(p) /\ Apart(own) /\ Holds(own) = Holds(p)
      /\ Singles(p) => Singles(own)
      /\ Len(other) = Len(q) /\ Apart(other) /\ Holds(other) = Holds(q)
      /\ Singles(q) => Singles(other)
  BY <1>2, RearrangedParts
<1>5. Len(own) \in Nat /\ Len(other) \in Nat /\ Len(own) <= n /\ Len(other) <= n
  BY <1>2, <1>4
<1>6. /\ end = IF n <= Len(own) + Len(other) THEN n ELSE Len(own) + Len(other)
      /\ end \in Nat /\ start \in Nat /\ start <= Len(own) /\ Len(own) <= end
      /\ end - start = Len(other)
  <2>1. end = IF n <= Len(own) + Len(other) THEN n ELSE Len(own) + Len(other)
    BY <1>5, MinOfTwo
  <2> HIDE DEF end
  <2> QED
    BY <1>5, <2>1
<1> HIDE DEF end, start
<1> DEFINE O(i) == IF i <= Len(own) THEN ToSet(own[i].entries) ELSE {}
           T(i) == IF i <= start THEN {} ELSE ToSet(other[end - i + 1].entries)
<1>7. ASSUME NEW i \in 1 .. end
      PROVE  /\ i <= Len(own) => own[i] \in S /\ i \in DOMAIN own
             /\ i > start => other[end - i + 1] \in S /\ end - i + 1 \in DOMAIN other
  <2>1. ASSUME i <= Len(own)
        PROVE  own[i] \in S /\ i \in DOMAIN own
    <3>1. i \in 1 .. Len(own)
      BY <1>5, <2>1
    <3> QED
      BY <1>2, <3>1
  <2>2. ASSUME i > start
        PROVE  other[end - i + 1] \in S /\ end - i + 1 \in DOMAIN other
    <3>1. end - i + 1 \in 1 .. Len(other)
      BY <1>5, <1>6, <2>2
    <3> QED
      BY <1>2, <3>1
  <2> QED
    BY <2>1, <2>2
<1>8. /\ \A i, j \in 1 .. end : i # j => O(i) \cap O(j) = {}
      /\ \A i, j \in 1 .. end : i # j => T(i) \cap T(j) = {}
      /\ \A i, j \in 1 .. end : O(i) \cap T(j) = {}
  <2>1. ASSUME NEW i \in 1 .. end, NEW j \in 1 .. end, i # j
        PROVE  O(i) \cap O(j) = {}
    <3>1. CASE i <= Len(own) /\ j <= Len(own)
      BY <1>4, <1>7, <2>1, <3>1 DEF Apart
    <3>2. CASE ~(i <= Len(own) /\ j <= Len(own))
      BY <3>2
    <3> QED
      BY <3>1, <3>2
  <2>2. ASSUME NEW i \in 1 .. end, NEW j \in 1 .. end, i # j
        PROVE  T(i) \cap T(j) = {}
    <3>1. CASE i > start /\ j > start
      <4>1. end - i + 1 \in DOMAIN other /\ end - j + 1 \in DOMAIN other
        BY <1>7, <3>1
      <4>2. end - i + 1 # end - j + 1
        BY <1>6, <2>2
      <4>3. ToSet(other[end - i + 1].entries) \cap ToSet(other[end - j + 1].entries) = {}
        BY <1>4, <4>1, <4>2 DEF Apart
      <4> QED
        BY <4>3
    <3>2. CASE ~(i > start /\ j > start)
      BY <1>6, <3>2
    <3> QED
      BY <3>1, <3>2
  <2>3. ASSUME NEW i \in 1 .. end, NEW j \in 1 .. end
        PROVE  O(i) \cap T(j) = {}
    <3>1. CASE i <= Len(own) /\ j > start
      <4>1. ToSet(own[i].entries) \subseteq Holds(p)
        BY <1>4, <1>7, <3>1 DEF Holds
      <4>2. ToSet(other[end - j + 1].entries) \subseteq Holds(q)
        BY <1>4, <1>7, <3>1 DEF Holds
      <4> QED
        BY <4>1, <4>2
    <3>2. CASE ~(i <= Len(own) /\ j > start)
      BY <1>6, <3>2
    <3> QED
      BY <3>1, <3>2
  <2> HIDE DEF O, T
  <2> QED
    BY <2>1, <2>2, <2>3
<1>9. ASSUME NEW i \in 1 .. end
      PROVE  /\ Part(i) \in S
             /\ IsInjective(Part(i).entries)
             /\ ToSet(Part(i).entries) = O(i) \union T(i)
             /\ Singles(own) /\ Singles(other) /\ start = Len(own) => Len(Part(i).entries) = 1
  <2>1. CASE i <= start
    <3>1. i <= Len(own) /\ Part(i) = own[i]
      BY <1>5, <1>6, <2>1
    <3>2. own[i] \in S /\ i \in DOMAIN own
      BY <1>7, <3>1
    <3> HIDE DEF Part
    <3> QED
      BY <1>4, <2>1, <3>1, <3>2 DEF Apart, Singles
  <2>2. CASE ~(i <= start) /\ i <= Len(own)
    <3> DEFINE a == own[i]
               b == other[end - i + 1]
    <3>1. a \in S /\ i \in DOMAIN own /\ b \in S /\ end - i + 1 \in DOMAIN other
      BY <1>6, <1>7, <2>2
    <3>2. IsInjective(a.entries) /\ IsInjective(b.entries)
      BY <1>4, <3>1 DEF Apart
    <3>3. O(i) = ToSet(a.entries) /\ T(i) = ToSet(b.entries)
      BY <2>2
    <3>4. ToSet(a.entries) \cap ToSet(b.entries) = {}
      <4> HIDE DEF O, T, a, b
      <4> QED
        BY <1>8, <3>3
    <3>5. Part(i) = MergeSubsets(a, b)
      BY <2>2
    <3>6. start # Len(own)
      BY <1>5, <1>6, <2>2
    <3> HIDE DEF a, b, Part, O, T
    <3>7. /\ MergeSubsets(a, b) \in SubsetsOf(E)
          /\ IsInjective(MergeSubsets(a, b).entries)
          /\ ToSet(MergeSubsets(a, b).entries) = ToSet(a.entries) \union ToSet(b.entries)
      BY <3>1, <3>2, <3>4, MergedSubset
    <3> QED
      BY <3>3, <3>5, <3>6, <3>7
  <2>3. CASE ~(i <= Len(own))
    <3>1. ~(i <= start) /\ i > start
      BY <1>5, <1>6, <2>3
    <3>2. Part(i) = other[end - i + 1]
      BY <2>3, <3>1
    <3>3. other[end - i + 1] \in S /\ end - i + 1 \in DOMAIN other
      BY <1>7, <3>1
    <3>4. O(i) = {} /\ T(i) = ToSet(other[end - i + 1].entries)
      BY <2>3, <3>1
    <3> HIDE DEF Part, O, T
    <3> QED
      BY <1>4, <3>2, <3>3, <3>4 DEF Apart, Singles
  <2> QED
    BY <2>1, <2>2, <2>3
<1>10. r \in Seq(S) /\ Len(r) = end /\ DOMAIN r = 1 .. end /\ \A i \in 1 .. end : r[i] = Part(i)
  <2>1. r \in [1 .. end -> S]
    BY <1>9
  <2>2. \A i \in 1 .. end : r[i] = Part(i)
    OBVIOUS
  <2> HIDE DEF r, Part
  <2>3. r \in Seq(S) /\ Len(r) = end /\ DOMAIN r = 1 .. end
    <3>1. end \in Nat
      BY <1>6
    <3> HIDE DEF S
    <3> QED
      BY <2>1, <3>1
  <2> QED
    BY <2>2, <2>3
<1> HIDE DEF r, Part
<1>11. Apart(r)
  <2>1. ASSUME NEW i \in 1 .. end, NEW j \in 1 .. end, i # j
        PROVE  ToSet(r[i].entries) \cap ToSet(r[j].entries) = {}
    <3>1. /\ ToSet(r[i].entries) = O(i) \union T(i)
          /\ ToSet(r[j].entries) = O(j) \union T(j)
      BY <1>9, <1>10
    <3>2. /\ O(i) \cap O(j) = {} /\ T(i) \cap T(j) = {}
          /\ O(i) \cap T(j) = {} /\ O(j) \cap T(i) = {}
      BY <1>8, <2>1
    <3> HIDE DEF O, T
    <3> QED
      BY <3>1, <3>2
  <2> QED
    BY <1>9, <1>10, <2>1 DEF Apart
<1>12. Holds(r) = Holds(p) \union Holds(q)
  <2>1. ASSUME NEW x \in Holds(r)
        PROVE  x \in Holds(own) \union Holds(other)
    <3>1. PICK i \in 1 .. end : x \in ToSet(r[i].entries)
      BY <1>10 DEF Holds
    <3>2. x \in O(i) \/ x \in T(i)
      BY <1>9, <1>10, <3>1
    <3>3. CASE x \in O(i)
      <4>1. i <= Len(own) /\ x \in ToSet(own[i].entries)
        BY <3>3
      <4> QED
        BY <1>7, <4>1 DEF Holds
    <3>4. CASE x \in T(i)
      <4>1. ~(i <= start) /\ x \in ToSet(other[end - i + 1].entries)
        BY <3>4
      <4> QED
        BY <1>6, <1>7, <4>1 DEF Holds
    <3> QED
      BY <3>2, <3>3, <3>4
  <2>2. ASSUME NEW x \in Holds(own)
        PROVE  x \in Holds(r)
    <3>1. PICK i \in DOMAIN own : x \in ToSet(own[i].entries)
      BY DEF Holds
    <3>2. i \in 1 .. end /\ i <= Len(own)
      BY <1>2, <1>5, <1>6
    <3>3. x \in O(i)
      BY <3>1, <3>2
    <3>4. x \in ToSet(r[i].entries)
      BY <1>9, <1>10, <3>2, <3>3
    <3> QED
      BY <1>10, <3>2, <3>4 DEF Holds
  <2>3. ASSUME NEW x \in Holds(other)
        PROVE  x \in Holds(r)
    <3>0. DOMAIN other = 1 .. Len(other)
      BY <1>2
    <3>1. PICK j \in 1 .. Len(other) : x \in ToSet(other[j].entries)
      BY <3>0 DEF Holds
    <3> DEFINE i == end - j + 1
    <3>2. i \in 1 .. end /\ ~(i <= start) /\ end - i + 1 = j
      BY <1>5, <1>6
    <3> HIDE DEF i
    <3>3. x \in T(i)
      BY <3>1, <3>2
    <3>4. x \in ToSet(r[i].entries)
      BY <1>9, <1>10, <3>2, <3>3
    <3> QED
      BY <1>10, <3>2, <3>4 DEF Holds
  <2> QED
    BY <1>4, <2>1, <2>2, <2>3
<1>13. ASSUME Singles(p), Singles(q), Len(p) + Len(q) < n
       PROVE  Singles(r)
  <2>1. start = Len(own)
    BY <1>4, <1>5, <1>6, <1>13 DEF start
  <2> QED
    BY <1>4, <1>9, <1>10, <1>13, <2>1 DEF Singles
<1> QED
  BY <1>3, <1>4, <1>6, <1>10, <1>11, <1>12, <1>13

-----------------------------------------------------------------------------
(* The dataset                                                             *)

(* Every entry is in one of the partitionings, once; each has at most n     *)
(* subsets, and one has n of them unless all subsets have one entry.        *)
DividedAmong(D, E, n) ==
  /\ D \in Seq(Seq(SubsetsOf(E)))
  /\ \A i \in DOMAIN D : Apart(D[i]) /\ Len(D[i]) <= n
  /\ \A i, j \in DOMAIN D : i # j => Holds(D[i]) \cap Holds(D[j]) = {}
  /\ E = UNION {Holds(D[i]) : i \in DOMAIN D}
  /\ (\E i \in DOMAIN D : Len(D[i]) = n) \/ (\A i \in DOMAIN D : Singles(D[i]))

LEMMA RearrangedDataset ==
  ASSUME NEW E, NEW n, NEW D, DividedAmong(D, E, n),
         NEW F \in Seq(Seq(SubsetsOf(E))), Rearranges(F, D)
  PROVE  DividedAmong(F, E, n)
<1>1. PICK f \in Bijection(DOMAIN D, DOMAIN D) : \A k \in DOMAIN D : F[k] = D[f[k]]
  BY DEF Rearranges
<1>2. DOMAIN F = DOMAIN D
  BY DEF Rearranges, DividedAmong
<1>3. /\ \A k \in DOMAIN D : f[k] \in DOMAIN D
      /\ \A k, l \in DOMAIN D : f[k] = f[l] => k = l
      /\ \A l \in DOMAIN D : \E k \in DOMAIN D : f[k] = l
  BY DEF Bijection, Injection, Surjection, IsInjective
<1>4. \A i \in DOMAIN F : Apart(F[i]) /\ Len(F[i]) <= n
  BY <1>1, <1>2, <1>3 DEF DividedAmong
<1>5. ASSUME NEW i \in DOMAIN F, NEW j \in DOMAIN F, i # j
      PROVE  Holds(F[i]) \cap Holds(F[j]) = {}
  <2>1. f[i] \in DOMAIN D /\ f[j] \in DOMAIN D /\ f[i] # f[j]
    BY <1>2, <1>3, <1>5
  <2>2. F[i] = D[f[i]] /\ F[j] = D[f[j]]
    BY <1>1, <1>2
  <2>3. Holds(D[f[i]]) \cap Holds(D[f[j]]) = {}
    BY <2>1 DEF DividedAmong
  <2> QED
    BY <2>2, <2>3
<1>6. UNION {Holds(F[i]) : i \in DOMAIN F} = UNION {Holds(D[i]) : i \in DOMAIN D}
  <2>1. ASSUME NEW i \in DOMAIN F
        PROVE  \E j \in DOMAIN D : F[i] = D[j]
    BY <1>1, <1>2, <1>3
  <2>2. ASSUME NEW j \in DOMAIN D
        PROVE  \E i \in DOMAIN F : F[i] = D[j]
    <3>1. PICK i \in DOMAIN D : f[i] = j
      BY <1>3
    <3> QED
      BY <1>1, <1>2, <3>1
  <2>3. ASSUME NEW x \in UNION {Holds(F[i]) : i \in DOMAIN F}
        PROVE  x \in UNION {Holds(D[i]) : i \in DOMAIN D}
    <3>1. PICK i \in DOMAIN F : x \in Holds(F[i])
      OBVIOUS
    <3> QED
      BY <2>1, <3>1
  <2>4. ASSUME NEW x \in UNION {Holds(D[i]) : i \in DOMAIN D}
        PROVE  x \in UNION {Holds(F[i]) : i \in DOMAIN F}
    <3>1. PICK i \in DOMAIN D : x \in Holds(D[i])
      OBVIOUS
    <3> QED
      BY <2>2, <3>1
  <2> QED
    BY <2>3, <2>4
<1>7. (\E i \in DOMAIN F : Len(F[i]) = n) \/ (\A i \in DOMAIN F : Singles(F[i]))
  <2>1. CASE \E i \in DOMAIN D : Len(D[i]) = n
    <3>1. PICK j \in DOMAIN D : Len(D[j]) = n
      BY <2>1
    <3>2. PICK i \in DOMAIN D : f[i] = j
      BY <1>3
    <3> QED
      BY <1>1, <1>2, <3>1, <3>2
  <2>2. CASE \A i \in DOMAIN D : Singles(D[i])
    BY <1>1, <1>2, <1>3, <2>2
  <2> QED
    BY <2>1, <2>2 DEF DividedAmong
<1> QED
  BY <1>4, <1>5, <1>6, <1>7 DEF DividedAmong

(* An iteration merges the first two partitionings.                         *)
LEMMA IterateDivides ==
  ASSUME NEW E, \A e \in E : e.score \in Int, NEW n \in Nat, NEW D, DividedAmong(D, E, n)
  PROVE  /\ DividedAmong(Iterate(n, D), E, n)
         /\ Len(Iterate(n, D)) = IF Len(D) <= 1 THEN Len(D) ELSE Len(D) - 1
<1> DEFINE X == Seq(SubsetsOf(E))
<1>1. D \in Seq(X) /\ Len(D) \in Nat /\ DOMAIN D = 1 .. Len(D)
  BY DEF DividedAmong
<1>2. CASE Len(D) <= 1
  BY <1>2 DEF Iterate
<1>3. CASE ~(Len(D) <= 1)
  <2> DEFINE m == MergeParts(n, D[1], D[2])
             rest == Tail(Tail(D))
             F == Append(rest, m)
             l == Len(D)
  <2>1. 1 \in DOMAIN D /\ 2 \in DOMAIN D /\ D[1] \in X /\ D[2] \in X
    BY <1>1, <1>3
  <2>2. /\ Apart(D[1]) /\ Apart(D[2]) /\ Len(D[1]) <= n /\ Len(D[2]) <= n
        /\ Holds(D[1]) \cap Holds(D[2]) = {}
    BY <2>1 DEF DividedAmong
  <2>3. /\ m \in X
        /\ Len(m) = IF n <= Len(D[1]) + Len(D[2]) THEN n ELSE Len(D[1]) + Len(D[2])
        /\ Apart(m) /\ Holds(m) = Holds(D[1]) \union Holds(D[2])
        /\ Singles(D[1]) /\ Singles(D[2]) /\ Len(D[1]) + Len(D[2]) < n => Singles(m)
    BY <2>1, <2>2, MergedParts
  <2> HIDE DEF m, X
  <2>4. rest \in Seq(X) /\ Len(rest) = l - 2 /\ \A k \in 1 .. l - 2 : rest[k] = D[k + 2]
    <3>1. /\ Tail(D) \in Seq(X) /\ Len(Tail(D)) = l - 1
          /\ \A k \in 1 .. l - 1 : Tail(D)[k] = D[k + 1]
      <4>1. D # <<>>
        BY <1>1, <1>3
      <4> QED
        BY <1>1, <4>1, HeadTailProperties
    <3> DEFINE t == Tail(D)
    <3> HIDE DEF t
    <3>2. t \in Seq(X) /\ Len(t) = l - 1 /\ \A k \in 1 .. l - 1 : t[k] = D[k + 1]
      BY <3>1 DEF t
    <3>3. /\ Tail(t) \in Seq(X) /\ Len(Tail(t)) = (l - 1) - 1
          /\ \A k \in 1 .. (l - 1) - 1 : Tail(t)[k] = t[k + 1]
      <4>1. t # <<>>
        BY <1>1, <1>3, <3>2
      <4> QED
        BY <3>2, <4>1, HeadTailProperties
    <3>4. ASSUME NEW k \in 1 .. l - 2
          PROVE  Tail(t)[k] = D[k + 2]
      <4>1. k \in 1 .. (l - 1) - 1 /\ k + 1 \in 1 .. l - 1 /\ (k + 1) + 1 = k + 2
        BY <1>1, <1>3
      <4> QED
        BY <3>2, <3>3, <4>1
    <3> QED
      BY <1>1, <1>3, <3>3, <3>4 DEF t
  <2> HIDE DEF rest
  <2>5. /\ F \in Seq(X) /\ Len(F) = l - 1 /\ DOMAIN F = 1 .. l - 1
        /\ F[l - 1] = m /\ \A k \in 1 .. l - 2 : F[k] = D[k + 2]
    <3>1. F \in Seq(X) /\ Len(F) = l - 2 + 1 /\ F[l - 2 + 1] = m
          /\ \A k \in 1 .. l - 2 : F[k] = rest[k]
      BY <2>3, <2>4, AppendProperties
    <3>2. l - 2 + 1 = l - 1
      BY <1>1
    <3> HIDE DEF F
    <3> QED
      BY <2>4, <3>1, <3>2
  <2> HIDE DEF F, l
  <2>6. l \in Nat /\ l >= 2 /\ DOMAIN D = 1 .. l
    BY <1>1, <1>3 DEF l
  <2>7. ASSUME NEW k \in 1 .. l - 1
        PROVE  \/ k = l - 1 /\ F[k] = m
               \/ k # l - 1 /\ k + 2 \in DOMAIN D /\ F[k] = D[k + 2]
    BY <2>5, <2>6
  <2>8. ASSUME NEW j \in DOMAIN D, j # 1, j # 2
        PROVE  j - 2 \in 1 .. l - 1 /\ j - 2 # l - 1 /\ F[j - 2] = D[j]
    <3>1. j - 2 \in 1 .. l - 2 /\ (j - 2) + 2 = j
      BY <2>6, <2>8
    <3>2. F[j - 2] = D[(j - 2) + 2]
      BY <2>5, <3>1
    <3> QED
      BY <2>6, <3>1, <3>2
  <2>9. DividedAmong(F, E, n)
    <3>1. \A k \in DOMAIN F : Apart(F[k]) /\ Len(F[k]) <= n
      <4> TAKE k \in DOMAIN F
      <4>1. Len(m) <= n
        BY <2>1, <2>2, <2>3 DEF X
      <4> QED
        BY <2>3, <2>5, <2>7, <4>1 DEF DividedAmong
    <3>2. ASSUME NEW k \in 1 .. l - 2
          PROVE  Holds(D[k + 2]) \cap Holds(m) = {}
      <4>1. k + 2 \in DOMAIN D /\ k + 2 # 1 /\ k + 2 # 2
        BY <2>6
      <4>2. Holds(D[k + 2]) \cap Holds(D[1]) = {} /\ Holds(D[k + 2]) \cap Holds(D[2]) = {}
        BY <2>1, <4>1 DEF DividedAmong
      <4> QED
        BY <2>3, <4>2
    <3>3. ASSUME NEW k \in DOMAIN F, NEW j \in DOMAIN F, k # j
          PROVE  Holds(F[k]) \cap Holds(F[j]) = {}
      <4>1. k \in 1 .. l - 1 /\ j \in 1 .. l - 1
        BY <2>5
      <4>2. CASE k = l - 1
        <5>1. j \in 1 .. l - 2 /\ F[k] = m /\ F[j] = D[j + 2]
          BY <2>5, <2>6, <3>3, <4>1, <4>2
        <5> QED
          BY <3>2, <5>1
      <4>3. CASE j = l - 1
        <5>1. k \in 1 .. l - 2 /\ F[j] = m /\ F[k] = D[k + 2]
          BY <2>5, <2>6, <3>3, <4>1, <4>3
        <5> QED
          BY <3>2, <5>1
      <4>4. CASE k # l - 1 /\ j # l - 1
        <5>1. /\ k + 2 \in DOMAIN D /\ j + 2 \in DOMAIN D /\ k + 2 # j + 2
              /\ F[k] = D[k + 2] /\ F[j] = D[j + 2]
          BY <2>6, <2>7, <3>3, <4>1, <4>4
        <5>2. Holds(D[k + 2]) \cap Holds(D[j + 2]) = {}
          BY <5>1 DEF DividedAmong
        <5> QED
          BY <5>1, <5>2
      <4> QED
        BY <4>2, <4>3, <4>4
    <3>4. E = UNION {Holds(F[k]) : k \in DOMAIN F}
      <4>1. ASSUME NEW x \in E
            PROVE  \E k \in DOMAIN F : x \in Holds(F[k])
        <5>1. PICK j \in DOMAIN D : x \in Holds(D[j])
          BY DEF DividedAmong
        <5>2. CASE j = 1 \/ j = 2
          <6>1. x \in Holds(m) /\ l - 1 \in DOMAIN F /\ F[l - 1] = m
            BY <2>3, <2>5, <2>6, <5>1, <5>2
          <6> QED
            BY <6>1
        <5>3. CASE j # 1 /\ j # 2
          <6>1. j - 2 \in DOMAIN F /\ F[j - 2] = D[j]
            BY <2>5, <2>8, <5>3
          <6> QED
            BY <5>1, <6>1
        <5> QED
          BY <5>2, <5>3
      <4>2. ASSUME NEW k \in DOMAIN F, NEW x \in Holds(F[k])
            PROVE  x \in E
        <5>1. \E j \in DOMAIN D : x \in Holds(D[j])
          BY <2>1, <2>3, <2>5, <2>7, <4>2
        <5> QED
          BY <5>1 DEF DividedAmong
      <4> QED
        BY <4>1, <4>2
    <3>5. (\E k \in DOMAIN F : Len(F[k]) = n) \/ (\A k \in DOMAIN F : Singles(F[k]))
      <4>1. CASE \E j \in DOMAIN D : Len(D[j]) = n
        <5>1. PICK j \in DOMAIN D : Len(D[j]) = n
          BY <4>1
        <5>2. CASE j = 1 \/ j = 2
          <6>1. Len(D[1]) \in Nat /\ Len(D[2]) \in Nat
            BY <2>1 DEF X
          <6>2. n <= Len(D[1]) + Len(D[2])
            <7>1. Len(D[1]) = n \/ Len(D[2]) = n
              BY <5>1, <5>2
            <7>2. \A a, b \in Nat : a = n \/ b = n => n <= a + b
              OBVIOUS
            <7> QED
              BY <6>1, <7>1, <7>2, Zenon
          <6>3. Len(m) = n /\ l - 1 \in DOMAIN F /\ F[l - 1] = m
            BY <2>3, <2>5, <2>6, <6>2
          <6> QED
            BY <6>3
        <5>3. CASE j # 1 /\ j # 2
          BY <2>5, <2>8, <5>1, <5>3
        <5> QED
          BY <5>2, <5>3
      <4>2. CASE \A j \in DOMAIN D : Singles(D[j])
        <5>1. CASE Len(D[1]) + Len(D[2]) < n
          <6>1. Singles(m)
            BY <2>1, <2>3, <4>2, <5>1
          <6> QED
            BY <2>5, <2>7, <4>2, <6>1
        <5>2. CASE ~(Len(D[1]) + Len(D[2]) < n)
          <6>1. Len(D[1]) \in Nat /\ Len(D[2]) \in Nat
            BY <2>1 DEF X
          <6>2. Len(m) = n /\ l - 1 \in DOMAIN F /\ F[l - 1] = m
            BY <2>3, <2>5, <2>6, <5>2, <6>1
          <6> QED
            BY <6>2
        <5> QED
          BY <5>1, <5>2
      <4> QED
        BY <4>1, <4>2 DEF DividedAmong
    <3> QED
      BY <2>5, <3>1, <3>3, <3>4, <3>5 DEF DividedAmong, X
  <2> DEFINE Nearer(p, q) == Difference(n, p) < Difference(n, q)
             I == {k \in 1 .. Len(rest) : Nearer(m, rest[k])}
             i == IF I # {} THEN Min(I) ELSE 0
  <2>10. Iterate(n, D) = IF i = 0 THEN F ELSE InsertAt(rest, i, m)
    BY <1>3, Zenon DEF Iterate, Insert, SelectInSeq, rest, m, F
  <2>11. i \in 0 .. Len(rest)
    <3>1. I \subseteq 1 .. Len(rest) /\ I \subseteq Nat
      OBVIOUS
    <3> HIDE DEF I
    <3>2. CASE I = {}
      BY <2>4, <2>6, <3>2
    <3>3. CASE I # {}
      <4>1. \E x \in I : \A k \in I : x <= k
        BY <3>1, <3>3, LeastOf
      <4>2. Min(I) \in I
        BY <4>1 DEF Min
      <4>3. i \in 1 .. Len(rest)
        BY <3>1, <3>3, <4>2
      <4> HIDE DEF i
      <4> QED
        BY <2>4, <2>6, <4>3
    <3> QED
      BY <3>2, <3>3
  <2> HIDE DEF i
  <2>12. CASE i = 0
    BY <1>3, <2>5, <2>9, <2>10, <2>12 DEF l
  <2>13. CASE i # 0
    <3>1. i \in 1 .. Len(rest)
      BY <2>4, <2>6, <2>11, <2>13
    <3>2. InsertAt(rest, i, m) \in Seq(X) /\ Rearranges(InsertAt(rest, i, m), F)
      BY <2>3, <2>4, <3>1, InsertedIs DEF F
    <3>3. DividedAmong(InsertAt(rest, i, m), E, n)
      BY <2>9, <3>2, RearrangedDataset DEF X
    <3>4. Len(InsertAt(rest, i, m)) = Len(D) - 1
      BY <2>5, <3>2 DEF Rearranges, l
    <3> QED
      BY <1>3, <2>10, <2>13, <3>3, <3>4
  <2> QED
    BY <2>12, <2>13
<1> QED
  BY <1>2, <1>3

(* The dataset there is at the beginning.                                   *)
LEMMA DatasetIs ==
  ASSUME NEW E, NEW entries \in Seq(E), \A e \in E : e.score \in Int,
         IsInjective(entries), ToSet(entries) = E, NEW n \in Nat, n >= 1
  PROVE  DividedAmong(Dataset(entries), E, n) /\ Len(Dataset(entries)) = Len(entries)
<1> DEFINE D == Dataset(entries)
           single(e) == [sum |-> e.score, entries |-> <<e>>]
<1>1. DOMAIN entries = 1 .. Len(entries) /\ Len(entries) \in Nat
  OBVIOUS
<1>2. \A e \in E : single(e) \in SubsetsOf(E)
  BY SingleSubset
<1> HIDE DEF single
<1>3. \A i \in DOMAIN entries : D[i] = <<single(entries[i])>> /\ entries[i] \in E
  BY DEF Dataset, single
<1>4. D \in Seq(Seq(SubsetsOf(E))) /\ Len(D) = Len(entries) /\ DOMAIN D = DOMAIN entries
  <2>1. D = [i \in 1 .. Len(entries) |-> D[i]]
    BY <1>1 DEF Dataset
  <2> HIDE DEF D
  <2>2. ASSUME NEW i \in 1 .. Len(entries)
        PROVE  D[i] \in Seq(SubsetsOf(E))
    <3>1. \A x \in SubsetsOf(E) : <<x>> \in Seq(SubsetsOf(E))
      OBVIOUS
    <3>2. D[i] = <<single(entries[i])>> /\ single(entries[i]) \in SubsetsOf(E)
      BY <1>1, <1>2, <1>3
    <3> QED
      BY <3>1, <3>2
  <2>3. D \in [1 .. Len(entries) -> Seq(SubsetsOf(E))]
    BY <2>1, <2>2
  <2> DEFINE X == Seq(SubsetsOf(E))
  <2> HIDE DEF X
  <2>4. D \in [1 .. Len(entries) -> X]
    BY <2>3 DEF X
  <2>5. D \in Seq(X) /\ Len(D) = Len(entries) /\ DOMAIN D = DOMAIN entries
    BY <1>1, <2>4
  <2> QED
    BY <2>5 DEF X
<1> HIDE DEF D
<1>5. ASSUME NEW i \in DOMAIN entries
      PROVE  /\ DOMAIN D[i] = {1} /\ Len(D[i]) = 1 /\ D[i][1].entries = <<entries[i]>>
             /\ Holds(D[i]) = {entries[i]} /\ Apart(D[i]) /\ Singles(D[i])
  <2>1. /\ DOMAIN D[i] = {1} /\ Len(D[i]) = 1 /\ D[i][1].entries = <<entries[i]>>
    <3>1. D[i] = <<single(entries[i])>>
      BY <1>3
    <3>2. \A x : DOMAIN <<x>> = {1} /\ Len(<<x>>) = 1 /\ <<x>>[1] = x
      OBVIOUS
    <3>3. single(entries[i]).entries = <<entries[i]>>
      BY DEF single
    <3> QED
      BY <3>1, <3>2, <3>3
  <2>2. /\ DOMAIN <<entries[i]>> = {1} /\ <<entries[i]>>[1] = entries[i]
        /\ Len(<<entries[i]>>) = 1
    OBVIOUS
  <2>3. ToSet(<<entries[i]>>) = {entries[i]} /\ IsInjective(<<entries[i]>>)
    BY <2>2 DEF ToSet, IsInjective
  <2> QED
    BY <2>1, <2>2, <2>3 DEF Holds, Apart, Singles
<1>6. \A i \in DOMAIN D : Apart(D[i]) /\ Len(D[i]) <= n /\ Singles(D[i])
  BY <1>4, <1>5
<1>7. \A i, j \in DOMAIN D : i # j => Holds(D[i]) \cap Holds(D[j]) = {}
  BY <1>4, <1>5 DEF IsInjective
<1>8. E = UNION {Holds(D[i]) : i \in DOMAIN D}
  <2>1. E = {entries[i] : i \in DOMAIN entries}
    BY DEF ToSet
  <2>2. \A i \in DOMAIN D : Holds(D[i]) = {entries[i]}
    BY <1>4, <1>5
  <2> QED
    BY <1>4, <2>1, <2>2
<1>9. DividedAmong(D, E, n)
  BY <1>4, <1>6, <1>7, <1>8, Zenon DEF DividedAmong
<1> QED
  BY <1>4, <1>9 DEF D

(* The difference of a partitioning with one subset; sorting by it.         *)
LEMMA DifferenceOfOne ==
  ASSUME NEW n \in Nat, NEW p, DOMAIN p = {1}, Len(p) = 1, p[1].sum \in Int
  PROVE  Difference(n, p) \in Int
<1> DEFINE x == p[1].sum
<1>1. Sums(p) = {x}
  BY DEF Sums, ToSet
<1> HIDE DEF x
<1>2. Max({x}) = x /\ Min({x}) = x
  <2>1. x \in Int
    BY DEF x
  <2>2. (CHOOSE y \in {x} : \A z \in {x} : y >= z) = x
    BY <2>1
  <2>3. (CHOOSE y \in {x} : \A z \in {x} : y <= z) = x
    BY <2>1
  <2> QED
    BY <2>2, <2>3, Zenon DEF Max, Min
<1>3. x \in Int
  BY DEF x
<1> QED
  BY <1>1, <1>2, <1>3 DEF Difference

(* The dataset that is not iterated yet.                                    *)
LEMMA SortsByDifference ==
  ASSUME NEW A, NEW s \in Seq(A),
         NEW n, \A p \in A : Difference(n, p) \in Int
  PROVE  SortDataset(n, s) \in Seq(A) /\ Rearranges(SortDataset(n, s), s)
<1> DEFINE N == DOMAIN s
           Bef(i, j) == i = j \/ (Difference(n, s[i]) < Difference(n, s[j])
                                    \/ (~(Difference(n, s[j]) < Difference(n, s[i])) /\ i < j))
           R == {p \in N \X N : Bef(p[1], p[2])}
           a == [i \in 1 .. Len(s) |-> 0]
           b == [i \in 1 .. Len(s) |-> Difference(n, s[i])]
           Place(k) == CHOOSE j \in N : Cardinality({i \in N : <<i, j>> \in R}) = k
           Seat(k) == CHOOSE j \in N : Cardinality({i \in N : Bef(i, j)}) = k
<1>1. N = 1 .. Len(s) /\ \A i \in N : s[i] \in A
  OBVIOUS
<1>2. \A i \in N : Difference(n, s[i]) \in Int
  BY <1>1
<1>3. a \in [1 .. Len(s) -> Int] /\ b \in [1 .. Len(s) -> Int]
  BY <1>1, <1>2
<1>4. \A i, j \in N : <<i, j>> \in R <=> Bef(i, j)
  OBVIOUS
<1> HIDE DEF R
<1>5. \A i, j \in 1 .. Len(s) :
        <<i, j>> \in R
          <=> i = j \/ a[i] > a[j]
                \/ (a[i] = a[j] /\ (b[i] < b[j] \/ (b[i] = b[j] /\ i < j)))
  <2> TAKE i, j \in 1 .. Len(s)
  <2>1. Bef(i, j) <=> i = j \/ a[i] > a[j]
                \/ (a[i] = a[j] /\ (b[i] < b[j] \/ (b[i] = b[j] /\ i < j)))
    BY <1>1, <1>2
  <2> HIDE DEF Bef, a, b
  <2> QED
    BY <1>1, <1>4, <2>1, Zenon
<1> HIDE DEF a, b
<1>6. OrderedBy(R, s) \in Seq(A) /\ Rearranges(OrderedBy(R, s), s)
  BY <1>3, <1>5, Sorted
<1>7. \A k \in N : Place(k) = Seat(k)
  <2> HIDE DEF Bef
  <2>1. \A j \in N : {i \in N : <<i, j>> \in R} = {i \in N : Bef(i, j)}
    BY <1>4
  <2> TAKE k \in N
  <2>2. \A j \in N : (Cardinality({i \in N : <<i, j>> \in R}) = k)
                       <=> (Cardinality({i \in N : Bef(i, j)}) = k)
    BY <2>1
  <2> QED
    BY <2>2, Zenon
<1>8. [k \in N |-> s[Place(k)]] = [k \in N |-> s[Seat(k)]]
  <2> HIDE DEF Place, Seat
  <2> QED
    BY <1>7
<1>9. OrderedBy(R, s) = <<>> \o [k \in N |-> s[Place(k)]]
  BY Zenon DEF OrderedBy, AtPlace
<1>10. SortDataset(n, s) = <<>> \o [k \in N |-> s[Seat(k)]]
  BY Zenon DEF SortDataset, StableSort
<1> HIDE DEF Place, Seat
<1> QED
  BY <1>6, <1>8, <1>9, <1>10

(* Numbers, from the smallest to the greatest.                              *)
LEMMA SortsNumbers ==
  ASSUME NEW A, NEW s \in Seq(A),
         A \subseteq Int
  PROVE  StableSort(<, s) \in Seq(A) /\ Rearranges(StableSort(<, s), s)
<1> DEFINE N == DOMAIN s
           Bef(i, j) == i = j \/ (s[i] < s[j]
                                    \/ (~(s[j] < s[i]) /\ i < j))
           R == {p \in N \X N : Bef(p[1], p[2])}
           a == [i \in 1 .. Len(s) |-> 0]
           b == [i \in 1 .. Len(s) |-> s[i]]
           Place(k) == CHOOSE j \in N : Cardinality({i \in N : <<i, j>> \in R}) = k
           Seat(k) == CHOOSE j \in N : Cardinality({i \in N : Bef(i, j)}) = k
<1>1. N = 1 .. Len(s) /\ \A i \in N : s[i] \in A
  OBVIOUS
<1>2. \A i \in N : s[i] \in Int
  BY <1>1
<1>3. a \in [1 .. Len(s) -> Int] /\ b \in [1 .. Len(s) -> Int]
  BY <1>1, <1>2
<1>4. \A i, j \in N : <<i, j>> \in R <=> Bef(i, j)
  OBVIOUS
<1> HIDE DEF R
<1>5. \A i, j \in 1 .. Len(s) :
        <<i, j>> \in R
          <=> i = j \/ a[i] > a[j]
                \/ (a[i] = a[j] /\ (b[i] < b[j] \/ (b[i] = b[j] /\ i < j)))
  <2> TAKE i, j \in 1 .. Len(s)
  <2>1. Bef(i, j) <=> i = j \/ a[i] > a[j]
                \/ (a[i] = a[j] /\ (b[i] < b[j] \/ (b[i] = b[j] /\ i < j)))
    BY <1>1, <1>2
  <2> HIDE DEF Bef, a, b
  <2> QED
    BY <1>1, <1>4, <2>1, Zenon
<1> HIDE DEF a, b
<1>6. OrderedBy(R, s) \in Seq(A) /\ Rearranges(OrderedBy(R, s), s)
  BY <1>3, <1>5, Sorted
<1>7. \A k \in N : Place(k) = Seat(k)
  <2> HIDE DEF Bef
  <2>1. \A j \in N : {i \in N : <<i, j>> \in R} = {i \in N : Bef(i, j)}
    BY <1>4
  <2> TAKE k \in N
  <2>2. \A j \in N : (Cardinality({i \in N : <<i, j>> \in R}) = k)
                       <=> (Cardinality({i \in N : Bef(i, j)}) = k)
    BY <2>1
  <2> QED
    BY <2>2, Zenon
<1>8. [k \in N |-> s[Place(k)]] = [k \in N |-> s[Seat(k)]]
  <2> HIDE DEF Place, Seat
  <2> QED
    BY <1>7
<1>9. OrderedBy(R, s) = <<>> \o [k \in N |-> s[Place(k)]]
  BY Zenon DEF OrderedBy, AtPlace
<1>10. StableSort(<, s) = <<>> \o [k \in N |-> s[Seat(k)]]
  BY Zenon DEF StableSort
<1> HIDE DEF Place, Seat
<1> QED
  BY <1>6, <1>8, <1>9, <1>10

(* One partitioning is left in the end.                                     *)
LEMMA LastIs ==
  ASSUME NEW E, NEW n \in Nat, NEW D, DividedAmong(D, E, n), Len(D) = 1
  PROVE  /\ D[1] \in Seq(SubsetsOf(E)) /\ Apart(D[1]) /\ Holds(D[1]) = E
         /\ Len(D[1]) = n \/ (Len(D[1]) <= n /\ Singles(D[1]))
<1>1. D \in Seq(Seq(SubsetsOf(E))) /\ DOMAIN D = {1}
  <2> DEFINE X == Seq(SubsetsOf(E))
  <2>1. D \in Seq(X)
    BY DEF DividedAmong
  <2> HIDE DEF X
  <2>2. DOMAIN D = 1 .. 1
    BY <2>1
  <2> QED
    BY <2>1, <2>2 DEF X
<1>2. D[1] \in Seq(SubsetsOf(E))
  <2> DEFINE X == Seq(SubsetsOf(E))
  <2> HIDE DEF X
  <2>1. D \in Seq(X) /\ 1 \in DOMAIN D
    BY <1>1 DEF X
  <2>2. D[1] \in X
    BY <2>1
  <2> QED
    BY <2>2 DEF X
<1> QED
  BY <1>1, <1>2 DEF DividedAmong

(* With as many entries as subsets or more, subsets of one entry each are   *)
(* enough of them.                                                          *)
LEMMA EnoughSubsets ==
  ASSUME NEW E, NEW n \in Nat, NEW entries \in Seq(E), IsInjective(entries),
         ToSet(entries) = E, n <= Len(entries),
         NEW p \in Seq(SubsetsOf(E)), Singles(p), Holds(p) = E
  PROVE  n <= Len(p)
<1> DEFINE N == Len(entries)
           l == Len(p)
           first == [k \in 1 .. l |-> p[k].entries[1]]
<1>1. N \in Nat /\ l \in Nat /\ DOMAIN entries = 1 .. N /\ DOMAIN p = 1 .. l
  OBVIOUS
<1>2. entries \in Bijection(1 .. N, E)
  <2>1. entries \in [1 .. N -> E]
    BY <1>1
  <2>2. \A i, j \in 1 .. N : entries[i] = entries[j] => i = j
    BY <1>1 DEF IsInjective
  <2>3. \A e \in E : \E i \in 1 .. N : entries[i] = e
    BY <1>1 DEF ToSet
  <2> QED
    BY <2>1, <2>2, <2>3, Fun_IsBij
<1>3. IsFiniteSet(E) /\ Cardinality(E) = N
  <2> HIDE DEF N
  <2>1. IsFiniteSet(1 .. N) /\ Cardinality(1 .. N) = N
    BY <1>1, FS_Interval
  <2>2. ExistsBijection(1 .. N, E)
    BY <1>2 DEF ExistsBijection
  <2> QED
    BY <2>1, <2>2, FS_Bijection
<1>4. ASSUME NEW k \in 1 .. l
      PROVE  p[k].entries \in Seq(E) /\ DOMAIN p[k].entries = {1}
  <2>1. p[k] \in SubsetsOf(E) /\ k \in DOMAIN p
    BY <1>1
  <2>2. p[k].entries \in Seq(E)
    BY <2>1 DEF SubsetsOf
  <2>3. Len(p[k].entries) = 1
    BY <2>1 DEF Singles
  <2>4. DOMAIN p[k].entries = 1 .. 1
    BY <2>2, <2>3
  <2> QED
    BY <2>2, <2>4
<1>5. \A k \in 1 .. l : p[k].entries[1] \in E
  <2> TAKE k \in 1 .. l
  <2> DEFINE t == p[k].entries
  <2>1. t \in Seq(E) /\ 1 \in DOMAIN t
    BY <1>4
  <2> HIDE DEF t
  <2>2. t[1] \in E
    BY <2>1
  <2> QED
    BY <2>2 DEF t
<1>6. first \in [1 .. l -> E]
  BY <1>5
<1>7. ASSUME NEW e \in E
      PROVE  \E k \in 1 .. l : first[k] = e
  <2>1. PICK k \in 1 .. l : e \in ToSet(p[k].entries)
    BY <1>1 DEF Holds
  <2>2. e = p[k].entries[1]
    BY <1>4, <2>1 DEF ToSet
  <2> QED
    BY <2>2
<1>8. first \in Surjection(1 .. l, E)
  BY <1>6, <1>7 DEF Surjection
<1> HIDE DEF first
<1>9. Cardinality(E) <= l
  <2> HIDE DEF l
  <2>1. IsFiniteSet(1 .. l) /\ Cardinality(1 .. l) = l
    BY <1>1, FS_Interval
  <2> QED
    BY <1>8, <2>1, FS_Surjection
<1> QED
  BY <1>1, <1>3, <1>9

(* Every entry is in exactly one of the num_partitions subsets, and once,   *)
(* and the sum that is kept with a subset is that of its entries' scores,   *)
(* when there are at least that many entries, all different: the assertion  *)
(* in rescheduling_manager::reschedule that there is a subset for every     *)
(* workgroup, and what makes the moves it orders go together.               *)
THEOREM PartitionedDivides ==
  ASSUME NEW E, NEW entries \in Seq(E), \A e \in E : e.score \in Int,
         IsInjective(entries), ToSet(entries) = E,
         NEW num_partitions \in Nat \ {0}, num_partitions <= Len(entries)
  PROVE  /\ Partitioned(num_partitions, entries) \in Seq(SubsetsOf(E))
         /\ Len(Partitioned(num_partitions, entries)) = num_partitions
         /\ Apart(Partitioned(num_partitions, entries))
         /\ Holds(Partitioned(num_partitions, entries)) = E
<1> DEFINE n == num_partitions
           N == Len(entries)
           T == Seq(SubsetsOf(E))
           D == Dataset(entries)
           sorted == SortDataset(n, D)
           X == {F \in Seq(T) : DividedAmong(F, E, n)}
<1>1. n \in Nat /\ n >= 1 /\ N \in Nat /\ n <= N
  OBVIOUS
<1>2. DividedAmong(D, E, n) /\ Len(D) = N
  BY <1>1, DatasetIs
<1>3. sorted \in Seq(T) /\ Rearranges(sorted, D)
  <2> DEFINE A == {<<[sum |-> e.score, entries |-> <<e>>]>> : e \in E}
  <2>1. \A q \in A : Difference(n, q) \in Int
    <3> TAKE q \in A
    <3>1. PICK e \in E : q = <<[sum |-> e.score, entries |-> <<e>>]>>
      OBVIOUS
    <3>2. DOMAIN q = {1} /\ Len(q) = 1 /\ q[1].sum \in Int
      BY <3>1
    <3> HIDE DEF A, n
    <3> QED
      BY <1>1, <3>2, DifferenceOfOne
  <2>2. D \in Seq(A)
    <3>1. \A i \in 1 .. N : entries[i] \in E
      OBVIOUS
    <3>2. D = [i \in 1 .. N |-> <<[sum |-> entries[i].score, entries |-> <<entries[i]>>]>>]
      BY DEF Dataset
    <3> DEFINE single(e) == <<[sum |-> e.score, entries |-> <<e>>]>>
    <3>3. D = [i \in 1 .. N |-> single(entries[i])] /\ \A e \in E : single(e) \in A
      BY <3>2
    <3> HIDE DEF A, D, N, single
    <3>4. D \in [1 .. N -> A]
      BY <3>1, <3>3
    <3> QED
      BY <1>1, <3>4
  <2>3. A \subseteq T
    <3> SUFFICES ASSUME NEW e \in E
                 PROVE  <<[sum |-> e.score, entries |-> <<e>>]>> \in T
      OBVIOUS
    <3>1. [sum |-> e.score, entries |-> <<e>>] \in SubsetsOf(E)
      BY SingleSubset
    <3> QED
      BY <3>1
  <2> HIDE DEF A, D, n, T
  <2>5. sorted \in Seq(A) /\ Rearranges(sorted, D)
    BY <2>1, <2>2, SortsByDifference
  <2> HIDE DEF sorted
  <2>6. sorted \in Seq(T)
    <3>1. sorted \in [1 .. Len(sorted) -> A] /\ Len(sorted) \in Nat
      BY <2>5
    <3>2. sorted \in [1 .. Len(sorted) -> T]
      BY <2>3, <3>1
    <3> QED
      BY <3>1, <3>2
  <2> QED
    BY <2>5, <2>6
<1> HIDE DEF D, sorted
<1>4. sorted \in X /\ Len(sorted) = N
  BY <1>2, <1>3, RearrangedDataset DEF Rearranges
<1>5. \A F \in X : /\ Iterate(n, F) \in X
                   /\ Len(Iterate(n, F)) = IF Len(F) <= 1 THEN Len(F) ELSE Len(F) - 1
  <2> TAKE F \in X
  <2>1. DividedAmong(F, E, n)
    OBVIOUS
  <2>2. /\ DividedAmong(Iterate(n, F), E, n)
        /\ Len(Iterate(n, F)) = IF Len(F) <= 1 THEN Len(F) ELSE Len(F) - 1
    BY <1>1, <2>1, IterateDivides
  <2>3. Iterate(n, F) \in Seq(T)
    BY <2>2 DEF DividedAmong
  <2> QED
    BY <2>2, <2>3
<1> DEFINE Iterates(f) ==
             f = [k \in 0 .. Len(entries) - 1 |->
                    IF k = 0 THEN sorted ELSE Iterate(n, f[k - 1])]
           iterated == CHOOSE f : Iterates(f)
           g == [p \in (1 .. N - 1) \X X |-> Iterate(n, p[2])]
<1>6. g \in [(1 .. N - 1) \X X -> X]
  <2> HIDE DEF X
  <2> QED
    BY <1>5
<1>7. \A k \in 1 .. N - 1, F \in X : g[<<k, F>>] = Iterate(n, F)
  <2> HIDE DEF X
  <2> QED
    OBVIOUS
<1> HIDE DEF X, g, n, N
<1>8. PICK f \in [0 .. N - 1 -> X] : Follows(f, N - 1, sorted, g)
  <2>1. N - 1 \in Nat
    BY <1>1
  <2> QED
    BY <1>4, <1>6, <2>1, StepByStep
<1>9. Iterates(f)
  <2>1. ASSUME NEW k \in 0 .. N - 1
        PROVE  f[k] = IF k = 0 THEN sorted ELSE Iterate(n, f[k - 1])
    <3>1. CASE k = 0
      BY <1>8, <3>1 DEF Follows
    <3>2. CASE k # 0
      <4>1. k \in 1 .. N - 1 /\ k - 1 \in 0 .. N - 1
        BY <1>1, <3>2
      <4>2. f[k] = g[<<k, f[k - 1]>>] /\ f[k - 1] \in X
        BY <1>8, <4>1 DEF Follows
      <4> QED
        BY <1>7, <3>2, <4>1, <4>2
    <3> QED
      BY <3>1, <3>2
  <2>2. f = [k \in 0 .. N - 1 |-> f[k]]
    OBVIOUS
  <2>3. f = [k \in 0 .. N - 1 |-> IF k = 0 THEN sorted ELSE Iterate(n, f[k - 1])]
    BY <2>1, <2>2
  <2> QED
    BY <2>3 DEF N
<1>10. Iterates(iterated)
  BY <1>9, Zenon
<1> HIDE DEF iterated
<1>11. \A k \in 0 .. N - 1 :
         iterated[k] = IF k = 0 THEN sorted ELSE Iterate(n, iterated[k - 1])
  BY <1>10 DEF N
<1> DEFINE Good(k) == iterated[k] \in X /\ Len(iterated[k]) = N - k
           Bad == {k \in 0 .. N - 1 : ~Good(k)}
<1>12. Bad = {}
  <2> SUFFICES ASSUME Bad # {}
               PROVE  FALSE
    OBVIOUS
  <2>1. PICK m \in Bad : \A k \in Bad : m <= k
    <3>1. Bad \subseteq Nat
      OBVIOUS
    <3> HIDE DEF Bad
    <3> QED
      BY <3>1, LeastOf
  <2>2. m \in 0 .. N - 1 /\ ~Good(m)
    BY <2>1
  <2>3. m # 0
    <3>1. 0 \in 0 .. N - 1 /\ iterated[0] = sorted
      BY <1>1, <1>11
    <3>2. Good(0)
      BY <1>1, <1>4, <3>1
    <3> QED
      BY <2>2, <3>2
  <2>4. m - 1 \in 0 .. N - 1 /\ ~(m <= m - 1)
    BY <1>1, <2>2, <2>3
  <2>5. Good(m - 1)
    BY <2>1, <2>4
  <2>6. iterated[m] = Iterate(n, iterated[m - 1])
    BY <1>11, <2>2, <2>3
  <2>7. Len(iterated[m - 1]) = N - (m - 1) /\ ~(N - (m - 1) <= 1)
    BY <1>1, <2>2, <2>3, <2>5
  <2>8. iterated[m] \in X /\ Len(iterated[m]) = (N - (m - 1)) - 1
    BY <1>5, <2>5, <2>6, <2>7
  <2>9. (N - (m - 1)) - 1 = N - m
    BY <1>1, <2>2
  <2> QED
    BY <2>2, <2>8, <2>9
<1> DEFINE last == iterated[N - 1]
           r == StableSort(FewerEntriesFirst, last[1])
<1>13. DividedAmong(last, E, n) /\ Len(last) = 1
  <2>1. N - 1 \in 0 .. N - 1 /\ N - (N - 1) = 1
    BY <1>1
  <2>2. Good(N - 1)
    BY <1>12, <2>1
  <2> QED
    BY <2>1, <2>2 DEF X
<1> HIDE DEF last
<1>14. /\ last[1] \in T /\ Apart(last[1]) /\ Holds(last[1]) = E
       /\ Len(last[1]) = n \/ (Len(last[1]) <= n /\ Singles(last[1]))
  BY <1>1, <1>13, LastIs
<1>15. Len(last[1]) = n
  <2>1. Len(last[1]) \in Nat
    BY <1>14
  <2>2. Singles(last[1]) => n <= Len(last[1])
    BY <1>1, <1>14, EnoughSubsets DEF N
  <2> QED
    BY <1>1, <1>14, <2>1, <2>2
<1>16. r \in T /\ Rearranges(r, last[1])
  <2>1. \A x \in SubsetsOf(E) : x.sum \in Int /\ Len(x.entries) \in Nat
    BY DEF SubsetsOf
  <2> QED
    BY <1>14, <2>1, SortsFewerFirst
<1>17. Partitioned(n, entries) = r
  BY Zenon DEF Partitioned, r, last, iterated, sorted, D, N
<1> HIDE DEF r
<1>18. Len(r) = n /\ Apart(r) /\ Holds(r) = E
  BY <1>14, <1>15, <1>16, RearrangedParts
<1> QED
  BY <1>16, <1>17, <1>18 DEF n

=============================================================================
