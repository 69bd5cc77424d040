----------------------------- MODULE FoldLemmas -----------------------------
(***************************************************************************)
(* Lemmas about folds over finite sets: the sums of FeeCapture and of      *)
(* ClientScore, and the passes of ClientScore over sequences of rows.      *)
(*                                                                         *)
(* A fold of the community modules is a recursive function on the subsets  *)
(* of a set, which is a CHOOSE: nothing follows from it until such a       *)
(* function is shown to exist.  That takes an induction on the size of the *)
(* subsets, here an induction about a set of numbers (NatSetInduction),    *)
(* and is done once, for a fold given by functions: pick says which        *)
(* element comes first, step adds it to the fold of the others.            *)
(***************************************************************************)
EXTENDS Integers, FiniteSetsExt, FiniteSetTheorems, WellFoundedInduction, TLAPS

(* Induction, as the well-foundedness of Nat: about a set, not a property. *)
LEMMA NatSetInduction ==
  ASSUME NEW S \in SUBSET Nat, 0 \in S, \A n \in S : n + 1 \in S
  PROVE  S = Nat
<1> DEFINE R == {ss \in Nat \X Nat : ss[1] < ss[2]}
<1>1. IsWellFoundedOn(R, Nat)
  BY NatLessThanWellFounded DEF OpToRel
<1> SUFFICES ASSUME Nat \ S # {} PROVE FALSE
  OBVIOUS
<1>2. PICK x \in Nat \ S : \A y \in Nat \ S : ~(<<y, x>> \in R)
  <2> HIDE DEF R
  <2> QED BY <1>1, WFMin
<1>3. x # 0 /\ x - 1 \in Nat /\ x - 1 \notin S
  OBVIOUS
<1>4. <<x - 1, x>> \in R
  BY <1>3
<1> QED BY <1>2, <1>3, <1>4

(* Taking an element away makes a finite set one smaller.                  *)
LEMMA OneSmaller ==
  ASSUME NEW S, IsFiniteSet(S), NEW s \in SUBSET S, NEW x \in s
  PROVE  /\ Cardinality(s) \in Nat \ {0}
         /\ Cardinality(s \ {x}) = Cardinality(s) - 1
         /\ s \ {x} \in SUBSET S
<1>1. IsFiniteSet(s)
  BY FS_Subset
<1>2. Cardinality(s) \in Nat /\ Cardinality(s) # 0
  BY <1>1, FS_CardinalityType, FS_EmptySet
<1> QED BY <1>1, <1>2, FS_RemoveElement

(* Only the empty set has no elements to count.                            *)
LEMMA SubsetSizes ==
  ASSUME NEW S, IsFiniteSet(S)
  PROVE  \A s \in SUBSET S : Cardinality(s) \in Nat /\ (Cardinality(s) = 0 <=> s = {})
<1>1. ASSUME NEW s \in SUBSET S
      PROVE  Cardinality(s) \in Nat /\ (Cardinality(s) = 0 <=> s = {})
  <2>1. IsFiniteSet(s)
    BY FS_Subset
  <2> QED BY <2>1, FS_CardinalityType, FS_EmptySet
<1> QED BY <1>1

-----------------------------------------------------------------------------
(* Folds.                                                                  *)

(* g folds every subset of S: base of none, else step takes the picked     *)
(* element and the fold of the rest.                                       *)
IsFold(step, pick, base, S, g) ==
  g = [s \in SUBSET S |-> IF s = {} THEN base ELSE step[pick[s]][g[s \ {pick[s]}]]]

(* The picked element is one of the set.                                   *)
Picks(pick, S) == \A s \in (SUBSET S) \ {{}} : pick[s] \in s

(* The fold of a set is one of its elements and the rest.                  *)
LEMMA FoldUnfolds ==
  ASSUME NEW step, NEW pick, NEW base, NEW S, NEW g,
         IsFold(step, pick, base, S, g), NEW s \in SUBSET S
  PROVE  g[s] = IF s = {} THEN base ELSE step[pick[s]][g[s \ {pick[s]}]]
BY DEF IsFold

(* There is such a fold: sets of at most n elements have one, for any n.   *)
LEMMA FoldExists ==
  ASSUME NEW S, IsFiniteSet(S), NEW V, NEW base \in V,
         NEW step \in [S -> [V -> V]], NEW pick, Picks(pick, S)
  PROVE  \E g \in [SUBSET S -> V] : IsFold(step, pick, base, S, g)
<1> DEFINE upto(n) == {s \in SUBSET S : Cardinality(s) <= n}
           folds(n, g) == \A s \in upto(n) :
             g[s] = IF s = {} THEN base ELSE step[pick[s]][g[s \ {pick[s]}]]
           N == {n \in Nat : \E g \in [upto(n) -> V] : folds(n, g)}
<1>0. \A s \in SUBSET S : Cardinality(s) \in Nat /\ (Cardinality(s) = 0 <=> s = {})
  BY SubsetSizes
<1>1. 0 \in N
  <2>1. upto(0) = {{}}
    BY <1>0
  <2>2. folds(0, [s \in upto(0) |-> base])
    BY <2>1
  <2> QED BY <2>2
<1>2. ASSUME NEW n \in N
      PROVE  n + 1 \in N
  <2>1. PICK g \in [upto(n) -> V] : folds(n, g)
    OBVIOUS
  <2> DEFINE h == [s \in upto(n + 1) |-> IF s \in upto(n) THEN g[s]
                                         ELSE step[pick[s]][g[s \ {pick[s]}]]]
  <2>2. ASSUME NEW s \in upto(n + 1), s # {}
        PROVE  /\ pick[s] \in s
               /\ s \ {pick[s]} \in upto(n)
               /\ g[s \ {pick[s]}] \in V
               /\ step[pick[s]][g[s \ {pick[s]}]] \in V
    <3>1. pick[s] \in s
      BY <2>2 DEF Picks
    <3>2. Cardinality(s \ {pick[s]}) = Cardinality(s) - 1 /\ Cardinality(s) \in Nat
      <4>1. PICK x : x = pick[s]
        OBVIOUS
      <4>2. s \in SUBSET S /\ x \in s
        BY <3>1, <4>1
      <4>3. Cardinality(s \ {x}) = Cardinality(s) - 1 /\ Cardinality(s) \in Nat \ {0}
        BY <4>2, OneSmaller
      <4> QED BY <4>1, <4>3
    <3>3. s \ {pick[s]} \in upto(n)
      BY <3>1, <3>2
    <3>4. g[s \ {pick[s]}] \in V
      BY <3>3
    <3>5. step[pick[s]] \in [V -> V]
      BY <3>1
    <3> QED BY <3>1, <3>3, <3>4, <3>5
  <2>3. h \in [upto(n + 1) -> V]
    <3>1. ASSUME NEW s \in upto(n + 1)
          PROVE  h[s] \in V
      <4>1. CASE s \in upto(n)
        BY <4>1
      <4>2. CASE s \notin upto(n)
        <5>1. s # {}
          BY <1>0, <4>2
        <5> QED BY <2>2, <4>2, <5>1
      <4> QED BY <4>1, <4>2
    <3> QED BY <3>1
  <2>4. ASSUME NEW s \in upto(n + 1)
        PROVE  h[s] = IF s = {} THEN base ELSE step[pick[s]][h[s \ {pick[s]}]]
    <3>1. CASE s = {}
      <4>1. s \in upto(n)
        BY <1>0, <3>1
      <4> QED BY <2>1, <3>1, <4>1
    <3>2. CASE s # {}
      <4>1. s \ {pick[s]} \in upto(n)
        BY <2>2, <3>2
      <4>2. s \ {pick[s]} \in upto(n + 1)
        <5>1. \A t \in upto(n) : t \in upto(n + 1)
          BY <1>0
        <5> QED BY <4>1, <5>1
      <4>3. h[s \ {pick[s]}] = g[s \ {pick[s]}]
        BY <4>1, <4>2
      <4> QED BY <2>1, <3>2, <4>3
    <3> QED BY <3>1, <3>2
  <2>5. h \in [upto(n + 1) -> V] /\ folds(n + 1, h)
    BY <2>3, <2>4
  <2>6. n + 1 \in Nat
    OBVIOUS
  <2> HIDE DEF h, upto, folds
  <2> QED BY <2>5, <2>6
<1>3. N = Nat
  <2> HIDE DEF N
  <2>1. N \in SUBSET Nat
    BY DEF N
  <2> QED BY <1>1, <1>2, <2>1, NatSetInduction
<1>4. Cardinality(S) \in N
  BY <1>0, <1>3
<1>5. upto(Cardinality(S)) = SUBSET S
  BY FS_Subset
<1>6. PICK g \in [upto(Cardinality(S)) -> V] : folds(Cardinality(S), g)
  BY <1>4
<1>7. g \in [SUBSET S -> V]
  BY <1>5, <1>6
<1>8. IsFold(step, pick, base, S, g)
  <2>1. g = [s \in SUBSET S |-> g[s]]
    BY <1>7
  <2>2. \A s \in SUBSET S :
          g[s] = IF s = {} THEN base ELSE step[pick[s]][g[s \ {pick[s]}]]
    BY <1>5, <1>6
  <2> HIDE DEF upto
  <2> QED BY <2>1, <2>2 DEF IsFold
<1> QED BY <1>7, <1>8

-----------------------------------------------------------------------------
(* Sums, which do not depend on the order of adding.                       *)

(* g sums f over every subset of S, one chosen element at a time, as       *)
(* MapThenSumSet does.                                                     *)
Chosen(s) == CHOOSE x \in s : TRUE
IsSum(f, S, g) ==
  g = [s \in SUBSET S |-> IF s = {} THEN 0 ELSE f[Chosen(s)] + g[s \ {Chosen(s)}]]

(* The sum of a set is one of its elements and the rest.                   *)
LEMMA SumUnfolds ==
  ASSUME NEW f, NEW S, NEW g, IsSum(f, S, g), NEW s \in SUBSET S
  PROVE  g[s] = IF s = {} THEN 0 ELSE f[Chosen(s)] + g[s \ {Chosen(s)}]
BY DEF IsSum

(* There is such a sum, a natural number or an integer as what it adds.    *)
LEMMA SumExists ==
  ASSUME NEW S, IsFiniteSet(S), NEW V \in {Nat, Int}, NEW f \in [S -> V]
  PROVE  \E g \in [SUBSET S -> V] : IsSum(f, S, g)
<1> DEFINE add(x) == [v \in V |-> f[x] + v]
           step == [x \in S |-> add(x)]
           pick == [s \in (SUBSET S) \ {{}} |-> Chosen(s)]
<1>1. 0 \in V /\ \A x, y \in V : x + y \in V
  <2>1. CASE V = Nat
    BY <2>1
  <2>2. CASE V = Int
    BY <2>2
  <2> QED BY <2>1, <2>2
<1>2. step \in [S -> [V -> V]]
  <2>1. ASSUME NEW x \in S
        PROVE  add(x) \in [V -> V]
    <3>1. PICK y \in V : y = f[x]
      OBVIOUS
    <3>2. [v \in V |-> y + v] \in [V -> V]
      BY <1>1
    <3> QED BY <3>1, <3>2
  <2> HIDE DEF add
  <2> QED BY <2>1
<1>3. \A s \in (SUBSET S) \ {{}} : pick[s] = Chosen(s) /\ Chosen(s) \in s
  <2>1. ASSUME NEW s \in (SUBSET S) \ {{}}
        PROVE  Chosen(s) \in s
    <3>1. s # {}
      OBVIOUS
    <3> QED BY <3>1 DEF Chosen
  <2> QED BY <2>1
<1>4. PICK g \in [SUBSET S -> V] : IsFold(step, pick, 0, S, g)
  <2>1. Picks(pick, S)
    BY <1>3 DEF Picks
  <2> HIDE DEF step, pick
  <2> QED BY <1>1, <1>2, <2>1, FoldExists
<1>5. ASSUME NEW s \in SUBSET S
      PROVE  g[s] = IF s = {} THEN 0 ELSE f[Chosen(s)] + g[s \ {Chosen(s)}]
  <2>1. CASE s = {}
    <3> HIDE DEF step, pick
    <3> QED BY <1>4, <2>1 DEF IsFold
  <2>2. CASE s # {}
    <3>1. PICK x : x = Chosen(s)
      OBVIOUS
    <3>2. PICK v : v = g[s \ {x}]
      OBVIOUS
    <3>3. x \in S /\ v \in V /\ pick[s] = x
      BY <1>3, <2>2, <3>1, <3>2
    <3>4. g[s] = step[x][v]
      <4> HIDE DEF step, pick
      <4> QED BY <1>4, <2>2, <3>2, <3>3 DEF IsFold
    <3>5. g[s] = f[x] + v
      BY <3>3, <3>4
    <3> QED BY <2>2, <3>1, <3>2, <3>5
  <2> QED BY <2>1, <2>2
<1>6. g = [s \in SUBSET S |-> g[s]]
  OBVIOUS
<1> QED BY <1>5, <1>6 DEF IsSum

(* Of two sums of f, the wider one says the same of what both cover.       *)
LEMMA SumsAgree ==
  ASSUME NEW T, IsFiniteSet(T), NEW S \in SUBSET T, NEW f,
         NEW g, IsSum(f, S, g), NEW h, IsSum(f, T, h)
  PROVE  \A s \in SUBSET S : g[s] = h[s]
<1> DEFINE N == {n \in Nat : \A s \in SUBSET S : Cardinality(s) = n => g[s] = h[s]}
<1>0. \A s \in SUBSET S : /\ Cardinality(s) \in Nat /\ (Cardinality(s) = 0 <=> s = {})
                          /\ s \in SUBSET T
  BY SubsetSizes
<1>1. ASSUME NEW s \in SUBSET S, s = {} \/ g[s \ {Chosen(s)}] = h[s \ {Chosen(s)}]
      PROVE  g[s] = h[s]
  BY <1>0, <1>1, SumUnfolds
<1>2. 0 \in N
  BY <1>0, <1>1
<1>3. ASSUME NEW n \in N
      PROVE  n + 1 \in N
  <2>1. ASSUME NEW s \in SUBSET S, Cardinality(s) = n + 1
        PROVE  g[s] = h[s]
    <3>1. s # {}
      BY <1>0, <2>1
    <3>2. Chosen(s) \in s
      BY <3>1 DEF Chosen
    <3>3. Cardinality(s \ {Chosen(s)}) = n /\ s \ {Chosen(s)} \in SUBSET S
      BY <1>0, <2>1, <3>2, OneSmaller
    <3> QED BY <1>1, <1>3, <3>3
  <2> QED BY <2>1
<1>4. N = Nat
  <2> HIDE DEF N
  <2>1. N \in SUBSET Nat
    BY DEF N
  <2> QED BY <1>2, <1>3, <2>1, NatSetInduction
<1> QED BY <1>0, <1>4

(* Any element may be taken first.                                         *)
LEMMA SumSplits ==
  ASSUME NEW S, IsFiniteSet(S), NEW f, \A x \in S : f[x] \in Int,
         NEW g, \A s \in SUBSET S : g[s] \in Int, IsSum(f, S, g),
         NEW t \in SUBSET S, NEW z \in t
  PROVE  g[t] = f[z] + g[t \ {z}]
<1> DEFINE splits(s) == \A x \in s : g[s] = f[x] + g[s \ {x}]
           N == {n \in Nat : \A s \in SUBSET S : Cardinality(s) = n => splits(s)}
<1>1. 0 \in N
  <2>1. ASSUME NEW s \in SUBSET S, Cardinality(s) = 0
        PROVE  splits(s)
    <3>1. s = {}
      BY <2>1, FS_Subset, FS_EmptySet
    <3> QED BY <3>1
  <2> QED BY <2>1
<1>2. ASSUME NEW n \in N
      PROVE  n + 1 \in N
  <2>1. ASSUME NEW s \in SUBSET S, Cardinality(s) = n + 1, NEW x \in s
        PROVE  g[s] = f[x] + g[s \ {x}]
    <3> DEFINE y == Chosen(s)
    <3>1. y \in s /\ g[s] = f[y] + g[s \ {y}]
      <4>1. g[s] = IF s = {} THEN 0 ELSE f[y] + g[s \ {y}]
        BY SumUnfolds
      <4>2. s # {} /\ y \in s
        BY DEF Chosen
      <4> QED BY <4>1, <4>2
    <3>2. CASE x = y
      BY <3>1, <3>2
    <3>3. CASE x # y
      <4>1. x \in s \ {y} /\ y \in s \ {x} /\ (s \ {y}) \ {x} = (s \ {x}) \ {y}
        BY <3>1, <3>3
      <4>2. /\ Cardinality(s \ {y}) = n /\ Cardinality(s \ {x}) = n
            /\ s \ {y} \in SUBSET S /\ s \ {x} \in SUBSET S
        BY <2>1, <3>1, OneSmaller
      <4> HIDE DEF y
      <4>3. PICK rest : rest = g[(s \ {x}) \ {y}]
        OBVIOUS
      <4>4. g[s \ {y}] = f[x] + rest /\ g[s \ {x}] = f[y] + rest
        <5>1. g[s \ {y}] = f[x] + g[(s \ {y}) \ {x}]
          BY <1>2, <4>1, <4>2
        <5>2. g[s \ {x}] = f[y] + g[(s \ {x}) \ {y}]
          BY <1>2, <4>1, <4>2
        <5> QED BY <4>1, <4>3, <5>1, <5>2
      <4>5. f[x] \in Int /\ f[y] \in Int /\ rest \in Int
        BY <3>1, <4>2, <4>3
      <4>6. g[s] = f[y] + (f[x] + rest)
        BY <3>1, <4>4
      <4>7. f[y] + (f[x] + rest) = f[x] + (f[y] + rest)
        BY <4>5
      <4> QED BY <4>4, <4>6, <4>7
    <3> QED BY <3>2, <3>3
  <2> QED BY <2>1
<1>3. N = Nat
  <2> HIDE DEF N
  <2>1. N \in SUBSET Nat
    BY DEF N
  <2> QED BY <1>1, <1>2, <2>1, NatSetInduction
<1>4. Cardinality(t) \in N
  BY <1>3, FS_Subset, FS_CardinalityType
<1> QED BY <1>4

(* The sum of a function over a set, as the modules write it.              *)
SumOf(f, S) == MapThenSumSet(LAMBDA x : f[x], S)

(* It is the sum that IsSum describes, wherever that is taken from.        *)
LEMMA SumOfIs ==
  ASSUME NEW T, IsFiniteSet(T), NEW f, \A x \in T : f[x] \in Int,
         NEW g, IsSum(f, T, g), NEW S \in SUBSET T
  PROVE  SumOf(f, S) = g[S]
<1> DEFINE part == [s \in SUBSET S |-> g[s]]
           h == CHOOSE h : IsSum(f, S, h)
<1>1. IsSum(f, S, part)
  <2>1. ASSUME NEW s \in SUBSET S
        PROVE  part[s] = IF s = {} THEN 0 ELSE f[Chosen(s)] + part[s \ {Chosen(s)}]
    BY SumUnfolds
  <2>2. part = [s \in SUBSET S |-> part[s]]
    OBVIOUS
  <2> HIDE DEF part
  <2> QED BY <2>1, <2>2 DEF IsSum
<1>2. IsSum(f, S, h)
  BY <1>1
<1>3. SumOf(f, S) = h[S]
  BY DEF SumOf, MapThenSumSet, MapThenFoldSet, IsSum, Chosen
<1>4. h[S] = g[S]
  <2> HIDE DEF h
  <2>1. \A s \in SUBSET S : h[s] = g[s]
    BY <1>2, SumsAgree
  <2> QED BY <2>1
<1> QED BY <1>3, <1>4

(* A function h on the subsets of S that adds, one at a time, what f says  *)
(* of the chosen element is the sum of f; there is one, of integers.        *)
LEMMA AddsUp ==
  ASSUME NEW S, IsFiniteSet(S), NEW f, \A i \in S : f[i] \in Int
  PROVE  /\ \E h \in [SUBSET S -> Int] : IsSum(f, S, h)
         /\ \A h : IsSum(f, S, h) => h[S] = SumOf(f, S)
<1> DEFINE e == [i \in S |-> f[i]]
<1>1. PICK g \in [SUBSET S -> Int] : IsSum(e, S, g)
  <2>1. e \in [S -> Int]
    OBVIOUS
  <2> HIDE DEF e
  <2>2. PICK V \in {Nat, Int} : V = Int
    OBVIOUS
  <2> QED BY <2>1, <2>2, SumExists
<1>2. IsSum(f, S, g)
  <2>1. ASSUME NEW s \in SUBSET S
        PROVE  g[s] = IF s = {} THEN 0 ELSE f[Chosen(s)] + g[s \ {Chosen(s)}]
    <3>1. g[s] = IF s = {} THEN 0 ELSE e[Chosen(s)] + g[s \ {Chosen(s)}]
      <4> HIDE DEF e
      <4> QED BY <1>1, SumUnfolds
    <3>2. s # {} => Chosen(s) \in S
      BY DEF Chosen
    <3> QED BY <3>1, <3>2
  <2>2. g = [s \in SUBSET S |-> g[s]]
    OBVIOUS
  <2> HIDE DEF e
  <2> QED BY <2>1, <2>2 DEF IsSum
<1>3. \A h : IsSum(f, S, h) => h[S] = SumOf(f, S)
  <2>1. S \in SUBSET S
    OBVIOUS
  <2> QED BY <2>1, SumOfIs
<1> QED BY <1>2, <1>3

(* The sum of integers: of none it is 0, and any element may be taken      *)
(* first.                                                                  *)
LEMMA SumOfInt ==
  ASSUME NEW S, IsFiniteSet(S), NEW f, \A x \in S : f[x] \in Int
  PROVE  /\ SumOf(f, {}) = 0
         /\ SumOf(f, S) \in Int
         /\ \A z \in S : SumOf(f, S) = f[z] + SumOf(f, S \ {z})
<1>2. PICK g \in [SUBSET S -> Int] : IsSum(f, S, g)
  BY AddsUp
<1>3. \A s \in SUBSET S : SumOf(f, s) = g[s] /\ g[s] \in Int
  BY <1>2, SumOfIs
<1>4. g[{}] = 0
  BY <1>2, SumUnfolds
<1>5. \A z \in S : g[S] = f[z] + g[S \ {z}]
  <2>1. \A s \in SUBSET S : g[s] \in Int
    BY <1>3
  <2>2. PICK t : t = S
    OBVIOUS
  <2>3. t \in SUBSET S
    BY <2>2
  <2>4. \A z \in t : g[t] = f[z] + g[t \ {z}]
    BY <1>2, <2>1, <2>3, SumSplits
  <2> QED BY <2>2, <2>4
<1> QED BY <1>3, <1>4, <1>5

(* A sum of natural numbers is one.                                        *)
LEMMA SumOfNat ==
  ASSUME NEW S, IsFiniteSet(S), NEW f, \A x \in S : f[x] \in Nat
  PROVE  SumOf(f, S) \in Nat
<1> DEFINE N == {n \in Nat : \A s \in SUBSET S : Cardinality(s) = n => SumOf(f, s) \in Nat}
<1>1. ASSUME NEW s \in SUBSET S
      PROVE  /\ Cardinality(s) \in Nat /\ (Cardinality(s) = 0 <=> s = {})
             /\ SumOf(f, {}) = 0
             /\ \A z \in s : SumOf(f, s) = f[z] + SumOf(f, s \ {z})
  <2>1. IsFiniteSet(s) /\ Cardinality(s) \in Nat /\ (Cardinality(s) = 0 <=> s = {})
    BY FS_Subset, SubsetSizes
  <2>2. \A x \in s : f[x] \in Int
    OBVIOUS
  <2> QED BY <2>1, <2>2, SumOfInt
<1>2. 0 \in N
  <2>1. ASSUME NEW s \in SUBSET S, Cardinality(s) = 0
        PROVE  SumOf(f, s) \in Nat
    <3>1. s = {} /\ SumOf(f, {}) = 0
      BY <1>1, <2>1
    <3> QED BY <3>1
  <2> QED BY <2>1
<1>3. ASSUME NEW n \in N
      PROVE  n + 1 \in N
  <2>1. ASSUME NEW s \in SUBSET S, Cardinality(s) = n + 1
        PROVE  SumOf(f, s) \in Nat
    <3>1. PICK z \in s : TRUE
      <4>1. s # {}
        BY <1>1, <2>1
      <4> QED BY <4>1
    <3>2. Cardinality(s \ {z}) = n /\ s \ {z} \in SUBSET S
      BY <2>1, OneSmaller
    <3>3. SumOf(f, s \ {z}) \in Nat /\ f[z] \in Nat
      BY <1>3, <3>2
    <3>4. SumOf(f, s) = f[z] + SumOf(f, s \ {z})
      BY <1>1
    <3> QED BY <3>3, <3>4
  <2> QED BY <2>1
<1>4. N = Nat
  <2> HIDE DEF N
  <2>1. N \in SUBSET Nat
    BY DEF N
  <2> QED BY <1>2, <1>3, <2>1, NatSetInduction
<1>5. S \in SUBSET S /\ Cardinality(S) \in Nat
  BY <1>1
<1> QED BY <1>4, <1>5

(* A bound on the terms is a bound on the sum, up to a factor.             *)
LEMMA SumBounded ==
  ASSUME NEW S, IsFiniteSet(S), NEW f, \A x \in S : f[x] \in Int,
         NEW e, \A x \in S : e[x] \in Int, NEW k \in Int,
         \A x \in S : f[x] <= k * e[x]
  PROVE  SumOf(f, S) <= k * SumOf(e, S)
<1> DEFINE N == {n \in Nat : \A s \in SUBSET S :
                   Cardinality(s) = n => SumOf(f, s) <= k * SumOf(e, s)}
<1>1. ASSUME NEW s \in SUBSET S
      PROVE  /\ IsFiniteSet(s) /\ Cardinality(s) \in Nat /\ (Cardinality(s) = 0 <=> s = {})
             /\ SumOf(f, {}) = 0 /\ SumOf(e, {}) = 0
             /\ SumOf(f, s) \in Int /\ SumOf(e, s) \in Int
             /\ \A z \in s : /\ SumOf(f, s) = f[z] + SumOf(f, s \ {z})
                             /\ SumOf(e, s) = e[z] + SumOf(e, s \ {z})
  <2>1. IsFiniteSet(s) /\ Cardinality(s) \in Nat /\ (Cardinality(s) = 0 <=> s = {})
    BY FS_Subset, SubsetSizes
  <2>2. (\A x \in s : f[x] \in Int) /\ (\A x \in s : e[x] \in Int)
    OBVIOUS
  <2>3. /\ SumOf(f, {}) = 0 /\ SumOf(f, s) \in Int
        /\ \A z \in s : SumOf(f, s) = f[z] + SumOf(f, s \ {z})
    BY <2>1, <2>2, SumOfInt
  <2>4. /\ SumOf(e, {}) = 0 /\ SumOf(e, s) \in Int
        /\ \A z \in s : SumOf(e, s) = e[z] + SumOf(e, s \ {z})
    BY <2>1, <2>2, SumOfInt
  <2> QED BY <2>1, <2>3, <2>4
<1>2. 0 \in N
  <2>1. ASSUME NEW s \in SUBSET S, Cardinality(s) = 0
        PROVE  SumOf(f, s) <= k * SumOf(e, s)
    <3>1. s = {}
      BY <1>1, <2>1
    <3>2. SumOf(f, {}) = 0 /\ SumOf(e, {}) = 0
      BY <1>1
    <3> QED BY <3>1, <3>2
  <2> QED BY <2>1
<1>3. ASSUME NEW n \in N
      PROVE  n + 1 \in N
  <2>1. ASSUME NEW s \in SUBSET S, Cardinality(s) = n + 1
        PROVE  SumOf(f, s) <= k * SumOf(e, s)
    <3>1. PICK z \in s : TRUE
      <4>1. s # {}
        BY <1>1, <2>1
      <4> QED BY <4>1
    <3>2. Cardinality(s \ {z}) = n /\ s \ {z} \in SUBSET S
      BY <2>1, OneSmaller
    <3>3. PICK a, b : a = SumOf(f, s \ {z}) /\ b = SumOf(e, s \ {z})
      OBVIOUS
    <3>4. a <= k * b /\ a \in Int /\ b \in Int
      BY <1>1, <1>3, <3>2, <3>3
    <3>5. SumOf(f, s) = f[z] + a /\ SumOf(e, s) = e[z] + b
      BY <1>1, <3>3
    <3>6. f[z] <= k * e[z] /\ f[z] \in Int /\ e[z] \in Int
      OBVIOUS
    <3>7. PICK p, q : p = k * b /\ q = k * e[z]
      OBVIOUS
    <3>8. p \in Int /\ q \in Int /\ k * (e[z] + b) = q + p
      BY <3>4, <3>6, <3>7
    <3>9. f[z] + a <= q + p
      BY <3>4, <3>6, <3>7, <3>8
    <3> QED BY <3>5, <3>8, <3>9
  <2> QED BY <2>1
<1>4. N = Nat
  <2> HIDE DEF N
  <2>1. N \in SUBSET Nat
    BY DEF N
  <2> QED BY <1>2, <1>3, <2>1, NatSetInduction
<1> QED BY <1>1, <1>4

(* A part of natural numbers adds up to no more than the whole.            *)
LEMMA SumOfPart ==
  ASSUME NEW T, IsFiniteSet(T), NEW f, \A x \in T : f[x] \in Nat, NEW S \in SUBSET T
  PROVE  SumOf(f, S) <= SumOf(f, T)
<1> DEFINE N == {n \in Nat : \A t \in SUBSET T :
                   Cardinality(t) = n => \A s \in SUBSET t : SumOf(f, s) <= SumOf(f, t)}
<1>1. ASSUME NEW t \in SUBSET T
      PROVE  /\ Cardinality(t) \in Nat /\ (Cardinality(t) = 0 <=> t = {})
             /\ SumOf(f, t) \in Nat
             /\ \A z \in t : SumOf(f, t) = f[z] + SumOf(f, t \ {z})
  <2>1. IsFiniteSet(t) /\ Cardinality(t) \in Nat /\ (Cardinality(t) = 0 <=> t = {})
    BY FS_Subset, SubsetSizes
  <2>2. (\A x \in t : f[x] \in Nat) /\ (\A x \in t : f[x] \in Int)
    OBVIOUS
  <2>3. SumOf(f, t) \in Nat
    BY <2>1, <2>2, SumOfNat
  <2>4. \A z \in t : SumOf(f, t) = f[z] + SumOf(f, t \ {z})
    BY <2>1, <2>2, SumOfInt
  <2> QED BY <2>1, <2>3, <2>4
<1>2. 0 \in N
  <2>1. ASSUME NEW t \in SUBSET T, Cardinality(t) = 0, NEW s \in SUBSET t
        PROVE  SumOf(f, s) <= SumOf(f, t)
    <3>1. t = {} /\ s = {} /\ SumOf(f, t) \in Nat
      BY <1>1, <2>1
    <3> QED BY <3>1
  <2> QED BY <2>1
<1>3. ASSUME NEW n \in N
      PROVE  n + 1 \in N
  <2>1. ASSUME NEW t \in SUBSET T, Cardinality(t) = n + 1, NEW s \in SUBSET t
        PROVE  SumOf(f, s) <= SumOf(f, t)
    <3>1. CASE s = t
      <4>1. SumOf(f, t) \in Nat
        BY <1>1
      <4> QED BY <3>1, <4>1
    <3>2. CASE s # t
      <4>1. PICK z \in t : z \notin s
        BY <3>2
      <4>2. Cardinality(t \ {z}) = n /\ t \ {z} \in SUBSET T
        BY <2>1, OneSmaller
      <4>3. s \in SUBSET (t \ {z})
        BY <4>1
      <4>4. SumOf(f, s) <= SumOf(f, t \ {z})
        BY <1>3, <4>2, <4>3
      <4>5. SumOf(f, t) = f[z] + SumOf(f, t \ {z}) /\ f[z] \in Nat
        BY <1>1
      <4>6. SumOf(f, t \ {z}) \in Nat /\ SumOf(f, s) \in Nat
        BY <1>1, <4>2
      <4> QED BY <4>4, <4>5, <4>6
    <3> QED BY <3>1, <3>2
  <2> QED BY <2>1
<1>4. N = Nat
  <2> HIDE DEF N
  <2>1. N \in SUBSET Nat
    BY DEF N
  <2> QED BY <1>2, <1>3, <2>1, NatSetInduction
<1>5. T \in SUBSET T /\ Cardinality(T) \in Nat
  BY <1>1
<1> QED BY <1>4, <1>5

(* A bound on the terms and how many there are.                            *)
LEMMA SumAtMost ==
  ASSUME NEW S, IsFiniteSet(S), NEW f, NEW k \in Int,
         \A x \in S : f[x] \in Int /\ f[x] <= k
  PROVE  SumOf(f, S) <= k * Cardinality(S)
<1> DEFINE N == {n \in Nat : \A s \in SUBSET S : Cardinality(s) = n => SumOf(f, s) <= k * n}
<1>1. ASSUME NEW s \in SUBSET S
      PROVE  /\ Cardinality(s) \in Nat /\ (Cardinality(s) = 0 <=> s = {})
             /\ SumOf(f, {}) = 0 /\ SumOf(f, s) \in Int
             /\ \A z \in s : SumOf(f, s) = f[z] + SumOf(f, s \ {z})
  <2>1. IsFiniteSet(s) /\ Cardinality(s) \in Nat /\ (Cardinality(s) = 0 <=> s = {})
    BY FS_Subset, SubsetSizes
  <2>2. \A x \in s : f[x] \in Int
    OBVIOUS
  <2> QED BY <2>1, <2>2, SumOfInt
<1>2. 0 \in N
  <2>1. ASSUME NEW s \in SUBSET S, Cardinality(s) = 0
        PROVE  SumOf(f, s) <= k * 0
    <3>1. s = {} /\ SumOf(f, {}) = 0
      BY <1>1, <2>1
    <3> QED BY <3>1
  <2> QED BY <2>1
<1>3. ASSUME NEW n \in N
      PROVE  n + 1 \in N
  <2>1. ASSUME NEW s \in SUBSET S, Cardinality(s) = n + 1
        PROVE  SumOf(f, s) <= k * (n + 1)
    <3>1. PICK z \in s : TRUE
      <4>1. s # {}
        BY <1>1, <2>1
      <4> QED BY <4>1
    <3>2. Cardinality(s \ {z}) = n /\ s \ {z} \in SUBSET S
      BY <2>1, OneSmaller
    <3>3. SumOf(f, s \ {z}) <= k * n /\ SumOf(f, s \ {z}) \in Int
      BY <1>1, <1>3, <3>2
    <3>4. SumOf(f, s) = f[z] + SumOf(f, s \ {z}) /\ f[z] \in Int /\ f[z] <= k
      BY <1>1
    <3>5. k * (n + 1) = k * n + k /\ k * n \in Int
      OBVIOUS
    <3> QED BY <3>3, <3>4, <3>5
  <2> QED BY <2>1
<1>4. N = Nat
  <2> HIDE DEF N
  <2>1. N \in SUBSET Nat
    BY DEF N
  <2> QED BY <1>2, <1>3, <2>1, NatSetInduction
<1>5. S \in SUBSET S /\ Cardinality(S) \in Nat
  BY <1>1
<1> QED BY <1>4, <1>5

(* Of finitely many integers one is the greatest.                          *)
Values(base, f, S) == {base} \cup {f[x] : x \in S}
HasGreatest(T) == \E m \in T : m \in Int /\ \A y \in T : y <= m

LEMMA SomeGreatest ==
  ASSUME NEW S, IsFiniteSet(S), NEW f, \A x \in S : f[x] \in Int, NEW base \in Int
  PROVE  HasGreatest(Values(base, f, S))
<1> DEFINE all(s) == {base} \cup {f[x] : x \in s}
           has(s) == \E m \in all(s) : m \in Int /\ \A y \in all(s) : y <= m
           N == {n \in Nat : \A s \in SUBSET S : Cardinality(s) = n => has(s)}
<1>1. \A s \in SUBSET S : Cardinality(s) \in Nat /\ (Cardinality(s) = 0 <=> s = {})
  BY SubsetSizes
<1>2. 0 \in N
  <2>1. ASSUME NEW s \in SUBSET S, Cardinality(s) = 0
        PROVE  has(s)
    <3>1. s = {}
      BY <1>1, <2>1
    <3> QED BY <3>1
  <2> QED BY <2>1
<1>3. ASSUME NEW n \in N
      PROVE  n + 1 \in N
  <2>1. ASSUME NEW s \in SUBSET S, Cardinality(s) = n + 1
        PROVE  has(s)
    <3>1. PICK z \in s : TRUE
      <4>1. s # {}
        BY <1>1, <2>1
      <4> QED BY <4>1
    <3>2. Cardinality(s \ {z}) = n /\ s \ {z} \in SUBSET S
      BY <2>1, OneSmaller
    <3>3. PICK m \in all(s \ {z}) : m \in Int /\ \A y \in all(s \ {z}) : y <= m
      BY <1>3, <3>2
    <3>4. f[z] \in Int /\ all(s) = all(s \ {z}) \cup {f[z]}
      OBVIOUS
    <3>5. CASE f[z] <= m
      <4>1. m \in all(s) /\ \A y \in all(s) : y <= m
        BY <3>3, <3>4, <3>5
      <4> QED BY <3>3, <4>1
    <3>6. CASE m < f[z]
      <4>1. \A y \in all(s \ {z}) : y \in Int
        OBVIOUS
      <4>2. f[z] \in all(s)
        OBVIOUS
      <4>3. \A y \in all(s) : y <= f[z]
        <5> HIDE DEF all
        <5> QED BY <3>3, <3>4, <3>6, <4>1
      <4> QED BY <3>4, <4>2, <4>3
    <3> QED BY <3>3, <3>4, <3>5, <3>6
  <2> QED BY <2>1
<1>4. N = Nat
  <2> HIDE DEF N
  <2>1. N \in SUBSET Nat
    BY DEF N
  <2> QED BY <1>2, <1>3, <2>1, NatSetInduction
<1>5. S \in SUBSET S /\ Cardinality(S) \in Nat
  BY <1>1
<1> QED BY <1>4, <1>5 DEF HasGreatest, Values

-----------------------------------------------------------------------------
(* Least and greatest.                                                     *)

(* The least element of a set of integers, which is what Min chooses, and  *)
(* the greatest, which is what Max chooses.                                *)
LEMMA MinIs ==
  ASSUME NEW S \in SUBSET Int, NEW x \in S, \A y \in S : x <= y
  PROVE  Min(S) = x
<1>1. \A z \in S : (\A y \in S : z <= y) => z = x
  OBVIOUS
<1> QED BY <1>1 DEF Min

LEMMA MaxIs ==
  ASSUME NEW S \in SUBSET Int, NEW x \in S, \A y \in S : y <= x
  PROVE  Max(S) = x
<1>1. \A z \in S : (\A y \in S : z >= y) => z = x
  OBVIOUS
<1> QED BY <1>1 DEF Max

(* Of two numbers. *)
LEMMA LesserIs ==
  ASSUME NEW a \in Int, NEW b \in Int
  PROVE  Min({a, b}) = IF b <= a THEN b ELSE a
<1> DEFINE S == {a, b}
<1>1. S \in SUBSET Int /\ a \in S /\ b \in S /\ \A y \in S : y = a \/ y = b
  OBVIOUS
<1> SUFFICES Min(S) = IF b <= a THEN b ELSE a
  OBVIOUS
<1> HIDE DEF S
<1>2. CASE b <= a
  <2>1. \A y \in S : b <= y
    BY <1>1, <1>2
  <2> QED BY <1>1, <1>2, <2>1, MinIs
<1>3. CASE ~(b <= a)
  <2>1. \A y \in S : a <= y
    BY <1>1, <1>3
  <2> QED BY <1>1, <1>3, <2>1, MinIs
<1> QED BY <1>2, <1>3

LEMMA GreaterIs ==
  ASSUME NEW a \in Int, NEW b \in Int
  PROVE  Max({a, b}) = IF a <= b THEN b ELSE a
<1> DEFINE S == {a, b}
<1>1. S \in SUBSET Int /\ a \in S /\ b \in S /\ \A y \in S : y = a \/ y = b
  OBVIOUS
<1> SUFFICES Max(S) = IF a <= b THEN b ELSE a
  OBVIOUS
<1> HIDE DEF S
<1>2. CASE a <= b
  <2>1. \A y \in S : y <= b
    BY <1>1, <1>2
  <2> QED BY <1>1, <1>2, <2>1, MaxIs
<1>3. CASE ~(a <= b)
  <2>1. \A y \in S : y <= a
    BY <1>1, <1>3
  <2> QED BY <1>1, <1>3, <2>1, MaxIs
<1> QED BY <1>2, <1>3

(* A set of positions has a last one.                                      *)
LEMMA LastPosition ==
  ASSUME NEW n \in Nat, NEW s \in SUBSET (1..n), s # {}
  PROVE  Max(s) \in s /\ \A k \in s : k <= Max(s)
<1>1. PICK z \in s : TRUE
  OBVIOUS
<1>2. PICK f : f = [x \in s |-> x]
  OBVIOUS
<1>3. IsFiniteSet(s) /\ s \in SUBSET Int /\ z \in Int /\ \A x \in s : f[x] \in Int
  <2>1. IsFiniteSet(1..n)
    BY FS_Interval
  <2>2. IsFiniteSet(s)
    BY <2>1, FS_Subset
  <2>3. s \in SUBSET Int /\ \A x \in s : x \in Int
    OBVIOUS
  <2> QED BY <1>1, <1>2, <2>2, <2>3
<1>4. Values(z, f, s) = s
  BY <1>1, <1>2 DEF Values
<1>5. PICK m \in s : \A y \in s : y <= m
  BY <1>3, <1>4, SomeGreatest DEF HasGreatest
<1> QED BY <1>3, <1>5, MaxIs

(* Of the first k positions the last is k, and the rest the first k - 1.   *)
LEMMA LastOfFirst ==
  ASSUME NEW k \in Nat \ {0}
  PROVE  Max(1..k) = k /\ (1..k) \ {k} = 1..(k - 1)
<1>1. 1..k \in SUBSET Int /\ k \in 1..k /\ \A y \in 1..k : y <= k
  OBVIOUS
<1>2. Max(1..k) = k
  BY <1>1, MaxIs
<1> QED BY <1>2

(* A fold that picks positions from the last to the first exists.          *)
LastIn(s) == Max(s)
FoldsUpTo(n, V, base, step) ==
  \E g \in [SUBSET (1..n) -> V] : \A s \in SUBSET (1..n) :
    g[s] = IF s = {} THEN base ELSE step[LastIn(s)][g[s \ {LastIn(s)}]]

LEMMA SequenceFoldExists ==
  ASSUME NEW n \in Nat, NEW V, NEW base \in V, NEW step \in [1..n -> [V -> V]]
  PROVE  FoldsUpTo(n, V, base, step)
<1>1. PICK pick : pick = [s \in (SUBSET (1..n)) \ {{}} |-> LastIn(s)]
  OBVIOUS
<1>2. Picks(pick, 1..n)
  <2>1. ASSUME NEW s \in (SUBSET (1..n)) \ {{}}
        PROVE  pick[s] \in s
    <3>1. LastIn(s) \in s
      BY LastPosition DEF LastIn
    <3>2. pick[s] = LastIn(s)
      BY <1>1
    <3> QED BY <3>1, <3>2
  <2> QED BY <2>1 DEF Picks
<1>3. IsFiniteSet(1..n)
  BY FS_Interval
<1>4. PICK g \in [SUBSET (1..n) -> V] : IsFold(step, pick, base, 1..n, g)
  BY <1>2, <1>3, FoldExists
<1>5. ASSUME NEW s \in SUBSET (1..n)
      PROVE  g[s] = IF s = {} THEN base ELSE step[LastIn(s)][g[s \ {LastIn(s)}]]
  <2>1. g[s] = IF s = {} THEN base ELSE step[pick[s]][g[s \ {pick[s]}]]
    BY <1>4 DEF IsFold
  <2>2. s # {} => pick[s] = LastIn(s)
    BY <1>1
  <2> QED BY <2>1, <2>2
<1> QED BY <1>4, <1>5 DEF FoldsUpTo

=============================================================================
