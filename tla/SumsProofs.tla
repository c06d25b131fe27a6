------------------------------ MODULE SumsProofs ------------------------------
(***************************************************************************)
(* Induction over the natural numbers in a form without operator           *)
(* parameters, and what it gives about the sums of module Sums: over a     *)
(* sequence of naturals and over a finite set they are naturals, an        *)
(* element more is added, and listing a set does not change its sum.       *)
(***************************************************************************)
EXTENDS Sums, FiniteSets, TLAPS, WellFoundedInduction, FiniteSetTheorems

(* A set of naturals that has 0 and is closed under successor has them all. *)
LEMMA SetInduction ==
  ASSUME NEW S \in SUBSET Nat, 0 \in S, \A n \in S : n + 1 \in S
  PROVE  S = Nat
<1> SUFFICES ASSUME Nat \ S # {} PROVE FALSE
  OBVIOUS
<1>1. PICK n \in Nat \ S : \A m \in Nat \ S : n <= m
  <2> DEFINE R == OpToRel(<, Nat)
             T == Nat \ S
  <2>1. IsWellFoundedOn(R, Nat)
    BY NatLessThanWellFounded
  <2>2. PICK n \in T : \A m \in T : ~(<<m, n>> \in R)
    <3> HIDE DEF R
    <3> QED BY <2>1, WFMin
  <2>3. \A m \in T : ~(m < n)
    BY <2>2 DEF OpToRel
  <2> QED BY <2>3
<1>2. n # 0 /\ n - 1 \in Nat
  OBVIOUS
<1>3. n - 1 \in S
  BY <1>1, <1>2
<1> QED BY <1>3

(* A nonempty set of naturals has a least element.                          *)
LEMMA LeastElement ==
  ASSUME NEW S \in SUBSET Nat, S # {}
  PROVE  \E m \in S : \A n \in S : m <= n
<1> DEFINE Below == {k \in Nat : \A n \in S : k <= n}
<1>1. 0 \in Below
  OBVIOUS
<1>2. PICK k \in Below : k + 1 \notin Below
  <2> SUFFICES ASSUME \A k \in Below : k + 1 \in Below PROVE FALSE
    OBVIOUS
  <2>1. Below = Nat
    BY <1>1, SetInduction
  <2>2. PICK n \in S : TRUE
    OBVIOUS
  <2>3. n + 1 \in Below
    BY <2>1
  <2> QED BY <2>3
<1>3. PICK n \in S : n < k + 1
  BY <1>2
<1>4. n = k
  BY <1>3
<1> QED BY <1>4

(* The function SumSeq is defined by exists.                                *)
LEMMA PartialSumsExist ==
  ASSUME NEW q, NEW len \in Nat
  PROVE  \E f : f = [i \in 0..len |-> IF i = 0 THEN 0 ELSE f[i - 1] + q[i]]
<1> DEFINE P == {n \in Nat : \E f : f = [i \in 0..n |-> IF i = 0 THEN 0 ELSE f[i - 1] + q[i]]}
<1>1. 0 \in P
  <2> DEFINE g == [i \in 0..0 |-> 0]
  <2>1. g = [i \in 0..0 |-> IF i = 0 THEN 0 ELSE g[i - 1] + q[i]]
    OBVIOUS
  <2> QED BY <2>1
<1>2. ASSUME NEW n \in P PROVE n + 1 \in P
  <2>1. PICK f : f = [i \in 0..n |-> IF i = 0 THEN 0 ELSE f[i - 1] + q[i]]
    OBVIOUS
  <2> DEFINE g == [i \in 0..(n + 1) |-> IF i <= n THEN f[i] ELSE f[n] + q[n + 1]]
  <2>2. g = [i \in 0..(n + 1) |-> IF i = 0 THEN 0 ELSE g[i - 1] + q[i]]
    <3>1. ASSUME NEW i \in 0..(n + 1)
          PROVE  g[i] = IF i = 0 THEN 0 ELSE g[i - 1] + q[i]
      <4>1. CASE i <= n
        <5>1. g[i] = f[i] /\ (i # 0 => g[i - 1] = f[i - 1])
          BY <4>1
        <5>2. f[i] = IF i = 0 THEN 0 ELSE f[i - 1] + q[i]
          BY <2>1, <4>1
        <5> QED BY <5>1, <5>2
      <4>2. CASE i = n + 1
        BY <4>2
      <4> QED BY <4>1, <4>2
    <3> QED BY <3>1
  <2>3. \E h : h = [i \in 0..(n + 1) |-> IF i = 0 THEN 0 ELSE h[i - 1] + q[i]]
    <3> HIDE DEF g
    <3> QED BY <2>2
  <2> QED BY <2>3
<1>3. P = Nat
  BY <1>1, <1>2, SetInduction
<1> QED BY <1>3

(* SumSeq is the last of the partial sums.                                  *)
PartialSums(q) == CHOOSE f : f = [i \in 0..Len(q) |-> IF i = 0 THEN 0 ELSE f[i - 1] + q[i]]

(* They exist and satisfy their recursive equation.                         *)
LEMMA PartialSumsEquation ==
  ASSUME NEW q, Len(q) \in Nat
  PROVE  /\ PartialSums(q) = [i \in 0..Len(q) |-> IF i = 0 THEN 0 ELSE PartialSums(q)[i - 1] + q[i]]
         /\ SumSeq(q) = PartialSums(q)[Len(q)]
<1>1. \E f : f = [i \in 0..Len(q) |-> IF i = 0 THEN 0 ELSE f[i - 1] + q[i]]
  BY PartialSumsExist
<1> QED BY <1>1 DEF PartialSums, SumSeq

(* The sum of a sequence of naturals is a natural, at every position.       *)
LEMMA PartialSumsNat ==
  ASSUME NEW q \in Seq(Nat)
  PROVE  \A i \in 0..Len(q) : PartialSums(q)[i] \in Nat
<1> DEFINE f == PartialSums(q)
           S == {n \in Nat : n <= Len(q) => f[n] \in Nat}
<1>0. f = [i \in 0..Len(q) |-> IF i = 0 THEN 0 ELSE f[i - 1] + q[i]]
  BY PartialSumsEquation
<1> HIDE DEF f
<1>1. 0 \in S
  BY <1>0
<1>2. ASSUME NEW n \in S PROVE n + 1 \in S
  BY <1>0
<1>3. S = Nat
  BY <1>1, <1>2, SetInduction
<1> QED BY <1>3 DEF f

(* So the sum of a sequence of naturals is a natural,                       *)
LEMMA SumSeqNat ==
  ASSUME NEW q \in Seq(Nat)
  PROVE  SumSeq(q) \in Nat
BY PartialSumsNat, PartialSumsEquation

(* and appending an element adds it.                                        *)
LEMMA SumSeqAppend ==
  ASSUME NEW q \in Seq(Nat), NEW x \in Nat
  PROVE  SumSeq(Append(q, x)) = SumSeq(q) + x
<1> DEFINE r == Append(q, x)
           f == PartialSums(q)
           g == PartialSums(r)
           S == {n \in Nat : n <= Len(q) => g[n] = f[n]}
<1>0. r \in Seq(Nat) /\ Len(r) = Len(q) + 1 /\ r[Len(q) + 1] = x /\ \A i \in 1..Len(q) : r[i] = q[i]
  OBVIOUS
<1>1. f = [i \in 0..Len(q) |-> IF i = 0 THEN 0 ELSE f[i - 1] + q[i]]
  BY PartialSumsEquation
<1>2. g = [i \in 0..Len(r) |-> IF i = 0 THEN 0 ELSE g[i - 1] + r[i]]
  BY <1>0, PartialSumsEquation
<1>3. SumSeq(q) = f[Len(q)] /\ SumSeq(r) = g[Len(r)]
  BY SMTT(15), <1>0, PartialSumsEquation
<1> HIDE DEF f, g, r
<1>4. 0 \in S
  BY <1>0, <1>1, <1>2
<1>5. ASSUME NEW n \in S PROVE n + 1 \in S
  BY <1>0, <1>1, <1>2
<1>6. S = Nat
  BY <1>4, <1>5, SetInduction
<1>7. g[Len(q)] = f[Len(q)]
  BY <1>6
<1>8. g[Len(q) + 1] = g[Len(q)] + x
  BY <1>0, <1>2
<1> QED BY <1>0, <1>3, <1>7, <1>8 DEF r
-----------------------------------------------------------------------------
(* The element SumOver takes from a set next, and what it adds up.          *)
Pick(T) == CHOOSE y \in T : TRUE
Adds(f, S, g) ==
  \A T \in SUBSET S : g[T] = IF T = {} THEN 0 ELSE f[Pick(T)] + g[T \ {Pick(T)}]
SetSums(f, S) ==
  CHOOSE g : g = [T \in SUBSET S |-> IF T = {} THEN 0 ELSE f[Pick(T)] + g[T \ {Pick(T)}]]

SumsExist(f, S) ==
  \E g : g = [T \in SUBSET S |-> IF T = {} THEN 0 ELSE f[Pick(T)] + g[T \ {Pick(T)}]]

(* Taking it leaves one element less.                                       *)
LEMMA PickFacts ==
  ASSUME NEW S, IsFiniteSet(S), NEW T \in SUBSET S
  PROVE  /\ IsFiniteSet(T) /\ Cardinality(T) \in Nat /\ (Cardinality(T) = 0 <=> T = {})
         /\ T # {} => /\ Pick(T) \in T /\ T \ {Pick(T)} \in SUBSET S
                      /\ Cardinality(T \ {Pick(T)}) = Cardinality(T) - 1
<1>1. IsFiniteSet(T) /\ Cardinality(T) \in Nat /\ (Cardinality(T) = 0 <=> T = {})
  BY FS_Subset, FS_CardinalityType, FS_EmptySet
<1>2. ASSUME T # {} PROVE Pick(T) \in T
  BY <1>2 DEF Pick
<1>3. ASSUME T # {} PROVE Cardinality(T \ {Pick(T)}) = Cardinality(T) - 1
  BY <1>1, <1>2, <1>3, FS_RemoveElement
<1> QED BY <1>1, <1>2, <1>3

(* Facts about every finite set, from those about one with a member less.   *)
LEMMA SubsetInduction ==
  ASSUME NEW S, IsFiniteSet(S), NEW Good \in SUBSET SUBSET S, {} \in Good,
         \A T \in SUBSET S : \A y \in T : T \ {y} \in Good => T \in Good
  PROVE  S \in Good
<1> DEFINE N == {n \in Nat : \A T \in SUBSET S : Cardinality(T) = n => T \in Good}
<1>1. 0 \in N
  <2>1. \A T \in SUBSET S : Cardinality(T) = 0 => T = {}
    BY PickFacts
  <2> QED BY <2>1
<1>2. ASSUME NEW n \in N PROVE n + 1 \in N
  <2> SUFFICES ASSUME NEW T \in SUBSET S, Cardinality(T) = n + 1 PROVE T \in Good
    OBVIOUS
  <2>1. n \in Nat /\ \A R \in SUBSET S : Cardinality(R) = n => R \in Good
    BY <1>2
  <2>2. T # {} /\ Pick(T) \in T /\ Cardinality(T \ {Pick(T)}) = n /\ T \ {Pick(T)} \in SUBSET S
    BY <2>1, PickFacts, FS_EmptySet
  <2> QED BY <2>1, <2>2
<1> HIDE DEF N
<1>3. N = Nat
  <2>1. N \in SUBSET Nat
    BY DEF N
  <2> QED BY <1>1, <1>2, <2>1, SetInduction
<1>4. Cardinality(S) \in Nat
  BY FS_CardinalityType
<1> QED BY <1>3, <1>4 DEF N

(* The function SumOver is defined by exists on a finite set.               *)
LEMMA SetSumsExist ==
  ASSUME NEW f, NEW S, IsFiniteSet(S)
  PROVE  SumsExist(f, S)
<1> DEFINE D(n) == {T \in SUBSET S : Cardinality(T) <= n}
           N == {n \in Nat : \E g : g = [T \in D(n) |-> IF T = {} THEN 0 ELSE f[Pick(T)] + g[T \ {Pick(T)}]]}
<1>1. 0 \in N
  <2> DEFINE g == [T \in D(0) |-> 0]
  <2>1. ASSUME NEW T \in D(0) PROVE T = {}
    <3>1. Cardinality(T) \in Nat /\ (Cardinality(T) = 0 <=> T = {})
      BY PickFacts
    <3> QED BY <3>1
  <2> HIDE DEF D
  <2>2. g = [T \in D(0) |-> IF T = {} THEN 0 ELSE f[Pick(T)] + g[T \ {Pick(T)}]]
    BY <2>1
  <2>3. \E h : h = [T \in D(0) |-> IF T = {} THEN 0 ELSE f[Pick(T)] + h[T \ {Pick(T)}]]
    <3> HIDE DEF g
    <3> QED BY <2>2, Zenon
  <2> QED BY <2>3
<1>2. ASSUME NEW n \in N PROVE n + 1 \in N
  <2>1. PICK g : g = [T \in D(n) |-> IF T = {} THEN 0 ELSE f[Pick(T)] + g[T \ {Pick(T)}]]
    OBVIOUS
  <2>a. n \in Nat
    OBVIOUS
  <2> HIDE DEF N
  <2> DEFINE h == [T \in D(n + 1) |-> IF T \in D(n) THEN g[T] ELSE f[Pick(T)] + g[T \ {Pick(T)}]]
  <2>2. ASSUME NEW T \in D(n + 1)
        PROVE  /\ T \in D(n) \/ T # {}
               /\ T # {} => T \ {Pick(T)} \in D(n) /\ T \ {Pick(T)} \in D(n + 1)
    <3>1. /\ Cardinality(T) \in Nat /\ (Cardinality(T) = 0 <=> T = {}) /\ Cardinality(T) <= n + 1
          /\ T # {} => /\ T \ {Pick(T)} \in SUBSET S
                       /\ Cardinality(T \ {Pick(T)}) = Cardinality(T) - 1
      BY PickFacts
    <3>2. T = {} => Cardinality(T) <= n
      BY <2>a, <3>1
    <3>3. T # {} => Cardinality(T \ {Pick(T)}) <= n /\ Cardinality(T \ {Pick(T)}) <= n + 1
      BY <2>a, <3>1
    <3> QED BY <3>1, <3>2, <3>3
  <2> HIDE DEF D
  <2>3. h = [T \in D(n + 1) |-> IF T = {} THEN 0 ELSE f[Pick(T)] + h[T \ {Pick(T)}]]
    <3>1. ASSUME NEW T \in D(n + 1) PROVE h[T] = IF T = {} THEN 0 ELSE f[Pick(T)] + h[T \ {Pick(T)}]
      <4>1. T # {} => h[T \ {Pick(T)}] = g[T \ {Pick(T)}]
        BY <2>2
      <4>2. CASE T \in D(n)
        <5>1. h[T] = g[T] /\ g[T] = IF T = {} THEN 0 ELSE f[Pick(T)] + g[T \ {Pick(T)}]
          BY <2>1, <4>2
        <5> HIDE DEF h
        <5> QED BY <4>1, <5>1
      <4>3. CASE T \notin D(n)
        <5>1. T # {} /\ h[T] = f[Pick(T)] + g[T \ {Pick(T)}]
          BY <2>2, <4>3
        <5> HIDE DEF h
        <5> QED BY <4>1, <5>1
      <4> QED BY <4>2, <4>3
    <3>2. h = [T \in D(n + 1) |-> h[T]]
      OBVIOUS
    <3> HIDE DEF h
    <3> QED BY <3>1, <3>2, Zenon
  <2>4. \E k : k = [T \in D(n + 1) |-> IF T = {} THEN 0 ELSE f[Pick(T)] + k[T \ {Pick(T)}]]
    <3> HIDE DEF h
    <3> QED BY <2>3, Zenon
  <2>5. n + 1 \in Nat
    BY <2>a
  <2> QED BY <2>4, <2>5, Zenon DEF N
<1>3. N = Nat
  BY <1>1, <1>2, SetInduction
<1>4. Cardinality(S) \in N /\ D(Cardinality(S)) = SUBSET S
  <2>1. Cardinality(S) \in Nat /\ \A T \in SUBSET S : Cardinality(T) <= Cardinality(S)
    BY FS_CardinalityType, FS_Subset
  <2> QED BY <1>3, <2>1
<1>5. \E g : g = [T \in D(Cardinality(S)) |-> IF T = {} THEN 0 ELSE f[Pick(T)] + g[T \ {Pick(T)}]]
  BY <1>4
<1> HIDE DEF D
<1> QED BY <1>4, <1>5 DEF SumsExist

(* It adds, and SumOver is its last value.                                  *)
LEMMA SetSumsAdd ==
  ASSUME NEW f, NEW S, IsFiniteSet(S)
  PROVE  Adds(f, S, SetSums(f, S)) /\ SumOver(f, S) = SetSums(f, S)[S]
<1> DEFINE g == SetSums(f, S)
<1>1. g = [T \in SUBSET S |-> IF T = {} THEN 0 ELSE f[Pick(T)] + g[T \ {Pick(T)}]]
  <2>1. SumsExist(f, S)
    BY SetSumsExist
  <2> QED BY <2>1, Zenon DEF SetSums, SumsExist
<1>2. SumOver(f, S) = g[S]
  BY Zenon DEF SumOver, SetSums, Pick
<1> HIDE DEF g
<1>3. Adds(f, S, g)
  BY <1>1, Zenon DEF Adds
<1> QED BY <1>2, <1>3 DEF g

(* Two functions that add on a set agree on it.                             *)
LEMMA AddsOnce ==
  ASSUME NEW f, NEW S, IsFiniteSet(S), NEW g, Adds(f, S, g), NEW R \in SUBSET S, NEW h, Adds(f, R, h)
  PROVE  g[R] = h[R]
<1> DEFINE N == {n \in Nat : \A T \in SUBSET R : Cardinality(T) = n => g[T] = h[T]}
<1>0. \A T \in SUBSET R : T \in SUBSET S
  OBVIOUS
<1>1. 0 \in N
  <2>1. \A T \in SUBSET R : Cardinality(T) = 0 => T = {}
    BY PickFacts
  <2>2. g[{}] = h[{}]
    <3>1. {} \in SUBSET R /\ {} \in SUBSET S
      OBVIOUS
    <3> QED BY <3>1 DEF Adds
  <2>3. ASSUME NEW T \in SUBSET R, Cardinality(T) = 0 PROVE g[T] = h[T]
    BY <2>1, <2>2, <2>3
  <2> QED BY <2>3
<1>2. ASSUME NEW n \in N PROVE n + 1 \in N
  <2>1. n \in Nat /\ \A T \in SUBSET R : Cardinality(T) = n => g[T] = h[T]
    OBVIOUS
  <2>2. ASSUME NEW T \in SUBSET R, Cardinality(T) = n + 1 PROVE g[T] = h[T]
    <3>0. IsFiniteSet(R) /\ T \in SUBSET R /\ T \in SUBSET S
      BY <1>0, FS_Subset
    <3>a. /\ Cardinality(T) = 0 <=> T = {}
          /\ T # {} => /\ T \ {Pick(T)} \in SUBSET R
                       /\ Cardinality(T \ {Pick(T)}) = Cardinality(T) - 1
      BY <3>0, PickFacts
    <3>1. T \in SUBSET S /\ T # {} /\ T \ {Pick(T)} \in SUBSET R /\ Cardinality(T \ {Pick(T)}) = n
      BY <2>1, <2>2, <3>0, <3>a
    <3>2. g[T \ {Pick(T)}] = h[T \ {Pick(T)}]
      BY <2>1, <3>1
    <3>3. g[T] = f[Pick(T)] + g[T \ {Pick(T)}] /\ h[T] = f[Pick(T)] + h[T \ {Pick(T)}]
      BY <3>1 DEF Adds
    <3> QED BY <3>2, <3>3
  <2> QED BY <2>1, <2>2
<1>3. N = Nat
  BY <1>1, <1>2, SetInduction
<1>4. Cardinality(R) \in N
  BY <1>3, FS_Subset, FS_CardinalityType
<1> QED BY <1>4

(* So SumOver adds one element and the sum of the others,                   *)
LEMMA SumOverPick ==
  ASSUME NEW f, NEW S, IsFiniteSet(S)
  PROVE  /\ SumOver(f, {}) = 0
         /\ S # {} => SumOver(f, S) = f[Pick(S)] + SumOver(f, S \ {Pick(S)})
<1>1. SumOver(f, {}) = 0
  <2>1. Adds(f, {}, SetSums(f, {})) /\ SumOver(f, {}) = SetSums(f, {})[{}]
    BY SetSumsAdd, FS_EmptySet
  <2> QED BY <2>1 DEF Adds
<1>2. ASSUME S # {} PROVE SumOver(f, S) = f[Pick(S)] + SumOver(f, S \ {Pick(S)})
  <2> DEFINE R == S \ {Pick(S)}
  <2>1. R \in SUBSET S /\ IsFiniteSet(R)
    BY PickFacts, FS_Subset
  <2>2. Adds(f, S, SetSums(f, S)) /\ SumOver(f, S) = SetSums(f, S)[S]
    BY SetSumsAdd
  <2>3. Adds(f, R, SetSums(f, R)) /\ SumOver(f, R) = SetSums(f, R)[R]
    BY <2>1, SetSumsAdd
  <2>4. SetSums(f, S)[R] = SetSums(f, R)[R]
    BY <2>1, <2>2, <2>3, AddsOnce
  <2>5. SetSums(f, S)[S] = f[Pick(S)] + SetSums(f, S)[R]
    BY <1>2, <2>2 DEF Adds
  <2> QED BY <2>2, <2>3, <2>4, <2>5
<1> QED BY <1>1, <1>2

(* a sum of naturals is a natural,                                          *)
LEMMA SumOverNat ==
  ASSUME NEW S, IsFiniteSet(S), NEW f, \A x \in S : f[x] \in Nat
  PROVE  SumOver(f, S) \in Nat
<1> DEFINE N == {n \in Nat : \A T \in SUBSET S : Cardinality(T) = n => SumOver(f, T) \in Nat}
<1>1. 0 \in N
  <2>1. ASSUME NEW T \in SUBSET S, Cardinality(T) = 0 PROVE SumOver(f, T) \in Nat
    <3>1. T = {}
      BY <2>1, PickFacts
    <3>2. SumOver(f, {}) = 0
      BY FS_EmptySet, SumOverPick
    <3> QED BY <3>1, <3>2
  <2> QED BY <2>1
<1>2. ASSUME NEW n \in N PROVE n + 1 \in N
  <2>1. n \in Nat /\ \A T \in SUBSET S : Cardinality(T) = n => SumOver(f, T) \in Nat
    OBVIOUS
  <2>2. ASSUME NEW T \in SUBSET S, Cardinality(T) = n + 1 PROVE SumOver(f, T) \in Nat
    <3>1. /\ IsFiniteSet(T) /\ (Cardinality(T) = 0 <=> T = {})
          /\ T # {} => /\ Pick(T) \in T /\ T \ {Pick(T)} \in SUBSET S
                       /\ Cardinality(T \ {Pick(T)}) = Cardinality(T) - 1
      BY PickFacts
    <3>2. T # {} /\ Cardinality(T \ {Pick(T)}) = n
      BY <2>1, <2>2, <3>1
    <3>3. SumOver(f, T \ {Pick(T)}) \in Nat /\ f[Pick(T)] \in Nat
      BY <2>1, <3>1, <3>2
    <3>4. SumOver(f, T) = f[Pick(T)] + SumOver(f, T \ {Pick(T)})
      BY <3>1, <3>2, SumOverPick
    <3> QED BY <3>3, <3>4
  <2> QED BY <2>1, <2>2
<1>3. N = Nat
  BY <1>1, <1>2, SetInduction
<1>4. Cardinality(S) \in N
  BY <1>3, FS_CardinalityType
<1> QED BY <1>4

(* and whichever element is taken first gives the same.                     *)
LEMMA SumOverRemove ==
  ASSUME NEW S, IsFiniteSet(S), NEW f, \A x \in S : f[x] \in Nat, NEW y \in S
  PROVE  SumOver(f, S) = f[y] + SumOver(f, S \ {y})
<1> DEFINE N == {n \in Nat : \A T \in SUBSET S : Cardinality(T) = n =>
                               \A x \in T : SumOver(f, T) = f[x] + SumOver(f, T \ {x})}
<1>1. 0 \in N
  <2>1. \A T \in SUBSET S : Cardinality(T) = 0 => T = {}
    <3>1. ASSUME NEW T \in SUBSET S PROVE Cardinality(T) = 0 => T = {}
      BY PickFacts
    <3> QED BY <3>1
  <2> QED BY <2>1
<1>2. ASSUME NEW n \in N PROVE n + 1 \in N
  <2>1. n \in Nat /\ \A T \in SUBSET S : Cardinality(T) = n =>
                       \A x \in T : SumOver(f, T) = f[x] + SumOver(f, T \ {x})
    OBVIOUS
  <2> HIDE DEF N
  <2>2. ASSUME NEW T \in SUBSET S, Cardinality(T) = n + 1, NEW x \in T
        PROVE  SumOver(f, T) = f[x] + SumOver(f, T \ {x})
    <3> DEFINE c == Pick(T)
    <3>1. IsFiniteSet(T) /\ T # {} /\ c \in T
      BY PickFacts
    <3>2. SumOver(f, T) = f[c] + SumOver(f, T \ {c})
      BY <3>1, SumOverPick
    <3> HIDE DEF c
    <3>3. CASE x = c
      BY <3>2, <3>3
    <3>4. CASE x # c
      <4>1. /\ T \ {c} \in SUBSET S /\ T \ {x} \in SUBSET S /\ x \in T \ {c} /\ c \in T \ {x}
            /\ (T \ {c}) \ {x} = (T \ {x}) \ {c}
        BY <3>1, <3>4
      <4>2. Cardinality(T \ {c}) = n /\ Cardinality(T \ {x}) = n
        <5>1. Cardinality(T \ {c}) = Cardinality(T) - 1
          BY <3>1, FS_RemoveElement
        <5>2. Cardinality(T \ {x}) = Cardinality(T) - 1
          BY <3>1, FS_RemoveElement
        <5> QED BY <2>1, <2>2, <5>1, <5>2
      <4>3. SumOver(f, T \ {c}) = f[x] + SumOver(f, (T \ {c}) \ {x})
        BY <2>1, <4>1, <4>2
      <4>4. SumOver(f, T \ {x}) = f[c] + SumOver(f, (T \ {x}) \ {c})
        BY <2>1, <4>1, <4>2
      <4>5. f[x] \in Nat /\ f[c] \in Nat
        BY <3>1
      <4>6. SumOver(f, (T \ {x}) \ {c}) \in Nat
        <5>1. IsFiniteSet((T \ {x}) \ {c}) /\ \A z \in (T \ {x}) \ {c} : f[z] \in Nat
          BY <3>1, FS_Subset
        <5> QED BY <5>1, SumOverNat
      <4>7. \A a, b, d \in Nat : a + (b + d) = b + (a + d)
        OBVIOUS
      <4> QED BY <3>2, <4>1, <4>3, <4>4, <4>5, <4>6, <4>7
    <3> QED BY <3>3, <3>4
  <2> QED BY <2>1, <2>2 DEF N
<1>3. N = Nat
  BY <1>1, <1>2, SetInduction
<1>4. Cardinality(S) \in N
  BY <1>3, FS_CardinalityType
<1> QED BY <1>4

(* One element more,                                                        *)
LEMMA SumOverAdd ==
  ASSUME NEW S, IsFiniteSet(S), NEW y, y \notin S, NEW f, \A x \in S \cup {y} : f[x] \in Nat
  PROVE  SumOver(f, S \cup {y}) = f[y] + SumOver(f, S)
<1> DEFINE R == S \cup {y}
<1>1. IsFiniteSet(R) /\ y \in R /\ R \ {y} = S
  BY FS_AddElement
<1> HIDE DEF R
<1>2. \A x \in R : f[x] \in Nat
  BY DEF R
<1>3. SumOver(f, R) = f[y] + SumOver(f, R \ {y})
  BY <1>1, <1>2, SumOverRemove
<1> QED BY <1>1, <1>3 DEF R

(* and the sum over a set and another that is apart from it.                *)
LEMMA SumOverUnion ==
  ASSUME NEW S, IsFiniteSet(S), NEW R, IsFiniteSet(R), S \cap R = {},
         NEW f, \A x \in S \cup R : f[x] \in Nat
  PROVE  SumOver(f, S \cup R) = SumOver(f, S) + SumOver(f, R)
<1> DEFINE N == {n \in Nat : \A T \in SUBSET R : Cardinality(T) = n =>
                               SumOver(f, S \cup T) = SumOver(f, S) + SumOver(f, T)}
<1>0. SumOver(f, S) \in Nat /\ \A x \in R : f[x] \in Nat
  <2>1. \A x \in S : f[x] \in Nat
    OBVIOUS
  <2> QED BY <2>1, SumOverNat
<1>1. 0 \in N
  <2>1. ASSUME NEW T \in SUBSET R, Cardinality(T) = 0 PROVE SumOver(f, S \cup T) = SumOver(f, S) + SumOver(f, T)
    <3>1. T = {} /\ S \cup T = S
      BY <2>1, PickFacts
    <3>2. SumOver(f, {}) = 0
      BY FS_EmptySet, SumOverPick
    <3> QED BY <1>0, <3>1, <3>2
  <2> QED BY <2>1
<1>2. ASSUME NEW n \in N PROVE n + 1 \in N
  <2>1. n \in Nat /\ \A T \in SUBSET R : Cardinality(T) = n =>
                       SumOver(f, S \cup T) = SumOver(f, S) + SumOver(f, T)
    OBVIOUS
  <2> HIDE DEF N
  <2>2. ASSUME NEW T \in SUBSET R, Cardinality(T) = n + 1
        PROVE  SumOver(f, S \cup T) = SumOver(f, S) + SumOver(f, T)
    <3> DEFINE c == Pick(T)
               Q == T \ {c}
    <3>1. /\ IsFiniteSet(T) /\ (Cardinality(T) = 0 <=> T = {})
          /\ T # {} => /\ c \in T /\ T \ {c} \in SUBSET R
                       /\ Cardinality(T \ {c}) = Cardinality(T) - 1
      BY PickFacts
    <3> HIDE DEF c
    <3>2. /\ T # {} /\ c \in T /\ Q \in SUBSET R /\ Cardinality(Q) = n
          /\ IsFiniteSet(Q) /\ c \notin S /\ c \notin Q /\ T = Q \cup {c} /\ c \in R
      <4>1. T # {} /\ Cardinality(Q) = n
        BY <2>1, <2>2, <3>1
      <4> QED BY <3>1, <4>1, FS_Subset
    <3> HIDE DEF Q
    <3>3. SumOver(f, S \cup Q) = SumOver(f, S) + SumOver(f, Q)
      BY <2>1, <3>2
    <3>4. SumOver(f, T) = f[c] + SumOver(f, Q)
      <4>1. \A x \in Q \cup {c} : f[x] \in Nat
        BY <1>0, <3>2
      <4> QED BY <3>2, <4>1, SumOverAdd
    <3>5. SumOver(f, S \cup T) = f[c] + SumOver(f, S \cup Q)
      <4>1. /\ IsFiniteSet(S \cup Q) /\ c \notin S \cup Q /\ (S \cup Q) \cup {c} = S \cup T
            /\ \A x \in (S \cup Q) \cup {c} : f[x] \in Nat
        BY <3>2, FS_Union
      <4>2. SumOver(f, (S \cup Q) \cup {c}) = f[c] + SumOver(f, S \cup Q)
        BY <4>1, SumOverAdd
      <4> QED BY <4>1, <4>2
    <3>6. SumOver(f, Q) \in Nat /\ f[c] \in Nat
      <4>1. \A x \in Q : f[x] \in Nat
        BY <1>0, <3>2
      <4> QED BY <1>0, <3>2, <4>1, SumOverNat
    <3>7. \A a, b, d \in Nat : a + (b + d) = b + (a + d)
      OBVIOUS
    <3> QED BY <1>0, <3>3, <3>4, <3>5, <3>6, <3>7
  <2> QED BY <2>1, <2>2 DEF N
<1>3. N = Nat
  BY <1>1, <1>2, SetInduction
<1>4. Cardinality(R) \in N
  BY <1>3, FS_CardinalityType
<1> QED BY <1>4

(* What the sum says of the values outside the set is nothing.              *)
LEMMA SumOverSame ==
  ASSUME NEW S, IsFiniteSet(S), NEW f, NEW g, \A x \in S : f[x] = g[x]
  PROVE  SumOver(f, S) = SumOver(g, S)
<1> DEFINE N == {n \in Nat : \A T \in SUBSET S : Cardinality(T) = n => SumOver(f, T) = SumOver(g, T)}
<1>0. SumOver(f, {}) = 0 /\ SumOver(g, {}) = 0
  BY FS_EmptySet, SumOverPick
<1>1. 0 \in N
  <2>1. ASSUME NEW T \in SUBSET S, Cardinality(T) = 0 PROVE SumOver(f, T) = SumOver(g, T)
    <3>1. T = {}
      BY <2>1, PickFacts
    <3> QED BY <1>0, <3>1
  <2> QED BY <2>1
<1>2. ASSUME NEW n \in N PROVE n + 1 \in N
  <2>1. n \in Nat /\ \A T \in SUBSET S : Cardinality(T) = n => SumOver(f, T) = SumOver(g, T)
    OBVIOUS
  <2> HIDE DEF N
  <2>2. ASSUME NEW T \in SUBSET S, Cardinality(T) = n + 1 PROVE SumOver(f, T) = SumOver(g, T)
    <3>1. /\ IsFiniteSet(T) /\ (Cardinality(T) = 0 <=> T = {})
          /\ T # {} => /\ Pick(T) \in T /\ T \ {Pick(T)} \in SUBSET S
                       /\ Cardinality(T \ {Pick(T)}) = Cardinality(T) - 1
      BY PickFacts
    <3>2. T # {} /\ Cardinality(T \ {Pick(T)}) = n
      BY <2>1, <2>2, <3>1
    <3>3. SumOver(f, T \ {Pick(T)}) = SumOver(g, T \ {Pick(T)}) /\ f[Pick(T)] = g[Pick(T)]
      BY <2>1, <3>1, <3>2
    <3>4. SumOver(f, T) = f[Pick(T)] + SumOver(f, T \ {Pick(T)})
      BY <3>1, <3>2, SumOverPick
    <3>5. SumOver(g, T) = g[Pick(T)] + SumOver(g, T \ {Pick(T)})
      BY <3>1, <3>2, SumOverPick
    <3> QED BY <3>3, <3>4, <3>5
  <2> QED BY <2>1, <2>2 DEF N
<1>3. N = Nat
  BY <1>1, <1>2, SetInduction
<1>4. Cardinality(S) \in N
  BY <1>3, FS_CardinalityType
<1> QED BY <1>4

(* The sequence q lists the members of S, each once, and r the values of f  *)
(* in the same order.                                                       *)
Lists(q, S, f, r) ==
  /\ Len(q) \in Nat /\ DOMAIN q = 1..Len(q) /\ r \in Seq(Nat) /\ Len(r) = Len(q)
  /\ S = {q[i] : i \in DOMAIN q} /\ \A i, j \in DOMAIN q : q[i] = q[j] => i = j
  /\ \A i \in DOMAIN q : r[i] = f[q[i]]

(* Then the sum of f over S is that of r.                                   *)
LEMMA SumOverList ==
  ASSUME NEW q, NEW S, NEW f, NEW r, Lists(q, S, f, r)
  PROVE  SumOver(f, S) = SumSeq(r) /\ IsFiniteSet(S)
<1> DEFINE P(k) == {q[i] : i \in 1..k}
           g == PartialSums(r)
           N == {k \in Nat : k <= Len(q) => IsFiniteSet(P(k)) /\ SumOver(f, P(k)) = g[k]}
<1>s. /\ Len(q) \in Nat /\ DOMAIN q = 1..Len(q) /\ r \in Seq(Nat) /\ Len(r) = Len(q)
      /\ \A i, j \in DOMAIN q : q[i] = q[j] => i = j
      /\ \A i \in DOMAIN q : r[i] = f[q[i]]
  BY DEF Lists
<1>0. Len(q) \in Nat /\ DOMAIN q = 1..Len(q) /\ \A i \in 1..Len(q) : f[q[i]] \in Nat
  BY <1>s
<1>1. g = [i \in 0..Len(r) |-> IF i = 0 THEN 0 ELSE g[i - 1] + r[i]] /\ SumSeq(r) = g[Len(r)]
  BY <1>s, PartialSumsEquation
<1>2. \A i \in 0..Len(r) : g[i] \in Nat
  BY <1>s, PartialSumsNat
<1> HIDE DEF g
<1>3. 0 \in N
  <2>1. P(0) = {} /\ g[0] = 0
    BY <1>0, <1>1
  <2>2. IsFiniteSet({}) /\ SumOver(f, {}) = 0
    BY FS_EmptySet, SumOverPick
  <2> QED BY <2>1, <2>2
<1>4. ASSUME NEW k \in N PROVE k + 1 \in N
  <2> SUFFICES ASSUME k + 1 <= Len(q) PROVE IsFiniteSet(P(k + 1)) /\ SumOver(f, P(k + 1)) = g[k + 1]
    OBVIOUS
  <2>1. k \in Nat /\ k <= Len(q) /\ k + 1 \in 1..Len(q) /\ IsFiniteSet(P(k)) /\ SumOver(f, P(k)) = g[k]
    BY <1>0
  <2> HIDE DEF N
  <2>2. P(k + 1) = P(k) \cup {q[k + 1]}
    BY <2>1
  <2>3. q[k + 1] \notin P(k)
    <3> SUFFICES ASSUME NEW i \in 1..k, q[i] = q[k + 1] PROVE FALSE
      OBVIOUS
    <3>1. i \in DOMAIN q /\ k + 1 \in DOMAIN q /\ i # k + 1
      BY <1>0, <2>1
    <3> QED BY <1>s, <3>1
  <2>4. \A x \in P(k) \cup {q[k + 1]} : f[x] \in Nat
    BY <1>0, <2>1
  <2>5. g[k + 1] = g[k] + f[q[k + 1]] /\ g[k] \in Nat /\ f[q[k + 1]] \in Nat
    <3>1. k + 1 \in 0..Len(r) /\ k \in 0..Len(r) /\ k + 1 # 0 /\ (k + 1) - 1 = k
      BY <1>0, <1>s, <2>1
    <3>2. g[k + 1] = g[k] + r[k + 1]
      BY <1>1, <3>1
    <3>3. r[k + 1] = f[q[k + 1]] /\ r[k + 1] \in Nat
      BY <1>0, <1>s, <2>1
    <3> QED BY <1>2, <3>1, <3>2, <3>3
  <2> HIDE DEF P
  <2>6. IsFiniteSet(P(k + 1))
    <3>1. IsFiniteSet(P(k) \cup {q[k + 1]})
      BY <2>1, FS_AddElement
    <3> QED BY <2>2, <3>1
  <2> DEFINE R == P(k)
             y == q[k + 1]
  <2>7. IsFiniteSet(R) /\ y \notin R /\ \A x \in R \cup {y} : f[x] \in Nat
    BY <2>1, <2>3, <2>4
  <2> HIDE DEF R, y
  <2>8. SumOver(f, R \cup {y}) = f[y] + SumOver(f, R)
    BY <2>7, SumOverAdd
  <2>9. SumOver(f, P(k + 1)) = f[q[k + 1]] + g[k]
    BY <2>1, <2>2, <2>8, Zenon DEF R, y
  <2>10. f[q[k + 1]] + g[k] = g[k + 1]
    BY <2>5
  <2> QED BY <2>6, <2>9, <2>10, Zenon
<1>5. N = Nat
  BY <1>3, <1>4, SetInduction
<1>6. SumOver(f, P(Len(q))) = g[Len(q)] /\ IsFiniteSet(P(Len(q)))
  <2>1. Len(q) \in N
    BY <1>0, <1>5
  <2> QED BY <1>0, <2>1
<1>7. P(Len(q)) = S
  BY <1>0 DEF Lists
<1> HIDE DEF P
<1> QED BY <1>0, <1>s, <1>1, <1>6, <1>7
=============================================================================
