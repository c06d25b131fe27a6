------------------------------ MODULE MiningProofs ------------------------------
(***************************************************************************)
(* The share coordinator and those who mine.  A share counts once, and a   *)
(* receipt is honoured by every log that can be read; the proof of a job   *)
(* tells the truth about the log, and the split of a reward is exact: for  *)
(* any number of handlers, addresses, shares and jobs, any window and any  *)
(* reward.  The pages that work for coordinators follow their rotations,   *)
(* and accuse none that kept its window; what a page offers it found for   *)
(* that very work, however its activations overlap; and what the miner of  *)
(* the command line reports brackets what its node did.  Of the devices    *)
(* that are measured: what the verifier admits was measured as it says,    *)
(* and a verdict rests on whole bundles.                                   *)
(***************************************************************************)
EXTENDS ShareCoordinator, SumsProofs, SequenceTheorems, TLAPS

(* Rounding down: a quotient and what it leaves.                            *)
LEMMA DivBounds ==
  ASSUME NEW x \in Nat, NEW t \in Nat, t >= 1
  PROVE  /\ x \div t \in Nat
         /\ t * (x \div t) <= x /\ x <= t * (x \div t) + (t - 1)
BY SMT

LEMMA DivPositive ==
  ASSUME NEW x \in Nat, NEW t \in Nat, t >= 1, x >= t
  PROVE  x \div t >= 1
BY SMT

LEMMA TimesAdd ==
  ASSUME NEW t \in Nat, NEW x \in Nat, NEW y \in Nat
  PROVE  t * (x + y) = t * x + t * y /\ t * x \in Nat
BY SMT

LEMMA TimesOrder ==
  ASSUME NEW t \in Nat, t >= 1, NEW x \in Int, NEW y \in Int
  PROVE  t * x <= t * y => x <= y
BY SMT

LEMMA TimesLess ==
  ASSUME NEW t \in Nat, t >= 1, NEW x \in Int, NEW y \in Int
  PROVE  t * x < t * y => x < y
BY SMT

(* A finite set of numbers has a greatest.                                  *)
LEMMA GreatestElement ==
  ASSUME NEW S \in SUBSET Nat, IsFiniteSet(S), S # {}
  PROVE  \E m \in S : \A n \in S : m >= n
<1> DEFINE Good == {T \in SUBSET S : T # {} => \E m \in T : \A n \in T : m >= n}
<1>1. ASSUME NEW T \in SUBSET S, NEW y \in T, T \ {y} \in Good
      PROVE  T \in Good
  <2>1. CASE T \ {y} = {}
    <3>1. T = {y} /\ y \in Nat
      BY <2>1
    <3> QED BY <3>1
  <2>2. CASE T \ {y} # {}
    <3>1. PICK m \in T \ {y} : \A n \in T \ {y} : m >= n
      BY <1>1, <2>2
    <3>2. m \in Nat /\ y \in Nat
      OBVIOUS
    <3>3. CASE m >= y
      BY <3>1, <3>2, <3>3
    <3>4. CASE y >= m
      <4>1. \A n \in T : n = y \/ (n \in T \ {y} /\ m >= n /\ n \in Nat)
        BY <3>1
      <4>2. \A n \in T : y >= n
        BY <3>2, <3>4, <4>1
      <4> QED BY <4>2
    <3> QED BY <3>2, <3>3, <3>4
  <2> QED BY <2>1, <2>2
<1>2. {} \in Good /\ Good \in SUBSET SUBSET S
  OBVIOUS
<1> HIDE DEF Good
<1>3. S \in Good
  BY <1>1, <1>2, SubsetInduction
<1> QED BY <1>3 DEF Good

(* The parts of a split: each is rounded down, so together they leave less  *)
(* than one atom for each address.                                          *)
LEMMA RoundingStep ==
  ASSUME NEW t \in Nat, t >= 1, NEW R \in Nat, NEW x \in Nat, NEW y \in Nat, NEW p \in Nat, NEW q \in Nat,
         NEW n \in Nat,
         t * x <= R * p, R * p <= t * x + n * (t - 1), t * y <= R * q, R * q <= t * y + (t - 1)
  PROVE  t * (y + x) <= R * (q + p) /\ R * (q + p) <= t * (y + x) + (n + 1) * (t - 1)
<1>1. t * (y + x) = t * y + t * x /\ R * (q + p) = R * q + R * p
  BY TimesAdd
<1>2. (n + 1) * (t - 1) = n * (t - 1) + (t - 1)
  BY SMT
<1>3. t * y \in Nat /\ t * x \in Nat /\ R * q \in Nat /\ R * p \in Nat /\ n * (t - 1) \in Nat
  BY TimesAdd
<1> QED BY <1>1, <1>2, <1>3

LEMMA RoundingLeaves ==
  ASSUME NEW D, IsFiniteSet(D), NEW w, NEW f, \A a \in D : w[a] \in Nat /\ f[a] \in Nat,
         NEW R \in Nat, NEW t \in Nat, t >= 1,
         \A a \in D : t * f[a] <= R * w[a] /\ R * w[a] <= t * f[a] + (t - 1)
  PROVE  /\ t * SumOver(f, D) <= R * SumOver(w, D)
         /\ R * SumOver(w, D) <= t * SumOver(f, D) + Cardinality(D) * (t - 1)
<1> DEFINE Good == {T \in SUBSET D : /\ t * SumOver(f, T) <= R * SumOver(w, T)
                                     /\ R * SumOver(w, T) <= t * SumOver(f, T) + Cardinality(T) * (t - 1)}
<1>1. {} \in Good
  <2>1. SumOver(f, {}) = 0 /\ SumOver(w, {}) = 0 /\ Cardinality({}) = 0
    BY SumOverPick, FS_EmptySet
  <2>2. t * 0 = 0 /\ R * 0 = 0 /\ 0 * (t - 1) = 0
    BY SMT
  <2> QED BY <2>1, <2>2
<1>2. ASSUME NEW T \in SUBSET D, NEW y \in T, T \ {y} \in Good
      PROVE  T \in Good
  <2>1. IsFiniteSet(T) /\ IsFiniteSet(T \ {y})
    BY FS_Subset
  <2>2. SumOver(f, T) = f[y] + SumOver(f, T \ {y}) /\ SumOver(w, T) = w[y] + SumOver(w, T \ {y})
    BY <2>1, SumOverRemove
  <2>3. SumOver(f, T \ {y}) \in Nat /\ SumOver(w, T \ {y}) \in Nat
    BY <2>1, SumOverNat
  <2>4. Cardinality(T) \in Nat /\ Cardinality(T \ {y}) \in Nat /\ Cardinality(T) = Cardinality(T \ {y}) + 1
    BY <2>1, FS_RemoveElement, FS_CardinalityType
  <2>5. /\ t * SumOver(f, T \ {y}) <= R * SumOver(w, T \ {y})
        /\ R * SumOver(w, T \ {y}) <= t * SumOver(f, T \ {y}) + Cardinality(T \ {y}) * (t - 1)
    BY <1>2
  <2>6. /\ t * f[y] <= R * w[y] /\ R * w[y] <= t * f[y] + (t - 1)
        /\ f[y] \in Nat /\ w[y] \in Nat
    OBVIOUS
  <2>7. /\ t * SumOver(f, T) <= R * SumOver(w, T)
        /\ R * SumOver(w, T) <= t * SumOver(f, T) + Cardinality(T) * (t - 1)
    BY <2>2, <2>3, <2>4, <2>5, <2>6, RoundingStep
  <2> QED BY <2>7
<1>3. Good \in SUBSET SUBSET D
  OBVIOUS
<1> HIDE DEF Good
<1>4. D \in Good
  BY <1>1, <1>2, <1>3, SubsetInduction
<1> QED BY <1>4 DEF Good

LEMMA ZerosAddNothing ==
  ASSUME NEW S, IsFiniteSet(S), NEW f, \A x \in S : f[x] = 0
  PROVE  SumOver(f, S) = 0
<1> DEFINE Good == {T \in SUBSET S : SumOver(f, T) = 0}
<1>1. {} \in Good
  BY SumOverPick, FS_EmptySet
<1>2. ASSUME NEW T \in SUBSET S, NEW y \in T, T \ {y} \in Good
      PROVE  T \in Good
  <2>1. IsFiniteSet(T) /\ \A x \in T : f[x] \in Nat
    BY FS_Subset
  <2>2. SumOver(f, T) = f[y] + SumOver(f, T \ {y})
    BY <2>1, SumOverRemove
  <2> QED BY <1>2, <2>2
<1>3. Good \in SUBSET SUBSET S
  OBVIOUS
<1> HIDE DEF Good
<1>4. S \in Good
  BY <1>1, <1>2, <1>3, SubsetInduction
<1> QED BY <1>4 DEF Good

(* Weights of addresses, as a window of the log gives them.                 *)
Weighs(w, D) == /\ w \in [D -> Nat] /\ \A a \in D : w[a] >= 1
                /\ D \in SUBSET Nat /\ IsFiniteSet(D) /\ D # {}

LEMMA TotalPositive ==
  ASSUME NEW w, NEW D, Weighs(w, D)
  PROVE  DOMAIN w = D /\ Total(w) = SumOver(w, D) /\ Total(w) \in Nat /\ Total(w) >= 1
<1>1. DOMAIN w = D /\ IsFiniteSet(D) /\ \A a \in D : w[a] \in Nat /\ w[a] >= 1
  BY DEF Weighs
<1>2. Total(w) = SumOver(w, D)
  BY <1>1 DEF Total
<1>3. PICK y \in D : TRUE
  BY DEF Weighs
<1>4. SumOver(w, D) = w[y] + SumOver(w, D \ {y})
  BY <1>1, SumOverRemove
<1>5. SumOver(w, D \ {y}) \in Nat
  BY <1>1, FS_Subset, SumOverNat
<1> QED BY <1>1, <1>2, <1>4, <1>5

LEMMA PartBounds ==
  ASSUME NEW w, NEW D, Weighs(w, D), NEW R \in Nat
  PROVE  /\ DOMAIN Rounded(R, w) = D
         /\ \A a \in D : /\ Rounded(R, w)[a] = Part(R, w, a) /\ Part(R, w, a) \in Nat
                         /\ Total(w) * Part(R, w, a) <= R * w[a]
                         /\ R * w[a] <= Total(w) * Part(R, w, a) + (Total(w) - 1)
                         /\ R >= Total(w) => Part(R, w, a) >= 1
<1>1. DOMAIN w = D /\ Total(w) \in Nat /\ Total(w) >= 1
  BY TotalPositive
<1>2. DOMAIN Rounded(R, w) = D /\ \A a \in D : Rounded(R, w)[a] = Part(R, w, a)
  BY <1>1 DEF Rounded
<1>3. ASSUME NEW a \in D
      PROVE  /\ Part(R, w, a) \in Nat
             /\ Total(w) * Part(R, w, a) <= R * w[a]
             /\ R * w[a] <= Total(w) * Part(R, w, a) + (Total(w) - 1)
             /\ R >= Total(w) => Part(R, w, a) >= 1
  <2>1. w[a] \in Nat /\ w[a] >= 1
    BY DEF Weighs
  <2> DEFINE t == Total(w)
             x == R * w[a]
             p == x \div t
  <2>2. x \in Nat /\ x >= R
    BY <2>1, SMT
  <2>3. t \in Nat /\ t >= 1
    BY <1>1
  <2>4. Part(R, w, a) = p
    BY DEF Part
  <2> HIDE DEF t, x
  <2>5. p \in Nat /\ t * p <= x /\ x <= t * p + (t - 1)
    BY <2>2, <2>3, DivBounds
  <2>6. R >= t => p >= 1
    BY <2>2, <2>3, DivPositive
  <2> HIDE DEF p
  <2> QED BY <2>4, <2>5, <2>6 DEF t, x
<1> QED BY <1>2, <1>3

LEMMA EndsOf ==
  ASSUME NEW w, NEW D, Weighs(w, D)
  PROVE  /\ First(w) \in D /\ \A b \in D : First(w) <= b
         /\ Last(w) \in D /\ \A b \in D : Last(w) >= b
<1>1. DOMAIN w = D /\ D \in SUBSET Nat /\ IsFiniteSet(D) /\ D # {}
  BY DEF Weighs
<1>2. \E a \in D : \A b \in D : a <= b
  BY <1>1, LeastElement
<1>3. \E a \in D : \A b \in D : a >= b
  BY <1>1, GreatestElement
<1> QED BY <1>1, <1>2, <1>3 DEF First, Last

LEMMA PartsLeave ==
  ASSUME NEW w, NEW D, Weighs(w, D), NEW R \in Nat
  PROVE  /\ SumOver(Rounded(R, w), D) \in Nat
         /\ R - SumOver(Rounded(R, w), D) \in 0..(Cardinality(D) - 1)
<1> DEFINE f == Rounded(R, w)
           t == Total(w)
           s == SumOver(f, D)
           n == Cardinality(D)
<1>1. t = SumOver(w, D) /\ t \in Nat /\ t >= 1
  BY TotalPositive
<1>2. IsFiniteSet(D) /\ D # {} /\ \A a \in D : w[a] \in Nat
  BY DEF Weighs
<1>3. \A a \in D : /\ f[a] \in Nat
                   /\ t * f[a] <= R * w[a] /\ R * w[a] <= t * f[a] + (t - 1)
  BY PartBounds
<1>4. n \in Nat /\ n >= 1
  BY <1>2, FS_CardinalityType, FS_EmptySet
<1>5. s \in Nat
  BY <1>2, <1>3, SumOverNat
<1> HIDE DEF f, t
<1>6. t * s <= R * t /\ R * t <= t * s + n * (t - 1)
  BY <1>1, <1>2, <1>3, RoundingLeaves
<1> HIDE DEF s, n
<1>7. R * t = t * R /\ n * (t - 1) = t * n - n /\ t * (s + n) = t * s + t * n
  BY <1>1, <1>4, <1>5, SMT
<1>8. t * n \in Nat /\ t * s \in Nat /\ t * R \in Nat
  BY <1>1, <1>4, <1>5, TimesAdd
<1>9. t * s <= t * R
  BY <1>6, <1>7
<1>10. t * R < t * (s + n)
  BY <1>4, <1>6, <1>7, <1>8
<1>11. s <= R
  BY <1>1, <1>5, <1>9, TimesOrder
<1>12. R < s + n
  BY <1>1, <1>4, <1>5, <1>10, TimesLess
<1>13. R - s \in 0..(n - 1)
  BY <1>4, <1>5, <1>11, <1>12
<1> QED BY <1>5, <1>13 DEF s, n, f

(* allocatePplnsOutputs pays out the reward to the last atom, and to no     *)
(* address more than its part and one atom less than there are addresses.   *)
LEMMA AmountsExact ==
  ASSUME NEW w, NEW D, Weighs(w, D), NEW R \in Nat
  PROVE  /\ DOMAIN Amounts(R, w) = D
         /\ \A a \in D : /\ Amounts(R, w)[a] \in Nat
                         /\ Amounts(R, w)[a] - Part(R, w, a) \in 0..(Cardinality(D) - 1)
         /\ SumOver(Amounts(R, w), D) = R
<1> DEFINE f == Rounded(R, w)
           A == Amounts(R, w)
           z == Last(w)
           rest == SumOver(f, D \ {z})
           n == Cardinality(D)
<1>1. DOMAIN w = D /\ IsFiniteSet(D) /\ z \in D /\ D # {}
  BY EndsOf DEF Weighs
<1>2. \A a \in D : f[a] = Part(R, w, a) /\ f[a] \in Nat
  BY PartBounds
<1>3. SumOver(f, D) = f[z] + rest
  BY <1>1, <1>2, SumOverRemove
<1>4. rest \in Nat
  BY <1>1, <1>2, FS_Subset, SumOverNat
<1>5. SumOver(f, D) \in Nat /\ R - SumOver(f, D) \in 0..(n - 1)
  BY PartsLeave
<1>6. n \in Nat /\ n >= 1
  BY <1>1, FS_CardinalityType, FS_EmptySet
<1>7. /\ DOMAIN A = D
      /\ \A a \in D : A[a] = IF a # z THEN Part(R, w, a) ELSE R - SumOver(f, D \ {a})
  BY <1>1 DEF Amounts
<1> HIDE DEF f, A, z, n
<1>8. A[z] = R - rest
  BY <1>1, <1>7
<1> HIDE DEF rest
<1>9. A[z] \in Nat /\ A[z] - f[z] \in 0..(n - 1)
  BY <1>1, <1>2, <1>3, <1>4, <1>5, <1>6, <1>8
<1>10. ASSUME NEW a \in D
       PROVE  A[a] \in Nat /\ A[a] - Part(R, w, a) \in 0..(n - 1)
  <2>1. CASE a = z
    BY <1>2, <1>9, <2>1
  <2>2. CASE a # z
    <3>1. A[a] = f[a] /\ f[a] \in Nat /\ f[a] = Part(R, w, a)
      BY <1>2, <1>7, <2>2
    <3> QED BY <1>6, <3>1
  <2> QED BY <2>1, <2>2
<1>11. SumOver(A, D \ {z}) = rest
  <2>1. \A a \in D \ {z} : A[a] = f[a]
    BY <1>2, <1>7
  <2>2. IsFiniteSet(D \ {z})
    BY <1>1, FS_Subset
  <2> QED BY <2>1, <2>2, SumOverSame DEF rest
<1>12. SumOver(A, D) = A[z] + SumOver(A, D \ {z})
  BY <1>1, <1>10, SumOverRemove
<1>13. SumOver(A, D) = R
  BY <1>4, <1>8, <1>11, <1>12
<1> QED BY <1>7, <1>10, <1>13 DEF A, n

LEMMA AllocateExact ==
  ASSUME NEW w, NEW D, Weighs(w, D), NEW R \in Nat
  PROVE  /\ DOMAIN Allocate(R, w) \subseteq D /\ Allocate(R, w) \in [DOMAIN Allocate(R, w) -> Nat]
         /\ \A a \in D : a \in DOMAIN Allocate(R, w) <=> Amounts(R, w)[a] > 0
         /\ \A a \in DOMAIN Allocate(R, w) :
              Allocate(R, w)[a] - Part(R, w, a) \in 0..(Cardinality(D) - 1)
         /\ SumOver(Allocate(R, w), DOMAIN Allocate(R, w)) = R
<1> DEFINE A == Amounts(R, w)
           o == Allocate(R, w)
           paid == {a \in D : A[a] > 0}
<1>1. /\ DOMAIN A = D /\ SumOver(A, D) = R
      /\ \A a \in D : A[a] \in Nat /\ A[a] - Part(R, w, a) \in 0..(Cardinality(D) - 1)
  BY AmountsExact
<1>2. DOMAIN o = paid /\ (\A a \in paid : o[a] = A[a]) /\ o \in [paid -> Nat]
  BY <1>1 DEF Allocate
<1>3. IsFiniteSet(D) /\ IsFiniteSet(paid) /\ IsFiniteSet(D \ paid)
  BY FS_Subset DEF Weighs
<1> HIDE DEF A, o
<1>4. \A a \in D \ paid : A[a] = 0
  BY <1>1
<1>5. SumOver(A, D \ paid) = 0
  BY <1>3, <1>4, ZerosAddNothing
<1>6. D = paid \cup (D \ paid) /\ paid \cap (D \ paid) = {} /\ paid \subseteq D
  OBVIOUS
<1> DEFINE zero == D \ paid
<1> HIDE DEF paid, zero
<1>7. \A a \in paid \cup zero : A[a] \in Nat
  BY <1>1, <1>6 DEF zero
<1>8. SumOver(A, paid \cup zero) = SumOver(A, paid) + SumOver(A, zero)
  BY <1>3, <1>6, <1>7, SumOverUnion DEF zero
<1>9. SumOver(A, paid) \in Nat
  BY <1>1, <1>3, <1>6, SumOverNat
<1>10. SumOver(A, paid) = R
  <2>1. SumOver(A, zero) = 0
    BY <1>5 DEF zero
  <2>2. D = paid \cup zero
    BY <1>6 DEF zero
  <2>3. SumOver(A, paid \cup zero) = R
    BY <1>1, <2>2
  <2> QED BY <1>8, <1>9, <2>1, <2>3
<1>11. SumOver(o, paid) = SumOver(A, paid)
  BY <1>2, <1>3, SumOverSame
<1>12. \A a \in DOMAIN o : o[a] - Part(R, w, a) \in 0..(Cardinality(D) - 1)
  BY <1>1, <1>2, <1>6
<1>13. paid \subseteq D /\ \A a \in D : a \in paid <=> A[a] > 0
  BY DEF paid
<1> QED BY <1>2, <1>10, <1>11, <1>12, <1>13 DEF o, A

(* The address in the header is paid, if there is an atom for each share.   *)
LEMMA FirstIsPaid ==
  ASSUME NEW w, NEW D, Weighs(w, D), NEW R \in Nat, R >= Total(w)
  PROVE  First(w) \in DOMAIN Allocate(R, w)
<1> DEFINE one == First(w)
<1>1. one \in D
  BY EndsOf
<1>2. Part(R, w, one) >= 1 /\ Part(R, w, one) \in Nat
  BY <1>1, PartBounds
<1>3. Amounts(R, w)[one] \in Nat /\ Amounts(R, w)[one] - Part(R, w, one) \in 0..(Cardinality(D) - 1)
  BY <1>1, AmountsExact
<1>4. IsFiniteSet(D)
  BY DEF Weighs
<1>5. Cardinality(D) \in Nat
  BY <1>4, FS_CardinalityType
<1>6. Amounts(R, w)[one] > 0
  BY <1>2, <1>3, <1>5
<1> QED BY <1>1, <1>6, AllocateExact

(* The weights of a window: every share of it counts once.                  *)
Of(s, k, a) == {i \in 1..k : s[i].address = a}
Counts(s, k, D) == [a \in D |-> Cardinality(Of(s, k, a))]

LEMMA OfFinite ==
  ASSUME NEW s, NEW k \in Nat, NEW a
  PROVE  IsFiniteSet(Of(s, k, a)) /\ Cardinality(Of(s, k, a)) \in Nat
<1>1. IsFiniteSet(1..k)
  BY FS_Interval
<1>2. Of(s, k, a) \in SUBSET (1..k)
  BY DEF Of
<1>3. IsFiniteSet(Of(s, k, a))
  BY <1>1, <1>2, FS_Subset
<1> QED BY <1>3, FS_CardinalityType

LEMMA CountsAddUp ==
  ASSUME NEW s, NEW n \in Nat, NEW D, IsFiniteSet(D), \A i \in 1..n : s[i].address \in D
  PROVE  SumOver(Counts(s, n, D), D) = n
<1> DEFINE N == {k \in Nat : k <= n => SumOver(Counts(s, k, D), D) = k}
<1>1. 0 \in N
  <2>1. \A a \in D : Counts(s, 0, D)[a] = 0
    <3> SUFFICES ASSUME NEW a \in D PROVE Counts(s, 0, D)[a] = 0
      OBVIOUS
    <3>1. Of(s, 0, a) = {}
      BY DEF Of
    <3> QED BY <3>1, FS_EmptySet DEF Counts
  <2> QED BY <2>1, ZerosAddNothing
<1>2. ASSUME NEW k \in N PROVE k + 1 \in N
  <2> SUFFICES ASSUME k + 1 <= n PROVE SumOver(Counts(s, k + 1, D), D) = k + 1
    BY <1>2
  <2> DEFINE f == Counts(s, k, D)
             g == Counts(s, k + 1, D)
             b == s[k + 1].address
  <2>1. k \in Nat /\ SumOver(f, D) = k /\ b \in D
    BY <1>2
  <2>2. \A a \in D : f[a] = Cardinality(Of(s, k, a)) /\ g[a] = Cardinality(Of(s, k + 1, a))
    BY DEF Counts
  <2>3. \A a \in D : f[a] \in Nat /\ g[a] \in Nat
    <3>1. \A a \in D : Cardinality(Of(s, k, a)) \in Nat /\ Cardinality(Of(s, k + 1, a)) \in Nat
      BY <2>1, OfFinite
    <3> QED BY <2>2, <3>1
  <2>4. g[b] = f[b] + 1
    <3>1. Of(s, k + 1, b) = Of(s, k, b) \cup {k + 1} /\ k + 1 \notin Of(s, k, b)
      BY <2>1 DEF Of
    <3>2. IsFiniteSet(Of(s, k, b))
      BY <2>1, OfFinite
    <3>3. Cardinality(Of(s, k + 1, b)) = Cardinality(Of(s, k, b)) + 1
      BY <3>1, <3>2, FS_AddElement
    <3> QED BY <2>1, <2>2, <3>3
  <2>5. \A a \in D \ {b} : g[a] = f[a]
    <3> SUFFICES ASSUME NEW a \in D \ {b} PROVE g[a] = f[a]
      OBVIOUS
    <3>1. Of(s, k + 1, a) = Of(s, k, a)
      BY <2>1 DEF Of
    <3> QED BY <2>2, <3>1
  <2> HIDE DEF f, g, b
  <2>6. SumOver(f, D) = f[b] + SumOver(f, D \ {b}) /\ SumOver(g, D) = g[b] + SumOver(g, D \ {b})
    BY <2>1, <2>3, SumOverRemove
  <2>7. IsFiniteSet(D \ {b}) /\ \A a \in D \ {b} : f[a] \in Nat
    BY <2>3, FS_Subset
  <2>8. SumOver(g, D \ {b}) = SumOver(f, D \ {b}) /\ SumOver(f, D \ {b}) \in Nat
    BY <2>5, <2>7, SumOverSame, SumOverNat
  <2>9. SumOver(g, D) = k + 1
    BY <2>1, <2>3, <2>4, <2>6, <2>8
  <2> QED BY <2>9 DEF g
<1> HIDE DEF N
<1>3. N \in SUBSET Nat
  BY DEF N
<1>4. N = Nat
  BY <1>1, <1>2, <1>3, SetInduction
<1> QED BY <1>4 DEF N

(* What the log is made of.                                                 *)
Share == [job : Nat, nonce : Nonces, address : Addresses]

LEMMA WindowOf ==
  ASSUME ShareCoordinatorAssumption, NEW s \in Seq(Share)
  PROVE  Window(s) \in Seq(Share) /\ Len(Window(s)) <= WindowSize
<1> DEFINE n == Len(s)
           m == IF n > WindowSize THEN n - WindowSize + 1 ELSE 1
<1>1. n \in Nat /\ WindowSize \in Nat /\ WindowSize >= 1
  BY LenProperties DEF ShareCoordinatorAssumption
<1>2. \A i \in 1..n : s[i] \in Share
  BY ElementOfSeq
<1>3. Window(s) = SubSeq(s, m, n)
  BY DEF Window, LastOf
<1> HIDE DEF n
<1>4. m \in Nat /\ m >= 1 /\ n - m + 1 <= WindowSize
  BY <1>1
<1> HIDE DEF m
<1>5. \A i \in m..n : s[i] \in Share
  BY <1>1, <1>2, <1>4
<1>6. SubSeq(s, m, n) \in Seq(Share) /\ Len(SubSeq(s, m, n)) = IF m <= n THEN n - m + 1 ELSE 0
  BY <1>1, <1>4, <1>5, SubSeqProperties
<1> QED BY <1>1, <1>3, <1>4, <1>6

LEMMA WeightsWeigh ==
  ASSUME ShareCoordinatorAssumption, NEW s \in Seq(Share), NEW fallback \in Addresses
  PROVE  /\ Weighs(Weights(s, fallback), DOMAIN Weights(s, fallback))
         /\ Total(Weights(s, fallback)) <= WindowSize
         /\ DOMAIN Weights(s, fallback) \subseteq Addresses
<1> DEFINE w == Window(s)
           n == Len(w)
           D == {w[i].address : i \in DOMAIN w}
           W == Weights(s, fallback)
<1>1. w \in Seq(Share) /\ n <= WindowSize /\ n \in Nat /\ DOMAIN w = 1..n
      /\ WindowSize \in Nat /\ WindowSize >= 1 /\ Addresses \subseteq Nat
  BY WindowOf, LenProperties DEF ShareCoordinatorAssumption
<1>2. CASE w = <<>>
  <2>1. W = [a \in {fallback} |-> 1]
    BY <1>2 DEF Weights
  <2>2. DOMAIN W = {fallback} /\ W[fallback] = 1 /\ W \in [{fallback} -> Nat]
    BY <2>1
  <2> HIDE DEF W
  <2>3. IsFiniteSet({fallback}) /\ IsFiniteSet({})
    BY FS_Singleton, FS_EmptySet
  <2>4. SumOver(W, {fallback}) = W[fallback] + SumOver(W, {fallback} \ {fallback})
    BY <2>2, <2>3, SumOverRemove
  <2>5. SumOver(W, {}) = 0 /\ {fallback} \ {fallback} = {}
    BY <2>3, SumOverPick
  <2>6. Total(W) = 1
    <3>1. Total(W) = SumOver(W, {fallback})
      BY <2>2 DEF Total
    <3>2. SumOver(W, {fallback} \ {fallback}) = 0
      BY <2>5
    <3> QED BY <2>2, <2>4, <3>1, <3>2
  <2> QED BY <1>1, <2>2, <2>3, <2>6 DEF Weighs, W
<1>3. CASE w # <<>>
  <2>1. W = [a \in D |-> Cardinality({i \in DOMAIN w : w[i].address = a})]
    BY <1>3 DEF Weights
  <2>2. n >= 1
    BY <1>1, <1>3, EmptySeq
  <2>3. \A i \in 1..n : w[i] \in Share
    BY <1>1, ElementOfSeq
  <2>4. D \subseteq Addresses /\ D # {} /\ \A i \in 1..n : w[i].address \in D
    <3>1. \A i \in 1..n : w[i].address \in Addresses
      BY <2>3 DEF Share
    <3>2. 1 \in 1..n
      BY <1>1, <2>2
    <3>3. \A i \in 1..n : w[i].address \in D
      BY <1>1
    <3>4. \A a \in D : \E i \in 1..n : a = w[i].address
      BY <1>1
    <3> QED BY <3>1, <3>2, <3>3, <3>4
  <2>5. IsFiniteSet(D)
    <3>1. IsFiniteSet(1..n)
      BY <1>1, FS_Interval
    <3> DEFINE F == [i \in 1..n |-> w[i].address]
    <3>2. F \in [1..n -> D]
      BY <2>4
    <3>3. \A a \in D : \E i \in 1..n : F[i] = a
      BY <1>1
    <3> HIDE DEF F, D
    <3>4. F \in Surjection(1..n, D)
      BY <3>2, <3>3 DEF Surjection
    <3> QED BY <3>1, <3>4, FS_Surjection
  <2>6. W = Counts(w, n, D)
    BY <1>1, <2>1 DEF Counts, Of
  <2>7. \A a \in D : W[a] \in Nat /\ W[a] >= 1
    <3> SUFFICES ASSUME NEW a \in D PROVE W[a] \in Nat /\ W[a] >= 1
      OBVIOUS
    <3>1. W[a] = Cardinality(Of(w, n, a))
      BY <2>6 DEF Counts
    <3>2. Of(w, n, a) # {}
      BY <1>1 DEF Of
    <3>3. IsFiniteSet(Of(w, n, a)) /\ Cardinality(Of(w, n, a)) \in Nat
      BY <1>1, OfFinite
    <3>4. Cardinality(Of(w, n, a)) # 0
      BY <3>2, <3>3, FS_EmptySet
    <3> QED BY <3>1, <3>3, <3>4
  <2>8. DOMAIN W = D
    BY <2>6 DEF Counts
  <2>9. Total(W) = n
    <3>1. SumOver(Counts(w, n, D), D) = n
      BY <1>1, <2>4, <2>5, CountsAddUp
    <3> QED BY <2>6, <2>8, <3>1 DEF Total
  <2> HIDE DEF D, W
  <2>10. W \in [D -> Nat]
    BY <2>6, <2>7, <2>8 DEF Counts
  <2> QED BY <1>1, <2>4, <2>5, <2>7, <2>8, <2>9, <2>10 DEF Weighs, W
<1> QED BY <1>2, <1>3
-----------------------------------------------------------------------------
(* What the state is made of.                                               *)
Weightings == UNION {[D -> Nat] : D \in SUBSET Addresses}
Job == [tip : Nat, address : Addresses, reward : Rewards, count : Nat,
        weights : Weightings, outputs : Weightings]
Written == [seq : Nat, share : Share]
Prefix(k) == SubSeq(shares, 1, k)

Counters ==
  /\ up \in BOOLEAN /\ unended \in BOOLEAN /\ cut \in BOOLEAN /\ refused \in BOOLEAN
  /\ tip \in 0..MaxTip /\ faults \in 0..MaxFaults

(* What a log has to say: of every receipt, and of every job.               *)
Says(log) ==
  /\ \A s \in acked : In(s, log)
  /\ \A j \in DOMAIN jobs : Truthful(jobs[j], log)
MemoryOk ==
  /\ shares \in Seq(Share) /\ Distinct(shares)
  /\ up => Says(shares)

(* A file that can be read goes on from where the memory is, and says what  *)
(* it has to when there is no memory; it can be read unless a line was cut. *)
Follows ==
  /\ Len(shares) <= Len(lines)
  /\ \A i \in DOMAIN shares : lines[i].share = shares[i]
FileOk ==
  /\ lines \in Seq(Written) /\ (unended => lines # <<>>)
  /\ Readable => Distinct(Replayed) /\ (up => Follows) /\ (~up => Says(Replayed))
  /\ ~cut => Readable /\ ~unended /\ (up => Len(shares) = Len(lines))
  /\ refused => cut

(* A job weighs shares, and splits its reward accordingly.                  *)
JobPays(j) ==
  /\ Weighs(jobs[j].weights, DOMAIN jobs[j].weights)
  /\ jobs[j].outputs = Allocate(jobs[j].reward, jobs[j].weights)
JobsOk ==
  /\ jobs \in Seq(Job) /\ Len(jobs) <= MaxJobs /\ live \subseteq DOMAIN jobs
  /\ \A j \in DOMAIN jobs : JobPays(j)

(* A handler waits for a template with weights the ledger had, or is about  *)
(* a job that was made; a block is submitted when its share is in it.       *)
Asks(c) ==
  \E a \in Addresses, k \in 0..Len(shares) :
    calls[c] = [at |-> "template", address |-> a, count |-> k, weights |-> Weights(Prefix(k), a)]
Submits(c) ==
  \E at \in {"status", "hash", "block"}, j \in DOMAIN jobs, n \in Nonces :
    /\ calls[c] = [at |-> at, job |-> j, nonce |-> n]
    /\ at = "block" => In([job |-> j, nonce |-> n, address |-> jobs[j].address], shares)
CallGood(c) == calls[c] = Idle \/ Asks(c) \/ Submits(c)
CallsOk ==
  /\ DOMAIN calls = Clients /\ \A c \in Clients : CallGood(c)
  /\ ~up => \A c \in Clients : calls[c] = Idle

Inv == Counters /\ MemoryOk /\ FileOk /\ JobsOk /\ CallsOk

(* What a handler is at says what it has read.                              *)
LEMMA CallForms ==
  ASSUME NEW c, CallGood(c)
  PROVE  /\ calls[c].at \in {"idle", "template", "status", "hash", "block"}
         /\ calls[c].at = "template" => Asks(c)
         /\ calls[c].at \in {"status", "hash", "block"} => Submits(c)
<1>1. CASE calls[c] = Idle
  BY <1>1 DEF Idle
<1>2. CASE Asks(c)
  <2>1. calls[c].at = "template"
    BY <1>2 DEF Asks
  <2> QED BY <1>2, <2>1
<1>3. CASE Submits(c)
  <2>1. PICK m \in {"status", "hash", "block"}, j \in DOMAIN jobs, n \in Nonces :
          calls[c] = [at |-> m, job |-> j, nonce |-> n]
    BY <1>3, Zenon DEF Submits
  <2>2. calls[c].at = m
    BY <2>1
  <2> QED BY <1>3, <2>2
<1> QED BY <1>1, <1>2, <1>3 DEF CallGood

(* The first shares of a log are those of every longer one.                 *)
LEMMA FirstShares ==
  ASSUME NEW s \in Seq(Share), NEW k \in 0..Len(s)
  PROVE  SubSeq(s, 1, k) \in Seq(Share) /\ Len(SubSeq(s, 1, k)) = k
         /\ \A i \in 1..k : SubSeq(s, 1, k)[i] = s[i]
<1>1. Len(s) \in Nat /\ k \in Int /\ k >= 0
  BY LenProperties
<1>2. \A i \in 1..k : s[i] \in Share
  BY <1>1, ElementOfSeq
<1> DEFINE p == SubSeq(s, 1, k)
<1>3. /\ p \in Seq(Share) /\ Len(p) = IF 1 <= k THEN k - 1 + 1 ELSE 0
      /\ \A i \in 1..(k - 1 + 1) : p[i] = s[1 + i - 1]
  BY <1>1, <1>2, SubSeqProperties
<1> HIDE DEF p
<1>4. k - 1 + 1 = k /\ (IF 1 <= k THEN k - 1 + 1 ELSE 0) = k /\ \A i \in 1..k : 1 + i - 1 = i
  BY <1>1
<1>5. p \in Seq(Share) /\ Len(p) = k /\ \A i \in 1..k : p[i] = s[i]
  BY <1>3, <1>4
<1> QED BY <1>5 DEF p

LEMMA SameFirst ==
  ASSUME NEW s \in Seq(Share), NEW t \in Seq(Share), Len(s) <= Len(t), \A i \in DOMAIN s : t[i] = s[i],
         NEW k \in 0..Len(s)
  PROVE  SubSeq(t, 1, k) = SubSeq(s, 1, k) /\ k \in 0..Len(t)
<1>1. Len(s) \in Nat /\ Len(t) \in Nat /\ DOMAIN s = 1..Len(s) /\ k \in 0..Len(t) /\ k \in Nat
  BY LenProperties
<1> DEFINE p == SubSeq(s, 1, k)
           q == SubSeq(t, 1, k)
<1>2. p \in Seq(Share) /\ Len(p) = k /\ \A i \in 1..k : p[i] = s[i]
  BY FirstShares
<1>3. q \in Seq(Share) /\ Len(q) = k /\ \A i \in 1..k : q[i] = t[i]
  BY <1>1, FirstShares
<1> HIDE DEF p, q
<1>4. \A i \in 1..k : p[i] = q[i]
  BY <1>1, <1>2, <1>3
<1>5. p = q
  BY <1>2, <1>3, <1>4, SeqEqual
<1> QED BY <1>1, <1>5 DEF p, q

LEMMA PrefixTyped ==
  ASSUME shares \in Seq(Share), NEW k \in 0..Len(shares)
  PROVE  Prefix(k) \in Seq(Share)
BY FirstShares DEF Prefix

(* What a log says, a longer one says, too.                                 *)
LEMMA LongerSays ==
  ASSUME NEW s \in Seq(Share), NEW t \in Seq(Share), Len(s) <= Len(t), \A i \in DOMAIN s : t[i] = s[i],
         jobs \in Seq(Job), Says(s)
  PROVE  Says(t)
<1>1. DOMAIN s \subseteq DOMAIN t /\ Len(s) \in Nat
  BY LenProperties
<1>2. \A x \in acked : In(x, t)
  BY <1>1 DEF Says, In
<1>3. ASSUME NEW j \in DOMAIN jobs PROVE Truthful(jobs[j], t)
  <2>1. jobs[j] \in Job
    BY ElementOfSeq, LenProperties
  <2> DEFINE k == jobs[j].count
  <2>2. Truthful(jobs[j], s) /\ k \in Nat
    BY <2>1 DEF Says, Job
  <2>3. k \in 0..Len(s)
    BY <1>1, <2>2 DEF Truthful
  <2>4. SubSeq(t, 1, k) = SubSeq(s, 1, k) /\ k \in 0..Len(t)
    BY <2>3, SameFirst
  <2>5. k <= Len(t)
    BY <2>4
  <2> QED BY <2>2, <2>4, <2>5 DEF Truthful
<1> QED BY <1>2, <1>3 DEF Says

LEMMA ReplayedTyped ==
  ASSUME lines \in Seq(Written)
  PROVE  Replayed \in Seq(Share) /\ Len(Replayed) = Len(lines) /\ DOMAIN lines = 1..Len(lines)
         /\ Len(lines) \in Nat /\ \A i \in 1..Len(lines) : Replayed[i] = lines[i].share
<1>1. Len(lines) \in Nat /\ DOMAIN lines = 1..Len(lines)
  BY LenProperties
<1>2. \A i \in 1..Len(lines) : lines[i].share \in Share
  <2>1. \A i \in 1..Len(lines) : lines[i] \in Written
    BY ElementOfSeq
  <2> QED BY <2>1 DEF Written
<1>3. Replayed = [i \in 1..Len(lines) |-> lines[i].share]
  BY <1>1 DEF Replayed
<1> QED BY <1>1, <1>2, <1>3

LEMMA FileSays ==
  ASSUME MemoryOk, FileOk, JobsOk, up, Readable
  PROVE  Says(Replayed)
<1>1. /\ shares \in Seq(Share) /\ lines \in Seq(Written) /\ jobs \in Seq(Job) /\ Follows /\ Says(shares)
  BY DEF MemoryOk, FileOk, JobsOk
<1>2. Replayed \in Seq(Share) /\ Len(Replayed) = Len(lines) /\ \A i \in 1..Len(lines) : Replayed[i] = lines[i].share
  BY <1>1, ReplayedTyped
<1>3. Len(shares) <= Len(Replayed) /\ \A i \in DOMAIN shares : Replayed[i] = shares[i]
  BY <1>1, <1>2, LenProperties DEF Follows
<1> QED BY <1>1, <1>2, <1>3, LongerSays

(* It implies what the runs check.                                          *)
LEMMA InvTypes == Inv => TypeOK
<1> SUFFICES ASSUME Inv PROVE TypeOK
  OBVIOUS
<1>1. \A c \in Clients : calls[c].at \in {"idle", "template", "status", "hash", "block"}
  BY CallForms DEF Inv, CallsOk
<1>2. Counters /\ live \subseteq DOMAIN jobs /\ Len(jobs) <= MaxJobs
  BY DEF Inv, JobsOk
<1>3. {up, unended, cut, refused} \subseteq BOOLEAN
  BY <1>2, Zenon DEF Counters
<1>4. tip \in 0..MaxTip /\ faults \in 0..MaxFaults
  BY <1>2 DEF Counters
<1> QED BY <1>1, <1>2, <1>3, <1>4, Zenon DEF TypeOK

LEMMA InvSays ==
  ASSUME Inv
  PROVE  (up => Says(shares)) /\ (Readable => Says(Replayed))
<1>1. up /\ Readable => Says(Replayed)
  BY FileSays DEF Inv
<1> QED BY <1>1, Zenon DEF Inv, MemoryOk, FileOk

LEMMA InvReadable == Inv => ReadableUnlessCut
<1> SUFFICES ASSUME Inv PROVE ReadableUnlessCut
  OBVIOUS
<1>1. (~cut => Readable) /\ (refused => cut)
  BY Zenon DEF Inv, FileOk
<1>2. ASSUME ~cut, up PROVE shares = Replayed
  <2>1. shares \in Seq(Share) /\ lines \in Seq(Written) /\ Follows /\ Len(shares) = Len(lines)
    BY <1>1, <1>2 DEF Inv, MemoryOk, FileOk
  <2>2. Replayed \in Seq(Share) /\ Len(Replayed) = Len(lines) /\ DOMAIN shares = 1..Len(shares)
        /\ \A i \in 1..Len(lines) : Replayed[i] = lines[i].share
    BY <2>1, ReplayedTyped, LenProperties
  <2>3. \A i \in 1..Len(shares) : shares[i] = Replayed[i]
    BY <2>1, <2>2 DEF Follows
  <2> QED BY <2>1, <2>2, <2>3, SeqEqual
<1> QED BY <1>1, <1>2, Zenon DEF ReadableUnlessCut

LEMMA WeightingOf ==
  ASSUME NEW w, NEW D \in SUBSET Addresses, w \in [D -> Nat]
  PROVE  w \in Weightings
BY DEF Weightings

(* The ledger and the jobs only grow while the process runs.                *)
Grown ==
  /\ shares' \in Seq(Share) /\ Len(shares') >= Len(shares)
  /\ \A i \in DOMAIN shares : shares'[i] = shares[i]
  /\ jobs' \in Seq(Job) /\ Len(jobs') >= Len(jobs)
  /\ \A j \in DOMAIN jobs : jobs'[j] = jobs[j]

LEMMA CallKept ==
  ASSUME Inv, Grown, NEW c \in Clients, calls'[c] = calls[c]
  PROVE  CallGood(c)'
<1>1. shares \in Seq(Share) /\ jobs \in Seq(Job) /\ CallGood(c)
  BY DEF Inv, MemoryOk, JobsOk, CallsOk
<1>2. DOMAIN shares \subseteq DOMAIN shares' /\ DOMAIN jobs \subseteq DOMAIN jobs'
  BY <1>1, LenProperties DEF Grown
<1>3. CASE calls[c] = Idle
  BY <1>3 DEF CallGood
<1>4. CASE Asks(c)
  <2>1. PICK a \in Addresses, k \in 0..Len(shares) :
          calls[c] = [at |-> "template", address |-> a, count |-> k, weights |-> Weights(Prefix(k), a)]
    BY <1>4 DEF Asks
  <2>2. SubSeq(shares', 1, k) = Prefix(k) /\ k \in 0..Len(shares')
    <3>1. shares' \in Seq(Share) /\ Len(shares) <= Len(shares') /\ \A i \in DOMAIN shares : shares'[i] = shares[i]
      BY <1>1, LenProperties DEF Grown
    <3> QED BY <1>1, <3>1, SameFirst DEF Prefix
  <2>3. calls'[c] = [at |-> "template", address |-> a, count |-> k, weights |-> Weights(SubSeq(shares', 1, k), a)]
    BY <2>1, <2>2
  <2>4. Asks(c)'
    BY <2>2, <2>3 DEF Asks, Prefix
  <2> QED BY <2>4 DEF CallGood
<1>5. CASE Submits(c)
  <2>1. PICK at \in {"status", "hash", "block"}, j \in DOMAIN jobs, n \in Nonces :
          /\ calls[c] = [at |-> at, job |-> j, nonce |-> n]
          /\ at = "block" => In([job |-> j, nonce |-> n, address |-> jobs[j].address], shares)
    BY <1>5 DEF Submits
  <2>2. j \in DOMAIN jobs' /\ jobs'[j] = jobs[j]
    BY <1>2 DEF Grown
  <2>3. \A x : In(x, shares) => In(x, shares')
    BY <1>2 DEF In, Grown
  <2>4. Submits(c)'
    BY <2>1, <2>2, <2>3 DEF Submits
  <2> QED BY <2>4 DEF CallGood
<1> QED BY <1>1, <1>3, <1>4, <1>5 DEF CallGood

(* Steps that leave the ledger and the jobs as they are.                    *)
LEMMA NoGrowth ==
  ASSUME Inv, UNCHANGED <<shares, jobs>>
  PROVE  Grown
<1>1. shares \in Seq(Share) /\ jobs \in Seq(Job)
  BY DEF Inv, MemoryOk, JobsOk
<1>2. Len(shares) \in Nat /\ Len(jobs) \in Nat
  BY <1>1, LenProperties
<1> QED BY <1>1, <1>2 DEF Grown

LEMMA CallsKept ==
  ASSUME Inv, Grown, UNCHANGED <<up, calls>>
  PROVE  CallsOk'
<1>1. DOMAIN calls' = Clients /\ (~up' => \A c \in Clients : calls'[c] = Idle)
  BY DEF Inv, CallsOk
<1>2. \A c \in Clients : CallGood(c)'
  BY CallKept
<1> QED BY <1>1, <1>2 DEF CallsOk

LEMMA CallMoves ==
  ASSUME Inv, Grown, up, up', NEW c \in Clients, NEW x, Goto(c, x), CallGood(c)'
  PROVE  CallsOk'
<1>1. DOMAIN calls = Clients
  BY DEF Inv, CallsOk
<1>2. DOMAIN calls' = Clients /\ \A d \in Clients : d # c => calls'[d] = calls[d]
  BY <1>1 DEF Goto
<1>3. \A d \in Clients : CallGood(d)'
  BY <1>2, CallKept
<1> QED BY <1>2, <1>3 DEF CallsOk

LEMMA CallTo ==
  ASSUME Inv, NEW c \in Clients, NEW x, Goto(c, x)
  PROVE  calls'[c] = x
BY DEF Inv, CallsOk, Goto

LEMMA JobsKept ==
  ASSUME Inv, UNCHANGED jobs, live' \subseteq live
  PROVE  JobsOk'
BY DEF Inv, JobsOk, JobPays

LEMMA MemoryKept ==
  ASSUME Inv, UNCHANGED <<up, shares, jobs>>, \A s \in acked' : s \in acked \/ In(s, shares)
  PROVE  MemoryOk'
<1>1. shares' \in Seq(Share) /\ Distinct(shares')
  BY DEF Inv, MemoryOk
<1>2. up' => Says(shares)'
  BY DEF Inv, MemoryOk, Says
<1> QED BY <1>1, <1>2 DEF MemoryOk

LEMMA FileKept ==
  ASSUME Inv, UNCHANGED <<up, shares, lines, unended, cut, refused, jobs>>, up \/ acked' = acked
  PROVE  FileOk'
<1>1. FileOk /\ (~up => (Says(Replayed) <=> Says(Replayed)'))
  BY DEF Inv, Says, Replayed
<1>2. (Readable <=> Readable') /\ Replayed' = Replayed /\ (Follows <=> Follows')
  BY DEF Readable, Replayed, Follows
<1>3. lines' \in Seq(Written) /\ (unended' => lines' # <<>>)
  BY <1>1 DEF FileOk
<1>4. Readable' => Distinct(Replayed') /\ (up' => Follows') /\ (~up' => Says(Replayed)')
  BY <1>1, <1>2, Zenon DEF FileOk
<1>5. (~cut' => Readable' /\ ~unended' /\ (up' => Len(shares') = Len(lines'))) /\ (refused' => cut')
  BY <1>1, <1>2, Zenon DEF FileOk
<1> QED BY <1>3, <1>4, <1>5 DEF FileOk

(* All of them together: one handler moves on, or none does.                *)
LEMMA QuietStep ==
  ASSUME Inv, Counters', UNCHANGED <<up, shares, lines, unended, cut, refused, jobs>>, live' \subseteq live,
         \A s \in acked' : s \in acked \/ In(s, shares), up \/ acked' = acked,
         \/ UNCHANGED calls
         \/ up /\ \E c \in Clients : \E x : Goto(c, x) /\ CallGood(c)'
  PROVE  Inv'
<1>1. MemoryOk' /\ JobsOk' /\ FileOk' /\ Grown
  BY MemoryKept, JobsKept, FileKept, NoGrowth
<1>2. CallsOk'
  BY <1>1, CallsKept, CallMoves
<1> QED BY <1>1, <1>2 DEF Inv

LEMMA CallIdle ==
  ASSUME Inv, NEW c \in Clients, Goto(c, Idle)
  PROVE  CallGood(c)'
BY CallTo DEF CallGood

(* The actions, one by one.                                                 *)
LEMMA AskWorkKeeps ==
  ASSUME ShareCoordinatorAssumption, Inv, NEW c \in Clients, AskWork(c)
  PROVE  Inv'
<1>1. /\ shares \in Seq(Share) /\ Counters /\ up
  BY DEF Inv, MemoryOk, AskWork
<1>2. PICK a \in Addresses :
        Goto(c, [at |-> "template", address |-> a, count |-> Len(shares), weights |-> Weights(shares, a)])
  BY DEF AskWork
<1>3. UNCHANGED <<up, shares, lines, unended, cut, jobs, live, tip, acked, refused, faults>>
  BY DEF AskWork
<1>4. Len(shares) \in 0..Len(shares) /\ Prefix(Len(shares)) = shares
  BY <1>1, LenProperties, SubSeqFull DEF Prefix
<1>5. calls'[c] = [at |-> "template", address |-> a, count |-> Len(shares),
                   weights |-> Weights(Prefix(Len(shares)), a)]
  BY <1>1, <1>2, <1>4, CallTo
<1>6. Asks(c)'
  BY <1>3, <1>4, <1>5 DEF Asks, Prefix
<1>7. CallGood(c)'
  BY <1>6 DEF CallGood
<1>8. Counters'
  BY <1>1, <1>3 DEF Counters
<1>9. \E x : Goto(c, x) /\ CallGood(c)'
  BY <1>2, <1>7
<1> QED BY <1>1, <1>3, <1>8, <1>9, QuietStep

(* A template comes back: a job of what the log said when it was asked for. *)
LEMMA GiveWorkKeeps ==
  ASSUME ShareCoordinatorAssumption, Inv, NEW c \in Clients, GiveWork(c)
  PROVE  Inv'
<1>1. shares \in Seq(Share) /\ jobs \in Seq(Job) /\ Counters /\ live \subseteq DOMAIN jobs /\ up
      /\ Len(jobs) \in Nat /\ MaxJobs \in Nat /\ Len(jobs) < MaxJobs /\ DOMAIN jobs = 1..Len(jobs)
  BY LenProperties DEF Inv, MemoryOk, JobsOk, GiveWork, Running, ShareCoordinatorAssumption
<1>2. PICK a \in Addresses, k \in 0..Len(shares) :
        calls[c] = [at |-> "template", address |-> a, count |-> k, weights |-> Weights(Prefix(k), a)]
  <2>1. CallGood(c) /\ calls[c].at = "template"
    BY DEF Inv, CallsOk, GiveWork
  <2>2. Asks(c)
    BY <2>1, CallForms
  <2> QED BY <2>2 DEF Asks
<1> DEFINE w == Weights(Prefix(k), a)
<1>3. Prefix(k) \in Seq(Share)
  BY <1>1, PrefixTyped
<1>4. Weighs(w, DOMAIN w) /\ DOMAIN w \subseteq Addresses
  BY <1>3, WeightsWeigh
<1>5. calls[c].address = a /\ calls[c].count = k /\ calls[c].weights = w /\ ProvenCount(calls[c]) = k
  BY <1>2 DEF ProvenCount
<1>6. PICK reward \in Rewards :
        jobs' = Append(jobs, [tip |-> tip, address |-> a, reward |-> reward, count |-> k, weights |-> w,
                              outputs |-> Allocate(reward, w)])
  BY <1>5 DEF GiveWork
<1>7. UNCHANGED <<up, shares, lines, unended, cut, tip, acked, refused, faults>> /\ Goto(c, Idle)
      /\ live' = live \cup {Len(jobs')}
  BY DEF GiveWork
<1> DEFINE o == Allocate(reward, w)
           job == [tip |-> tip, address |-> a, reward |-> reward, count |-> k, weights |-> w, outputs |-> o]
<1>8. reward \in Nat /\ tip \in Nat /\ k \in Nat
  BY <1>1, LenProperties DEF ShareCoordinatorAssumption, Counters
<1> HIDE DEF w
<1>9. o \in Weightings /\ w \in Weightings
  <2>1. DOMAIN o \subseteq DOMAIN w /\ o \in [DOMAIN o -> Nat]
    BY <1>4, <1>8, AllocateExact
  <2>2. w \in [DOMAIN w -> Nat]
    BY <1>4 DEF Weighs
  <2>3. DOMAIN o \in SUBSET Addresses /\ DOMAIN w \in SUBSET Addresses
    BY <1>4, <2>1
  <2> HIDE DEF o
  <2> QED BY <2>1, <2>2, <2>3, WeightingOf
<1> HIDE DEF o
<1>10. job \in Job
  BY <1>8, <1>9 DEF Job
<1>11. jobs' = Append(jobs, job)
  BY <1>6 DEF o
<1>12. /\ job.count = k /\ job.weights = w /\ job.address = a /\ job.reward = reward /\ job.outputs = o
  OBVIOUS
<1> HIDE DEF job
<1>13. /\ jobs' \in Seq(Job) /\ Len(jobs') = Len(jobs) + 1 /\ jobs'[Len(jobs) + 1] = job
       /\ \A j \in 1..Len(jobs) : jobs'[j] = jobs[j]
  BY <1>1, <1>10, <1>11, AppendProperties
<1>14. DOMAIN jobs' = 1..(Len(jobs) + 1)
  BY <1>13, LenProperties
<1>15. Grown
  BY <1>1, <1>7, <1>13, LenProperties DEF Grown
<1>16. PICK last \in Nat : last = Len(jobs) + 1
  BY <1>1
<1>17. JobPays(last)' /\ Truthful(jobs'[last], shares)
  <2>1. jobs'[last] = job
    BY <1>16, <1>13
  <2>2. w = Weights(SubSeq(shares, 1, k), a) /\ o = Allocate(reward, w) /\ k <= Len(shares)
    BY DEF Prefix, w, o
  <2>3. Weighs(w, DOMAIN w)
    BY <1>4
  <2> QED BY <1>12, <2>1, <2>2, <2>3 DEF JobPays, Truthful
<1>18. ASSUME NEW j \in DOMAIN jobs' PROVE JobPays(j)' /\ Truthful(jobs'[j], shares)
  <2>1. CASE j = last
    BY <1>17, <2>1
  <2>2. CASE j # last
    <3>1. j \in DOMAIN jobs
      BY <1>16, <1>1, <1>14, <2>2
    <3>2. JobPays(j) /\ Truthful(jobs[j], shares) /\ jobs'[j] = jobs[j]
      BY <1>1, <1>13, <3>1 DEF Inv, JobsOk, MemoryOk, Says
    <3> QED BY <3>2 DEF JobPays
  <2> QED BY <2>1, <2>2
<1>19. JobsOk'
  <2>1. \A j \in DOMAIN jobs' : JobPays(j)'
    BY <1>18
  <2> QED BY <1>1, <1>7, <1>13, <1>14, <2>1 DEF JobsOk
<1>20. CallsOk'
  BY <1>1, <1>7, <1>15, CallIdle, CallMoves
<1>21. Counters'
  BY <1>1, <1>7 DEF Counters
<1>22. MemoryOk'
  <2>1. (\A x \in acked : In(x, shares)) /\ Distinct(shares)
    BY <1>1 DEF Inv, MemoryOk, Says
  <2>2. \A j \in DOMAIN jobs' : Truthful(jobs'[j], shares)
    BY <1>18
  <2>3. UNCHANGED <<shares, acked>>
    BY <1>7
  <2>4. Says(shares)'
    BY <2>1, <2>2, <2>3 DEF Says
  <2> QED BY <1>1, <2>1, <2>3, <2>4 DEF MemoryOk
<1>23. FileOk'
  <2>1. /\ FileOk /\ (Readable <=> Readable') /\ Replayed' = Replayed /\ (Follows <=> Follows')
    BY <1>7 DEF Inv, Readable, Replayed, Follows
  <2>2. lines' \in Seq(Written) /\ (unended' => lines' # <<>>)
    BY <1>7, <2>1 DEF FileOk
  <2>3. Readable' => Distinct(Replayed') /\ (up' => Follows') /\ (~up' => Says(Replayed)')
    BY <1>1, <1>7, <2>1, Zenon DEF FileOk
  <2>4. (~cut' => Readable' /\ ~unended' /\ (up' => Len(shares') = Len(lines'))) /\ (refused' => cut')
    BY <1>7, <2>1, Zenon DEF FileOk
  <2> QED BY <2>2, <2>3, <2>4 DEF FileOk
<1> QED BY <1>19, <1>20, <1>21, <1>22, <1>23 DEF Inv

(* A handler that stays about the same job.                                 *)
LEMMA SubmitsGood ==
  ASSUME UNCHANGED <<shares, jobs>>, NEW c \in Clients, NEW m \in {"status", "hash", "block"},
         NEW j \in DOMAIN jobs, NEW n \in Nonces, calls'[c] = [at |-> m, job |-> j, nonce |-> n],
         m = "block" => In([job |-> j, nonce |-> n, address |-> jobs[j].address], shares)
  PROVE  CallGood(c)'
<1>1. j \in DOMAIN jobs' /\ jobs'[j] = jobs[j] /\ shares' = shares
  OBVIOUS
<1>3. Submits(c)'
  BY <1>1 DEF Submits
<1> QED BY <1>3 DEF CallGood

LEMMA ExpireKeeps == ASSUME Inv, Expire PROVE Inv'
<1>1. UNCHANGED <<up, shares, lines, unended, cut, jobs, calls, tip, acked, refused, faults>> /\ live' \subseteq live
  BY DEF Expire
<1>2. Counters'
  BY <1>1 DEF Inv, Counters
<1> QED BY <1>1, <1>2, QuietStep

LEMMA SubmitKeeps == ASSUME Inv, NEW c \in Clients, Submit(c) PROVE Inv'
<1>1. UNCHANGED <<up, shares, lines, unended, cut, jobs, live, tip, acked, refused, faults>> /\ up
  BY DEF Submit
<1>2. PICK j \in live, n \in Nonces : Goto(c, [at |-> "status", job |-> j, nonce |-> n])
  BY DEF Submit
<1>3. j \in DOMAIN jobs
  BY DEF Inv, JobsOk
<1>4. CallGood(c)'
  BY <1>1, <1>2, <1>3, CallTo, SubmitsGood
<1>5. Counters'
  BY <1>1 DEF Inv, Counters
<1> QED BY <1>1, <1>2, <1>4, <1>5, QuietStep

LEMMA CheckTipKeeps == ASSUME Inv, NEW c \in Clients, CheckTip(c) PROVE Inv'
<1>1. UNCHANGED <<up, shares, lines, unended, cut, jobs, tip, acked, refused, faults>> /\ live' \subseteq live /\ up
  BY DEF CheckTip, Running
<1>2. Counters'
  BY <1>1 DEF Inv, Counters
<1>3. PICK m \in {"status", "hash", "block"}, j \in DOMAIN jobs, n \in Nonces :
        calls[c] = [at |-> m, job |-> j, nonce |-> n]
  <2>1. CallGood(c) /\ calls[c].at = "status"
    BY DEF Inv, CallsOk, CheckTip
  <2>2. Submits(c)
    BY <2>1, CallForms
  <2> QED BY <2>2, Zenon DEF Submits
<1>4. \E x : Goto(c, x) /\ CallGood(c)'
  <2>1. CASE Goto(c, Idle)
    BY <2>1, CallIdle
  <2>2. CASE Goto(c, [calls[c] EXCEPT !.at = "hash"])
    <3>1. [calls[c] EXCEPT !.at = "hash"] = [at |-> "hash", job |-> j, nonce |-> n]
      BY <1>3
    <3>2. Goto(c, [at |-> "hash", job |-> j, nonce |-> n])
      BY <2>2, <3>1 DEF Goto
    <3>3. CallGood(c)'
      BY <1>1, <3>2, CallTo, SubmitsGood
    <3> QED BY <3>2, <3>3
  <2> QED BY <2>1, <2>2 DEF CheckTip
<1> QED BY <1>1, <1>2, <1>4, QuietStep

(* The share of a block is counted when the block is submitted.             *)
LEMMA SubmitBlockKeeps == ASSUME ShareCoordinatorAssumption, Inv, NEW c \in Clients, SubmitBlock(c) PROVE Inv'
<1>1. UNCHANGED <<up, shares, lines, unended, cut, jobs, refused, faults>> /\ Goto(c, Idle) /\ live' = {}
      /\ tip' = tip + 1 /\ tip < MaxTip /\ Receipt(ShareOf(calls[c])) /\ calls[c].at = "block" /\ up
  BY DEF SubmitBlock, Running
<1>2. Counters'
  BY <1>1 DEF Inv, Counters, ShareCoordinatorAssumption
<1>3. CallGood(c)'
  BY <1>1, CallIdle
<1>4. In(ShareOf(calls[c]), shares)
  <2>1. Submits(c)
    BY <1>1, CallForms DEF Inv, CallsOk
  <2>2. PICK m \in {"status", "hash", "block"}, j \in DOMAIN jobs, n \in Nonces :
          /\ calls[c] = [at |-> m, job |-> j, nonce |-> n]
          /\ m = "block" => In([job |-> j, nonce |-> n, address |-> jobs[j].address], shares)
    BY <2>1, Zenon DEF Submits
  <2>3. m = "block" /\ ShareOf(calls[c]) = [job |-> j, nonce |-> n, address |-> jobs[j].address]
    BY <1>1, <2>2 DEF ShareOf
  <2> QED BY <2>2, <2>3
<1>5. \A s \in acked' : s \in acked \/ In(s, shares)
  BY <1>1, <1>4 DEF Receipt
<1> QED BY <1>1, <1>2, <1>3, <1>5, QuietStep

LEMMA UpstreamFailsKeeps == ASSUME ShareCoordinatorAssumption, Inv, NEW c \in Clients, UpstreamFails(c) PROVE Inv'
<1>1. UNCHANGED <<up, shares, lines, unended, cut, jobs, live, acked, refused, faults>> /\ Goto(c, Idle)
      /\ (tip' = tip \/ (tip < MaxTip /\ tip' = tip + 1)) /\ up
  BY DEF UpstreamFails, Running
<1>2. Counters'
  BY <1>1 DEF Inv, Counters, ShareCoordinatorAssumption
<1>3. CallGood(c)'
  BY <1>1, CallIdle
<1> QED BY <1>1, <1>2, <1>3, QuietStep

LEMMA TipMovesKeeps == ASSUME ShareCoordinatorAssumption, Inv, TipMoves PROVE Inv'
<1>1. UNCHANGED <<up, shares, lines, unended, cut, jobs, live, calls, acked, refused, faults>>
      /\ tip < MaxTip /\ tip' = tip + 1
  BY DEF TipMoves
<1>2. Counters'
  BY <1>1 DEF Inv, Counters, ShareCoordinatorAssumption
<1> QED BY <1>1, <1>2, QuietStep

(* A share that is new stays the only one of its kind.                      *)
LEMMA OnceMore ==
  ASSUME NEW s \in Seq(Share), Distinct(s), NEW x \in Share, \A i \in DOMAIN s : s[i] # x
  PROVE  /\ Append(s, x) \in Seq(Share) /\ Len(Append(s, x)) = Len(s) + 1 /\ Append(s, x)[Len(s) + 1] = x
         /\ \A i \in DOMAIN s : Append(s, x)[i] = s[i]
         /\ Distinct(Append(s, x)) /\ In(x, Append(s, x))
<1> DEFINE t == Append(s, x)
<1>1. Len(s) \in Nat /\ DOMAIN s = 1..Len(s)
  BY LenProperties
<1>2. t \in Seq(Share) /\ Len(t) = Len(s) + 1 /\ t[Len(s) + 1] = x /\ \A i \in 1..Len(s) : t[i] = s[i]
  BY AppendProperties
<1> HIDE DEF t
<1>3. DOMAIN t = 1..(Len(s) + 1)
  BY <1>2, LenProperties
<1>4. Distinct(t)
  <2> SUFFICES ASSUME NEW i \in DOMAIN t, NEW k \in DOMAIN t, t[i] = t[k] PROVE i = k
    BY DEF Distinct
  <2>1. CASE i = Len(s) + 1 /\ k = Len(s) + 1
    BY <2>1
  <2>2. CASE i = Len(s) + 1 /\ k # Len(s) + 1
    <3>1. k \in 1..Len(s)
      BY <1>1, <1>3, <2>2
    <3> QED BY <1>1, <1>2, <2>2, <3>1
  <2>3. CASE i # Len(s) + 1 /\ k = Len(s) + 1
    <3>1. i \in 1..Len(s)
      BY <1>1, <1>3, <2>3
    <3> QED BY <1>1, <1>2, <2>3, <3>1
  <2>4. CASE i # Len(s) + 1 /\ k # Len(s) + 1
    <3>1. i \in 1..Len(s) /\ k \in 1..Len(s)
      BY <1>1, <1>3, <2>4
    <3> QED BY <1>1, <1>2, <3>1 DEF Distinct
  <2> QED BY <2>1, <2>2, <2>3, <2>4
<1>5. In(x, t)
  BY <1>1, <1>2, <1>3 DEF In
<1> QED BY <1>1, <1>2, <1>4, <1>5 DEF t

(* What a process writes of a share while it runs: if the file can be read  *)
(* afterwards, then the share came whole, behind what the memory holds.     *)
LEMMA WrittenBehind ==
  ASSUME Inv, up, NEW share \in Share, ~Seen(share),
         NEW l \in {Line(share), Unreadable(Line(share))}, lines' = Behind(l)
  PROVE  /\ lines' \in Seq(Written) /\ lines' # <<>>
         /\ Readable' => Replayed' = Append(shares, share)
         /\ ~cut /\ l = Line(share) => Readable' /\ Len(lines') = Len(shares) + 1
<1>1. /\ lines \in Seq(Written) /\ shares \in Seq(Share) /\ Len(lines) \in Nat /\ Len(shares) \in Nat
      /\ DOMAIN lines = 1..Len(lines) /\ DOMAIN shares = 1..Len(shares)
  BY LenProperties DEF Inv, MemoryOk, FileOk
<1>2. l \in Written /\ l.share = share /\ l.seq \in {0, Len(shares) + 1} /\ (l = Line(share) => l.seq = Len(shares) + 1)
  <2>1. Line(share) = [seq |-> Len(shares) + 1, share |-> share]
    BY DEF Line
  <2>2. Unreadable(Line(share)) = [seq |-> 0, share |-> share]
    BY <2>1 DEF Unreadable
  <2> QED BY <1>1, <2>1, <2>2 DEF Written
<1>3. CASE unended
  <2> DEFINE n == Len(lines)
             bad == [l EXCEPT !.seq = 0]
  <2>1. n \in 1..n
    <3>1. lines # <<>>
      BY <1>3 DEF Inv, FileOk
    <3> QED BY <1>1, <3>1, EmptySeq
  <2>3. bad \in Written /\ bad.seq = 0
    BY <1>2 DEF Written
  <2>4. lines' = [lines EXCEPT ![n] = bad]
    BY <1>3 DEF Behind, Unreadable
  <2> HIDE DEF bad
  <2>5. lines' \in Seq(Written) /\ Len(lines') = n /\ lines'[n] = bad
    BY <1>1, <2>1, <2>3, <2>4, ExceptSeq
  <2>6. ~Readable'
    <3>1. n \in DOMAIN lines' /\ lines'[n].seq # n
      BY <2>1, <2>3, <2>5, LenProperties
    <3> QED BY <3>1 DEF Readable
  <2>7. lines' # <<>>
    BY <2>1, <2>5, EmptySeq
  <2>8. cut
    BY <1>3 DEF Inv, FileOk
  <2> QED BY <2>5, <2>6, <2>7, <2>8
<1>4. CASE ~unended
  <2> DEFINE n == Len(lines)
  <2>1. lines' = Append(lines, l)
    BY <1>4 DEF Behind
  <2>2. /\ lines' \in Seq(Written) /\ Len(lines') = n + 1 /\ lines'[n + 1] = l
        /\ \A i \in 1..n : lines'[i] = lines[i]
    BY <1>1, <1>2, <2>1, AppendProperties
  <2>3. DOMAIN lines' = 1..(n + 1) /\ lines' # <<>>
    BY <1>1, <2>2, LenProperties, EmptySeq
  <2>4. ASSUME Readable' PROVE Replayed' = Append(shares, share)
    <3>1. n + 1 \in DOMAIN lines' /\ lines'[n + 1].seq = n + 1
      BY <1>1, <2>3, <2>4 DEF Readable
    <3>2. n = Len(shares)
      <4> DEFINE m == Len(shares)
      <4>1. l.seq = n + 1 /\ (l.seq = 0 \/ l.seq = m + 1)
        BY <1>2, <2>2, <3>1
      <4>2. n \in Nat /\ m \in Nat
        BY <1>1
      <4> HIDE DEF n, m
      <4>3. n + 1 = 0 \/ n + 1 = m + 1
        BY <4>1, Zenon
      <4>4. n = m
        BY <4>2, <4>3
      <4> QED BY <4>4 DEF n, m
    <3>3. Readable
      <4>1. \A i \in 1..n : lines'[i].seq = i
        BY <1>1, <2>3, <2>4 DEF Readable
      <4> QED BY <1>1, <2>2, <4>1 DEF Readable
    <3>4. \A i \in 1..n : lines[i].share = shares[i]
      BY <1>1, <3>2, <3>3 DEF Inv, FileOk, Follows
    <3> DEFINE t == Append(shares, share)
               r == [i \in DOMAIN lines' |-> lines'[i].share]
    <3>5. t \in Seq(Share) /\ Len(t) = n + 1 /\ t[n + 1] = share /\ \A i \in 1..n : t[i] = shares[i]
      BY <1>1, <3>2, AppendProperties
    <3> HIDE DEF t
    <3>6. \A i \in 1..(n + 1) : lines'[i].share = t[i]
      <4> SUFFICES ASSUME NEW i \in 1..(n + 1) PROVE lines'[i].share = t[i]
        OBVIOUS
      <4>1. CASE i = n + 1
        BY <1>2, <2>2, <3>5, <4>1
      <4>2. CASE i # n + 1
        <5>1. i \in 1..n
          BY <1>1, <4>2
        <5> QED BY <2>2, <3>4, <3>5, <5>1
      <4> QED BY <4>1, <4>2
    <3>7. DOMAIN t = 1..(n + 1)
      BY <3>5, LenProperties
    <3>8. t = [i \in 1..(n + 1) |-> t[i]]
      BY <3>5, <3>7
    <3>9. r = t
      BY <2>3, <3>6, <3>8
    <3> QED BY <3>9 DEF Replayed, t
  <2>5. ASSUME ~cut, l = Line(share) PROVE Readable' /\ Len(lines') = Len(shares) + 1
    <3>1. Readable /\ Len(shares) = n
      BY <2>5 DEF Inv, FileOk
    <3>2. \A i \in 1..n : lines'[i].seq = i
      BY <1>1, <2>2, <3>1 DEF Readable
    <3>3. lines'[n + 1].seq = n + 1
      BY <1>2, <2>2, <2>5, <3>1
    <3>4. \A i \in 1..(n + 1) : i \in 1..n \/ i = n + 1
      BY <1>1
    <3>5. Readable'
      BY <2>3, <3>2, <3>3, <3>4 DEF Readable
    <3> QED BY <2>2, <3>1, <3>5
  <2> QED BY <2>2, <2>3, <2>4, <2>5
<1> QED BY <1>3, <1>4

(* What a handler about to append is at.                                    *)
LEMMA AtHash ==
  ASSUME Inv, NEW c \in Clients, calls[c].at = "hash"
  PROVE  \E j \in DOMAIN jobs, n \in Nonces :
           /\ calls[c] = [at |-> "hash", job |-> j, nonce |-> n]
           /\ ShareOf(calls[c]) = [job |-> j, nonce |-> n, address |-> jobs[j].address]
           /\ ShareOf(calls[c]) \in Share
<1>1. Submits(c)
  BY CallForms DEF Inv, CallsOk
<1>2. PICK m \in {"status", "hash", "block"}, j \in DOMAIN jobs, n \in Nonces :
        calls[c] = [at |-> m, job |-> j, nonce |-> n]
  BY <1>1, Zenon DEF Submits
<1>3. m = "hash" /\ ShareOf(calls[c]) = [job |-> j, nonce |-> n, address |-> jobs[j].address]
  BY <1>2 DEF ShareOf
<1>4. jobs \in Seq(Job)
  BY DEF Inv, JobsOk
<1>5. jobs[j] \in Job /\ j \in Nat
  BY <1>4, ElementOfSeq, LenProperties
<1>6. [job |-> j, nonce |-> n, address |-> jobs[j].address] \in Share
  BY <1>5 DEF Job, Share
<1> QED BY <1>2, <1>3, <1>6

(* An append cut short: the file can only be read if the share is in it.    *)
LEMMA CutFile ==
  ASSUME Inv, up, NEW share \in Share, ~Seen(share), CutShort(share)
  PROVE  /\ cut' /\ unended' \in BOOLEAN /\ lines' \in Seq(Written) /\ lines' # <<>>
         /\ Readable' => Replayed' = Append(shares, share)
<1>1. \/ lines' = Behind(Unreadable(Line(share))) /\ unended' = TRUE
      \/ lines' = Behind(Line(share)) /\ unended' \in BOOLEAN
  BY DEF CutShort
<1>2. PICK l \in {Line(share), Unreadable(Line(share))} : lines' = Behind(l)
  BY <1>1
<1>3. unended' \in BOOLEAN /\ cut'
  BY <1>1, Zenon DEF CutShort
<1> QED BY <1>2, <1>3, WrittenBehind

LEMMA NewShare ==
  ASSUME Inv, NEW share \in Share, ~Seen(share)
  PROVE  /\ Append(shares, share) \in Seq(Share) /\ Len(Append(shares, share)) = Len(shares) + 1
         /\ \A i \in DOMAIN shares : Append(shares, share)[i] = shares[i]
         /\ Distinct(Append(shares, share)) /\ In(share, Append(shares, share))
         /\ up => Says(Append(shares, share))
<1>1. shares \in Seq(Share) /\ Distinct(shares) /\ jobs \in Seq(Job) /\ (up => Says(shares)) /\ Len(shares) \in Nat
  BY LenProperties DEF Inv, MemoryOk, JobsOk
<1>2. \A i \in DOMAIN shares : shares[i] # share
  BY DEF Seen
<1>3. /\ Append(shares, share) \in Seq(Share) /\ Len(Append(shares, share)) = Len(shares) + 1
      /\ \A i \in DOMAIN shares : Append(shares, share)[i] = shares[i]
      /\ Distinct(Append(shares, share)) /\ In(share, Append(shares, share))
  BY <1>1, <1>2, OnceMore
<1>4. Len(shares) <= Len(Append(shares, share))
  BY <1>1, <1>3
<1>5. up => Says(Append(shares, share))
  BY <1>1, <1>3, <1>4, LongerSays
<1> QED BY <1>3, <1>5

(* Of a file whose content is Append(shares, share), in the next state.     *)
LEMMA AppendedFollows ==
  ASSUME Inv, NEW share \in Share, ~Seen(share), lines' \in Seq(Written), Replayed' = Append(shares, share),
         shares' \in {shares, Append(shares, share)}
  PROVE  Follows'
<1> DEFINE t == Append(shares, share)
<1>1. /\ t \in Seq(Share) /\ Len(t) = Len(shares) + 1 /\ \A i \in DOMAIN shares : t[i] = shares[i]
      /\ Len(shares) \in Nat /\ DOMAIN shares = 1..Len(shares)
  BY NewShare, LenProperties DEF Inv, MemoryOk
<1>2. t = [i \in DOMAIN lines' |-> lines'[i].share]
  BY DEF Replayed
<1> HIDE DEF t
<1>3. DOMAIN t = 1..Len(t) /\ DOMAIN lines' = 1..Len(lines') /\ Len(lines') \in Nat
  BY <1>1, LenProperties
<1>4. DOMAIN t = DOMAIN lines'
  BY <1>2
<1>5. Len(lines') = Len(t)
  <2>1. Len(t) \in 1..Len(lines')
    BY <1>1, <1>3, <1>4
  <2>2. Len(lines') \in 1..Len(t)
    BY <1>3, <1>4, <2>1
  <2>3. Len(t) \in Nat
    BY <1>1
  <2> DEFINE a == Len(t)
             b == Len(lines')
  <2>4. a \in 1..b /\ b \in 1..a /\ a \in Nat /\ b \in Nat
    BY <1>3, <2>1, <2>2, <2>3
  <2> HIDE DEF a, b
  <2>5. a = b
    BY <2>4
  <2> QED BY <2>5 DEF a, b
<1>6. \A i \in DOMAIN t : lines'[i].share = t[i]
  BY <1>2
<1>7. CASE shares' = shares
  <2>1. \A i \in DOMAIN shares : lines'[i].share = shares[i]
    BY <1>1, <1>3, <1>6
  <2> QED BY <1>1, <1>5, <1>7, <2>1 DEF Follows
<1>8. CASE shares' = t
  BY <1>1, <1>5, <1>6, <1>8 DEF Follows
<1> QED BY <1>7, <1>8 DEF t

LEMMA AppendFailsKeeps == ASSUME ShareCoordinatorAssumption, Inv, NEW c \in Clients, AppendFails(c) PROVE Inv'
<1>1. UNCHANGED <<up, shares, jobs, live, tip, acked, refused>> /\ Goto(c, Idle) /\ up
      /\ faults' = faults + 1 /\ faults < MaxFaults /\ calls[c].at = "hash" /\ ~Seen(ShareOf(calls[c]))
      /\ (CutShort(ShareOf(calls[c])) \/ UNCHANGED <<lines, unended, cut>>)
  BY DEF AppendFails, Running
<1>2. CallGood(c)'
  BY <1>1, CallIdle
<1>3. tip' \in 0..MaxTip /\ faults' \in 0..MaxFaults
  BY <1>1 DEF Inv, Counters, ShareCoordinatorAssumption
<1>4. CASE UNCHANGED <<lines, unended, cut>>
  <2>1. Counters'
    BY <1>1, <1>3, <1>4, Zenon DEF Inv, Counters
  <2> QED BY <1>1, <1>2, <1>4, <2>1, QuietStep
<1>5. CASE CutShort(ShareOf(calls[c]))
  <2>1. PICK share \in Share : share = ShareOf(calls[c])
    BY <1>1, AtHash
  <2>2. /\ cut' /\ unended' \in BOOLEAN /\ lines' \in Seq(Written) /\ lines' # <<>>
        /\ Readable' => Replayed' = Append(shares, share)
    BY <1>1, <1>5, <2>1, CutFile
  <2>3. Readable' => Distinct(Replayed') /\ Follows'
    BY <1>1, <2>1, <2>2, NewShare, AppendedFollows
  <2>4. FileOk'
    BY <1>1, <2>2, <2>3 DEF FileOk
  <2>5. cut' \in BOOLEAN
    BY <1>5, Zenon DEF CutShort
  <2>6. Counters'
    BY <1>1, <1>3, <2>2, <2>5, Zenon DEF Inv, Counters
  <2>7. MemoryOk' /\ JobsOk' /\ Grown
    BY <1>1, MemoryKept, JobsKept, NoGrowth
  <2>8. CallsOk'
    BY <1>1, <1>2, <2>7, CallMoves
  <2> QED BY <2>4, <2>6, <2>7, <2>8 DEF Inv
<1> QED BY <1>1, <1>4, <1>5

(* The process ends, and starts again from the lines of the log.            *)
LEMMA StopKeeps == ASSUME ShareCoordinatorAssumption, Inv, Stop PROVE Inv'
<1>1. up /\ up' = FALSE /\ shares' = <<>> /\ live' = {} /\ calls' = [c \in Clients |-> Idle]
      /\ UNCHANGED <<jobs, tip, acked, refused>>
  BY DEF Stop
<1>2. \/ UNCHANGED <<lines, unended, cut, faults>>
      \/ \E c \in Clients :
          /\ calls[c].at = "hash" /\ ~Seen(ShareOf(calls[c])) /\ CutShort(ShareOf(calls[c]))
          /\ faults < MaxFaults /\ faults' = faults + 1
  BY DEF Stop
<1>3. MemoryOk'
  BY <1>1 DEF MemoryOk, Distinct
<1>4. JobsOk'
  BY <1>1, JobsKept
<1>5. CallsOk'
  BY <1>1 DEF CallsOk, CallGood
<1>6. refused' \in BOOLEAN /\ up' \in BOOLEAN
  BY <1>1, Zenon DEF Inv, Counters
<1>7. CASE UNCHANGED <<lines, unended, cut, faults>>
  <2>1. tip' \in 0..MaxTip /\ faults' \in 0..MaxFaults
    BY <1>1, <1>7 DEF Inv, Counters
  <2>2. Counters'
    BY <1>6, <1>7, <2>1, Zenon DEF Inv, Counters
  <2>3. Readable => Distinct(Replayed) /\ Says(Replayed)
    BY <1>1, InvSays DEF Inv, FileOk
  <2>4. (Readable <=> Readable') /\ Replayed' = Replayed /\ (Says(Replayed) <=> Says(Replayed)')
    BY <1>1, <1>7 DEF Readable, Replayed, Says
  <2>5. FileOk'
    BY <1>1, <1>7, <2>3, <2>4 DEF Inv, FileOk
  <2> QED BY <1>3, <1>4, <1>5, <2>2, <2>5 DEF Inv
<1>8. CASE \E c \in Clients :
             /\ calls[c].at = "hash" /\ ~Seen(ShareOf(calls[c])) /\ CutShort(ShareOf(calls[c]))
             /\ faults < MaxFaults /\ faults' = faults + 1
  <2>1. PICK c \in Clients : /\ calls[c].at = "hash" /\ ~Seen(ShareOf(calls[c])) /\ CutShort(ShareOf(calls[c]))
                             /\ faults < MaxFaults /\ faults' = faults + 1
    BY <1>8
  <2>2. PICK share \in Share : share = ShareOf(calls[c])
    BY <2>1, AtHash
  <2>3. /\ cut' /\ unended' \in BOOLEAN /\ lines' \in Seq(Written) /\ lines' # <<>>
        /\ Readable' => Replayed' = Append(shares, share)
    BY <1>1, <2>1, <2>2, CutFile
  <2>4. Distinct(Append(shares, share)) /\ Says(Append(shares, share))
    BY <1>1, <2>1, <2>2, NewShare
  <2>5. Readable' => Distinct(Replayed') /\ Says(Replayed)'
    BY <1>1, <2>3, <2>4 DEF Says
  <2>6. FileOk'
    BY <1>1, <2>3, <2>5 DEF FileOk
  <2>7. tip' \in 0..MaxTip /\ faults' \in 0..MaxFaults
    BY <1>1, <2>1 DEF Inv, Counters, ShareCoordinatorAssumption
  <2>8. cut' \in BOOLEAN
    BY <2>1, Zenon DEF CutShort
  <2>9. Counters'
    BY <1>6, <2>3, <2>7, <2>8, Zenon DEF Counters
  <2> QED BY <1>3, <1>4, <1>5, <2>6, <2>9 DEF Inv
<1> QED BY <1>2, <1>7, <1>8

LEMMA RestartKeeps == ASSUME Inv, Restart PROVE Inv'
<1>1. UNCHANGED <<lines, unended, cut, jobs, live, calls, tip, acked, faults>> /\ ~up
  BY DEF Restart
<1>2. CASE Readable /\ Distinct(Replayed)
  <2>1. up' = TRUE /\ shares' = Replayed /\ UNCHANGED refused
    BY <1>2 DEF Restart
  <2>2. Counters'
    BY <1>1, <2>1 DEF Inv, Counters
  <2>3. lines \in Seq(Written) /\ Says(Replayed) /\ \A c \in Clients : calls[c] = Idle
    BY <1>1, <1>2 DEF Inv, FileOk, CallsOk
  <2>4. Replayed \in Seq(Share) /\ Len(Replayed) = Len(lines) /\ DOMAIN lines = 1..Len(lines)
        /\ Len(lines) \in Nat /\ \A i \in 1..Len(lines) : Replayed[i] = lines[i].share
    BY <2>3, ReplayedTyped
  <2>5. Says(shares)'
    BY <1>1, <2>1, <2>3 DEF Says
  <2>6. MemoryOk'
    BY <1>2, <2>1, <2>4, <2>5 DEF MemoryOk
  <2>7. Follows'
    BY <1>1, <2>1, <2>4, LenProperties DEF Follows
  <2>8. Readable' /\ Replayed' = Replayed
    BY <1>1, <1>2 DEF Readable, Replayed
  <2>9. lines' \in Seq(Written) /\ (unended' => lines' # <<>>) /\ (~cut' => ~unended') /\ (refused' => cut')
    BY <1>1, <2>1 DEF Inv, FileOk
  <2>10. Len(shares') = Len(lines')
    BY <1>1, <2>1, <2>4
  <2>11. FileOk'
    BY <1>2, <2>1, <2>7, <2>8, <2>9, <2>10 DEF FileOk
  <2>12. JobsOk'
    BY <1>1, JobsKept
  <2>13. CallsOk'
    BY <1>1, <2>1, <2>3 DEF Inv, CallsOk, CallGood
  <2> QED BY <2>2, <2>6, <2>11, <2>12, <2>13 DEF Inv
<1>3. CASE ~(Readable /\ Distinct(Replayed))
  <2>1. refused' = TRUE /\ UNCHANGED <<up, shares>>
    BY <1>3 DEF Restart
  <2>2. cut
    BY <1>3, Zenon DEF Inv, FileOk
  <2>3. Counters'
    BY <1>1, <2>1 DEF Inv, Counters
  <2>4. MemoryOk' /\ JobsOk' /\ CallsOk'
    BY <1>1, <2>1, MemoryKept, JobsKept, NoGrowth, CallsKept
  <2>5. FileOk'
    BY <1>1, <2>1, <2>2 DEF Inv, FileOk, Readable, Replayed, Says
  <2> QED BY <2>3, <2>4, <2>5 DEF Inv
<1> QED BY <1>2, <1>3

(* ledger.append: a share that was not seen before is one more in the       *)
(* memory, and one more line in the file.                                   *)
LEMMA AppendShareKeeps ==
  ASSUME ShareCoordinatorAssumption, Inv, NEW c \in Clients, AppendShare(c)
  PROVE  Inv'
<1>1. UNCHANGED <<up, cut, jobs, live, tip, refused, faults>> /\ up /\ calls[c].at = "hash"
  BY DEF AppendShare, Running
<1>2. PICK j \in DOMAIN jobs, n \in Nonces :
        /\ calls[c] = [at |-> "hash", job |-> j, nonce |-> n]
        /\ ShareOf(calls[c]) = [job |-> j, nonce |-> n, address |-> jobs[j].address]
        /\ ShareOf(calls[c]) \in Share
  BY <1>1, AtHash
<1>3. PICK share \in Share : share = ShareOf(calls[c])
  BY <1>2
<1>4. CASE Seen(share)
  <2>1. Goto(c, Idle) /\ UNCHANGED <<shares, lines, unended, acked>>
    BY <1>3, <1>4 DEF AppendShare
  <2>2. CallGood(c)'
    BY <2>1, CallIdle
  <2>3. Counters'
    BY <1>1, <2>1 DEF Inv, Counters
  <2> QED BY <1>1, <2>1, <2>2, <2>3, QuietStep
<1>5. CASE ~Seen(share)
  <2>1. shares' = Append(shares, share) /\ lines' = Behind(Line(share)) /\ unended' = FALSE
    BY <1>3, <1>5 DEF AppendShare, Logged
  <2>2. \/ Goto(c, [calls[c] EXCEPT !.at = "block"]) /\ acked' = acked
        \/ Goto(c, Idle) /\ acked' = acked \cup {share}
    BY <1>3, <1>5 DEF AppendShare, Receipt
  <2>3. /\ shares' \in Seq(Share) /\ Len(shares') = Len(shares) + 1
        /\ \A i \in DOMAIN shares : shares'[i] = shares[i]
        /\ Distinct(shares') /\ In(share, shares') /\ Says(shares')
    BY <1>1, <1>5, <2>1, NewShare
  <2>4. /\ lines' \in Seq(Written) /\ lines' # <<>>
        /\ Readable' => Replayed' = Append(shares, share)
        /\ ~cut => Readable' /\ Len(lines') = Len(shares) + 1
    BY <1>1, <1>5, <2>1, WrittenBehind
  <2>5. Grown
    <3>1. jobs \in Seq(Job) /\ Len(jobs) \in Nat /\ Len(shares) \in Nat
      BY LenProperties DEF Inv, MemoryOk, JobsOk
    <3> QED BY <1>1, <2>3, <3>1 DEF Grown
  <2>6. Counters'
    BY <1>1, <2>1 DEF Inv, Counters
  <2>7. MemoryOk'
    <3>1. \A s \in acked' : In(s, shares')
      BY <2>2, <2>3 DEF Says
    <3>2. Says(shares)'
      BY <1>1, <2>3, <3>1 DEF Says
    <3> QED BY <2>3, <3>2 DEF MemoryOk
  <2>8. Readable' => Distinct(Replayed') /\ Follows'
    BY <1>5, <2>1, <2>3, <2>4, AppendedFollows
  <2>9. (~cut' => Readable' /\ Len(shares') = Len(lines')) /\ (refused' => cut')
    BY <1>1, <2>3, <2>4 DEF Inv, FileOk
  <2>10. FileOk'
    BY <1>1, <2>1, <2>4, <2>8, <2>9 DEF FileOk
  <2>11. JobsOk'
    BY <1>1, JobsKept
  <2>12. CallsOk'
    <3>1. CASE Goto(c, Idle)
      BY <1>1, <2>5, <3>1, CallIdle, CallMoves
    <3>2. CASE Goto(c, [calls[c] EXCEPT !.at = "block"])
      <4>1. [calls[c] EXCEPT !.at = "block"] = [at |-> "block", job |-> j, nonce |-> n]
        BY <1>2
      <4>2. Goto(c, [at |-> "block", job |-> j, nonce |-> n])
        BY <3>2, <4>1 DEF Goto
      <4>3. calls'[c] = [at |-> "block", job |-> j, nonce |-> n]
        BY <4>2, CallTo
      <4>4. j \in DOMAIN jobs' /\ In([job |-> j, nonce |-> n, address |-> jobs'[j].address], shares')
        BY <1>1, <1>2, <1>3, <2>3
      <4>5. Submits(c)'
        BY <4>3, <4>4 DEF Submits
      <4>6. CallGood(c)'
        BY <4>5 DEF CallGood
      <4> QED BY <1>1, <2>5, <4>2, <4>6, CallMoves
    <3> QED BY <2>2, <3>1, <3>2
  <2> QED BY <2>6, <2>7, <2>10, <2>11, <2>12 DEF Inv
<1> QED BY <1>4, <1>5

(* It holds at the start, and every step keeps it.                          *)
LEMMA InvInit == ASSUME ShareCoordinatorAssumption, Init PROVE Inv
<1>1. /\ up = TRUE /\ shares = <<>> /\ lines = <<>> /\ unended = FALSE /\ cut = FALSE
      /\ jobs = <<>> /\ live = {} /\ calls = [c \in Clients |-> Idle]
      /\ tip = 0 /\ acked = {} /\ refused = FALSE /\ faults = 0
  BY DEF Init
<1>2. lines \in Seq(Written) /\ shares \in Seq(Share) /\ jobs \in Seq(Job) /\ DOMAIN lines = {} /\ DOMAIN jobs = {}
      /\ DOMAIN shares = {} /\ Len(jobs) = 0 /\ Len(shares) = 0 /\ Len(lines) = 0
  BY <1>1
<1>3. Counters
  <2>1. up \in BOOLEAN /\ unended \in BOOLEAN /\ cut \in BOOLEAN /\ refused \in BOOLEAN
    BY <1>1, Zenon
  <2>2. tip \in 0..MaxTip /\ faults \in 0..MaxFaults
    BY <1>1 DEF ShareCoordinatorAssumption
  <2> QED BY <2>1, <2>2, Zenon DEF Counters
<1>4. MemoryOk /\ FileOk
  BY <1>1, <1>2 DEF MemoryOk, FileOk, Says, Distinct, Follows, Readable, Replayed
<1>5. JobsOk
  BY <1>1, <1>2 DEF JobsOk, ShareCoordinatorAssumption
<1>6. CallsOk
  BY <1>1 DEF CallsOk, CallGood
<1> QED BY <1>3, <1>4, <1>5, <1>6 DEF Inv

LEMMA InvNext == ASSUME ShareCoordinatorAssumption, Inv, [Next]_vars PROVE Inv'
<1>1. ASSUME NEW c \in Clients, AskWork(c) PROVE Inv'
  BY <1>1, AskWorkKeeps
<1>2. ASSUME NEW c \in Clients, GiveWork(c) PROVE Inv'
  BY <1>2, GiveWorkKeeps
<1>3. ASSUME NEW c \in Clients, Submit(c) PROVE Inv'
  BY <1>3, SubmitKeeps
<1>4. ASSUME NEW c \in Clients, CheckTip(c) PROVE Inv'
  BY <1>4, CheckTipKeeps
<1>5. ASSUME NEW c \in Clients, AppendShare(c) PROVE Inv'
  BY <1>5, AppendShareKeeps
<1>6. ASSUME NEW c \in Clients, AppendFails(c) PROVE Inv'
  BY <1>6, AppendFailsKeeps
<1>7. ASSUME NEW c \in Clients, SubmitBlock(c) PROVE Inv'
  BY <1>7, SubmitBlockKeeps
<1>8. ASSUME NEW c \in Clients, UpstreamFails(c) PROVE Inv'
  BY <1>8, UpstreamFailsKeeps
<1>9. CASE Expire
  BY <1>9, ExpireKeeps
<1>10. CASE TipMoves
  BY <1>10, TipMovesKeeps
<1>11. CASE Stop
  BY <1>11, StopKeeps
<1>12. CASE Restart
  BY <1>12, RestartKeeps
<1>13. CASE UNCHANGED vars
  <2>1. Counters'
    BY <1>13 DEF vars, Inv, Counters
  <2> QED BY <1>13, <2>1, QuietStep DEF vars
<1> QED BY <1>1, <1>2, <1>3, <1>4, <1>5, <1>6, <1>7, <1>8, <1>9, <1>10, <1>11, <1>12, <1>13 DEF Next

LEMMA InvHolds == ASSUME ShareCoordinatorAssumption PROVE Spec => []Inv
<1>1. ASSUME Init PROVE Inv
  BY <1>1, InvInit
<1>2. ASSUME Inv, [Next]_vars PROVE Inv'
  BY <1>2, InvNext
<1> QED BY <1>1, <1>2, PTL DEF Spec

(* The types; and a handler is about nothing but what it has read.          *)
THEOREM CoordinatorTypeOK == ASSUME ShareCoordinatorAssumption PROVE Spec => []TypeOK
BY InvHolds, InvTypes, PTL

(* One proof of work is paid once, whoever submits it again and whenever,   *)
(* and no log that can be read has it twice (ShareLedger.append, load).     *)
THEOREM PaidOnce == ASSUME ShareCoordinatorAssumption PROVE Spec => []SharesOnce
<1>1. Inv => SharesOnce
  BY DEF Inv, MemoryOk, FileOk, SharesOnce
<1> QED BY <1>1, InvHolds, PTL

(* A share with a receipt counts while the process runs, and in every log   *)
(* that can be read (makeShareReceipt).                                     *)
THEOREM ReceiptsHonoured == ASSUME ShareCoordinatorAssumption PROVE Spec => []ReceiptsKept
<1>1. Inv => ReceiptsKept
  BY InvSays DEF ReceiptsKept, Says
<1> QED BY <1>1, InvHolds, PTL

(* A log that no append was cut short in can be read, is what the process   *)
(* knows, and no start refuses it (durableAppendLine, ShareLedger.load).    *)
THEOREM LogReadable == ASSUME ShareCoordinatorAssumption PROVE Spec => []ReadableUnlessCut
BY InvHolds, InvReadable, PTL

(* The signed proof of a job tells the truth about the log, although the    *)
(* template was fetched while shares were appended (createWork).            *)
THEOREM ProofsTruthful == ASSUME ShareCoordinatorAssumption PROVE Spec => []ProofMatchesLog
<1>1. Inv => ProofMatchesLog
  BY InvSays DEF ProofMatchesLog, Says
<1> QED BY <1>1, InvHolds, PTL

(* The outputs of every job add up to its reward, and each address gets its *)
(* part or up to an atom for each address more (allocatePplnsOutputs).      *)
THEOREM SplitsExact == ASSUME ShareCoordinatorAssumption PROVE Spec => []SplitExact
<1>1. ASSUME ShareCoordinatorAssumption, Inv PROVE SplitExact
  <2> SUFFICES ASSUME NEW j \in DOMAIN jobs
               PROVE  LET o == jobs[j].outputs
                          w == jobs[j].weights IN
                      /\ SumOver(o, DOMAIN o) = jobs[j].reward
                      /\ \A a \in DOMAIN o :
                           o[a] - Part(jobs[j].reward, w, a) \in 0..Cardinality(DOMAIN w) - 1
    BY DEF SplitExact
  <2> DEFINE o == jobs[j].outputs
             w == jobs[j].weights
             R == jobs[j].reward
  <2>1. jobs \in Seq(Job) /\ JobPays(j)
    BY <1>1 DEF Inv, JobsOk
  <2>2. jobs[j] \in Job
    BY <2>1, ElementOfSeq, LenProperties
  <2>3. R \in Nat
    BY <1>1, <2>2 DEF Job, ShareCoordinatorAssumption
  <2>5. Weighs(w, DOMAIN w) /\ o = Allocate(R, w)
    BY <2>1 DEF JobPays
  <2> HIDE DEF R, w
  <2>7. /\ SumOver(o, DOMAIN o) = R
        /\ \A a \in DOMAIN o : o[a] - Part(R, w, a) \in 0..(Cardinality(DOMAIN w) - 1)
    BY <2>3, <2>5, AllocateExact
  <2> QED BY <2>7 DEF R, w
<1> QED BY <1>1, InvHolds, PTL

(* Work can be had for every window with no more addresses than a coinbase  *)
(* has outputs, if the reward has an atom for each of its shares            *)
(* (createDistributedTemplate, validateTemplate).                           *)
THEOREM WorkIsAvailable == ASSUME ShareCoordinatorAssumption PROVE Spec => []WorkAvailable
<1>1. ASSUME ShareCoordinatorAssumption, Inv PROVE WorkAvailable
  <2> SUFFICES ASSUME NEW a \in Addresses, NEW reward \in Rewards, reward >= WindowSize,
                      Cardinality(DOMAIN Weights(shares, a)) <= MaxOutputs
               PROVE  Payable(reward, Weights(shares, a))
    BY DEF WorkAvailable
  <2> DEFINE w == Weights(shares, a)
  <2>1. shares \in Seq(Share) /\ reward \in Nat /\ WindowSize \in Nat
    BY <1>1 DEF Inv, MemoryOk, ShareCoordinatorAssumption
  <2>2. Weighs(w, DOMAIN w) /\ Total(w) <= WindowSize
    BY <1>1, <2>1, WeightsWeigh
  <2> HIDE DEF w
  <2>3. Total(w) \in Nat
    BY <2>2, TotalPositive
  <2>4. reward >= Total(w)
    BY <2>1, <2>2, <2>3
  <2>5. First(w) \in DOMAIN Allocate(reward, w)
    BY <2>1, <2>2, <2>4, FirstIsPaid
  <2> QED BY <2>5 DEF Payable, w
<1> QED BY <1>1, InvHolds, PTL
-----------------------------------------------------------------------------
(* What the pages of miners believe of coordinators.  Its state is apart    *)
(* from that of a coordinator.                                              *)
CONSTANTS Bases, Tabs, MaxChain, MaxSeq, MaxShares, MaxEvents, None
VARIABLES own, ledger, pins, page, session, accused, events, wrong
Pages == INSTANCE CoordinatorTrust

(* What the state is made of.  A descriptor is of the coordinator at its    *)
(* address, and its certificates are of one line.                           *)
Certificates == [sequence : Nat, from : Pages!Identity, to : Pages!Identity]
Descriptors == [id : Pages!Identity, sequence : Nat, chain : Seq(Certificates)]
OfLine(d) == \A i \in DOMAIN d.chain : /\ d.chain[i] \in Certificates
                                       /\ d.chain[i].from.line = d.id.line
Genuine(b, d) ==
  /\ d \in Descriptors /\ d.id.line.base = b /\ d.sequence = d.id.n
  /\ Len(d.chain) <= MaxChain /\ OfLine(d)
PinSet == [id : Pages!Identity, sequence : Nat]
Pinned(store) ==
  /\ store \in [Bases -> PinSet \cup {None}]
  /\ \A b \in Bases : store[b] # None => store[b].sequence = store[b].id.n

Owned == own \in [Bases -> Descriptors] /\ \A b \in Bases : Genuine(b, own[b])
Counted ==
  /\ ledger \in [Bases -> [n : Nat, window : Nat]] /\ wrong \in SUBSET Bases
  /\ \A b \in Bases : b \notin wrong => ledger[b].window = 1

(* A page holds a genuine descriptor where it checks one.                   *)
Stages == {"idle", "descriptor", "verify", "chain", "work", "mine"}
Holds(p) ==
  /\ p.at \in Stages /\ (p.at # "idle" => p.b \in Bases)
  /\ p.at \in {"verify", "chain"} => Genuine(p.b, p.d)
  /\ p.at = "chain" => Pinned(p.store)
Opened == DOMAIN page = Tabs /\ \A t \in Tabs : Holds(page[t])

(* Where the window never changed, every proof is of a window of one share. *)
Windowed(l) == IF l < 1 THEN l ELSE 1
ProofSet == [signer : Pages!Identity, shares : Nat, weights : Nat]
Proved ==
  /\ DOMAIN session = Tabs
  /\ \A t \in Tabs : DOMAIN session[t].ids = Bases /\ DOMAIN session[t] = {"ids", "proofs"}
  /\ \A t \in Tabs : \A p \in session[t].proofs :
       p \in ProofSet /\ (p.signer.line.base \notin wrong => p.weights = Windowed(p.shares))
PageInv == Owned /\ Counted /\ Opened /\ Proved /\ Pinned(pins) /\ accused \subseteq wrong

(* Identities of one address in the order in which it has them: lines one   *)
(* after the other, and each along its rotations.  A page knows none that   *)
(* its coordinator did not have yet, and holds no descriptor that is older  *)
(* than what it works for.                                                  *)
Upto(i, j) == i.line.lost < j.line.lost \/ (i.line.lost = j.line.lost /\ i.n <= j.n)
IdsOf(b) == {i \in Pages!Identity : i.line.base = b}
InOrder(t) ==
  /\ \A b \in Bases : session[t].ids[b] # None => session[t].ids[b] \in IdsOf(b) /\ Upto(session[t].ids[b], own[b].id)
  /\ page[t].at \in {"verify", "chain"} =>
       /\ Upto(page[t].d.id, own[page[t].b].id)
       /\ session[t].ids[page[t].b] # None => Upto(session[t].ids[page[t].b], page[t].d.id)
Ordered == \A t \in Tabs : InOrder(t)

(* A chain of certificates leads from the pin: the first that is new was    *)
(* signed by the pinned identity, and the last ends further on.             *)
LEMMA AuthorizedAdvances ==
  ASSUME NEW b \in Bases, NEW d, Genuine(b, d), NEW pin \in PinSet, Pages!Authorized(pin, d)
  PROVE  d.id.line = pin.id.line /\ d.sequence > pin.sequence
<1> DEFINE new == {i \in DOMAIN d.chain : d.chain[i].sequence > pin.sequence}
           Before(i) == {j \in new : j < i}
<1>1. ASSUME NEW i \in new, Before(i) = {} PROVE d.chain[i].from = pin.id
  BY <1>1, Zenon DEF Pages!Authorized
<1>2. PICK last \in new : d.chain[last].sequence = d.sequence
  BY Zenon DEF Pages!Authorized
<1>3. d.sequence > pin.sequence /\ new # {}
  BY <1>2
<1>4. new \in SUBSET Nat
  BY DEF Genuine, Descriptors
<1> HIDE DEF new
<1>5. PICK i \in new : \A j \in new : i <= j
  BY <1>3, <1>4, LeastElement
<1>6. Before(i) = {}
  <2>1. i \in Nat /\ \A j \in new : j \in Nat /\ ~(j < i)
    BY <1>4, <1>5
  <2> QED BY <2>1
<1>7. d.chain[i].from = pin.id /\ i \in DOMAIN d.chain
  BY <1>1, <1>6 DEF new
<1> QED BY <1>3, <1>7 DEF Genuine, OfLine

(* A rotation of a coordinator continues its line, and its chain is as long *)
(* as pages accept.                                                         *)
LEMMA RotateGenuine ==
  ASSUME Pages!TrustAssumption, NEW b \in Bases, Owned, Pages!Rotate(b)
  PROVE  Owned'
<1> DEFINE next == Pages!Id(own[b].id.line, own[b].id.n + 1)
           cert == Pages!Certificate(next.line, next.n)
           chain == Append(own[b].chain, cert)
           d == [id |-> next, sequence |-> next.n, chain |-> Pages!LastOnes(chain)]
<1>1. own[b] \in Descriptors /\ Genuine(b, own[b]) /\ own \in [Bases -> Descriptors]
  BY DEF Owned
<1>2. own[b].id \in Pages!Identity /\ own[b].chain \in Seq(Certificates)
  BY <1>1 DEF Descriptors
<1>3. next \in Pages!Identity /\ next.line = own[b].id.line /\ next.n = own[b].id.n + 1 /\ next.n - 1 \in Nat
  BY <1>2 DEF Pages!Id, Pages!Identity
<1>4. cert \in Certificates /\ cert.from.line = next.line
  <2>1. Pages!Id(next.line, next.n - 1) \in Pages!Identity /\ Pages!Id(next.line, next.n) \in Pages!Identity
    BY <1>3 DEF Pages!Id, Pages!Identity
  <2>2. cert = [sequence |-> next.n, from |-> Pages!Id(next.line, next.n - 1), to |-> Pages!Id(next.line, next.n)]
    BY DEF Pages!Certificate
  <2>3. Pages!Id(next.line, next.n - 1).line = next.line /\ next.n \in Nat
    BY <1>3 DEF Pages!Id, Pages!Identity
  <2> HIDE DEF next, cert
  <2> QED BY <2>1, <2>2, <2>3 DEF Certificates
<1> HIDE DEF cert
<1>5. /\ chain \in Seq(Certificates) /\ Len(chain) = Len(own[b].chain) + 1
      /\ \A i \in DOMAIN chain : chain[i] \in Certificates /\ chain[i].from.line = next.line
  <2>1. \A i \in DOMAIN own[b].chain : own[b].chain[i] \in Certificates /\ own[b].chain[i].from.line = own[b].id.line
    BY <1>1 DEF Genuine, OfLine
  <2> QED BY <1>2, <1>3, <1>4, <2>1
<1>6. Len(own[b].chain) <= MaxChain /\ MaxChain \in Nat
  BY <1>1 DEF Genuine, Pages!TrustAssumption
<1> HIDE DEF chain
<1>7. /\ Pages!LastOnes(chain) \in Seq(Certificates) /\ Len(Pages!LastOnes(chain)) <= MaxChain
      /\ \A i \in DOMAIN Pages!LastOnes(chain) : /\ Pages!LastOnes(chain)[i] \in Certificates
                                                 /\ Pages!LastOnes(chain)[i].from.line = next.line
  <2>1. CASE Len(chain) > MaxChain
    <3>1. chain # <<>> /\ Pages!LastOnes(chain) = Tail(chain)
      BY <1>5, <1>6, <2>1 DEF Pages!LastOnes
    <3> QED BY <1>5, <1>6, <3>1
  <2>2. CASE ~(Len(chain) > MaxChain)
    <3>1. Pages!LastOnes(chain) = chain
      BY <2>2 DEF Pages!LastOnes
    <3> QED BY <1>5, <1>6, <2>2, <3>1
  <2> QED BY <2>1, <2>2
<1>8. own' = [own EXCEPT ![b] = d]
  <2>1. own' = [own EXCEPT ![b] = [id |-> next, sequence |-> next.n, chain |-> Pages!LastOnes(Append(@.chain, Pages!Certificate(next.line, next.n)))]]
    BY DEF Pages!Rotate
  <2> QED BY <1>1, <2>1 DEF chain, cert
<1> HIDE DEF next
<1>9. d \in Descriptors /\ Genuine(b, d)
  BY <1>1, <1>3, <1>7 DEF Genuine, Descriptors, OfLine, Pages!Identity
<1> HIDE DEF d
<1> QED BY <1>1, <1>8, <1>9 DEF Owned

LEMMA LoseGenuine ==
  ASSUME Pages!TrustAssumption, NEW b \in Bases, Owned, Pages!LoseIdentity(b)
  PROVE  Owned'
<1> DEFINE d == Pages!Fresh(b, own[b].id.line.lost + 1)
<1>1. own[b] \in Descriptors /\ Genuine(b, own[b]) /\ own \in [Bases -> Descriptors] /\ MaxChain \in Nat
  BY DEF Owned, Pages!TrustAssumption
<1>2. own[b].id.line.lost + 1 \in Nat
  BY <1>1 DEF Descriptors, Pages!Identity, Pages!Line
<1>3. Genuine(b, d)
  BY <1>1, <1>2 DEF Pages!Fresh, Pages!Id, Genuine, OfLine, Descriptors, Pages!Identity, Pages!Line
<1>4. own' = [own EXCEPT ![b] = d]
  BY <1>1 DEF Pages!LoseIdentity
<1> HIDE DEF d
<1>5. d \in Descriptors
  BY <1>3 DEF Genuine
<1> QED BY <1>1, <1>3, <1>4, <1>5 DEF Owned

(* What a page does with its descriptor: it moves on, and may write pins.   *)
LEMMA MovesOn ==
  ASSUME PageInv, NEW t \in Tabs, NEW p, page' = [page EXCEPT ![t] = p], Holds(p)
  PROVE  /\ Opened' /\ page'[t] = p
         /\ \A u \in Tabs : u # t => page'[u] = page[u]
<1>1. DOMAIN page = Tabs /\ \A u \in Tabs : Holds(page[u])
  BY DEF PageInv, Opened
<1>2. page'[t] = p /\ DOMAIN page' = Tabs /\ \A u \in Tabs : u # t => page'[u] = page[u]
  BY <1>1
<1>3. \A u \in Tabs : Holds(page'[u])
  BY <1>1, <1>2
<1>4. Opened'
  BY <1>2, <1>3 DEF Opened, Holds
<1> QED BY <1>2, <1>4

(* The pin of a genuine descriptor.                                         *)
LEMMA PinGood ==
  ASSUME Pages!TrustAssumption, NEW b \in Bases, NEW d, Genuine(b, d)
  PROVE  Pages!Pin(d) \in PinSet /\ Pages!Pin(d) # None /\ Pages!Pin(d).id = d.id
         /\ Pages!Pin(d).sequence = d.sequence /\ d.sequence = d.id.n
<1>1. Pages!Pin(d) = [id |-> d.id, sequence |-> d.sequence]
  BY DEF Pages!Pin
<1>2. d.id \in Pages!Identity /\ d.sequence \in Nat /\ d.sequence = d.id.n
  BY DEF Genuine, Descriptors
<1>3. Pages!Pin(d) \in PinSet
  BY <1>1, <1>2 DEF PinSet
<1>4. None \notin PinSet
  BY DEF Pages!TrustAssumption, PinSet
<1> QED BY <1>1, <1>2, <1>3, <1>4

(* What a page writes is the pins it holds, with that of the descriptor it  *)
(* checked: the one that was there, or one further along its line.          *)
Wrote(t, b, d, store) ==
  /\ b \in Bases /\ b = page[t].b /\ d = page[t].d
  /\ page[t].at \in {"verify", "chain"} /\ store = Pages!Read(t)
  /\ Genuine(b, d) /\ Pinned(store)
  /\ pins' = [store EXCEPT ![b] = Pages!Pin(d)]
  /\ session' = [session EXCEPT ![t].ids[b] = pins'[b].id]
  /\ page' = [page EXCEPT ![t] = [at |-> "work", b |-> b, id |-> d.id]]
  /\ UNCHANGED <<own, ledger, accused, events, wrong>>
  /\ store[b] # None =>
       d.id.line = store[b].id.line /\ d.sequence >= store[b].sequence

LEMMA WriteShape ==
  ASSUME Pages!TrustAssumption, PageInv, NEW t \in Tabs, Pages!PinDescriptor(t) \/ Pages!Commit(t)
  PROVE  \E b, d, store : Wrote(t, b, d, store)
<1> DEFINE b == page[t].b
           d == page[t].d
<1>1. Holds(page[t]) /\ Pinned(pins)
  BY DEF PageInv, Opened
<1>2. CASE Pages!PinDescriptor(t)
  <2>1. page[t].at = "verify" /\ (pins[b] = None \/ pins[b] = Pages!Pin(d))
        /\ Pages!Write(t, [pins EXCEPT ![b] = Pages!Pin(d)], b, d)
    BY <1>2 DEF Pages!PinDescriptor
  <2>2. b \in Bases /\ Genuine(b, d)
    BY <1>1, <2>1 DEF Holds
  <2>3. pins[b] # None => d.id.line = pins[b].id.line /\ d.sequence >= pins[b].sequence
    <3>1. Pages!Pin(d).id = d.id /\ Pages!Pin(d).sequence = d.sequence /\ d.sequence \in Nat
      BY <2>2, PinGood DEF Genuine, Descriptors
    <3> QED BY <2>1, <3>1
  <2>4. /\ pins' = [pins EXCEPT ![b] = Pages!Pin(d)]
        /\ session' = [session EXCEPT ![t].ids[b] = pins'[b].id]
        /\ page' = [page EXCEPT ![t] = [at |-> "work", b |-> b, id |-> d.id]]
        /\ UNCHANGED <<own, ledger, accused, events, wrong>>
    BY <2>1, Zenon DEF Pages!Write, Pages!Goto
  <2>5. page[t].at \in {"verify", "chain"} /\ pins = Pages!Read(t)
    BY <2>1 DEF Pages!Read
  <2> QED BY <1>1, <2>2, <2>3, <2>4, <2>5, Zenon DEF Wrote
<1>3. CASE Pages!Commit(t)
  <2> DEFINE store == page[t].store
  <2>1. page[t].at = "chain" /\ Pages!Authorized(store[b], d)
        /\ Pages!Write(t, [store EXCEPT ![b] = Pages!Pin(d)], b, d)
    BY <1>3 DEF Pages!Commit
  <2>2. b \in Bases /\ Genuine(b, d) /\ Pinned(store)
    BY <1>1, <2>1 DEF Holds
  <2>3. store[b] # None => d.id.line = store[b].id.line /\ d.sequence >= store[b].sequence
    <3> SUFFICES ASSUME store[b] # None PROVE d.id.line = store[b].id.line /\ d.sequence >= store[b].sequence
      OBVIOUS
    <3>1. store[b] \in PinSet
      BY <2>2 DEF Pinned
    <3>2. d.id.line = store[b].id.line /\ d.sequence > store[b].sequence
      BY <2>1, <2>2, <3>1, AuthorizedAdvances
    <3>3. d.sequence \in Nat /\ store[b].sequence \in Nat
      BY <2>2, <3>1 DEF Genuine, Descriptors, PinSet
    <3> QED BY <3>2, <3>3
  <2>4. /\ pins' = [store EXCEPT ![b] = Pages!Pin(d)]
        /\ session' = [session EXCEPT ![t].ids[b] = pins'[b].id]
        /\ page' = [page EXCEPT ![t] = [at |-> "work", b |-> b, id |-> d.id]]
        /\ UNCHANGED <<own, ledger, accused, events, wrong>>
    BY <2>1, Zenon DEF Pages!Write, Pages!Goto
  <2>5. page[t].at \in {"verify", "chain"} /\ store = Pages!Read(t)
    BY <2>1 DEF Pages!Read
  <2> QED BY <1>1, <2>2, <2>3, <2>4, <2>5, Zenon DEF Wrote
<1> QED BY <1>2, <1>3

LEMMA WriteKeeps ==
  ASSUME Pages!TrustAssumption, PageInv, NEW t \in Tabs, Pages!PinDescriptor(t) \/ Pages!Commit(t)
  PROVE  PageInv'
<1>1. PICK b, d, store : Wrote(t, b, d, store)
  BY WriteShape
<1>2. Holds([at |-> "work", b |-> b, id |-> d.id])
  BY <1>1 DEF Holds, Stages, Wrote
<1>3. Opened'
  BY <1>1, <1>2, MovesOn DEF Wrote
<1>4. Pages!Pin(d) \in PinSet /\ Pages!Pin(d).id = d.id /\ Pages!Pin(d).sequence = d.id.n
  BY <1>1, PinGood DEF Wrote
<1>5. Pinned(pins)'
  BY <1>1, <1>4 DEF Pinned, Wrote
<1>6. Proved'
  <2>1. DOMAIN session = Tabs /\ DOMAIN session[t].ids = Bases /\ DOMAIN session[t] = {"ids", "proofs"}
    BY DEF PageInv, Proved
  <2>2. /\ DOMAIN session' = Tabs
        /\ \A u \in Tabs : DOMAIN session'[u].ids = Bases /\ DOMAIN session'[u] = {"ids", "proofs"}
        /\ \A u \in Tabs : session'[u].proofs = session[u].proofs
    BY <1>1, <2>1 DEF PageInv, Proved, Wrote
  <2> QED BY <1>1, <2>2 DEF PageInv, Proved, Wrote
<1>7. Owned' /\ Counted' /\ (accused \subseteq wrong)'
  BY <1>1 DEF PageInv, Owned, Counted, Wrote
<1> QED BY <1>3, <1>5, <1>6, <1>7 DEF PageInv

(* The coordinator, and the log of its shares.                              *)
LEMMA CoordinatorKeeps ==
  ASSUME Pages!TrustAssumption, PageInv, NEW b \in Bases,
         Pages!Rotate(b) \/ Pages!LoseIdentity(b) \/ Pages!ChangeWindow(b) \/ Pages!OtherShare(b)
  PROVE  PageInv'
<1>1. CASE Pages!Rotate(b) \/ Pages!LoseIdentity(b)
  <2>1. Owned'
    BY <1>1, RotateGenuine, LoseGenuine DEF PageInv
  <2>2. UNCHANGED <<ledger, pins, page, session, accused, wrong>>
    BY <1>1, Zenon DEF Pages!Rotate, Pages!LoseIdentity
  <2> QED BY <2>1, <2>2 DEF PageInv, Counted, Opened, Holds, Proved, Pinned
<1>2. CASE Pages!ChangeWindow(b)
  <2>1. /\ wrong' = wrong \cup {b} /\ ledger' = [ledger EXCEPT ![b].window = @ + 1]
        /\ UNCHANGED <<own, pins, page, session, accused>>
    BY <1>2, Zenon DEF Pages!ChangeWindow
  <2>2. Counted'
    BY <2>1 DEF PageInv, Counted
  <2>3. Proved'
    BY <2>1 DEF PageInv, Proved
  <2> QED BY <2>1, <2>2, <2>3 DEF PageInv, Owned, Opened, Holds, Pinned
<1>3. CASE Pages!OtherShare(b)
  <2>1. /\ ledger' = [ledger EXCEPT ![b].n = @ + 1]
        /\ UNCHANGED <<own, pins, page, session, accused, wrong>>
    BY <1>3, Zenon DEF Pages!OtherShare
  <2>2. Counted'
    BY <2>1 DEF PageInv, Counted
  <2> QED BY <2>1, <2>2 DEF PageInv, Owned, Opened, Holds, Proved, Pinned
<1> QED BY <1>1, <1>2, <1>3

(* A page asks, reads the pins, gives up, or is loaded again.  A descriptor *)
(* it checks is the one its coordinator has as it answers.                  *)
Answered(t, p) ==
  /\ p.b \in Bases
  /\ p.d = own[p.b] \/ (page[t].at = "verify" /\ p.b = page[t].b /\ p.d = page[t].d)
LEMMA PageKeeps ==
  ASSUME PageInv, NEW t \in Tabs,
         \/ \E b \in Bases : Pages!AskDescriptor(t, b)
         \/ Pages!DescriptorAnswer(t) \/ Pages!ReadStore(t) \/ Pages!Throws(t) \/ Pages!Reload(t)
  PROVE  /\ PageInv'
         /\ pins' = pins /\ \A u \in Tabs : u # t => page'[u] = page[u] /\ session'[u] = session[u]
         /\ page'[t].at \in {"verify", "chain"} => Answered(t, page'[t])
         /\ \A b \in Bases : session'[t].ids[b] = session[t].ids[b] \/ session'[t].ids[b] = None
         /\ accused' = accused /\ own' = own
<1> DEFINE b == page[t].b
<1>1. Holds(page[t]) /\ Pinned(pins) /\ DOMAIN session = Tabs /\ DOMAIN page = Tabs
  BY DEF PageInv, Opened, Proved
<1> DEFINE Early(p) == Holds(p) /\ (p.at \in {"verify", "chain"} => Answered(t, p))
<1>2. PICK p : page' = [page EXCEPT ![t] = p] /\ Early(p)
  <2>1. ASSUME NEW c \in Bases, Pages!AskDescriptor(t, c)
        PROVE  page' = [page EXCEPT ![t] = [at |-> "descriptor", b |-> c]]
    BY <2>1, Zenon DEF Pages!AskDescriptor, Pages!Goto
  <2>2. ASSUME NEW c \in Bases PROVE Early([at |-> "descriptor", b |-> c])
    BY DEF Holds, Stages
  <2>3. CASE Pages!DescriptorAnswer(t)
    <3>1. page[t].at = "descriptor" /\ page' = [page EXCEPT ![t] = [at |-> "verify", b |-> b, d |-> own[b]]]
      BY <2>3, Zenon DEF Pages!DescriptorAnswer, Pages!Goto
    <3>2. b \in Bases
      BY <1>1, <3>1 DEF Holds
    <3>3. Genuine(b, own[b])
      BY <3>2 DEF PageInv, Owned
    <3>4. Early([at |-> "verify", b |-> b, d |-> own[b]])
      BY <3>2, <3>3 DEF Holds, Stages, Answered
    <3> QED BY <3>1, <3>4, Zenon
  <2>4. CASE Pages!ReadStore(t)
    <3>1. page[t].at = "verify" /\ page' = [page EXCEPT ![t] = [at |-> "chain", b |-> b, d |-> page[t].d, store |-> pins]]
      BY <2>4, Zenon DEF Pages!ReadStore, Pages!Goto
    <3>2. b \in Bases /\ Genuine(b, page[t].d)
      BY <1>1, <3>1 DEF Holds
    <3>3. Early([at |-> "chain", b |-> b, d |-> page[t].d, store |-> pins])
      BY <1>1, <3>1, <3>2 DEF Holds, Stages, Answered
    <3> QED BY <3>1, <3>3, Zenon
  <2>5. CASE Pages!Throws(t) \/ Pages!Reload(t)
    <3>1. page' = [page EXCEPT ![t] = [at |-> "idle"]]
      BY <2>5, Zenon DEF Pages!Throws, Pages!Reload, Pages!Goto, Pages!Idle
    <3>2. Early([at |-> "idle"])
      BY DEF Holds, Stages
    <3> QED BY <3>1, <3>2, Zenon
  <2> HIDE DEF Early
  <2> QED BY <2>1, <2>2, <2>3, <2>4, <2>5, Zenon
<1>3. /\ Opened' /\ page'[t] = p
      /\ \A u \in Tabs : u # t => page'[u] = page[u]
  BY <1>2, MovesOn
<1>4. UNCHANGED <<own, ledger, pins, accused, wrong>>
  BY Zenon DEF Pages!AskDescriptor, Pages!DescriptorAnswer, Pages!ReadStore, Pages!Throws, Pages!Reload
<1>5. session' = session \/ session' = [session EXCEPT ![t] = Pages!NewSession]
  BY Zenon DEF Pages!AskDescriptor, Pages!DescriptorAnswer, Pages!ReadStore, Pages!Throws, Pages!Reload
<1>6. /\ Pages!NewSession.proofs = {} /\ DOMAIN Pages!NewSession = {"ids", "proofs"}
      /\ DOMAIN Pages!NewSession.ids = Bases /\ \A c \in Bases : Pages!NewSession.ids[c] = None
  BY DEF Pages!NewSession
<1>7. /\ DOMAIN session' = Tabs
      /\ \A u \in Tabs : u # t => session'[u] = session[u]
      /\ session'[t] = session[t] \/ session'[t] = Pages!NewSession
  BY <1>1, <1>5
<1>8. Proved'
  BY <1>4, <1>6, <1>7 DEF PageInv, Proved
<1>9. PageInv'
  BY <1>3, <1>4, <1>8 DEF PageInv, Owned, Counted, Pinned
<1> QED BY <1>2, <1>3, <1>4, <1>6, <1>7, <1>9

(* Work and receipts.  Two splits of one state of a log accuse its          *)
(* coordinator: it had another window.                                      *)
LEMMA WorkKeeps ==
  ASSUME Pages!TrustAssumption, PageInv, NEW t \in Tabs, Pages!WorkAnswer(t) \/ Pages!ShareReceipt(t)
  PROVE  /\ PageInv' /\ own' = own
         /\ pins' = pins /\ \A u \in Tabs : (u # t => page'[u] = page[u]) /\ session'[u].ids = session[u].ids
         /\ page'[t].at = "idle" \/ (page'[t].at = "mine" /\ page[t].at = "work" /\ page'[t].b = page[t].b /\ page'[t].id = page[t].id)
<1> DEFINE b == page[t].b
           proof == Pages!Proof(own[b].id, ledger[b])
           known == {p \in session[t].proofs : p.signer = proof.signer /\ p.shares = proof.shares}
<1>1. Holds(page[t]) /\ Pinned(pins) /\ DOMAIN session = Tabs /\ DOMAIN page = Tabs
  BY DEF PageInv, Opened, Proved
<1>2. b \in Bases
  BY <1>1 DEF Holds, Pages!WorkAnswer, Pages!ShareReceipt
<1>3. ledger[b] \in [n : Nat, window : Nat] /\ (b \notin wrong => ledger[b].window = 1) /\ own[b].id.line.base = b
  BY <1>2 DEF PageInv, Counted, Owned, Genuine
<1>4. /\ proof.signer = own[b].id /\ proof.shares = ledger[b].n
      /\ b \notin wrong => proof.weights = Windowed(proof.shares)
      /\ proof \in ProofSet
  <2>1. own[b].id \in Pages!Identity
    BY <1>2 DEF PageInv, Owned, Descriptors
  <2> QED BY <1>3, <2>1 DEF Pages!Proof, Pages!Weights, Windowed, ProofSet
<1> HIDE DEF proof
<1>5. Holds([at |-> "idle"]) /\ Holds([at |-> "mine", b |-> b, id |-> own[b].id])
  BY <1>2 DEF Holds, Stages
<1>6. CASE Pages!WorkAnswer(t) /\ known \subseteq {proof}
  <2>1. /\ page[t].at = "work" /\ own[b].id = page[t].id
        /\ session' = [session EXCEPT ![t].proofs = @ \cup {proof}]
        /\ page' = [page EXCEPT ![t] = [at |-> "mine", b |-> b, id |-> own[b].id]]
        /\ UNCHANGED <<own, ledger, pins, wrong, accused>>
    BY <1>6, Zenon DEF Pages!WorkAnswer, Pages!Goto, Pages!Trusted, proof, known
  <2>2. /\ Opened' /\ page'[t] = [at |-> "mine", b |-> b, id |-> own[b].id]
        /\ \A u \in Tabs : u # t => page'[u] = page[u]
    BY <1>5, <2>1, MovesOn
  <2>3. /\ DOMAIN session' = Tabs
        /\ \A u \in Tabs : session'[u].ids = session[u].ids /\ DOMAIN session'[u] = {"ids", "proofs"}
        /\ \A u \in Tabs : session'[u].proofs \subseteq session[u].proofs \cup {proof}
    BY <1>1, <2>1 DEF PageInv, Proved
  <2>4. Proved'
    BY <1>3, <1>4, <2>1, <2>3 DEF PageInv, Proved
  <2> QED BY <2>1, <2>2, <2>3, <2>4 DEF PageInv, Owned, Counted, Pinned
<1>7. CASE Pages!WorkAnswer(t) /\ ~(known \subseteq {proof})
  <2>1. /\ accused' = accused \cup {b}
        /\ page' = [page EXCEPT ![t] = [at |-> "idle"]]
        /\ UNCHANGED <<own, ledger, pins, session, wrong>>
    BY <1>7, Zenon DEF Pages!WorkAnswer, Pages!Goto, Pages!Idle, proof, known
  <2>2. /\ Opened' /\ page'[t] = [at |-> "idle"]
        /\ \A u \in Tabs : u # t => page'[u] = page[u]
    BY <1>5, <2>1, MovesOn
  <2>3. b \in wrong
    <3> SUFFICES ASSUME b \notin wrong PROVE FALSE
      OBVIOUS
    <3>1. PICK p \in session[t].proofs : p.signer = proof.signer /\ p.shares = proof.shares /\ p # proof
      BY <1>7
    <3>2. p.weights = Windowed(p.shares)
      BY <1>3, <1>4, <3>1 DEF PageInv, Proved
    <3>3. p \in ProofSet
      BY <3>1 DEF PageInv, Proved
    <3> QED BY <1>4, <3>1, <3>2, <3>3 DEF ProofSet
  <2> QED BY <2>1, <2>2, <2>3 DEF PageInv, Owned, Counted, Proved, Pinned
<1>8. CASE Pages!ShareReceipt(t)
  <2>1. /\ ledger' = [ledger EXCEPT ![b].n = @ + 1]
        /\ page' = [page EXCEPT ![t] = [at |-> "idle"]]
        /\ UNCHANGED <<own, pins, session, wrong, accused>>
    BY <1>8, Zenon DEF Pages!ShareReceipt, Pages!Goto, Pages!Idle
  <2>2. /\ Opened' /\ page'[t] = [at |-> "idle"]
        /\ \A u \in Tabs : u # t => page'[u] = page[u]
    BY <1>5, <2>1, MovesOn
  <2>3. Counted'
    BY <1>2, <2>1 DEF PageInv, Counted
  <2> QED BY <2>1, <2>2, <2>3 DEF PageInv, Owned, Proved, Pinned
<1> QED BY <1>6, <1>7, <1>8

LEMMA PageNext == ASSUME Pages!TrustAssumption, PageInv, [Pages!Next]_Pages!vars PROVE PageInv'
<1>1. ASSUME NEW b \in Bases, Pages!Rotate(b) \/ Pages!LoseIdentity(b) \/ Pages!ChangeWindow(b) \/ Pages!OtherShare(b)
      PROVE  PageInv'
  BY <1>1, CoordinatorKeeps
<1>2. ASSUME NEW t \in Tabs, Pages!Cycle(t) \/ Pages!Throws(t) \/ Pages!Reload(t) \/ \E b \in Bases : Pages!AskDescriptor(t, b)
      PROVE  PageInv'
  BY <1>2, PageKeeps, WriteKeeps, WorkKeeps DEF Pages!Cycle
<1>3. CASE UNCHANGED Pages!vars
  BY <1>3 DEF Pages!vars, PageInv, Owned, Counted, Opened, Holds, Proved, Pinned
<1> QED BY <1>1, <1>2, <1>3 DEF Pages!Next

LEMMA PageInit == ASSUME Pages!TrustAssumption, Pages!Init PROVE PageInv /\ Ordered
<1>1. /\ own = [b \in Bases |-> Pages!Fresh(b, 0)] /\ ledger = [b \in Bases |-> [n |-> 0, window |-> 1]]
      /\ pins = [b \in Bases |-> None] /\ page = [t \in Tabs |-> [at |-> "idle"]]
      /\ session = [t \in Tabs |-> [ids |-> [b \in Bases |-> None], proofs |-> {}]]
      /\ accused = {} /\ wrong = {}
  BY DEF Pages!Init, Pages!Idle, Pages!NewSession
<1>2. Owned
  <2>1. MaxChain \in Nat
    BY DEF Pages!TrustAssumption
  <2>2. \A b \in Bases : Genuine(b, Pages!Fresh(b, 0))
    BY <2>1 DEF Pages!Fresh, Pages!Id, Genuine, OfLine, Descriptors, Pages!Identity, Pages!Line
  <2>3. \A b \in Bases : Pages!Fresh(b, 0) \in Descriptors
    BY <2>2 DEF Genuine
  <2> QED BY <1>1, <2>2, <2>3 DEF Owned
<1>3. Counted /\ Opened /\ Proved /\ Pinned(pins) /\ accused \subseteq wrong
  BY <1>1 DEF Counted, Opened, Holds, Stages, Proved, Pinned
<1>4. Ordered
  BY <1>1 DEF Ordered, InOrder
<1> QED BY <1>2, <1>3, <1>4 DEF PageInv

LEMMA PageHolds == ASSUME Pages!TrustAssumption PROVE Pages!Spec => []PageInv
<1>1. Pages!Init => PageInv
  BY PageInit
<1>2. PageInv /\ [Pages!Next]_Pages!vars => PageInv'
  BY PageNext
<1> QED BY <1>1, <1>2, PTL DEF Pages!Spec

LEMMA UptoOrder ==
  ASSUME NEW i \in Pages!Identity, NEW j \in Pages!Identity, NEW k \in Pages!Identity
  PROVE  Upto(i, i) /\ (Upto(i, j) /\ Upto(j, k) => Upto(i, k))
<1>1. \A x \in {i, j, k} : x.line.lost \in Nat /\ x.n \in Nat
  BY DEF Pages!Identity, Pages!Line
<1> QED BY <1>1 DEF Upto

(* A coordinator never comes back to an identity it had.                    *)
LEMMA OwnGoesOn ==
  ASSUME Pages!TrustAssumption, PageInv, NEW b \in Bases, Pages!Rotate(b) \/ Pages!LoseIdentity(b)
  PROVE  \A c \in Bases : Upto(own[c].id, own'[c].id)
<1>1. own \in [Bases -> Descriptors] /\ own' \in [Bases -> Descriptors]
  BY RotateGenuine, LoseGenuine DEF PageInv, Owned
<1>2. \A c \in Bases : own[c].id \in Pages!Identity /\ own[c].id.n \in Nat /\ own[c].id.line.lost \in Nat
  BY <1>1 DEF Descriptors, Pages!Identity, Pages!Line
<1>3. \A c \in Bases : Upto(own[c].id, own[c].id)
  BY <1>2, UptoOrder
<1>4. CASE Pages!Rotate(b)
  <2>1. own'[b].id = Pages!Id(own[b].id.line, own[b].id.n + 1) /\ \A c \in Bases : c # b => own'[c] = own[c]
    BY <1>1, <1>4 DEF Pages!Rotate
  <2>2. own'[b].id.line = own[b].id.line /\ own'[b].id.n = own[b].id.n + 1
    BY <2>1 DEF Pages!Id
  <2> QED BY <1>2, <1>3, <2>1, <2>2 DEF Upto
<1>5. CASE Pages!LoseIdentity(b)
  <2>1. own'[b] = Pages!Fresh(b, own[b].id.line.lost + 1) /\ \A c \in Bases : c # b => own'[c] = own[c]
    BY <1>1, <1>5 DEF Pages!LoseIdentity
  <2>2. own'[b].id.line.lost = own[b].id.line.lost + 1
    BY <2>1 DEF Pages!Fresh, Pages!Id
  <2> QED BY <1>2, <1>3, <2>1, <2>2 DEF Upto
<1> QED BY <1>4, <1>5

LEMMA OrderedNext ==
  ASSUME Pages!TrustAssumption, PageInv, PageInv', Ordered, [Pages!Next]_Pages!vars PROVE Ordered'
<1>1. /\ \A b \in Bases : own[b].id \in Pages!Identity /\ own'[b].id \in Pages!Identity /\ own[b].id.line.base = b
      /\ \A t \in Tabs : InOrder(t) /\ Holds(page[t])
      /\ \A t \in Tabs : page[t].at \in {"verify", "chain"} => page[t].b \in Bases /\ page[t].d.id \in IdsOf(page[t].b)
  BY DEF PageInv, Owned, Descriptors, Genuine, Ordered, Opened, Holds, IdsOf
<1>2. ASSUME UNCHANGED <<own, page, session>> PROVE Ordered'
  BY <1>1, <1>2 DEF Ordered, InOrder
<1>3. ASSUME NEW b \in Bases, Pages!Rotate(b) \/ Pages!LoseIdentity(b) PROVE Ordered'
  <2>1. \A c \in Bases : Upto(own[c].id, own'[c].id)
    BY <1>3, OwnGoesOn
  <2>2. UNCHANGED <<page, session>>
    BY <1>3, Zenon DEF Pages!Rotate, Pages!LoseIdentity
  <2>3. ASSUME NEW c \in Bases, NEW i \in IdsOf(c), Upto(i, own[c].id) PROVE Upto(i, own'[c].id)
    BY <1>1, <2>1, <2>3, UptoOrder DEF IdsOf
  <2> QED BY <1>1, <2>2, <2>3 DEF Ordered, InOrder
<1>4. ASSUME NEW b \in Bases, Pages!ChangeWindow(b) \/ Pages!OtherShare(b) PROVE Ordered'
  BY <1>2, <1>4, Zenon DEF Pages!ChangeWindow, Pages!OtherShare
<1>5. ASSUME NEW t \in Tabs,
             \/ \E b \in Bases : Pages!AskDescriptor(t, b)
             \/ Pages!DescriptorAnswer(t) \/ Pages!ReadStore(t) \/ Pages!Throws(t) \/ Pages!Reload(t)
      PROVE  Ordered'
  <2>1. /\ own' = own /\ \A u \in Tabs : u # t => page'[u] = page[u] /\ session'[u] = session[u]
        /\ page'[t].at \in {"verify", "chain"} => Answered(t, page'[t])
        /\ \A b \in Bases : session'[t].ids[b] = session[t].ids[b] \/ session'[t].ids[b] = None
    BY <1>5, PageKeeps
  <2>2. \A b \in Bases : Upto(own[b].id, own[b].id)
    BY <1>1, UptoOrder
  <2>3. InOrder(t)'
    BY <1>1, <2>1, <2>2 DEF InOrder, Answered
  <2>4. \A u \in Tabs : u # t => InOrder(u)'
    BY <1>1, <2>1 DEF InOrder
  <2> QED BY <2>3, <2>4 DEF Ordered
<1>6. ASSUME NEW t \in Tabs, Pages!PinDescriptor(t) \/ Pages!Commit(t) PROVE Ordered'
  <2>1. PICK b, d, store : Wrote(t, b, d, store)
    BY <1>6, WriteShape
  <2>2. DOMAIN session = Tabs /\ DOMAIN session[t].ids = Bases /\ DOMAIN session[t] = {"ids", "proofs"} /\ DOMAIN page = Tabs
    BY DEF PageInv, Proved, Opened
  <2>3. pins'[b].id = d.id /\ d.id \in IdsOf(b) /\ Upto(d.id, own[b].id)
    <3>1. Pages!Pin(d).id = d.id
      BY <2>1, PinGood DEF Wrote
    <3>2. pins'[b] = Pages!Pin(d)
      BY <2>1 DEF Wrote, Pinned
    <3> QED BY <1>1, <2>1, <3>1, <3>2 DEF Wrote, InOrder
  <2>4. /\ session'[t].ids[b] = d.id /\ \A c \in Bases : c # b => session'[t].ids[c] = session[t].ids[c]
        /\ page'[t].at = "work" /\ own' = own
        /\ \A u \in Tabs : u # t => page'[u] = page[u] /\ session'[u] = session[u]
    BY <2>1, <2>2, <2>3 DEF Wrote
  <2>5. InOrder(t)'
    BY <1>1, <2>3, <2>4 DEF InOrder
  <2>6. \A u \in Tabs : u # t => InOrder(u)'
    BY <1>1, <2>4 DEF InOrder
  <2> QED BY <2>5, <2>6 DEF Ordered
<1>7. ASSUME NEW t \in Tabs, Pages!WorkAnswer(t) \/ Pages!ShareReceipt(t) PROVE Ordered'
  <2>1. /\ own' = own /\ \A u \in Tabs : (u # t => page'[u] = page[u]) /\ session'[u].ids = session[u].ids
        /\ page'[t].at \notin {"verify", "chain"}
    BY <1>7, WorkKeeps
  <2> QED BY <1>1, <2>1 DEF Ordered, InOrder
<1>8. CASE UNCHANGED Pages!vars
  BY <1>2, <1>8 DEF Pages!vars
<1> QED BY <1>3, <1>4, <1>5, <1>6, <1>7, <1>8 DEF Pages!Next, Pages!Cycle

LEMMA OrderHolds == ASSUME Pages!TrustAssumption PROVE Pages!Spec => [](PageInv /\ Ordered)
<1>1. Pages!Init => PageInv /\ Ordered
  BY PageInit
<1>2. PageInv /\ Ordered /\ [Pages!Next]_Pages!vars => (PageInv /\ Ordered)'
  BY PageNext, OrderedNext
<1> QED BY <1>1, <1>2, PTL DEF Pages!Spec

(* A pinned identity has its sequence, a chain is as long as pages accept,  *)
(* and a page works for identities of the address it asked (pinDescriptor). *)
THEOREM PagesTypeOK == ASSUME Pages!TrustAssumption PROVE Pages!Spec => []Pages!TypeOK
<1>1. PageInv /\ Ordered => Pages!TypeOK
  BY DEF PageInv, Pinned, Owned, Genuine, Counted, Ordered, InOrder, IdsOf, Pages!TypeOK
<1> QED BY <1>1, OrderHolds, PTL

(* However many pages and coordinators there are: evidence is only kept     *)
(* against a coordinator that changed its window (rememberCoordinatorProof).*)
THEOREM HonestNotAccused == ASSUME Pages!TrustAssumption PROVE Pages!Spec => []Pages!AccusedDidIt
<1>1. PageInv => Pages!AccusedDidIt
  BY DEF PageInv, Pages!AccusedDidIt
<1> QED BY <1>1, PageHolds, PTL

(* Every step that writes the pins.                                         *)
LEMMA OnlyWrites ==
  ASSUME PageInv, Pages!TrustAssumption, Pages!Next
  PROVE  \/ \E t \in Tabs : Pages!PinDescriptor(t) \/ Pages!Commit(t)
         \/ /\ pins' = pins
            /\ \A t \in Tabs, b \in Bases : session'[t].ids[b] \in {session[t].ids[b], None}
<1>1. ASSUME NEW t \in Tabs, Pages!WorkAnswer(t) \/ Pages!ShareReceipt(t)
      PROVE  pins' = pins /\ \A u \in Tabs, b \in Bases : session'[u].ids[b] \in {session[u].ids[b], None}
  BY <1>1, WorkKeeps
<1>2. ASSUME NEW t \in Tabs,
             \/ \E b \in Bases : Pages!AskDescriptor(t, b)
             \/ Pages!DescriptorAnswer(t) \/ Pages!ReadStore(t) \/ Pages!Throws(t) \/ Pages!Reload(t)
      PROVE  pins' = pins /\ \A u \in Tabs, b \in Bases : session'[u].ids[b] \in {session[u].ids[b], None}
  BY <1>2, PageKeeps
<1>3. ASSUME NEW b \in Bases, Pages!Rotate(b) \/ Pages!LoseIdentity(b) \/ Pages!ChangeWindow(b) \/ Pages!OtherShare(b)
      PROVE  pins' = pins /\ session' = session
  BY <1>3, Zenon DEF Pages!Rotate, Pages!LoseIdentity, Pages!ChangeWindow, Pages!OtherShare
<1> QED BY <1>1, <1>2, <1>3 DEF Pages!Next, Pages!Cycle

(* A page moves a pin only along certificates of its line, forward from the *)
(* pin that it read, however long the published chain is and wherever it    *)
(* begins, and however many pages read and write (pinDescriptor,            *)
(* authorizeRotationChain).                                                 *)
THEOREM PinsAdvance == ASSUME Pages!TrustAssumption PROVE Pages!Spec => [][Pages!PinsOnlyAdvance]_Pages!vars
<1>1. PageInv /\ [Pages!Next]_Pages!vars => [Pages!PinsOnlyAdvance]_Pages!vars
  <2> SUFFICES ASSUME PageInv, Pages!Next, pins' # pins PROVE Pages!PinsOnlyAdvance
    BY DEF Pages!PinsOnlyAdvance
  <2>1. PICK t \in Tabs : Pages!PinDescriptor(t) \/ Pages!Commit(t)
    BY OnlyWrites
  <2>2. PICK b, d, store : Wrote(t, b, d, store)
    BY <2>1, WriteShape
  <2>3. Pages!Pin(d).id = d.id /\ Pages!Pin(d).sequence = d.sequence
    BY <2>2, PinGood DEF Wrote
  <2>4. pins'[b] = Pages!Pin(d) /\ pins' = [store EXCEPT ![b] = pins'[b]]
    BY <2>2 DEF Wrote, Pinned
  <2>5. page'[t].at = "work"
    BY <2>2 DEF PageInv, Opened, Wrote
  <2>6. store[b] # None => pins'[b].id.line = store[b].id.line /\ pins'[b].sequence >= store[b].sequence
    BY <2>2, <2>3, <2>4 DEF Wrote
  <2>7. b = page[t].b /\ store = Pages!Read(t) /\ page[t].at \in {"verify", "chain"}
    BY <2>2 DEF Wrote
  <2> QED BY <2>4, <2>5, <2>6, <2>7 DEF Pages!PinsOnlyAdvance
<1> QED BY <1>1, PageHolds, PTL DEF Pages!Spec

(* A page that works for an identity goes on to a later one of its line,    *)
(* however late its answers are and whatever the other pages write, unless  *)
(* the pin that it reads is gone or another line's (trustedCoordinatorApi). *)
THEOREM PagesGoOn == ASSUME Pages!TrustAssumption PROVE Pages!Spec => [][Pages!PagesOnlyAdvance]_Pages!vars
<1>1. PageInv /\ Ordered /\ [Pages!Next]_Pages!vars => [Pages!PagesOnlyAdvance]_Pages!vars
  <2> SUFFICES ASSUME PageInv, Ordered, Pages!Next, NEW u \in Tabs, NEW c \in Bases,
                      session'[u].ids[c] # session[u].ids[c], session'[u].ids[c] # None, session[u].ids[c] # None,
                      Pages!Read(u)[c] # None, Pages!Read(u)[c].id.line = session[u].ids[c].line
               PROVE  /\ session'[u].ids[c].line = session[u].ids[c].line
                      /\ session'[u].ids[c].n > session[u].ids[c].n
    BY DEF Pages!PagesOnlyAdvance
  <2>1. PICK t \in Tabs : Pages!PinDescriptor(t) \/ Pages!Commit(t)
    BY OnlyWrites
  <2>2. PICK b, d, store : Wrote(t, b, d, store)
    BY <2>1, WriteShape
  <2>3. DOMAIN session = Tabs /\ DOMAIN session[t].ids = Bases /\ DOMAIN session[t] = {"ids", "proofs"}
    BY DEF PageInv, Proved
  <2>4. pins'[b].id = d.id
    <3>1. Pages!Pin(d).id = d.id
      BY <2>2, PinGood DEF Wrote
    <3> QED BY <2>2, <3>1 DEF Wrote, Pinned
  <2>5. u = t /\ c = b /\ session'[u].ids[c] = d.id
    BY <2>2, <2>3, <2>4 DEF Wrote
  <2>6. d.id.line = session[u].ids[c].line /\ d.id # session[u].ids[c]
    BY <2>2, <2>5 DEF Wrote
  <2>7. /\ Upto(session[u].ids[c], d.id) /\ session[u].ids[c] \in Pages!Identity /\ d.id \in Pages!Identity
    BY <2>2, <2>5 DEF Ordered, InOrder, IdsOf, Wrote, Genuine, Descriptors
  <2>8. session[u].ids[c].n <= d.id.n /\ session[u].ids[c].n \in Nat /\ d.id.n \in Nat
    BY <2>6, <2>7 DEF Upto, Pages!Identity, Pages!Line
  <2>9. session[u].ids[c].n # d.id.n
    BY <2>6, <2>7 DEF Pages!Identity
  <2> QED BY <2>5, <2>6, <2>8, <2>9
<1> QED BY <1>1, OrderHolds, PTL DEF Pages!Spec
-----------------------------------------------------------------------------
(* The mining loop of a page, with any number of activations that overlap   *)
(* after stops and starts.  They share one worker, one rejection and the    *)
(* token of one observer.                                                   *)
CONSTANTS Loops, Coordinators, MaxAsks, MaxPosts, Quiet
VARIABLES lp, mining, wallet, pow, obs, cooling, cursor
Loop == INSTANCE MiningLoop

(* What the state is made of.  An activation has the number of an observer  *)
(* only on direct work, and offers what was found for its header.           *)
Fields == {"pc", "hdr", "gen", "proof", "id", "why", "addr", "todo"}
Stations == {"idle", "template", "pow", "fresh", "submit", "refresh", "work", "sharepow", "share"}
IsActivation(p) ==
  /\ DOMAIN p = Fields /\ p.pc \in Stations
  /\ p.id \in Loop!Ids \cup {0} /\ (p.id # 0 => p.pc \in {"pow", "fresh", "submit"})
  /\ p.pc \in {"fresh", "submit", "share"} => p.proof = p.hdr
Activations ==
  /\ DOMAIN lp = Loops /\ tip \in Nat /\ \A l \in Loops : IsActivation(lp[l])
  /\ \A l, m \in Loops : lp[l].id = lp[m].id /\ lp[l].id # 0 => l = m

(* The worker the page knows of is that of an activation which waits for it *)
(* and has the rejection; the rejection is never one that is not awaited.   *)
PowFields == {"worker", "reject", "hashing", "posted"}
OneWorker ==
  /\ DOMAIN pow = PowFields
  /\ pow.reject # None => pow.reject \in Loops /\ Loop!Waiting(pow.reject)
  /\ pow.worker # None =>
       /\ pow.worker.of \in Loops /\ Loop!Waiting(pow.worker.of) /\ pow.reject = pow.worker.of
       /\ pow.worker = [of |-> pow.worker.of, gen |-> lp[pow.worker.of].gen, parent |-> lp[pow.worker.of].hdr]
       /\ pow.worker \in pow.hashing \cup pow.posted

(* A request, a timer or the active observer that has the number of an      *)
(* activation is about its work; the timer is with the token.               *)
ObsFields == {"token", "timer", "active", "asks"}
AgreesIn(f, x) == x.id \in Loop!Ids /\ x.hdr \in Nat /\ \A l \in Loops : f[l].id = x.id => f[l].hdr = x.hdr
Agrees(x) == AgreesIn(lp, x)
Observers ==
  /\ DOMAIN obs = ObsFields
  /\ IsFiniteSet(obs.asks) /\ Cardinality(obs.asks) <= MaxAsks
  /\ \A a \in obs.asks : Agrees(a)
  /\ obs.timer # None => Agrees(obs.timer) /\ obs.timer.id = obs.token
  /\ obs.active # None => Agrees(obs.active)

(* Whoever has the rejection on direct work has the token, or nobody has;   *)
(* with a worker it has, and a timer or a request that is heeded.           *)
Watched ==
  /\ pow.reject # None /\ lp[pow.reject].pc = "pow" => obs.token \in {0, lp[pow.reject].id}
  /\ pow.worker # None /\ lp[pow.worker.of].pc = "pow" =>
       /\ lp[pow.worker.of].id = obs.token /\ obs.token # 0
       /\ obs.timer # None \/ \E a \in obs.asks : a.id = obs.token /\ a.kind = "poll"

LoopInv == Activations /\ OneWorker /\ Observers /\ Watched
Owed == LoopInv' /\ Loop!CancelsOnlyStale

LEMMA SameCount == ASSUME NEW S PROVE Loop!Cardinality(S) = Cardinality(S) /\ (Loop!IsFiniteSet(S) <=> IsFiniteSet(S))
BY DEF Loop!Cardinality, Cardinality, Loop!IsFiniteSet, IsFiniteSet

LEMMA TokenSet ==
  ASSUME Loop!LoopAssumption
  PROVE  /\ IsFiniteSet(Loops) /\ Cardinality(Loops) \in Nat /\ MaxAsks \in Nat
         /\ Loop!Ids = 1..(Cardinality(Loops) + MaxAsks) /\ Loop!Ids \subseteq Nat /\ 0 \notin Loop!Ids
<1>1. IsFiniteSet(Loops) /\ MaxAsks \in Nat
  BY SameCount DEF Loop!LoopAssumption
<1>2. Cardinality(Loops) \in Nat
  BY <1>1, FS_CardinalityType
<1>3. Loop!Ids = 1..(Cardinality(Loops) + MaxAsks)
  BY SameCount DEF Loop!Ids
<1> QED BY <1>1, <1>2, <1>3

(* A new observer gets a number that nobody carries.                        *)
LEMMA NewToken ==
  ASSUME Loop!LoopAssumption, LoopInv, NEW l \in Loops, lp[l].id = 0
  PROVE  /\ Loop!FreshId \in Loop!Ids
         /\ \A a \in obs.asks : a.id # Loop!FreshId
         /\ \A m \in Loops : lp[m].id # Loop!FreshId
<1> DEFINE A == {a.id : a \in obs.asks}
           M == Loops \ {l}
           B == {lp[m].id : m \in M}
           n == Cardinality(Loops)
<1>1. IsFiniteSet(obs.asks) /\ Cardinality(obs.asks) <= MaxAsks /\ Cardinality(obs.asks) \in Nat
  BY FS_CardinalityType DEF LoopInv, Observers
<1>2. IsFiniteSet(A) /\ Cardinality(A) <= Cardinality(obs.asks)
  <2> DEFINE f == [a \in obs.asks |-> a.id]
  <2>1. f \in Surjection(obs.asks, A)
    BY DEF Surjection
  <2> QED BY <1>1, <2>1, FS_Surjection
<1>3. IsFiniteSet(M) /\ Cardinality(M) = n - 1 /\ n \in Nat
  BY TokenSet, FS_RemoveElement
<1>4. IsFiniteSet(B) /\ Cardinality(B) <= Cardinality(M)
  <2> DEFINE f == [m \in M |-> lp[m].id]
  <2>1. f \in Surjection(M, B)
    BY DEF Surjection
  <2> HIDE DEF M
  <2> QED BY <1>3, <2>1, FS_Surjection
<1> HIDE DEF A, B, M, n
<1>5. IsFiniteSet(A \cup B) /\ Cardinality(A \cup B) \in Nat /\ Cardinality(A \cup B) <= Cardinality(A) + Cardinality(B)
  <2>1. /\ IsFiniteSet(A \cup B) /\ Cardinality(A \cup B) = Cardinality(A) + Cardinality(B) - Cardinality(A \cap B)
    BY <1>2, <1>4, FS_Union
  <2>2. IsFiniteSet(A \cap B)
    BY <1>2, FS_Intersection
  <2>3. Cardinality(A) \in Nat /\ Cardinality(B) \in Nat /\ Cardinality(A \cap B) \in Nat /\ Cardinality(A \cup B) \in Nat
    BY <1>2, <1>4, <2>1, <2>2, FS_CardinalityType
  <2> QED BY <2>1, <2>3
<1>6. Cardinality(A \cup B) < n + MaxAsks
  <2>1. Cardinality(A) \in Nat /\ Cardinality(B) \in Nat /\ MaxAsks \in Nat
    BY <1>2, <1>4, FS_CardinalityType, TokenSet
  <2> QED BY <1>1, <1>2, <1>3, <1>4, <1>5, <2>1
<1>7. PICK g \in Loop!Ids : g \notin A \cup B
  <2>1. SUFFICES ASSUME Loop!Ids \subseteq A \cup B PROVE FALSE
    OBVIOUS
  <2>2. Cardinality(Loop!Ids) <= Cardinality(A \cup B)
    BY <1>5, <2>1, FS_Subset
  <2>3. n + MaxAsks \in Nat
    BY <1>3, TokenSet
  <2>4. Cardinality(1..(n + MaxAsks)) = n + MaxAsks
    BY <2>3, FS_Interval
  <2>5. Cardinality(Loop!Ids) = n + MaxAsks
    BY <2>4, TokenSet DEF n
  <2> QED BY <1>5, <1>6, <2>2, <2>3, <2>5
<1>8. (\A a \in obs.asks : a.id # g) /\ \A m \in Loops : lp[m].id # g
  <2>1. g # 0
    BY <1>7, TokenSet
  <2>2. \A m \in Loops : m = l \/ m \in M
    BY DEF M
  <2> QED BY <1>7, <2>1, <2>2 DEF A, B
<1> QED BY <1>7, <1>8 DEF Loop!FreshId

(* Steps on which no activation gets a new number or a header of its own.   *)
Keeps ==
  /\ DOMAIN lp' = Loops
  /\ \A m \in Loops : IsActivation(lp'[m]) /\ (lp'[m].id # 0 => lp'[m].id = lp[m].id /\ lp'[m].hdr = lp[m].hdr)
Fewer(o) ==
  /\ DOMAIN o = ObsFields /\ o.asks \subseteq obs.asks /\ o.active \in {None, obs.active}
  /\ \/ o.token = 0 /\ o.timer = None
     \/ o.token = obs.token /\ o.timer = obs.timer

LEMMA OneKeeps ==
  ASSUME LoopInv, NEW l \in Loops, NEW q, lp' = [lp EXCEPT ![l] = q], IsActivation(q),
         q.id # 0 => q.id = lp[l].id /\ q.hdr = lp[l].hdr
  PROVE  Keeps /\ lp'[l] = q /\ \A m \in Loops \ {l} : lp'[m] = lp[m]
<1>1. DOMAIN lp' = Loops /\ lp'[l] = q /\ \A m \in Loops \ {l} : lp'[m] = lp[m]
  BY DEF LoopInv, Activations
<1>2. \A m \in Loops \ {l} : IsActivation(lp'[m]) /\ lp'[m].id = lp[m].id /\ lp'[m].hdr = lp[m].hdr
  BY <1>1 DEF LoopInv, Activations
<1>3. IsActivation(lp'[l]) /\ (lp'[l].id # 0 => lp'[l].id = lp[l].id /\ lp'[l].hdr = lp[l].hdr)
  BY <1>1
<1> QED BY <1>1, <1>2, <1>3 DEF Keeps

LEMMA ActivationsKept ==
  ASSUME Loop!LoopAssumption, LoopInv, Keeps, tip' \in Nat
  PROVE  Activations' /\ \A x : AgreesIn(lp, x) => AgreesIn(lp', x)
<1>1. \A l, m \in Loops : lp'[l].id = lp'[m].id /\ lp'[l].id # 0 => l = m
  BY DEF LoopInv, Activations, Keeps
<1>2. Activations'
  BY <1>1 DEF Activations, Keeps, IsActivation, Loop!Ids
<1>3. \A x : AgreesIn(lp, x) => AgreesIn(lp', x)
  BY TokenSet DEF AgreesIn, Keeps, Loop!Ids
<1> QED BY <1>2, <1>3

LEMMA ObserversKept ==
  ASSUME Loop!LoopAssumption, LoopInv, Keeps, tip' \in Nat, Fewer(obs')
  PROVE  Observers'
<1>1. \A x : AgreesIn(lp, x) => AgreesIn(lp', x)
  BY ActivationsKept
<1>2. IsFiniteSet(obs'.asks) /\ Cardinality(obs'.asks) <= MaxAsks
  <2>1. IsFiniteSet(obs.asks) /\ Cardinality(obs.asks) <= MaxAsks /\ obs'.asks \in SUBSET obs.asks
    BY DEF LoopInv, Observers, Agrees, AgreesIn, Fewer
  <2>2. IsFiniteSet(obs'.asks) /\ Cardinality(obs'.asks) <= Cardinality(obs.asks)
    BY <2>1, FS_Subset
  <2>3. Cardinality(obs'.asks) \in Nat /\ Cardinality(obs.asks) \in Nat /\ MaxAsks \in Nat
    BY <2>1, <2>2, FS_CardinalityType, TokenSet
  <2> QED BY <2>1, <2>2, <2>3
<1>3. \A a \in obs'.asks : AgreesIn(lp', a)
  BY <1>1 DEF LoopInv, Observers, Agrees, AgreesIn, Fewer
<1>4. obs'.timer # None => AgreesIn(lp', obs'.timer) /\ obs'.timer.id = obs'.token
  BY <1>1 DEF LoopInv, Observers, Agrees, AgreesIn, Fewer
<1>5. obs'.active # None => AgreesIn(lp', obs'.active)
  BY <1>1 DEF LoopInv, Observers, Agrees, AgreesIn, Fewer
<1>6. DOMAIN obs' = ObsFields
  BY DEF Fewer
<1> QED BY <1>2, <1>3, <1>4, <1>5, <1>6 DEF Observers, Agrees, AgreesIn

(* Whoever ends the worker and tells its activation leaves nothing behind.  *)
LEMMA EndIsTold ==
  ASSUME Loop!LoopAssumption, LoopInv, Keeps, tip' \in Nat, Fewer(obs'),
         DOMAIN pow' = PowFields, pow'.worker = None, pow'.reject = None
  PROVE  LoopInv'
<1>1. Activations' /\ Observers'
  BY ActivationsKept, ObserversKept
<1>2. OneWorker' /\ Watched'
  BY DEF OneWorker, Watched
<1> QED BY <1>1, <1>2 DEF LoopInv

LEMMA TerminatedIs ==
  ASSUME NEW r, DOMAIN r = PowFields
  PROVE  /\ DOMAIN Loop!Terminated(r) = PowFields /\ Loop!Terminated(r).worker = None
         /\ Loop!Terminated(r).reject = r.reject
         /\ DOMAIN [Loop!Terminated(r) EXCEPT !.reject = None] = PowFields
         /\ [Loop!Terminated(r) EXCEPT !.reject = None].worker = None
         /\ [Loop!Terminated(r) EXCEPT !.reject = None].reject = None
BY DEF Loop!Terminated, PowFields

LEMMA ClearedIs ==
  ASSUME NEW o, Fewer(o)
  PROVE  Fewer(Loop!Cleared(o)) /\ Loop!Cleared(o).token = 0
<1> DEFINE c == Loop!Cleared(o)
<1>1. /\ DOMAIN c = ObsFields /\ c.token = 0 /\ c.timer = None /\ c.active = o.active /\ c.asks = o.asks
  BY DEF Loop!Cleared, Fewer, ObsFields
<1> HIDE DEF c
<1>2. Fewer(c)
  BY <1>1 DEF Fewer
<1> QED BY <1>1, <1>2 DEF c

LEMMA StopIs ==
  ASSUME NEW o, Fewer(o), NEW id
  PROVE  /\ Fewer(Loop!StopObserver(o, id)) /\ Loop!StopObserver(o, id).asks = o.asks
         /\ \/ id # 0 /\ o.token = id
            \/ Loop!StopObserver(o, id).token = o.token /\ Loop!StopObserver(o, id).timer = o.timer
<1> DEFINE free == IF o.active # None /\ o.active.id = id THEN [o EXCEPT !.active = None] ELSE o
<1>1. /\ DOMAIN free = ObsFields /\ free.token = o.token /\ free.timer = o.timer /\ free.asks = o.asks
      /\ free.active \in {None, o.active}
  BY DEF Fewer, ObsFields
<1> HIDE DEF free
<1>2. Fewer(free)
  BY <1>1 DEF Fewer
<1>3. Loop!StopObserver(o, id) = IF id # 0 /\ o.token = id THEN Loop!Cleared(free) ELSE free
  BY DEF Loop!StopObserver, free
<1>4. CASE id # 0 /\ o.token = id
  <2>1. Loop!StopObserver(o, id) = Loop!Cleared(free)
    BY <1>3, <1>4
  <2>2. Loop!Cleared(free).asks = free.asks
    BY <1>1 DEF Loop!Cleared, ObsFields
  <2> QED BY <1>1, <1>2, <1>4, <2>1, <2>2, ClearedIs
<1>5. CASE ~(id # 0 /\ o.token = id)
  BY <1>1, <1>2, <1>3, <1>5
<1> QED BY <1>4, <1>5

LEMMA AllOfThem == ASSUME LoopInv PROVE Fewer(obs)
BY DEF LoopInv, Observers, Fewer

(* An activation that waits for no worker goes elsewhere: it may end the    *)
(* worker of the page, and stops no observer but its own.                   *)
LEMMA GoesElsewhere ==
  ASSUME Loop!LoopAssumption, LoopInv, NEW l \in Loops, ~Loop!Waiting(l), NEW q, lp' = [lp EXCEPT ![l] = q],
         IsActivation(q), q.id # 0 => q.id = lp[l].id /\ q.hdr = lp[l].hdr, tip' \in Nat,
         pow' = pow \/ pow' = Loop!Terminated(pow),
         obs' = obs \/ obs' = Loop!StopObserver(obs, lp[l].id)
  PROVE  Owed
<1>1. Keeps /\ lp'[l] = q /\ \A m \in Loops \ {l} : lp'[m] = lp[m]
  BY OneKeeps
<1>2. Fewer(obs') /\ obs'.asks = obs.asks
      /\ \/ lp[l].id # 0 /\ obs.token = lp[l].id
         \/ obs'.token = obs.token /\ obs'.timer = obs.timer
  BY AllOfThem, StopIs
<1>3. Activations' /\ Observers'
  BY <1>1, <1>2, ActivationsKept, ObserversKept
<1>4. /\ DOMAIN pow' = PowFields /\ pow'.reject = pow.reject
      /\ pow'.worker = None \/ pow' = pow
  BY TerminatedIs DEF LoopInv, OneWorker
<1>5. pow.reject # None => pow.reject \in Loops \ {l} /\ lp'[pow.reject] = lp[pow.reject]
  BY <1>1 DEF LoopInv, OneWorker
<1>6. pow.worker # None => pow.worker.of \in Loops \ {l} /\ lp'[pow.worker.of] = lp[pow.worker.of]
  BY <1>1 DEF LoopInv, OneWorker
<1>7. OneWorker'
  <2>1. pow'.reject # None => pow'.reject \in Loops /\ Loop!Waiting(pow.reject)'
    BY <1>4, <1>5 DEF LoopInv, OneWorker, Loop!Waiting
  <2>2. CASE pow'.worker = None
    BY <1>4, <2>1, <2>2 DEF OneWorker
  <2>3. CASE pow' = pow /\ pow.worker # None
    <3>1. /\ pow.worker.of \in Loops /\ Loop!Waiting(pow.worker.of)' /\ pow.reject = pow.worker.of
          /\ pow.worker = [of |-> pow.worker.of, gen |-> lp'[pow.worker.of].gen, parent |-> lp'[pow.worker.of].hdr]
          /\ pow.worker \in pow.hashing \cup pow.posted
      BY <1>6, <2>3 DEF LoopInv, OneWorker, Loop!Waiting
    <3> QED BY <1>4, <2>1, <2>3, <3>1 DEF OneWorker
  <2> QED BY <1>4, <2>2, <2>3
<1>8. Watched'
  <2>1. pow'.reject # None /\ lp'[pow'.reject].pc = "pow" => obs'.token \in {0, lp'[pow'.reject].id}
    BY <1>2, <1>4, <1>5 DEF LoopInv, Watched, Fewer
  <2>2. ASSUME pow'.worker # None, lp'[pow'.worker.of].pc = "pow"
        PROVE  /\ lp'[pow'.worker.of].id = obs'.token /\ obs'.token # 0
               /\ obs'.timer # None \/ \E a \in obs'.asks : a.id = obs'.token /\ a.kind = "poll"
    <3>1. pow' = pow /\ pow.worker.of \in Loops \ {l} /\ lp'[pow.worker.of] = lp[pow.worker.of]
      BY <1>4, <1>6, <2>2
    <3>2. /\ lp[pow.worker.of].id = obs.token /\ obs.token # 0
          /\ obs.timer # None \/ \E a \in obs.asks : a.id = obs.token /\ a.kind = "poll"
      BY <2>2, <3>1 DEF LoopInv, Watched
    <3>3. obs.token # lp[l].id
      BY <3>1, <3>2 DEF LoopInv, Activations
    <3> QED BY <1>2, <3>1, <3>2, <3>3
  <2> QED BY <2>1, <2>2 DEF Watched
<1>9. Loop!CancelsOnlyStale
  BY <1>1 DEF Loop!CancelsOnlyStale, Loop!Waiting
<1> QED BY <1>3, <1>7, <1>8, <1>9 DEF Owed, LoopInv

(* Records an activation may go on with.                                    *)
LEMMA TurnRests ==
  ASSUME LoopInv, Loop!LoopAssumption, NEW l \in Loops, NEW todo, NEW cool
  PROVE  IsActivation(Loop!Turn(l, todo, cool)) /\ Loop!Turn(l, todo, cool).id = 0
         /\ Loop!Turn(l, todo, cool).pc \in {"template", "work"}
<1> DEFINE t == Loop!Turn(l, todo, cool)
<1>1. DOMAIN t = Fields /\ t.id = 0 /\ t.pc \in {"template", "work"}
  BY DEF Loop!Turn, Loop!Resting, Fields
<1> HIDE DEF t
<1>2. IsActivation(t)
  BY <1>1 DEF IsActivation, Stations
<1> QED BY <1>1, <1>2 DEF t

LEMMA RestingRests ==
  ASSUME NEW a
  PROVE  /\ IsActivation(Loop!Resting) /\ Loop!Resting.id = 0 /\ Loop!Resting.pc = "idle"
         /\ IsActivation([Loop!Resting EXCEPT !.pc = "refresh", !.addr = a])
         /\ [Loop!Resting EXCEPT !.pc = "refresh", !.addr = a].id = 0
         /\ [Loop!Resting EXCEPT !.pc = "refresh", !.addr = a].pc = "refresh"
<1> DEFINE r == Loop!Resting
           s == [Loop!Resting EXCEPT !.pc = "refresh", !.addr = a]
<1>1. DOMAIN r = Fields /\ r.id = 0 /\ r.pc = "idle"
  BY DEF Loop!Resting, Fields
<1>2. DOMAIN s = Fields /\ s.id = 0 /\ s.pc = "refresh"
  BY <1>1 DEF Fields
<1> HIDE DEF r, s
<1>3. IsActivation(r) /\ IsActivation(s)
  BY <1>1, <1>2 DEF IsActivation, Stations
<1> QED BY <1>1, <1>2, <1>3 DEF r, s

LEMMA StartKeeps ==
  ASSUME Loop!LoopAssumption, LoopInv, NEW l \in Loops, Loop!Start(l)
  PROVE  Owed
<1> DEFINE t == Loop!Turn(l, Loop!Rotation(cursor), cooling)
           q == [t EXCEPT !.addr = wallet]
<1>1. lp' = [lp EXCEPT ![l] = q] /\ UNCHANGED <<wallet, pow, obs, cooling, cursor, tip>> /\ lp[l].pc = "idle"
  BY DEF Loop!Start
<1>2. IsActivation(t) /\ t.id = 0 /\ t.pc \in {"template", "work"}
  BY TurnRests
<1> HIDE DEF t
<1>3. DOMAIN q = Fields /\ q.id = 0 /\ q.pc \in {"template", "work"}
  BY <1>2 DEF IsActivation, Fields
<1> HIDE DEF q
<1>4. IsActivation(q)
  BY <1>3 DEF IsActivation, Stations
<1>5. tip' \in Nat
  BY <1>1 DEF LoopInv, Activations
<1>6. ~Loop!Waiting(l)
  BY <1>1 DEF Loop!Waiting
<1> QED BY <1>1, <1>3, <1>4, <1>5, <1>6, GoesElsewhere

(* The head of the loop, from an activation that waits for no worker.       *)
LEMMA AgainKeeps ==
  ASSUME Loop!LoopAssumption, LoopInv, NEW l \in Loops, ~Loop!Waiting(l), NEW cool, NEW cur, Loop!Again(l, cool, cur),
         tip' \in Nat, obs' = obs
  PROVE  Owed
<1>1. CASE lp' = [lp EXCEPT ![l] = Loop!Turn(l, Loop!Rotation(cur), cool)] /\ UNCHANGED pow
  BY <1>1, TurnRests, GoesElsewhere
<1>2. CASE Loop!End(l)
  <2>1. lp' = [lp EXCEPT ![l] = Loop!Resting] /\ pow' = Loop!Terminated(pow)
    BY <1>2 DEF Loop!End
  <2> QED BY <2>1, RestingRests, GoesElsewhere
<1> QED BY <1>1, <1>2 DEF Loop!Again

LEMMA RefreshedKeeps ==
  ASSUME Loop!LoopAssumption, LoopInv, NEW l \in Loops, Loop!Refreshed(l)
  PROVE  Owed
<1>1. lp[l].pc = "refresh" /\ Loop!Again(l, cooling, cursor) /\ obs' = obs /\ tip' = tip
  BY DEF Loop!Refreshed
<1>2. ~Loop!Waiting(l) /\ tip' \in Nat
  BY <1>1 DEF Loop!Waiting, LoopInv, Activations
<1> QED BY <1>1, <1>2, AgainKeeps

LEMMA RequestFailsKeeps ==
  ASSUME Loop!LoopAssumption, LoopInv, NEW l \in Loops, Loop!RequestFails(l)
  PROVE  Owed
<1>1. /\ lp' = [lp EXCEPT ![l] = Loop!Resting] /\ pow' = Loop!Terminated(pow) /\ tip' = tip
      /\ obs' = Loop!StopObserver(obs, lp[l].id) /\ lp[l].pc \in {"template", "submit", "refresh"}
  BY DEF Loop!RequestFails, Loop!End
<1>2. ~Loop!Waiting(l) /\ tip' \in Nat
  BY <1>1 DEF Loop!Waiting, LoopInv, Activations
<1> QED BY <1>1, <1>2, RestingRests, GoesElsewhere

LEMMA AssertFreshKeeps ==
  ASSUME Loop!LoopAssumption, LoopInv, NEW l \in Loops, Loop!AssertFresh(l)
  PROVE  Owed
<1>1. lp[l].pc = "fresh" /\ tip' = tip
  BY DEF Loop!AssertFresh
<1>2. ~Loop!Waiting(l) /\ tip' \in Nat
  BY <1>1 DEF Loop!Waiting, LoopInv, Activations
<1>3. CASE lp' = [lp EXCEPT ![l].pc = "submit"] /\ UNCHANGED <<obs, pow>>
  <2> DEFINE p == lp[l]
             q == [p EXCEPT !.pc = "submit"]
  <2>1. lp' = [lp EXCEPT ![l] = q]
    BY <1>3
  <2>2. IsActivation(p)
    BY DEF LoopInv, Activations
  <2>3. p.pc = "fresh"
    BY <1>1
  <2> HIDE DEF p
  <2>4. DOMAIN q = Fields /\ q.pc = "submit" /\ q.id = p.id /\ q.hdr = p.hdr /\ q.proof = p.proof
    BY <2>2 DEF IsActivation, Fields
  <2> HIDE DEF q
  <2>5. IsActivation(q)
    BY <2>2, <2>3, <2>4 DEF IsActivation, Stations
  <2>6. q.id = lp[l].id /\ q.hdr = lp[l].hdr
    BY <2>4 DEF p
  <2> QED BY <1>2, <1>3, <2>1, <2>5, <2>6, GoesElsewhere
<1>4. CASE Loop!ToRefresh(l)
  <2>1. /\ lp' = [lp EXCEPT ![l] = [Loop!Resting EXCEPT !.pc = "refresh", !.addr = lp[l].addr]]
        /\ obs' = Loop!StopObserver(obs, lp[l].id) /\ pow' = pow
    BY <1>4 DEF Loop!ToRefresh
  <2> QED BY <1>2, <2>1, RestingRests, GoesElsewhere
<1> QED BY <1>3, <1>4 DEF Loop!AssertFresh

LEMMA SubmitBlockGoesOn ==
  ASSUME Loop!LoopAssumption, LoopInv, NEW l \in Loops, Loop!SubmitBlock(l)
  PROVE  Owed
<1>1. lp[l].pc = "submit" /\ tip' \in {tip, tip + 1}
  BY DEF Loop!SubmitBlock
<1>2. ~Loop!Waiting(l) /\ tip' \in Nat
  BY <1>1 DEF Loop!Waiting, LoopInv, Activations
<1>3. CASE Loop!ToRefresh(l)
  <2>1. /\ lp' = [lp EXCEPT ![l] = [Loop!Resting EXCEPT !.pc = "refresh", !.addr = lp[l].addr]]
        /\ obs' = Loop!StopObserver(obs, lp[l].id) /\ pow' = pow
    BY <1>3 DEF Loop!ToRefresh
  <2> QED BY <1>2, <2>1, RestingRests, GoesElsewhere
<1>4. CASE Loop!End(l) /\ obs' = Loop!StopObserver(obs, lp[l].id)
  <2>1. lp' = [lp EXCEPT ![l] = Loop!Resting] /\ pow' = Loop!Terminated(pow)
    BY <1>4 DEF Loop!End
  <2> QED BY <1>2, <1>4, <2>1, RestingRests, GoesElsewhere
<1> QED BY <1>3, <1>4 DEF Loop!SubmitBlock

LEMMA CoordinatorFailsKeeps ==
  ASSUME Loop!LoopAssumption, LoopInv, NEW l \in Loops, Loop!CoordinatorFails(l)
  PROVE  Owed
<1>1. /\ lp[l].pc \in {"work", "share"} /\ UNCHANGED <<pow, obs, tip>>
      /\ lp' = [lp EXCEPT ![l] = Loop!Turn(l, Tail(lp[l].todo), cooling')]
  BY DEF Loop!CoordinatorFails, Loop!Failed
<1>2. ~Loop!Waiting(l) /\ tip' \in Nat
  BY <1>1 DEF Loop!Waiting, LoopInv, Activations
<1> QED BY <1>1, <1>2, TurnRests, GoesElsewhere

LEMMA ShareAcceptedKeeps ==
  ASSUME Loop!LoopAssumption, LoopInv, NEW l \in Loops, NEW won \in BOOLEAN, Loop!ShareAccepted(l, won)
  PROVE  Owed
<1>1. lp[l].pc = "share" /\ tip' \in {tip, tip + 1} /\ obs' = obs
  BY DEF Loop!ShareAccepted
<1>2. ~Loop!Waiting(l) /\ tip' \in Nat
  BY <1>1 DEF Loop!Waiting, LoopInv, Activations
<1>3. CASE lp' = [lp EXCEPT ![l] = [Loop!Resting EXCEPT !.pc = "refresh", !.addr = lp[l].addr]] /\ UNCHANGED pow
  BY <1>1, <1>2, <1>3, RestingRests, GoesElsewhere
<1>4. CASE Loop!Again(l, cooling', cursor')
  BY <1>1, <1>2, <1>4, AgainKeeps
<1> QED BY <1>3, <1>4 DEF Loop!ShareAccepted

(* New work: the worker of the page, its rejection and, on direct work, its *)
(* observer are this activation's from now on.                              *)
LEMMA GotWorkKeeps ==
  ASSUME Loop!LoopAssumption, LoopInv, NEW l \in Loops, Loop!GotWork(l)
  PROVE  Owed
<1> DEFINE p == lp[l]
           q == [p EXCEPT !.pc = "sharepow", !.hdr = tip, !.gen = Loop!FreshGen]
           w == [of |-> l, gen |-> Loop!FreshGen, parent |-> tip]
<1>1. lp[l].pc = "work" /\ lp' = [lp EXCEPT ![l] = q] /\ pow' = Loop!Hashing(pow, l, tip) /\ obs' = obs /\ tip' = tip
  BY DEF Loop!GotWork
<1>2. IsActivation(p) /\ p.id = 0
  BY <1>1 DEF LoopInv, Activations, IsActivation
<1> HIDE DEF p
<1>3. DOMAIN q = Fields /\ q.pc = "sharepow" /\ q.hdr = tip /\ q.gen = Loop!FreshGen /\ q.id = 0
  BY <1>2 DEF IsActivation, Fields
<1> HIDE DEF q
<1>4. IsActivation(q)
  BY <1>3 DEF IsActivation, Stations
<1>5. Keeps /\ lp'[l] = q /\ \A m \in Loops \ {l} : lp'[m] = lp[m]
  BY <1>1, <1>3, <1>4, OneKeeps
<1>6. Activations' /\ Observers'
  BY <1>1, <1>5, AllOfThem, ActivationsKept, ObserversKept DEF LoopInv, Activations
<1>7. /\ DOMAIN pow' = PowFields /\ pow'.worker = w /\ pow'.reject = l /\ w \in pow'.hashing
  BY <1>1 DEF Loop!Hashing, LoopInv, OneWorker, PowFields
<1>8. w.of = l /\ w = [of |-> l, gen |-> q.gen, parent |-> q.hdr]
  BY <1>3
<1> HIDE DEF w
<1>9. Loop!Waiting(l)'
  BY <1>3, <1>5 DEF Loop!Waiting
<1>10. OneWorker'
  BY <1>5, <1>7, <1>8, <1>9 DEF OneWorker
<1>11. Watched'
  BY <1>3, <1>5, <1>7, <1>8 DEF Watched
<1>12. Loop!CancelsOnlyStale
  BY <1>3, <1>5 DEF Loop!CancelsOnlyStale
<1> QED BY <1>6, <1>10, <1>11, <1>12 DEF Owed, LoopInv

LEMMA GotTemplateKeeps ==
  ASSUME Loop!LoopAssumption, LoopInv, NEW l \in Loops, Loop!GotTemplate(l)
  PROVE  Owed
<1> DEFINE p == lp[l]
           id == Loop!FreshId
           q == [p EXCEPT !.pc = "pow", !.hdr = tip, !.gen = Loop!FreshGen, !.proof = None, !.id = id, !.why = None]
           w == [of |-> l, gen |-> Loop!FreshGen, parent |-> tip]
           me == [id |-> id, hdr |-> tip]
<1>1. /\ lp[l].pc = "template" /\ lp' = [lp EXCEPT ![l] = q] /\ pow' = Loop!Hashing(pow, l, tip) /\ tip' = tip
      /\ obs' = [obs EXCEPT !.token = id, !.timer = me, !.active = me]
  BY DEF Loop!GotTemplate, Loop!Observing
<1>2. IsActivation(p) /\ p.id = 0 /\ tip \in Nat
  BY <1>1 DEF LoopInv, Activations, IsActivation
<1>3. id \in Loop!Ids /\ (\A a \in obs.asks : a.id # id) /\ \A m \in Loops : lp[m].id # id
  BY <1>2, NewToken
<1>4. id \in Nat /\ id # 0
  BY <1>3, TokenSet
<1>5. me # None /\ me.id = id /\ me.hdr = tip
  BY <1>2, <1>4 DEF Loop!LoopAssumption
<1> HIDE DEF p, id
<1>6. DOMAIN q = Fields /\ q.pc = "pow" /\ q.hdr = tip /\ q.gen = Loop!FreshGen /\ q.id = id
  BY <1>2 DEF IsActivation, Fields
<1> HIDE DEF q, me
<1>7. IsActivation(q)
  BY <1>3, <1>6 DEF IsActivation, Stations
<1>8. DOMAIN lp' = Loops /\ lp'[l] = q /\ \A m \in Loops \ {l} : lp'[m] = lp[m]
  BY <1>1 DEF LoopInv, Activations
<1>9. Activations'
  <2>1. \A m \in Loops : IsActivation(lp'[m])
    BY <1>7, <1>8 DEF LoopInv, Activations
  <2>2. ASSUME NEW m \in Loops, NEW k \in Loops, lp'[m].id = lp'[k].id, lp'[m].id # 0 PROVE m = k
    <3>1. CASE m = l /\ k # l
      BY <1>3, <1>6, <1>8, <2>2, <3>1
    <3>2. CASE m # l /\ k = l
      BY <1>3, <1>6, <1>8, <2>2, <3>2
    <3>3. CASE m # l /\ k # l
      BY <1>8, <2>2, <3>3 DEF LoopInv, Activations
    <3> QED BY <3>1, <3>2, <3>3
  <2> QED BY <1>1, <1>2, <1>8, <2>1, <2>2 DEF Activations, IsActivation, Loop!Ids
<1>10. /\ DOMAIN obs' = ObsFields /\ obs'.token = id /\ obs'.timer = me /\ obs'.active = me /\ obs'.asks = obs.asks
  BY <1>1 DEF LoopInv, Observers, ObsFields
<1>11. Observers'
  <2>1. ASSUME NEW x, Agrees(x), x.id # id PROVE AgreesIn(lp', x)
    BY <1>6, <1>8, <2>1 DEF Agrees, AgreesIn, Loop!Ids
  <2>2. AgreesIn(lp', me)
    <3>1. \A m \in Loops : lp'[m].id = id => lp'[m].hdr = tip
      BY <1>3, <1>6, <1>8
    <3> QED BY <1>2, <1>3, <1>5, <3>1 DEF Agrees, AgreesIn, Loop!Ids
  <2>3. \A a \in obs'.asks : AgreesIn(lp', a)
    BY <1>3, <1>10, <2>1 DEF LoopInv, Observers
  <2>4. IsFiniteSet(obs'.asks) /\ Cardinality(obs'.asks) <= MaxAsks
    BY <1>10 DEF LoopInv, Observers
  <2> QED BY <1>5, <1>10, <2>2, <2>3, <2>4 DEF Observers, Agrees, AgreesIn
<1>12. /\ DOMAIN pow' = PowFields /\ pow'.worker = w /\ pow'.reject = l /\ w \in pow'.hashing
  BY <1>1 DEF Loop!Hashing, LoopInv, OneWorker, PowFields
<1>13. w.of = l /\ w = [of |-> l, gen |-> q.gen, parent |-> q.hdr]
  BY <1>6
<1> HIDE DEF w
<1>14. Loop!Waiting(l)'
  BY <1>6, <1>8 DEF Loop!Waiting
<1>15. OneWorker'
  BY <1>8, <1>12, <1>13, <1>14 DEF OneWorker
<1>16. Watched'
  BY <1>4, <1>5, <1>6, <1>8, <1>10, <1>12, <1>13 DEF Watched
<1>17. Loop!CancelsOnlyStale
  BY <1>6, <1>8 DEF Loop!CancelsOnlyStale
<1> QED BY <1>9, <1>11, <1>15, <1>16, <1>17 DEF Owed, LoopInv

(* Whoever is told: a proof came, its worker failed, or it was stopped.     *)
LEMMA StopMiningKeeps ==
  ASSUME Loop!LoopAssumption, LoopInv, Loop!StopMining
  PROVE  Owed
<1>1. pow' = [Loop!Terminated(pow) EXCEPT !.reject = None] /\ tip' = tip
  BY DEF Loop!StopMining
<1>2. DOMAIN pow' = PowFields /\ pow'.worker = None /\ pow'.reject = None /\ tip' \in Nat
  BY <1>1, TerminatedIs DEF LoopInv, OneWorker, Activations
<1>3. Fewer(Loop!Cleared(obs))
  BY AllOfThem, ClearedIs
<1>4. CASE pow.reject = None
  <2>1. obs' = Loop!Cleared(obs) /\ lp' = lp
    BY <1>4 DEF Loop!StopMining
  <2>2. Keeps
    BY <2>1 DEF Keeps, LoopInv, Activations
  <2>3. Loop!CancelsOnlyStale
    BY <2>1 DEF Loop!CancelsOnlyStale
  <2> QED BY <1>2, <1>3, <2>1, <2>2, <2>3, EndIsTold DEF Owed
<1>5. CASE pow.reject # None
  <2>1. obs' = Loop!StopObserver(Loop!Cleared(obs), lp[pow.reject].id) /\ lp' = [lp EXCEPT ![pow.reject] = Loop!Resting]
    BY <1>5 DEF Loop!StopMining
  <2>2. Fewer(obs')
    BY <1>3, <2>1, StopIs
  <2>3. PICK l \in Loops : l = pow.reject
    BY <1>5 DEF LoopInv, OneWorker
  <2>4. IsActivation(Loop!Resting) /\ Loop!Resting.id = 0 /\ Loop!Resting.pc = "idle"
    BY RestingRests
  <2>5. Keeps /\ lp'[l] = Loop!Resting /\ \A m \in Loops \ {l} : lp'[m] = lp[m]
    BY <2>1, <2>3, <2>4, OneKeeps
  <2>6. Loop!CancelsOnlyStale
    BY <2>4, <2>5 DEF Loop!CancelsOnlyStale
  <2> QED BY <1>2, <2>2, <2>5, <2>6, EndIsTold DEF Owed
<1> QED BY <1>4, <1>5

LEMMA WorkerFailsKeeps ==
  ASSUME Loop!LoopAssumption, LoopInv, NEW l \in Loops, Loop!WorkerFails(l)
  PROVE  Owed
<1>1. pow' = [Loop!Terminated(pow) EXCEPT !.reject = None] /\ tip' = tip /\ obs' = Loop!StopObserver(obs, lp[l].id)
  BY DEF Loop!WorkerFails
<1>2. DOMAIN pow' = PowFields /\ pow'.worker = None /\ pow'.reject = None /\ tip' \in Nat
  BY <1>1, TerminatedIs DEF LoopInv, OneWorker, Activations
<1>3. Fewer(obs')
  BY <1>1, AllOfThem, StopIs
<1>4. PICK q : lp' = [lp EXCEPT ![l] = q] /\ IsActivation(q) /\ q.id = 0 /\ q.pc \in {"idle", "template", "work"}
  <2>1. CASE lp' = [lp EXCEPT ![l] = Loop!Resting]
    BY <2>1, RestingRests
  <2>2. CASE lp' = [lp EXCEPT ![l] = Loop!Turn(l, Tail(lp[l].todo), cooling')]
    <3> DEFINE t == Loop!Turn(l, Tail(lp[l].todo), cooling')
    <3>1. IsActivation(t) /\ t.id = 0 /\ t.pc \in {"template", "work"}
      BY TurnRests
    <3> HIDE DEF t
    <3>2. lp' = [lp EXCEPT ![l] = t]
      BY <2>2 DEF t
    <3> QED BY <3>1, <3>2
  <2> QED BY <2>1, <2>2 DEF Loop!WorkerFails
<1>5. Keeps /\ lp'[l] = q /\ \A m \in Loops \ {l} : lp'[m] = lp[m]
  BY <1>4, OneKeeps
<1>6. Loop!CancelsOnlyStale
  BY <1>4, <1>5 DEF Loop!CancelsOnlyStale
<1> QED BY <1>2, <1>3, <1>5, <1>6, EndIsTold DEF Owed

(* A message of the worker the page knows of is for its activation; any     *)
(* other is thrown away.                                                    *)
LEMMA OnMessageKeeps ==
  ASSUME Loop!LoopAssumption, LoopInv, NEW w \in pow.posted, Loop!OnMessage(w)
  PROVE  Owed
<1> DEFINE rest == [pow EXCEPT !.posted = @ \ {w}]
<1>0. UNCHANGED <<obs, tip>> /\ tip' \in Nat
  BY DEF Loop!OnMessage, LoopInv, Activations
<1>1. /\ DOMAIN rest = PowFields /\ rest.worker = pow.worker /\ rest.reject = pow.reject
      /\ rest.hashing = pow.hashing /\ rest.posted = pow.posted \ {w}
  BY DEF LoopInv, OneWorker, PowFields
<1>2. CASE Loop!Heard(w)
  <2>1. pow.worker # None /\ pow.worker = w
    BY <1>2 DEF Loop!Heard
  <2>2. PICK l \in Loops : /\ l = w.of /\ Loop!Waiting(l) /\ w = [of |-> l, gen |-> lp[l].gen, parent |-> lp[l].hdr]
    BY <2>1 DEF LoopInv, OneWorker
  <2> DEFINE p == lp[l]
             pc == IF p.pc = "pow" THEN "fresh" ELSE "share"
             q == [p EXCEPT !.pc = pc, !.proof = w.parent]
  <2>3. /\ pow' = [Loop!Terminated(rest) EXCEPT !.reject = None]
        /\ lp' = [lp EXCEPT ![l].pc = pc, ![l].proof = w.parent]
    BY <1>2, <2>2 DEF Loop!OnMessage
  <2>4. IsActivation(p) /\ DOMAIN lp = Loops /\ p.pc \in {"pow", "sharepow"} /\ w.parent = p.hdr
    BY <2>2 DEF LoopInv, Activations, Loop!Waiting
  <2>5. lp' = [lp EXCEPT ![l] = q]
    BY <2>3, <2>4
  <2> HIDE DEF p
  <2>6. DOMAIN q = Fields /\ q.pc = pc /\ q.proof = p.hdr /\ q.hdr = p.hdr /\ q.id = p.id
    BY <2>4 DEF IsActivation, Fields
  <2> HIDE DEF q
  <2>7. IsActivation(q)
    BY <2>4, <2>6 DEF IsActivation, Stations
  <2>8. q.id = lp[l].id /\ q.hdr = lp[l].hdr
    BY <2>6 DEF p
  <2>9. Keeps /\ lp'[l] = q /\ \A m \in Loops \ {l} : lp'[m] = lp[m]
    BY <2>5, <2>7, <2>8, OneKeeps
  <2>10. Loop!CancelsOnlyStale
    BY <2>6, <2>9 DEF Loop!CancelsOnlyStale
  <2> HIDE DEF rest
  <2>11. DOMAIN pow' = PowFields /\ pow'.worker = None /\ pow'.reject = None
    BY <1>1, <2>3, TerminatedIs
  <2>12. Fewer(obs')
    BY <1>0, AllOfThem
  <2> QED BY <1>0, <2>9, <2>10, <2>11, <2>12, EndIsTold DEF Owed
<1>3. CASE ~Loop!Heard(w)
  <2>1. pow' = rest /\ lp' = lp
    BY <1>3 DEF Loop!OnMessage
  <2> HIDE DEF rest
  <2>2. Activations' /\ Observers' /\ Watched'
    BY <1>0, <1>1, <2>1 DEF LoopInv, Activations, Observers, Watched, IsActivation, Agrees, AgreesIn, Loop!Ids
  <2>3. OneWorker'
    BY <1>1, <1>3, <2>1 DEF LoopInv, OneWorker, Loop!Waiting, Loop!Heard
  <2>4. Loop!CancelsOnlyStale
    BY <2>1 DEF Loop!CancelsOnlyStale
  <2> QED BY <2>2, <2>3, <2>4 DEF Owed, LoopInv
<1> QED BY <1>2, <1>3

(* The observer finds its work stale, or cannot ask when the page comes     *)
(* back: it is heeded only with the token, which is that of the activation  *)
(* whose Proof of Work it ends.                                             *)
LEMMA InvalidateKeeps ==
  ASSUME Loop!LoopAssumption, LoopInv, NEW a \in obs.asks, NEW why, obs.token = a.id, UNCHANGED tip,
         Loop!Invalidate(a, [obs EXCEPT !.asks = @ \ {a}], why),
         tip # a.hdr \/ a.kind = "resume"
  PROVE  Owed
<1> DEFINE o == [obs EXCEPT !.asks = @ \ {a}]
           c == Loop!Cleared(o)
           gone == [c EXCEPT !.active = IF @ # None /\ @.id = a.id THEN None ELSE @]
           Noted(l) == IF lp[l].id = a.id THEN [lp[l] EXCEPT !.why = why] ELSE lp[l]
           noted == [l \in Loops |-> Noted(l)]
<1>1. Fewer(o)
  BY DEF LoopInv, Observers, Fewer, ObsFields
<1>2. Fewer(c) /\ c.token = 0
  BY <1>1, ClearedIs
<1> HIDE DEF c
<1>3. Fewer(gone)
  <2>1. /\ DOMAIN gone = ObsFields /\ gone.asks = c.asks /\ gone.token = c.token /\ gone.timer = c.timer
        /\ gone.active \in {None, c.active}
    BY <1>2 DEF Fewer, ObsFields
  <2> HIDE DEF gone
  <2> QED BY <1>2, <2>1 DEF Fewer
<1>4. pow' = [Loop!Terminated(pow) EXCEPT !.reject = None] /\ obs' = gone
  BY DEF Loop!Invalidate, c
<1>5. DOMAIN pow' = PowFields /\ pow'.worker = None /\ pow'.reject = None /\ tip' \in Nat
  BY <1>4, TerminatedIs DEF LoopInv, OneWorker, Activations
<1> HIDE DEF gone, o
<1>6. ASSUME NEW l \in Loops
      PROVE  /\ IsActivation(Noted(l)) /\ Noted(l).id = lp[l].id /\ Noted(l).hdr = lp[l].hdr /\ Noted(l).pc = lp[l].pc
             /\ Noted(l).proof = lp[l].proof
  <2> DEFINE p == lp[l]
             q == [p EXCEPT !.why = why]
  <2>1. IsActivation(p)
    BY DEF LoopInv, Activations
  <2> HIDE DEF p
  <2>2. DOMAIN q = Fields /\ q.id = p.id /\ q.hdr = p.hdr /\ q.pc = p.pc /\ q.proof = p.proof
    BY <2>1 DEF IsActivation, Fields
  <2> HIDE DEF q
  <2>3. IsActivation(q)
    BY <2>1, <2>2 DEF IsActivation
  <2>4. Noted(l) \in {p, q}
    BY DEF p, q
  <2> HIDE DEF Noted
  <2>5. IsActivation(Noted(l)) /\ Noted(l).id = p.id /\ Noted(l).hdr = p.hdr /\ Noted(l).pc = p.pc /\ Noted(l).proof = p.proof
    BY <2>1, <2>2, <2>3, <2>4
  <2> QED BY <2>5 DEF p
<1> HIDE DEF Noted
<1>7. DOMAIN noted = Loops /\ \A l \in Loops : noted[l] = Noted(l)
  OBVIOUS
<1>8. CASE pow.reject = None /\ lp' = noted
  <2>1. Keeps /\ \A l \in Loops : lp'[l].pc = lp[l].pc
    BY <1>6, <1>7, <1>8 DEF Keeps
  <2>2. Loop!CancelsOnlyStale
    BY <2>1 DEF Loop!CancelsOnlyStale
  <2> QED BY <1>3, <1>4, <1>5, <2>1, <2>2, EndIsTold DEF Owed
<1>9. CASE /\ pow.reject # None /\ lp[pow.reject].pc = "pow"
           /\ lp' = [noted EXCEPT ![pow.reject].pc = "refresh", ![pow.reject].id = 0]
  <2>1. PICK l \in Loops : l = pow.reject
    BY <1>9 DEF LoopInv, OneWorker
  <2> DEFINE n == Noted(l)
             q == [n EXCEPT !.pc = "refresh", !.id = 0]
  <2>2. IsActivation(n)
    BY <1>6
  <2>3. lp'[l] = q /\ DOMAIN lp' = Loops /\ \A m \in Loops \ {l} : lp'[m] = Noted(m)
    BY <1>7, <1>9, <2>1
  <2> HIDE DEF n, noted
  <2>4. DOMAIN q = Fields /\ q.pc = "refresh" /\ q.id = 0
    BY <2>2 DEF IsActivation, Fields
  <2> HIDE DEF q
  <2>5. IsActivation(q)
    BY <2>4 DEF IsActivation, Stations
  <2>6. Keeps
    BY <1>6, <2>3, <2>4, <2>5 DEF Keeps
  <2>7. lp[l].id = a.id /\ lp[l].hdr = a.hdr
    <3>1. obs.token \in {0, lp[l].id} /\ Agrees(a)
      BY <1>9, <2>1 DEF LoopInv, Watched, Observers
    <3>2. a.id # 0
      BY <3>1, TokenSet DEF Agrees, AgreesIn
    <3> QED BY <3>1, <3>2 DEF Agrees, AgreesIn
  <2>8. Loop!CancelsOnlyStale
    BY <1>6, <2>3, <2>7 DEF Loop!CancelsOnlyStale
  <2> QED BY <1>3, <1>4, <1>5, <2>6, <2>8, EndIsTold DEF Owed
<1>10. CASE /\ pow.reject # None /\ lp[pow.reject].pc = "sharepow"
            /\ lp' = [noted EXCEPT ![pow.reject] = Loop!Failed(pow.reject, cooling')]
  <2>1. PICK l \in Loops : l = pow.reject
    BY <1>10 DEF LoopInv, OneWorker
  <2> DEFINE q == Loop!Failed(l, cooling')
  <2>2. IsActivation(q) /\ q.id = 0 /\ q.pc \in {"template", "work"}
    BY TurnRests DEF Loop!Failed
  <2> HIDE DEF q
  <2>3. lp' = [noted EXCEPT ![l] = q]
    BY <1>10, <2>1 DEF q
  <2>4. lp'[l] = q /\ DOMAIN lp' = Loops /\ \A m \in Loops \ {l} : lp'[m] = Noted(m)
    BY <1>7, <2>3
  <2>5. Keeps
    BY <1>6, <2>2, <2>4 DEF Keeps
  <2>6. Loop!CancelsOnlyStale
    BY <1>6, <2>2, <2>4 DEF Loop!CancelsOnlyStale
  <2> QED BY <1>3, <1>4, <1>5, <2>5, <2>6, EndIsTold DEF Owed
<1> QED BY <1>8, <1>9, <1>10 DEF Loop!Invalidate, Noted

(* Steps that leave the activations, the worker and the token as they are.  *)
LEMMA SitsStill ==
  ASSUME Loop!LoopAssumption, LoopInv, lp' = lp, tip' \in Nat,
         DOMAIN pow' = PowFields, pow'.worker = pow.worker, pow'.reject = pow.reject,
         pow.worker # None /\ pow.worker \in pow.hashing \cup pow.posted => pow.worker \in pow'.hashing \cup pow'.posted,
         Observers', obs'.token = obs.token,
         \A a \in obs.asks : a.id = obs.token /\ a.kind = "poll" => a \in obs'.asks \/ obs'.timer # None,
         obs.timer # None => obs'.timer # None \/ \E a \in obs'.asks : a.id = obs.token /\ a.kind = "poll"
  PROVE  Owed
<1>1. Activations'
  BY DEF LoopInv, Activations, IsActivation, Loop!Ids
<1>2. OneWorker'
  BY DEF LoopInv, OneWorker, Loop!Waiting
<1>3. Watched'
  BY DEF LoopInv, Watched
<1>4. Loop!CancelsOnlyStale
  BY DEF Loop!CancelsOnlyStale
<1> QED BY <1>1, <1>2, <1>3, <1>4 DEF Owed, LoopInv

LEMMA MoreAsks ==
  ASSUME Loop!LoopAssumption, LoopInv, NEW x, Agrees(x), Loop!Cardinality(obs.asks) < MaxAsks
  PROVE  IsFiniteSet(obs.asks \cup {x}) /\ Cardinality(obs.asks \cup {x}) <= MaxAsks
<1>1. IsFiniteSet(obs.asks) /\ Cardinality(obs.asks) < MaxAsks
  BY SameCount DEF LoopInv, Observers
<1>2. /\ IsFiniteSet(obs.asks \cup {x}) /\ Cardinality(obs.asks) \in Nat /\ MaxAsks \in Nat
      /\ Cardinality(obs.asks \cup {x}) = Cardinality(obs.asks) \/ Cardinality(obs.asks \cup {x}) = Cardinality(obs.asks) + 1
  BY <1>1, FS_AddElement, FS_CardinalityType, TokenSet
<1> QED BY <1>1, <1>2

LEMMA PollKeeps == ASSUME Loop!LoopAssumption, LoopInv, Loop!Poll PROVE Owed
<1> DEFINE x == [id |-> obs.timer.id, hdr |-> obs.timer.hdr, kind |-> "poll"]
<1>1. /\ obs.timer # None /\ Loop!Cardinality(obs.asks) < MaxAsks /\ UNCHANGED <<lp, pow, tip>>
      /\ obs' = [obs EXCEPT !.timer = None, !.asks = @ \cup {x}]
  BY DEF Loop!Poll
<1>2. /\ DOMAIN obs' = ObsFields /\ obs'.token = obs.token /\ obs'.timer = None /\ obs'.active = obs.active
      /\ obs'.asks = obs.asks \cup {x}
  BY <1>1 DEF LoopInv, Observers, ObsFields
<1>3. Agrees(x) /\ x.id = obs.token /\ x.kind = "poll"
  BY <1>1 DEF LoopInv, Observers, Agrees, AgreesIn
<1> HIDE DEF x
<1>4. IsFiniteSet(obs'.asks) /\ Cardinality(obs'.asks) <= MaxAsks
  BY <1>1, <1>2, <1>3, MoreAsks
<1>5. Observers'
  BY <1>1, <1>2, <1>3, <1>4 DEF LoopInv, Observers, Agrees, AgreesIn, Loop!Ids
<1>6. DOMAIN pow' = PowFields /\ tip' \in Nat
  BY <1>1 DEF LoopInv, OneWorker, Activations
<1> QED BY <1>1, <1>2, <1>3, <1>5, <1>6, SitsStill

LEMMA RevalidateKeeps == ASSUME Loop!LoopAssumption, LoopInv, NEW kind, Loop!Revalidate(kind) PROVE Owed
<1> DEFINE x == [id |-> obs.active.id, hdr |-> obs.active.hdr, kind |-> kind]
<1>1. /\ obs.active # None /\ Loop!Cardinality(obs.asks) < MaxAsks /\ UNCHANGED <<lp, pow, tip>>
      /\ obs' = [obs EXCEPT !.asks = @ \cup {x}]
  BY DEF Loop!Revalidate
<1>2. /\ DOMAIN obs' = ObsFields /\ obs'.token = obs.token /\ obs'.timer = obs.timer /\ obs'.active = obs.active
      /\ obs'.asks = obs.asks \cup {x}
  BY <1>1 DEF LoopInv, Observers, ObsFields
<1>3. Agrees(x)
  BY <1>1 DEF LoopInv, Observers, Agrees, AgreesIn
<1> HIDE DEF x
<1>4. IsFiniteSet(obs'.asks) /\ Cardinality(obs'.asks) <= MaxAsks
  BY <1>1, <1>2, <1>3, MoreAsks
<1>5. Observers'
  BY <1>1, <1>2, <1>3, <1>4 DEF LoopInv, Observers, Agrees, AgreesIn, Loop!Ids
<1>6. DOMAIN pow' = PowFields /\ tip' \in Nat
  BY <1>1 DEF LoopInv, OneWorker, Activations
<1> QED BY <1>1, <1>2, <1>5, <1>6, SitsStill

(* The answer of a request.                                                 *)
LEMMA AnswerGoesOn ==
  ASSUME Loop!LoopAssumption, LoopInv, NEW a \in obs.asks, NEW lost \in BOOLEAN, Loop!Answer(a, lost)
  PROVE  Owed
<1> DEFINE o == [obs EXCEPT !.asks = @ \ {a}]
           s == IF lost THEN "unknown" ELSE Loop!TipState(a.hdr)
           timer == [id |-> a.id, hdr |-> a.hdr]
<1>1. tip' = tip /\ tip' \in Nat
  BY DEF Loop!Answer, LoopInv, Activations
<1>2. /\ DOMAIN o = ObsFields /\ o.token = obs.token /\ o.timer = obs.timer /\ o.active = obs.active
      /\ o.asks = obs.asks \ {a}
  BY DEF LoopInv, Observers, ObsFields
<1>3. Fewer(o)
  BY <1>2 DEF Fewer
<1>4. s = "stale" => tip # a.hdr
  BY DEF Loop!TipState
<1>5. Agrees(a)
  BY DEF LoopInv, Observers
<1>6. CASE ~Loop!Superseded(a) /\ s = "stale" /\ Loop!Invalidate(a, o, "TIP_INVALIDATED")
  <2>1. obs.token = a.id /\ tip # a.hdr
    BY <1>4, <1>6 DEF Loop!Superseded
  <2> QED BY <1>1, <1>6, <2>1, InvalidateKeeps
<1>7. CASE ~Loop!Superseded(a) /\ a.kind = "resume" /\ Loop!Invalidate(a, o, "TIP_FRESHNESS_UNKNOWN")
  <2>1. obs.token = a.id
    BY <1>7 DEF Loop!Superseded
  <2> QED BY <1>1, <1>7, <2>1, InvalidateKeeps
<1>8. CASE UNCHANGED <<lp, pow>> /\ obs' = o /\ (Loop!Superseded(a) \/ a.kind # "poll")
  <2>1. Keeps
    BY <1>8 DEF Keeps, LoopInv, Activations
  <2> HIDE DEF o
  <2>2. Observers'
    BY <1>1, <1>3, <1>8, <2>1, ObserversKept
  <2>3. \A b \in obs.asks : b.id = obs.token /\ b.kind = "poll" => b \in obs'.asks
    BY <1>2, <1>8 DEF Loop!Superseded
  <2>4. DOMAIN pow' = PowFields
    BY <1>8 DEF LoopInv, OneWorker
  <2> QED BY <1>1, <1>2, <1>8, <2>2, <2>3, <2>4, SitsStill
<1>9. CASE UNCHANGED <<lp, pow>> /\ obs' = [o EXCEPT !.timer = timer] /\ ~Loop!Superseded(a)
  <2>1. a.id \in Nat /\ a.hdr \in Nat
    BY <1>5, TokenSet DEF Agrees, AgreesIn
  <2>2. timer # None /\ timer.id = a.id /\ timer.hdr = a.hdr
    BY <2>1 DEF Loop!LoopAssumption
  <2> HIDE DEF o, timer
  <2>3. /\ DOMAIN obs' = ObsFields /\ obs'.token = obs.token /\ obs'.timer = timer /\ obs'.active = obs.active
        /\ obs'.asks = obs.asks \ {a}
    BY <1>2, <1>9 DEF ObsFields
  <2>4. Agrees(timer)
    BY <1>5, <2>2 DEF Agrees, AgreesIn
  <2>5. IsFiniteSet(obs'.asks) /\ Cardinality(obs'.asks) <= MaxAsks
    <3>1. IsFiniteSet(obs.asks) /\ Cardinality(obs.asks) <= MaxAsks /\ obs'.asks \in SUBSET obs.asks
      BY <2>3 DEF LoopInv, Observers
    <3>2. IsFiniteSet(obs'.asks) /\ Cardinality(obs'.asks) <= Cardinality(obs.asks)
      BY <3>1, FS_Subset
    <3>3. Cardinality(obs'.asks) \in Nat /\ Cardinality(obs.asks) \in Nat /\ MaxAsks \in Nat
      BY <3>1, <3>2, FS_CardinalityType, TokenSet
    <3> QED BY <3>1, <3>2, <3>3
  <2>6. timer.id = obs.token
    BY <1>9, <2>2 DEF Loop!Superseded
  <2>7. Observers'
    BY <1>9, <2>3, <2>4, <2>5, <2>6 DEF LoopInv, Observers, Agrees, AgreesIn, Loop!Ids
  <2>8. DOMAIN pow' = PowFields
    BY <1>9 DEF LoopInv, OneWorker
  <2> QED BY <1>1, <1>9, <2>2, <2>3, <2>7, <2>8, SitsStill
<1> HIDE DEF o, s, timer
<1>10. \/ Loop!Superseded(a) /\ obs' = o /\ UNCHANGED <<lp, pow, cooling, cursor>>
       \/ ~Loop!Superseded(a) /\ s = "stale" /\ Loop!Invalidate(a, o, "TIP_INVALIDATED")
       \/ ~Loop!Superseded(a) /\ s = "unknown" /\ a.kind = "resume" /\ Loop!Invalidate(a, o, "TIP_FRESHNESS_UNKNOWN")
       \/ /\ ~Loop!Superseded(a) /\ (s = "current" \/ (s = "unknown" /\ a.kind # "resume"))
          /\ obs' = IF a.kind = "poll" THEN [o EXCEPT !.timer = timer] ELSE o
          /\ UNCHANGED <<lp, pow, cooling, cursor>>
  BY DEF Loop!Answer, o, s, timer
<1> QED BY <1>6, <1>7, <1>8, <1>9, <1>10

LEMMA QuietKeeps ==
  ASSUME Loop!LoopAssumption, LoopInv,
         \/ Loop!TipMoves \/ (\E a \in Addresses : Loop!SelectAddress(a)) \/ (\E c \in cooling : Loop!CoolDown(c))
         \/ UNCHANGED Loop!vars
  PROVE  Owed
<1>1. UNCHANGED <<lp, pow, obs>> /\ tip' \in {tip, tip + 1}
  BY DEF Loop!TipMoves, Loop!SelectAddress, Loop!CoolDown, Loop!vars
<1>2. tip' \in Nat /\ DOMAIN pow' = PowFields
  BY <1>1 DEF LoopInv, Activations, OneWorker
<1>3. Observers'
  BY <1>1 DEF LoopInv, Observers, Agrees, AgreesIn, Loop!Ids
<1> QED BY <1>1, <1>2, <1>3, SitsStill

LEMMA WorkerPostsKeeps == ASSUME Loop!LoopAssumption, LoopInv, NEW w \in pow.hashing, Loop!WorkerPosts(w) PROVE Owed
<1>1. UNCHANGED <<lp, obs, tip>> /\ pow' = [pow EXCEPT !.hashing = @ \ {w}, !.posted = @ \cup {w}]
  BY DEF Loop!WorkerPosts
<1>2. /\ DOMAIN pow' = PowFields /\ pow'.worker = pow.worker /\ pow'.reject = pow.reject
      /\ pow'.hashing = pow.hashing \ {w} /\ pow'.posted = pow.posted \cup {w}
  BY <1>1 DEF LoopInv, OneWorker, PowFields
<1>3. tip' \in Nat
  BY <1>1 DEF LoopInv, Activations
<1>4. Observers'
  BY <1>1 DEF LoopInv, Observers, Agrees, AgreesIn, Loop!Ids
<1> QED BY <1>1, <1>2, <1>3, <1>4, SitsStill

LEMMA LoopNext == ASSUME Loop!LoopAssumption, LoopInv, [Loop!Next]_Loop!vars PROVE Owed
<1>1. ASSUME NEW l \in Loops, Loop!Start(l) \/ Loop!Step(l) \/ Loop!WorkerFails(l) PROVE Owed
  <2>1. CASE Loop!Start(l)
    BY <2>1, StartKeeps
  <2>2. CASE Loop!WorkerFails(l)
    BY <2>2, WorkerFailsKeeps
  <2>3. CASE Loop!Step(l)
    BY <2>3, GotTemplateKeeps, RequestFailsKeeps, OnMessageKeeps, AssertFreshKeeps, SubmitBlockGoesOn, RefreshedKeeps,
       GotWorkKeeps, CoordinatorFailsKeeps, ShareAcceptedKeeps DEF Loop!Step
  <2> QED BY <1>1, <2>1, <2>2, <2>3
<1>2. CASE Loop!StopMining
  BY <1>2, StopMiningKeeps
<1>3. CASE \E w \in pow.hashing : Loop!WorkerPosts(w)
  BY <1>3, WorkerPostsKeeps
<1>4. CASE \E a \in obs.asks, lost \in BOOLEAN : Loop!Answer(a, lost)
  BY <1>4, AnswerGoesOn
<1>5. CASE Loop!Poll
  BY <1>5, PollKeeps
<1>6. CASE \E k \in {"hint", "resume"} : Loop!Revalidate(k)
  BY <1>6, RevalidateKeeps
<1>7. CASE \/ Loop!TipMoves \/ (\E a \in Addresses : Loop!SelectAddress(a)) \/ (\E c \in cooling : Loop!CoolDown(c))
           \/ UNCHANGED Loop!vars
  BY <1>7, QuietKeeps
<1> QED BY <1>1, <1>2, <1>3, <1>4, <1>5, <1>6, <1>7 DEF Loop!Next

LEMMA LoopInit == ASSUME Loop!LoopAssumption, Loop!Init PROVE LoopInv
<1>1. DOMAIN lp = Loops /\ tip = 0 /\ \A l \in Loops : lp[l] = Loop!Resting
  BY DEF Loop!Init
<1>2. Activations
  BY <1>1, RestingRests DEF Activations
<1>3. DOMAIN pow = PowFields /\ pow.worker = None /\ pow.reject = None
  BY DEF Loop!Init, PowFields
<1>4. DOMAIN obs = ObsFields /\ obs.token = 0 /\ obs.timer = None /\ obs.active = None /\ obs.asks = {}
  BY DEF Loop!Init, ObsFields
<1>5. IsFiniteSet({}) /\ Cardinality({}) = 0 /\ MaxAsks \in Nat
  BY FS_EmptySet, TokenSet
<1>6. OneWorker /\ Observers /\ Watched
  BY <1>3, <1>4, <1>5 DEF OneWorker, Observers, Watched
<1> QED BY <1>2, <1>6 DEF LoopInv

LEMMA LoopHolds ==
  ASSUME Loop!LoopAssumption PROVE Loop!FairSpec => []LoopInv /\ [][Owed]_Loop!vars
<1>1. Loop!Init => LoopInv
  BY LoopInit
<1>2. LoopInv /\ [Loop!Next]_Loop!vars => Owed /\ LoopInv'
  BY LoopNext DEF Owed
<1> QED BY <1>1, <1>2, PTL DEF Loop!FairSpec

(* However many activations overlap, the worker the page knows of searches  *)
(* for the work its activation waits for, on direct work with an observer   *)
(* that goes on asking, and whoever ends it tells that activation; and what *)
(* any of them offers was found for the header it offers (localPow,         *)
(* startDirectTipObserver): for any chain and any number of requests and    *)
(* messages under way.                                                      *)
THEOREM OverlapIsSafe ==
  ASSUME Loop!LoopAssumption PROVE Loop!FairSpec => [](Loop!WorkIsWatched /\ Loop!OffersItsOwn)
<1>1. LoopInv => Loop!WorkIsWatched
  <2> SUFFICES ASSUME LoopInv, pow.worker # None
               PROVE  /\ Loop!Waiting(pow.worker.of) /\ pow.reject = pow.worker.of /\ pow.worker \in pow.hashing \cup pow.posted
                      /\ pow.worker = [of |-> pow.worker.of, gen |-> lp[pow.worker.of].gen, parent |-> lp[pow.worker.of].hdr]
                      /\ lp[pow.worker.of].pc = "pow" =>
                            /\ lp[pow.worker.of].id = obs.token /\ obs.token # 0
                            /\ \A a \in obs.asks : a.id = obs.token => a.hdr = lp[pow.worker.of].hdr
                            /\ \/ obs.timer # None /\ obs.timer.id = obs.token
                               \/ \E a \in obs.asks : a.id = obs.token /\ a.kind = "poll"
    BY DEF Loop!WorkIsWatched
  <2>1. pow.worker.of \in Loops
    BY DEF LoopInv, OneWorker
  <2>2. lp[pow.worker.of].id = obs.token => \A a \in obs.asks : a.id = obs.token => a.hdr = lp[pow.worker.of].hdr
    BY <2>1 DEF LoopInv, Observers, Agrees, AgreesIn
  <2> QED BY <2>1, <2>2 DEF LoopInv, OneWorker, Watched, Observers
<1>2. LoopInv => Loop!OffersItsOwn
  BY DEF LoopInv, Activations, IsActivation, Loop!OffersItsOwn
<1> QED BY <1>1, <1>2, LoopHolds, PTL

(* Direct work is only given up for a tip that is not its parent, or when   *)
(* the page came back to the front: an answer about other work never        *)
(* cancels it, however many activations overlap (invalidate).               *)
THEOREM OnlyStaleIsCancelled ==
  ASSUME Loop!LoopAssumption PROVE Loop!FairSpec => [][Loop!CancelsOnlyStale]_Loop!vars
<1>1. Owed => Loop!CancelsOnlyStale
  BY DEF Owed
<1> QED BY <1>1, LoopHolds, PTL
-----------------------------------------------------------------------------
(* The miner of the command line and the node it selected.                  *)
CONSTANTS MaxCount, MaxBack, DelayMin, DelayMax, Once
VARIABLES pc, parent, stopping, count, delay, ours, back
Miner == INSTANCE StandaloneMiner

(* Every fall makes room for two more blocks of this miner; nothing else    *)
(* does, so its counters never stop at their bound before the node does.    *)
Awaits == {"status", "template", "hash", "presubmit", "submit", "poll", "sleep", "done"}
MinerInv ==
  /\ pc \in Awaits /\ stopping \in BOOLEAN
  /\ parent \in Nat /\ tip \in Nat /\ ours \in Nat /\ back \in Nat
  /\ parent <= MaxTip /\ tip <= MaxTip /\ back <= MaxBack /\ ours <= tip + 2 * back
  /\ count \in [accepted : 0..MaxCount, rejected : 0..MaxCount, replaced : 0..MaxCount]
  /\ delay \in DelayMin..DelayMax
  /\ Miner!CountersBracket

LEMMA UpKeeps ==
  ASSUME Miner!MinerAssumption, NEW n \in 0..MaxCount
  PROVE  Miner!Up(n) \in 0..MaxCount /\ n <= Miner!Up(n) /\ (n < MaxCount => Miner!Up(n) = n + 1)
         /\ (Miner!Up(n) = n + 1 \/ Miner!Up(n) = MaxCount)
BY DEF Miner!MinerAssumption, Miner!Up

(* What a miner counts when work is replaced or lost.                       *)
Tallies == [accepted : 0..MaxCount, rejected : 0..MaxCount, replaced : 0..MaxCount]
LEMMA RejectedCounts ==
  ASSUME Miner!MinerAssumption, NEW c \in Tallies, c.replaced <= c.rejected
  PROVE  \A d \in {Miner!Rejected(c), Miner!Replaced(c), Miner!LostAnswer(c)} :
           /\ d \in Tallies /\ d.accepted = c.accepted /\ d.rejected = Miner!Up(c.rejected)
           /\ d.replaced <= d.rejected
<1>1. Miner!Up(c.rejected) \in 0..MaxCount /\ c.rejected <= Miner!Up(c.rejected)
  BY UpKeeps DEF Tallies
<1>2. Miner!Up(c.replaced) \in 0..MaxCount /\ Miner!Up(c.replaced) <= Miner!Up(c.rejected)
  BY DEF Tallies, Miner!Up, Miner!MinerAssumption
<1>3. Miner!Rejected(c) \in Tallies /\ Miner!Rejected(c) = [c EXCEPT !.rejected = Miner!Up(c.rejected)]
  BY <1>1 DEF Tallies, Miner!Rejected
<1>4. Miner!Replaced(c) = [c EXCEPT !.rejected = Miner!Up(c.rejected), !.replaced = Miner!Up(c.replaced)]
  BY DEF Tallies, Miner!Rejected, Miner!Replaced
<1>5. Miner!Replaced(c) \in Tallies
  BY <1>1, <1>2, <1>4 DEF Tallies
<1>6. /\ Miner!Rejected(c).accepted = c.accepted /\ Miner!Rejected(c).rejected = Miner!Up(c.rejected)
      /\ Miner!Rejected(c).replaced = c.replaced
  BY <1>3 DEF Tallies
<1>7. /\ Miner!Replaced(c).accepted = c.accepted /\ Miner!Replaced(c).rejected = Miner!Up(c.rejected)
      /\ Miner!Replaced(c).replaced = Miner!Up(c.replaced)
  BY <1>4 DEF Tallies
<1>8. c.replaced <= Miner!Up(c.rejected)
  BY <1>1 DEF Tallies
<1> QED BY <1>2, <1>3, <1>5, <1>6, <1>7, <1>8 DEF Miner!LostAnswer

LEMMA MinerInit == ASSUME Miner!MinerAssumption, Miner!Init PROVE MinerInv
<1>1. count \in [accepted : 0..MaxCount, rejected : 0..MaxCount, replaced : 0..MaxCount]
  BY DEF Miner!MinerAssumption, Miner!Init
<1>2. Miner!CountersBracket
  BY DEF Miner!Init, Miner!CountersBracket
<1>3. {MaxTip, MaxCount, MaxBack, DelayMin, DelayMax} \subseteq Nat /\ DelayMin \in DelayMin..DelayMax
  BY DEF Miner!MinerAssumption
<1>4. delay \in DelayMin..DelayMax /\ 0 <= MaxTip /\ 0 <= MaxBack
  BY <1>3 DEF Miner!Init
<1>5. /\ pc \in Awaits /\ stopping \in BOOLEAN
      /\ parent = 0 /\ tip = 0 /\ ours = 0 /\ back = 0
  BY DEF Miner!Init, Awaits
<1> QED BY <1>1, <1>2, <1>4, <1>5 DEF MinerInv

(* The node takes a block, or not; its count of them stays within the bound.*)
LEMMA NodeTakesOne ==
  ASSUME Miner!MinerAssumption, MinerInv, Miner!NodeTakes \/ UNCHANGED Miner!env
  PROVE  /\ tip' \in Nat /\ ours' \in Nat /\ back' = back /\ tip' <= MaxTip /\ ours' <= tip' + 2 * back
         /\ ours' \in 0..MaxCount /\ (ours' = ours \/ (Miner!Takes /\ ours' = ours + 1))
BY DEF MinerInv, Miner!MinerAssumption, Miner!NodeTakes, Miner!Takes, Miner!env

LEMMA MinerNext ==
  ASSUME Miner!MinerAssumption, MinerInv, [Miner!Next]_Miner!vars
  PROVE  MinerInv'
<1> USE DEF Miner!CountersBracket
<1>0. count \in Tallies /\ count.replaced <= count.rejected
  BY DEF MinerInv, Tallies
<1>a. /\ Miner!LoopHead \in Awaits /\ Miner!StillHashing \in Awaits /\ Miner!Retry \in Awaits
  BY DEF Miner!LoopHead, Miner!StillHashing, Miner!Retry, Awaits
<1>b. /\ Miner!Rejected(count) \in Tallies /\ Miner!Rejected(count).accepted = count.accepted
      /\ Miner!Rejected(count).replaced <= Miner!Rejected(count).rejected
      /\ Miner!Rejected(count).rejected = Miner!Up(count.rejected)
  BY <1>0, RejectedCounts
<1>c. /\ Miner!Replaced(count) \in Tallies /\ Miner!Replaced(count).accepted = count.accepted
      /\ Miner!Replaced(count).replaced <= Miner!Replaced(count).rejected
      /\ Miner!Replaced(count).rejected = Miner!Up(count.rejected)
  BY <1>0, RejectedCounts
<1>d. Miner!LostAnswer(count) = Miner!Rejected(count)
  BY DEF Miner!LostAnswer
<1>e. /\ Miner!Up(count.rejected) \in 0..MaxCount /\ count.rejected <= Miner!Up(count.rejected)
      /\ Miner!Up(count.rejected) = count.rejected + 1 \/ Miner!Up(count.rejected) = MaxCount
  BY <1>0, UpKeeps DEF Tallies
<1>f. count.accepted \in 0..MaxCount /\ count.rejected \in 0..MaxCount
  BY <1>0 DEF Tallies
<1>g. ours \in 0..MaxCount
  BY DEF MinerInv, Miner!MinerAssumption
<1> HIDE DEF Miner!CountersBracket
<1>1. ASSUME count' = count \/ count' = Miner!Rejected(count) \/ count' = Miner!Replaced(count),
             UNCHANGED Miner!env, pc' \in Awaits, stopping' \in BOOLEAN, parent' = parent \/ parent' = tip,
             delay' \in DelayMin..DelayMax
      PROVE  MinerInv'
  <2>1. Miner!CountersBracket'
    BY <1>1, <1>b, <1>c, <1>e, <1>f, <1>g DEF MinerInv, Miner!CountersBracket, Miner!env, Tallies
  <2> QED BY <1>1, <1>0, <1>b, <1>c, <2>1 DEF MinerInv, Miner!env, Tallies
<1>2. CASE UNCHANGED Miner!vars
  BY <1>1, <1>2 DEF MinerInv, Miner!vars, Miner!env
<1>3. CASE Miner!Connect \/ Miner!GetTemplate \/ Miner!MineChunk \/ Miner!PreSubmit \/ Miner!PollTip \/ Miner!HttpRefusal \/ Miner!Abort
  <2>1. DelayMin \in DelayMin..DelayMax
    BY DEF Miner!MinerAssumption
  <2> QED BY <1>1, <1>3, <1>a, <2>1 DEF MinerInv, Awaits, Miner!Connect, Miner!GetTemplate, Miner!MineChunk,
           Miner!PreSubmit, Miner!PollTip, Miner!HttpRefusal, Miner!Abort, Miner!env
<1>4. CASE Miner!Sleep
  <2>1. delay' \in DelayMin..DelayMax
    BY <1>4 DEF Miner!Sleep, MinerInv, Miner!MinerAssumption
  <2> QED BY <1>1, <1>4, <1>a, <2>1 DEF MinerInv, Miner!Sleep, Miner!env
<1>5. CASE Miner!Submit
  <2>1. /\ tip' \in Nat /\ ours' \in Nat /\ back' = back /\ tip' <= MaxTip /\ ours' <= tip' + 2 * back
        /\ ours' \in 0..MaxCount
    BY <1>5, NodeTakesOne DEF Miner!Submit
  <2>2. Miner!CountersBracket' /\ count' \in Tallies
    <3>1. CASE Miner!Takes /\ count' = [count EXCEPT !.accepted = Miner!Up(@)]
      <4>1. ours' = ours + 1
        BY <1>5, <3>1 DEF Miner!Submit, Miner!NodeTakes
      <4>2. Miner!Up(count.accepted) = count.accepted + 1 /\ count.accepted + 1 \in 0..MaxCount
        BY <2>1, <4>1, <1>f, <1>g DEF MinerInv, Miner!CountersBracket, Miner!Up, Miner!MinerAssumption
      <4>3. /\ count' \in Tallies /\ count'.accepted = count.accepted + 1
            /\ count'.rejected = count.rejected /\ count'.replaced = count.replaced
        BY <1>0, <3>1, <4>2 DEF Tallies
      <4> QED BY <4>1, <4>3, <1>f, <1>g DEF MinerInv, Miner!CountersBracket
    <3>2. CASE ~Miner!Takes /\ (count' = Miner!Replaced(count) \/ count' = Miner!Rejected(count))
      <4>1. ours' = ours
        BY <1>5, <3>2 DEF Miner!Submit, Miner!NodeTakes, Miner!env
      <4> QED BY <3>2, <4>1, <1>b, <1>c, <1>e, <1>f, <1>g DEF MinerInv, Miner!CountersBracket, Tallies
    <3> QED BY <1>5, <3>1, <3>2 DEF Miner!Submit
  <2>3. pc' \in Awaits /\ parent' = parent /\ stopping' = stopping /\ delay' = delay
    BY <1>5, <1>a DEF Miner!Submit, Awaits
  <2> QED BY <2>1, <2>2, <2>3 DEF MinerInv, Tallies
<1>6. CASE Miner!NodeUnavailable
  <2>1. CASE pc # "submit"
    <3>1. UNCHANGED <<count, Miner!env>>
      BY <1>6, <2>1 DEF Miner!NodeUnavailable
    <3> QED BY <1>1, <1>6, <1>a, <3>1 DEF MinerInv, Miner!NodeUnavailable
  <2>2. CASE pc = "submit"
    <3>1. /\ tip' \in Nat /\ ours' \in Nat /\ back' = back /\ tip' <= MaxTip /\ ours' <= tip' + 2 * back
          /\ ours' \in 0..MaxCount /\ (ours' = ours \/ ours' = ours + 1)
      BY <1>6, <2>2, NodeTakesOne DEF Miner!NodeUnavailable
    <3>2. count' = Miner!Rejected(count)
      BY <1>6, <2>2, <1>d DEF Miner!NodeUnavailable
    <3>3. Miner!CountersBracket' /\ count' \in Tallies
      BY <3>1, <3>2, <1>b, <1>e, <1>f, <1>g DEF MinerInv, Miner!CountersBracket, Tallies
    <3>4. pc' \in Awaits /\ parent' = parent /\ stopping' = stopping /\ delay' = delay
      BY <1>6, <1>a DEF Miner!NodeUnavailable
    <3> QED BY <3>1, <3>3, <3>4 DEF MinerInv, Tallies
  <2> QED BY <2>1, <2>2
<1>7. CASE Miner!TipMoves \/ Miner!FallsBack
  <2>1. tip' \in Nat /\ tip' <= MaxTip /\ back' \in Nat /\ back' <= MaxBack /\ ours <= tip' + 2 * back'
    BY <1>7 DEF MinerInv, Miner!TipMoves, Miner!FallsBack, Miner!MinerAssumption
  <2>2. UNCHANGED <<pc, parent, stopping, count, delay, ours>>
    BY <1>7 DEF Miner!TipMoves, Miner!FallsBack
  <2> QED BY <2>1, <2>2 DEF MinerInv, Miner!CountersBracket
<1> QED BY <1>2, <1>3, <1>4, <1>5, <1>6, <1>7 DEF Miner!Next, Miner!Round

(* What a miner reports brackets what its node did, although an answer to a *)
(* block may be lost and the node may come back with an older chain.        *)
THEOREM MinerReports == ASSUME Miner!MinerAssumption PROVE Miner!Spec => [](Miner!TypeOK /\ Miner!CountersBracket)
<1>1. MinerInv => Miner!TypeOK /\ Miner!CountersBracket
  <2> SUFFICES ASSUME MinerInv PROVE Miner!TypeOK /\ Miner!CountersBracket
    OBVIOUS
  <2>1. \A f \in DOMAIN count : count[f] \in 0..MaxCount
    BY DEF MinerInv
  <2> QED BY <2>1 DEF MinerInv, Awaits, Miner!TypeOK, Miner!MinerAssumption
<1>2. MinerInv /\ [Miner!Next]_Miner!vars => MinerInv'
  BY MinerNext
<1> QED BY <1>1, <1>2, MinerInit, PTL DEF Miner!Spec

(* The evidence of devices (EvidencePortfolio).                             *)
CONSTANTS Captures, Exports, Posted, Required, Cycled, MinReps, MinIsa, MinForms, MaxRatio, MaxImports, MaxFailures
VARIABLES staging, bundle, job, report, aborted, imports, failures
Evidence == INSTANCE EvidencePortfolio WITH faults <- failures, MaxFaults <- MaxFailures

Dirs == {"none", "part", "sealed", "changed", "lost"}
Turns == {"clear", "stage", "collect", "seal", "verify", "judge"}
Task == [list : Seq(Captures), i : Nat, at : Turns, passed : SUBSET Captures, since : Nat]
(* None is neither a job nor a verdict.                                     *)
NoneIsApart == None \notin Task /\ None # "SUPPORTED"

(* What a process that works on a list of captures has, and what it has     *)
(* found so far.                                                            *)
Busy(r) == job[r] # None
Now(r) == job[r].list[job[r].i]
Working(r) ==
  job[r] \in Task /\ job[r].since <= failures /\ (job[r].at # "judge" => job[r].i \in DOMAIN job[r].list)
Ready(r) ==
  /\ job[r].at = "stage" => staging[r][Now(r)] = "none" /\ bundle[r][Now(r)] = "none"
  /\ job[r].at = "collect" => bundle[r][Now(r)] = "none"
  /\ job[r].at \in {"collect", "seal", "verify"} => Now(r).stages
  /\ job[r].at \in {"seal", "verify"} => Now(r).collects
  /\ job[r].at = "verify" /\ job[r].since = failures => bundle[r][Now(r)] = "sealed"
Fit(c) == c.stages /\ c.collects
(* The captures that passed are sealed, but for the one that is made again. *)
InHand(c) == Busy("import") /\ job["import"].at \in {"stage", "collect", "seal"} /\ c = Now("import")
Sealed(c) == bundle["import"][c] = "sealed" \/ InHand(c)
Found ==
  Busy("import") =>
    /\ \A c \in job["import"].passed : Fit(c)
    /\ job["import"].since = failures => \A c \in job["import"].passed : Sealed(c)
Told ==
  report # None =>
    /\ report.passed \subseteq Captures /\ report.since \in Nat /\ report.since <= failures
    /\ Busy("import") => report.since <= job["import"].since
    /\ \A c \in report.passed : Fit(c)
    /\ report.since = failures => \A c \in report.passed : Sealed(c)
DirsTyped ==
  /\ staging \in [Evidence!Roots -> [Captures -> {"none", "part", "whole"}]]
  /\ bundle \in [Evidence!Roots -> [Captures -> Dirs]]
  /\ DOMAIN job = Evidence!Roots /\ failures \in Nat /\ imports \in Nat
BadOnly == \A c \in aborted : ~c.stages \/ ~c.collects
EvInv ==
  /\ DirsTyped /\ BadOnly /\ Found /\ Told
  /\ \A r \in Evidence!Roots : Busy(r) => Working(r) /\ Ready(r)
Root(r) == Busy(r) => Working(r) /\ Ready(r)

LEMMA StagingTyped ==
  ASSUME DirsTyped, NEW r \in Evidence!Roots, Now(r) \in Captures, NEW dir \in {"none", "part", "whole"},
         staging' = Evidence!Put(staging, r, dir)
  PROVE  /\ staging' \in [Evidence!Roots -> [Captures -> {"none", "part", "whole"}]] /\ staging'[r][Now(r)] = dir
         /\ \A q \in Evidence!Roots : q # r => staging'[q] = staging[q]
<1>1. staging \in [Evidence!Roots -> [Captures -> {"none", "part", "whole"}]]
  BY DEF DirsTyped
<1> QED BY <1>1 DEF Evidence!Put, Evidence!Capture, Now

LEMMA BundleTyped ==
  ASSUME DirsTyped, NEW r \in Evidence!Roots, Now(r) \in Captures, NEW dir \in Dirs,
         bundle' = Evidence!Put(bundle, r, dir)
  PROVE  /\ bundle' \in [Evidence!Roots -> [Captures -> Dirs]] /\ bundle'[r][Now(r)] = dir
         /\ \A q \in Evidence!Roots : q # r => bundle'[q] = bundle[q]
         /\ \A x \in Captures : x # Now(r) => bundle'[r][x] = bundle[r][x]
<1>1. bundle \in [Evidence!Roots -> [Captures -> Dirs]]
  BY DEF DirsTyped
<1> QED BY <1>1 DEF Evidence!Put, Evidence!Capture, Now

LEMMA NowIs ==
  ASSUME NEW r \in Evidence!Roots, Working(r), job[r].at # "judge"
  PROVE  Now(r) \in Captures
<1>1. job[r].list \in Seq(Captures) /\ job[r].i \in DOMAIN job[r].list
  BY DEF Working, Task
<1>2. PICK s, i : s = job[r].list /\ i = job[r].i
  OBVIOUS
<1>3. s \in Seq(Captures) /\ i \in 1..Len(s)
  BY <1>1, <1>2
<1>4. s[i] \in Captures
  BY <1>3, ElementOfSeq
<1> QED BY <1>2, <1>4 DEF Now

(* A process that goes on has what it had.                                  *)
LEMMA Steady ==
  ASSUME DirsTyped, NEW r \in Evidence!Roots, job[r] \in Task, NEW step \in Turns, job' = [job EXCEPT ![r].at = step]
  PROVE  /\ DOMAIN job' = Evidence!Roots /\ \A q \in Evidence!Roots : q # r => job'[q] = job[q]
         /\ job'[r] \in Task /\ job'[r].at = step /\ job'[r].list = job[r].list /\ job'[r].i = job[r].i
         /\ job'[r].passed = job[r].passed /\ job'[r].since = job[r].since
<1>1. PICK k : k = [job[r] EXCEPT !.at = step]
  OBVIOUS
<1>2. job' = [job EXCEPT ![r] = k]
  BY <1>1
<1>3. DOMAIN job = Evidence!Roots
  BY DEF DirsTyped
<1>4. k \in Task /\ k.at = step /\ k.list = job[r].list /\ k.i = job[r].i /\ k.passed = job[r].passed /\ k.since = job[r].since
  BY <1>1 DEF Task
<1>5. DOMAIN job' = Evidence!Roots /\ job'[r] = k /\ \A q \in Evidence!Roots : q # r => job'[q] = job[q]
  BY <1>2, <1>3
<1> QED BY <1>4, <1>5

(* What a step of one process leaves to the other.                          *)
Others(r) ==
  \A q \in Evidence!Roots : q # r => job'[q] = job[q] /\ staging'[q] = staging[q] /\ bundle'[q] = bundle[q]

LEMMA OthersStay ==
  ASSUME EvInv, NEW r \in Evidence!Roots, Others(r), failures' = failures, NEW q \in Evidence!Roots, q # r
  PROVE  Root(q)'
<1>1. job'[q] = job[q] /\ staging'[q] = staging[q] /\ bundle'[q] = bundle[q] /\ Root(q)
  BY DEF Others, EvInv, Root
<1>2. Busy(q)' <=> Busy(q)
  BY <1>1 DEF Busy
<1>3. Working(q) => Working(q)'
  BY <1>1 DEF Working
<1>4. Ready(q) => Ready(q)'
  BY <1>1 DEF Ready, Now
<1> QED BY <1>1, <1>2, <1>3, <1>4 DEF Root

LEMMA AgentAlone ==
  ASSUME EvInv, Others("agent"), failures' = failures, report' = report
  PROVE  Found' /\ Told'
<1>1. "import" \in Evidence!Roots /\ "import" # "agent"
  BY DEF Evidence!Roots
<1>2. job'["import"] = job["import"] /\ bundle'["import"] = bundle["import"]
  BY <1>1 DEF Others
<1>3. Busy("import")' <=> Busy("import")
  BY <1>2 DEF Busy
<1>4. \A c : Sealed(c)' <=> Sealed(c)
  BY <1>2, <1>3 DEF Sealed, InHand, Now
<1>5. Found'
  BY <1>2, <1>3, <1>4, Zenon DEF Found, EvInv
<1>6. Told'
  BY <1>2, <1>3, <1>4, Zenon DEF Told, EvInv
<1> QED BY <1>5, <1>6

(* A step of an import that works on a capture and touches no other: it     *)
(* goes on, and has the capture in hand or sealed, or ends with an error.   *)
Goes(r, c) ==
  /\ job'[r] \in Task /\ job'[r].list = job[r].list /\ job'[r].i = job[r].i
  /\ job'[r].passed = job[r].passed /\ job'[r].since = job[r].since
  /\ bundle'[r][c] = "sealed" \/ job'[r].at \in {"stage", "collect", "seal"}
Touched(r, c) == c = Now(r) /\ \A x \in Captures : x # c => bundle'[r][x] = bundle[r][x]

LEMMA Worked ==
  ASSUME NoneIsApart, EvInv, NEW r \in Evidence!Roots, Busy(r), Others(r), failures' = failures, report' = report,
         NEW c, Touched(r, c), Goes(r, c) \/ (job'[r] = None /\ ~Fit(c))
  PROVE  Found' /\ Told'
<1>1. CASE r = "agent"
  BY <1>1, AgentAlone
<1>2. CASE r = "import"
  <2>1. \A x \in Captures : x # c /\ Sealed(x) => bundle'["import"][x] = "sealed"
    BY <1>2 DEF Sealed, InHand, Touched
  <2>2. \A x : bundle'["import"][x] = "sealed" => Sealed(x)'
    BY DEF Sealed
  <2>3. Root("import") /\ Found /\ Told
    BY <1>2 DEF EvInv, Root
  <2>4. job["import"] \in Task
    BY <1>2, <2>3 DEF Root, Working
  <2>5. CASE Goes(r, c)
    <3>1. Busy("import")'
      BY <1>2, <2>5 DEF Goes, Busy, NoneIsApart
    <3>2. Now("import")' = c
      BY <1>2, <2>5 DEF Goes, Now, Touched
    <3>3. Sealed(c)'
      BY <1>2, <2>5, <3>1, <3>2 DEF Goes, Sealed, InHand
    <3>4. \A x \in Captures : Sealed(x) => Sealed(x)'
      BY <2>1, <2>2, <3>3
    <3>5. /\ job'["import"].passed = job["import"].passed /\ job'["import"].since = job["import"].since
          /\ job["import"].passed \subseteq Captures
      BY <1>2, <2>4, <2>5 DEF Goes, Task
    <3>6. Found'
      BY <1>2, <2>3, <3>4, <3>5 DEF Found
    <3>7. Told'
      BY <1>2, <2>3, <3>4, <3>5 DEF Told
    <3> QED BY <3>6, <3>7
  <2>6. CASE job'[r] = None /\ ~Fit(c)
    <3>1. ~Busy("import")'
      BY <1>2, <2>6 DEF Busy
    <3>2. Found'
      BY <3>1 DEF Found
    <3>3. \A x \in Captures : Fit(x) /\ Sealed(x) => Sealed(x)'
      BY <2>1, <2>2, <2>6
    <3>4. Told'
      BY <2>3, <3>1, <3>3 DEF Told
    <3> QED BY <3>2, <3>4
  <2> QED BY <2>5, <2>6
<1> QED BY <1>1, <1>2 DEF Evidence!Roots

(* The state stays good when a step of a process leaves the other alone.    *)
LEMMA Assembled ==
  ASSUME EvInv, NEW r \in Evidence!Roots, Others(r), failures' = failures, Root(r)', Found', Told', DirsTyped', BadOnly'
  PROVE  EvInv'
<1>1. \A q \in Evidence!Roots : Root(q)'
  BY OthersStay
<1> QED BY <1>1 DEF EvInv, Root

LEMMA RootFacts ==
  ASSUME EvInv, NEW r \in Evidence!Roots, Busy(r)
  PROVE  Working(r) /\ Ready(r) /\ job[r] \in Task /\ DirsTyped /\ BadOnly /\ Found /\ Told
BY DEF EvInv, Working

LEMMA ClearKeeps ==
  ASSUME NoneIsApart, EvInv, NEW r \in Evidence!Roots, Evidence!Clear(r)
  PROVE  EvInv'
<1>1. /\ Busy(r) /\ job[r].at = "clear" /\ staging' = Evidence!Put(staging, r, "none")
      /\ bundle' = Evidence!Put(bundle, r, "none") /\ job' = [job EXCEPT ![r].at = "stage"] /\ aborted' = aborted
      /\ report' = report /\ imports' = imports /\ failures' = failures
  BY DEF Evidence!Clear, Evidence!At, Evidence!GoOn, Busy
<1>2. Working(r) /\ Ready(r) /\ job[r] \in Task /\ DirsTyped /\ BadOnly
  BY <1>1, RootFacts
<1>3. Now(r) \in Captures
  BY <1>1, <1>2, NowIs
<1>4. /\ staging' \in [Evidence!Roots -> [Captures -> {"none", "part", "whole"}]] /\ staging'[r][Now(r)] = "none"
      /\ \A q \in Evidence!Roots : q # r => staging'[q] = staging[q]
  <2>1. "none" \in {"none", "part", "whole"}
    OBVIOUS
  <2> QED BY <1>1, <1>2, <1>3, <2>1, StagingTyped, Zenon
<1>5. /\ bundle' \in [Evidence!Roots -> [Captures -> Dirs]] /\ bundle'[r][Now(r)] = "none"
      /\ \A q \in Evidence!Roots : q # r => bundle'[q] = bundle[q]
      /\ \A x \in Captures : x # Now(r) => bundle'[r][x] = bundle[r][x]
  <2>1. "none" \in Dirs
    BY DEF Dirs
  <2> QED BY <1>1, <1>2, <1>3, <2>1, BundleTyped, Zenon
<1>6. /\ DOMAIN job' = Evidence!Roots /\ \A q \in Evidence!Roots : q # r => job'[q] = job[q]
      /\ job'[r] \in Task /\ job'[r].at = "stage" /\ job'[r].list = job[r].list /\ job'[r].i = job[r].i
      /\ job'[r].passed = job[r].passed /\ job'[r].since = job[r].since
  <2>1. "stage" \in Turns
    BY DEF Turns
  <2> QED BY <1>1, <1>2, <2>1, Steady
<1>7. Others(r)
  BY <1>4, <1>5, <1>6 DEF Others
<1>8. DirsTyped'
  BY <1>1, <1>2, <1>4, <1>5, <1>6 DEF DirsTyped
<1>9. BadOnly'
  BY <1>1, <1>2 DEF BadOnly
<1>10. PICK c : c = Now(r)
  OBVIOUS
<1>11. Touched(r, c) /\ Goes(r, c)
  BY <1>5, <1>6, <1>10 DEF Touched, Goes
<1>12. Found' /\ Told'
  BY <1>1, <1>7, <1>11, Worked
<1>13. Root(r)'
  <2>1. Now(r)' = Now(r)
    BY <1>6 DEF Now
  <2>2. Working(r)'
    BY <1>1, <1>2, <1>6 DEF Working
  <2>3. Ready(r)'
    BY <1>4, <1>5, <1>6, <2>1 DEF Ready
  <2> QED BY <2>2, <2>3 DEF Root
<1> QED BY <1>1, <1>7, <1>8, <1>9, <1>12, <1>13, Assembled

(* A process that goes on to another step, or ends with an error that only  *)
(* a capture that cannot be packaged gives it.                              *)
LEMMA GoesOn ==
  ASSUME NoneIsApart, EvInv, NEW r \in Evidence!Roots, Busy(r), job[r].at # "judge",
         failures' = failures, imports' = imports, report' = report, aborted' = aborted,
         staging' \in [Evidence!Roots -> [Captures -> {"none", "part", "whole"}]],
         \A q \in Evidence!Roots : q # r => staging'[q] = staging[q],
         bundle' \in [Evidence!Roots -> [Captures -> Dirs]],
         \A q \in Evidence!Roots : q # r => bundle'[q] = bundle[q],
         \A x \in Captures : x # Now(r) => bundle'[r][x] = bundle[r][x],
         NEW step \in {"collect", "seal", "verify"}, job' = [job EXCEPT ![r].at = step],
         step = "collect" => bundle'[r][Now(r)] = "none",
         Now(r).stages, step # "collect" => Now(r).collects, step = "verify" => bundle'[r][Now(r)] = "sealed"
  PROVE  EvInv'
<1>2. Working(r) /\ Ready(r) /\ job[r] \in Task /\ DirsTyped /\ BadOnly
  BY RootFacts
<1>6. /\ DOMAIN job' = Evidence!Roots /\ \A q \in Evidence!Roots : q # r => job'[q] = job[q]
      /\ job'[r] \in Task /\ job'[r].at = step /\ job'[r].list = job[r].list /\ job'[r].i = job[r].i
      /\ job'[r].passed = job[r].passed /\ job'[r].since = job[r].since
  <2>1. step \in Turns
    BY DEF Turns
  <2> QED BY <1>2, <2>1, Steady
<1>7. Others(r)
  BY <1>6 DEF Others
<1>8. DirsTyped'
  BY <1>2, <1>6 DEF DirsTyped
<1>9. BadOnly'
  BY <1>2 DEF BadOnly
<1>10. PICK c : c = Now(r)
  OBVIOUS
<1>11. Touched(r, c) /\ Goes(r, c)
  BY <1>6, <1>10 DEF Touched, Goes
<1>12. Found' /\ Told'
  BY <1>7, <1>11, Worked
<1>13. Root(r)'
  <2>1. Now(r)' = Now(r)
    BY <1>6 DEF Now
  <2>2. Working(r)'
    BY <1>2, <1>6 DEF Working
  <2>3. Ready(r)'
    BY <1>6, <2>1 DEF Ready
  <2> QED BY <2>2, <2>3 DEF Root
<1> QED BY <1>7, <1>8, <1>9, <1>12, <1>13, Assembled

LEMMA EndsWithError ==
  ASSUME NoneIsApart, EvInv, NEW r \in Evidence!Roots, Busy(r), job[r].at # "judge",
         failures' = failures, imports' = imports, report' = report,
         staging' \in [Evidence!Roots -> [Captures -> {"none", "part", "whole"}]],
         \A q \in Evidence!Roots : q # r => staging'[q] = staging[q],
         bundle' \in [Evidence!Roots -> [Captures -> Dirs]],
         \A q \in Evidence!Roots : q # r => bundle'[q] = bundle[q],
         \A x \in Captures : x # Now(r) => bundle'[r][x] = bundle[r][x],
         Evidence!Abort(r), ~(Now(r).stages /\ Now(r).collects)
  PROVE  EvInv'
<1>2. Working(r) /\ Ready(r) /\ job[r] \in Task /\ DirsTyped /\ BadOnly
  BY RootFacts
<1>3. job' = [job EXCEPT ![r] = None] /\ aborted' = aborted \cup {Now(r)}
  BY DEF Evidence!Abort, Evidence!Capture, Now
<1>6. DOMAIN job' = Evidence!Roots /\ job'[r] = None /\ \A q \in Evidence!Roots : q # r => job'[q] = job[q]
  BY <1>2, <1>3 DEF DirsTyped
<1>7. Others(r)
  BY <1>6 DEF Others
<1>8. DirsTyped'
  BY <1>2, <1>6 DEF DirsTyped
<1>9. BadOnly'
  BY <1>2, <1>3 DEF BadOnly
<1>10. PICK c : c = Now(r)
  OBVIOUS
<1>11. Touched(r, c) /\ job'[r] = None /\ ~Fit(c)
  BY <1>6, <1>10 DEF Touched, Fit
<1>12. Found' /\ Told'
  BY <1>7, <1>11, Worked
<1>13. Root(r)'
  BY <1>6 DEF Root, Busy
<1> QED BY <1>7, <1>8, <1>9, <1>12, <1>13, Assembled

LEMMA StageKeeps ==
  ASSUME NoneIsApart, EvInv, NEW r \in Evidence!Roots, Evidence!Stage(r)
  PROVE  EvInv'
<1> DEFINE c == Now(r)
<1>1. /\ Busy(r) /\ job[r].at = "stage" /\ job[r].at # "judge" /\ bundle' = bundle
      /\ report' = report /\ imports' = imports /\ failures' = failures
  BY DEF Evidence!Stage, Evidence!At, Busy
<1>2. Working(r) /\ Ready(r) /\ DirsTyped
  BY <1>1, RootFacts
<1>3. c \in Captures /\ staging[r][c] = "none" /\ bundle[r][c] = "none" /\ c = Evidence!Capture(r)
  BY <1>1, <1>2, NowIs DEF Ready, Evidence!Capture, Now
<1>4. /\ bundle' \in [Evidence!Roots -> [Captures -> Dirs]] /\ bundle'[r][c] = "none"
      /\ \A q \in Evidence!Roots : q # r => bundle'[q] = bundle[q]
      /\ \A x \in Captures : x # c => bundle'[r][x] = bundle[r][x]
  BY <1>1, <1>2, <1>3 DEF DirsTyped
<1>5. CASE c.stages
  <2>1. job' = [job EXCEPT ![r].at = "collect"] /\ aborted' = aborted /\ staging' = Evidence!Put(staging, r, "whole")
    BY <1>3, <1>5, Zenon DEF Evidence!Stage, Evidence!GoOn
  <2>2. "whole" \in {"none", "part", "whole"}
    OBVIOUS
  <2>3. /\ staging' \in [Evidence!Roots -> [Captures -> {"none", "part", "whole"}]]
        /\ \A q \in Evidence!Roots : q # r => staging'[q] = staging[q]
    BY <1>2, <1>3, <2>1, <2>2, StagingTyped, Zenon
  <2>4. "collect" \in {"collect", "seal", "verify"} /\ "collect" # "verify"
    OBVIOUS
  <2> QED BY <1>1, <1>4, <1>5, <2>1, <2>3, <2>4, GoesOn
<1>6. CASE ~c.stages
  <2>1. PICK dir \in {"none", "part"} : Evidence!Abort(r) /\ staging' = Evidence!Put(staging, r, dir)
    BY <1>3, <1>6, Zenon DEF Evidence!Stage
  <2>2. dir \in {"none", "part", "whole"}
    OBVIOUS
  <2>3. /\ staging' \in [Evidence!Roots -> [Captures -> {"none", "part", "whole"}]]
        /\ \A q \in Evidence!Roots : q # r => staging'[q] = staging[q]
    BY <1>2, <1>3, <2>1, <2>2, StagingTyped, Zenon
  <2> QED BY <1>1, <1>4, <1>6, <2>1, <2>3, EndsWithError
<1> QED BY <1>5, <1>6

LEMMA CollectKeeps ==
  ASSUME NoneIsApart, EvInv, NEW r \in Evidence!Roots, Evidence!Collect(r)
  PROVE  EvInv'
<1> DEFINE c == Now(r)
<1>1. /\ Busy(r) /\ job[r].at = "collect" /\ job[r].at # "judge" /\ staging' = staging
      /\ report' = report /\ imports' = imports /\ failures' = failures
  BY DEF Evidence!Collect, Evidence!At, Busy
<1>2. Working(r) /\ Ready(r) /\ DirsTyped
  BY <1>1, RootFacts
<1>3. c \in Captures /\ bundle[r][c] = "none" /\ c = Evidence!Capture(r) /\ c.stages
  BY <1>1, <1>2, NowIs DEF Ready, Evidence!Capture, Now
<1>4. /\ staging' \in [Evidence!Roots -> [Captures -> {"none", "part", "whole"}]]
      /\ \A q \in Evidence!Roots : q # r => staging'[q] = staging[q]
  BY <1>1, <1>2 DEF DirsTyped
<1>5. bundle' = Evidence!Put(bundle, r, "part")
  BY <1>3, Zenon DEF Evidence!Collect
<1>6. "part" \in Dirs
  BY DEF Dirs
<1>7. /\ bundle' \in [Evidence!Roots -> [Captures -> Dirs]] /\ bundle'[r][c] = "part"
      /\ \A q \in Evidence!Roots : q # r => bundle'[q] = bundle[q]
      /\ \A x \in Captures : x # c => bundle'[r][x] = bundle[r][x]
  BY <1>2, <1>3, <1>5, <1>6, BundleTyped, Zenon
<1>8. CASE c.collects
  <2>1. job' = [job EXCEPT ![r].at = "seal"] /\ aborted' = aborted
    BY <1>3, <1>8, Zenon DEF Evidence!Collect, Evidence!GoOn
  <2>2. "seal" \in {"collect", "seal", "verify"} /\ "seal" # "verify" /\ "seal" # "collect"
    OBVIOUS
  <2> QED BY <1>1, <1>3, <1>4, <1>7, <1>8, <2>1, <2>2, GoesOn
<1>9. CASE ~c.collects
  <2>1. Evidence!Abort(r)
    BY <1>3, <1>9, Zenon DEF Evidence!Collect
  <2> QED BY <1>1, <1>4, <1>7, <1>9, <2>1, EndsWithError
<1> QED BY <1>8, <1>9

LEMMA SealKeeps ==
  ASSUME NoneIsApart, EvInv, NEW r \in Evidence!Roots, Evidence!Seal(r)
  PROVE  EvInv'
<1> DEFINE c == Now(r)
<1>1. /\ Busy(r) /\ job[r].at = "seal" /\ job[r].at # "judge" /\ staging' = staging
      /\ report' = report /\ imports' = imports /\ failures' = failures
      /\ bundle' = Evidence!Put(bundle, r, "sealed") /\ job' = [job EXCEPT ![r].at = "verify"] /\ aborted' = aborted
  BY DEF Evidence!Seal, Evidence!At, Evidence!GoOn, Busy
<1>2. Working(r) /\ Ready(r) /\ DirsTyped
  BY <1>1, RootFacts
<1>3. c \in Captures /\ c.stages /\ c.collects
  BY <1>1, <1>2, NowIs DEF Ready
<1>4. /\ staging' \in [Evidence!Roots -> [Captures -> {"none", "part", "whole"}]]
      /\ \A q \in Evidence!Roots : q # r => staging'[q] = staging[q]
  BY <1>1, <1>2 DEF DirsTyped
<1>5. "sealed" \in Dirs
  BY DEF Dirs
<1>6. /\ bundle' \in [Evidence!Roots -> [Captures -> Dirs]] /\ bundle'[r][c] = "sealed"
      /\ \A q \in Evidence!Roots : q # r => bundle'[q] = bundle[q]
      /\ \A x \in Captures : x # c => bundle'[r][x] = bundle[r][x]
  BY <1>1, <1>2, <1>3, <1>5, BundleTyped, Zenon
<1>7. "verify" \in {"collect", "seal", "verify"} /\ "verify" # "collect"
  OBVIOUS
<1> QED BY <1>1, <1>3, <1>4, <1>6, <1>7, GoesOn

(* What passes the verifier has been sealed and not touched since; whatever *)
(* is wrong with a capture is of one of five kinds.                         *)
Flaws == {"class", "contaminated", "incomplete", "provenance", "other"}
FlawsKnown == \A c \in Captures : c.flaws \subseteq Flaws

LEMMA PassMeans ==
  ASSUME FlawsKnown, NEW c \in Captures, NEW dir \in Dirs, NEW m, Evidence!Passes(c, dir, m)
  PROVE  dir = "sealed" /\ c.flaws = {} /\ c.mode = m
<1>1. PICK errors : errors = Evidence!Errors(c, dir, m)
  OBVIOUS
<1>2. errors \subseteq Flaws
  BY <1>1, Zenon DEF Evidence!Errors, FlawsKnown, Flaws
<1>3. Evidence!Verdict(errors) = "PASS"
  BY <1>1 DEF Evidence!Passes
<1>4. errors = {}
  <2>1. SUFFICES ASSUME errors # {} PROVE FALSE
    OBVIOUS
  <2> DEFINE order == <<"class", "contaminated", "incomplete", "provenance", "other">>
             N == {n \in DOMAIN order : order[n] \in errors}
             least == Evidence!Min(N)
  <2>2. Evidence!Verdict(errors) = order[least]
    BY <2>1, Zenon DEF Evidence!Verdict
  <2>3. DOMAIN order = 1..5 /\ order[1] = "class" /\ order[2] = "contaminated" /\ order[3] = "incomplete"
        /\ order[4] = "provenance" /\ order[5] = "other"
    OBVIOUS
  <2> HIDE DEF order
  <2>4. N \subseteq 1..5 /\ N # {}
    <3>1. PICK e \in errors : e \in Flaws
      BY <1>2, <2>1
    <3>2. PICK n \in 1..5 : order[n] = e
      BY <2>3, <3>1 DEF Flaws
    <3> QED BY <2>3, <3>1, <3>2
  <2> HIDE DEF N
  <2>5. \E x \in N : \A y \in N : x <= y
    <3>1. CASE 1 \in N
      BY <2>4, <3>1
    <3>2. CASE 1 \notin N /\ 2 \in N
      BY <2>4, <3>2
    <3>3. CASE 1 \notin N /\ 2 \notin N /\ 3 \in N
      BY <2>4, <3>3
    <3>4. CASE 1 \notin N /\ 2 \notin N /\ 3 \notin N /\ 4 \in N
      BY <2>4, <3>4
    <3>5. CASE 1 \notin N /\ 2 \notin N /\ 3 \notin N /\ 4 \notin N
      <4>1. \A y \in N : y = 5
        BY <2>4, <3>5
      <4>2. 5 \in N
        BY <2>4, <4>1
      <4>3. \A y \in N : 5 <= y
        BY <4>1
      <4> QED BY <4>2, <4>3
    <3> QED BY <3>1, <3>2, <3>3, <3>4, <3>5
  <2>6. least \in N
    BY <2>5, Zenon DEF Evidence!Min
  <2>7. least \in 1..5
    BY <2>4, <2>6
  <2> HIDE DEF least
  <2>8. order[least] # "PASS"
    BY <2>3, <2>7
  <2> QED BY <1>3, <2>2, <2>8
<1>5. dir \notin {"none", "part", "lost"}
  BY <1>1, <1>4, Zenon DEF Evidence!Errors
<1>6. c.flaws = {} /\ dir # "changed" /\ c.mode = m
  BY <1>1, <1>4, <1>5 DEF Evidence!Errors
<1> QED BY <1>5, <1>6 DEF Dirs

LEMMA VerifyKeeps ==
  ASSUME NoneIsApart, FlawsKnown, EvInv, NEW r \in Evidence!Roots, Evidence!Verify(r)
  PROVE  EvInv'
<1>1. /\ Busy(r) /\ job[r].at = "verify" /\ job[r].at # "judge" /\ staging' = staging /\ bundle' = bundle
      /\ report' = report /\ aborted' = aborted /\ imports' = imports /\ failures' = failures
  BY DEF Evidence!Verify, Evidence!At, Busy
<1>2. Working(r) /\ Ready(r) /\ DirsTyped /\ job[r] \in Task /\ BadOnly /\ Found /\ Told
  BY <1>1, RootFacts
<1>3. Now(r) \in Captures /\ Now(r).stages /\ Now(r).collects
  BY <1>1, <1>2, NowIs DEF Ready
<1>4. BadOnly'
  BY <1>1, <1>2 DEF BadOnly
<1>5. CASE r = "agent"
  <2>1. job' = [job EXCEPT !["agent"] = None]
    BY <1>5, Zenon DEF Evidence!Verify
  <2>2. DOMAIN job' = Evidence!Roots /\ job'[r] = None /\ \A q \in Evidence!Roots : q # r => job'[q] = job[q]
    BY <1>2, <1>5, <2>1 DEF DirsTyped
  <2>3. Others(r)
    BY <1>1, <2>2 DEF Others
  <2>4. DirsTyped'
    BY <1>1, <1>2, <2>2 DEF DirsTyped
  <2>5. Found' /\ Told'
    BY <1>1, <1>5, <2>3, AgentAlone
  <2>6. Root(r)'
    BY <2>2 DEF Root, Busy
  <2> QED BY <1>1, <1>4, <2>3, <2>4, <2>5, <2>6, Assembled
<1>6. CASE r = "import"
  <2>0. PICK c : c = Now("import")
    OBVIOUS
  <2> DEFINE last == job["import"].i = Len(job["import"].list)
  <2>1. PICK passed : passed = job["import"].passed \cup
                               (IF Evidence!Passes(c, bundle["import"][c], c.mode) THEN {c} ELSE {})
    OBVIOUS
  <2>2. PICK at, i : at = (IF last THEN "judge" ELSE "clear")
                     /\ i = (IF last THEN job["import"].i ELSE job["import"].i + 1)
    OBVIOUS
  <2>3. PICK k : k = [job["import"] EXCEPT !.passed = passed, !.at = at, !.i = i]
    OBVIOUS
  <2>4. c = Evidence!Capture("import")
    BY <2>0 DEF Evidence!Capture, Now
  <2>5. job' = [job EXCEPT !["import"].passed = @ \cup (IF Evidence!Passes(c, bundle["import"][c], c.mode) THEN {c} ELSE {}),
                           !["import"].at = IF last THEN "judge" ELSE "clear",
                           !["import"].i = IF last THEN @ ELSE @ + 1]
    BY <1>6, <2>4, Zenon DEF Evidence!Verify
  <2>6. DOMAIN job' = Evidence!Roots /\ job'["import"] = k /\ \A q \in Evidence!Roots : q # "import" => job'[q] = job[q]
    <3>1. DOMAIN job = Evidence!Roots /\ "import" \in Evidence!Roots
      BY <1>2 DEF DirsTyped, Evidence!Roots
    <3> QED BY <2>1, <2>2, <2>3, <2>5, <3>1
  <2>7. /\ job["import"].list \in Seq(Captures) /\ job["import"].i \in 1..Len(job["import"].list)
        /\ job["import"].passed \subseteq Captures /\ job["import"].since \in Nat /\ job["import"].since <= failures
    BY <1>1, <1>2, <1>6 DEF Working, Task
  <2>8. passed \subseteq Captures /\ at \in {"judge", "clear"} /\ i \in Nat /\ (at # "judge" => i \in 1..Len(job["import"].list))
    BY <1>3, <1>6, <2>0, <2>1, <2>2, <2>7
  <2>9. /\ k \in Task /\ k.list = job["import"].list /\ k.since = job["import"].since /\ k.passed = passed
        /\ k.at = at /\ k.i = i
    <3>1. at \in Turns
      BY <2>8 DEF Turns
    <3> QED BY <1>2, <1>6, <2>3, <2>8, <3>1 DEF Task
  <2>10. Others(r)
    BY <1>1, <1>6, <2>6 DEF Others
  <2>11. DirsTyped'
    BY <1>1, <1>2, <2>6 DEF DirsTyped
  <2>12. Root(r)'
    <3>1. Working(r)'
      BY <1>1, <1>6, <2>6, <2>7, <2>8, <2>9 DEF Working
    <3>2. Ready(r)'
      BY <1>6, <2>6, <2>8, <2>9 DEF Ready
    <3> QED BY <3>1, <3>2 DEF Root
  <2>13. Busy("import") /\ Busy("import")' /\ job'["import"].since = job["import"].since
    BY <1>1, <1>6, <2>6, <2>9 DEF Busy, NoneIsApart
  <2>14. \A x : Sealed(x) => bundle'["import"][x] = "sealed" /\ Sealed(x)'
    BY <1>1, <1>6 DEF Sealed, InHand
  <2>15. ASSUME job["import"].since = failures PROVE \A x \in passed : Sealed(x)'
    <3>1. bundle["import"][c] = "sealed"
      BY <1>1, <1>2, <1>6, <2>0, <2>15 DEF Ready
    <3>2. Sealed(c)'
      BY <1>1, <3>1 DEF Sealed
    <3>3. \A x \in job["import"].passed : Sealed(x)
      BY <1>2, <2>13, <2>15 DEF Found
    <3>4. \A x \in passed : x = c \/ x \in job["import"].passed
      BY <2>1
    <3> QED BY <2>14, <3>2, <3>3, <3>4
  <2>16. \A x \in passed : Fit(x)
    <3>1. Fit(c)
      BY <1>3, <1>6, <2>0 DEF Fit
    <3>2. \A x \in job["import"].passed : Fit(x)
      BY <1>2, <2>13 DEF Found
    <3>3. \A x \in passed : x = c \/ x \in job["import"].passed
      BY <2>1
    <3> QED BY <3>1, <3>2, <3>3
  <2>17. Found'
    BY <1>1, <2>6, <2>9, <2>13, <2>15, <2>16 DEF Found
  <2>18. Told'
    BY <1>1, <1>2, <2>13, <2>14 DEF Told
  <2> QED BY <1>1, <1>4, <2>10, <2>11, <2>12, <2>17, <2>18, Assembled
<1> QED BY <1>5, <1>6 DEF Evidence!Roots

LEMMA JudgeKeeps ==
  ASSUME NoneIsApart, EvInv, Evidence!Judge
  PROVE  EvInv'
<1>1. /\ Busy("import") /\ job["import"].at = "judge" /\ job' = [job EXCEPT !["import"] = None]
      /\ staging' = staging /\ bundle' = bundle /\ aborted' = aborted /\ imports' = imports /\ failures' = failures
      /\ report'.passed = job["import"].passed /\ report'.since = job["import"].since
  BY DEF Evidence!Judge, Evidence!At, Busy
<1>2. "import" \in Evidence!Roots
  BY DEF Evidence!Roots
<1>3. Working("import") /\ job["import"] \in Task /\ DirsTyped /\ BadOnly /\ Found
  BY <1>1, <1>2, RootFacts
<1>4. DOMAIN job' = Evidence!Roots /\ job'["import"] = None /\ \A q \in Evidence!Roots : q # "import" => job'[q] = job[q]
  BY <1>1, <1>2, <1>3 DEF DirsTyped
<1>5. Others("import")
  BY <1>1, <1>4 DEF Others
<1>6. DirsTyped' /\ BadOnly'
  BY <1>1, <1>3, <1>4 DEF DirsTyped, BadOnly
<1>7. Root("import")' /\ Found' /\ ~Busy("import")'
  BY <1>4 DEF Root, Busy, Found
<1>8. \A x : Sealed(x) => Sealed(x)'
  BY <1>1 DEF Sealed, InHand
<1>9. /\ job["import"].passed \subseteq Captures /\ job["import"].since \in Nat /\ job["import"].since <= failures
  BY <1>3 DEF Working, Task
<1>10. Told'
  BY <1>1, <1>3, <1>7, <1>8, <1>9 DEF Told, Found
<1> QED BY <1>1, <1>2, <1>5, <1>6, <1>7, <1>10, Assembled

LEMMA ImportKeeps ==
  ASSUME NoneIsApart, Evidence!PortfolioAssumption, EvInv, NEW e \in Exports, Evidence!Import(e)
  PROVE  EvInv'
<1>1. /\ ~Busy("import") /\ job' = [job EXCEPT !["import"] = Evidence!Work(e)] /\ report' = report
      /\ staging' = staging /\ bundle' = bundle /\ aborted' = aborted /\ imports' = imports + 1 /\ failures' = failures
  BY DEF Evidence!Import, Busy
<1>2. "import" \in Evidence!Roots /\ DirsTyped /\ BadOnly /\ Told
  BY DEF Evidence!Roots, EvInv
<1>3. PICK at : at = IF e = <<>> THEN "judge" ELSE "clear"
  OBVIOUS
<1>4. PICK k : k = [list |-> e, i |-> 1, at |-> at, passed |-> {}, since |-> failures]
  OBVIOUS
<1>5. Evidence!Work(e) = k
  BY <1>3, <1>4, Zenon DEF Evidence!Work
<1>6. e \in Seq(Captures) /\ failures \in Nat /\ at \in Turns
  BY <1>2, <1>3 DEF Evidence!PortfolioAssumption, DirsTyped, Turns
<1>7. k \in Task /\ k.list = e /\ k.i = 1 /\ k.at = at /\ k.passed = {} /\ k.since = failures
  BY <1>4, <1>6 DEF Task
<1>8. DOMAIN job' = Evidence!Roots /\ job'["import"] = k /\ \A q \in Evidence!Roots : q # "import" => job'[q] = job[q]
  BY <1>1, <1>2, <1>5 DEF DirsTyped
<1>9. Others("import")
  BY <1>1, <1>8 DEF Others
<1>10. DirsTyped' /\ BadOnly'
  BY <1>1, <1>2, <1>8 DEF DirsTyped, BadOnly
<1>11. at # "judge" => 1 \in DOMAIN e
  <2>1. e # <<>> => 1 \in 1..Len(e)
    BY <1>6
  <2> QED BY <1>3, <1>6, <2>1
<1>12. Root("import")'
  <2>1. Working("import")'
    BY <1>1, <1>6, <1>7, <1>8, <1>11 DEF Working
  <2>2. Ready("import")'
    BY <1>3, <1>7, <1>8 DEF Ready
  <2> QED BY <2>1, <2>2 DEF Root
<1>13. Found'
  BY <1>7, <1>8 DEF Found
<1>14. \A x : Sealed(x) => Sealed(x)'
  BY <1>1 DEF Sealed, InHand
<1>15. Told'
  BY <1>1, <1>2, <1>6, <1>7, <1>8, <1>14 DEF Told
<1> QED BY <1>1, <1>2, <1>9, <1>10, <1>12, <1>13, <1>15, Assembled

LEMMA PostedKeeps ==
  ASSUME NoneIsApart, Evidence!PortfolioAssumption, EvInv, NEW c \in Posted, Evidence!Post(c)
  PROVE  EvInv'
<1>1. /\ job' = [job EXCEPT !["agent"] = Evidence!Work(<<c>>)] /\ report' = report
      /\ staging' = staging /\ bundle' = bundle /\ aborted' = aborted /\ imports' = imports /\ failures' = failures
  BY DEF Evidence!Post
<1>2. "agent" \in Evidence!Roots /\ DirsTyped /\ BadOnly
  BY DEF Evidence!Roots, EvInv
<1>3. PICK e : e = <<c>>
  OBVIOUS
<1>4. e \in Seq(Captures) /\ Len(e) = 1 /\ e # <<>> /\ failures \in Nat
  BY <1>2, <1>3 DEF Evidence!PortfolioAssumption, DirsTyped
<1>5. PICK k : k = [list |-> e, i |-> 1, at |-> "clear", passed |-> {}, since |-> failures]
  OBVIOUS
<1>6. Evidence!Work(<<c>>) = k
  BY <1>3, <1>4, <1>5 DEF Evidence!Work
<1>7. k \in Task /\ k.list = e /\ k.i = 1 /\ k.at = "clear" /\ k.passed = {} /\ k.since = failures
  BY <1>4, <1>5 DEF Task, Turns
<1>8. DOMAIN job' = Evidence!Roots /\ job'["agent"] = k /\ \A q \in Evidence!Roots : q # "agent" => job'[q] = job[q]
  BY <1>1, <1>2, <1>6 DEF DirsTyped
<1>9. Others("agent")
  BY <1>1, <1>8 DEF Others
<1>10. DirsTyped' /\ BadOnly'
  BY <1>1, <1>2, <1>8 DEF DirsTyped, BadOnly
<1>12. Root("agent")'
  <2>1. Working("agent")'
    BY <1>1, <1>4, <1>7, <1>8 DEF Working
  <2>2. Ready("agent")'
    BY <1>7, <1>8 DEF Ready
  <2> QED BY <2>1, <2>2 DEF Root
<1>13. Found' /\ Told'
  BY <1>1, <1>9, AgentAlone
<1> QED BY <1>1, <1>2, <1>9, <1>10, <1>12, <1>13, Assembled

(* A fault is counted, so what held since the last one need not hold now.   *)
LEMMA FaultKeeps ==
  ASSUME NoneIsApart, EvInv, failures' = failures + 1, report' = report, aborted' = aborted, DirsTyped',
         NEW r \in Evidence!Roots, Others(r), Root(r)',
         job'["import"] = None \/ job'["import"] = job["import"]
  PROVE  EvInv'
<1>1. failures \in Nat /\ Found /\ Told /\ BadOnly /\ "import" \in Evidence!Roots
  BY DEF EvInv, DirsTyped, Evidence!Roots
<1>2. \A q \in Evidence!Roots : Busy(q) => job[q].since \in Nat /\ job[q].since <= failures
  BY DEF EvInv, Working, Task
<1>3. ASSUME NEW q \in Evidence!Roots, q # r PROVE Root(q)'
  <2>1. job'[q] = job[q] /\ staging'[q] = staging[q] /\ bundle'[q] = bundle[q] /\ Root(q)
    BY <1>3 DEF Others, EvInv, Root
  <2>2. Busy(q)' => Busy(q)
    BY <2>1 DEF Busy
  <2>3. Busy(q) /\ Working(q) => Working(q)'
    BY <1>1, <1>2, <2>1 DEF Working
  <2>4. Busy(q) /\ Ready(q) => Ready(q)'
    BY <1>1, <1>2, <2>1 DEF Ready, Now
  <2> QED BY <2>1, <2>2, <2>3, <2>4 DEF Root
<1>4. Busy("import")' => Busy("import") /\ job'["import"] = job["import"]
  BY DEF Busy
<1>5. Found'
  <2>1. Busy("import")' => job'["import"].since # failures'
    BY <1>1, <1>2, <1>4
  <2> QED BY <1>1, <1>4, <2>1 DEF Found
<1>6. Told'
  <2>1. report # None => report.since \in Nat /\ report.since <= failures
    BY <1>1 DEF Told
  <2>2. report' # None => report'.since # failures' /\ report'.since <= failures'
    BY <1>1, <2>1
  <2> QED BY <1>1, <1>4, <2>1, <2>2 DEF Told
<1>7. BadOnly'
  BY <1>1 DEF BadOnly
<1> QED BY <1>3, <1>5, <1>6, <1>7 DEF EvInv, Root

LEMMA KillKeeps ==
  ASSUME NoneIsApart, EvInv, NEW r \in Evidence!Roots, Evidence!Kill(r)
  PROVE  EvInv'
<1>1. /\ Busy(r) /\ job' = [job EXCEPT ![r] = None] /\ report' = report
      /\ aborted' = aborted /\ imports' = imports /\ failures' = failures + 1
  BY DEF Evidence!Kill, Busy
<1>2. Working(r) /\ DirsTyped
  BY <1>1, RootFacts
<1>3. DOMAIN job' = Evidence!Roots /\ job'[r] = None /\ \A q \in Evidence!Roots : q # r => job'[q] = job[q]
  BY <1>1, <1>2 DEF DirsTyped
<1>4. /\ staging' \in [Evidence!Roots -> [Captures -> {"none", "part", "whole"}]]
      /\ bundle' \in [Evidence!Roots -> [Captures -> Dirs]]
      /\ \A q \in Evidence!Roots : q # r => staging'[q] = staging[q] /\ bundle'[q] = bundle[q]
  <2>1. CASE staging' = staging /\ bundle' = bundle
    BY <1>2, <2>1 DEF DirsTyped
  <2>2. CASE Evidence!At(r, "stage") /\ staging' = Evidence!Put(staging, r, "part") /\ bundle' = bundle
    <3>1. Now(r) \in Captures
      BY <1>2, <2>2, NowIs DEF Evidence!At
    <3>2. "part" \in {"none", "part", "whole"}
      OBVIOUS
    <3>3. /\ staging' \in [Evidence!Roots -> [Captures -> {"none", "part", "whole"}]]
          /\ \A q \in Evidence!Roots : q # r => staging'[q] = staging[q]
      BY <1>2, <2>2, <3>1, <3>2, StagingTyped, Zenon
    <3> QED BY <1>2, <2>2, <3>3 DEF DirsTyped
  <2>3. CASE Evidence!At(r, "collect") /\ bundle' = Evidence!Put(bundle, r, "part") /\ staging' = staging
    <3>1. Now(r) \in Captures
      BY <1>2, <2>3, NowIs DEF Evidence!At
    <3>2. "part" \in Dirs
      BY DEF Dirs
    <3>3. /\ bundle' \in [Evidence!Roots -> [Captures -> Dirs]]
          /\ \A q \in Evidence!Roots : q # r => bundle'[q] = bundle[q]
      BY <1>2, <2>3, <3>1, <3>2, BundleTyped, Zenon
    <3> QED BY <1>2, <2>3, <3>3 DEF DirsTyped
  <2> QED BY <2>1, <2>2, <2>3 DEF Evidence!Kill
<1>5. Others(r)
  BY <1>3, <1>4 DEF Others
<1>6. DirsTyped'
  BY <1>1, <1>2, <1>3, <1>4 DEF DirsTyped
<1>7. Root(r)'
  BY <1>3 DEF Root, Busy
<1>8. job'["import"] = None \/ job'["import"] = job["import"]
  BY <1>3 DEF Evidence!Roots
<1> QED BY <1>1, <1>5, <1>6, <1>7, <1>8, FaultKeeps

LEMMA DamageKeeps ==
  ASSUME NoneIsApart, EvInv, NEW r \in Evidence!Roots, NEW c \in Captures, Evidence!Damage(r, c)
  PROVE  EvInv'
<1>1. PICK dir \in {"changed", "lost"} : bundle' = [bundle EXCEPT ![r][c] = dir]
  BY Zenon DEF Evidence!Damage
<1>2. /\ bundle[r][c] = "sealed" /\ job' = job /\ report' = report /\ staging' = staging
      /\ aborted' = aborted /\ imports' = imports /\ failures' = failures + 1
  BY DEF Evidence!Damage
<1>3. DirsTyped /\ Root(r)
  BY DEF EvInv, Root
<1>4. /\ bundle' \in [Evidence!Roots -> [Captures -> Dirs]]
      /\ \A q \in Evidence!Roots : q # r => bundle'[q] = bundle[q]
      /\ \A x \in Captures : x # c => bundle'[r][x] = bundle[r][x]
  <2>1. bundle \in [Evidence!Roots -> [Captures -> Dirs]] /\ dir \in Dirs
    BY <1>3 DEF DirsTyped, Dirs
  <2> QED BY <1>1, <2>1
<1>5. Others(r)
  BY <1>2, <1>4 DEF Others
<1>6. DirsTyped'
  BY <1>2, <1>3, <1>4 DEF DirsTyped
<1>7. Root(r)'
  <2>1. SUFFICES ASSUME Busy(r)' PROVE Working(r)' /\ Ready(r)'
    BY DEF Root
  <2>2. Working(r) /\ Ready(r) /\ Now(r)' = Now(r)
    BY <1>2, <1>3, <2>1 DEF Busy, Root, Now
  <2>3. failures \in Nat /\ job[r].since \in Nat /\ job[r].since <= failures
    BY <1>3, <2>2 DEF DirsTyped, Working, Task
  <2>4. Working(r)'
    BY <1>2, <2>2, <2>3 DEF Working
  <2>5. job'[r].since # failures'
    BY <1>2, <2>3
  <2>6. job[r].at # "judge" => Now(r) \in Captures
    BY <2>2, NowIs
  <2>7. Now(r) \in Captures /\ bundle[r][Now(r)] = "none" => bundle'[r][Now(r)] = "none"
    BY <1>2, <1>4
  <2>8. Ready(r)'
    BY <1>2, <2>2, <2>5, <2>6, <2>7 DEF Ready
  <2> QED BY <2>4, <2>8
<1> QED BY <1>2, <1>5, <1>6, <1>7, FaultKeeps

LEMMA EvidenceFurther ==
  ASSUME NoneIsApart, FlawsKnown, Evidence!PortfolioAssumption, EvInv, [Evidence!Next]_(Evidence!vars)
  PROVE  EvInv'
<1>1. CASE UNCHANGED Evidence!vars
  BY <1>1 DEF Evidence!vars, EvInv, DirsTyped, BadOnly, Found, Told, Busy, Working, Ready, Now, Sealed, InHand
<1>2. CASE Evidence!Next
  BY <1>2, ImportKeeps, PostedKeeps, ClearKeeps, StageKeeps, CollectKeeps, SealKeeps, VerifyKeeps, KillKeeps, JudgeKeeps,
     DamageKeeps, Zenon DEF Evidence!Next
<1> QED BY <1>1, <1>2

LEMMA EvidenceStarts ==
  ASSUME Evidence!Init
  PROVE  EvInv
BY DEF Evidence!Init, EvInv, DirsTyped, BadOnly, Found, Told, Busy, Dirs, Evidence!Roots

(* Kills, damaged files, the import and the agent one after the other: a    *)
(* process ends with an error only at a capture that can never be packaged, *)
(* and a bundle a report passed stays as it is unless something failed      *)
(* since, or an import works on it again.                                   *)
THEOREM BundlesStay ==
  ASSUME NoneIsApart, Evidence!PortfolioAssumption
  PROVE  Evidence!Spec => [](Evidence!OnlyBadAborts /\ Evidence!PassedStays)
<1>0. FlawsKnown
  BY DEF Evidence!PortfolioAssumption, FlawsKnown, Flaws
<1>1. Evidence!Init => EvInv
  BY <1>0, EvidenceStarts
<1>2. EvInv /\ [Evidence!Next]_(Evidence!vars) => EvInv'
  BY <1>0, EvidenceFurther
<1>3. EvInv => Evidence!OnlyBadAborts /\ Evidence!PassedStays
  <2>1. SUFFICES ASSUME EvInv PROVE Evidence!OnlyBadAborts /\ Evidence!PassedStays
    OBVIOUS
  <2>2. Evidence!OnlyBadAborts
    BY <2>1 DEF EvInv, BadOnly, Evidence!OnlyBadAborts
  <2>3. Evidence!PassedStays
    BY <2>1 DEF EvInv, Told, Sealed, InHand, Busy, Now, Evidence!Capture, Evidence!PassedStays
  <2> QED BY <2>2, <2>3
<1> QED BY <1>1, <1>2, <1>3, PTL DEF Evidence!Spec

(* A supported portfolio.                                                   *)
LEMMA SupportedMeans ==
  ASSUME FlawsKnown, IsFiniteSet(Captures), NEW dirs \in [Captures -> Dirs], NEW m, Evidence!Portfolio(dirs, m) = "SUPPORTED"
  PROVE  /\ \A c \in Captures : dirs[c] # "none" => dirs[c] = "sealed" /\ c.mode = "physical" /\ c.flaws = {}
         /\ \A class \in Required, k \in Evidence!Kinds, n \in 1..MinReps :
              \E c \in Captures : dirs[c] = "sealed" /\ c.class = class /\ c.kind = k /\ c.rep = n
         /\ \A c, x \in Captures : dirs[c] = "sealed" /\ dirs[x] = "sealed" /\ c.class = x.class /\ c.class \in Required
              => c.device = x.device
<1> DEFINE runs == {c \in Captures : dirs[c] # "none"}
           valid == {c \in runs : Evidence!Passes(c, dirs[c], m)}
           medians == {Evidence!MedianRate(Evidence!RowsOf(valid, class)) : class \in Required}
           complete == /\ valid = runs
                       /\ \A class \in Required : Evidence!ClassComplete(Evidence!RowsOf(valid, class), class)
                       /\ Evidence!Cardinality({c.isa : c \in Evidence!Selected(valid)}) >= MinIsa
                       /\ Evidence!Cardinality({c.form : c \in Evidence!Selected(valid)}) >= MinForms /\ 0 \notin medians
<1>1. Evidence!Portfolio(dirs, m) =
        IF ~complete THEN "INSUFFICIENT"
        ELSE IF \A c \in valid : c.mode = "rehearsal" THEN "REHEARSAL_ONLY"
        ELSE IF Evidence!Max(medians) > MaxRatio * Evidence!Min(medians) THEN "SPECIALIZED"
        ELSE IF \A c \in valid : c.mode = "physical" THEN "SUPPORTED" ELSE "INSUFFICIENT"
  BY Zenon DEF Evidence!Portfolio
<1>2. complete /\ \A c \in valid : c.mode = "physical"
  <2> HIDE DEF complete, medians, valid
  <2>1. CASE complete
    BY <1>1, <2>1
  <2>2. CASE ~complete
    BY <1>1, <2>2
  <2> QED BY <2>1, <2>2
<1>3. valid = runs /\ \A class \in Required : Evidence!ClassComplete(Evidence!RowsOf(valid, class), class)
  BY <1>2
<1> HIDE DEF complete, medians
<1>4. \A c \in Captures : dirs[c] # "none" => dirs[c] = "sealed" /\ c.mode = "physical" /\ c.flaws = {}
  <2>1. SUFFICES ASSUME NEW c \in Captures, dirs[c] # "none"
                 PROVE  dirs[c] = "sealed" /\ c.mode = "physical" /\ c.flaws = {}
    OBVIOUS
  <2>2. c \in valid
    BY <1>3, <2>1
  <2>3. Evidence!Passes(c, dirs[c], m) /\ dirs[c] \in Dirs
    BY <2>2
  <2>4. dirs[c] = "sealed" /\ c.flaws = {}
    BY <2>3, PassMeans, Zenon
  <2> QED BY <1>2, <2>2, <2>4
<1>5. \A c \in Captures : c \in valid <=> dirs[c] = "sealed"
  BY <1>3, <1>4
<1>6. valid \subseteq Captures
  OBVIOUS
<1> HIDE DEF valid, runs
<1>7. ASSUME NEW class \in Required, NEW k \in Evidence!Kinds, NEW n \in 1..MinReps
      PROVE  \E c \in Captures : dirs[c] = "sealed" /\ c.class = class /\ c.kind = k /\ c.rep = n
  <2>1. PICK rows : rows = Evidence!RowsOf(valid, class)
    OBVIOUS
  <2>2. n \in {c.rep : c \in {x \in rows : x.kind = k}}
    BY <1>3, <2>1 DEF Evidence!ClassComplete
  <2>3. PICK c \in rows : c.kind = k /\ c.rep = n
    BY <2>2
  <2>4. c \in valid /\ c.class = class
    BY <2>1, <2>3 DEF Evidence!RowsOf
  <2> QED BY <1>5, <1>6, <2>3, <2>4
<1>8. ASSUME NEW c \in Captures, NEW x \in Captures, dirs[c] = "sealed", dirs[x] = "sealed", c.class = x.class, c.class \in Required
      PROVE  c.device = x.device
  <2>1. PICK rows : rows = Evidence!RowsOf(valid, c.class)
    OBVIOUS
  <2>2. c \in rows /\ x \in rows /\ rows \subseteq Captures
    BY <1>5, <1>6, <1>8, <2>1 DEF Evidence!RowsOf
  <2>3. PICK D : D = {y.device : y \in rows}
    OBVIOUS
  <2>4. Evidence!Cardinality(D) = 1
    BY <1>3, <1>8, <2>1, <2>3, Zenon DEF Evidence!ClassComplete
  <2>5. IsFiniteSet(D)
    <3>1. IsFiniteSet(rows)
      BY <2>2, FS_Subset
    <3>2. PICK f : f = [y \in rows |-> y.device]
      OBVIOUS
    <3>3. f \in Surjection(rows, D)
      BY <2>3, <3>2 DEF Surjection
    <3> QED BY <3>1, <3>3, FS_Surjection
  <2>6. Cardinality(D) = 1
    BY <2>4 DEF Evidence!Cardinality, Cardinality, Evidence!IsFiniteSet, IsFiniteSet
  <2>7. PICK d : D = {d}
    BY <2>5, <2>6, FS_Singleton
  <2>8. c.device \in D /\ x.device \in D
    BY <2>2, <2>3
  <2> QED BY <2>7, <2>8
<1> QED BY <1>4, <1>7, <1>8

(* Whatever was imported before, killed or damaged: a portfolio reported as *)
(* supported has, in every required class, one device and an untouched      *)
(* physical capture of every workload and repetition, and nothing else that *)
(* is broken or rehearsed lies beside them.                                 *)
THEOREM SupportIsSound ==
  ASSUME NoneIsApart, Evidence!PortfolioAssumption
  PROVE  Evidence!Spec => []Evidence!SupportedSound
<1>0. FlawsKnown /\ IsFiniteSet(Captures)
  BY DEF Evidence!PortfolioAssumption, FlawsKnown, Flaws, Evidence!IsFiniteSet, IsFiniteSet
<1>1. Evidence!Init => EvInv /\ Evidence!SupportedSound
  BY <1>0, EvidenceStarts DEF Evidence!Init, Evidence!SupportedSound
<1>2. EvInv /\ Evidence!SupportedSound /\ [Evidence!Next]_(Evidence!vars) => EvInv' /\ Evidence!SupportedSound'
  <2>1. SUFFICES ASSUME EvInv, Evidence!SupportedSound, [Evidence!Next]_(Evidence!vars)
                 PROVE  EvInv' /\ Evidence!SupportedSound'
    OBVIOUS
  <2>2. EvInv'
    BY <1>0, <2>1, EvidenceFurther
  <2>3. CASE report' = report
    BY <2>1, <2>2, <2>3 DEF Evidence!SupportedSound
  <2>4. CASE Evidence!Judge
    <3>1. PICK dirs : dirs = bundle["import"]
      OBVIOUS
    <3>2. dirs \in [Captures -> Dirs]
      BY <2>1, <3>1 DEF EvInv, DirsTyped, Evidence!Roots
    <3>3. report'.dirs = dirs
      BY <2>4, <3>1 DEF Evidence!Judge
    <3>4. report'.verdict = None \/ report'.verdict = Evidence!Portfolio(dirs, job["import"].list[1].mode)
      BY <2>4, <3>1 DEF Evidence!Judge
    <3>5. SUFFICES ASSUME report'.verdict = "SUPPORTED", Evidence!Portfolio(dirs, job["import"].list[1].mode) = "SUPPORTED"
                   PROVE  Evidence!SupportedSound'
      BY <2>2, <3>4 DEF Evidence!SupportedSound, NoneIsApart
    <3>6. /\ \A c \in Captures : dirs[c] # "none" => dirs[c] = "sealed" /\ c.mode = "physical" /\ c.flaws = {}
          /\ \A class \in Required, k \in Evidence!Kinds, n \in 1..MinReps :
               \E c \in Captures : dirs[c] = "sealed" /\ c.class = class /\ c.kind = k /\ c.rep = n
          /\ \A c, x \in Captures : dirs[c] = "sealed" /\ dirs[x] = "sealed" /\ c.class = x.class /\ c.class \in Required
               => c.device = x.device
      BY <1>0, <3>2, <3>5, SupportedMeans
    <3> QED BY <3>3, <3>6 DEF Evidence!SupportedSound
  <2>5. report' = report \/ Evidence!Judge
    BY <2>1 DEF Evidence!Next, Evidence!vars, Evidence!Import, Evidence!Post, Evidence!Clear, Evidence!Stage, Evidence!Collect,
                Evidence!Seal, Evidence!Verify, Evidence!Kill, Evidence!Damage
  <2> QED BY <2>2, <2>3, <2>4, <2>5
<1> QED BY <1>1, <1>2, PTL DEF Evidence!Spec

(* The measuring campaign of a device (Autopilot).                          *)
CONSTANTS Devices, Hidden, Steps, MaxCalls, MaxTime, MaxCaptures, MaxStops
VARIABLES form, mode, held, asking, lock, camp, stopped, stops, worker, stray, starting, handling, zombie, captures, now
Pilot == INSTANCE Autopilot WITH MaxAsks <- MaxCalls

Locks == [device : Devices, at : Nat] \cup {None}
Places == {"idle", "baseline", "warm", "measure", "hidden", "package", "sent", "stuck"}
Modes == {"physical", "rehearsal", None}
Camp == [at : Places, step : Nat, full : BOOLEAN, begun : Nat, lock : Locks, quiet : BOOLEAN, cut : BOOLEAN,
         device : Devices \cup {None}, mode : Modes, awaits : {"first", "poll", None}]
Kept == [kind : {"timed", "normal", "lifecycle"}, device : Devices \cup {None}, mode : Modes, lock : Locks, begun : Nat,
         full : BOOLEAN, cut : BOOLEAN, quiet : BOOLEAN, held : Locks]
(* The lock that is set is older than any run that saw another one.         *)
Saw(l, begun, saw) == l # None /\ l.at < begun => saw = l
CampInv ==
  /\ form \in Devices /\ mode \in Modes /\ stopped \in BOOLEAN /\ asking \in Seq(Devices) /\ now \in Nat
  /\ lock \in Locks /\ (lock # None => lock.at < now)
  /\ camp \in Camp /\ camp.begun <= now
  /\ camp.at # "idle" => Saw(lock, camp.begun, camp.lock) /\ camp.step # 0
  /\ captures \in Seq(Kept) /\ \A i \in DOMAIN captures : Saw(captures[i].lock, captures[i].begun, captures[i].held)
(* None is no lock.                                                         *)
NoneIsNoLock == None \notin [device : Devices, at : Nat]

LEMMA IdleIsCamp ==
  ASSUME NEW k, k = Pilot!Idle
  PROVE  k \in Camp /\ k.at = "idle" /\ k.begun = 0
BY DEF Pilot!Idle, Camp, Places, Modes, Locks

(* What a step of the campaign may do to it: begin a run with the lock it   *)
(* finds, end, or go on with the run it is in.                              *)
Begun(k) == k.begun = now /\ k.lock = lock /\ k.step # 0
OnGoing(k) == k.begun = camp.begun /\ k.lock = camp.lock /\ k.step = camp.step /\ (camp.at = "idle" => k.at = "idle")
CampStep ==
  /\ camp' \in Camp
  /\ \/ camp'.at = "idle" /\ camp'.begun = 0
     \/ Begun(camp') \/ OnGoing(camp')

LEMMA SessionOk ==
  ASSUME NEW c \in Camp, Pilot!Session(c)
  PROVE  camp' \in Camp /\ camp'.at = c.at /\ camp'.begun = c.begun /\ camp'.lock = c.lock /\ camp'.step = c.step /\ stopped' = FALSE
<1>1. camp' = [c EXCEPT !.awaits = "first"] /\ stopped' = FALSE
  BY DEF Pilot!Session
<1> QED BY <1>1 DEF Camp

LEMMA FinishOk ==
  ASSUME Pilot!Finish
  PROVE  camp' \in Camp /\ camp'.at = "idle" /\ camp'.begun = 0 /\ stopped' = FALSE
BY IdleIsCamp DEF Pilot!Finish

LEMMA BeginOk ==
  ASSUME CampInv, NEW c \in Camp, NEW step \in Nat \ {0}, Pilot!Begin(c, step)
  PROVE  CampStep /\ stopped' \in BOOLEAN
<1>1. PICK next : next = [Pilot!Idle EXCEPT !.step = step, !.full = c.full, !.begun = now, !.lock = lock]
  OBVIOUS
<1>2. next \in Camp /\ Begun(next)
  BY <1>1 DEF CampInv, Pilot!Idle, Camp, Places, Modes, Begun, Locks
<1>3. \A k \in Camp : \A at \in Places : [k EXCEPT !.at = at] \in Camp /\ (Begun(k) => Begun([k EXCEPT !.at = at]))
  BY DEF Camp, Begun
<1>4. CASE \E at \in {"warm", "hidden"} : Pilot!Session([next EXCEPT !.at = at])
  <2>1. PICK at \in {"warm", "hidden"} : Pilot!Session([next EXCEPT !.at = at])
    BY <1>4
  <2>2. PICK k : k = [next EXCEPT !.at = at]
    OBVIOUS
  <2>3. at \in Places
    BY DEF Places
  <2>4. k \in Camp /\ Begun(k)
    BY <1>2, <1>3, <2>2, <2>3
  <2>5. Pilot!Session(k)
    BY <2>1, <2>2
  <2>6. camp' \in Camp /\ camp'.begun = k.begun /\ camp'.lock = k.lock /\ camp'.step = k.step /\ stopped' = FALSE
    BY <2>4, <2>5, SessionOk, Zenon
  <2>7. Begun(camp')
    BY <2>4, <2>6 DEF Begun
  <2> QED BY <2>6, <2>7 DEF CampStep
<1>5. CASE camp' = [next EXCEPT !.at = "baseline"] /\ stopped' = stopped
  <2>1. "baseline" \in Places
    BY DEF Places
  <2>2. camp' \in Camp /\ Begun(camp')
    BY <1>2, <1>3, <1>5, <2>1
  <2> QED BY <1>5, <2>2 DEF CampStep, CampInv
<1>6. CASE Pilot!Finish
  BY <1>6, FinishOk DEF CampStep
<1>7. \/ \E at \in {"warm", "hidden"} : Pilot!Session([next EXCEPT !.at = at])
      \/ camp' = [next EXCEPT !.at = "baseline"] /\ stopped' = stopped
      \/ Pilot!Finish
  BY <1>1 DEF Pilot!Begin
<1> QED BY <1>4, <1>5, <1>6, <1>7

LEMMA CampMoves ==
  ASSUME CampInv, CampStep, lock' = lock, now' = now \/ now' = now + 1, form' = form, mode' = mode, asking' = asking,
         captures' = captures, stopped' \in BOOLEAN
  PROVE  CampInv'
<1>1. /\ lock \in Locks /\ (lock # None => lock.at < now) /\ now \in Nat /\ camp \in Camp /\ camp.begun <= now /\ camp' \in Camp
      /\ (camp.at # "idle" => Saw(lock, camp.begun, camp.lock) /\ camp.step # 0)
  BY DEF CampInv, CampStep
<1>2. camp.begun \in Nat /\ camp'.begun \in Nat /\ now' \in Nat /\ now <= now'
  BY <1>1 DEF Camp
<1>3. lock # None => lock.at \in Nat
  BY <1>1 DEF Locks
<1>4. camp'.begun <= now' /\ (lock' # None => lock'.at < now')
  BY <1>1, <1>2, <1>3 DEF CampStep, Begun, OnGoing
<1>5. camp'.at # "idle" => Saw(lock', camp'.begun, camp'.lock) /\ camp'.step # 0
  BY <1>1 DEF CampStep, Begun, OnGoing, Saw
<1>6. captures' \in Seq(Kept) /\ \A i \in DOMAIN captures' : Saw(captures'[i].lock, captures'[i].begun, captures'[i].held)
  BY DEF CampInv
<1>7. form' \in Devices /\ mode' \in Modes /\ asking' \in Seq(Devices) /\ lock' \in Locks
  BY DEF CampInv
<1> QED BY <1>1, <1>2, <1>4, <1>5, <1>6, <1>7 DEF CampInv

LEMMA PackingOk ==
  ASSUME CampInv, NEW c \in Camp, c.begun = camp.begun, c.lock = camp.lock, c.step = camp.step, c.at = camp.at, camp.at # "idle", camp' = Pilot!Packing(c)
  PROVE  CampStep
<1>1. PICK a : a = [c EXCEPT !.at = "package"]
  OBVIOUS
<1>2. a \in Camp /\ a.begun = c.begun /\ a.lock = c.lock /\ a.step = c.step
  BY <1>1 DEF Camp, Places
<1>3. PICK b : b = [a EXCEPT !.device = form]
  OBVIOUS
<1>4. b \in Camp /\ b.begun = c.begun /\ b.lock = c.lock /\ b.step = c.step
  BY <1>2, <1>3 DEF Camp, CampInv
<1>5. camp' = [b EXCEPT !.mode = mode]
  BY <1>1, <1>3, Zenon DEF Pilot!Packing
<1>6. camp' \in Camp /\ camp'.begun = c.begun /\ camp'.lock = c.lock /\ camp'.step = c.step
  BY <1>4, <1>5 DEF Camp, CampInv
<1> QED BY <1>6 DEF CampStep, OnGoing

(* The steps that change the campaign.                                      *)
Within == lock' = lock /\ form' = form /\ mode' = mode /\ asking' = asking /\ captures' = captures

LEMMA RunsKeep ==
  ASSUME CampInv, Pilot!Run \/ Pilot!Continue
  PROVE  CampInv'
<1>1. camp \in Camp /\ now \in Nat /\ stopped \in BOOLEAN
  BY DEF CampInv
<1>2. CASE Pilot!Run
  <2>1. PICK c : c = [Pilot!Idle EXCEPT !.full = (mode = "physical")]
    OBVIOUS
  <2>2. c \in Camp
    <3>1. PICK k : k = Pilot!Idle
      OBVIOUS
    <3>2. k \in Camp
      BY <3>1, IdleIsCamp
    <3>3. (mode = "physical") \in BOOLEAN
      OBVIOUS
    <3>4. c = [k EXCEPT !.full = (mode = "physical")]
      BY <2>1, <3>1
    <3> QED BY <3>2, <3>3, <3>4 DEF Camp
  <2>3. Pilot!Begin(c, 1) /\ now' = now + 1 /\ Within
    BY <1>2, <2>1 DEF Pilot!Run, Pilot!fields, Within
  <2>4. CampStep /\ stopped' \in BOOLEAN
    BY <2>2, <2>3, BeginOk
  <2> QED BY <2>3, <2>4, CampMoves DEF Within
<1>3. CASE Pilot!Continue
  <2>1. Within /\ ((Pilot!Finish /\ now' = now) \/ (Pilot!Begin(camp, camp.step + 1) /\ now' = now + 1))
    BY <1>3 DEF Pilot!Continue, Pilot!fields, Within
  <2>2. CASE Pilot!Finish /\ now' = now
    <3>1. CampStep /\ stopped' \in BOOLEAN
      BY <1>1, <2>2, FinishOk DEF CampStep
    <3> QED BY <2>1, <2>2, <3>1, CampMoves DEF Within
  <2>3. CASE Pilot!Begin(camp, camp.step + 1) /\ now' = now + 1
    <3>1. camp.step + 1 \in Nat \ {0}
      BY <1>1 DEF Camp
    <3>2. CampStep /\ stopped' \in BOOLEAN
      BY <1>1, <2>3, <3>1, BeginOk
    <3> QED BY <2>1, <2>3, <3>2, CampMoves DEF Within
  <2> QED BY <2>1, <2>2, <2>3
<1> QED BY <1>2, <1>3

(* A session for the next place of the same run.                            *)
LEMMA SessionMoves ==
  ASSUME CampInv, NEW at \in Places, Pilot!Session([camp EXCEPT !.at = at]), camp.at # "idle"
  PROVE  CampStep /\ stopped' \in BOOLEAN
<1>1. PICK k : k = [camp EXCEPT !.at = at]
  OBVIOUS
<1>2. k \in Camp /\ k.begun = camp.begun /\ k.lock = camp.lock /\ k.step = camp.step
  BY <1>1 DEF Camp, CampInv
<1>3. camp' \in Camp /\ camp'.begun = k.begun /\ camp'.lock = k.lock /\ camp'.step = k.step /\ stopped' = FALSE
  BY <1>1, <1>2, SessionOk, Zenon
<1> QED BY <1>2, <1>3 DEF CampStep, OnGoing

LEMMA StepsKeep ==
  ASSUME CampInv, Pilot!Open \/ Pilot!BaselineEnds \/ Pilot!WarmEnds \/ Pilot!MeasureEnds \/ Pilot!CyclesDone \/ Pilot!Probe \/ Pilot!Poll \/ Pilot!Stop
  PROVE  CampInv'
<1>1. camp \in Camp /\ now \in Nat /\ stopped \in BOOLEAN /\ form \in Devices /\ mode \in Modes
  BY DEF CampInv
<1>2. Within /\ now' = now
  BY DEF Pilot!Open, Pilot!BaselineEnds, Pilot!WarmEnds, Pilot!MeasureEnds, Pilot!CyclesDone, Pilot!Probe, Pilot!Poll, Pilot!Stop,
         Pilot!fields, Within
<1>3. ASSUME CampStep /\ stopped' \in BOOLEAN PROVE CampInv'
  BY <1>2, <1>3, CampMoves DEF Within
<1>4. Pilot!Finish => CampStep /\ stopped' \in BOOLEAN
  BY <1>1, FinishOk DEF CampStep
<1>5. \A w \in {"first", "poll", None} : camp' = [camp EXCEPT !.awaits = w] => CampStep
  BY <1>1 DEF CampStep, OnGoing, Camp
<1>6. camp' = camp => CampStep
  BY <1>1 DEF CampStep, OnGoing
<1>7. CASE Pilot!Open
  <2>1. (camp' = [camp EXCEPT !.awaits = None] /\ stopped' = stopped) \/ Pilot!Finish
    BY <1>7 DEF Pilot!Open
  <2> QED BY <1>1, <1>3, <1>4, <1>5, <2>1
<1>8. CASE Pilot!BaselineEnds
  <2>1. "warm" \in Places /\ camp.at # "idle" /\ (Pilot!Finish \/ Pilot!Session([camp EXCEPT !.at = "warm"]))
    BY <1>8 DEF Pilot!BaselineEnds, Places
  <2> QED BY <1>3, <1>4, <2>1, SessionMoves
<1>9. CASE Pilot!WarmEnds
  <2>1. "measure" \in Places /\ camp.at # "idle" /\ (Pilot!Finish \/ Pilot!Session([camp EXCEPT !.at = "measure"]))
    BY <1>9 DEF Pilot!WarmEnds, Places
  <2> QED BY <1>3, <1>4, <2>1, SessionMoves
<1>10. CASE Pilot!MeasureEnds
  <2>1. PICK k : k = [camp EXCEPT !.cut = stopped]
    OBVIOUS
  <2>2. k \in Camp /\ k.begun = camp.begun /\ k.lock = camp.lock /\ k.step = camp.step /\ k.at = camp.at /\ camp.at # "idle"
    BY <1>1, <1>10, <2>1 DEF Camp, Pilot!MeasureEnds
  <2>3. camp' = Pilot!Packing(k) /\ stopped' = stopped
    BY <1>10, <2>1 DEF Pilot!MeasureEnds
  <2> QED BY <1>1, <1>3, <2>2, <2>3, PackingOk
<1>11. CASE Pilot!CyclesDone
  <2>1. camp.at # "idle" /\ ((camp' = Pilot!Packing(camp) /\ stopped' = stopped) \/ Pilot!Finish)
    BY <1>11 DEF Pilot!CyclesDone
  <2> QED BY <1>1, <1>3, <1>4, <2>1, PackingOk
<1>12. CASE Pilot!Probe
  <2>1. camp' = [camp EXCEPT !.quiet = FALSE] /\ stopped' = stopped
    BY <1>12 DEF Pilot!Probe
  <2>2. CampStep
    BY <1>1, <2>1 DEF CampStep, OnGoing, Camp
  <2> QED BY <1>1, <1>3, <2>1, <2>2
<1>13. CASE Pilot!Poll
  <2>1. (camp' = [camp EXCEPT !.awaits = "poll"] \/ camp' = camp) /\ stopped' = stopped
    BY <1>13 DEF Pilot!Poll
  <2> QED BY <1>1, <1>3, <1>5, <1>6, <2>1
<1>14. CASE Pilot!Stop
  <2>1. stopped' = TRUE /\ (camp' = [camp EXCEPT !.at = "stuck", !.awaits = None] \/ camp' = camp) /\ camp.at # "idle"
    BY <1>14 DEF Pilot!Stop
  <2>2. CASE camp' = [camp EXCEPT !.at = "stuck", !.awaits = None]
    <3>1. PICK k : k = [camp EXCEPT !.at = "stuck"]
      OBVIOUS
    <3>2. k \in Camp /\ k.begun = camp.begun /\ k.lock = camp.lock /\ k.step = camp.step
      BY <1>1, <3>1 DEF Camp, Places
    <3>3. camp' = [k EXCEPT !.awaits = None]
      BY <2>2, <3>1
    <3>4. camp' \in Camp /\ camp'.begun = camp.begun /\ camp'.lock = camp.lock /\ camp'.step = camp.step
      BY <3>2, <3>3 DEF Camp
    <3>5. CampStep
      BY <2>1, <3>4 DEF CampStep, OnGoing
    <3> QED BY <1>3, <2>1, <3>5
  <2> QED BY <1>3, <1>6, <2>1, <2>2
<1> QED BY <1>7, <1>8, <1>9, <1>10, <1>11, <1>12, <1>13, <1>14

(* The fields, the lock and the work of the miner.                          *)
LEMMA FieldsKeep ==
  ASSUME CampInv, NEW d \in Devices, NEW m \in {"physical", "rehearsal"}, Pilot!SetForm(d) \/ Pilot!SetMode(m)
  PROVE  CampInv'
<1>1. /\ form' \in Devices /\ mode' \in Modes /\ asking' = asking /\ lock' = lock /\ camp' = camp /\ stopped' = stopped
      /\ captures' = captures /\ now' = now
  BY DEF Pilot!SetForm, Pilot!SetMode, CampInv, Modes
<1> QED BY <1>1 DEF CampInv

LEMMA RemoveOk ==
  ASSUME NEW s \in Seq(Devices), NEW i \in DOMAIN s, NEW t, t = Pilot!RemoveAt(s, i)
  PROVE  t \in Seq(Devices)
<1>1. t = SubSeq(s, 1, i - 1) \o SubSeq(s, i + 1, Len(s))
  BY DEF Pilot!RemoveAt
<1>2. PICK a, b : a = SubSeq(s, 1, i - 1) /\ b = SubSeq(s, i + 1, Len(s))
  OBVIOUS
<1>3. i \in 1..Len(s) /\ Len(s) \in Nat
  OBVIOUS
<1>4. \A k \in 1..(i - 1) : s[k] \in Devices
  BY <1>3, ElementOfSeq
<1>5. a \in Seq(Devices)
  BY <1>2, <1>3, <1>4, SubSeqProperties
<1>6. b \in Seq(Devices)
  BY <1>2, <1>3, SubSeqProperties
<1> QED BY <1>1, <1>2, <1>5, <1>6, ConcatProperties

LEMMA LocksKeep ==
  ASSUME NoneIsNoLock, CampInv, Pilot!AskLock \/ Pilot!Unlock \/ \E i \in DOMAIN asking : Pilot!LockAnswer(i) \/ Pilot!LockFails(i)
  PROVE  CampInv'
<1>1. /\ form \in Devices /\ mode \in Modes /\ stopped \in BOOLEAN /\ asking \in Seq(Devices) /\ now \in Nat
      /\ lock \in Locks /\ (lock # None => lock.at < now) /\ camp \in Camp /\ camp.begun <= now
      /\ (camp.at # "idle" => Saw(lock, camp.begun, camp.lock) /\ camp.step # 0)
      /\ captures \in Seq(Kept) /\ \A i \in DOMAIN captures : Saw(captures[i].lock, captures[i].begun, captures[i].held)
  BY DEF CampInv
<1>2. form' = form /\ mode' = mode /\ stopped' = stopped /\ camp' = camp /\ captures' = captures
  BY DEF Pilot!AskLock, Pilot!Unlock, Pilot!LockAnswer, Pilot!LockFails, Pilot!fields
<1>3. CASE Pilot!AskLock
  <2>1. asking' = Append(asking, form) /\ lock' = lock /\ now' = now
    BY <1>3 DEF Pilot!AskLock
  <2>2. asking' \in Seq(Devices)
    BY <1>1, <2>1
  <2> QED BY <1>1, <1>2, <2>1, <2>2 DEF CampInv
<1>4. CASE Pilot!Unlock
  <2>1. asking' = asking /\ lock' = None /\ now' = now
    BY <1>4 DEF Pilot!Unlock
  <2>2. lock' \in Locks /\ Saw(lock', camp.begun, camp.lock)
    BY <2>1 DEF Locks, Saw
  <2> QED BY <1>1, <1>2, <2>1, <2>2 DEF CampInv
<1>5. ASSUME NEW i \in DOMAIN asking, Pilot!LockFails(i) PROVE CampInv'
  <2>1. asking' = Pilot!RemoveAt(asking, i) /\ lock' = lock /\ now' = now
    BY <1>5 DEF Pilot!LockFails
  <2>2. asking' \in Seq(Devices)
    BY <1>1, <2>1, RemoveOk, Zenon
  <2> QED BY <1>1, <1>2, <2>1, <2>2 DEF CampInv
<1>6. ASSUME NEW i \in DOMAIN asking, Pilot!LockAnswer(i) PROVE CampInv'
  <2>1. asking' = Pilot!RemoveAt(asking, i) /\ lock' = [device |-> asking[i], at |-> now] /\ now' = now + 1
    BY <1>6 DEF Pilot!LockAnswer
  <2>2. asking' \in Seq(Devices)
    BY <1>1, <2>1, RemoveOk, Zenon
  <2>3. asking[i] \in Devices
    BY <1>1
  <2>4. lock'.at = now /\ lock' \in Locks
    BY <1>1, <2>1, <2>3 DEF Locks
  <2>5. camp.begun \in Nat
    BY <1>1 DEF Camp
  <2>6. Saw(lock', camp.begun, camp.lock)
    BY <1>1, <2>4, <2>5 DEF Saw
  <2>7. lock'.at < now' /\ camp.begun <= now' /\ now' \in Nat
    BY <1>1, <2>1, <2>4, <2>5
  <2> QED BY <1>1, <1>2, <2>2, <2>4, <2>6, <2>7 DEF CampInv
<1> QED BY <1>3, <1>4, <1>5, <1>6

LEMMA MeasuringKeeps ==
  ASSUME CampInv, Pilot!Solve \/ Pilot!Handled \/ Pilot!ZombieEnds \/ \E age \in Pilot!Ages : Pilot!Template(age)
  PROVE  CampInv'
<1>1. /\ form' = form /\ mode' = mode /\ asking' = asking /\ lock' = lock /\ camp' = camp /\ stopped' = stopped
      /\ captures' = captures /\ now' = now
  BY DEF Pilot!Solve, Pilot!Handled, Pilot!ZombieEnds, Pilot!Template, Pilot!fields
<1> QED BY <1>1 DEF CampInv

LEMMA PackageKeeps ==
  ASSUME Pilot!AutopilotAssumption, CampInv, Pilot!Package
  PROVE  CampInv'
<1>1. /\ form \in Devices /\ mode \in Modes /\ stopped \in BOOLEAN /\ asking \in Seq(Devices) /\ now \in Nat
      /\ lock \in Locks /\ (lock # None => lock.at < now) /\ camp \in Camp /\ camp.begun <= now
      /\ (camp.at # "idle" => Saw(lock, camp.begun, camp.lock) /\ camp.step # 0)
      /\ captures \in Seq(Kept) /\ \A i \in DOMAIN captures : Saw(captures[i].lock, captures[i].begun, captures[i].held)
  BY DEF CampInv
<1>2. PICK kind : kind = IF camp.step <= Len(Steps) THEN Steps[camp.step] ELSE "lifecycle"
  OBVIOUS
<1>3. PICK c : c = [kind |-> kind, device |-> camp.device, mode |-> camp.mode, lock |-> lock, begun |-> camp.begun,
                    full |-> camp.full, cut |-> camp.cut, quiet |-> camp.quiet, held |-> camp.lock]
  OBVIOUS
<1>4. /\ camp.at = "package" /\ captures' = Append(captures, c) /\ camp' = [camp EXCEPT !.at = "sent"]
      /\ form' = form /\ mode' = mode /\ asking' = asking /\ lock' = lock /\ stopped' = stopped /\ now' = now
  BY <1>2, <1>3, Zenon DEF Pilot!Package, Pilot!fields
<1>5. c.lock = lock /\ c.begun = camp.begun /\ c.held = camp.lock
  BY <1>3
<1>6. camp' \in Camp /\ camp'.begun = camp.begun /\ camp'.lock = camp.lock /\ camp'.step = camp.step
  BY <1>1, <1>4 DEF Camp, Places
<1>7. c \in Kept
  <2>1. Steps \in Seq({"timed", "normal"}) /\ camp.step \in Nat \ {0}
    BY <1>1, <1>4 DEF Pilot!AutopilotAssumption, Camp
  <2>2. camp.step <= Len(Steps) => Steps[camp.step] \in {"timed", "normal"}
    BY <2>1
  <2>3. kind \in {"timed", "normal", "lifecycle"}
    BY <1>2, <2>2
  <2> QED BY <1>1, <1>3, <2>3 DEF Kept, Camp
<1>8. Saw(c.lock, c.begun, c.held)
  BY <1>1, <1>4, <1>5
<1>9. captures' \in Seq(Kept) /\ \A i \in DOMAIN captures' : Saw(captures'[i].lock, captures'[i].begun, captures'[i].held)
  <2>1. /\ captures' \in Seq(Kept) /\ Len(captures') = Len(captures) + 1 /\ captures'[Len(captures) + 1] = c
        /\ \A i \in 1..Len(captures) : captures'[i] = captures[i]
    BY <1>1, <1>4, <1>7, AppendProperties
  <2>2. DOMAIN captures = 1..Len(captures) /\ DOMAIN captures' = 1..(Len(captures) + 1) /\ Len(captures) \in Nat
    BY <1>1, <2>1
  <2>3. ASSUME NEW i \in DOMAIN captures' PROVE Saw(captures'[i].lock, captures'[i].begun, captures'[i].held)
    <3>1. CASE i = Len(captures) + 1
      BY <1>8, <2>1, <3>1
    <3>2. CASE i \in 1..Len(captures)
      BY <1>1, <2>1, <2>2, <3>2
    <3> QED BY <2>2, <3>1, <3>2
  <2> QED BY <2>1, <2>3
<1>10. Saw(lock', camp'.begun, camp'.lock) /\ camp'.begun <= now'
  BY <1>1, <1>4, <1>6
<1> QED BY <1>1, <1>4, <1>6, <1>9, <1>10 DEF CampInv

LEMMA PilotFurther ==
  ASSUME NoneIsNoLock, Pilot!AutopilotAssumption, CampInv, [Pilot!Next]_(Pilot!vars)
  PROVE  CampInv'
<1>1. CASE UNCHANGED Pilot!vars
  BY <1>1 DEF Pilot!vars, Pilot!fields, CampInv
<1>2. CASE \/ \E d \in Devices : Pilot!SetForm(d)
           \/ \E m \in {"physical", "rehearsal"} : Pilot!SetMode(m)
  <2>1. ASSUME NEW d \in Devices, Pilot!SetForm(d) PROVE CampInv'
    <3>1. "physical" \in {"physical", "rehearsal"}
      OBVIOUS
    <3> QED BY <2>1, <3>1, FieldsKeep, Zenon
  <2>2. ASSUME NEW m \in {"physical", "rehearsal"}, Pilot!SetMode(m) PROVE CampInv'
    <3>1. form \in Devices
      BY DEF CampInv
    <3> QED BY <2>2, <3>1, FieldsKeep, Zenon
  <2> QED BY <1>2, <2>1, <2>2
<1>3. CASE Pilot!Run \/ Pilot!Continue
  BY <1>3, RunsKeep, Zenon
<1>4. CASE Pilot!Open \/ Pilot!BaselineEnds \/ Pilot!WarmEnds \/ Pilot!MeasureEnds \/ Pilot!CyclesDone \/ Pilot!Probe \/ Pilot!Poll \/ Pilot!Stop
  BY <1>4, StepsKeep, Zenon
<1>5. CASE Pilot!AskLock \/ Pilot!Unlock \/ \E i \in DOMAIN asking : Pilot!LockAnswer(i) \/ Pilot!LockFails(i)
  BY <1>5, LocksKeep, Zenon
<1>6. CASE Pilot!Solve \/ Pilot!Handled \/ Pilot!ZombieEnds \/ \E age \in Pilot!Ages : Pilot!Template(age)
  BY <1>6, MeasuringKeeps, Zenon
<1>7. CASE Pilot!Package
  BY <1>7, PackageKeeps, Zenon
<1> QED BY <1>1, <1>2, <1>3, <1>4, <1>5, <1>6, <1>7, Zenon DEF Pilot!Next

(* Whatever the operator presses while it runs: a capture that the verifier *)
(* admits names the lock that was set when its run began.                   *)
THEOREM AdmittedIsHonest ==
  ASSUME NoneIsNoLock, Pilot!AutopilotAssumption
  PROVE  Pilot!Spec => []Pilot!AdmittedHonest
<1>1. Pilot!Init => CampInv
  <2>1. SUFFICES ASSUME Pilot!Init PROVE CampInv
    OBVIOUS
  <2>2. camp \in Camp /\ camp.at = "idle" /\ camp.begun = 0
    BY <2>1, IdleIsCamp DEF Pilot!Init
  <2>3. /\ form \in Devices /\ mode \in Modes /\ stopped \in BOOLEAN /\ asking = <<>> /\ lock = None /\ captures = <<>> /\ now = 1
    BY <2>1 DEF Pilot!Init, Modes
  <2>4. asking \in Seq(Devices) /\ captures \in Seq(Kept) /\ DOMAIN captures = {} /\ lock \in Locks
    BY <2>3 DEF Locks
  <2> QED BY <2>2, <2>3, <2>4 DEF CampInv
<1>2. CampInv /\ [Pilot!Next]_(Pilot!vars) => CampInv'
  BY PilotFurther
<1>3. CampInv => Pilot!AdmittedHonest
  BY DEF CampInv, Saw, Pilot!AdmittedHonest, Pilot!Admitted
<1> QED BY <1>1, <1>2, <1>3, PTL DEF Pilot!Spec
=============================================================================
