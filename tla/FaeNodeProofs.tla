---------------------------- MODULE FaeNodeProofs ----------------------------
(***************************************************************************)
(* The nodes of module FaeNode, for any number of nodes, transactions,     *)
(* blocks, crashes and failed writes.  First what the operations of the    *)
(* ledger preserve: the inductive invariant Sound of a state, kept by an   *)
(* accepted transaction, an appended block, a replay, a reload and a       *)
(* reconciliation, and what these rest on, the operators Ledger is built   *)
(* from: the functions its recursive definitions name exist, filtering a   *)
(* sequence keeps its order, sorting a finite set lists it, and amounts,   *)
(* subsidies and sums are naturals.  Then the inductive invariant          *)
(* Inductive of the nodes and what follows from it.                        *)
(***************************************************************************)
EXTENDS FaeNode, SumsProofs, FiniteSetTheorems, FunctionTheorems

(* What Omit has kept up to each position of q.                                *)
Lefts(q, S) ==
  CHOOSE f : f = [i \in 0..Len(q) |-> IF i = 0 THEN <<>> ELSE IF q[i] \in S THEN f[i - 1] ELSE Append(f[i - 1], q[i])]

(* The function Omit is defined by exists; what it is at each position.        *)
LEMMA LeftsEquation ==
  ASSUME NEW q, NEW S, Len(q) \in Nat
  PROVE  /\ Lefts(q, S)[0] = <<>>
         /\ \A i \in 1..Len(q) : Lefts(q, S)[i] = IF q[i] \in S THEN Lefts(q, S)[i - 1] ELSE Append(Lefts(q, S)[i - 1], q[i])
         /\ Omit(q, S) = Lefts(q, S)[Len(q)]
<1> DEFINE Base == <<>>
           Step(p, i) == IF q[i] \in S THEN p ELSE Append(p, q[i])
           F == Lefts(q, S)
<1>1. \E f : f = [i \in 0..Len(q) |-> IF i = 0 THEN Base ELSE Step(f[i - 1], i)]
  <2> HIDE DEF Base, Step
  <2> DEFINE N == {n \in Nat : \E f : f = [i \in 0..n |-> IF i = 0 THEN Base ELSE Step(f[i - 1], i)]}
  <2>1. 0 \in N
    <3> DEFINE g == [i \in 0..0 |-> Base]
    <3>1. g = [i \in 0..0 |-> IF i = 0 THEN Base ELSE Step(g[i - 1], i)]
      OBVIOUS
    <3> QED BY <3>1
  <2>2. ASSUME NEW n \in N PROVE n + 1 \in N
    <3>1. PICK f : f = [i \in 0..n |-> IF i = 0 THEN Base ELSE Step(f[i - 1], i)]
      OBVIOUS
    <3> DEFINE g == [i \in 0..(n + 1) |-> IF i <= n THEN f[i] ELSE Step(f[n], n + 1)]
    <3>2. /\ n \in Nat /\ n + 1 \in Nat /\ g[n + 1] = Step(f[n], n + 1)
          /\ \A i \in 0..n : g[i] = f[i]
      OBVIOUS
    <3>3. g = [i \in 0..(n + 1) |-> g[i]]
      OBVIOUS
    <3> HIDE DEF g
    <3>4. ASSUME NEW i \in 0..(n + 1) PROVE g[i] = IF i = 0 THEN Base ELSE Step(g[i - 1], i)
      <4>1. CASE i <= n
        <5>1. i \in 0..n /\ g[i] = f[i] /\ (i # 0 => g[i - 1] = f[i - 1])
          BY <3>2, <4>1
        <5>2. f[i] = IF i = 0 THEN Base ELSE Step(f[i - 1], i)
          BY <3>1, <5>1, Zenon
        <5> QED BY <5>1, <5>2
      <4>2. CASE i = n + 1
        <5>1. i # 0 /\ i - 1 = n /\ g[i - 1] = f[n]
          BY <3>2, <4>2
        <5> QED BY <3>2, <4>2, <5>1
      <4> QED BY <3>2, <4>1, <4>2
    <3>5. g = [i \in 0..(n + 1) |-> IF i = 0 THEN Base ELSE Step(g[i - 1], i)]
      BY <3>3, <3>4, Zenon
    <3>6. \E h : h = [i \in 0..(n + 1) |-> IF i = 0 THEN Base ELSE Step(h[i - 1], i)]
      BY <3>5, Zenon
    <3> QED BY <3>2, <3>6, Zenon
  <2>3. N = Nat
    BY <2>1, <2>2, SetInduction
  <2>4. Len(q) \in N
    BY <2>3
  <2> QED BY <2>4, Zenon
<1>2. F = [i \in 0..Len(q) |-> IF i = 0 THEN Base ELSE Step(F[i - 1], i)]
  BY <1>1, Zenon DEF Lefts
<1>3. Omit(q, S) = F[Len(q)]
  BY <1>1, Zenon DEF Omit, Lefts
<1>4. 0 \in 0..Len(q) /\ \A i \in 1..Len(q) : i \in 0..Len(q) /\ i # 0
  OBVIOUS
<1> HIDE DEF F
<1>5. F[0] = Base /\ \A i \in 1..Len(q) : F[i] = Step(F[i - 1], i)
  BY <1>2, <1>4, Zenon
<1> QED BY <1>3, <1>5, Zenon DEF F

(* The states a replay goes through.                                           *)
Replays(s, blocks, records) ==
  CHOOSE f : f = [i \in 0..Len(blocks) |-> IF i = 0 THEN [ok |-> TRUE, st |-> s] ELSE ReplayStep(f[i - 1], blocks[i], records)]

(* The function ReplayOn is defined by exists; what it is at each position.    *)
LEMMA ReplaysEquation ==
  ASSUME NEW s, NEW blocks, NEW records, Len(blocks) \in Nat
  PROVE  /\ Replays(s, blocks, records)[0] = [ok |-> TRUE, st |-> s]
         /\ \A i \in 1..Len(blocks) : Replays(s, blocks, records)[i] = ReplayStep(Replays(s, blocks, records)[i - 1], blocks[i], records)
         /\ ReplayOn(s, blocks, records) = Replays(s, blocks, records)[Len(blocks)]
<1> DEFINE Base == [ok |-> TRUE, st |-> s]
           Step(p, i) == ReplayStep(p, blocks[i], records)
           F == Replays(s, blocks, records)
<1>1. \E f : f = [i \in 0..Len(blocks) |-> IF i = 0 THEN Base ELSE Step(f[i - 1], i)]
  <2> HIDE DEF Base, Step
  <2> DEFINE N == {n \in Nat : \E f : f = [i \in 0..n |-> IF i = 0 THEN Base ELSE Step(f[i - 1], i)]}
  <2>1. 0 \in N
    <3> DEFINE g == [i \in 0..0 |-> Base]
    <3>1. g = [i \in 0..0 |-> IF i = 0 THEN Base ELSE Step(g[i - 1], i)]
      OBVIOUS
    <3> QED BY <3>1
  <2>2. ASSUME NEW n \in N PROVE n + 1 \in N
    <3>1. PICK f : f = [i \in 0..n |-> IF i = 0 THEN Base ELSE Step(f[i - 1], i)]
      OBVIOUS
    <3> DEFINE g == [i \in 0..(n + 1) |-> IF i <= n THEN f[i] ELSE Step(f[n], n + 1)]
    <3>2. /\ n \in Nat /\ n + 1 \in Nat /\ g[n + 1] = Step(f[n], n + 1)
          /\ \A i \in 0..n : g[i] = f[i]
      OBVIOUS
    <3>3. g = [i \in 0..(n + 1) |-> g[i]]
      OBVIOUS
    <3> HIDE DEF g
    <3>4. ASSUME NEW i \in 0..(n + 1) PROVE g[i] = IF i = 0 THEN Base ELSE Step(g[i - 1], i)
      <4>1. CASE i <= n
        <5>1. i \in 0..n /\ g[i] = f[i] /\ (i # 0 => g[i - 1] = f[i - 1])
          BY <3>2, <4>1
        <5>2. f[i] = IF i = 0 THEN Base ELSE Step(f[i - 1], i)
          BY <3>1, <5>1, Zenon
        <5> QED BY <5>1, <5>2
      <4>2. CASE i = n + 1
        <5>1. i # 0 /\ i - 1 = n /\ g[i - 1] = f[n]
          BY <3>2, <4>2
        <5> QED BY <3>2, <4>2, <5>1
      <4> QED BY <3>2, <4>1, <4>2
    <3>5. g = [i \in 0..(n + 1) |-> IF i = 0 THEN Base ELSE Step(g[i - 1], i)]
      BY <3>3, <3>4, Zenon
    <3>6. \E h : h = [i \in 0..(n + 1) |-> IF i = 0 THEN Base ELSE Step(h[i - 1], i)]
      BY <3>5, Zenon
    <3> QED BY <3>2, <3>6, Zenon
  <2>3. N = Nat
    BY <2>1, <2>2, SetInduction
  <2>4. Len(blocks) \in N
    BY <2>3
  <2> QED BY <2>4, Zenon
<1>2. F = [i \in 0..Len(blocks) |-> IF i = 0 THEN Base ELSE Step(F[i - 1], i)]
  BY <1>1, Zenon DEF Replays
<1>3. ReplayOn(s, blocks, records) = F[Len(blocks)]
  BY <1>1, Zenon DEF ReplayOn, Replays
<1>4. 0 \in 0..Len(blocks) /\ \A i \in 1..Len(blocks) : i \in 0..Len(blocks) /\ i # 0
  OBVIOUS
<1> HIDE DEF F
<1>5. F[0] = Base /\ \A i \in 1..Len(blocks) : F[i] = Step(F[i - 1], i)
  BY <1>2, <1>4, Zenon
<1> QED BY <1>3, <1>5, Zenon DEF F

(* The states an admission goes through.                                       *)
Admissions(s, q, transactions) ==
  CHOOSE f : f = [i \in 0..Len(q) |-> IF i = 0 THEN [ok |-> TRUE, st |-> s] ELSE AdmitStep(f[i - 1], q[i], transactions)]

(* The function AdmitInOrder is defined by exists; what it is at each one.    *)
LEMMA AdmissionsEquation ==
  ASSUME NEW s, NEW q, NEW transactions, Len(q) \in Nat
  PROVE  /\ Admissions(s, q, transactions)[0] = [ok |-> TRUE, st |-> s]
         /\ \A i \in 1..Len(q) : Admissions(s, q, transactions)[i] = AdmitStep(Admissions(s, q, transactions)[i - 1], q[i], transactions)
         /\ AdmitInOrder(s, q, transactions) = Admissions(s, q, transactions)[Len(q)]
<1> DEFINE Base == [ok |-> TRUE, st |-> s]
           Step(p, i) == AdmitStep(p, q[i], transactions)
           F == Admissions(s, q, transactions)
<1>1. \E f : f = [i \in 0..Len(q) |-> IF i = 0 THEN Base ELSE Step(f[i - 1], i)]
  <2> HIDE DEF Base, Step
  <2> DEFINE N == {n \in Nat : \E f : f = [i \in 0..n |-> IF i = 0 THEN Base ELSE Step(f[i - 1], i)]}
  <2>1. 0 \in N
    <3> DEFINE g == [i \in 0..0 |-> Base]
    <3>1. g = [i \in 0..0 |-> IF i = 0 THEN Base ELSE Step(g[i - 1], i)]
      OBVIOUS
    <3> QED BY <3>1
  <2>2. ASSUME NEW n \in N PROVE n + 1 \in N
    <3>1. PICK f : f = [i \in 0..n |-> IF i = 0 THEN Base ELSE Step(f[i - 1], i)]
      OBVIOUS
    <3> DEFINE g == [i \in 0..(n + 1) |-> IF i <= n THEN f[i] ELSE Step(f[n], n + 1)]
    <3>2. /\ n \in Nat /\ n + 1 \in Nat /\ g[n + 1] = Step(f[n], n + 1)
          /\ \A i \in 0..n : g[i] = f[i]
      OBVIOUS
    <3>3. g = [i \in 0..(n + 1) |-> g[i]]
      OBVIOUS
    <3> HIDE DEF g
    <3>4. ASSUME NEW i \in 0..(n + 1) PROVE g[i] = IF i = 0 THEN Base ELSE Step(g[i - 1], i)
      <4>1. CASE i <= n
        <5>1. i \in 0..n /\ g[i] = f[i] /\ (i # 0 => g[i - 1] = f[i - 1])
          BY <3>2, <4>1
        <5>2. f[i] = IF i = 0 THEN Base ELSE Step(f[i - 1], i)
          BY <3>1, <5>1, Zenon
        <5> QED BY <5>1, <5>2
      <4>2. CASE i = n + 1
        <5>1. i # 0 /\ i - 1 = n /\ g[i - 1] = f[n]
          BY <3>2, <4>2
        <5> QED BY <3>2, <4>2, <5>1
      <4> QED BY <3>2, <4>1, <4>2
    <3>5. g = [i \in 0..(n + 1) |-> IF i = 0 THEN Base ELSE Step(g[i - 1], i)]
      BY <3>3, <3>4, Zenon
    <3>6. \E h : h = [i \in 0..(n + 1) |-> IF i = 0 THEN Base ELSE Step(h[i - 1], i)]
      BY <3>5, Zenon
    <3> QED BY <3>2, <3>6, Zenon
  <2>3. N = Nat
    BY <2>1, <2>2, SetInduction
  <2>4. Len(q) \in N
    BY <2>3
  <2> QED BY <2>4, Zenon
<1>2. F = [i \in 0..Len(q) |-> IF i = 0 THEN Base ELSE Step(F[i - 1], i)]
  BY <1>1, Zenon DEF Admissions
<1>3. AdmitInOrder(s, q, transactions) = F[Len(q)]
  BY <1>1, Zenon DEF AdmitInOrder, Admissions
<1>4. 0 \in 0..Len(q) /\ \A i \in 1..Len(q) : i \in 0..Len(q) /\ i # 0
  OBVIOUS
<1> HIDE DEF F
<1>5. F[0] = Base /\ \A i \in 1..Len(q) : F[i] = Step(F[i - 1], i)
  BY <1>2, <1>4, Zenon
<1> QED BY <1>3, <1>5, Zenon DEF F

(* The steps of a pass of the reconciliation.                                  *)
Offers(s, q, transactions) ==
  CHOOSE f : f = [i \in 0..Len(q) |-> IF i = 0 THEN [st |-> s, waiting |-> <<>>, progress |-> FALSE] ELSE OfferStep(f[i - 1], q[i], transactions)]

(* The function ReconcilePass is defined by exists; what it is at each one.   *)
LEMMA OffersEquation ==
  ASSUME NEW s, NEW q, NEW transactions, Len(q) \in Nat
  PROVE  /\ Offers(s, q, transactions)[0] = [st |-> s, waiting |-> <<>>, progress |-> FALSE]
         /\ \A i \in 1..Len(q) : Offers(s, q, transactions)[i] = OfferStep(Offers(s, q, transactions)[i - 1], q[i], transactions)
         /\ ReconcilePass(s, q, transactions) = Offers(s, q, transactions)[Len(q)]
<1> DEFINE Base == [st |-> s, waiting |-> <<>>, progress |-> FALSE]
           Step(p, i) == OfferStep(p, q[i], transactions)
           F == Offers(s, q, transactions)
<1>1. \E f : f = [i \in 0..Len(q) |-> IF i = 0 THEN Base ELSE Step(f[i - 1], i)]
  <2> HIDE DEF Base, Step
  <2> DEFINE N == {n \in Nat : \E f : f = [i \in 0..n |-> IF i = 0 THEN Base ELSE Step(f[i - 1], i)]}
  <2>1. 0 \in N
    <3> DEFINE g == [i \in 0..0 |-> Base]
    <3>1. g = [i \in 0..0 |-> IF i = 0 THEN Base ELSE Step(g[i - 1], i)]
      OBVIOUS
    <3> QED BY <3>1
  <2>2. ASSUME NEW n \in N PROVE n + 1 \in N
    <3>1. PICK f : f = [i \in 0..n |-> IF i = 0 THEN Base ELSE Step(f[i - 1], i)]
      OBVIOUS
    <3> DEFINE g == [i \in 0..(n + 1) |-> IF i <= n THEN f[i] ELSE Step(f[n], n + 1)]
    <3>2. /\ n \in Nat /\ n + 1 \in Nat /\ g[n + 1] = Step(f[n], n + 1)
          /\ \A i \in 0..n : g[i] = f[i]
      OBVIOUS
    <3>3. g = [i \in 0..(n + 1) |-> g[i]]
      OBVIOUS
    <3> HIDE DEF g
    <3>4. ASSUME NEW i \in 0..(n + 1) PROVE g[i] = IF i = 0 THEN Base ELSE Step(g[i - 1], i)
      <4>1. CASE i <= n
        <5>1. i \in 0..n /\ g[i] = f[i] /\ (i # 0 => g[i - 1] = f[i - 1])
          BY <3>2, <4>1
        <5>2. f[i] = IF i = 0 THEN Base ELSE Step(f[i - 1], i)
          BY <3>1, <5>1, Zenon
        <5> QED BY <5>1, <5>2
      <4>2. CASE i = n + 1
        <5>1. i # 0 /\ i - 1 = n /\ g[i - 1] = f[n]
          BY <3>2, <4>2
        <5> QED BY <3>2, <4>2, <5>1
      <4> QED BY <3>2, <4>1, <4>2
    <3>5. g = [i \in 0..(n + 1) |-> IF i = 0 THEN Base ELSE Step(g[i - 1], i)]
      BY <3>3, <3>4, Zenon
    <3>6. \E h : h = [i \in 0..(n + 1) |-> IF i = 0 THEN Base ELSE Step(h[i - 1], i)]
      BY <3>5, Zenon
    <3> QED BY <3>2, <3>6, Zenon
  <2>3. N = Nat
    BY <2>1, <2>2, SetInduction
  <2>4. Len(q) \in N
    BY <2>3
  <2> QED BY <2>4, Zenon
<1>2. F = [i \in 0..Len(q) |-> IF i = 0 THEN Base ELSE Step(F[i - 1], i)]
  BY <1>1, Zenon DEF Offers
<1>3. ReconcilePass(s, q, transactions) = F[Len(q)]
  BY <1>1, Zenon DEF ReconcilePass, Offers
<1>4. 0 \in 0..Len(q) /\ \A i \in 1..Len(q) : i \in 0..Len(q) /\ i # 0
  OBVIOUS
<1> HIDE DEF F
<1>5. F[0] = Base /\ \A i \in 1..Len(q) : F[i] = Step(F[i - 1], i)
  BY <1>2, <1>4, Zenon
<1> QED BY <1>3, <1>5, Zenon DEF F

(* The subsidies of the eras up to this one.                                   *)
Halvings(era) ==
  CHOOSE f : f = [e \in 0..era |-> IF e = 0 THEN InitialSubsidy ELSE f[e - 1] \div 2]

(* The function Halved is defined by exists; what it is after each era.      *)
LEMMA HalvingsEquation ==
  ASSUME NEW era \in Nat
  PROVE  /\ Halvings(era)[0] = InitialSubsidy
         /\ \A e \in 1..era : Halvings(era)[e] = Halvings(era)[e - 1] \div 2
         /\ Halved(era) = Halvings(era)[era]
<1> DEFINE Base == InitialSubsidy
           Step(p, e) == p \div 2
           F == Halvings(era)
<1>1. \E f : f = [e \in 0..era |-> IF e = 0 THEN Base ELSE Step(f[e - 1], e)]
  <2> HIDE DEF Base, Step
  <2> DEFINE N == {n \in Nat : \E f : f = [e \in 0..n |-> IF e = 0 THEN Base ELSE Step(f[e - 1], e)]}
  <2>1. 0 \in N
    <3> DEFINE g == [e \in 0..0 |-> Base]
    <3>1. g = [e \in 0..0 |-> IF e = 0 THEN Base ELSE Step(g[e - 1], e)]
      OBVIOUS
    <3> QED BY <3>1
  <2>2. ASSUME NEW n \in N PROVE n + 1 \in N
    <3>1. PICK f : f = [e \in 0..n |-> IF e = 0 THEN Base ELSE Step(f[e - 1], e)]
      OBVIOUS
    <3> DEFINE g == [e \in 0..(n + 1) |-> IF e <= n THEN f[e] ELSE Step(f[n], n + 1)]
    <3>2. /\ n \in Nat /\ n + 1 \in Nat /\ g[n + 1] = Step(f[n], n + 1)
          /\ \A e \in 0..n : g[e] = f[e]
      OBVIOUS
    <3>3. g = [e \in 0..(n + 1) |-> g[e]]
      OBVIOUS
    <3> HIDE DEF g
    <3>4. ASSUME NEW e \in 0..(n + 1) PROVE g[e] = IF e = 0 THEN Base ELSE Step(g[e - 1], e)
      <4>1. CASE e <= n
        <5>1. e \in 0..n /\ g[e] = f[e] /\ (e # 0 => g[e - 1] = f[e - 1])
          BY <3>2, <4>1
        <5>2. f[e] = IF e = 0 THEN Base ELSE Step(f[e - 1], e)
          BY <3>1, <5>1, Zenon
        <5> QED BY <5>1, <5>2
      <4>2. CASE e = n + 1
        <5>1. e # 0 /\ e - 1 = n /\ g[e - 1] = f[n]
          BY <3>2, <4>2
        <5> QED BY <3>2, <4>2, <5>1
      <4> QED BY <3>2, <4>1, <4>2
    <3>5. g = [e \in 0..(n + 1) |-> IF e = 0 THEN Base ELSE Step(g[e - 1], e)]
      BY <3>3, <3>4, Zenon
    <3>6. \E h : h = [e \in 0..(n + 1) |-> IF e = 0 THEN Base ELSE Step(h[e - 1], e)]
      BY <3>5, Zenon
    <3> QED BY <3>2, <3>6, Zenon
  <2>3. N = Nat
    BY <2>1, <2>2, SetInduction
  <2>4. era \in N
    BY <2>3
  <2> QED BY <2>4, Zenon
<1>2. F = [e \in 0..era |-> IF e = 0 THEN Base ELSE Step(F[e - 1], e)]
  BY <1>1, Zenon DEF Halvings
<1>3. Halved(era) = F[era]
  BY <1>1, Zenon DEF Halved, Halvings
<1>4. 0 \in 0..era /\ \A e \in 1..era : e \in 0..era /\ e # 0
  OBVIOUS
<1> HIDE DEF F
<1>5. F[0] = Base /\ \A e \in 1..era : F[e] = Step(F[e - 1], e)
  BY <1>2, <1>4, Zenon
<1> QED BY <1>3, <1>5, Zenon DEF F

(* x stands before y in q.                                                  *)
Precedes(q, x, y) == \E i, j \in DOMAIN q : i < j /\ q[i] = x /\ q[j] = y

(* What has been kept after i positions: their elements outside S, each     *)
(* once if q has each once, in the order of q.                              *)
Kept(q, S, i, r) ==
  /\ r \in Seq(Elements(q))
  /\ Elements(r) = {q[k] : k \in {l \in 1..i : q[l] \notin S}}
  /\ \A k, l \in 1..i : k < l /\ q[k] \notin S /\ q[l] \notin S => Precedes(r, q[k], q[l])
  /\ (\A k, l \in DOMAIN q : q[k] = q[l] => k = l) => \A k, l \in DOMAIN r : r[k] = r[l] => k = l

(* One more position keeps it so.                                           *)
LEMMA KeptStep ==
  ASSUME NEW T, NEW q \in Seq(T), NEW S, NEW i \in 1..Len(q), NEW r, Kept(q, S, i - 1, r)
  PROVE  Kept(q, S, i, IF q[i] \in S THEN r ELSE Append(r, q[i]))
<1>1. CASE q[i] \in S
  BY <1>1 DEF Kept
<1>2. CASE q[i] \notin S
  <2> DEFINE a == Append(r, q[i])
  <2>0. q[i] \in Elements(q) /\ r \in Seq(Elements(q))
    BY DEF Elements, Kept
  <2>1. /\ a \in Seq(Elements(q)) /\ Len(a) = Len(r) + 1 /\ a[Len(r) + 1] = q[i]
        /\ \A k \in 1..Len(r) : a[k] = r[k]
        /\ Len(r) \in Nat /\ DOMAIN r = 1..Len(r) /\ DOMAIN a = 1..(Len(r) + 1)
    BY <2>0
  <2> HIDE DEF a
  <2>2. Elements(a) = Elements(r) \cup {q[i]}
    BY <2>1, SMTT(15) DEF Elements
  <2>3. Elements(a) = {q[k] : k \in {l \in 1..i : q[l] \notin S}}
    BY <1>2, <2>2 DEF Kept
  <2>4. ASSUME NEW k \in 1..i, NEW l \in 1..i, k < l, q[k] \notin S, q[l] \notin S
        PROVE  Precedes(a, q[k], q[l])
    <3>1. CASE l = i
      <4>1. q[k] \in Elements(r)
        BY <2>4, <3>1 DEF Kept
      <4>2. PICK m \in DOMAIN r : r[m] = q[k]
        BY <4>1 DEF Elements
      <4>3. m \in DOMAIN a /\ Len(r) + 1 \in DOMAIN a /\ m < Len(r) + 1 /\ a[m] = q[k]
        BY <2>1, <4>2
      <4> QED BY <2>1, <3>1, <4>3 DEF Precedes
    <3>2. CASE l # i
      <4>1. Precedes(r, q[k], q[l])
        BY <2>4, <3>2 DEF Kept
      <4> QED BY <2>1, <4>1 DEF Precedes
    <3> QED BY <3>1, <3>2
  <2>5. ASSUME \A k, l \in DOMAIN q : q[k] = q[l] => k = l
        PROVE  \A k, l \in DOMAIN a : a[k] = a[l] => k = l
    <3>1. \A k, l \in DOMAIN r : r[k] = r[l] => k = l
      BY <2>5 DEF Kept
    <3>2. q[i] \notin Elements(r)
      <4>1. \A k \in 1..(i - 1) : q[k] # q[i]
        BY <2>5
      <4> QED BY <4>1 DEF Kept
    <3>3. \A k \in DOMAIN r : r[k] # q[i]
      BY <3>2 DEF Elements
    <3> QED BY <2>1, <3>1, <3>3
  <2>6. Kept(q, S, i, a)
    BY <2>1, <2>3, <2>4, <2>5 DEF Kept
  <2> QED BY <1>2, <2>6 DEF a
<1> QED BY <1>1, <1>2

(* Omit lists the elements outside S, each once if q does, in their order.  *)
LEMMA OmitKeeps ==
  ASSUME NEW T, NEW q \in Seq(T), NEW S
  PROVE  /\ Omit(q, S) \in Seq(T)
         /\ Elements(Omit(q, S)) = Elements(q) \ S
         /\ (\A k, l \in DOMAIN q : q[k] = q[l] => k = l) =>
              \A k, l \in DOMAIN Omit(q, S) : Omit(q, S)[k] = Omit(q, S)[l] => k = l
         /\ \A x, y \in T \ S : Precedes(q, x, y) => Precedes(Omit(q, S), x, y)
<1> DEFINE f == Lefts(q, S)
           N == {n \in Nat : n <= Len(q) => Kept(q, S, n, f[n])}
<1>1. /\ f[0] = <<>> /\ Omit(q, S) = f[Len(q)]
      /\ \A i \in 1..Len(q) : f[i] = IF q[i] \in S THEN f[i - 1] ELSE Append(f[i - 1], q[i])
  BY LeftsEquation
<1> HIDE DEF f
<1>2. 0 \in N
  <2>1. Kept(q, S, 0, <<>>)
    BY DEF Kept, Elements
  <2> QED BY <1>1, <2>1
<1>3. ASSUME NEW n \in N PROVE n + 1 \in N
  <2> SUFFICES ASSUME n + 1 <= Len(q) PROVE Kept(q, S, n + 1, f[n + 1])
    OBVIOUS
  <2>1. Kept(q, S, n, f[n]) /\ n + 1 \in 1..Len(q) /\ (n + 1) - 1 = n
    OBVIOUS
  <2>2. Kept(q, S, n + 1, IF q[n + 1] \in S THEN f[n] ELSE Append(f[n], q[n + 1]))
    BY <2>1, KeptStep
  <2> QED BY <1>1, <2>1, <2>2
<1>4. N = Nat
  BY <1>2, <1>3, SetInduction
<1>5. Kept(q, S, Len(q), Omit(q, S))
  BY <1>1, <1>4
<1>6. Elements(q) \subseteq T
  BY DEF Elements
<1>7. Omit(q, S) \in Seq(T)
  BY <1>5, <1>6 DEF Kept
<1>8. Elements(Omit(q, S)) = Elements(q) \ S
  <2>1. Elements(Omit(q, S)) = {q[k] : k \in {l \in 1..Len(q) : q[l] \notin S}}
    BY <1>5 DEF Kept
  <2>2. {q[k] : k \in {l \in 1..Len(q) : q[l] \notin S}} = Elements(q) \ S
    BY DEF Elements
  <2> QED BY <2>1, <2>2
<1>9. ASSUME NEW x \in T \ S, NEW y \in T \ S, Precedes(q, x, y)
      PROVE  Precedes(Omit(q, S), x, y)
  <2>1. PICK i, j \in DOMAIN q : i < j /\ q[i] = x /\ q[j] = y
    BY <1>9 DEF Precedes
  <2>2. i \in 1..Len(q) /\ j \in 1..Len(q)
    OBVIOUS
  <2> QED BY <1>5, <2>2, <2>1 DEF Kept
<1> QED BY <1>5, <1>7, <1>8, <1>9 DEF Kept

-----------------------------------------------------------------------------
(* Any finite set can be listed in the order of a total transitive relation. *)
LEMMA ListingExists ==
  ASSUME NEW S, IsFiniteSet(S), NEW R,
         \A a, b \in S : a # b => <<a, b>> \in R \/ <<b, a>> \in R,
         \A a, b, c \in S : <<a, b>> \in R /\ <<b, c>> \in R => <<a, c>> \in R
  PROVE  \E q \in [1..Cardinality(S) -> S] :
           \A i, j \in 1..Cardinality(S) : i < j => <<q[i], q[j]>> \in R
<1> DEFINE Listed(T, n, q) == q \in [1..n -> T] /\ \A i, j \in 1..n : i < j => <<q[i], q[j]>> \in R
           N == {n \in Nat : \A T \in SUBSET S : Cardinality(T) = n => \E q : Listed(T, n, q)}
<1>1. 0 \in N
  <2>1. ASSUME NEW T \in SUBSET S, Cardinality(T) = 0 PROVE \E q : Listed(T, 0, q)
    <3>1. T = {}
      BY <2>1, FS_Subset, FS_EmptySet
    <3>2. Listed(T, 0, <<>>)
      BY <3>1
    <3> QED BY <3>2
  <2> QED BY <2>1
<1>2. ASSUME NEW n \in N PROVE n + 1 \in N
  <2> SUFFICES ASSUME NEW T \in SUBSET S, Cardinality(T) = n + 1 PROVE \E q : Listed(T, n + 1, q)
    OBVIOUS
  <2>0. n \in Nat
    OBVIOUS
  <2>1. IsFiniteSet(T) /\ T # {}
    BY <2>0, FS_Subset, FS_EmptySet
  <2>2. PICK x \in T : TRUE
    BY <2>1
  <2>3. Cardinality(T \ {x}) = n
    BY <2>0, <2>1, <2>2, FS_RemoveElement, SMTT(15)
  <2>4. PICK q : Listed(T \ {x}, n, q)
    BY <2>3
  <2> DEFINE Later == {i \in 1..n : <<x, q[i]>> \in R} \cup {n + 1}
  <2>5. PICK k \in Later : \A i \in Later : k <= i
    <3>1. Later \in SUBSET Nat /\ Later # {}
      BY <2>0
    <3> QED BY <3>1, LeastElement
  <2>6. k \in 1..(n + 1) /\ (k <= n => <<x, q[k]>> \in R) /\ \A i \in 1..n : i < k => <<x, q[i]>> \notin R
    BY <2>0, <2>5
  <2> DEFINE r == [i \in 1..(n + 1) |-> IF i < k THEN q[i] ELSE IF i = k THEN x ELSE q[i - 1]]
  <2>7. \A i \in 1..n : q[i] \in S /\ q[i] # x /\ q[i] \in T
    BY <2>4
  <2>8. \A i \in 1..n : i < k => <<q[i], x>> \in R
    BY <2>2, <2>6, <2>7
  <2>9. \A i \in 1..n : i >= k => <<x, q[i]>> \in R
    <3> SUFFICES ASSUME NEW i \in 1..n, i >= k PROVE <<x, q[i]>> \in R
      OBVIOUS
    <3>1. <<x, q[k]>> \in R /\ k \in 1..n
      BY <2>0, <2>6
    <3>2. i = k \/ <<q[k], q[i]>> \in R
      BY <2>4, <3>1
    <3> QED BY <2>2, <2>7, <3>1, <3>2
  <2>10. r \in [1..(n + 1) -> T]
    <3>1. ASSUME NEW i \in 1..(n + 1) PROVE r[i] \in T
      <4>1. CASE i < k
        BY <2>0, <2>6, <2>7, <4>1
      <4>2. CASE i = k
        BY <2>2, <4>2
      <4>3. CASE i > k
        <5>1. i - 1 \in 1..n
          BY <2>0, <2>6, <4>3
        <5> QED BY <2>7, <4>3, <5>1
      <4> QED BY <2>0, <2>6, <4>1, <4>2, <4>3
    <3> QED BY <3>1
  <2>11. ASSUME NEW i \in 1..(n + 1), NEW j \in 1..(n + 1), i < j PROVE <<r[i], r[j]>> \in R
    <3>1. CASE j < k
      BY <2>0, <2>4, <2>6, <2>11, <3>1
    <3>2. CASE j = k
      BY <2>0, <2>6, <2>8, <2>11, <3>2
    <3>3. CASE j > k /\ i = k
      <4>1. j - 1 \in 1..n /\ j - 1 >= k /\ r[j] = q[j - 1] /\ r[i] = x
        BY <2>0, <2>6, <3>3
      <4> QED BY <2>9, <4>1
    <3>4. CASE j > k /\ i < k
      <4>1. j - 1 \in 1..n /\ i \in 1..n /\ i < j - 1 /\ r[j] = q[j - 1] /\ r[i] = q[i]
        BY <2>0, <2>6, <3>4
      <4> QED BY <2>4, <4>1
    <3>5. CASE j > k /\ i > k
      <4>1. j - 1 \in 1..n /\ i - 1 \in 1..n /\ i - 1 < j - 1 /\ r[j] = q[j - 1] /\ r[i] = q[i - 1]
        BY <2>0, <2>6, <2>11, <3>5
      <4> QED BY <2>4, <4>1
    <3> QED BY <2>0, <2>6, <3>1, <3>2, <3>3, <3>4, <3>5
  <2>12. Listed(T, n + 1, r)
    BY <2>10, <2>11
  <2> HIDE DEF Listed, r
  <2> QED BY <2>12
<1>3. N = Nat
  BY <1>1, <1>2, SetInduction
<1>4. Cardinality(S) \in N
  BY <1>3, FS_CardinalityType
<1> QED BY <1>4

(* Such a list has every element.                                           *)
LEMMA ListingComplete ==
  ASSUME NEW S, IsFiniteSet(S), NEW R, \A a \in S : <<a, a>> \notin R,
         NEW q \in [1..Cardinality(S) -> S],
         \A i, j \in 1..Cardinality(S) : i < j => <<q[i], q[j]>> \in R
  PROVE  q \in Seq(S) /\ Elements(q) = S
<1> DEFINE n == Cardinality(S)
<1>0. n \in Nat
  BY FS_CardinalityType
<1> HIDE DEF n
<1>1. \A i, j \in 1..n : q[i] = q[j] => i = j
  <2> SUFFICES ASSUME NEW i \in 1..n, NEW j \in 1..n, q[i] = q[j], i < j PROVE FALSE
    BY <1>0
  <2>1. <<q[i], q[j]>> \in R /\ q[i] \in S
    BY DEF n
  <2> QED BY <2>1
<1>2. q \in Injection(1..n, S)
  BY <1>1 DEF Injection, IsInjective, n
<1>3. q \in Surjection(1..n, S)
  BY <1>0, <1>2, FS_Injection, FS_Interval DEF n
<1>4. \A x \in S : \E i \in 1..n : q[i] = x
  BY <1>3 DEF Surjection
<1>5. Elements(q) = S
  BY <1>4 DEF Elements, n
<1> QED BY <1>0, <1>1, <1>5 DEF n

(* The members of S in the order of their arrival numbers.                  *)
ByArrival(S, transactions) ==
  SortBy(S, LAMBDA a, b : PersistedOrder(transactions, a, b))

(* The order of the data file lists the pending transactions.               *)
LEMMA PersistedOrderLists ==
  ASSUME NEW S \in SUBSET Txs, IsFiniteSet(S), NEW transactions,
         \A t \in S : transactions[t] \in RecordType
  PROVE  ByArrival(S, transactions) \in Seq(S) /\ Elements(ByArrival(S, transactions)) = S
<1> DEFINE R == {p \in S \X S : PersistedOrder(transactions, p[1], p[2])}
           q == SortBy(S, LAMBDA a, b : PersistedOrder(transactions, a, b))
<1>1. \A t \in S : t \in Nat /\ transactions[t].seq \in Nat
  BY LedgerAssumption DEF RecordType
<1>2. /\ \A a, b \in S : a # b => <<a, b>> \in R \/ <<b, a>> \in R
      /\ \A a, b, c \in S : <<a, b>> \in R /\ <<b, c>> \in R => <<a, c>> \in R
      /\ \A a \in S : <<a, a>> \notin R
  BY <1>1 DEF PersistedOrder
<1>3. \E r \in [1..Cardinality(S) -> S] : \A i, j \in 1..Cardinality(S) : i < j => <<r[i], r[j]>> \in R
  <2> HIDE DEF R
  <2> QED BY <1>2, ListingExists
<1>4. \E r \in [1..Cardinality(S) -> S] :
        \A i, j \in 1..Cardinality(S) : i < j => PersistedOrder(transactions, r[i], r[j])
  BY <1>3
<1>5. /\ q \in [1..Cardinality(S) -> S]
      /\ \A i, j \in 1..Cardinality(S) : i < j => PersistedOrder(transactions, q[i], q[j])
  BY <1>4, Zenon DEF SortBy
<1> HIDE DEF q
<1>6. \A i, j \in 1..Cardinality(S) : i < j => <<q[i], q[j]>> \in R
  BY <1>5
<1>7. q \in Seq(S) /\ Elements(q) = S
  <2>1. \A a \in S : <<a, a>> \notin R
    BY <1>2, Zenon
  <2>2. q \in [1..Cardinality(S) -> S]
    BY <1>5
  <2>3. \A i, j \in 1..Cardinality(S) : i < j => <<q[i], q[j]>> \in R
    BY <1>6
  <2> HIDE DEF R
  <2>4. q \in Seq(S)
    BY <2>1, <2>2, <2>3, ListingComplete
  <2>5. Elements(q) = S
    BY <2>1, <2>2, <2>3, ListingComplete
  <2> QED BY <2>4, <2>5
<1> QED BY <1>7 DEF q, ByArrival

(* The members of S in the order a reconciliation offers them.              *)
ForReorg(S, transactions) ==
  SortBy(S, LAMBDA a, b : ReorgOrder(transactions, a, b))

(* The order of a reconciliation lists the detached transactions.           *)
LEMMA ReorgOrderLists ==
  ASSUME NEW S \in SUBSET Txs, IsFiniteSet(S), NEW transactions,
         \A t \in S : transactions[t] \in RecordType
  PROVE  ForReorg(S, transactions) \in Seq(S) /\ Elements(ForReorg(S, transactions)) = S
<1> DEFINE R == {p \in S \X S : ReorgOrder(transactions, p[1], p[2])}
           q == SortBy(S, LAMBDA a, b : ReorgOrder(transactions, a, b))
<1>1. \A t \in S : t \in Nat /\ transactions[t].seq \in Nat /\ transactions[t].height \in Nat
  BY LedgerAssumption DEF RecordType
<1>2. /\ \A a, b \in S : a # b => <<a, b>> \in R \/ <<b, a>> \in R
      /\ \A a, b, c \in S : <<a, b>> \in R /\ <<b, c>> \in R => <<a, c>> \in R
      /\ \A a \in S : <<a, a>> \notin R
  BY <1>1 DEF ReorgOrder, PersistedOrder
<1>3. \E r \in [1..Cardinality(S) -> S] : \A i, j \in 1..Cardinality(S) : i < j => <<r[i], r[j]>> \in R
  <2> HIDE DEF R
  <2> QED BY <1>2, ListingExists
<1>4. \E r \in [1..Cardinality(S) -> S] :
        \A i, j \in 1..Cardinality(S) : i < j => ReorgOrder(transactions, r[i], r[j])
  BY <1>3
<1>5. /\ q \in [1..Cardinality(S) -> S]
      /\ \A i, j \in 1..Cardinality(S) : i < j => ReorgOrder(transactions, q[i], q[j])
  BY <1>4, Zenon DEF SortBy
<1> HIDE DEF q
<1>6. \A i, j \in 1..Cardinality(S) : i < j => <<q[i], q[j]>> \in R
  BY <1>5
<1>7. q \in Seq(S) /\ Elements(q) = S
  <2>1. \A a \in S : <<a, a>> \notin R
    BY <1>2, Zenon
  <2>2. q \in [1..Cardinality(S) -> S]
    BY <1>5
  <2>3. \A i, j \in 1..Cardinality(S) : i < j => <<q[i], q[j]>> \in R
    BY <1>6
  <2> HIDE DEF R
  <2>4. q \in Seq(S)
    BY <2>1, <2>2, <2>3, ListingComplete
  <2>5. Elements(q) = S
    BY <2>1, <2>2, <2>3, ListingComplete
  <2> QED BY <2>4, <2>5
<1> QED BY <1>7 DEF q, ForReorg
-----------------------------------------------------------------------------
(* Every subsidy is a natural number.                                       *)
LEMMA SubsidyNat ==
  ASSUME NEW height \in Nat, height > 0
  PROVE  Subsidy(height) \in Nat
<1> DEFINE era == (height - 1) \div HalvingEraBlocks
<1>1. era \in Nat
  BY LedgerAssumption
<1> HIDE DEF era
<1> DEFINE f == Halvings(era)
           N == {n \in Nat : n <= era => f[n] \in Nat}
<1>2. f[0] = InitialSubsidy /\ (\A e \in 1..era : f[e] = f[e - 1] \div 2) /\ Halved(era) = f[era]
  BY <1>1, HalvingsEquation
<1> HIDE DEF f
<1>3. 0 \in N
  BY <1>2, LedgerAssumption
<1>4. ASSUME NEW n \in N PROVE n + 1 \in N
  BY <1>1, <1>2
<1>5. N = Nat
  BY <1>3, <1>4, SetInduction
<1>6. Halved(era) \in Nat
  BY <1>1, <1>2, <1>5
<1> QED BY <1>6 DEF Subsidy, era

(* What a transaction consists of.                                          *)
LEMMA TxFacts ==
  ASSUME NEW t \in Txs
  PROVE  /\ Inputs[t] \in Seq(Outpoint) /\ Outputs[t] \in Seq(Nat \ {0})
         /\ Len(Inputs[t]) \in Nat \ {0} /\ Len(Outputs[t]) \in Nat \ {0}
         /\ \A i, j \in DOMAIN Inputs[t] : Inputs[t][i] = Inputs[t][j] => i = j
         /\ OutputSum(t) \in Nat
         /\ InputSet(t) \subseteq Outpoint /\ InputSet(t) # {}
         /\ OutpointsOf(t) \subseteq Outpoint
         /\ \A o \in OutpointsOf(t) : o[1] = t /\ OutputAmount(o) \in Nat \ {0}
<1>1. /\ Inputs[t] \in Seq(Outpoint) /\ Outputs[t] \in Seq(Nat \ {0})
      /\ Inputs[t] # <<>> /\ Outputs[t] # <<>>
      /\ \A i, j \in DOMAIN Inputs[t] : Inputs[t][i] = Inputs[t][j] => i = j
  BY LedgerAssumption
<1>2. Len(Inputs[t]) \in Nat \ {0} /\ Len(Outputs[t]) \in Nat \ {0}
  BY <1>1
<1>3. OutputSum(t) \in Nat
  <2>1. Outputs[t] \in Seq(Nat)
    BY <1>1
  <2> QED BY <2>1, SumSeqNat DEF OutputSum
<1>4. InputSet(t) \subseteq Outpoint /\ InputSet(t) # {}
  <2>1. \A i \in DOMAIN Inputs[t] : Inputs[t][i] \in Outpoint
    BY <1>1
  <2>2. 1 \in DOMAIN Inputs[t]
    BY <1>1, <1>2
  <2> QED BY <2>1, <2>2 DEF InputSet, Elements
<1>5. \A i \in DOMAIN Outputs[t] : i - 1 \in Nat /\ (i - 1) + 1 = i /\ Outputs[t][i] \in Nat \ {0}
  BY <1>1
<1>6. OutpointsOf(t) \subseteq Outpoint
  BY <1>5 DEF OutpointsOf, Outpoint
<1>7. \A o \in OutpointsOf(t) : o[1] = t /\ OutputAmount(o) \in Nat \ {0}
  <2> SUFFICES ASSUME NEW i \in DOMAIN Outputs[t]
               PROVE  <<t, i - 1>>[1] = t /\ OutputAmount(<<t, i - 1>>) \in Nat \ {0}
    BY DEF OutpointsOf
  <2> QED BY <1>5 DEF OutputAmount
<1> QED BY <1>1, <1>2, <1>3, <1>4, <1>6, <1>7
-----------------------------------------------------------------------------
(* What a chain alone says of the outputs.                                  *)
ChainTxs(c) == UNION {Elements(c[i].txids) : i \in DOMAIN c}
Coinbases(c) == {<<c[i].hash, 0>> : i \in DOMAIN c}
SpentIn(c) == UNION {InputSet(t) : t \in ChainTxs(c)}
Created(c) == Coinbases(c) \cup UNION {OutpointsOf(t) : t \in ChainTxs(c)}
AmountIn(c, o) ==
  IF o \in Coinbases(c) THEN c[CHOOSE i \in DOMAIN c : c[i].hash = o[1]].coinbase ELSE OutputAmount(o)
UtxosSound(utxos, c) ==
  /\ utxos \in [Created(c) -> [amount : Nat, spent : BOOLEAN]]
  /\ \A o \in Created(c) : utxos[o].amount = AmountIn(c, o) /\ (utxos[o].spent <=> o \in SpentIn(c))

(* The blocks of a chain are numbered and have hashes and transactions of   *)
(* their own.                                                               *)
ChainSound(c) ==
  /\ c \in Seq(BlockType)
  /\ \A i \in DOMAIN c : /\ c[i].height = i
                         /\ \A k, l \in DOMAIN c[i].txids : c[i].txids[k] = c[i].txids[l] => k = l
  /\ \A i, j \in DOMAIN c : c[i].hash = c[j].hash => i = j
  /\ \A i, j \in DOMAIN c : i # j => Elements(c[i].txids) \cap Elements(c[j].txids) = {}

(* The confirmed transactions are those of the chain; none spends what      *)
(* another does, and all they spend was created.                            *)
ConfirmedSound(s) ==
  /\ Confirmed(s) = ChainTxs(s.chain)
  /\ \A i \in DOMAIN s.chain : \A t \in Elements(s.chain[i].txids) : s.transactions[t].height = i
  /\ \A t, u \in Confirmed(s) : t # u => InputSet(t) \cap InputSet(u) = {}
  /\ SpentIn(s.chain) \subseteq Created(s.chain)
  /\ UtxosSound(s.utxos, s.chain)

PoolSound(s) ==
  /\ Elements(s.mempoolOrder) = Pending(s)
  /\ \A i, j \in DOMAIN s.mempoolOrder : s.mempoolOrder[i] = s.mempoolOrder[j] => i = j
  /\ DOMAIN s.mempoolSpends = UNION {InputSet(t) : t \in Pending(s)}
  /\ \A t \in Pending(s) : \A o \in InputSet(t) : s.mempoolSpends[o] = t
  /\ DOMAIN s.mempoolOutputs = UNION {OutpointsOf(t) : t \in Pending(s)}
  /\ \A o \in DOMAIN s.mempoolOutputs : s.mempoolOutputs[o] = OutputAmount(o)
  /\ \A t \in Pending(s) : \A o \in InputSet(t) :
       Unspent(s, o) \/ \E u \in Pending(s) : o \in OutpointsOf(u) /\ Precedes(s.mempoolOrder, u, t)

InputAmounts(s, t) == [k \in DOMAIN Inputs[t] |-> ConfirmAmount(s, Inputs[t][k])]
FeesSound(s) ==
  \A t \in Known(s) : OutputSum(t) + s.transactions[t].fee = SumSeq(InputAmounts(s, t))

(* What is unspent is what was issued, less the fees nobody collected, and  *)
(* no more than the cap was.                                                *)
Balanced(s) ==
  /\ IsFiniteSet(DOMAIN s.utxos)
  /\ UnspentValue(s) + BurnedFees(s) = Issued(s) /\ Issued(s) <= MaxSupply

Shape(s) ==
  DOMAIN s = {"chain", "transactions", "mempoolOrder", "mempoolSeq", "utxos", "mempoolSpends", "mempoolOutputs"}

Sound(s) ==
  /\ Shape(s) /\ LedgerType(s) /\ IsFiniteSet(Known(s))
  /\ ChainSound(s.chain) /\ ConfirmedSound(s) /\ PoolSound(s) /\ FeesSound(s) /\ Balanced(s)

-----------------------------------------------------------------------------
(* The parts of a state after a transaction has been accepted.              *)
LEMMA AcceptParts ==
  ASSUME NEW s, Shape(s), NEW t, NEW seq
  PROVE  LET r == AcceptTxInto(s, t, seq)
         IN  /\ Shape(r) /\ r.chain = s.chain /\ r.utxos = s.utxos
             /\ r.mempoolSeq = Larger(s.mempoolSeq, seq) /\ r.mempoolOrder = Append(s.mempoolOrder, t)
             /\ r.transactions = Overlay([u \in {t} |-> [status |-> "pending", height |-> 0, seq |-> seq,
                                           fee |-> InputSum(s, t) - OutputSum(t)]], s.transactions)
             /\ r.mempoolSpends = Overlay([o \in InputSet(t) |-> t], s.mempoolSpends)
             /\ r.mempoolOutputs = Overlay([o \in OutpointsOf(t) |-> OutputAmount(o)], s.mempoolOutputs)
<1> DEFINE r == AcceptTxInto(s, t, seq)
<1>1. /\ r.chain = s.chain /\ r.utxos = s.utxos
      /\ r.mempoolSeq = Larger(s.mempoolSeq, seq) /\ r.mempoolOrder = Append(s.mempoolOrder, t)
      /\ r.mempoolSpends = Overlay([o \in InputSet(t) |-> t], s.mempoolSpends)
      /\ r.mempoolOutputs = Overlay([o \in OutpointsOf(t) |-> OutputAmount(o)], s.mempoolOutputs)
  BY DEF AcceptTxInto, Shape
<1>2. r.transactions = Overlay([u \in {t} |-> [status |-> "pending", height |-> 0, seq |-> seq,
                                 fee |-> InputSum(s, t) - OutputSum(t)]], s.transactions)
  BY DEF AcceptTxInto, Shape
<1>3. Shape(r)
  BY DEF AcceptTxInto, Shape
<1> QED BY <1>1, <1>2, <1>3

(* No error means that the transaction is new, that its inputs can be       *)
(* spent, that nobody reserves them and that they cover the outputs.        *)
LEMMA AcceptConditions ==
  ASSUME NEW s, NEW t, AcceptError(s, t) = "none"
  PROVE  /\ t \notin Known(s)
         /\ \A o \in InputSet(t) : Spendable(s, o) /\ ~Reserved(s, o)
         /\ ~Overspends(s, t)
BY DEF AcceptError, InputSet, Elements

(* An outpoint belongs to one transaction or to one block.                  *)
LEMMA OutpointsApart ==
  ASSUME NEW t \in Txs, NEW u \in Txs, t # u
  PROVE  OutpointsOf(t) \cap OutpointsOf(u) = {}
<1> SUFFICES ASSUME NEW o \in OutpointsOf(t), o \in OutpointsOf(u) PROVE FALSE
  OBVIOUS
<1> QED BY TxFacts

(* No coinbase is an output of a transaction.                               *)
LEMMA CoinbasesApart ==
  ASSUME NEW c, ChainSound(c), NEW t \in Txs
  PROVE  Coinbases(c) \cap OutpointsOf(t) = {}
<1> SUFFICES ASSUME NEW i \in DOMAIN c, <<c[i].hash, 0>> \in OutpointsOf(t) PROVE FALSE
  BY DEF Coinbases
<1>1. <<c[i].hash, 0>>[1] = t
  BY TxFacts
<1>2. c[i] \in BlockType
  BY DEF ChainSound
<1>3. c[i].hash \in Hashes \cup {GenesisHash}
  BY <1>2 DEF BlockType
<1> QED BY <1>1, <1>3, LedgerAssumption

(* The outputs of a sound state, as its chain has them.                     *)
LEMMA UtxosFacts ==
  ASSUME NEW s, UtxosSound(s.utxos, s.chain)
  PROVE  /\ DOMAIN s.utxos = Created(s.chain)
         /\ \A o : Unspent(s, o) <=> o \in Created(s.chain) /\ o \notin SpentIn(s.chain)
<1>1. DOMAIN s.utxos = Created(s.chain)
  BY DEF UtxosSound
<1>2. \A o \in Created(s.chain) : s.utxos[o].spent <=> o \in SpentIn(s.chain)
  BY DEF UtxosSound
<1> QED BY <1>1, <1>2, Zenon DEF Unspent

(* The transactions of a sound chain have their type.                       *)
LEMMA ChainTxsTyped ==
  ASSUME NEW c, ChainSound(c)
  PROVE  ChainTxs(c) \subseteq Txs
<1> SUFFICES ASSUME NEW i \in DOMAIN c, NEW t \in Elements(c[i].txids) PROVE t \in Txs
  BY DEF ChainTxs
<1>1. c[i] \in BlockType
  BY DEF ChainSound
<1>2. c[i].txids \in Seq(Txs)
  BY <1>1 DEF BlockType
<1> QED BY <1>2 DEF Elements

(* An outpoint of a transaction that is not in the chain is not in utxos.   *)
LEMMA NotInChain ==
  ASSUME NEW c, ChainSound(c), NEW t \in Txs, t \notin ChainTxs(c), NEW o \in OutpointsOf(t)
  PROVE  o \notin Created(c)
<1>1. o \notin Coinbases(c)
  BY CoinbasesApart
<1>2. ASSUME NEW u \in ChainTxs(c) PROVE o \notin OutpointsOf(u)
  <2>1. u \in Txs
    BY ChainTxsTyped
  <2> QED BY <2>1, OutpointsApart
<1> QED BY <1>1, <1>2 DEF Created

(* What can be spent is worth what applyConfirmedTx will find.              *)
LEMMA SpendableIsConfirmable ==
  ASSUME NEW s, Sound(s), NEW o, Spendable(s, o)
  PROVE  SpendableAmount(s, o) = ConfirmAmount(s, o) /\ ConfirmAmount(s, o) \in Nat
<1>1. \A x \in DOMAIN s.utxos : s.utxos[x].amount \in Nat
  BY DEF Sound, LedgerType
<1>2. CASE Unspent(s, o)
  BY <1>1, <1>2 DEF SpendableAmount, ConfirmAmount, Unspent
<1>3. CASE ~Unspent(s, o)
  <2>1. o \in DOMAIN s.mempoolOutputs /\ s.mempoolOutputs[o] = OutputAmount(o)
    BY <1>3 DEF Spendable, Sound, PoolSound
  <2>2. PICK u \in Pending(s) : o \in OutpointsOf(u)
    BY <2>1 DEF Sound, PoolSound
  <2>3. u \in Txs /\ u \notin Confirmed(s)
    BY DEF Sound, LedgerType, Pending, Known, Confirmed
  <2>4. o \notin Created(s.chain)
    BY <2>2, <2>3, NotInChain DEF Sound, ConfirmedSound
  <2>5. o \notin DOMAIN s.utxos
    BY <2>4, UtxosFacts DEF Sound, ConfirmedSound
  <2>6. OutputAmount(o) \in Nat
    BY <2>2, <2>3, TxFacts
  <2> QED BY <1>3, <2>1, <2>5, <2>6 DEF SpendableAmount, ConfirmAmount
<1> QED BY <1>2, <1>3

(* So what an acceptable transaction spends adds up to a natural number.    *)
LEMMA InputSumFacts ==
  ASSUME NEW s, Sound(s), NEW t \in Txs, \A o \in InputSet(t) : Spendable(s, o)
  PROVE  InputSum(s, t) = SumSeq(InputAmounts(s, t)) /\ InputSum(s, t) \in Nat
<1>1. Inputs[t] \in Seq(Outpoint) /\ \A k \in DOMAIN Inputs[t] : Inputs[t][k] \in InputSet(t)
  BY TxFacts DEF InputSet, Elements
<1>2. \A k \in DOMAIN Inputs[t] : /\ SpendableAmount(s, Inputs[t][k]) = ConfirmAmount(s, Inputs[t][k])
                                  /\ ConfirmAmount(s, Inputs[t][k]) \in Nat
  BY <1>1, SpendableIsConfirmable
<1>3. [k \in DOMAIN Inputs[t] |-> SpendableAmount(s, Inputs[t][k])] = InputAmounts(s, t)
  BY <1>2 DEF InputAmounts
<1>4. InputAmounts(s, t) \in Seq(Nat)
  BY <1>1, <1>2 DEF InputAmounts
<1> QED BY <1>3, <1>4, SumSeqNat DEF InputSum

(* Appending to a sequence keeps its order and puts the new element last.   *)
LEMMA AppendPrecedes ==
  ASSUME NEW T, NEW q \in Seq(T), NEW x \in T
  PROVE  /\ \A a, b : Precedes(q, a, b) => Precedes(Append(q, x), a, b)
         /\ \A a \in Elements(q) : Precedes(Append(q, x), a, x)
         /\ Elements(Append(q, x)) = Elements(q) \cup {x}
         /\ (\A i, j \in DOMAIN q : q[i] = q[j] => i = j) /\ x \notin Elements(q) =>
              \A i, j \in DOMAIN Append(q, x) : Append(q, x)[i] = Append(q, x)[j] => i = j
<1> DEFINE r == Append(q, x)
<1>1. /\ Len(q) \in Nat /\ DOMAIN q = 1..Len(q) /\ DOMAIN r = 1..(Len(q) + 1)
      /\ r[Len(q) + 1] = x /\ \A i \in 1..Len(q) : r[i] = q[i]
  OBVIOUS
<1> HIDE DEF r
<1>2. \A a, b : Precedes(q, a, b) => Precedes(r, a, b)
  BY <1>1 DEF Precedes
<1>3. ASSUME NEW a \in Elements(q) PROVE Precedes(r, a, x)
  <2>1. PICK i \in 1..Len(q) : q[i] = a
    BY <1>1 DEF Elements
  <2>2. i \in DOMAIN r /\ Len(q) + 1 \in DOMAIN r /\ i < Len(q) + 1 /\ r[i] = a
    BY <1>1, <2>1
  <2> QED BY <1>1, <2>2 DEF Precedes
<1>4. Elements(r) = Elements(q) \cup {x}
  BY <1>1 DEF Elements
<1>5. ASSUME \A i, j \in DOMAIN q : q[i] = q[j] => i = j, x \notin Elements(q)
      PROVE  \A i, j \in DOMAIN r : r[i] = r[j] => i = j
  <2>1. \A i \in 1..Len(q) : q[i] # x
    BY <1>1, <1>5 DEF Elements
  <2> QED BY <1>1, <1>5, <2>1
<1> QED BY <1>2, <1>3, <1>4, <1>5 DEF r

(* A state with the same chain, outputs and confirmed records is balanced   *)
(* if the other is.                                                         *)
LEMMA SameBalance ==
  ASSUME NEW s, Balanced(s), NEW r, r.chain = s.chain, r.utxos = s.utxos, Confirmed(r) = Confirmed(s),
         \A t \in Confirmed(s) : r.transactions[t] = s.transactions[t]
  PROVE  Balanced(r)
<1>1. UnspentValue(r) = UnspentValue(s)
  BY DEF UnspentValue, UnspentOutputs, Unspent
<1>2. Feeless(r) = Feeless(s)
  BY DEF Feeless
<1>3. \A t \in Feeless(s) : r.transactions[t].fee = s.transactions[t].fee
  BY DEF Feeless
<1>4. [t \in Feeless(r) |-> r.transactions[t].fee] = [t \in Feeless(s) |-> s.transactions[t].fee]
  BY <1>2, <1>3
<1>5. BurnedFees(r) = BurnedFees(s)
  BY <1>2, <1>4 DEF BurnedFees
<1>6. Issued(r) = Issued(s)
  BY DEF Issued
<1> QED BY <1>1, <1>5, <1>6 DEF Balanced

(* An accepted transaction joins a sound state and leaves it sound.         *)
LEMMA AcceptKeepsSound ==
  ASSUME NEW s, Sound(s), NEW t \in Txs, AcceptError(s, t) = "none", NEW seq \in Nat
  PROVE  LET r == AcceptTxInto(s, t, seq)
         IN  /\ Sound(r) /\ r.chain = s.chain /\ r.utxos = s.utxos
             /\ Pending(r) = Pending(s) \cup {t} /\ Confirmed(r) = Confirmed(s)
             /\ Known(r) = Known(s) \cup {t}
             /\ \A u \in Known(s) : r.transactions[u] = s.transactions[u]
<1> DEFINE r == AcceptTxInto(s, t, seq)
           record == [status |-> "pending", height |-> 0, seq |-> seq, fee |-> InputSum(s, t) - OutputSum(t)]
<1>s. /\ Shape(s) /\ LedgerType(s) /\ IsFiniteSet(Known(s))
      /\ ChainSound(s.chain) /\ ConfirmedSound(s) /\ PoolSound(s) /\ FeesSound(s)
  BY DEF Sound
<1>t. /\ t \notin Known(s) /\ ~Overspends(s, t)
      /\ \A o \in InputSet(t) : Spendable(s, o) /\ ~Reserved(s, o)
  BY AcceptConditions
<1>1. /\ Shape(r) /\ r.chain = s.chain /\ r.utxos = s.utxos
      /\ r.mempoolSeq = Larger(s.mempoolSeq, seq) /\ r.mempoolOrder = Append(s.mempoolOrder, t)
      /\ r.transactions = Overlay([u \in {t} |-> record], s.transactions)
      /\ r.mempoolSpends = Overlay([o \in InputSet(t) |-> t], s.mempoolSpends)
      /\ r.mempoolOutputs = Overlay([o \in OutpointsOf(t) |-> OutputAmount(o)], s.mempoolOutputs)
  BY <1>s, AcceptParts
<1>2. /\ InputSum(s, t) = SumSeq(InputAmounts(s, t)) /\ InputSum(s, t) \in Nat
      /\ OutputSum(t) \in Nat /\ OutputSum(t) <= InputSum(s, t)
  BY <1>t, InputSumFacts, TxFacts DEF Overspends
<1>3. record \in RecordType /\ record.status = "pending" /\ OutputSum(t) + record.fee = SumSeq(InputAmounts(s, t))
  <2>1. InputSum(s, t) - OutputSum(t) \in Nat
    BY <1>2
  <2> QED BY <1>2, <2>1 DEF RecordType
<1> HIDE DEF r, record
<1>4. /\ Known(r) = Known(s) \cup {t} /\ r.transactions[t] = record
      /\ \A u \in Known(s) : r.transactions[u] = s.transactions[u]
  BY <1>1, <1>t DEF Known, Overlay
<1>5. Pending(r) = Pending(s) \cup {t} /\ Confirmed(r) = Confirmed(s)
  BY <1>3, <1>4, <1>t DEF Pending, Confirmed
<1>6. /\ DOMAIN r.mempoolSpends = DOMAIN s.mempoolSpends \cup InputSet(t)
      /\ \A o \in InputSet(t) : r.mempoolSpends[o] = t
      /\ \A o \in DOMAIN s.mempoolSpends : o \notin InputSet(t) /\ r.mempoolSpends[o] = s.mempoolSpends[o]
  BY <1>1, <1>t DEF Reserved, Overlay
<1>7. /\ DOMAIN r.mempoolOutputs = DOMAIN s.mempoolOutputs \cup OutpointsOf(t)
      /\ \A o \in OutpointsOf(t) : r.mempoolOutputs[o] = OutputAmount(o)
      /\ \A o \in DOMAIN s.mempoolOutputs \ OutpointsOf(t) : r.mempoolOutputs[o] = s.mempoolOutputs[o]
  BY <1>1 DEF Overlay
<1>8. LedgerType(r)
  <2>1. DOMAIN r.transactions \subseteq Txs /\ \A u \in DOMAIN r.transactions : r.transactions[u] \in RecordType
    BY <1>s, <1>3, <1>4 DEF LedgerType, Known
  <2>2. r.mempoolOrder \in Seq(Txs) /\ r.mempoolSeq \in Nat
    BY <1>s, <1>1 DEF LedgerType, Larger
  <2>3. DOMAIN r.mempoolSpends \subseteq Outpoint /\ \A o \in DOMAIN r.mempoolSpends : r.mempoolSpends[o] \in Txs
    BY <1>s, <1>6, TxFacts DEF LedgerType
  <2>4. DOMAIN r.mempoolOutputs \subseteq Outpoint /\ \A o \in DOMAIN r.mempoolOutputs : r.mempoolOutputs[o] \in Nat
    BY <1>s, <1>7, TxFacts DEF LedgerType
  <2> QED BY <1>s, <1>1, <2>1, <2>2, <2>3, <2>4 DEF LedgerType
<1>9. IsFiniteSet(Known(r))
  BY <1>s, <1>4, FS_AddElement
<1>10. ConfirmedSound(r)
  <2>1. \A i \in DOMAIN s.chain : \A u \in Elements(s.chain[i].txids) : u \in Known(s)
    BY <1>s DEF ConfirmedSound, ChainTxs, Confirmed
  <2>2. \A i \in DOMAIN r.chain : \A u \in Elements(r.chain[i].txids) : r.transactions[u].height = i
    BY <1>s, <1>1, <1>4, <2>1 DEF ConfirmedSound
  <2> QED BY <1>s, <1>1, <1>5, <2>2 DEF ConfirmedSound
<1>11. PoolSound(r)
  <2>1. s.mempoolOrder \in Seq(Txs) /\ t \notin Elements(s.mempoolOrder) /\ t \notin Pending(s)
    BY <1>s, <1>t DEF LedgerType, PoolSound, Pending
  <2>2. /\ Elements(r.mempoolOrder) = Pending(r)
        /\ \A i, j \in DOMAIN r.mempoolOrder : r.mempoolOrder[i] = r.mempoolOrder[j] => i = j
    BY <1>s, <1>1, <1>5, <2>1, AppendPrecedes DEF PoolSound
  <2>3. DOMAIN r.mempoolSpends = UNION {InputSet(u) : u \in Pending(r)}
    BY <1>s, <1>5, <1>6 DEF PoolSound
  <2>4. \A u \in Pending(r) : \A o \in InputSet(u) : r.mempoolSpends[o] = u
    BY <1>s, <1>5, <1>6 DEF PoolSound
  <2>5. DOMAIN r.mempoolOutputs = UNION {OutpointsOf(u) : u \in Pending(r)}
    BY <1>s, <1>5, <1>7 DEF PoolSound
  <2>6. \A o \in DOMAIN r.mempoolOutputs : r.mempoolOutputs[o] = OutputAmount(o)
    BY <1>s, <1>7 DEF PoolSound
  <2>7. \A o : Unspent(r, o) <=> Unspent(s, o)
    BY <1>1 DEF Unspent
  <2>8. ASSUME NEW u \in Pending(r), NEW o \in InputSet(u), ~Unspent(r, o)
        PROVE  \E v \in Pending(r) : o \in OutpointsOf(v) /\ Precedes(r.mempoolOrder, v, u)
    <3>1. CASE u \in Pending(s)
      <4>1. PICK v \in Pending(s) : o \in OutpointsOf(v) /\ Precedes(s.mempoolOrder, v, u)
        BY <1>s, <2>7, <2>8, <3>1 DEF PoolSound
      <4> QED BY <1>1, <1>5, <2>1, <4>1, AppendPrecedes
    <3>2. CASE u = t
      <4>1. o \in DOMAIN s.mempoolOutputs
        BY <1>t, <2>7, <2>8, <3>2 DEF Spendable
      <4>2. PICK v \in Pending(s) : o \in OutpointsOf(v)
        BY <1>s, <4>1 DEF PoolSound
      <4>3. v \in Elements(s.mempoolOrder)
        BY <1>s DEF PoolSound
      <4> QED BY <1>1, <1>5, <2>1, <3>2, <4>2, <4>3, AppendPrecedes
    <3> QED BY <1>5, <3>1, <3>2
  <2> QED BY <2>2, <2>3, <2>4, <2>5, <2>6, <2>8 DEF PoolSound
<1>12. FeesSound(r)
  <2>1. \A u : InputAmounts(r, u) = InputAmounts(s, u)
    BY <1>1 DEF InputAmounts, ConfirmAmount
  <2> QED BY <1>s, <1>3, <1>4, <2>1 DEF FeesSound
<1>13. Balanced(r)
  <2>1. \A u \in Confirmed(s) : r.transactions[u] = s.transactions[u]
    BY <1>4 DEF Confirmed
  <2>2. Balanced(s)
    BY DEF Sound
  <2> QED BY <1>1, <1>5, <2>1, <2>2, SameBalance
<1> QED BY <1>s, <1>1, <1>4, <1>5, <1>8, <1>9, <1>10, <1>11, <1>12, <1>13 DEF Sound, r
-----------------------------------------------------------------------------
(* What the transactions of a block spend and create, as module Ledger      *)
(* names it inside AppendBlock.                                             *)
SpentBy(S) == UNION {InputSet(t) : t \in S}
CreatedBy(S) == UNION {OutpointsOf(t) : t \in S}

(* A sequence has finitely many elements.                                   *)
LEMMA ElementsFinite ==
  ASSUME NEW T, NEW q \in Seq(T)
  PROVE  IsFiniteSet(Elements(q)) /\ Elements(q) \subseteq T
<1>1. q \in Surjection(1..Len(q), Elements(q))
  <2>1. q \in [1..Len(q) -> Elements(q)]
    BY DEF Elements
  <2>2. \A x \in Elements(q) : \E i \in 1..Len(q) : q[i] = x
    BY DEF Elements
  <2> QED BY <2>1, <2>2 DEF Surjection
<1>2. Len(q) \in Nat /\ IsFiniteSet(1..Len(q))
  BY FS_Interval
<1>3. IsFiniteSet(Elements(q))
  BY <1>1, <1>2, FS_Surjection
<1> QED BY <1>3 DEF Elements

(* What a chain says of the outputs after one more block.                   *)
LEMMA ChainAppend ==
  ASSUME NEW c, c \in Seq(BlockType), NEW b \in BlockType
  PROVE  LET d == Append(c, b)
         IN  /\ ChainTxs(d) = ChainTxs(c) \cup Elements(b.txids)
             /\ Coinbases(d) = Coinbases(c) \cup {<<b.hash, 0>>}
             /\ SpentIn(d) = SpentIn(c) \cup SpentBy(Elements(b.txids))
             /\ Created(d) = Created(c) \cup {<<b.hash, 0>>} \cup CreatedBy(Elements(b.txids))
<1> DEFINE d == Append(c, b)
<1>1. /\ Len(c) \in Nat /\ DOMAIN c = 1..Len(c) /\ DOMAIN d = 1..(Len(c) + 1)
      /\ d[Len(c) + 1] = b /\ \A i \in 1..Len(c) : d[i] = c[i]
  OBVIOUS
<1> HIDE DEF d
<1>2. ChainTxs(d) = ChainTxs(c) \cup Elements(b.txids)
  BY <1>1 DEF ChainTxs
<1>3. Coinbases(d) = Coinbases(c) \cup {<<b.hash, 0>>}
  <2>1. \A x \in Coinbases(d) : x \in Coinbases(c) \cup {<<b.hash, 0>>}
    BY <1>1 DEF Coinbases
  <2>2. \A x \in Coinbases(c) : x \in Coinbases(d)
    BY <1>1 DEF Coinbases
  <2>3. <<b.hash, 0>> \in Coinbases(d)
    BY <1>1 DEF Coinbases
  <2> QED BY <2>1, <2>2, <2>3
<1>4. SpentIn(d) = SpentIn(c) \cup SpentBy(Elements(b.txids))
  BY <1>2 DEF SpentIn, SpentBy
<1>5. Created(d) = Created(c) \cup {<<b.hash, 0>>} \cup CreatedBy(Elements(b.txids))
  BY <1>2, <1>3 DEF Created, CreatedBy
<1> QED BY <1>2, <1>3, <1>4, <1>5 DEF d

(* A block of a sound state: it is the next one, with a hash of its own,    *)
(* each of its transactions once and typed records of them, the reward and  *)
(* the coinbase it must have; no other payment waits, or all of its         *)
(* payments waited.                                                         *)
Extends(s, b, records) ==
  /\ b \in BlockType /\ b.height = Len(s.chain) + 1
  /\ \A i \in DOMAIN s.chain : s.chain[i].hash # b.hash
  /\ \A i, j \in DOMAIN b.txids : b.txids[i] = b.txids[j] => i = j
  /\ \A t \in Elements(b.txids) : records[t] \in RecordType
  /\ TxsApply(s, b.txids, records)
  /\ b.reward = ExpectedReward(s, b.height)
  /\ b.coinbase = CoinbaseValue(b.height, b.reward, TransactionFees(b.txids, records))
  /\ Pending(s) = {} \/ Elements(b.txids) \subseteq Pending(s)

(* Such a block spends what is unspent or what it creates, and none of its  *)
(* transactions is confirmed yet.                                           *)
LEMMA BlockIsNew ==
  ASSUME NEW s, Sound(s), NEW b, NEW records, Extends(s, b, records)
  PROVE  /\ Elements(b.txids) \cap ChainTxs(s.chain) = {}
         /\ CreatedBy(Elements(b.txids)) \cap Created(s.chain) = {}
         /\ \A o \in SpentBy(Elements(b.txids)) :
              \/ o \in Created(s.chain) /\ o \notin SpentIn(s.chain)
              \/ o \in CreatedBy(Elements(b.txids))
         /\ SpentBy(Elements(b.txids)) \cap SpentIn(s.chain) = {}
<1> DEFINE c == s.chain
           txs == Elements(b.txids)
<1>s. /\ LedgerType(s) /\ ChainSound(c) /\ ConfirmedSound(s)
      /\ \A o : Unspent(s, o) <=> o \in Created(c) /\ o \notin SpentIn(c)
  BY UtxosFacts DEF Sound, ConfirmedSound
<1>b. b.txids \in Seq(Txs) /\ txs \subseteq Txs
  BY ElementsFinite DEF Extends, BlockType
<1>1. \A i \in DOMAIN b.txids : \A o \in InputSet(b.txids[i]) :
        Unspent(s, o) \/ \E j \in 1..(i - 1) : o \in OutpointsOf(b.txids[j])
  BY DEF Extends, TxsApply
<1>2. txs \cap ChainTxs(c) = {}
  <2> SUFFICES ASSUME NEW k \in DOMAIN b.txids, b.txids[k] \in ChainTxs(c) PROVE FALSE
    BY DEF Elements
  <2> DEFINE Old == {i \in DOMAIN b.txids : b.txids[i] \in ChainTxs(c)}
  <2>1. PICK i \in Old : \A j \in Old : i <= j
    <3>1. Old \in SUBSET Nat /\ k \in Old
      BY <1>b
    <3> QED BY <3>1, LeastElement
  <2>2. b.txids[i] \in Txs
    BY <1>b
  <2>3. PICK o \in InputSet(b.txids[i]) : TRUE
    BY <2>2, TxFacts
  <2>4. o \in SpentIn(c) /\ o \in Created(c)
    BY <1>s, <2>1 DEF SpentIn, ConfirmedSound
  <2>5. PICK j \in 1..(i - 1) : o \in OutpointsOf(b.txids[j])
    BY <1>1, <1>s, <2>4
  <2>6. j \in DOMAIN b.txids /\ b.txids[j] \in Txs
    BY <1>b
  <2>7. b.txids[j] \in ChainTxs(c)
    BY <1>s, <2>4, <2>5, <2>6, NotInChain
  <2> QED BY <1>b, <2>1, <2>5, <2>6, <2>7
<1>3. CreatedBy(txs) \cap Created(c) = {}
  <2> SUFFICES ASSUME NEW t \in txs, NEW o \in OutpointsOf(t), o \in Created(c) PROVE FALSE
    BY DEF CreatedBy
  <2> QED BY <1>b, <1>s, <1>2, NotInChain
<1>4. ASSUME NEW o \in SpentBy(txs)
      PROVE  (o \in Created(c) /\ o \notin SpentIn(c)) \/ o \in CreatedBy(txs)
  <2>1. PICK i \in DOMAIN b.txids : o \in InputSet(b.txids[i])
    BY DEF SpentBy, Elements
  <2>2. CASE Unspent(s, o)
    BY <1>s, <2>2
  <2>3. CASE \E j \in 1..(i - 1) : o \in OutpointsOf(b.txids[j])
    <3>1. PICK j \in 1..(i - 1) : o \in OutpointsOf(b.txids[j])
      BY <2>3
    <3>2. j \in DOMAIN b.txids
      BY <1>b
    <3> QED BY <3>1, <3>2 DEF CreatedBy, Elements
  <2> QED BY <1>1, <2>1, <2>2, <2>3
<1>5. SpentBy(txs) \cap SpentIn(c) = {}
  BY <1>s, <1>3, <1>4 DEF ConfirmedSound
<1> QED BY <1>2, <1>3, <1>4, <1>5

(* The outputs after a block: what it creates and its reward are new, what  *)
(* it spends is marked, everything else is as it was.                       *)
LEMMA AppendedOutputs ==
  ASSUME NEW s, NEW b, NEW records, NEW D, s.utxos \in [D -> [amount : Nat, spent : BOOLEAN]],
         \A o \in CreatedBy(Elements(b.txids)) : OutputAmount(o) \in Nat, b.coinbase \in Nat
  PROVE  LET g       == AppendBlock(s, b, records).utxos
             created == CreatedBy(Elements(b.txids))
             spent   == SpentBy(Elements(b.txids))
             place   == <<b.hash, 0>>
         IN  /\ g \in [D \cup created \cup {place} -> [amount : Nat, spent : BOOLEAN]]
             /\ g[place].amount = b.coinbase /\ ~g[place].spent
             /\ \A o \in created \ {place} : g[o].amount = OutputAmount(o) /\ (g[o].spent <=> o \in spent)
             /\ \A o \in D \ (created \cup {place}) :
                  g[o].amount = s.utxos[o].amount /\ (g[o].spent <=> s.utxos[o].spent \/ o \in spent)
<1> DEFINE f       == s.utxos
           pay     == b.coinbase
           created == CreatedBy(Elements(b.txids))
           spent   == SpentBy(Elements(b.txids))
           place   == <<b.hash, 0>>
           fresh   == [o \in created |-> [amount |-> OutputAmount(o), spent |-> FALSE]]
           before  == Overlay(fresh, f)
           utxos   == [o \in DOMAIN before |-> [before[o] EXCEPT !.spent = @ \/ o \in spent]]
           reward  == [o \in {place} |-> [amount |-> pay, spent |-> FALSE]]
           g       == AppendBlock(s, b, records).utxos
           Entry   == [amount : Nat, spent : BOOLEAN]
<1>f. f \in [D -> Entry] /\ pay \in Nat /\ \A o \in created : OutputAmount(o) \in Nat
  OBVIOUS
<1>g. g = Overlay(reward, utxos)
  BY DEF AppendBlock, SpentBy, CreatedBy
<1> HIDE DEF f, pay, created, spent, place, g
<1>1. /\ DOMAIN before = D \cup created
      /\ \A o \in created : before[o] = [amount |-> OutputAmount(o), spent |-> FALSE]
      /\ \A o \in D \ created : before[o] = f[o]
  BY <1>f DEF Overlay
<1>2. \A o \in D \cup created : before[o] \in Entry
  <2>1. \A o \in created : [amount |-> OutputAmount(o), spent |-> FALSE] \in Entry
    BY <1>f
  <2>2. \A o \in D : f[o] \in Entry
    BY <1>f
  <2> QED BY <1>1, <2>1, <2>2, Zenon
<1> HIDE DEF before
<1>3. /\ DOMAIN utxos = D \cup created
      /\ \A o \in D \cup created : utxos[o] = [before[o] EXCEPT !.spent = @ \/ o \in spent]
  BY <1>1, Zenon
<1> HIDE DEF utxos
<1>4. \A o \in D \cup created : /\ utxos[o] \in Entry /\ utxos[o].amount = before[o].amount
                                /\ (utxos[o].spent <=> before[o].spent \/ o \in spent)
  BY <1>2, <1>3
<1>5. /\ DOMAIN g = D \cup created \cup {place}
      /\ g[place] = [amount |-> pay, spent |-> FALSE]
      /\ \A o \in (D \cup created) \ {place} : g[o] = utxos[o]
      /\ g = [o \in D \cup created \cup {place} |-> g[o]]
  BY <1>3, <1>g DEF Overlay
<1>6. \A o \in D \cup created \cup {place} : g[o] \in Entry
  <2>1. [amount |-> pay, spent |-> FALSE] \in Entry
    BY <1>f
  <2> QED BY <1>4, <1>5, <2>1, Zenon
<1>7. g \in [D \cup created \cup {place} -> Entry]
  BY <1>5, <1>6
<1>8. g[place].amount = pay /\ ~g[place].spent
  BY <1>5
<1>9. \A o \in created \ {place} : g[o].amount = OutputAmount(o) /\ (g[o].spent <=> o \in spent)
  <2> SUFFICES ASSUME NEW o \in created \ {place}
               PROVE  g[o].amount = OutputAmount(o) /\ (g[o].spent <=> o \in spent)
    OBVIOUS
  <2>1. g[o] = utxos[o] /\ before[o] = [amount |-> OutputAmount(o), spent |-> FALSE]
    BY <1>1, <1>5
  <2>2. utxos[o].amount = before[o].amount /\ (utxos[o].spent <=> before[o].spent \/ o \in spent)
    BY <1>4
  <2> QED BY <2>1, <2>2
<1>10. \A o \in D \ (created \cup {place}) :
         g[o].amount = f[o].amount /\ (g[o].spent <=> f[o].spent \/ o \in spent)
  BY <1>1, <1>4, <1>5
<1> QED BY <1>7, <1>8, <1>9, <1>10 DEF f, pay, created, spent, place, g

(* The parts of a state after a block has been appended.                    *)
LEMMA AppendParts ==
  ASSUME NEW s, NEW b, NEW records
  PROVE  LET r == AppendBlock(s, b, records)
             txs == Elements(b.txids)
         IN  /\ Shape(r) /\ r.chain = Append(s.chain, b) /\ r.mempoolSeq = s.mempoolSeq
             /\ r.mempoolOrder = Omit(s.mempoolOrder, txs)
             /\ r.mempoolSpends = Without(s.mempoolSpends, SpentBy(txs))
             /\ r.mempoolOutputs = Without(s.mempoolOutputs, CreatedBy(txs))
<1> DEFINE r == AppendBlock(s, b, records)
<1>1. /\ r.chain = Append(s.chain, b) /\ r.mempoolSeq = s.mempoolSeq
      /\ r.mempoolOrder = Omit(s.mempoolOrder, Elements(b.txids))
      /\ r.mempoolSpends = Without(s.mempoolSpends, SpentBy(Elements(b.txids)))
      /\ r.mempoolOutputs = Without(s.mempoolOutputs, CreatedBy(Elements(b.txids)))
  BY DEF AppendBlock, ReservationsLeft, SpentBy, CreatedBy
<1>2. Shape(r)
  BY DEF AppendBlock, Shape
<1> QED BY <1>1, <1>2

(* The chain with such a block at its end.                                  *)
LEMMA ChainExtended ==
  ASSUME NEW s, Sound(s), NEW b, NEW records, Extends(s, b, records)
  PROVE  /\ ChainSound(Append(s.chain, b))
         /\ <<b.hash, 0>> \notin Created(s.chain)
         /\ <<b.hash, 0>> \notin CreatedBy(Elements(b.txids))
<1> DEFINE c == s.chain
           d == Append(c, b)
           txs == Elements(b.txids)
<1>s. /\ ChainSound(c) /\ b \in BlockType /\ b.height = Len(c) + 1
      /\ \A i \in DOMAIN c : c[i].hash # b.hash
      /\ \A i, j \in DOMAIN b.txids : b.txids[i] = b.txids[j] => i = j
      /\ txs \cap ChainTxs(c) = {}
  BY BlockIsNew DEF Sound, Extends
<1>c. c \in Seq(BlockType)
  BY <1>s DEF ChainSound
<1>1. /\ Len(c) \in Nat /\ DOMAIN c = 1..Len(c) /\ DOMAIN d = 1..(Len(c) + 1)
      /\ d[Len(c) + 1] = b /\ \A i \in 1..Len(c) : d[i] = c[i]
  BY <1>c
<1>2. d \in Seq(BlockType)
  BY <1>s, <1>c
<1> HIDE DEF d
<1>3. \A i \in DOMAIN d : d[i].height = i
  BY <1>s, <1>1 DEF ChainSound
<1>4. \A i \in DOMAIN d : \A k, l \in DOMAIN d[i].txids : d[i].txids[k] = d[i].txids[l] => k = l
  <2> SUFFICES ASSUME NEW i \in DOMAIN d
               PROVE  \A k, l \in DOMAIN d[i].txids : d[i].txids[k] = d[i].txids[l] => k = l
    OBVIOUS
  <2>1. CASE i = Len(c) + 1
    BY <1>s, <1>1, <2>1
  <2>2. CASE i \in DOMAIN c
    BY <1>s, <1>1, <2>2 DEF ChainSound
  <2> QED BY <1>1, <2>1, <2>2
<1>5. ASSUME NEW i \in DOMAIN d, NEW j \in DOMAIN d, d[i].hash = d[j].hash PROVE i = j
  <2>1. CASE i \in DOMAIN c /\ j \in DOMAIN c
    BY <1>s, <1>1, <1>5, <2>1 DEF ChainSound
  <2>2. CASE i = Len(c) + 1 \/ j = Len(c) + 1
    BY <1>s, <1>1, <1>5, <2>2
  <2> QED BY <1>1, <2>1, <2>2
<1>6. ASSUME NEW i \in DOMAIN d, NEW j \in DOMAIN d, i # j
      PROVE  Elements(d[i].txids) \cap Elements(d[j].txids) = {}
  <2>1. \A k \in DOMAIN c : Elements(c[k].txids) \subseteq ChainTxs(c)
    BY DEF ChainTxs
  <2>2. CASE i \in DOMAIN c /\ j \in DOMAIN c
    <3>1. d[i] = c[i] /\ d[j] = c[j]
      BY <1>1, <2>2
    <3>2. \A k, l \in DOMAIN c : k # l => Elements(c[k].txids) \cap Elements(c[l].txids) = {}
      BY <1>s, Zenon DEF ChainSound
    <3> QED BY <1>6, <2>2, <3>1, <3>2
  <2>3. CASE i \in DOMAIN c /\ j = Len(c) + 1
    <3>1. d[i] = c[i] /\ d[j] = b /\ Elements(c[i].txids) \subseteq ChainTxs(c)
      BY <1>1, <2>1, <2>3
    <3> QED BY <1>s, <3>1
  <2>4. CASE i = Len(c) + 1 /\ j \in DOMAIN c
    <3>1. d[j] = c[j] /\ d[i] = b /\ Elements(c[j].txids) \subseteq ChainTxs(c)
      BY <1>1, <2>1, <2>4
    <3> QED BY <1>s, <3>1
  <2> QED BY <1>1, <1>6, <2>2, <2>3, <2>4
<1>7. ChainSound(d)
  BY <1>2, <1>3, <1>4, <1>5, <1>6 DEF ChainSound
<1>8. <<b.hash, 0>> \in Coinbases(d)
  BY <1>1 DEF Coinbases
<1>9. \A t \in Txs : <<b.hash, 0>> \notin OutpointsOf(t)
  BY <1>7, <1>8, CoinbasesApart
<1>10. ChainTxs(c) \subseteq Txs /\ txs \subseteq Txs
  BY <1>s, ChainTxsTyped, ElementsFinite DEF BlockType
<1>11. <<b.hash, 0>> \notin Coinbases(c)
  <2> SUFFICES ASSUME NEW i \in DOMAIN c, <<b.hash, 0>> = <<c[i].hash, 0>> PROVE FALSE
    BY DEF Coinbases
  <2> QED BY <1>s
<1>12. <<b.hash, 0>> \notin Created(c) /\ <<b.hash, 0>> \notin CreatedBy(txs)
  BY <1>9, <1>10, <1>11 DEF Created, CreatedBy
<1> QED BY <1>7, <1>12 DEF d

(* The reward of a block is worth its coinbase.                             *)
LEMMA CoinbaseAmount ==
  ASSUME NEW c, ChainSound(c), NEW i \in DOMAIN c
  PROVE  AmountIn(c, <<c[i].hash, 0>>) = c[i].coinbase
<1> DEFINE o == <<c[i].hash, 0>>
           k == CHOOSE j \in DOMAIN c : c[j].hash = o[1]
<1>1. o \in Coinbases(c) /\ o[1] = c[i].hash
  BY DEF Coinbases
<1>2. k \in DOMAIN c /\ c[k].hash = c[i].hash
  BY <1>1
<1>3. k = i
  BY <1>2 DEF ChainSound
<1> QED BY <1>1, <1>3 DEF AmountIn

(* What an output of the chain is worth does not change with a new block.   *)
LEMMA AmountsKept ==
  ASSUME NEW s, Sound(s), NEW b, NEW records, Extends(s, b, records)
  PROVE  /\ \A o \in Created(s.chain) : AmountIn(Append(s.chain, b), o) = AmountIn(s.chain, o)
         /\ \A o \in CreatedBy(Elements(b.txids)) : AmountIn(Append(s.chain, b), o) = OutputAmount(o)
         /\ AmountIn(Append(s.chain, b), <<b.hash, 0>>) = b.coinbase
<1> DEFINE c == s.chain
           d == Append(c, b)
<1>s. /\ ChainSound(c) /\ ChainSound(d) /\ b \in BlockType /\ c \in Seq(BlockType)
      /\ <<b.hash, 0>> \notin Created(c) /\ <<b.hash, 0>> \notin CreatedBy(Elements(b.txids))
  BY ChainExtended DEF Sound, Extends, ChainSound
<1>1. /\ Len(c) \in Nat /\ DOMAIN c = 1..Len(c) /\ DOMAIN d = 1..(Len(c) + 1)
      /\ d[Len(c) + 1] = b /\ \A i \in 1..Len(c) : d[i] = c[i]
  BY <1>s
<1>2. Coinbases(d) = Coinbases(c) \cup {<<b.hash, 0>>}
  BY <1>s, ChainAppend
<1> HIDE DEF d
<1>3. ASSUME NEW o \in Created(c) PROVE AmountIn(d, o) = AmountIn(c, o)
  <2>1. CASE o \in Coinbases(c)
    <3>1. PICK i \in DOMAIN c : o = <<c[i].hash, 0>>
      BY <2>1 DEF Coinbases
    <3>2. i \in DOMAIN d /\ d[i] = c[i]
      BY <1>1
    <3>3. AmountIn(c, <<c[i].hash, 0>>) = c[i].coinbase
      BY <1>s, CoinbaseAmount
    <3>4. AmountIn(d, <<d[i].hash, 0>>) = d[i].coinbase
      BY <1>s, <3>2, CoinbaseAmount
    <3> QED BY <3>1, <3>2, <3>3, <3>4
  <2>2. CASE o \notin Coinbases(c)
    <3>1. o \notin Coinbases(d)
      BY <1>s, <1>2, <2>2
    <3> QED BY <2>2, <3>1 DEF AmountIn
  <2> QED BY <2>1, <2>2
<1>4. ASSUME NEW o \in CreatedBy(Elements(b.txids)) PROVE AmountIn(d, o) = OutputAmount(o)
  <2>1. PICK t \in Elements(b.txids) : o \in OutpointsOf(t)
    BY DEF CreatedBy
  <2>2. t \in Txs
    BY <1>s, ElementsFinite DEF BlockType
  <2>3. o \notin Coinbases(d)
    BY <1>s, <2>1, <2>2, CoinbasesApart
  <2> QED BY <2>3 DEF AmountIn
<1>5. AmountIn(d, <<b.hash, 0>>) = b.coinbase
  <2>1. Len(c) + 1 \in DOMAIN d /\ d[Len(c) + 1] = b
    BY <1>1
  <2>2. AmountIn(d, <<d[Len(c) + 1].hash, 0>>) = d[Len(c) + 1].coinbase
    BY <1>s, <2>1, CoinbaseAmount
  <2> QED BY <2>1, <2>2
<1> QED BY <1>3, <1>4, <1>5 DEF d

(* So the outputs are those of the longer chain.                            *)
LEMMA OutputsExtended ==
  ASSUME NEW s, Sound(s), NEW b, NEW records, Extends(s, b, records)
  PROVE  UtxosSound(AppendBlock(s, b, records).utxos, Append(s.chain, b))
<1> DEFINE c == s.chain
           d == Append(c, b)
           txs == Elements(b.txids)
           created == CreatedBy(txs)
           spent == SpentBy(txs)
           place == <<b.hash, 0>>
           g == AppendBlock(s, b, records).utxos
           Entry == [amount : Nat, spent : BOOLEAN]
<1>s. /\ ChainSound(c) /\ c \in Seq(BlockType) /\ b \in BlockType /\ b.coinbase \in Nat
      /\ UtxosSound(s.utxos, c) /\ SpentIn(c) \subseteq Created(c)
      /\ place \notin Created(c) /\ place \notin created
  BY ChainExtended DEF Sound, ConfirmedSound, Extends, ChainSound, BlockType
<1>n. /\ created \cap Created(c) = {} /\ spent \cap SpentIn(c) = {}
      /\ spent \subseteq Created(c) \cup created
  BY BlockIsNew
<1>d. /\ SpentIn(d) = SpentIn(c) \cup spent
      /\ Created(d) = Created(c) \cup {place} \cup created
  BY <1>s, ChainAppend
<1>a. /\ \A o \in Created(c) : AmountIn(d, o) = AmountIn(c, o)
      /\ \A o \in created : AmountIn(d, o) = OutputAmount(o)
      /\ AmountIn(d, place) = b.coinbase
  BY AmountsKept
<1>t. \A o \in created : OutputAmount(o) \in Nat
  <2> SUFFICES ASSUME NEW t \in txs, NEW o \in OutpointsOf(t) PROVE OutputAmount(o) \in Nat
    BY DEF CreatedBy
  <2>1. t \in Txs
    BY <1>s, ElementsFinite DEF BlockType
  <2> QED BY <2>1, TxFacts
<1>u. /\ s.utxos \in [Created(c) -> Entry]
      /\ \A o \in Created(c) : s.utxos[o].amount = AmountIn(c, o) /\ (s.utxos[o].spent <=> o \in SpentIn(c))
  BY <1>s DEF UtxosSound
<1>1. /\ g \in [Created(c) \cup created \cup {place} -> Entry]
      /\ g[place].amount = b.coinbase /\ ~g[place].spent
      /\ \A o \in created \ {place} : g[o].amount = OutputAmount(o) /\ (g[o].spent <=> o \in spent)
      /\ \A o \in Created(c) \ (created \cup {place}) :
           g[o].amount = s.utxos[o].amount /\ (g[o].spent <=> s.utxos[o].spent \/ o \in spent)
  <2> HIDE DEF Entry
  <2> QED BY <1>s, <1>t, <1>u, AppendedOutputs, Zenon DEF Entry
<1> HIDE DEF created, spent, place, d, g
<1>2. g \in [Created(d) -> Entry]
  BY <1>1, <1>d
<1>3. ASSUME NEW o \in Created(d)
      PROVE  g[o].amount = AmountIn(d, o) /\ (g[o].spent <=> o \in SpentIn(d))
  <2>1. CASE o \in Created(c)
    BY <1>1, <1>s, <1>n, <1>a, <1>u, <1>d, <2>1
  <2>2. CASE o \in created
    BY <1>1, <1>s, <1>n, <1>a, <1>d, <2>2
  <2>3. CASE o = place
    BY <1>1, <1>s, <1>n, <1>a, <1>d, <2>3
  <2> QED BY <1>d, <2>1, <2>2, <2>3
<1>4. UtxosSound(g, d)
  BY <1>2, <1>3 DEF UtxosSound
<1> QED BY <1>4 DEF g, d

(* Every known transaction's inputs are worth after the block what they     *)
(* were worth before it.                                                    *)
LEMMA InputsKeepWorth ==
  ASSUME NEW s, Sound(s), NEW b, NEW records, Extends(s, b, records)
  PROVE  LET r == AppendBlock(s, b, records)
         IN  \A t \in Known(s) \cup Elements(b.txids) : InputAmounts(r, t) = InputAmounts(s, t)
<1> DEFINE r == AppendBlock(s, b, records)
           c == s.chain
           d == Append(c, b)
           txs == Elements(b.txids)
           place == <<b.hash, 0>>
<1>s. /\ LedgerType(s) /\ ChainSound(c) /\ c \in Seq(BlockType) /\ ConfirmedSound(s) /\ PoolSound(s)
      /\ b \in BlockType /\ txs \subseteq Txs
  BY ElementsFinite DEF Sound, Extends, ChainSound, BlockType
<1>c. /\ place \notin Created(c) /\ place \notin CreatedBy(txs) /\ place \in Coinbases(d) /\ ChainSound(d)
  <2>1. place \in Coinbases(d)
    BY <1>s, ChainAppend
  <2> QED BY <2>1, ChainExtended
<1>n. /\ CreatedBy(txs) \cap Created(c) = {}
      /\ SpentBy(txs) \subseteq Created(c) \cup CreatedBy(txs)
  BY BlockIsNew
<1>d. Created(d) = Created(c) \cup {place} \cup CreatedBy(txs)
  BY <1>s, ChainAppend
<1>a. /\ \A o \in Created(c) : AmountIn(d, o) = AmountIn(c, o)
      /\ \A o \in CreatedBy(txs) : AmountIn(d, o) = OutputAmount(o)
  BY AmountsKept
<1>u. /\ DOMAIN s.utxos = Created(c) /\ \A o \in Created(c) : s.utxos[o].amount = AmountIn(c, o)
      /\ \A o : Unspent(s, o) => o \in Created(c)
  <2>1. UtxosSound(s.utxos, c)
    BY <1>s DEF ConfirmedSound
  <2> QED BY <2>1, UtxosFacts DEF UtxosSound
<1>r. DOMAIN r.utxos = Created(d) /\ \A o \in Created(d) : r.utxos[o].amount = AmountIn(d, o)
  <2>1. UtxosSound(r.utxos, d)
    BY OutputsExtended
  <2> QED BY <2>1 DEF UtxosSound
<1> HIDE DEF r, d, place
<1>1. \A o \in Created(c) \cup CreatedBy(txs) : ConfirmAmount(r, o) = ConfirmAmount(s, o)
  BY <1>n, <1>d, <1>a, <1>u, <1>r DEF ConfirmAmount
<1>2. ASSUME NEW u \in Txs, NEW o \in OutpointsOf(u) PROVE ConfirmAmount(r, o) = ConfirmAmount(s, o)
  <2>1. o # place
    BY <1>c, CoinbasesApart
  <2>2. CASE o \in Created(c) \cup CreatedBy(txs)
    BY <1>1, <2>2
  <2>3. CASE o \notin Created(c) \cup CreatedBy(txs)
    BY <1>d, <1>u, <1>r, <2>1, <2>3 DEF ConfirmAmount
  <2> QED BY <2>2, <2>3
<1>3. ASSUME NEW t \in Known(s) \cup txs, NEW o \in InputSet(t)
      PROVE  ConfirmAmount(r, o) = ConfirmAmount(s, o)
  <2>1. CASE t \in txs
    BY <1>1, <1>n, <2>1 DEF SpentBy
  <2>2. CASE t \in Confirmed(s)
    <3>1. o \in Created(c)
      BY <1>s, <2>2 DEF ConfirmedSound, SpentIn
    <3> QED BY <1>1, <3>1
  <2>3. CASE t \in Pending(s)
    <3>1. CASE Unspent(s, o)
      BY <1>1, <1>u, <3>1
    <3>2. CASE \E u \in Pending(s) : o \in OutpointsOf(u)
      <4>1. Pending(s) \subseteq Txs
        BY <1>s DEF LedgerType, Pending, Known
      <4> QED BY <1>2, <3>2, <4>1
    <3> QED BY <1>s, <2>3, <3>1, <3>2 DEF PoolSound
  <2>4. t \in txs \/ t \in Confirmed(s) \/ t \in Pending(s)
    BY <1>s DEF LedgerType, RecordType, Known, Pending, Confirmed
  <2> QED BY <2>1, <2>2, <2>3, <2>4
<1>4. ASSUME NEW t \in Known(s) \cup txs PROVE InputAmounts(r, t) = InputAmounts(s, t)
  <2>1. t \in Txs
    BY <1>s DEF LedgerType, Known
  <2>2. \A k \in DOMAIN Inputs[t] : Inputs[t][k] \in InputSet(t)
    BY DEF InputSet, Elements
  <2>3. \A k \in DOMAIN Inputs[t] : ConfirmAmount(r, Inputs[t][k]) = ConfirmAmount(s, Inputs[t][k])
    BY <1>3, <2>2
  <2> QED BY <2>3 DEF InputAmounts
<1> QED BY <1>4 DEF r

(* The transactions of a state after a block.                               *)
LEMMA AppendedTransactions ==
  ASSUME NEW s, Sound(s), NEW b, NEW records, Extends(s, b, records)
  PROVE  LET r == AppendBlock(s, b, records)
             txs == Elements(b.txids)
         IN  /\ Known(r) = Known(s) \cup txs
             /\ Confirmed(r) = Confirmed(s) \cup txs
             /\ Pending(r) = Pending(s) \ txs
             /\ \A t \in txs : r.transactions[t] \in RecordType /\ r.transactions[t].fee = records[t].fee
                               /\ r.transactions[t].height = b.height
             /\ \A t \in Known(s) \ txs : r.transactions[t] = s.transactions[t]
<1> DEFINE r == AppendBlock(s, b, records)
           txs == Elements(b.txids)
           New(t) == [status |-> "confirmed", height |-> b.height,
                      seq |-> ConfirmedSeq(s, t, records[t]), fee |-> records[t].fee]
<1>s. /\ \A t \in Known(s) : s.transactions[t] \in RecordType
      /\ b.height \in Nat /\ \A t \in txs : records[t] \in RecordType
  BY DEF Sound, LedgerType, Known, Extends, BlockType
<1>1. \A t \in txs : New(t) \in RecordType
  <2> SUFFICES ASSUME NEW t \in txs PROVE New(t) \in RecordType
    OBVIOUS
  <2>1. ConfirmedSeq(s, t, records[t]) \in Nat /\ records[t].fee \in Nat
    BY <1>s DEF ConfirmedSeq, RecordType
  <2> QED BY <1>s, <2>1 DEF RecordType
<1>2. r.transactions = Overlay([t \in txs |-> New(t)], s.transactions)
  BY DEF AppendBlock
<1>3. /\ \A t \in txs : /\ New(t).status = "confirmed" /\ New(t).height = b.height
                        /\ New(t).fee = records[t].fee
  OBVIOUS
<1> HIDE DEF r, New
<1>4. /\ Known(r) = Known(s) \cup txs /\ \A t \in txs : r.transactions[t] = New(t)
      /\ \A t \in Known(s) \ txs : r.transactions[t] = s.transactions[t]
  BY <1>2 DEF Overlay, Known
<1>5. Confirmed(r) = Confirmed(s) \cup txs
  BY <1>3, <1>4 DEF Confirmed
<1>6. Pending(r) = Pending(s) \ txs
  BY <1>3, <1>4 DEF Pending
<1> QED BY <1>1, <1>3, <1>4, <1>5, <1>6 DEF r

(* The value of a transaction's outputs, summed over their outpoints.       *)
LEMMA TxOutputsSum ==
  ASSUME NEW t \in Txs, NEW f, \A o \in OutpointsOf(t) : f[o] = OutputAmount(o)
  PROVE  IsFiniteSet(OutpointsOf(t)) /\ SumOver(f, OutpointsOf(t)) = OutputSum(t)
<1> DEFINE n == Len(Outputs[t])
           q == [i \in 1..n |-> <<t, i - 1>>]
<1>1. Outputs[t] \in Seq(Nat) /\ n \in Nat /\ DOMAIN Outputs[t] = 1..n
  BY TxFacts
<1>2. /\ Len(q) = n /\ DOMAIN q = 1..n /\ \A i \in DOMAIN q : q[i] = <<t, i - 1>>
      /\ n \in Nat
  BY <1>1
<1>0. \A i, j \in DOMAIN q : q[i] = q[j] => i = j
  BY <1>1
<1> HIDE DEF q
<1>3. OutpointsOf(t) = {q[i] : i \in DOMAIN q}
  <2>1. DOMAIN Outputs[t] = DOMAIN q
    BY <1>1, <1>2
  <2>2. {<<t, i - 1>> : i \in DOMAIN q} = {q[i] : i \in DOMAIN q}
    BY <1>2
  <2> QED BY <2>1, <2>2, Zenon DEF OutpointsOf
<1>4. \A i \in DOMAIN q : Outputs[t][i] = f[q[i]]
  <2> SUFFICES ASSUME NEW i \in DOMAIN q PROVE Outputs[t][i] = f[q[i]]
    OBVIOUS
  <2>1. q[i] = <<t, i - 1>> /\ i \in Nat /\ (i - 1) + 1 = i
    BY <1>2
  <2>2. OutputAmount(<<t, i - 1>>) = Outputs[t][(i - 1) + 1]
    BY DEF OutputAmount
  <2>3. q[i] \in OutpointsOf(t)
    BY <1>3
  <2> QED BY <2>1, <2>2, <2>3
<1> DEFINE r == Outputs[t]
<1>6. r \in Seq(Nat) /\ Len(r) = Len(q) /\ \A i \in DOMAIN q : r[i] = f[q[i]]
  BY <1>1, <1>2, <1>4
<1> HIDE DEF r
<1>7. Lists(q, OutpointsOf(t), f, r)
  BY <1>0, <1>2, <1>3, <1>6 DEF Lists
<1> QED BY <1>7, SumOverList DEF OutputSum, r

(* The value of a transaction's inputs.                                     *)
LEMMA TxInputsSum ==
  ASSUME NEW s, NEW t \in Txs, NEW f,
         \A o \in InputSet(t) : f[o] = ConfirmAmount(s, o) /\ ConfirmAmount(s, o) \in Nat
  PROVE  IsFiniteSet(InputSet(t)) /\ SumOver(f, InputSet(t)) = SumSeq(InputAmounts(s, t))
<1> DEFINE q == Inputs[t]
           r == InputAmounts(s, t)
<1>1. q \in Seq(Outpoint) /\ \A i, j \in DOMAIN q : q[i] = q[j] => i = j
  BY TxFacts
<1>2. \A i \in DOMAIN q : q[i] \in InputSet(t)
  BY DEF InputSet, Elements
<1>3. r \in Seq(Nat) /\ Len(r) = Len(q) /\ \A i \in DOMAIN q : r[i] = f[q[i]]
  BY <1>1, <1>2 DEF InputAmounts
<1> HIDE DEF q, r
<1>4. InputSet(t) = {q[i] : i \in DOMAIN q}
  BY DEF InputSet, Elements, q
<1>5. Len(q) \in Nat /\ DOMAIN q = 1..Len(q)
  BY <1>1
<1>6. Lists(q, InputSet(t), f, r)
  BY <1>1, <1>3, <1>4, <1>5 DEF Lists
<1> QED BY <1>6, SumOverList DEF r

(* What a list of transactions spends is worth what it creates and its      *)
(* fees, at every position of the list.                                     *)
Balances(q, s, records, f, k) ==
  LET T == {q[i] : i \in 1..k}
  IN  /\ IsFiniteSet(SpentBy(T)) /\ IsFiniteSet(CreatedBy(T))
      /\ SumOver(f, CreatedBy(T)) \in Nat
      /\ SumOver(f, CreatedBy(T)) + PartialSums([i \in DOMAIN q |-> records[q[i]].fee])[k]
           = SumOver(f, SpentBy(T))

(* The transactions of a list, each once and none spending what an earlier  *)
(* one spends, with records whose fees balance the amounts f.               *)
Payable(q, s, records, f) ==
  /\ q \in Seq(Txs) /\ \A i, j \in DOMAIN q : q[i] = q[j] => i = j
  /\ \A i \in DOMAIN q :
       /\ records[q[i]].fee \in Nat
       /\ \A o \in InputSet(q[i]) : \A j \in 1..(i - 1) : o \notin InputSet(q[j])
       /\ OutputSum(q[i]) + records[q[i]].fee = SumSeq(InputAmounts(s, q[i]))
       /\ \A o \in InputSet(q[i]) : f[o] = ConfirmAmount(s, o) /\ ConfirmAmount(s, o) \in Nat
       /\ \A o \in OutpointsOf(q[i]) : f[o] = OutputAmount(o)

(* One more transaction keeps the balance.                                  *)
LEMMA OneMoreBalances ==
  ASSUME NEW q, NEW s, NEW records, NEW f, Payable(q, s, records, f),
         NEW k \in Nat, k + 1 \in DOMAIN q, Balances(q, s, records, f, k)
  PROVE  Balances(q, s, records, f, k + 1)
<1> DEFINE T == {q[i] : i \in 1..k}
           U == {q[i] : i \in 1..(k + 1)}
           t == q[k + 1]
           fees == [i \in DOMAIN q |-> records[q[i]].fee]
           g == PartialSums(fees)
<1>0. q \in Seq(Txs) /\ Len(q) \in Nat /\ DOMAIN q = 1..Len(q) /\ k + 1 \in 1..Len(q) /\ k \in 0..Len(q)
  BY DEF Payable
<1>1. /\ t \in Txs /\ records[t].fee \in Nat
      /\ OutputSum(t) + records[t].fee = SumSeq(InputAmounts(s, t))
      /\ \A o \in InputSet(t) : f[o] = ConfirmAmount(s, o) /\ ConfirmAmount(s, o) \in Nat
      /\ \A o \in OutpointsOf(t) : f[o] = OutputAmount(o)
      /\ \A o \in InputSet(t) : \A j \in 1..k : o \notin InputSet(q[j])
  <2>1. (k + 1) - 1 = k
    OBVIOUS
  <2> QED BY <1>0, <2>1 DEF Payable
<1>2. /\ T \subseteq Txs /\ t \notin T /\ U = T \cup {t}
      /\ \A u \in T : \A o \in InputSet(u) : f[o] \in Nat
      /\ \A u \in T : \A o \in OutpointsOf(u) : f[o] \in Nat
  <2>1. \A i \in 1..k : i \in DOMAIN q /\ q[i] \in Txs /\ i # k + 1
    BY <1>0
  <2>2. t \notin T
    <3> SUFFICES ASSUME NEW i \in 1..k, q[i] = t PROVE FALSE
      OBVIOUS
    <3>1. \A a, b \in DOMAIN q : q[a] = q[b] => a = b
      BY DEF Payable
    <3> QED BY <2>1, <3>1
  <2>3. U = T \cup {t}
    BY <1>0
  <2>4. \A i \in 1..k : \A o \in InputSet(q[i]) : f[o] \in Nat
    BY <2>1 DEF Payable
  <2>5. \A i \in 1..k : \A o \in OutpointsOf(q[i]) : f[o] \in Nat
    <3> SUFFICES ASSUME NEW i \in 1..k, NEW o \in OutpointsOf(q[i]) PROVE f[o] \in Nat
      OBVIOUS
    <3>1. f[o] = OutputAmount(o)
      BY <2>1 DEF Payable
    <3>2. OutputAmount(o) \in Nat
      BY <2>1, TxFacts
    <3> QED BY <3>1, <3>2
  <2> QED BY <2>1, <2>2, <2>3, <2>4, <2>5
<1>3. SpentBy(T) \cap InputSet(t) = {}
  BY <1>1 DEF SpentBy
<1>4. CreatedBy(T) \cap OutpointsOf(t) = {}
  <2> SUFFICES ASSUME NEW u \in T PROVE OutpointsOf(u) \cap OutpointsOf(t) = {}
    BY DEF CreatedBy
  <2>1. u \in Txs /\ u # t
    BY <1>2
  <2> QED BY <1>1, <2>1, OutpointsApart
<1>5. SpentBy(U) = SpentBy(T) \cup InputSet(t) /\ CreatedBy(U) = CreatedBy(T) \cup OutpointsOf(t)
  BY <1>2 DEF SpentBy, CreatedBy
<1>6. /\ IsFiniteSet(SpentBy(T)) /\ IsFiniteSet(CreatedBy(T)) /\ SumOver(f, CreatedBy(T)) \in Nat
      /\ SumOver(f, CreatedBy(T)) + g[k] = SumOver(f, SpentBy(T))
  BY DEF Balances
<1>7. g[k + 1] = g[k] + records[t].fee /\ g[k] \in Nat
  <2>1. fees \in Seq(Nat) /\ Len(fees) = Len(q) /\ fees[k + 1] = records[t].fee
    BY <1>0 DEF Payable
  <2> HIDE DEF fees
  <2>2. g = [i \in 0..Len(fees) |-> IF i = 0 THEN 0 ELSE g[i - 1] + fees[i]]
    BY <1>0, <2>1, PartialSumsEquation
  <2>3. g[k] \in Nat
    BY <1>0, <2>1, PartialSumsNat
  <2> HIDE DEF g
  <2>4. k + 1 \in 0..Len(fees) /\ k + 1 # 0 /\ (k + 1) - 1 = k
    BY <1>0, <2>1
  <2>5. g[k + 1] = g[k] + fees[k + 1]
    BY <2>2, <2>4
  <2> QED BY <2>1, <2>3, <2>5
<1>8. /\ IsFiniteSet(OutpointsOf(t)) /\ SumOver(f, OutpointsOf(t)) = OutputSum(t) /\ OutputSum(t) \in Nat
      /\ \A o \in OutpointsOf(t) : f[o] \in Nat
  <2>1. IsFiniteSet(OutpointsOf(t)) /\ SumOver(f, OutpointsOf(t)) = OutputSum(t)
    BY <1>1, TxOutputsSum
  <2>2. OutputSum(t) \in Nat /\ \A o \in OutpointsOf(t) : OutputAmount(o) \in Nat
    BY <1>1, TxFacts
  <2> QED BY <1>1, <2>1, <2>2
<1>9. IsFiniteSet(InputSet(t)) /\ SumOver(f, InputSet(t)) = SumSeq(InputAmounts(s, t))
  BY <1>1, TxInputsSum
<1>10. SumOver(f, CreatedBy(U)) = SumOver(f, CreatedBy(T)) + OutputSum(t) /\ IsFiniteSet(CreatedBy(U))
  <2> DEFINE A == CreatedBy(T)
             B == OutpointsOf(t)
  <2>1. \A o \in A \cup B : f[o] \in Nat
    BY <1>2, <1>8 DEF CreatedBy
  <2>2. IsFiniteSet(A) /\ IsFiniteSet(B) /\ A \cap B = {}
    BY <1>4, <1>6, <1>8
  <2> HIDE DEF A, B
  <2>3. SumOver(f, A \cup B) = SumOver(f, A) + SumOver(f, B)
    BY <2>1, <2>2, SumOverUnion
  <2>4. IsFiniteSet(A \cup B)
    BY <2>2, FS_Union
  <2> HIDE DEF T, U, t
  <2> QED BY <1>5, <1>8, <2>3, <2>4, Zenon DEF A, B
<1>11. SumOver(f, SpentBy(U)) = SumOver(f, SpentBy(T)) + SumSeq(InputAmounts(s, t)) /\ IsFiniteSet(SpentBy(U))
  <2> DEFINE A == SpentBy(T)
             B == InputSet(t)
  <2>1. \A o \in A \cup B : f[o] \in Nat
    BY <1>1, <1>2 DEF SpentBy
  <2>2. IsFiniteSet(A) /\ IsFiniteSet(B) /\ A \cap B = {}
    BY <1>3, <1>6, <1>9
  <2> HIDE DEF A, B
  <2>3. SumOver(f, A \cup B) = SumOver(f, A) + SumOver(f, B)
    BY <2>1, <2>2, SumOverUnion
  <2>4. IsFiniteSet(A \cup B)
    BY <2>2, FS_Union
  <2> HIDE DEF T, U, t
  <2> QED BY <1>5, <1>9, <2>3, <2>4, Zenon DEF A, B
<1> DEFINE c == SumOver(f, CreatedBy(T))
           cc == SumOver(f, CreatedBy(U))
           p == SumOver(f, SpentBy(T))
           pp == SumOver(f, SpentBy(U))
           x == OutputSum(t)
           y == SumSeq(InputAmounts(s, t))
           h == records[t].fee
<1>12. /\ c \in Nat /\ x \in Nat /\ h \in Nat /\ g[k] \in Nat /\ c + g[k] = p /\ x + h = y
       /\ g[k + 1] = g[k] + h /\ cc = c + x /\ pp = p + y
  BY <1>1, <1>6, <1>7, <1>8, <1>10, <1>11
<1> HIDE DEF c, cc, p, pp, x, y, h, g
<1>13. cc \in Nat /\ cc + g[k + 1] = pp
  BY <1>12
<1> QED BY <1>10, <1>11, <1>13 DEF Balances, cc, pp, g

(* So a block's transactions spend what they create and their fees.         *)
LEMMA BlockBalances ==
  ASSUME NEW q, NEW s, NEW records, NEW f, Payable(q, s, records, f)
  PROVE  /\ IsFiniteSet(SpentBy(Elements(q))) /\ IsFiniteSet(CreatedBy(Elements(q)))
         /\ TransactionFees(q, records) \in Nat /\ SumOver(f, CreatedBy(Elements(q))) \in Nat
         /\ SumOver(f, CreatedBy(Elements(q))) + TransactionFees(q, records) = SumOver(f, SpentBy(Elements(q)))
<1> DEFINE N == {k \in Nat : k <= Len(q) => Balances(q, s, records, f, k)}
           fees == [i \in DOMAIN q |-> records[q[i]].fee]
<1>0. q \in Seq(Txs) /\ Len(q) \in Nat /\ DOMAIN q = 1..Len(q) /\ fees \in Seq(Nat) /\ Len(fees) = Len(q)
  BY DEF Payable
<1>f. PartialSums(fees)[0] = 0 /\ SumSeq(fees) = PartialSums(fees)[Len(q)] /\ SumSeq(fees) \in Nat
  <2> HIDE DEF fees
  <2> DEFINE g == PartialSums(fees)
  <2>1. g = [i \in 0..Len(fees) |-> IF i = 0 THEN 0 ELSE g[i - 1] + fees[i]] /\ SumSeq(fees) = g[Len(fees)]
    BY <1>0, PartialSumsEquation
  <2> HIDE DEF g
  <2>2. 0 \in 0..Len(fees)
    BY <1>0
  <2>3. g[0] = 0
    BY <2>1, <2>2
  <2>4. SumSeq(fees) \in Nat
    BY <1>0, SumSeqNat
  <2> QED BY <1>0, <2>1, <2>3, <2>4 DEF g
<1>1. 0 \in N
  <2> DEFINE T == {q[i] : i \in 1..0}
  <2>1. SpentBy(T) = {} /\ CreatedBy(T) = {}
    BY DEF SpentBy, CreatedBy
  <2>2. IsFiniteSet({}) /\ SumOver(f, {}) = 0
    BY FS_EmptySet, SumOverPick
  <2> HIDE DEF T, fees
  <2>3. /\ IsFiniteSet(SpentBy(T)) /\ IsFiniteSet(CreatedBy(T)) /\ SumOver(f, CreatedBy(T)) \in Nat
        /\ SumOver(f, CreatedBy(T)) + PartialSums(fees)[0] = SumOver(f, SpentBy(T))
    BY <1>f, <2>1, <2>2
  <2>4. Balances(q, s, records, f, 0)
    BY <2>3, Zenon DEF Balances, T, fees
  <2> QED BY <2>4
<1>2. ASSUME NEW k \in N PROVE k + 1 \in N
  <2> SUFFICES ASSUME k + 1 <= Len(q) PROVE Balances(q, s, records, f, k + 1)
    OBVIOUS
  <2>1. k \in Nat /\ k + 1 \in DOMAIN q /\ Balances(q, s, records, f, k)
    BY <1>0
  <2> QED BY <2>1, OneMoreBalances
<1>3. N = Nat
  BY <1>1, <1>2, SetInduction
<1>4. Balances(q, s, records, f, Len(q))
  <2>1. Len(q) \in N
    BY <1>0, <1>3
  <2> QED BY <1>0, <2>1
<1>5. Elements(q) = {q[i] : i \in 1..Len(q)}
  BY <1>0 DEF Elements
<1>6. TransactionFees(q, records) = SumSeq(fees)
  BY DEF TransactionFees
<1> QED BY <1>4, <1>5, <1>6, <1>f DEF Balances

(* What has been issued, and what a block may issue, are natural numbers.   *)
LEMMA IssuedNat ==
  ASSUME NEW s, s.chain \in Seq(BlockType)
  PROVE  Issued(s) \in Nat /\ \A height \in Nat \ {0} : ExpectedReward(s, height) \in Nat
<1>1. [i \in DOMAIN s.chain |-> s.chain[i].reward] \in Seq(Nat)
  <2>1. \A i \in DOMAIN s.chain : s.chain[i].reward \in Nat
    <3>1. \A b \in BlockType : b.reward \in Nat
      BY DEF BlockType
    <3> QED BY <3>1
  <2> QED BY <2>1
<1>2. Issued(s) \in Nat
  BY <1>1, SumSeqNat DEF Issued
<1>3. ASSUME NEW height \in Nat \ {0} PROVE ExpectedReward(s, height) \in Nat
  <2>1. Subsidy(height) \in Nat
    BY SubsidyNat
  <2> QED BY <1>2, <2>1, LedgerAssumption DEF ExpectedReward
<1> QED BY <1>2, <1>3

(* A block adds its reward to what has been issued, and stays below the     *)
(* cap.                                                                     *)
LEMMA IssuedGrows ==
  ASSUME NEW s, s.chain \in Seq(BlockType), NEW b \in BlockType, NEW r, r.chain = Append(s.chain, b),
         NEW height, b.reward = ExpectedReward(s, height), Issued(s) <= MaxSupply
  PROVE  Issued(r) = Issued(s) + b.reward /\ Issued(r) <= MaxSupply
<1> DEFINE c == s.chain
           d == Append(c, b)
           q == [i \in DOMAIN c |-> c[i].reward]
           p == [i \in DOMAIN d |-> d[i].reward]
<1>1. /\ Len(c) \in Nat /\ DOMAIN c = 1..Len(c) /\ DOMAIN d = 1..(Len(c) + 1)
      /\ d[Len(c) + 1] = b /\ (\A i \in 1..Len(c) : d[i] = c[i]) /\ \A i \in 1..Len(c) : c[i] \in BlockType
  OBVIOUS
<1>2. b.reward \in Nat /\ \A i \in 1..Len(c) : c[i].reward \in Nat
  BY <1>1 DEF BlockType
<1> HIDE DEF d
<1>3. q \in Seq(Nat) /\ Len(q) = Len(c)
  BY <1>1, <1>2
<1>4. p = Append(q, b.reward)
  <2>1. /\ DOMAIN Append(q, b.reward) = 1..(Len(c) + 1) /\ Append(q, b.reward)[Len(c) + 1] = b.reward
        /\ \A i \in 1..Len(c) : Append(q, b.reward)[i] = c[i].reward
    BY <1>1, <1>2, <1>3
  <2>2. Append(q, b.reward) = [i \in 1..(Len(c) + 1) |-> Append(q, b.reward)[i]]
    BY <1>2, <1>3, <2>1
  <2> HIDE DEF q
  <2>3. \A i \in 1..(Len(c) + 1) : d[i].reward = Append(q, b.reward)[i]
    BY <1>1, <2>1
  <2> QED BY <1>1, <2>2, <2>3, Zenon
<1>5. SumSeq(p) = SumSeq(q) + b.reward
  <2> HIDE DEF p, q
  <2> QED BY <1>2, <1>3, <1>4, SumSeqAppend
<1>6. Issued(s) = SumSeq(q) /\ Issued(r) = SumSeq(p)
  BY DEF Issued, d
<1>7. Issued(s) \in Nat /\ MaxSupply \in Nat
  BY IssuedNat, LedgerAssumption
<1> HIDE DEF p, q
<1>8. Issued(r) = Issued(s) + b.reward
  BY <1>5, <1>6
<1>9. Issued(s) + b.reward <= MaxSupply
  <2>1. CASE MaxSupply - Issued(s) <= 0
    BY <1>7, <2>1 DEF ExpectedReward
  <2>2. CASE ~(MaxSupply - Issued(s) <= 0)
    <3>1. \/ b.reward = Subsidy(height) /\ Subsidy(height) < MaxSupply - Issued(s)
          \/ b.reward = MaxSupply - Issued(s)
      BY <2>2 DEF ExpectedReward
    <3> QED BY <1>2, <1>7, <2>2, <3>1
  <2> QED BY <2>1, <2>2
<1> QED BY <1>8, <1>9

(* The fees nobody collects: before the activation a block adds those of    *)
(* its transactions, afterwards none.                                       *)
LEMMA BurnedGrow ==
  ASSUME NEW s, Sound(s), NEW b, NEW records, Extends(s, b, records)
  PROVE  LET r == AppendBlock(s, b, records)
         IN  /\ BurnedFees(s) \in Nat
             /\ CoinbaseActive(b.height) => BurnedFees(r) = BurnedFees(s)
             /\ ~CoinbaseActive(b.height) =>
                  BurnedFees(r) = BurnedFees(s) + TransactionFees(b.txids, records)
<1> DEFINE r == AppendBlock(s, b, records)
           txs == Elements(b.txids)
           old == Feeless(s)
           fee == [t \in Confirmed(s) \cup txs |-> r.transactions[t].fee]
           before == [t \in old |-> s.transactions[t].fee]
<1>b. /\ b.txids \in Seq(Txs) /\ IsFiniteSet(txs) /\ IsFiniteSet(Known(s))
      /\ \A i, j \in DOMAIN b.txids : b.txids[i] = b.txids[j] => i = j
      /\ \A t \in txs : records[t].fee \in Nat
      /\ \A t \in Known(s) : s.transactions[t].fee \in Nat
  <2>1. b.txids \in Seq(Txs) /\ (\A i, j \in DOMAIN b.txids : b.txids[i] = b.txids[j] => i = j)
    BY DEF Extends, BlockType
  <2>2. \A t \in txs : records[t].fee \in Nat
    BY DEF Extends, RecordType
  <2>3. \A t \in Known(s) : s.transactions[t].fee \in Nat
    BY DEF Sound, LedgerType, Known, RecordType
  <2> QED BY <2>1, <2>2, <2>3, ElementsFinite DEF Sound
<1>k. /\ Confirmed(r) = Confirmed(s) \cup txs
      /\ \A t \in txs : r.transactions[t].fee = records[t].fee /\ r.transactions[t].height = b.height
      /\ \A t \in Known(s) \ txs : r.transactions[t] = s.transactions[t]
  BY AppendedTransactions
<1>n. txs \cap Confirmed(s) = {} /\ Confirmed(s) \subseteq Known(s)
  BY BlockIsNew DEF Sound, ConfirmedSound, Confirmed
<1> HIDE DEF r
<1>o. IsFiniteSet(old) /\ old \subseteq Confirmed(s) /\ old \cap txs = {}
  <2>1. old \subseteq Known(s) /\ old \subseteq Confirmed(s)
    BY <1>n DEF Feeless
  <2> QED BY <1>b, <1>n, <2>1, FS_Subset
<1>f. /\ \A t \in old : fee[t] = before[t] /\ fee[t] \in Nat
      /\ \A t \in txs : fee[t] = records[t].fee /\ fee[t] \in Nat
  BY <1>b, <1>k, <1>n, <1>o
<1>h. /\ \A t \in Confirmed(s) : ~CoinbaseActive(r.transactions[t].height) <=> t \in old
      /\ \A t \in txs : ~CoinbaseActive(r.transactions[t].height) <=> ~CoinbaseActive(b.height)
  BY <1>k, <1>n DEF Feeless
<1>1. BurnedFees(s) = SumOver(before, old)
  BY DEF BurnedFees
<1> HIDE DEF old, before, fee
<1>2. SumOver(fee, old) = SumOver(before, old) /\ SumOver(fee, old) \in Nat
  BY <1>f, <1>o, SumOverSame, SumOverNat
<1>3. BurnedFees(r) = SumOver(fee, Feeless(r))
  <2> DEFINE new == Feeless(r)
             after == [t \in new |-> r.transactions[t].fee]
  <2>1. new \subseteq Confirmed(s) \cup txs /\ IsFiniteSet(new)
    <3>1. new \subseteq Known(s) \cup txs /\ new \subseteq Confirmed(s) \cup txs
      BY <1>k, <1>n DEF Feeless
    <3>2. IsFiniteSet(Known(s) \cup txs)
      BY <1>b, FS_Union
    <3> QED BY <3>1, <3>2, FS_Subset
  <2>2. \A t \in new : after[t] = fee[t]
    BY <2>1 DEF fee
  <2>3. BurnedFees(r) = SumOver(after, new)
    BY DEF BurnedFees
  <2> HIDE DEF new, after
  <2>4. SumOver(after, new) = SumOver(fee, new)
    BY <2>1, <2>2, SumOverSame
  <2> QED BY <2>3, <2>4 DEF new
<1>4. ASSUME CoinbaseActive(b.height) PROVE Feeless(r) = old
  BY <1>h, <1>k, <1>4, <1>o DEF Feeless
<1>5. ASSUME ~CoinbaseActive(b.height) PROVE Feeless(r) = old \cup txs
  BY <1>h, <1>k, <1>5, <1>o DEF Feeless
<1>6. SumOver(fee, txs) = TransactionFees(b.txids, records)
  <2> DEFINE q == b.txids
             fees == [i \in DOMAIN q |-> records[q[i]].fee]
  <2>1. \A i \in DOMAIN q : q[i] \in txs
    BY DEF Elements
  <2>2. Len(q) \in Nat /\ DOMAIN q = 1..Len(q) /\ txs = {q[i] : i \in DOMAIN q}
    BY <1>b DEF Elements
  <2>3. fees \in Seq(Nat) /\ Len(fees) = Len(q) /\ \A i \in DOMAIN q : fees[i] = fee[q[i]]
    BY <1>b, <1>f, <2>1
  <2>4. TransactionFees(q, records) = SumSeq(fees)
    BY DEF TransactionFees
  <2>5. \A i, j \in DOMAIN q : q[i] = q[j] => i = j
    BY <1>b
  <2> HIDE DEF q, fees
  <2>6. Lists(q, txs, fee, fees)
    BY <2>2, <2>3, <2>5 DEF Lists
  <2>7. SumOver(fee, txs) = SumSeq(fees)
    BY <2>6, SumOverList
  <2> QED BY <2>4, <2>7 DEF q
<1> HIDE DEF txs
<1>7. SumOver(fee, old \cup txs) = SumOver(fee, old) + SumOver(fee, txs)
  <2>1. \A t \in old \cup txs : fee[t] \in Nat
    BY <1>f
  <2> QED BY <1>b, <1>o, <2>1, SumOverUnion
<1>8. CoinbaseActive(b.height) => BurnedFees(r) = BurnedFees(s)
  BY <1>1, <1>2, <1>3, <1>4
<1>9. ~CoinbaseActive(b.height) => BurnedFees(r) = BurnedFees(s) + TransactionFees(b.txids, records)
  BY <1>1, <1>2, <1>3, <1>5, <1>6, <1>7
<1> QED BY <1>1, <1>2, <1>8, <1>9 DEF r

(* What is unspent after a block and what it spends is what was unspent,    *)
(* what it creates and its reward, each apart from the other.               *)
LEMMA UnspentMoves ==
  ASSUME NEW s, Sound(s), NEW b, NEW records, Extends(s, b, records)
  PROVE  LET r       == AppendBlock(s, b, records)
             created == CreatedBy(Elements(b.txids))
             spent   == SpentBy(Elements(b.txids))
             place   == <<b.hash, 0>>
         IN  /\ UnspentOutputs(r) \cup spent = (UnspentOutputs(s) \cup created) \cup {place}
             /\ UnspentOutputs(r) \cap spent = {} /\ UnspentOutputs(s) \cap created = {}
             /\ place \notin UnspentOutputs(s) \cup created
             /\ DOMAIN r.utxos = (DOMAIN s.utxos \cup created) \cup {place}
<1> DEFINE r == AppendBlock(s, b, records)
           c == s.chain
           d == Append(c, b)
           created == CreatedBy(Elements(b.txids))
           spent == SpentBy(Elements(b.txids))
           place == <<b.hash, 0>>
<1>s. /\ b \in BlockType /\ c \in Seq(BlockType) /\ UtxosSound(s.utxos, c) /\ SpentIn(c) \subseteq Created(c)
      /\ ChainSound(d) /\ place \notin Created(c) /\ place \notin created
  BY ChainExtended DEF Sound, ConfirmedSound, Extends, ChainSound
<1>r. UtxosSound(r.utxos, d) /\ r.chain = d
  BY OutputsExtended, AppendParts
<1>n. /\ created \cap Created(c) = {} /\ spent \cap SpentIn(c) = {}
      /\ spent \subseteq Created(c) \cup created
  BY BlockIsNew
<1>d. SpentIn(d) = SpentIn(c) \cup spent /\ Created(d) = Created(c) \cup {place} \cup created
  BY <1>s, ChainAppend
<1> HIDE DEF r, d, created, spent, place
<1>1. /\ DOMAIN s.utxos = Created(c)
      /\ \A o : o \in UnspentOutputs(s) <=> o \in Created(c) /\ o \notin SpentIn(c)
  BY <1>s, UtxosFacts DEF UnspentOutputs
<1>2. /\ DOMAIN r.utxos = Created(d)
      /\ \A o : o \in UnspentOutputs(r) <=> o \in Created(d) /\ o \notin SpentIn(d)
  BY <1>r, UtxosFacts DEF UnspentOutputs
<1>3. UnspentOutputs(r) \cup spent = (UnspentOutputs(s) \cup created) \cup {place}
  BY <1>s, <1>n, <1>d, <1>1, <1>2
<1>4. UnspentOutputs(r) \cap spent = {}
  BY <1>d, <1>2
<1>5. UnspentOutputs(s) \cap created = {} /\ place \notin UnspentOutputs(s) \cup created
  BY <1>s, <1>n, <1>1
<1>6. DOMAIN r.utxos = (DOMAIN s.utxos \cup created) \cup {place}
  BY <1>d, <1>1, <1>2
<1> QED BY <1>3, <1>4, <1>5, <1>6 DEF r, created, spent, place

(* What an output is worth after a block, whichever way it is looked up.    *)
LEMMA WorthAfter ==
  ASSUME NEW s, Sound(s), NEW b, NEW records, Extends(s, b, records)
  PROVE  LET r       == AppendBlock(s, b, records)
             d       == Append(s.chain, b)
             created == CreatedBy(Elements(b.txids))
             place   == <<b.hash, 0>>
         IN  /\ \A o \in DOMAIN r.utxos : r.utxos[o].amount = AmountIn(d, o) /\ AmountIn(d, o) \in Nat
             /\ \A o \in DOMAIN s.utxos : s.utxos[o].amount = AmountIn(d, o)
             /\ \A o \in created : OutputAmount(o) = AmountIn(d, o)
             /\ \A o \in DOMAIN s.utxos \cup created : ConfirmAmount(s, o) = AmountIn(d, o)
             /\ AmountIn(d, place) = b.coinbase
<1> DEFINE r == AppendBlock(s, b, records)
           c == s.chain
           d == Append(c, b)
           created == CreatedBy(Elements(b.txids))
<1>s. UtxosSound(s.utxos, c)
  BY DEF Sound, ConfirmedSound
<1>r. UtxosSound(r.utxos, d)
  BY OutputsExtended
<1>a. /\ \A o \in Created(c) : AmountIn(d, o) = AmountIn(c, o)
      /\ \A o \in created : AmountIn(d, o) = OutputAmount(o)
      /\ AmountIn(d, <<b.hash, 0>>) = b.coinbase
  BY AmountsKept
<1>n. created \cap Created(c) = {}
  BY BlockIsNew
<1> HIDE DEF r, d, created
<1>1. \A o \in DOMAIN r.utxos : r.utxos[o].amount = AmountIn(d, o) /\ AmountIn(d, o) \in Nat
  BY <1>r DEF UtxosSound
<1>2. DOMAIN s.utxos = Created(c) /\ \A o \in DOMAIN s.utxos : s.utxos[o].amount = AmountIn(d, o)
  BY <1>s, <1>a DEF UtxosSound
<1>3. \A o \in DOMAIN s.utxos \cup created : ConfirmAmount(s, o) = AmountIn(d, o)
  BY <1>2, <1>a, <1>n DEF ConfirmAmount
<1> QED BY <1>1, <1>2, <1>3, <1>a DEF r, d, created

(* A block keeps the balance.                                               *)
LEMMA AppendBalanced ==
  ASSUME NEW s, Sound(s), NEW b, NEW records, Extends(s, b, records)
  PROVE  Balanced(AppendBlock(s, b, records))
<1> DEFINE r == AppendBlock(s, b, records)
           d == Append(s.chain, b)
           q == b.txids
           created == CreatedBy(Elements(q))
           spent == SpentBy(Elements(q))
           place == <<b.hash, 0>>
           f == [o \in DOMAIN r.utxos |-> AmountIn(d, o)]
           fees == TransactionFees(q, records)
           U == UnspentOutputs(s)
           V == UnspentOutputs(r)
<1>b. /\ b \in BlockType /\ q \in Seq(Txs) /\ b.reward \in Nat /\ b.coinbase \in Nat /\ Balanced(s)
      /\ b.reward = ExpectedReward(s, b.height) /\ s.chain \in Seq(BlockType)
      /\ b.coinbase = CoinbaseValue(b.height, b.reward, fees)
  BY DEF Extends, BlockType, Sound, ChainSound
<1>m. /\ V \cup spent = (U \cup created) \cup {place}
      /\ V \cap spent = {} /\ U \cap created = {} /\ place \notin U \cup created
      /\ DOMAIN r.utxos = (DOMAIN s.utxos \cup created) \cup {place}
  BY UnspentMoves
<1>v. /\ \A o \in DOMAIN r.utxos : r.utxos[o].amount = f[o] /\ f[o] \in Nat
      /\ \A o \in DOMAIN s.utxos : s.utxos[o].amount = f[o]
      /\ \A o \in created : OutputAmount(o) = f[o]
      /\ \A o \in DOMAIN s.utxos \cup created : ConfirmAmount(s, o) = f[o]
      /\ f[place] = b.coinbase
  <2>1. /\ \A o \in DOMAIN r.utxos : r.utxos[o].amount = AmountIn(d, o) /\ AmountIn(d, o) \in Nat
        /\ \A o \in DOMAIN s.utxos : s.utxos[o].amount = AmountIn(d, o)
        /\ \A o \in created : OutputAmount(o) = AmountIn(d, o)
        /\ \A o \in DOMAIN s.utxos \cup created : ConfirmAmount(s, o) = AmountIn(d, o)
        /\ AmountIn(d, place) = b.coinbase
    BY WorthAfter
  <2>2. \A o \in DOMAIN r.utxos : f[o] = AmountIn(d, o)
    OBVIOUS
  <2> HIDE DEF r, d, created, place, f
  <2> QED BY <1>m, <2>1, <2>2
<1>g. r.chain = Append(s.chain, b)
  BY AppendParts
<1>n. spent \subseteq DOMAIN s.utxos \cup created
  <2>1. UtxosSound(s.utxos, s.chain)
    BY DEF Sound, ConfirmedSound
  <2> QED BY <2>1, BlockIsNew, UtxosFacts
<1>f. /\ BurnedFees(s) \in Nat
      /\ CoinbaseActive(b.height) => BurnedFees(r) = BurnedFees(s)
      /\ ~CoinbaseActive(b.height) => BurnedFees(r) = BurnedFees(s) + fees
  BY BurnedGrow
<1> HIDE DEF r, f
<1>p. Payable(q, s, records, f)
  <2>1. \A i \in DOMAIN q : q[i] \in Elements(q)
    BY DEF Elements
  <2>2. \A i \in DOMAIN q : InputSet(q[i]) \subseteq spent /\ OutpointsOf(q[i]) \subseteq created
    BY <2>1 DEF SpentBy, CreatedBy
  <2>3. \A i \in DOMAIN q : records[q[i]].fee \in Nat
    BY <2>1 DEF Extends, RecordType
  <2>4. \A i, j \in DOMAIN q : q[i] = q[j] => i = j
    BY DEF Extends
  <2>5. \A i \in DOMAIN q :
          /\ \A o \in InputSet(q[i]) : \A j \in 1..(i - 1) : o \notin InputSet(q[j])
          /\ OutputSum(q[i]) + records[q[i]].fee = SumSeq(InputAmounts(s, q[i]))
    BY DEF Extends, TxsApply, InputAmounts
  <2> HIDE DEF q, created, spent, place
  <2>6. \A i \in DOMAIN q : \A o \in InputSet(q[i]) : f[o] = ConfirmAmount(s, o) /\ ConfirmAmount(s, o) \in Nat
    BY <1>m, <1>v, <1>n, <2>2
  <2>7. \A i \in DOMAIN q : \A o \in OutpointsOf(q[i]) : f[o] = OutputAmount(o)
    BY <1>v, <2>2
  <2> QED BY <1>b, <2>3, <2>4, <2>5, <2>6, <2>7 DEF Payable
<1>1. /\ IsFiniteSet(spent) /\ IsFiniteSet(created) /\ fees \in Nat /\ SumOver(f, created) \in Nat
      /\ SumOver(f, created) + fees = SumOver(f, spent)
  BY <1>p, BlockBalances
<1> HIDE DEF d, created, spent, place, fees, q
<1>2. IsFiniteSet(DOMAIN r.utxos) /\ IsFiniteSet(DOMAIN s.utxos)
  <2>1. IsFiniteSet(DOMAIN s.utxos)
    BY <1>b DEF Balanced
  <2>2. IsFiniteSet(DOMAIN s.utxos \cup created)
    BY <1>1, <2>1, FS_Union
  <2> DEFINE S == DOMAIN s.utxos \cup created
  <2> HIDE DEF S
  <2>3. IsFiniteSet(S \cup {place})
    BY <2>2, FS_AddElement DEF S
  <2> QED BY <1>m, <2>1, <2>3 DEF S
<1>3. U \subseteq DOMAIN s.utxos /\ V \subseteq DOMAIN r.utxos /\ IsFiniteSet(U) /\ IsFiniteSet(V)
  <2>1. U \subseteq DOMAIN s.utxos /\ V \subseteq DOMAIN r.utxos
    BY DEF UnspentOutputs
  <2> QED BY <1>2, <2>1, FS_Subset
<1>4. UnspentValue(s) = SumOver(f, U)
  <2> DEFINE g == [o \in U |-> s.utxos[o].amount]
  <2>1. \A o \in U : g[o] = f[o]
    BY <1>3, <1>v
  <2>2. UnspentValue(s) = SumOver(g, U)
    BY DEF UnspentValue
  <2> HIDE DEF g, U
  <2> QED BY <1>3, <2>1, <2>2, SumOverSame
<1>5. UnspentValue(r) = SumOver(f, V)
  <2> DEFINE g == [o \in V |-> r.utxos[o].amount]
  <2>1. \A o \in V : g[o] = f[o]
    BY <1>3, <1>v
  <2>2. UnspentValue(r) = SumOver(g, V)
    BY DEF UnspentValue
  <2> HIDE DEF g, V
  <2> QED BY <1>3, <2>1, <2>2, SumOverSame
<1> HIDE DEF U, V
<1>t. /\ \A o \in U : f[o] \in Nat
      /\ \A o \in V : f[o] \in Nat
      /\ \A o \in created : f[o] \in Nat
      /\ \A o \in spent : f[o] \in Nat
      /\ f[place] \in Nat
  BY <1>b, <1>m, <1>n, <1>v, <1>3
<1>6. SumOver(f, V \cup spent) = SumOver(f, V) + SumOver(f, spent)
  <2>1. \A o \in V \cup spent : f[o] \in Nat
    BY <1>t
  <2> QED BY <1>1, <1>3, <1>m, <2>1, SumOverUnion
<1>7. SumOver(f, U \cup created) = SumOver(f, U) + SumOver(f, created) /\ IsFiniteSet(U \cup created)
  <2>1. \A o \in U \cup created : f[o] \in Nat
    BY <1>t
  <2>2. SumOver(f, U \cup created) = SumOver(f, U) + SumOver(f, created)
    BY <1>1, <1>3, <1>m, <2>1, SumOverUnion
  <2>3. IsFiniteSet(U \cup created)
    BY <1>1, <1>3, FS_Union
  <2> QED BY <2>2, <2>3
<1>8. SumOver(f, (U \cup created) \cup {place}) = b.coinbase + SumOver(f, U \cup created)
  <2> DEFINE S == U \cup created
  <2>1. IsFiniteSet(S) /\ place \notin S /\ \A o \in S \cup {place} : f[o] \in Nat
    BY <1>m, <1>t, <1>7
  <2> HIDE DEF S
  <2>2. SumOver(f, S \cup {place}) = f[place] + SumOver(f, S)
    BY <2>1, SumOverAdd
  <2> QED BY <1>v, <2>2 DEF S
<1>9. SumOver(f, U) \in Nat /\ SumOver(f, V) \in Nat
  BY <1>3, <1>t, SumOverNat
<1>10. SumOver(f, V) + fees = SumOver(f, U) + b.coinbase
  <2> DEFINE u == SumOver(f, U)
             v == SumOver(f, V)
             x == SumOver(f, created)
             y == SumOver(f, spent)
  <2>1. v + y = b.coinbase + (u + x)
    BY <1>m, <1>6, <1>7, <1>8
  <2>2. u \in Nat /\ v \in Nat /\ x \in Nat /\ x + fees = y /\ fees \in Nat /\ b.coinbase \in Nat
    BY <1>b, <1>1, <1>9
  <2> DEFINE z == b.coinbase
  <2>3. v + y = z + (u + x) /\ z \in Nat
    BY <2>1, <2>2
  <2> HIDE DEF u, v, x, y, z
  <2>4. y \in Nat /\ y = x + fees
    BY <2>2
  <2>5. v + fees = u + z
    BY <2>2, <2>3, <2>4
  <2> QED BY <2>5 DEF u, v, z
<1>11. Issued(r) = Issued(s) + b.reward /\ Issued(r) <= MaxSupply
  <2>1. Issued(s) <= MaxSupply
    BY <1>b DEF Balanced
  <2> QED BY <1>b, <1>g, <2>1, IssuedGrows
<1>12. UnspentValue(s) + BurnedFees(s) = Issued(s) /\ Issued(s) \in Nat
  BY <1>b, IssuedNat DEF Balanced
<1> DEFINE u == SumOver(f, U)
           v == SumOver(f, V)
           x == BurnedFees(s)
           i == Issued(s)
<1>13. u \in Nat /\ v \in Nat /\ x \in Nat /\ fees \in Nat /\ u + x = i /\ v + fees = u + b.coinbase
  BY <1>1, <1>4, <1>9, <1>10, <1>12, <1>f
<1>14. UnspentValue(r) = v /\ Issued(r) = i + b.reward
  BY <1>5, <1>11
<1>15. /\ CoinbaseActive(b.height) => BurnedFees(r) = x
       /\ ~CoinbaseActive(b.height) => BurnedFees(r) = x + fees
  BY <1>f
<1> HIDE DEF u, v, x, i
<1>16. UnspentValue(r) + BurnedFees(r) = Issued(r)
  <2>1. CASE CoinbaseActive(b.height)
    <3>1. b.coinbase = b.reward + fees
      BY <1>b, <2>1 DEF CoinbaseValue
    <3>2. v + x = i + b.reward
      BY <1>b, <1>13, <3>1
    <3> QED BY <1>14, <1>15, <2>1, <3>2
  <2>2. CASE ~CoinbaseActive(b.height)
    <3>1. b.coinbase = b.reward
      BY <1>b, <2>2 DEF CoinbaseValue
    <3>2. v + (x + fees) = i + b.reward
      BY <1>b, <1>13, <3>1
    <3> QED BY <1>14, <1>15, <2>2, <3>2
  <2> QED BY <2>1, <2>2
<1> QED BY <1>2, <1>11, <1>16 DEF Balanced, r

(* A block that extends a sound state leaves it sound.                      *)
LEMMA AppendKeepsSound ==
  ASSUME NEW s, Sound(s), NEW b, NEW records, Extends(s, b, records)
  PROVE  LET r == AppendBlock(s, b, records)
             txs == Elements(b.txids)
         IN  /\ Sound(r) /\ r.chain = Append(s.chain, b)
             /\ Known(r) = Known(s) \cup txs /\ Confirmed(r) = Confirmed(s) \cup txs
             /\ Pending(r) = Pending(s) \ txs
             /\ \A t \in Known(s) \ txs : r.transactions[t] = s.transactions[t]
<1> DEFINE r == AppendBlock(s, b, records)
           c == s.chain
           d == Append(c, b)
           txs == Elements(b.txids)
           created == CreatedBy(txs)
           spent == SpentBy(txs)
<1>s. /\ LedgerType(s) /\ IsFiniteSet(Known(s)) /\ ChainSound(c) /\ ConfirmedSound(s) /\ PoolSound(s)
      /\ FeesSound(s)
  BY DEF Sound
<1>b. /\ b \in BlockType /\ b.height = Len(c) + 1 /\ b.txids \in Seq(Txs)
      /\ txs \subseteq Txs /\ IsFiniteSet(txs) /\ c \in Seq(BlockType)
      /\ Pending(s) = {} \/ txs \subseteq Pending(s)
  BY <1>s, ElementsFinite DEF Extends, BlockType, ChainSound
<1>v. \A i \in DOMAIN b.txids :
        /\ \A o \in InputSet(b.txids[i]) : \A j \in 1..(i - 1) : o \notin InputSet(b.txids[j])
        /\ OutputSum(b.txids[i]) + records[b.txids[i]].fee = SumSeq(InputAmounts(s, b.txids[i]))
  BY DEF Extends, TxsApply, InputAmounts
<1>k. /\ Known(r) = Known(s) \cup txs
      /\ Confirmed(r) = Confirmed(s) \cup txs
      /\ Pending(r) = Pending(s) \ txs
      /\ \A t \in txs : r.transactions[t] \in RecordType /\ r.transactions[t].fee = records[t].fee
                        /\ r.transactions[t].height = b.height
      /\ \A t \in Known(s) \ txs : r.transactions[t] = s.transactions[t]
  BY AppendedTransactions
<1>p. /\ Shape(r) /\ r.chain = d /\ r.mempoolSeq = s.mempoolSeq
      /\ r.mempoolOrder = Omit(s.mempoolOrder, txs)
      /\ r.mempoolSpends = Without(s.mempoolSpends, spent)
      /\ r.mempoolOutputs = Without(s.mempoolOutputs, created)
  BY AppendParts
<1>n. /\ txs \cap ChainTxs(c) = {} /\ created \cap Created(c) = {} /\ spent \cap SpentIn(c) = {}
      /\ spent \subseteq Created(c) \cup created
  BY BlockIsNew
<1>d. /\ ChainSound(d) /\ ChainTxs(d) = ChainTxs(c) \cup txs
      /\ SpentIn(d) = SpentIn(c) \cup spent
      /\ Created(d) = Created(c) \cup {<<b.hash, 0>>} \cup created
  <2>1. ChainSound(d)
    BY ChainExtended
  <2> QED BY <1>b, <2>1, ChainAppend
<1>c. /\ Len(c) \in Nat /\ DOMAIN c = 1..Len(c) /\ DOMAIN d = 1..(Len(c) + 1)
      /\ d[Len(c) + 1] = b /\ \A i \in 1..Len(c) : d[i] = c[i]
  BY <1>b
<1>w. \A t \in Known(s) \cup txs : InputAmounts(r, t) = InputAmounts(s, t)
  BY InputsKeepWorth
<1>u. UtxosSound(r.utxos, d)
  BY OutputsExtended
<1> HIDE DEF r, d, created, spent
<1>f. /\ \A o : Unspent(r, o) <=> o \in Created(d) /\ o \notin SpentIn(d)
      /\ \A o : Unspent(s, o) <=> o \in Created(c) /\ o \notin SpentIn(c)
  BY <1>s, <1>p, <1>u, UtxosFacts DEF ConfirmedSound
<1>1. LedgerType(r)
  <2>1. DOMAIN r.transactions \subseteq Txs /\ \A t \in DOMAIN r.transactions : r.transactions[t] \in RecordType
    BY <1>s, <1>b, <1>k DEF LedgerType, Known
  <2>2. r.chain \in Seq(BlockType)
    BY <1>p, <1>d DEF ChainSound
  <2>3. r.mempoolOrder \in Seq(Txs) /\ r.mempoolSeq \in Nat
    BY <1>s, <1>p, OmitKeeps DEF LedgerType
  <2>4. DOMAIN r.utxos \subseteq Outpoint
    <3>1. Created(c) \subseteq Outpoint
      BY <1>s, UtxosFacts DEF LedgerType, ConfirmedSound
    <3>2. created \subseteq Outpoint
      BY <1>b, TxFacts DEF created, CreatedBy
    <3>3. <<b.hash, 0>> \in Outpoint
      BY <1>b DEF BlockType, Outpoint
    <3> QED BY <1>d, <1>u, <3>1, <3>2, <3>3 DEF UtxosSound
  <2>5. \A o \in DOMAIN r.utxos : r.utxos[o] \in [amount : Nat, spent : BOOLEAN]
    BY <1>u DEF UtxosSound
  <2>6. DOMAIN r.mempoolSpends \subseteq Outpoint /\ \A o \in DOMAIN r.mempoolSpends : r.mempoolSpends[o] \in Txs
    BY <1>s, <1>p DEF LedgerType, Without
  <2>7. DOMAIN r.mempoolOutputs \subseteq Outpoint /\ \A o \in DOMAIN r.mempoolOutputs : r.mempoolOutputs[o] \in Nat
    BY <1>s, <1>p DEF LedgerType, Without
  <2> QED BY <2>1, <2>2, <2>3, <2>4, <2>5, <2>6, <2>7 DEF LedgerType
<1>2. IsFiniteSet(Known(r))
  BY <1>s, <1>b, <1>k, FS_Union
<1>3. ConfirmedSound(r)
  <2>1. Confirmed(r) = ChainTxs(r.chain)
    BY <1>s, <1>k, <1>d, <1>p DEF ConfirmedSound
  <2>2. ASSUME NEW i \in DOMAIN d, NEW t \in Elements(d[i].txids) PROVE r.transactions[t].height = i
    <3>1. CASE i = Len(c) + 1
      BY <1>b, <1>c, <1>k, <2>2, <3>1
    <3>2. CASE i \in DOMAIN c
      <4>1. t \in Elements(c[i].txids) /\ t \in ChainTxs(c)
        BY <1>c, <2>2, <3>2 DEF ChainTxs
      <4>2. t \in Known(s) \ txs /\ s.transactions[t].height = i
        BY <1>s, <1>n, <3>2, <4>1 DEF ConfirmedSound, Confirmed
      <4> QED BY <1>k, <4>2
    <3> QED BY <1>c, <3>1, <3>2
  <2>3. ASSUME NEW t \in Confirmed(r), NEW u \in Confirmed(r), t # u
        PROVE  InputSet(t) \cap InputSet(u) = {}
    <3>1. \A v \in Confirmed(s) : InputSet(v) \subseteq SpentIn(c)
      BY <1>s DEF ConfirmedSound, SpentIn
    <3>2. \A v \in txs : InputSet(v) \subseteq spent
      BY DEF spent, SpentBy
    <3>3. CASE t \in Confirmed(s) /\ u \in Confirmed(s)
      BY <1>s, <2>3, <3>3 DEF ConfirmedSound
    <3>4. CASE (t \in Confirmed(s) /\ u \in txs) \/ (t \in txs /\ u \in Confirmed(s))
      BY <1>n, <3>1, <3>2, <3>4
    <3>5. CASE t \in txs /\ u \in txs
      <4>1. PICK i \in DOMAIN b.txids, j \in DOMAIN b.txids : b.txids[i] = t /\ b.txids[j] = u
        BY <3>5 DEF Elements
      <4>2. i \in Nat /\ j \in Nat /\ i # j /\ DOMAIN b.txids = 1..Len(b.txids) /\ Len(b.txids) \in Nat
        BY <1>b, <2>3, <4>1
      <4>3. \A k, l \in DOMAIN b.txids : l < k =>
              \A o \in InputSet(b.txids[k]) : o \notin InputSet(b.txids[l])
        <5> SUFFICES ASSUME NEW k \in DOMAIN b.txids, NEW l \in DOMAIN b.txids, l < k,
                            NEW o \in InputSet(b.txids[k])
                     PROVE  o \notin InputSet(b.txids[l])
          OBVIOUS
        <5>1. l \in 1..(k - 1)
          BY <4>2
        <5> QED BY <1>v, <5>1
      <4> SUFFICES ASSUME NEW o \in InputSet(t), o \in InputSet(u) PROVE FALSE
        OBVIOUS
      <4>4. i < j \/ j < i
        BY <4>2
      <4> QED BY <4>1, <4>3, <4>4
    <3> QED BY <1>k, <3>3, <3>4, <3>5
  <2>4. SpentIn(d) \subseteq Created(d)
    BY <1>s, <1>n, <1>d DEF ConfirmedSound
  <2> QED BY <1>p, <1>u, <2>1, <2>2, <2>3, <2>4 DEF ConfirmedSound
<1>4. PoolSound(r)
  <2>o. s.mempoolOrder \in Seq(Txs) /\ Elements(s.mempoolOrder) = Pending(s) /\ Pending(s) \subseteq Txs
    BY <1>s DEF LedgerType, PoolSound, Pending, Known
  <2>p. Pending(s) \cap Confirmed(s) = {}
    BY DEF Pending, Confirmed
  <2>1. Elements(r.mempoolOrder) = Pending(r)
    BY <1>p, <1>k, <2>o, OmitKeeps
  <2>2. \A i, j \in DOMAIN r.mempoolOrder : r.mempoolOrder[i] = r.mempoolOrder[j] => i = j
    <3>1. \A i, j \in DOMAIN s.mempoolOrder : s.mempoolOrder[i] = s.mempoolOrder[j] => i = j
      BY <1>s DEF PoolSound
    <3> QED BY <1>p, <2>o, <3>1, OmitKeeps
  <2>3. ASSUME NEW t \in Pending(r), NEW o \in InputSet(t) PROVE o \notin spent
    <3> SUFFICES ASSUME NEW u \in txs, o \in InputSet(u) PROVE FALSE
      BY DEF spent, SpentBy
    <3>1. t \in Pending(s) /\ t \notin txs /\ u \in Pending(s)
      BY <1>b, <1>k
    <3>2. s.mempoolSpends[o] = t /\ s.mempoolSpends[o] = u
      BY <1>s, <3>1 DEF PoolSound
    <3> QED BY <3>1, <3>2
  <2>4. DOMAIN r.mempoolSpends = UNION {InputSet(t) : t \in Pending(r)}
    <3>1. DOMAIN r.mempoolSpends = (UNION {InputSet(t) : t \in Pending(s)}) \ spent
      BY <1>s, <1>p DEF PoolSound, Without
    <3>2. \A t \in txs : InputSet(t) \subseteq spent
      BY DEF spent, SpentBy
    <3> QED BY <1>k, <2>3, <3>1, <3>2
  <2>5. \A t \in Pending(r) : \A o \in InputSet(t) : r.mempoolSpends[o] = t
    <3>1. \A t \in Pending(r) : \A o \in InputSet(t) : s.mempoolSpends[o] = t /\ o \in DOMAIN s.mempoolSpends
      BY <1>s, <1>k DEF PoolSound
    <3> QED BY <1>p, <2>3, <3>1 DEF Without
  <2>6. ASSUME NEW t \in Pending(r) PROVE OutpointsOf(t) \cap created = {}
    <3> SUFFICES ASSUME NEW u \in txs PROVE OutpointsOf(t) \cap OutpointsOf(u) = {}
      BY DEF created, CreatedBy
    <3>1. t \in Txs /\ u \in Txs /\ t # u
      BY <1>b, <1>k, <2>o
    <3> QED BY <3>1, OutpointsApart
  <2>7. DOMAIN r.mempoolOutputs = UNION {OutpointsOf(t) : t \in Pending(r)}
    <3>1. DOMAIN r.mempoolOutputs = (UNION {OutpointsOf(t) : t \in Pending(s)}) \ created
      BY <1>s, <1>p DEF PoolSound, Without
    <3>2. \A t \in txs : OutpointsOf(t) \subseteq created
      BY DEF created, CreatedBy
    <3> QED BY <1>k, <2>6, <3>1, <3>2
  <2>8. \A o \in DOMAIN r.mempoolOutputs : r.mempoolOutputs[o] = OutputAmount(o)
    BY <1>s, <1>p DEF PoolSound, Without
  <2>9. ASSUME NEW t \in Pending(r), NEW o \in InputSet(t), ~Unspent(r, o)
        PROVE  \E u \in Pending(r) : o \in OutpointsOf(u) /\ Precedes(r.mempoolOrder, u, t)
    <3>1. t \in Pending(s) /\ t \notin txs /\ o \notin spent
      BY <1>k, <2>3
    <3>2. ~Unspent(s, o)
      BY <1>f, <1>d, <2>9, <3>1
    <3>3. PICK u \in Pending(s) : o \in OutpointsOf(u) /\ Precedes(s.mempoolOrder, u, t)
      BY <1>s, <3>1, <3>2 DEF PoolSound
    <3>4. u \notin txs
      <4> SUFFICES ASSUME u \in txs PROVE FALSE
        OBVIOUS
      <4>1. o \in created
        BY <3>3 DEF created, CreatedBy
      <4>2. o \in Created(d) /\ o \notin SpentIn(d)
        BY <1>s, <1>n, <1>d, <3>1, <4>1 DEF ConfirmedSound
      <4> QED BY <1>f, <2>9, <4>2
    <3>5. Precedes(r.mempoolOrder, u, t)
      <4>1. u \in Txs \ txs /\ t \in Txs \ txs
        BY <2>o, <3>1, <3>4
      <4> QED BY <1>p, <2>o, <3>3, <4>1, OmitKeeps
    <3> QED BY <1>k, <3>3, <3>4, <3>5
  <2> QED BY <2>1, <2>2, <2>4, <2>5, <2>7, <2>8, <2>9 DEF PoolSound
<1>5. FeesSound(r)
  <2> SUFFICES ASSUME NEW t \in Known(r)
               PROVE  OutputSum(t) + r.transactions[t].fee = SumSeq(InputAmounts(r, t))
    BY DEF FeesSound
  <2>1. CASE t \in txs
    <3>1. PICK i \in DOMAIN b.txids : b.txids[i] = t
      BY <2>1 DEF Elements
    <3>2. OutputSum(t) + records[t].fee = SumSeq(InputAmounts(s, t))
      BY <1>v, <3>1
    <3> QED BY <1>k, <1>w, <2>1, <3>2
  <2>2. CASE t \in Known(s) \ txs
    BY <1>s, <1>k, <1>w, <2>2 DEF FeesSound
  <2> QED BY <1>k, <2>1, <2>2
<1>6. Balanced(r)
  BY AppendBalanced DEF r
<1> QED BY <1>k, <1>p, <1>d, <1>1, <1>2, <1>3, <1>4, <1>5, <1>6 DEF Sound, r, d
-----------------------------------------------------------------------------
(* What a reconciliation offers, in the order of the offers.                *)
Offered(candidate, previous) == ForReorg(Detached(candidate, previous), previous.transactions)

(* What the passes of a reconciliation leave.                               *)
Passes(candidate, previous) ==
  CHOOSE f : f = [k \in 0..(Len(Offered(candidate, previous)) + 1) |-> IF k = 0 THEN [st |-> candidate, waiting |-> Offered(candidate, previous), progress |-> TRUE] ELSE NextPass(f[k - 1], previous.transactions)]

(* The passes of a reconciliation exist; what each of them leaves.          *)
LEMMA PassesEquation ==
  ASSUME NEW candidate, NEW previous, Len(Offered(candidate, previous)) \in Nat
  PROVE  /\ Passes(candidate, previous)[0] = [st |-> candidate, waiting |-> Offered(candidate, previous), progress |-> TRUE]
         /\ \A k \in 1..(Len(Offered(candidate, previous)) + 1) : Passes(candidate, previous)[k] = NextPass(Passes(candidate, previous)[k - 1], previous.transactions)
         /\ Reconcile(candidate, previous) = Passes(candidate, previous)[Len(Offered(candidate, previous)) + 1].st
<1> DEFINE Base == [st |-> candidate, waiting |-> Offered(candidate, previous), progress |-> TRUE]
           Step(p, k) == NextPass(p, previous.transactions)
           F == Passes(candidate, previous)
<1>1. \E f : f = [k \in 0..(Len(Offered(candidate, previous)) + 1) |-> IF k = 0 THEN Base ELSE Step(f[k - 1], k)]
  <2> HIDE DEF Base, Step
  <2> DEFINE N == {n \in Nat : \E f : f = [k \in 0..n |-> IF k = 0 THEN Base ELSE Step(f[k - 1], k)]}
  <2>1. 0 \in N
    <3> DEFINE g == [k \in 0..0 |-> Base]
    <3>1. g = [k \in 0..0 |-> IF k = 0 THEN Base ELSE Step(g[k - 1], k)]
      OBVIOUS
    <3> QED BY <3>1
  <2>2. ASSUME NEW n \in N PROVE n + 1 \in N
    <3>1. PICK f : f = [k \in 0..n |-> IF k = 0 THEN Base ELSE Step(f[k - 1], k)]
      OBVIOUS
    <3> DEFINE g == [k \in 0..(n + 1) |-> IF k <= n THEN f[k] ELSE Step(f[n], n + 1)]
    <3>2. /\ n \in Nat /\ n + 1 \in Nat /\ g[n + 1] = Step(f[n], n + 1)
          /\ \A k \in 0..n : g[k] = f[k]
      OBVIOUS
    <3>3. g = [k \in 0..(n + 1) |-> g[k]]
      OBVIOUS
    <3> HIDE DEF g
    <3>4. ASSUME NEW k \in 0..(n + 1) PROVE g[k] = IF k = 0 THEN Base ELSE Step(g[k - 1], k)
      <4>1. CASE k <= n
        <5>1. k \in 0..n /\ g[k] = f[k] /\ (k # 0 => g[k - 1] = f[k - 1])
          BY <3>2, <4>1
        <5>2. f[k] = IF k = 0 THEN Base ELSE Step(f[k - 1], k)
          BY <3>1, <5>1, Zenon
        <5> QED BY <5>1, <5>2
      <4>2. CASE k = n + 1
        <5>1. k # 0 /\ k - 1 = n /\ g[k - 1] = f[n]
          BY <3>2, <4>2
        <5> QED BY <3>2, <4>2, <5>1
      <4> QED BY <3>2, <4>1, <4>2
    <3>5. g = [k \in 0..(n + 1) |-> IF k = 0 THEN Base ELSE Step(g[k - 1], k)]
      BY <3>3, <3>4, Zenon
    <3>6. \E h : h = [k \in 0..(n + 1) |-> IF k = 0 THEN Base ELSE Step(h[k - 1], k)]
      BY <3>5, Zenon
    <3> QED BY <3>2, <3>6, Zenon
  <2>3. N = Nat
    BY <2>1, <2>2, SetInduction
  <2>4. (Len(Offered(candidate, previous)) + 1) \in N
    BY <2>3, SMTT(15)
  <2> QED BY <2>4, Zenon
<1>2. F = [k \in 0..(Len(Offered(candidate, previous)) + 1) |-> IF k = 0 THEN Base ELSE Step(F[k - 1], k)]
  BY <1>1, Zenon DEF Passes
<1>3. Reconcile(candidate, previous) = F[Len(Offered(candidate, previous)) + 1].st
  BY <1>1, Zenon DEF Reconcile, Passes, Offered, ForReorg
<1>4. 0 \in 0..(Len(Offered(candidate, previous)) + 1) /\ \A k \in 1..(Len(Offered(candidate, previous)) + 1) : k \in 0..(Len(Offered(candidate, previous)) + 1) /\ k # 0
  OBVIOUS
<1> HIDE DEF F
<1>5. F[0] = Base /\ \A k \in 1..(Len(Offered(candidate, previous)) + 1) : F[k] = Step(F[k - 1], k)
  BY <1>2, <1>4, Zenon
<1> QED BY <1>3, <1>5, Zenon DEF F

-----------------------------------------------------------------------------
(* Nothing adds up to nothing.                                              *)
LEMMA EmptySum ==
  ASSUME NEW q, Len(q) = 0
  PROVE  SumSeq(q) = 0
<1> DEFINE f == PartialSums(q)
<1>1. f = [i \in 0..Len(q) |-> IF i = 0 THEN 0 ELSE f[i - 1] + q[i]] /\ SumSeq(q) = f[Len(q)]
  BY PartialSumsEquation
<1> HIDE DEF f
<1>2. f[0] = 0
  BY <1>1
<1> QED BY <1>1, <1>2

(* The state of an empty chain is sound.                                    *)
LEMMA EmptySound == Sound(EmptyState) /\ Known(EmptyState) = {} /\ EmptyState.chain = <<>>
<1> DEFINE e == EmptyState
<1>1. /\ Shape(e) /\ e.chain = <<>> /\ e.transactions = <<>> /\ e.mempoolOrder = <<>> /\ e.mempoolSeq = 0
      /\ e.utxos = <<>> /\ e.mempoolSpends = <<>> /\ e.mempoolOutputs = <<>>
  BY DEF EmptyState, Shape
<1> HIDE DEF e
<1>2. DOMAIN <<>> = {} /\ \A T : <<>> \in Seq(T)
  OBVIOUS
<1>3. Known(e) = {} /\ Pending(e) = {} /\ Confirmed(e) = {}
  BY <1>1, <1>2 DEF Known, Pending, Confirmed
<1>4. /\ ChainTxs(e.chain) = {} /\ Created(e.chain) = {} /\ SpentIn(e.chain) = {}
  BY <1>1, <1>2 DEF ChainTxs, Created, Coinbases, SpentIn
<1>5. LedgerType(e)
  BY <1>1, <1>2 DEF LedgerType
<1>6. ChainSound(e.chain)
  BY <1>1, <1>2 DEF ChainSound
<1>7. UtxosSound(e.utxos, e.chain)
  BY <1>1, <1>2, <1>4 DEF UtxosSound
<1>8. ConfirmedSound(e)
  BY <1>1, <1>2, <1>3, <1>4, <1>7 DEF ConfirmedSound
<1>9. PoolSound(e)
  BY <1>1, <1>2, <1>3 DEF PoolSound, Elements
<1>10. FeesSound(e) /\ IsFiniteSet(Known(e))
  BY <1>3, FS_EmptySet DEF FeesSound
<1>11. Balanced(e)
  <2>1. UnspentOutputs(e) = {} /\ Feeless(e) = {} /\ DOMAIN e.utxos = {}
    BY <1>1, <1>2, <1>3 DEF UnspentOutputs, Feeless
  <2>2. IsFiniteSet({}) /\ \A f : SumOver(f, {}) = 0
    BY FS_EmptySet, SumOverPick
  <2>3. UnspentValue(e) = 0
    BY <2>1, <2>2 DEF UnspentValue
  <2>4. BurnedFees(e) = 0
    BY <2>1, <2>2 DEF BurnedFees
  <2>5. Issued(e) = 0
    <3> DEFINE z == [i \in DOMAIN e.chain |-> e.chain[i].reward]
    <3>1. DOMAIN e.chain = 1..0
      BY <1>1
    <3>2. Len(z) = 0
      BY <3>1
    <3>3. Issued(e) = SumSeq(z)
      BY DEF Issued
    <3> HIDE DEF z
    <3> QED BY <3>2, <3>3, EmptySum
  <2> QED BY <2>1, <2>2, <2>3, <2>4, <2>5, LedgerAssumption DEF Balanced
<1> QED BY <1>1, <1>3, <1>5, <1>6, <1>8, <1>9, <1>10, <1>11 DEF Sound, e

(* The outputs of a chain are determined by it.                             *)
LEMMA OutputsUnique ==
  ASSUME NEW c, NEW u, NEW v, UtxosSound(u, c), UtxosSound(v, c)
  PROVE  u = v
<1>1. /\ u \in [Created(c) -> [amount : Nat, spent : BOOLEAN]]
      /\ v \in [Created(c) -> [amount : Nat, spent : BOOLEAN]]
  BY DEF UtxosSound
<1>2. ASSUME NEW o \in Created(c) PROVE u[o] = v[o]
  <2>1. u[o] \in [amount : Nat, spent : BOOLEAN] /\ v[o] \in [amount : Nat, spent : BOOLEAN]
    BY <1>1
  <2>2. u[o].amount = v[o].amount /\ (u[o].spent <=> v[o].spent)
    BY DEF UtxosSound
  <2>3. u[o].spent = v[o].spent
    BY <2>1, <2>2
  <2> QED BY <2>1, <2>2, <2>3
<1> QED BY <1>1, <1>2

-----------------------------------------------------------------------------
(* The chain c consists of the first n blocks of w.                         *)
Prefix(c, w, n) == c \in Seq(BlockType) /\ Len(c) = n /\ \A i \in 1..n : c[i] = w[i]
DistinctHashes(w) == \A i, j \in DOMAIN w : w[i].hash = w[j].hash => i = j

(* A block that replays on the first n blocks of w is the next of them.     *)
LEMMA ReplayStepSound ==
  ASSUME NEW w \in Seq(BlockType), DistinctHashes(w), NEW n \in Nat, n + 1 \in DOMAIN w,
         NEW s, Sound(s), Pending(s) = {}, Prefix(s.chain, w, n),
         NEW records, \A t \in DOMAIN records : records[t] \in RecordType,
         FeedBlockOk(s, w[n + 1], records)
  PROVE  LET r == AppendBlock(s, w[n + 1], records)
         IN  Sound(r) /\ Pending(r) = {} /\ Prefix(r.chain, w, n + 1)
<1> DEFINE b == w[n + 1]
           r == AppendBlock(s, b, records)
<1>1. EnvelopeOk(s, b, records) /\ TxsApply(s, b.txids, records)
  BY DEF FeedBlockOk
<1>2. /\ b.height = Len(s.chain) + 1
      /\ \A i, j \in DOMAIN b.txids : b.txids[i] = b.txids[j] => i = j
      /\ Elements(b.txids) \subseteq DOMAIN records
  BY <1>1 DEF EnvelopeOk, Height
<1>3. b \in BlockType /\ \A i \in DOMAIN s.chain : s.chain[i].hash # b.hash
  BY SMTT(15) DEF Prefix, DistinctHashes
<1>4. Extends(s, b, records)
  <2>1. /\ b.reward = ExpectedReward(s, b.height)
        /\ b.coinbase = CoinbaseValue(b.height, b.reward, TransactionFees(b.txids, records))
    BY <1>1 DEF EnvelopeOk
  <2> QED BY <1>1, <1>2, <1>3, <2>1 DEF Extends
<1>5. Sound(r) /\ Pending(r) = Pending(s) \ Elements(b.txids) /\ r.chain = Append(s.chain, b)
  BY <1>4, AppendKeepsSound
<1> HIDE DEF r
<1>6. Prefix(r.chain, w, n + 1)
  <2>1. /\ Append(s.chain, b) \in Seq(BlockType) /\ Len(Append(s.chain, b)) = n + 1
        /\ Append(s.chain, b)[n + 1] = b /\ \A i \in 1..n : Append(s.chain, b)[i] = s.chain[i]
    BY <1>3 DEF Prefix
  <2>2. \A i \in 1..(n + 1) : r.chain[i] = w[i]
    BY <1>5, <2>1 DEF Prefix
  <2> QED BY <1>5, <2>1, <2>2 DEF Prefix
<1> QED BY <1>5, <1>6 DEF r

(* A state without a mempool, as every replay starts and ends with.         *)
Idle(s) == Sound(s) /\ Pending(s) = {}
Rebuilt(s, w) == Idle(s) /\ s.chain = w

(* What a replay leaves after each block, as one formula.                   *)
Unfolded(s, blocks, records) ==
  LET f == Replays(s, blocks, records)
  IN  /\ f[0] = [ok |-> TRUE, st |-> s] /\ ReplayOn(s, blocks, records) = f[Len(blocks)]
      /\ \A i \in 1..Len(blocks) : f[i] = ReplayStep(f[i - 1], blocks[i], records)

(* It holds of every replay.                                                *)
LEMMA ReplayUnfolds ==
  ASSUME NEW s, NEW blocks, NEW records, Len(blocks) \in Nat
  PROVE  Unfolded(s, blocks, records)
BY ReplaysEquation DEF Unfolded

(* A replay that accepts every block of a chain rebuilds exactly that chain *)
(* in a sound state with nothing pending.                                   *)
LEMMA ReplaySound ==
  ASSUME NEW w \in Seq(BlockType), DistinctHashes(w), NEW n \in Nat, n <= Len(w),
         NEW s, Idle(s), Prefix(s.chain, w, n),
         NEW blocks, Len(blocks) = Len(w) - n, \A i \in 1..Len(blocks) : blocks[i] = w[n + i],
         NEW records, \A t \in DOMAIN records : records[t] \in RecordType,
         ReplayOn(s, blocks, records).ok
  PROVE  Rebuilt(ReplayOn(s, blocks, records).st, w)
<1> DEFINE f == Replays(s, blocks, records)
           Good(k) == f[k].ok => Idle(f[k].st) /\ Prefix(f[k].st.chain, w, n + k)
           N == {k \in Nat : k <= Len(blocks) => Good(k)}
<1>0. Len(blocks) \in Nat
  OBVIOUS
<1>1. /\ f[0] = [ok |-> TRUE, st |-> s] /\ ReplayOn(s, blocks, records) = f[Len(blocks)]
      /\ \A i \in 1..Len(blocks) : f[i] = ReplayStep(f[i - 1], blocks[i], records)
  <2>1. Unfolded(s, blocks, records)
    BY <1>0, ReplayUnfolds
  <2> QED BY <2>1 DEF Unfolded
<1> HIDE DEF f
<1>2. 0 \in N
  BY <1>1
<1>3. ASSUME NEW k \in N PROVE k + 1 \in N
  <2> SUFFICES ASSUME k + 1 <= Len(blocks), f[k + 1].ok PROVE Good(k + 1)
    OBVIOUS
  <2>1. k \in Nat /\ k <= Len(blocks) /\ k + 1 \in 1..Len(blocks) /\ (k + 1) - 1 = k /\ Good(k)
    BY <1>0
  <2> DEFINE p == f[k]
             b == w[n + (k + 1)]
  <2>2. f[k + 1] = ReplayStep(p, b, records)
    BY <1>1, <2>1
  <2>3. p.ok /\ FeedBlockOk(p.st, b, records) /\ f[k + 1].st = AppendBlock(p.st, b, records)
    BY <2>2 DEF ReplayStep
  <2>4. Sound(p.st) /\ Pending(p.st) = {} /\ Prefix(p.st.chain, w, n + k)
    BY <2>1, <2>3 DEF Idle
  <2>5. n + k \in Nat /\ (n + k) + 1 \in DOMAIN w /\ w[(n + k) + 1] = b /\ n + (k + 1) = (n + k) + 1
    BY <2>1
  <2> HIDE DEF p, b
  <2>6. /\ Sound(AppendBlock(p.st, b, records)) /\ Pending(AppendBlock(p.st, b, records)) = {}
        /\ Prefix(AppendBlock(p.st, b, records).chain, w, (n + k) + 1)
    BY <2>3, <2>4, <2>5, ReplayStepSound
  <2> QED BY <2>3, <2>5, <2>6 DEF Idle
<1>4. N = Nat
  BY <1>2, <1>3, SetInduction
<1>5. Good(Len(blocks))
  <2>1. Len(blocks) \in N
    BY <1>0, <1>4
  <2> HIDE DEF Good
  <2> QED BY <1>0, <2>1
<1> DEFINE r == ReplayOn(s, blocks, records).st
<1>6. Idle(r) /\ Prefix(r.chain, w, Len(w))
  BY <1>1, <1>5
<1> HIDE DEF r
<1>7. r.chain = w
  <2>1. r.chain \in Seq(BlockType) /\ Len(r.chain) = Len(w) /\ \A i \in 1..Len(w) : r.chain[i] = w[i]
    BY <1>6 DEF Prefix
  <2>2. w = [i \in 1..Len(w) |-> w[i]]
    OBVIOUS
  <2>3. r.chain = [i \in 1..Len(w) |-> r.chain[i]]
    BY <2>1
  <2> QED BY <2>1, <2>2, <2>3
<1> QED BY <1>6, <1>7 DEF r, Rebuilt

(* An admission in order that takes every transaction keeps the state sound *)
(* and has all of them pending.                                             *)
LEMMA AdmitSound ==
  ASSUME NEW s, Sound(s), NEW q \in Seq(Txs), NEW transactions,
         \A t \in Elements(q) : transactions[t] \in RecordType,
         AdmitInOrder(s, q, transactions).ok
  PROVE  LET r == AdmitInOrder(s, q, transactions).st
         IN  Sound(r) /\ r.chain = s.chain /\ Pending(r) = Pending(s) \cup Elements(q)
<1> DEFINE f == Admissions(s, q, transactions)
           Good(k) == f[k].ok =>
                        /\ Sound(f[k].st) /\ f[k].st.chain = s.chain
                        /\ Pending(f[k].st) = Pending(s) \cup {q[i] : i \in 1..k}
           N == {k \in Nat : k <= Len(q) => Good(k)}
<1>1. /\ f[0] = [ok |-> TRUE, st |-> s] /\ AdmitInOrder(s, q, transactions) = f[Len(q)]
      /\ \A i \in 1..Len(q) : f[i] = AdmitStep(f[i - 1], q[i], transactions)
  BY AdmissionsEquation
<1> HIDE DEF f
<1>2. 0 \in N
  BY <1>1
<1>3. ASSUME NEW k \in N PROVE k + 1 \in N
  <2> SUFFICES ASSUME k + 1 <= Len(q), f[k + 1].ok PROVE Good(k + 1)
    OBVIOUS
  <2>1. k \in Nat /\ k <= Len(q) /\ k + 1 \in 1..Len(q) /\ (k + 1) - 1 = k /\ Good(k)
    OBVIOUS
  <2> DEFINE p == f[k]
             t == q[k + 1]
             seq == FeedSeq(p.st, transactions[t].seq)
  <2>2. f[k + 1] = AdmitStep(p, t, transactions)
    BY <1>1, <2>1
  <2>3. p.ok /\ AcceptError(p.st, t) = "none" /\ f[k + 1].st = AcceptTxInto(p.st, t, seq)
    BY <2>2 DEF AdmitStep
  <2>4. Sound(p.st) /\ p.st.chain = s.chain /\ Pending(p.st) = Pending(s) \cup {q[i] : i \in 1..k}
    BY <2>1, <2>3
  <2>5. t \in Txs /\ t \in Elements(q) /\ transactions[t] \in RecordType
    BY <2>1 DEF Elements
  <2>6. seq \in Nat
    <3>1. p.st.mempoolSeq \in Nat /\ transactions[t].seq \in Nat
      BY <2>4, <2>5 DEF Sound, LedgerType, RecordType
    <3> QED BY <3>1 DEF FeedSeq, NextSeq
  <2>7. {q[i] : i \in 1..(k + 1)} = {q[i] : i \in 1..k} \cup {t}
    BY <2>1
  <2> HIDE DEF p, t, seq
  <2>8. /\ Sound(AcceptTxInto(p.st, t, seq)) /\ AcceptTxInto(p.st, t, seq).chain = p.st.chain
        /\ Pending(AcceptTxInto(p.st, t, seq)) = Pending(p.st) \cup {t}
    BY <2>3, <2>4, <2>5, <2>6, AcceptKeepsSound
  <2> QED BY <2>3, <2>4, <2>7, <2>8
<1>4. N = Nat
  BY <1>2, <1>3, SetInduction
<1>5. Good(Len(q))
  BY <1>4
<1>6. {q[i] : i \in 1..Len(q)} = Elements(q)
  BY DEF Elements
<1> QED BY <1>1, <1>5, <1>6

-----------------------------------------------------------------------------
(* What the data file of a node holds: a chain and typed records.           *)
ImageSound(image) ==
  /\ ChainSound(image.chain) /\ IsFiniteSet(DOMAIN image.transactions)
  /\ \A t \in DOMAIN image.transactions : t \in Txs /\ image.transactions[t] \in RecordType

PendingIn(image) == {t \in DOMAIN image.transactions : image.transactions[t].status = "pending"}

(* A file that loads gives a sound state with the chain and the pending     *)
(* transactions of the file.                                                *)
LEMMA ReloadSound ==
  ASSUME NEW image, ImageSound(image), VerifyPersistedState(image).ok
  PROVE  LET r == VerifyPersistedState(image).st
         IN  Sound(r) /\ r.chain = image.chain /\ Pending(r) = PendingIn(image)
<1> DEFINE w == image.chain
           records == ConfirmedRecords(image.transactions)
           replayed == ReplayOn(EmptyState, w, records)
           q == ByArrival(PendingIn(image), image.transactions)
<1>1. VerifyPersistedState(image) =
        IF replayed.ok THEN AdmitInOrder(replayed.st, q, image.transactions) ELSE replayed
  BY DEF VerifyPersistedState, PendingIn, ByArrival
<1>2. q \in Seq(PendingIn(image)) /\ Elements(q) = PendingIn(image)
  <2>1. /\ PendingIn(image) \in SUBSET Txs /\ IsFiniteSet(PendingIn(image))
        /\ \A t \in PendingIn(image) : image.transactions[t] \in RecordType
    BY FS_Subset DEF ImageSound, PendingIn
  <2> QED BY <2>1, PersistedOrderLists
<1> HIDE DEF q
<1>3. \A t \in DOMAIN records : records[t] \in RecordType
  BY DEF ImageSound, ConfirmedRecords
<1>4. /\ w \in Seq(BlockType) /\ DistinctHashes(w)
  BY DEF ImageSound, ChainSound, DistinctHashes
<1>5. Idle(EmptyState) /\ Prefix(EmptyState.chain, w, 0)
  BY EmptySound DEF Idle, Pending, Prefix
<1> HIDE DEF records, w
<1>6. replayed.ok
  BY <1>1
<1>7. Sound(replayed.st) /\ Pending(replayed.st) = {} /\ replayed.st.chain = w
  <2>1. 0 \in Nat /\ 0 <= Len(w) /\ Len(w) = Len(w) - 0 /\ \A i \in 1..Len(w) : w[i] = w[0 + i]
    BY <1>4
  <2> HIDE DEF replayed
  <2>2. ReplayOn(EmptyState, w, records).ok
    BY <1>6 DEF replayed
  <2>3. Rebuilt(ReplayOn(EmptyState, w, records).st, w)
    BY <1>3, <1>4, <1>5, <2>1, <2>2, ReplaySound
  <2> QED BY <2>3 DEF replayed, Rebuilt, Idle
<1> HIDE DEF replayed
<1>8. /\ VerifyPersistedState(image) = AdmitInOrder(replayed.st, q, image.transactions)
      /\ AdmitInOrder(replayed.st, q, image.transactions).ok
  BY <1>1, <1>6
<1>9. q \in Seq(Txs) /\ \A t \in Elements(q) : image.transactions[t] \in RecordType
  BY <1>2 DEF ImageSound, PendingIn
<1>10. /\ Sound(AdmitInOrder(replayed.st, q, image.transactions).st)
       /\ AdmitInOrder(replayed.st, q, image.transactions).st.chain = w
       /\ Pending(AdmitInOrder(replayed.st, q, image.transactions).st) = PendingIn(image)
  <2> DEFINE r == AdmitInOrder(replayed.st, q, image.transactions).st
  <2>1. Sound(r) /\ r.chain = replayed.st.chain /\ Pending(r) = Pending(replayed.st) \cup Elements(q)
    BY <1>7, <1>8, <1>9, AdmitSound, Zenon
  <2> QED BY <1>2, <1>7, <2>1
<1> QED BY <1>8, <1>10 DEF w

-----------------------------------------------------------------------------
(* A transaction the state knows, or will not take because an input is      *)
(* reserved or the outputs are worth more than the inputs.                  *)
Refused(s, t) ==
  \/ t \in Known(s)
  \/ \E o \in InputSet(t) : Reserved(s, o)
  \/ (\A o \in InputSet(t) : Spendable(s, o)) /\ Overspends(s, t)

(* Such a transaction is not accepted.                                      *)
LEMMA RefusedErrs ==
  ASSUME NEW s, NEW t, Refused(s, t)
  PROVE  AcceptError(s, t) # "none"
BY AcceptConditions DEF Refused

(* Whatever is neither accepted nor missing an input is refused.            *)
LEMMA DropsAreRefused ==
  ASSUME NEW s, NEW t \in Txs, AcceptError(s, t) # "none", AcceptError(s, t) # "missing_or_spent_input"
  PROVE  Refused(s, t)
<1> DEFINE Bad(i) == ~Spendable(s, Inputs[t][i]) \/ Reserved(s, Inputs[t][i])
<1>1. Inputs[t] \in Seq(Outpoint) /\ \A i \in DOMAIN Inputs[t] : Inputs[t][i] \in InputSet(t)
  BY TxFacts DEF InputSet, Elements
<1>2. CASE t \in Known(s)
  BY <1>2 DEF Refused
<1>3. CASE t \notin Known(s) /\ \E i \in DOMAIN Inputs[t] : Bad(i)
  <2> DEFINE first == CHOOSE i \in DOMAIN Inputs[t] : Bad(i) /\ \A j \in 1..(i - 1) : ~Bad(j)
  <2>1. AcceptError(s, t) = IF Spendable(s, Inputs[t][first]) THEN "input_reserved" ELSE "missing_or_spent_input"
    BY <1>3, Zenon DEF AcceptError
  <2>2. first \in DOMAIN Inputs[t] /\ Bad(first)
    <3> DEFINE S == {i \in DOMAIN Inputs[t] : Bad(i)}
    <3>1. S \in SUBSET Nat /\ S # {}
      BY <1>1, <1>3
    <3>2. PICK m \in S : \A n \in S : m <= n
      BY <3>1, LeastElement
    <3>3. \A j \in 1..(m - 1) : ~Bad(j)
      <4> SUFFICES ASSUME NEW j \in 1..(m - 1), Bad(j) PROVE FALSE
        OBVIOUS
      <4>1. j \in DOMAIN Inputs[t]
        BY <1>1
      <4>2. j \in S
        BY <4>1
      <4> HIDE DEF S
      <4> QED BY <1>1, <3>1, <3>2, <4>2
    <3>4. \E i \in DOMAIN Inputs[t] : Bad(i) /\ \A j \in 1..(i - 1) : ~Bad(j)
      BY <3>2, <3>3
    <3> HIDE DEF Bad, S
    <3> QED BY <3>4
  <2>3. Spendable(s, Inputs[t][first])
    BY <2>1
  <2> HIDE DEF first
  <2>4. Reserved(s, Inputs[t][first])
    BY <2>2, <2>3
  <2> QED BY <1>1, <2>2, <2>4 DEF Refused
<1>4. CASE t \notin Known(s) /\ ~\E i \in DOMAIN Inputs[t] : Bad(i)
  <2>1. AcceptError(s, t) = IF Overspends(s, t) THEN "overspend" ELSE "none"
    BY <1>4, Zenon DEF AcceptError
  <2>2. \A o \in InputSet(t) : Spendable(s, o)
    BY <1>4 DEF InputSet, Elements
  <2> QED BY <2>1, <2>2 DEF Refused
<1> QED BY <1>2, <1>3, <1>4

(* What is refused stays refused when another transaction is accepted.      *)
LEMMA RefusedStays ==
  ASSUME NEW s, Sound(s), NEW u \in Txs, AcceptError(s, u) = "none", NEW seq \in Nat,
         NEW t \in Txs, Refused(s, t)
  PROVE  Refused(AcceptTxInto(s, u, seq), t)
<1> DEFINE r == AcceptTxInto(s, u, seq)
<1>1. /\ Sound(r) /\ r.utxos = s.utxos /\ Pending(r) = Pending(s) \cup {u}
      /\ Known(r) = Known(s) \cup {u}
  BY AcceptKeepsSound
<1> HIDE DEF r
<1>2. CASE t \in Known(s)
  BY <1>1, <1>2 DEF Refused, r
<1>3. CASE \E o \in InputSet(t) : Reserved(s, o)
  <2>1. DOMAIN s.mempoolSpends \subseteq DOMAIN r.mempoolSpends
    BY <1>1 DEF Sound, PoolSound
  <2> QED BY <1>3, <2>1 DEF Refused, Reserved, r
<1>4. CASE (\A o \in InputSet(t) : Spendable(s, o)) /\ Overspends(s, t)
  <2>1. DOMAIN s.mempoolOutputs \subseteq DOMAIN r.mempoolOutputs
    BY <1>1 DEF Sound, PoolSound
  <2>2. \A o \in InputSet(t) : Spendable(r, o)
    BY <1>1, <1>4, <2>1 DEF Spendable, Unspent
  <2>3. InputAmounts(r, t) = InputAmounts(s, t)
    BY <1>1 DEF InputAmounts, ConfirmAmount
  <2>4. InputSum(s, t) = SumSeq(InputAmounts(s, t))
    BY <1>4, InputSumFacts
  <2>5. InputSum(r, t) = SumSeq(InputAmounts(r, t))
    BY <1>1, <2>2, InputSumFacts
  <2>6. Overspends(r, t)
    BY <1>4, <2>3, <2>4, <2>5 DEF Overspends
  <2> QED BY <2>2, <2>6 DEF Refused, r
<1> QED BY <1>2, <1>3, <1>4 DEF Refused

(* The record a reconciliation carries from one offer to the next.          *)
Offer(p) == DOMAIN p = {"st", "waiting", "progress"}

(* An offer is taken, keeps waiting for its inputs, or is refused.          *)
LEMMA OfferOutcome ==
  ASSUME NEW p, Offer(p), NEW t, NEW transactions
  PROVE  LET o == OfferStep(p, t, transactions)
         IN  /\ Offer(o)
             /\ AcceptError(p.st, t) = "none" =>
                  /\ o.st = AcceptTxInto(p.st, t, FeedSeq(p.st, transactions[t].seq))
                  /\ o.waiting = p.waiting /\ o.progress
             /\ AcceptError(p.st, t) = "missing_or_spent_input" =>
                  o.st = p.st /\ o.waiting = Append(p.waiting, t) /\ (o.progress <=> p.progress)
             /\ AcceptError(p.st, t) \notin {"none", "missing_or_spent_input"} => o = p
<1> DEFINE o == OfferStep(p, t, transactions)
<1>1. CASE AcceptError(p.st, t) = "none"
  <2>1. o = [p EXCEPT !.st = AcceptTxInto(@, t, FeedSeq(@, transactions[t].seq)), !.progress = TRUE]
    BY <1>1, Zenon DEF OfferStep
  <2> QED BY <1>1, <2>1 DEF Offer
<1>2. CASE AcceptError(p.st, t) = "missing_or_spent_input"
  <2>1. o = [p EXCEPT !.waiting = Append(@, t)]
    <3>1. "missing_or_spent_input" # "none"
      OBVIOUS
    <3> QED BY <1>2, <3>1, Zenon DEF OfferStep
  <2> QED BY <1>2, <2>1 DEF Offer
<1>3. CASE AcceptError(p.st, t) \notin {"none", "missing_or_spent_input"}
  <2>1. o = p
    BY <1>3, Zenon DEF OfferStep
  <2> QED BY <1>3, <2>1
<1> QED BY <1>1, <1>2, <1>3

(* What is true after the first i offers of q to the state s.               *)
OffersMade(s, q, i, p) ==
  /\ Offer(p) /\ Sound(p.st) /\ p.st.chain = s.chain /\ Known(s) \subseteq Known(p.st)
  /\ p.waiting \in Seq(Txs) /\ Elements(p.waiting) \subseteq Elements(q)
  /\ Len(p.waiting) <= i /\ (p.progress => Len(p.waiting) < i)
  /\ \A k \in 1..i : q[k] \in Elements(p.waiting) \/ Refused(p.st, q[k])
  /\ \A t \in Txs : Refused(s, t) => Refused(p.st, t)
  /\ ~p.progress => p.st = s /\ \A t \in Elements(p.waiting) : AcceptError(s, t) # "none"

(* One more offer keeps it true.                                            *)
LEMMA OneMoreOffer ==
  ASSUME NEW s, NEW q \in Seq(Txs), NEW i \in Nat, i + 1 \in DOMAIN q, NEW p, OffersMade(s, q, i, p),
         NEW transactions, \A t \in Elements(q) : transactions[t] \in RecordType
  PROVE  OffersMade(s, q, i + 1, OfferStep(p, q[i + 1], transactions))
<1> DEFINE t == q[i + 1]
           o == OfferStep(p, t, transactions)
<1>0. /\ t \in Txs /\ t \in Elements(q) /\ transactions[t] \in RecordType
      /\ \A k \in 1..(i + 1) : k \in 1..i \/ k = i + 1
      /\ \A k \in 1..(i + 1) : q[k] \in Txs
  BY DEF Elements
<1>p. /\ Offer(p) /\ Sound(p.st) /\ p.st.chain = s.chain /\ Known(s) \subseteq Known(p.st)
      /\ p.waiting \in Seq(Txs) /\ Elements(p.waiting) \subseteq Elements(q)
      /\ Len(p.waiting) \in Nat /\ Len(p.waiting) <= i /\ (p.progress => Len(p.waiting) < i)
      /\ \A k \in 1..i : q[k] \in Elements(p.waiting) \/ Refused(p.st, q[k])
      /\ \A u \in Txs : Refused(s, u) => Refused(p.st, u)
      /\ ~p.progress => p.st = s /\ \A u \in Elements(p.waiting) : AcceptError(s, u) # "none"
  BY DEF OffersMade
<1>o. /\ Offer(o)
      /\ AcceptError(p.st, t) = "none" =>
           /\ o.st = AcceptTxInto(p.st, t, FeedSeq(p.st, transactions[t].seq))
           /\ o.waiting = p.waiting /\ o.progress
      /\ AcceptError(p.st, t) = "missing_or_spent_input" =>
           o.st = p.st /\ o.waiting = Append(p.waiting, t) /\ (o.progress <=> p.progress)
      /\ AcceptError(p.st, t) \notin {"none", "missing_or_spent_input"} => o = p
  <2>1. Offer(p)
    BY <1>p
  <2> HIDE DEF t
  <2> QED BY <2>1, OfferOutcome, Zenon
<1> HIDE DEF o, t
<1>t. \A k \in 1..(i + 1) : k \in 1..i \/ q[k] = t
  BY <1>0 DEF t
<1>1. CASE AcceptError(p.st, t) = "none"
  <2> DEFINE seq == FeedSeq(p.st, transactions[t].seq)
  <2>1. seq \in Nat
    <3>1. p.st.mempoolSeq \in Nat /\ transactions[t].seq \in Nat
      BY <1>0, <1>p DEF Sound, LedgerType, RecordType
    <3> QED BY <3>1 DEF FeedSeq, NextSeq
  <2>2. o.st = AcceptTxInto(p.st, t, seq) /\ o.waiting = p.waiting /\ o.progress
    BY <1>1, <1>o
  <2> HIDE DEF seq
  <2>3. Sound(o.st) /\ o.st.chain = p.st.chain /\ Known(o.st) = Known(p.st) \cup {t}
    BY <1>0, <1>1, <1>p, <2>1, <2>2, AcceptKeepsSound
  <2>4. \A u \in Txs : Refused(p.st, u) => Refused(o.st, u)
    BY <1>0, <1>1, <1>p, <2>1, <2>2, RefusedStays
  <2>5. Refused(o.st, t)
    BY <2>3 DEF Refused
  <2>6. \A k \in 1..(i + 1) : q[k] \in Elements(o.waiting) \/ Refused(o.st, q[k])
    BY <1>0, <1>t, <1>p, <2>2, <2>4, <2>5
  <2>7. Len(o.waiting) <= i + 1 /\ Len(o.waiting) < i + 1
    BY <1>p, <2>2
  <2> QED BY <1>o, <1>p, <2>2, <2>3, <2>4, <2>6, <2>7 DEF OffersMade, o, t
<1>2. CASE AcceptError(p.st, t) = "missing_or_spent_input"
  <2>1. o.st = p.st /\ o.waiting = Append(p.waiting, t) /\ (o.progress <=> p.progress)
    BY <1>2, <1>o
  <2>2. /\ o.waiting \in Seq(Txs) /\ Len(o.waiting) = Len(p.waiting) + 1
        /\ Elements(o.waiting) = Elements(p.waiting) \cup {t}
    BY <1>0, <1>p, <2>1, AppendPrecedes
  <2>3. AcceptError(p.st, t) # "none"
    BY <1>2
  <2>4. \A k \in 1..(i + 1) : q[k] \in Elements(o.waiting) \/ Refused(o.st, q[k])
    BY <1>t, <1>p, <2>1, <2>2
  <2>5. Len(o.waiting) <= i + 1 /\ (o.progress => Len(o.waiting) < i + 1)
    BY <1>p, <2>1, <2>2
  <2>6. ~o.progress => o.st = s /\ \A u \in Elements(o.waiting) : AcceptError(s, u) # "none"
    BY <1>p, <2>1, <2>2, <2>3
  <2> QED BY <1>0, <1>o, <1>p, <2>1, <2>2, <2>4, <2>5, <2>6 DEF OffersMade, o, t
<1>3. CASE AcceptError(p.st, t) \notin {"none", "missing_or_spent_input"}
  <2>1. o = p
    BY <1>3, <1>o
  <2>2. Refused(p.st, t)
    BY <1>0, <1>3, DropsAreRefused
  <2>3. \A k \in 1..(i + 1) : q[k] \in Elements(p.waiting) \/ Refused(p.st, q[k])
    BY <1>t, <1>p, <2>2
  <2>4. Len(p.waiting) <= i + 1 /\ (p.progress => Len(p.waiting) < i + 1)
    BY <1>p
  <2>5. OffersMade(s, q, i + 1, p)
    BY <1>p, <2>3, <2>4 DEF OffersMade
  <2> QED BY <2>1, <2>5 DEF o, t
<1> QED BY <1>1, <1>2, <1>3

(* What a whole pass leaves.                                                *)
LEMMA PassMade ==
  ASSUME NEW s, Sound(s), NEW q \in Seq(Txs), NEW transactions,
         \A t \in Elements(q) : transactions[t] \in RecordType
  PROVE  OffersMade(s, q, Len(q), ReconcilePass(s, q, transactions))
<1> DEFINE f == Offers(s, q, transactions)
           N == {i \in Nat : i <= Len(q) => OffersMade(s, q, i, f[i])}
<1>1. /\ f[0] = [st |-> s, waiting |-> <<>>, progress |-> FALSE]
      /\ ReconcilePass(s, q, transactions) = f[Len(q)]
      /\ \A i \in 1..Len(q) : f[i] = OfferStep(f[i - 1], q[i], transactions)
  BY OffersEquation
<1> HIDE DEF f
<1>2. 0 \in N
  <2>1. /\ f[0].st = s /\ f[0].waiting = <<>> /\ ~f[0].progress /\ Offer(f[0])
    BY <1>1 DEF Offer
  <2>2. <<>> \in Seq(Txs) /\ Len(<<>>) = 0 /\ Elements(<<>>) = {}
    BY DEF Elements
  <2>3. OffersMade(s, q, 0, f[0])
    BY <2>1, <2>2 DEF OffersMade
  <2> QED BY <2>3
<1>3. ASSUME NEW i \in N PROVE i + 1 \in N
  <2> SUFFICES ASSUME i + 1 <= Len(q) PROVE OffersMade(s, q, i + 1, f[i + 1])
    OBVIOUS
  <2>1. i \in Nat /\ i + 1 \in DOMAIN q /\ i + 1 \in 1..Len(q) /\ (i + 1) - 1 = i /\ OffersMade(s, q, i, f[i])
    OBVIOUS
  <2>2. f[i + 1] = OfferStep(f[i], q[i + 1], transactions)
    BY <1>1, <2>1
  <2> QED BY <2>1, <2>2, OneMoreOffer
<1>4. N = Nat
  BY <1>2, <1>3, SetInduction
<1>5. Len(q) \in N
  BY <1>4
<1> QED BY <1>1, <1>5

(* What is true after k passes of a reconciliation of the state s: as long  *)
(* as the passes make progress fewer transactions wait.                     *)
PassesMade(s, q, k, p) ==
  /\ Offer(p) /\ Sound(p.st) /\ p.st.chain = s.chain /\ Known(s) \subseteq Known(p.st)
  /\ p.waiting \in Seq(Txs) /\ Elements(p.waiting) \subseteq Elements(q)
  /\ p.progress => p.waiting = <<>> \/ Len(p.waiting) + k <= Len(q)
  /\ \A t \in Elements(q) : t \in Elements(p.waiting) \/ Refused(p.st, t)
  /\ ~p.progress => \A t \in Elements(p.waiting) : AcceptError(p.st, t) # "none"

(* One more pass keeps it true.                                             *)
LEMMA OneMorePass ==
  ASSUME NEW s, NEW q \in Seq(Txs), NEW k \in Nat, NEW p, PassesMade(s, q, k, p),
         NEW transactions, \A t \in Elements(q) : transactions[t] \in RecordType
  PROVE  PassesMade(s, q, k + 1, NextPass(p, transactions))
<1>p. /\ Offer(p) /\ Sound(p.st) /\ p.st.chain = s.chain /\ Known(s) \subseteq Known(p.st)
      /\ p.waiting \in Seq(Txs) /\ Elements(p.waiting) \subseteq Elements(q)
      /\ p.progress => p.waiting = <<>> \/ Len(p.waiting) + k <= Len(q)
      /\ \A t \in Elements(q) : t \in Elements(p.waiting) \/ Refused(p.st, t)
      /\ ~p.progress => \A t \in Elements(p.waiting) : AcceptError(p.st, t) # "none"
  BY DEF PassesMade
<1>1. CASE p.progress /\ p.waiting # <<>>
  <2> DEFINE w == p.waiting
             o == ReconcilePass(p.st, w, transactions)
  <2>1. NextPass(p, transactions) = o
    BY <1>1 DEF NextPass
  <2>2. OffersMade(p.st, w, Len(w), o)
    BY <1>p, PassMade
  <2> HIDE DEF o
  <2>3. /\ Offer(o) /\ Sound(o.st) /\ o.st.chain = p.st.chain /\ Known(p.st) \subseteq Known(o.st)
        /\ o.waiting \in Seq(Txs) /\ Elements(o.waiting) \subseteq Elements(w)
        /\ o.progress => Len(o.waiting) < Len(w)
        /\ \A i \in 1..Len(w) : w[i] \in Elements(o.waiting) \/ Refused(o.st, w[i])
        /\ \A t \in Txs : Refused(p.st, t) => Refused(o.st, t)
        /\ ~o.progress => o.st = p.st /\ \A t \in Elements(o.waiting) : AcceptError(p.st, t) # "none"
    BY <2>2 DEF OffersMade
  <2>4. \A t \in Elements(w) : t \in Elements(o.waiting) \/ Refused(o.st, t)
    <3>1. \A t \in Elements(w) : \E i \in 1..Len(w) : w[i] = t
      BY <1>p DEF Elements
    <3> QED BY <2>3, <3>1
  <2>5. Elements(q) \subseteq Txs
    BY DEF Elements
  <2>6. \A t \in Elements(q) : t \in Elements(o.waiting) \/ Refused(o.st, t)
    BY <1>p, <2>3, <2>4, <2>5
  <2>7. o.progress => Len(o.waiting) + (k + 1) <= Len(q)
    <3> SUFFICES ASSUME o.progress PROVE Len(o.waiting) + (k + 1) <= Len(q)
      OBVIOUS
    <3>1. Len(o.waiting) \in Nat /\ Len(w) \in Nat /\ Len(w) + k <= Len(q)
      BY <1>1, <1>p, <2>3
    <3>2. Len(o.waiting) < Len(w)
      BY <2>3, Zenon
    <3>3. Len(q) \in Nat
      OBVIOUS
    <3>4. \A a, b, c, d \in Nat : a < b /\ b + d <= c => a + (d + 1) <= c
      OBVIOUS
    <3> QED BY <3>1, <3>2, <3>3, <3>4, Zenon
  <2>8. Elements(o.waiting) \subseteq Elements(q) /\ Known(s) \subseteq Known(o.st) /\ o.st.chain = s.chain
    BY <1>p, <2>3
  <2>9. PassesMade(s, q, k + 1, o)
    BY <2>3, <2>6, <2>7, <2>8 DEF PassesMade
  <2> QED BY <2>1, <2>9
<1>2. CASE ~(p.progress /\ p.waiting # <<>>)
  <2>1. NextPass(p, transactions) = p
    BY <1>2 DEF NextPass
  <2>2. p.progress => p.waiting = <<>>
    BY <1>2
  <2>3. PassesMade(s, q, k + 1, p)
    BY <1>p, <2>2 DEF PassesMade
  <2> QED BY <2>1, <2>3
<1> QED BY <1>1, <1>2

(* A reconciliation keeps the chain of the candidate and leaves a sound     *)
(* state, and what the abandoned state knew and the new one does not is not *)
(* acceptable in it.                                                        *)
LEMMA ReconcileSound ==
  ASSUME NEW candidate, Sound(candidate), NEW previous, Sound(previous)
  PROVE  LET r == Reconcile(candidate, previous)
         IN  /\ Sound(r) /\ r.chain = candidate.chain
             /\ \A t \in Known(previous) \ Known(r) : AcceptError(r, t) # "none"
<1> DEFINE q == Offered(candidate, previous)
           f == Passes(candidate, previous)
           transactions == previous.transactions
           N == {k \in Nat : k <= Len(q) + 1 => PassesMade(candidate, q, k, f[k])}
<1>1. /\ q \in Seq(Detached(candidate, previous)) /\ Elements(q) = Detached(candidate, previous)
  <2>1. /\ Detached(candidate, previous) \in SUBSET Txs /\ IsFiniteSet(Detached(candidate, previous))
        /\ \A t \in Detached(candidate, previous) : transactions[t] \in RecordType
    BY FS_Subset DEF Detached, Sound, LedgerType, Known
  <2> QED BY <2>1, ReorgOrderLists DEF Offered
<1> HIDE DEF q
<1>2. q \in Seq(Txs) /\ Len(q) \in Nat /\ \A t \in Elements(q) : transactions[t] \in RecordType
  BY <1>1 DEF Detached, Sound, LedgerType, Known
<1>3. /\ f[0] = [st |-> candidate, waiting |-> q, progress |-> TRUE]
      /\ \A k \in 1..(Len(q) + 1) : f[k] = NextPass(f[k - 1], transactions)
      /\ Reconcile(candidate, previous) = f[Len(q) + 1].st
  BY <1>2, PassesEquation DEF q
<1> HIDE DEF f, transactions
<1>4. 0 \in N
  <2>1. f[0].st = candidate /\ f[0].waiting = q /\ f[0].progress /\ Offer(f[0])
    BY <1>3 DEF Offer
  <2>2. PassesMade(candidate, q, 0, f[0])
    BY <1>2, <2>1 DEF PassesMade
  <2> QED BY <2>2
<1>5. ASSUME NEW k \in N PROVE k + 1 \in N
  <2> SUFFICES ASSUME k + 1 <= Len(q) + 1 PROVE PassesMade(candidate, q, k + 1, f[k + 1])
    OBVIOUS
  <2>1. k \in Nat /\ k + 1 \in 1..(Len(q) + 1) /\ (k + 1) - 1 = k /\ PassesMade(candidate, q, k, f[k])
    BY <1>2
  <2>2. f[k + 1] = NextPass(f[k], transactions)
    BY <1>3, <2>1
  <2> QED BY <1>2, <2>1, <2>2, OneMorePass
<1>6. N = Nat
  BY <1>4, <1>5, SetInduction
<1>7. PassesMade(candidate, q, Len(q) + 1, f[Len(q) + 1])
  <2>1. Len(q) + 1 \in N
    BY <1>2, <1>6
  <2> QED BY <1>2, <2>1
<1> DEFINE p == f[Len(q) + 1]
           r == Reconcile(candidate, previous)
<1> HIDE DEF p
<1>8. /\ Sound(p.st) /\ p.st.chain = candidate.chain /\ Known(candidate) \subseteq Known(p.st)
      /\ p.waiting \in Seq(Txs)
      /\ p.progress => p.waiting = <<>> \/ Len(p.waiting) + (Len(q) + 1) <= Len(q)
      /\ \A t \in Elements(q) : t \in Elements(p.waiting) \/ Refused(p.st, t)
      /\ ~p.progress => \A t \in Elements(p.waiting) : AcceptError(p.st, t) # "none"
  BY <1>7 DEF PassesMade, p
<1>9. ASSUME NEW t \in Known(previous) \ Known(p.st) PROVE AcceptError(p.st, t) # "none"
  <2>1. t \in Elements(q)
    BY <1>1, <1>8 DEF Detached
  <2>2. CASE Refused(p.st, t)
    BY <2>2, RefusedErrs
  <2>3. CASE t \in Elements(p.waiting)
    <3>1. ~p.progress
      <4> SUFFICES ASSUME p.progress PROVE FALSE
        OBVIOUS
      <4>1. p.waiting # <<>>
        BY <2>3 DEF Elements
      <4>2. Len(p.waiting) + (Len(q) + 1) <= Len(q)
        BY <1>8, <4>1, Zenon
      <4>3. Len(p.waiting) \in Nat /\ Len(q) \in Nat
        BY <1>2, <1>8
      <4>4. \A a, c \in Nat : ~(a + (c + 1) <= c)
        OBVIOUS
      <4> QED BY <4>2, <4>3, <4>4, Zenon
    <3> QED BY <1>8, <2>3, <3>1
  <2> QED BY <1>8, <2>1, <2>2, <2>3
<1>10. r = p.st
  BY <1>3 DEF p
<1> QED BY <1>8, <1>9, <1>10
-----------------------------------------------------------------------------
(* The nodes.                                                               *)

(* The blocks there are: those found, and the one every node starts from.   *)
Blocks == mined \cup {GenesisBlock}

Shapes ==
  /\ DOMAIN state = Nodes /\ DOMAIN disk = Nodes /\ DOMAIN syncing = Nodes
  /\ status \in [Nodes -> {"up", "down", "failed"}]
  /\ crashes \in 0..MaxCrashes /\ failures \in 0..MaxPersistFailures

BlocksSound ==
  /\ mined \subseteq BlockType /\ relayed \subseteq mined
  /\ \A b \in mined : b.hash \in Hashes
  /\ \A b, c \in mined : b.hash = c.hash => b = c

(* Every node's memory is a sound ledger of existing blocks.                *)
StatesSound == \A n \in Nodes : Sound(state[n]) /\ Elements(state[n].chain) \subseteq Blocks

(* So is every candidate, and nothing is pending in it.                     *)
CandidatesSound ==
  \A n \in Nodes :
    syncing[n] # NoCandidate => Idle(syncing[n]) /\ Elements(syncing[n].chain) \subseteq Blocks

(* Every data file holds a sound chain of existing blocks and typed         *)
(* records; without failed writes it holds the chain and the pending        *)
(* transactions of the running node's memory.                               *)
FilesSound ==
  \A n \in Nodes :
    /\ ImageSound(disk[n]) /\ Elements(disk[n].chain) \subseteq Blocks
    /\ failures = 0 /\ status[n] = "up" =>
         disk[n].chain = state[n].chain /\ PendingIn(disk[n]) = Pending(state[n])

Inductive == Shapes /\ BlocksSound /\ StatesSound /\ CandidatesSound /\ FilesSound
-----------------------------------------------------------------------------
(* The block every node starts from, and the state it gives.                *)
LEMMA GenesisFacts ==
  /\ GenesisBlock \in BlockType /\ GenesisBlock.hash = GenesisHash
  /\ Idle(GenesisState) /\ GenesisState.chain = <<GenesisBlock>>
<1> DEFINE b == GenesisBlock
<1>1. ExpectedReward(EmptyState, 1) \in Nat
  <2>1. EmptyState.chain \in Seq(BlockType) /\ 1 \in Nat \ {0}
    BY EmptySound
  <2> QED BY <2>1, IssuedNat
<1>2. (CHOOSE w \in Works : \A v \in Works : w <= v) \in Works
  <2>1. Works \in SUBSET Nat /\ Works # {}
    BY LedgerAssumption
  <2>2. \E w \in Works : \A v \in Works : w <= v
    BY <2>1, LeastElement
  <2> QED BY <2>2
<1>3. CoinbaseValue(1, ExpectedReward(EmptyState, 1), 0) \in Nat
  BY <1>1 DEF CoinbaseValue
<1>4. /\ b.hash = GenesisHash /\ b.prev = ZeroHash /\ b.height = 1 /\ b.txids = <<>>
      /\ b \in BlockType
  <2>1. <<>> \in Seq(Txs) /\ 1 \in Nat
    OBVIOUS
  <2> QED BY <1>1, <1>2, <1>3, <2>1 DEF GenesisBlock, BlockType
<1> HIDE DEF b
<1>5. DOMAIN <<>> = {} /\ Elements(<<>>) = {} /\ Len(<<>>) = 0
  BY DEF Elements
<1>e. /\ b.reward = ExpectedReward(EmptyState, b.height)
      /\ b.coinbase = CoinbaseValue(b.height, b.reward, TransactionFees(b.txids, <<>>))
  <2>1. b.reward = ExpectedReward(EmptyState, 1) /\ b.coinbase = CoinbaseValue(1, ExpectedReward(EmptyState, 1), 0)
    BY DEF b, GenesisBlock
  <2>2. TransactionFees(b.txids, <<>>) = 0
    <3> DEFINE z == [i \in DOMAIN b.txids |-> <<>>[b.txids[i]].fee]
    <3>1. DOMAIN b.txids = 1..0
      BY <1>4
    <3>2. Len(z) = 0
      BY <3>1
    <3>3. TransactionFees(b.txids, <<>>) = SumSeq(z)
      BY DEF TransactionFees
    <3> HIDE DEF z
    <3> QED BY <3>2, <3>3, EmptySum
  <2> QED BY <1>4, <2>1, <2>2
<1>6. Extends(EmptyState, b, <<>>)
  <2>1. TxsApply(EmptyState, b.txids, <<>>)
    BY <1>4, <1>5 DEF TxsApply
  <2>2. EmptyState.chain = <<>> /\ Pending(EmptyState) = {}
    BY EmptySound DEF Pending
  <2> QED BY <1>4, <1>5, <1>e, <2>1, <2>2 DEF Extends
<1>7. /\ Sound(AppendBlock(EmptyState, b, <<>>))
      /\ AppendBlock(EmptyState, b, <<>>).chain = Append(EmptyState.chain, b)
      /\ Pending(AppendBlock(EmptyState, b, <<>>)) = Pending(EmptyState) \ Elements(b.txids)
  BY <1>6, EmptySound, AppendKeepsSound
<1>8. Append(EmptyState.chain, b) = <<b>> /\ Pending(EmptyState) = {}
  BY EmptySound DEF Pending
<1> QED BY <1>4, <1>7, <1>8 DEF GenesisState, Idle, b

(* A block that is accepted for a sound state extends it, if its hash is    *)
(* new there.                                                               *)
LEMMA SubmissionExtends ==
  ASSUME NEW s, Sound(s), NEW b \in BlockType, SubmissionOk(s, b),
         \A i \in DOMAIN s.chain : s.chain[i].hash # b.hash
  PROVE  Extends(s, b, s.transactions)
<1>1. /\ Elements(b.txids) \subseteq Pending(s) /\ EnvelopeOk(s, b, s.transactions)
      /\ TxsApply(s, b.txids, s.transactions)
  BY DEF SubmissionOk
<1>2. /\ b.height = Len(s.chain) + 1
      /\ \A i, j \in DOMAIN b.txids : b.txids[i] = b.txids[j] => i = j
  BY <1>1 DEF EnvelopeOk, Height
<1>3. \A t \in Elements(b.txids) : s.transactions[t] \in RecordType
  BY <1>1 DEF Sound, LedgerType, Pending, Known
<1>4. /\ b.reward = ExpectedReward(s, b.height)
      /\ b.coinbase = CoinbaseValue(b.height, b.reward, TransactionFees(b.txids, s.transactions))
  BY <1>1 DEF EnvelopeOk
<1> QED BY <1>1, <1>2, <1>3, <1>4 DEF Extends

(* The fees of known transactions add up to a natural number.               *)
LEMMA FeesNat ==
  ASSUME NEW s, Sound(s), NEW txids \in Seq(Txs), Elements(txids) \subseteq Known(s)
  PROVE  TransactionFees(txids, s.transactions) \in Nat
<1>1. \A i \in DOMAIN txids : s.transactions[txids[i]].fee \in Nat
  <2>1. \A t \in Known(s) : s.transactions[t].fee \in Nat
    BY DEF Sound, LedgerType, Known, RecordType
  <2> QED BY <2>1 DEF Elements
<1>2. [i \in DOMAIN txids |-> s.transactions[txids[i]].fee] \in Seq(Nat)
  BY <1>1
<1> QED BY <1>2, SumSeqNat DEF TransactionFees

(* A block built on a sound state has the type of blocks.                   *)
LEMMA BlockOnTyped ==
  ASSUME NEW s, Sound(s), NEW txids \in Seq(Txs), Elements(txids) \subseteq Known(s),
         NEW hash \in Hashes, NEW work \in Works
  PROVE  BlockOn(s, txids, hash, work) \in BlockType
<1>1. s.chain \in Seq(BlockType)
  BY DEF Sound, ChainSound
<1>2. Height(s) + 1 \in Nat \ {0}
  BY <1>1 DEF Height
<1>3. ExpectedReward(s, Height(s) + 1) \in Nat
  BY <1>1, <1>2, IssuedNat
<1>4. CoinbaseValue(Height(s) + 1, ExpectedReward(s, Height(s) + 1), TransactionFees(txids, s.transactions)) \in Nat
  BY <1>3, FeesNat DEF CoinbaseValue
<1>5. TipHash(s) \in Hashes \cup {ZeroHash, GenesisHash}
  <2>1. CASE s.chain = <<>>
    BY <2>1 DEF TipHash
  <2>2. CASE s.chain # <<>>
    <3>1. s.chain[Len(s.chain)] \in BlockType
      BY <1>1, <2>2
    <3>2. s.chain[Len(s.chain)].hash \in Hashes \cup {GenesisHash}
      BY <3>1 DEF BlockType
    <3> QED BY <2>2, <3>2 DEF TipHash
  <2> QED BY <2>1, <2>2
<1> QED BY <1>2, <1>3, <1>4, <1>5 DEF BlockOn, BlockType

-----------------------------------------------------------------------------
(* The common prefix of two chains is common to both.                       *)
LEMMA AncestorFacts ==
  ASSUME NEW a, NEW b, a.chain \in Seq(BlockType), b.chain \in Seq(BlockType)
  PROVE  LET h == AncestorHeight(a, b)
         IN  /\ h \in 0..Len(a.chain) /\ h <= Len(b.chain)
             /\ \A i \in 1..h : a.chain[i] = b.chain[i]
<1> DEFINE Shared(k) == k <= Len(b.chain) /\ \A i \in 1..k : a.chain[i] = b.chain[i]
           S == {k \in 0..Len(a.chain) : Shared(k)}
           D == {Len(a.chain) - k : k \in S}
<1>0. Len(a.chain) \in Nat /\ Len(b.chain) \in Nat
  OBVIOUS
<1>1. 0 \in S
  BY <1>0
<1>2. D \in SUBSET Nat /\ D # {}
  BY <1>0, <1>1
<1>3. PICK d \in D : \A e \in D : d <= e
  BY <1>2, LeastElement
<1>4. PICK h \in S : d = Len(a.chain) - h
  BY <1>3
<1>5. \A k \in S : k <= h
  <2> SUFFICES ASSUME NEW k \in S PROVE k <= h
    OBVIOUS
  <2>1. Len(a.chain) - k \in D
    OBVIOUS
  <2>2. d <= Len(a.chain) - k
    BY <1>3, <2>1
  <2> QED BY <1>0, <1>4, <2>2
<1>6. \E g \in 0..Len(a.chain) : Shared(g) /\ \A k \in 0..Len(a.chain) : Shared(k) => k <= g
  BY <1>4, <1>5
<1>7. AncestorHeight(a, b) =
        CHOOSE g \in 0..Len(a.chain) : Shared(g) /\ \A k \in 0..Len(a.chain) : Shared(k) => k <= g
  BY DEF AncestorHeight
<1>8. AncestorHeight(a, b) \in 0..Len(a.chain) /\ Shared(AncestorHeight(a, b))
  <2> HIDE DEF Shared
  <2> QED BY <1>6, <1>7, Zenon
<1> QED BY <1>8

(* A candidate that validates has exactly the peer's chain, in a sound      *)
(* state with nothing pending.                                              *)
LEMMA CandidateSound ==
  ASSUME NEW base, Sound(base), NEW remote, Sound(remote), Candidate(base, remote).ok
  PROVE  Idle(Candidate(base, remote).st) /\ Candidate(base, remote).st.chain = remote.chain
<1> DEFINE h      == AncestorHeight(base, remote)
           w      == remote.chain
           first  == SubSeq(base.chain, 1, h)
           records == ConfirmedRecords(base.transactions)
           prefix == ReplayOn(EmptyState, first, records)
           branch == SubSeq(remote.chain, h + 1, Len(remote.chain))
<1>1. /\ base.chain \in Seq(BlockType) /\ w \in Seq(BlockType)
      /\ DistinctHashes(base.chain) /\ DistinctHashes(w)
  BY DEF Sound, ChainSound, DistinctHashes
<1>2. h \in 0..Len(base.chain) /\ h <= Len(w) /\ \A i \in 1..h : base.chain[i] = w[i]
  BY <1>1, AncestorFacts
<1> HIDE DEF h
<1>3. Len(base.chain) \in Nat /\ Len(w) \in Nat /\ h \in Nat
  BY <1>1, <1>2
<1>4. /\ first \in Seq(BlockType) /\ Len(first) = h /\ \A i \in 1..h : first[i] = w[i]
      /\ DOMAIN first = 1..h
  BY <1>1, <1>2, <1>3
<1>5. /\ Len(branch) = Len(w) - h /\ \A i \in 1..Len(branch) : branch[i] = w[h + i]
  BY <1>1, <1>2, <1>3
<1>6. DistinctHashes(first)
  BY <1>1, <1>2, <1>3, <1>4 DEF DistinctHashes
<1>7. \A t \in DOMAIN records : records[t] \in RecordType
  BY DEF Sound, LedgerType, ConfirmedRecords
<1>8. \A t \in DOMAIN remote.transactions : remote.transactions[t] \in RecordType
  BY DEF Sound, LedgerType
<1>9. Candidate(base, remote) = IF prefix.ok THEN ReplayOn(prefix.st, branch, remote.transactions) ELSE prefix
  BY DEF Candidate, h
<1>10. prefix.ok
  BY <1>9
<1>11. Candidate(base, remote) = ReplayOn(prefix.st, branch, remote.transactions)
  BY <1>9, <1>10
<1>12. Idle(EmptyState) /\ Prefix(EmptyState.chain, first, 0)
  BY EmptySound DEF Idle, Pending, Prefix
<1> HIDE DEF first, records, branch, w
<1>13. Idle(prefix.st) /\ prefix.st.chain = first
  <2>1. 0 \in Nat /\ 0 <= Len(first) /\ Len(first) = Len(first) - 0 /\ \A i \in 1..Len(first) : first[i] = first[0 + i]
    BY <1>3, <1>4
  <2>2. ReplayOn(EmptyState, first, records).ok
    BY <1>10
  <2> HIDE DEF prefix
  <2>3. Rebuilt(ReplayOn(EmptyState, first, records).st, first)
    BY <1>4, <1>6, <1>7, <1>12, <2>1, <2>2, ReplaySound
  <2> QED BY <2>3 DEF prefix, Rebuilt
<1> DEFINE s == prefix.st
<1>14. Prefix(s.chain, w, h)
  BY <1>4, <1>13 DEF Prefix
<1>15. Idle(s) /\ ReplayOn(s, branch, remote.transactions).ok
  BY <1>11, <1>13
<1> HIDE DEF s
<1> DEFINE peer == remote.transactions
<1>16. /\ w \in Seq(BlockType) /\ DistinctHashes(w) /\ h \in Nat /\ h <= Len(w)
       /\ Len(branch) = Len(w) - h /\ \A i \in 1..Len(branch) : branch[i] = w[h + i]
       /\ \A t \in DOMAIN peer : peer[t] \in RecordType
       /\ Idle(s) /\ Prefix(s.chain, w, h) /\ ReplayOn(s, branch, peer).ok
  BY <1>1, <1>2, <1>3, <1>5, <1>8, <1>14, <1>15 DEF w, branch
<1> HIDE DEF peer
<1>17. Rebuilt(ReplayOn(s, branch, peer).st, w)
  BY <1>16, ReplaySound
<1> QED BY <1>11, <1>17 DEF s, w, peer, Rebuilt
-----------------------------------------------------------------------------
(* What a node writes to its file is what it has in memory.                 *)
LEMMA ImageFacts ==
  ASSUME NEW s, Sound(s)
  PROVE  ImageSound(Image(s)) /\ Image(s).chain = s.chain /\ PendingIn(Image(s)) = Pending(s)
<1>1. Image(s).chain = s.chain /\ Image(s).transactions = s.transactions
  BY DEF Image
<1>2. /\ ChainSound(s.chain) /\ IsFiniteSet(DOMAIN s.transactions)
      /\ \A t \in DOMAIN s.transactions : t \in Txs /\ s.transactions[t] \in RecordType
  BY DEF Sound, LedgerType, Known
<1> HIDE DEF Image
<1> QED BY <1>1, <1>2 DEF ImageSound, PendingIn, Pending, Known

(* A turn of the lock that leaves a sound state of existing blocks in       *)
(* memory keeps what is said of the states and the files, whether or not    *)
(* the write lands.                                                         *)
LEMMA CommitKeeps ==
  ASSUME Inductive, NEW n \in Nodes, status[n] = "up", NEW s, Sound(s),
         Commit(n, s) \/ CommitUnpersisted(n, s), status' = status,
         mined \subseteq mined', Elements(s.chain) \subseteq mined' \cup {GenesisBlock}
  PROVE  /\ StatesSound' /\ FilesSound'
         /\ DOMAIN state' = Nodes /\ DOMAIN disk' = Nodes /\ failures' \in 0..MaxPersistFailures
<1>0. /\ DOMAIN state = Nodes /\ DOMAIN disk = Nodes /\ failures \in 0..MaxPersistFailures
      /\ MaxPersistFailures \in Nat
  BY FaeNodeAssumption DEF Inductive, Shapes
<1>1. /\ DOMAIN state' = Nodes /\ state'[n] = s
      /\ \A m \in Nodes \ {n} : state'[m] = state[m]
  BY <1>0 DEF Commit, CommitUnpersisted
<1>2. DOMAIN disk' = Nodes /\ \A m \in Nodes \ {n} : disk'[m] = disk[m]
  BY <1>0 DEF Commit, CommitUnpersisted
<1>3. \/ disk'[n] = Image(s) /\ failures' = failures
      \/ disk'[n] = disk[n] /\ failures' = failures + 1 /\ failures < MaxPersistFailures
  BY <1>0 DEF Commit, CommitUnpersisted
<1>4. failures' \in 0..MaxPersistFailures /\ (failures' = 0 => failures = 0 /\ disk'[n] = Image(s))
  BY <1>0, <1>3
<1>5. Blocks \subseteq Blocks' /\ Elements(s.chain) \subseteq Blocks'
  BY DEF Blocks
<1>6. StatesSound'
  <2>1. \A m \in Nodes : Sound(state'[m]) /\ Elements(state'[m].chain) \subseteq Blocks'
    BY <1>1, <1>5 DEF Inductive, StatesSound
  <2> QED BY <2>1 DEF StatesSound
<1>7. FilesSound'
  <2>1. ASSUME NEW m \in Nodes
        PROVE  /\ ImageSound(disk'[m]) /\ Elements(disk'[m].chain) \subseteq Blocks'
               /\ failures' = 0 /\ status'[m] = "up" =>
                    disk'[m].chain = state'[m].chain /\ PendingIn(disk'[m]) = Pending(state'[m])
    <3>1. CASE m # n
      <4>1. disk'[m] = disk[m] /\ state'[m] = state[m] /\ status'[m] = status[m]
        BY <1>1, <1>2, <3>1
      <4>2. /\ ImageSound(disk[m]) /\ Elements(disk[m].chain) \subseteq Blocks
            /\ failures = 0 /\ status[m] = "up" =>
                 disk[m].chain = state[m].chain /\ PendingIn(disk[m]) = Pending(state[m])
        BY DEF Inductive, FilesSound
      <4> QED BY <1>4, <1>5, <4>1, <4>2
    <3>2. CASE m = n /\ disk'[n] = Image(s)
      BY <1>1, <1>5, <3>2, ImageFacts
    <3>3. CASE m = n /\ disk'[n] # Image(s)
      <4>1. failures' # 0 /\ disk'[m] = disk[m]
        BY <1>3, <1>4, <3>3
      <4>2. ImageSound(disk[m]) /\ Elements(disk[m].chain) \subseteq Blocks
        BY DEF Inductive, FilesSound
      <4> QED BY <1>5, <4>1, <4>2
    <3> QED BY <3>1, <3>2, <3>3
  <2> QED BY <2>1 DEF FilesSound
<1> QED BY <1>1, <1>2, <1>4, <1>6, <1>7

(* The candidates stay sound while blocks are added.                        *)
LEMMA CandidatesKept ==
  ASSUME CandidatesSound, syncing' = syncing, mined \subseteq mined'
  PROVE  CandidatesSound'
<1>1. Blocks \subseteq Blocks'
  BY DEF Blocks
<1>2. \A n \in Nodes :
        syncing'[n] # NoCandidate => Idle(syncing'[n]) /\ Elements(syncing'[n].chain) \subseteq Blocks'
  BY <1>1 DEF CandidatesSound
<1> QED BY <1>2 DEF CandidatesSound

(* The initial states.                                                      *)
LEMMA InitInductive == Init => Inductive
<1> SUFFICES ASSUME Init PROVE Inductive
  OBVIOUS
<1>1. Shapes
  BY FaeNodeAssumption DEF Init, Shapes
<1>2. BlocksSound
  BY DEF Init, BlocksSound
<1>3. Sound(GenesisState) /\ Elements(GenesisState.chain) \subseteq Blocks
  BY GenesisFacts DEF Idle, Elements, Blocks
<1>4. StatesSound
  BY <1>3 DEF Init, StatesSound
<1>5. CandidatesSound
  BY DEF Init, CandidatesSound
<1>6. FilesSound
  BY <1>3, ImageFacts DEF Init, FilesSound
<1> QED BY <1>1, <1>2, <1>4, <1>5, <1>6 DEF Inductive
-----------------------------------------------------------------------------
(* A turn of the lock after which the blocks and the ledger in memory are   *)
(* sound keeps the invariant.                                               *)
LEMMA TurnKeeps ==
  ASSUME Inductive, NEW n \in Nodes, status[n] = "up", NEW s, Sound(s),
         Commit(n, s) \/ CommitUnpersisted(n, s), UNCHANGED <<status, syncing, crashes>>,
         mined \subseteq mined', BlocksSound', Elements(s.chain) \subseteq mined' \cup {GenesisBlock}
  PROVE  Inductive'
<1>1. /\ StatesSound' /\ FilesSound'
      /\ DOMAIN state' = Nodes /\ DOMAIN disk' = Nodes /\ failures' \in 0..MaxPersistFailures
  BY CommitKeeps
<1>2. CandidatesSound'
  BY CandidatesKept DEF Inductive
<1>3. Shapes'
  BY <1>1 DEF Inductive, Shapes
<1> QED BY <1>1, <1>2, <1>3 DEF Inductive

(* A payment is taken.                                                      *)
LEMMA SubmitTxKeeps ==
  ASSUME Inductive, NEW n \in Nodes, NEW t \in Txs, SubmitTx(n, t)
  PROVE  Inductive'
<1> DEFINE s == AcceptTxInto(state[n], t, NextSeq(state[n]))
<1>1. /\ status[n] = "up" /\ AcceptError(state[n], t) = "none"
      /\ Commit(n, s) \/ CommitUnpersisted(n, s)
      /\ UNCHANGED <<status, syncing, mined, relayed, crashes>>
  BY DEF SubmitTx
<1>2. Sound(state[n]) /\ Elements(state[n].chain) \subseteq Blocks
  BY DEF Inductive, StatesSound
<1>3. NextSeq(state[n]) \in Nat
  BY <1>2 DEF Sound, LedgerType, NextSeq
<1>4. Sound(s) /\ s.chain = state[n].chain
  BY <1>1, <1>2, <1>3, AcceptKeepsSound
<1>5. BlocksSound' /\ mined \subseteq mined'
  BY <1>1 DEF Inductive, BlocksSound
<1>6. Elements(s.chain) \subseteq mined' \cup {GenesisBlock}
  BY <1>1, <1>2, <1>4 DEF Blocks
<1> HIDE DEF s
<1> QED BY <1>1, <1>4, <1>5, <1>6, TurnKeeps

(* The hash of a block that is accepted is new in the chain.                *)
LEMMA HashIsNew ==
  ASSUME NEW found, \A c \in found : c.hash \in Hashes, \A c, d \in found : c.hash = d.hash => c = d,
         NEW s, Sound(s), Elements(s.chain) \subseteq found \cup {GenesisBlock},
         NEW b \in found, b.height = Len(s.chain) + 1
  PROVE  \A i \in DOMAIN s.chain : s.chain[i].hash # b.hash
<1> SUFFICES ASSUME NEW i \in DOMAIN s.chain, s.chain[i].hash = b.hash PROVE FALSE
  OBVIOUS
<1>1. s.chain[i] \in found \cup {GenesisBlock}
  BY DEF Elements
<1>2. s.chain[i] # GenesisBlock
  BY GenesisFacts, LedgerAssumption
<1>3. s.chain[i] = b
  BY <1>1, <1>2
<1>4. s.chain[i].height = i /\ s.chain \in Seq(BlockType)
  BY DEF Sound, ChainSound
<1> QED BY <1>3, <1>4

(* A block more, and no transaction less.                                   *)
Grown(r, s, b) == r.chain = Append(s.chain, b) /\ Known(r) = Known(s)

(* An accepted block of the existing ones leaves the ledger sound.          *)
LEMMA AcceptedBlock ==
  ASSUME NEW found, \A c \in found : c.hash \in Hashes, \A c, d \in found : c.hash = d.hash => c = d,
         NEW s, Sound(s), Elements(s.chain) \subseteq found \cup {GenesisBlock},
         NEW b \in found, b \in BlockType, SubmissionOk(s, b)
  PROVE  LET r == AppendBlock(s, b, s.transactions)
         IN  /\ Sound(r) /\ Grown(r, s, b)
             /\ Elements(r.chain) \subseteq found \cup {GenesisBlock}
<1> DEFINE r == AppendBlock(s, b, s.transactions)
<1>1. b.height = Len(s.chain) + 1 /\ Elements(b.txids) \subseteq Pending(s)
  BY DEF SubmissionOk, EnvelopeOk, Height
<1>2. \A i \in DOMAIN s.chain : s.chain[i].hash # b.hash
  BY <1>1, HashIsNew
<1>3. Extends(s, b, s.transactions)
  BY <1>2, SubmissionExtends
<1>4. Sound(r) /\ r.chain = Append(s.chain, b) /\ Known(r) = Known(s) \cup Elements(b.txids)
  BY <1>3, AppendKeepsSound
<1> HIDE DEF r
<1>5. s.chain \in Seq(BlockType)
  BY DEF Sound, ChainSound
<1>6. Elements(Append(s.chain, b)) = Elements(s.chain) \cup {b}
  BY <1>5, AppendPrecedes
<1>7. Known(r) = Known(s)
  BY <1>1, <1>4 DEF Pending
<1> QED BY <1>4, <1>6, <1>7 DEF r, Grown

(* What a template's payments may be: a part of the pool, from its head.    *)
LEMMA TemplatePart ==
  ASSUME NEW s, Sound(s), NEW k \in 0..Len(SelectedPending(s))
  PROVE  LET txids == SubSeq(s.mempoolOrder, 1, k)
         IN  txids \in Seq(Txs) /\ Elements(txids) \subseteq Pending(s)
<1> DEFINE q == s.mempoolOrder
           m == IF Len(q) < MaxTxsPerBlock THEN Len(q) ELSE MaxTxsPerBlock
<1>1. q \in Seq(Txs) /\ Elements(q) = Pending(s)
  BY DEF Sound, LedgerType, PoolSound
<1> HIDE DEF q
<1>2. Len(q) \in Nat /\ m \in 0..Len(q)
  BY <1>1, LedgerAssumption
<1>3. SelectedPending(s) = SubSeq(q, 1, m)
  BY DEF SelectedPending, q
<1> HIDE DEF m
<1>4. Len(SubSeq(q, 1, m)) = m
  BY <1>1, <1>2
<1>5. k \in 0..Len(q)
  BY <1>2, <1>3, <1>4
<1>6. /\ SubSeq(q, 1, k) \in Seq(Txs) /\ DOMAIN SubSeq(q, 1, k) = 1..k
      /\ \A i \in 1..k : SubSeq(q, 1, k)[i] = q[i] /\ i \in DOMAIN q
  BY <1>1, <1>2, <1>5
<1>7. Elements(SubSeq(q, 1, k)) \subseteq Elements(q)
  BY <1>6 DEF Elements
<1> QED BY <1>1, <1>6, <1>7 DEF q

(* A miner returns a block.                                                 *)
LEMMA SubmitBlockKeeps ==
  ASSUME Inductive, NEW n \in Nodes, NEW k \in 0..Len(SelectedPending(state[n])),
         NEW hash \in FreshHashes, NEW work \in Works,
         SubmitBlock(n, SubSeq(state[n].mempoolOrder, 1, k), hash, work)
  PROVE  Inductive'
<1> DEFINE txids == SubSeq(state[n].mempoolOrder, 1, k)
           b == BlockOn(state[n], txids, hash, work)
           s == AppendBlock(state[n], b, state[n].transactions)
<1>1. /\ status[n] = "up" /\ SubmissionOk(state[n], b)
      /\ Commit(n, s) \/ CommitUnpersisted(n, s)
      /\ UNCHANGED <<status, syncing, crashes>>
      /\ mined' = mined \cup {b} /\ relayed' \subseteq relayed \cup {b}
  BY DEF SubmitBlock
<1>2. Sound(state[n]) /\ Elements(state[n].chain) \subseteq mined \cup {GenesisBlock}
  BY DEF Inductive, StatesSound, Blocks
<1>3. txids \in Seq(Txs) /\ Elements(txids) \subseteq Known(state[n])
  BY <1>2, TemplatePart DEF Pending
<1>4. hash \in Hashes /\ \A c \in mined : c.hash # hash
  BY DEF FreshHashes
<1> HIDE DEF txids
<1>5. b \in BlockType
  BY <1>2, <1>3, <1>4, BlockOnTyped
<1>6. b.hash = hash
  BY DEF BlockOn
<1> HIDE DEF b
<1>7. BlocksSound'
  <2>1. /\ mined \subseteq BlockType /\ relayed \subseteq mined
        /\ \A c \in mined : c.hash \in Hashes
        /\ \A c, d \in mined : c.hash = d.hash => c = d
    BY DEF Inductive, BlocksSound
  <2>2. mined' \subseteq BlockType /\ relayed' \subseteq mined'
    BY <1>1, <1>5, <2>1
  <2>3. \A c \in mined' : c.hash \in Hashes
    BY <1>1, <1>4, <1>6, <2>1
  <2>4. \A c, d \in mined' : c.hash = d.hash => c = d
    BY <1>1, <1>4, <1>6, <2>1
  <2> QED BY <2>2, <2>3, <2>4 DEF BlocksSound
<1>8. Sound(s) /\ Elements(s.chain) \subseteq mined' \cup {GenesisBlock}
  <2> DEFINE found == mined'
  <2>1. /\ \A c \in found : c.hash \in Hashes
        /\ \A c, d \in found : c.hash = d.hash => c = d
        /\ b \in found /\ Elements(state[n].chain) \subseteq found \cup {GenesisBlock}
    BY <1>1, <1>2, <1>7 DEF BlocksSound
  <2> HIDE DEF found
  <2>2. /\ Sound(AppendBlock(state[n], b, state[n].transactions))
        /\ Elements(AppendBlock(state[n], b, state[n].transactions).chain) \subseteq found \cup {GenesisBlock}
    BY <1>1, <1>2, <1>5, <2>1, AcceptedBlock
  <2> QED BY <2>2 DEF found
<1> HIDE DEF s
<1>9. mined \subseteq mined'
  BY <1>1
<1> QED BY <1>1, <1>7, <1>8, <1>9, TurnKeeps

(* An announced block arrives.                                              *)
LEMMA ReceiveBlockKeeps ==
  ASSUME Inductive, NEW n \in Nodes, NEW b \in relayed, ReceiveBlock(n, b)
  PROVE  Inductive'
<1> DEFINE s == AppendBlock(state[n], b, state[n].transactions)
<1>1. /\ status[n] = "up" /\ SubmissionOk(state[n], b)
      /\ Commit(n, s) \/ CommitUnpersisted(n, s)
      /\ UNCHANGED <<status, syncing, mined, relayed, crashes>>
  BY DEF ReceiveBlock
<1>2. Sound(state[n]) /\ Elements(state[n].chain) \subseteq mined \cup {GenesisBlock}
  BY DEF Inductive, StatesSound, Blocks
<1>3. BlocksSound
  BY DEF Inductive
<1>4. b \in mined /\ b \in BlockType
  BY <1>3 DEF BlocksSound
<1>5. Sound(s) /\ Elements(s.chain) \subseteq mined \cup {GenesisBlock}
  BY <1>1, <1>2, <1>3, <1>4, AcceptedBlock DEF BlocksSound
<1>6. BlocksSound' /\ mined \subseteq mined'
  BY <1>1, <1>3 DEF BlocksSound
<1> HIDE DEF s
<1>7. Elements(s.chain) \subseteq mined' \cup {GenesisBlock}
  BY <1>1, <1>5
<1> QED BY <1>1, <1>5, <1>6, <1>7, TurnKeeps
-----------------------------------------------------------------------------
(* A branch is downloaded and validated.                                    *)
LEMMA SyncFetchKeeps ==
  ASSUME Inductive, NEW n \in Nodes, NEW m \in Nodes \ {n}, SyncFetch(n, m)
  PROVE  Inductive'
<1> DEFINE candidate == Candidate(state[n], state[m])
<1>1. /\ candidate.ok /\ syncing' = [syncing EXCEPT ![n] = candidate.st]
      /\ UNCHANGED <<state, disk, status, mined, relayed, crashes, failures>>
  BY DEF SyncFetch
<1>2. Sound(state[n]) /\ Sound(state[m]) /\ Elements(state[m].chain) \subseteq Blocks
  BY DEF Inductive, StatesSound
<1>3. Idle(candidate.st) /\ candidate.st.chain = state[m].chain
  BY <1>1, <1>2, CandidateSound
<1> HIDE DEF candidate
<1>4. DOMAIN syncing = Nodes
  BY DEF Inductive, Shapes
<1>5. ASSUME NEW l \in Nodes, syncing'[l] # NoCandidate
      PROVE  Idle(syncing'[l]) /\ Elements(syncing'[l].chain) \subseteq Blocks
  <2>1. CASE l = n
    BY <1>1, <1>2, <1>3, <1>4, <2>1
  <2>2. CASE l # n
    BY <1>1, <1>4, <1>5, <2>2 DEF Inductive, CandidatesSound
  <2> QED BY <2>1, <2>2
<1>6. CandidatesSound'
  BY <1>1, <1>5 DEF CandidatesSound, Blocks
<1>7. Shapes' /\ BlocksSound'
  BY <1>1 DEF Inductive, Shapes, BlocksSound
<1>8. StatesSound' /\ FilesSound'
  BY <1>1 DEF Inductive, StatesSound, FilesSound, Blocks
<1> QED BY <1>6, <1>7, <1>8 DEF Inductive

(* What the adoption of a candidate leaves in memory.                       *)
LEMMA AdoptedSound ==
  ASSUME Inductive, NEW n \in Nodes, syncing[n] # NoCandidate
  PROVE  LET s == Reconcile(syncing[n], state[n])
         IN  /\ Sound(s) /\ s.chain = syncing[n].chain /\ Elements(s.chain) \subseteq Blocks
             /\ \A t \in Known(state[n]) \ Known(s) : AcceptError(s, t) # "none"
<1>1. Sound(syncing[n]) /\ Elements(syncing[n].chain) \subseteq Blocks /\ Sound(state[n])
  BY DEF Inductive, CandidatesSound, StatesSound, Idle
<1>2. /\ Sound(Reconcile(syncing[n], state[n])) /\ Reconcile(syncing[n], state[n]).chain = syncing[n].chain
      /\ \A t \in Known(state[n]) \ Known(Reconcile(syncing[n], state[n])) :
           AcceptError(Reconcile(syncing[n], state[n]), t) # "none"
  BY <1>1, ReconcileSound
<1> QED BY <1>1, <1>2

(* It is adopted, or given up.                                              *)
LEMMA SyncAdoptKeeps ==
  ASSUME Inductive, NEW n \in Nodes, SyncAdopt(n)
  PROVE  Inductive'
<1> DEFINE s == Reconcile(syncing[n], state[n])
<1>1. /\ status[n] = "up" /\ syncing[n] # NoCandidate
      /\ syncing' = [syncing EXCEPT ![n] = NoCandidate]
      /\ \/ Commit(n, s) \/ CommitUnpersisted(n, s)
         \/ UNCHANGED <<state, disk, failures>>
      /\ UNCHANGED <<status, mined, relayed, crashes>>
  BY DEF SyncAdopt
<1>2. Sound(s) /\ Elements(s.chain) \subseteq Blocks
  BY <1>1, AdoptedSound
<1> HIDE DEF s
<1>3. DOMAIN syncing' = Nodes /\ \A l \in Nodes : syncing'[l] = NoCandidate \/ syncing'[l] = syncing[l]
  BY <1>1 DEF Inductive, Shapes
<1>4. CandidatesSound'
  BY <1>1, <1>3 DEF Inductive, CandidatesSound, Blocks
<1>5. BlocksSound'
  BY <1>1 DEF Inductive, BlocksSound
<1>6. /\ StatesSound' /\ FilesSound'
      /\ DOMAIN state' = Nodes /\ DOMAIN disk' = Nodes /\ failures' \in 0..MaxPersistFailures
  <2>1. CASE Commit(n, s) \/ CommitUnpersisted(n, s)
    <3>1. mined \subseteq mined' /\ Elements(s.chain) \subseteq mined' \cup {GenesisBlock} /\ status' = status
      BY <1>1, <1>2 DEF Blocks
    <3> QED BY <1>1, <1>2, <2>1, <3>1, CommitKeeps
  <2>2. CASE UNCHANGED <<state, disk, failures>>
    <3>1. StatesSound' /\ FilesSound'
      BY <1>1, <2>2 DEF Inductive, StatesSound, FilesSound, Blocks
    <3> QED BY <2>2, <3>1 DEF Inductive, Shapes
  <2> QED BY <1>1, <2>1, <2>2
<1>7. Shapes'
  BY <1>1, <1>3, <1>6 DEF Inductive, Shapes
<1> QED BY <1>4, <1>5, <1>6, <1>7 DEF Inductive

(* The process dies.                                                        *)
LEMMA CrashKeeps ==
  ASSUME Inductive, NEW n \in Nodes, Crash(n)
  PROVE  Inductive'
<1>1. /\ crashes < MaxCrashes /\ crashes' = crashes + 1
      /\ status' = [status EXCEPT ![n] = "down"] /\ state' = [state EXCEPT ![n] = EmptyState]
      /\ syncing' = [syncing EXCEPT ![n] = NoCandidate]
      /\ UNCHANGED <<disk, mined, relayed, failures>>
  BY DEF Crash
<1>2. /\ DOMAIN state = Nodes /\ DOMAIN syncing = Nodes /\ status \in [Nodes -> {"up", "down", "failed"}]
      /\ crashes \in 0..MaxCrashes /\ MaxCrashes \in Nat
  BY FaeNodeAssumption DEF Inductive, Shapes
<1>3. /\ status'[n] = "down" /\ state'[n] = EmptyState /\ syncing'[n] = NoCandidate
      /\ \A m \in Nodes \ {n} : status'[m] = status[m] /\ state'[m] = state[m] /\ syncing'[m] = syncing[m]
  BY <1>1, <1>2
<1>4. Shapes' /\ BlocksSound'
  <2>1. crashes' \in 0..MaxCrashes
    BY <1>1, <1>2
  <2> QED BY <1>1, <1>2, <2>1 DEF Inductive, Shapes, BlocksSound
<1>5. StatesSound'
  <2>1. Sound(EmptyState) /\ Elements(EmptyState.chain) = {}
    BY EmptySound DEF Elements
  <2>2. \A m \in Nodes : Sound(state'[m]) /\ Elements(state'[m].chain) \subseteq Blocks
    BY <1>3, <2>1 DEF Inductive, StatesSound
  <2> QED BY <1>1, <2>2 DEF StatesSound, Blocks
<1>6. CandidatesSound'
  BY <1>1, <1>3 DEF Inductive, CandidatesSound, Blocks
<1>7. FilesSound'
  <2>1. ASSUME NEW m \in Nodes, failures' = 0, status'[m] = "up"
        PROVE  disk'[m].chain = state'[m].chain /\ PendingIn(disk'[m]) = Pending(state'[m])
    <3>1. status[m] = "up" /\ state'[m] = state[m] /\ disk'[m] = disk[m] /\ failures = 0
      BY <1>1, <1>3, <2>1
    <3> QED BY <3>1 DEF Inductive, FilesSound
  <2>2. \A m \in Nodes : ImageSound(disk'[m]) /\ Elements(disk'[m].chain) \subseteq Blocks'
    BY <1>1 DEF Inductive, FilesSound, Blocks
  <2> QED BY <2>1, <2>2 DEF FilesSound
<1> QED BY <1>4, <1>5, <1>6, <1>7 DEF Inductive

(* It starts again from its file, or stops for good.                        *)
LEMMA RestartKeeps ==
  ASSUME Inductive, NEW n \in Nodes, Restart(n)
  PROVE  Inductive'
<1> DEFINE loaded == VerifyPersistedState(disk[n])
<1>1. /\ status' = [status EXCEPT ![n] = IF loaded.ok THEN "up" ELSE "failed"]
      /\ state' = [state EXCEPT ![n] = IF loaded.ok THEN loaded.st ELSE EmptyState]
      /\ UNCHANGED <<disk, syncing, mined, relayed, crashes, failures>>
  BY DEF Restart
<1>2. ImageSound(disk[n]) /\ Elements(disk[n].chain) \subseteq Blocks
  BY DEF Inductive, FilesSound
<1>3. loaded.ok => /\ Sound(loaded.st) /\ loaded.st.chain = disk[n].chain
                   /\ Pending(loaded.st) = PendingIn(disk[n])
  BY <1>2, ReloadSound
<1> HIDE DEF loaded
<1>4. DOMAIN state = Nodes /\ status \in [Nodes -> {"up", "down", "failed"}]
  BY DEF Inductive, Shapes
<1>5. /\ \A m \in Nodes \ {n} : status'[m] = status[m] /\ state'[m] = state[m]
      /\ \/ loaded.ok /\ status'[n] = "up" /\ state'[n] = loaded.st
         \/ status'[n] = "failed" /\ state'[n] = EmptyState
  BY <1>1, <1>4
<1>6. Sound(state'[n]) /\ Elements(state'[n].chain) \subseteq Blocks
  <2>1. Sound(EmptyState) /\ Elements(EmptyState.chain) = {}
    BY EmptySound DEF Elements
  <2> QED BY <1>2, <1>3, <1>5, <2>1
<1>7. StatesSound'
  <2>1. \A m \in Nodes : Sound(state'[m]) /\ Elements(state'[m].chain) \subseteq Blocks
    BY <1>5, <1>6 DEF Inductive, StatesSound
  <2> QED BY <1>1, <2>1 DEF StatesSound, Blocks
<1>8. Shapes' /\ BlocksSound' /\ CandidatesSound'
  <2>1. status' \in [Nodes -> {"up", "down", "failed"}] /\ DOMAIN state' = Nodes
    BY <1>1, <1>4
  <2> QED BY <1>1, <2>1 DEF Inductive, Shapes, BlocksSound, CandidatesSound, Blocks
<1>9. FilesSound'
  <2>1. ASSUME NEW m \in Nodes, failures' = 0, status'[m] = "up"
        PROVE  disk'[m].chain = state'[m].chain /\ PendingIn(disk'[m]) = Pending(state'[m])
    <3>1. CASE m = n
      BY <1>1, <1>3, <1>5, <2>1, <3>1
    <3>2. CASE m # n
      <4>1. status[m] = "up" /\ state'[m] = state[m] /\ disk'[m] = disk[m] /\ failures = 0
        BY <1>1, <1>5, <2>1, <3>2
      <4> QED BY <4>1 DEF Inductive, FilesSound
    <3> QED BY <3>1, <3>2
  <2>2. \A m \in Nodes : ImageSound(disk'[m]) /\ Elements(disk'[m].chain) \subseteq Blocks'
    BY <1>1 DEF Inductive, FilesSound, Blocks
  <2> QED BY <2>1, <2>2 DEF FilesSound
<1> QED BY <1>7, <1>8, <1>9 DEF Inductive

(* Every step keeps the invariant.                                          *)
LEMMA NextInductive == Inductive /\ [Next]_vars => Inductive'
<1> SUFFICES ASSUME Inductive, [Next]_vars PROVE Inductive'
  OBVIOUS
<1>1. CASE UNCHANGED vars
  BY <1>1 DEF vars, Inductive, Shapes, BlocksSound, StatesSound, CandidatesSound, FilesSound, Blocks
<1>2. CASE Next
  <2>1. PICK n \in Nodes :
          \/ \E t \in Txs : SubmitTx(n, t)
          \/ \E k \in 0..Len(SelectedPending(state[n])), hash \in FreshHashes, work \in Works :
               SubmitBlock(n, SubSeq(state[n].mempoolOrder, 1, k), hash, work)
          \/ \E b \in relayed : ReceiveBlock(n, b)
          \/ \E m \in Nodes \ {n} : SyncFetch(n, m)
          \/ SyncAdopt(n) \/ Crash(n) \/ Restart(n)
    BY <1>2, Zenon DEF Next
  <2>2. ASSUME NEW t \in Txs, SubmitTx(n, t) PROVE Inductive'
    BY <2>2, SubmitTxKeeps
  <2>3. ASSUME NEW k \in 0..Len(SelectedPending(state[n])), NEW hash \in FreshHashes, NEW work \in Works,
               SubmitBlock(n, SubSeq(state[n].mempoolOrder, 1, k), hash, work)
        PROVE  Inductive'
    BY <2>3, SubmitBlockKeeps
  <2>4. ASSUME NEW b \in relayed, ReceiveBlock(n, b) PROVE Inductive'
    BY <2>4, ReceiveBlockKeeps
  <2>5. ASSUME NEW m \in Nodes \ {n}, SyncFetch(n, m) PROVE Inductive'
    BY <2>5, SyncFetchKeeps
  <2>6. CASE SyncAdopt(n)
    BY <2>6, SyncAdoptKeeps
  <2>7. CASE Crash(n)
    BY <2>7, CrashKeeps
  <2>8. CASE Restart(n)
    BY <2>8, RestartKeeps
  <2> QED BY <2>1, <2>2, <2>3, <2>4, <2>5, <2>6, <2>7, <2>8, Zenon
<1> QED BY <1>1, <1>2

(* So every reachable state has it, whatever the nodes, payments, blocks,   *)
(* synchronisations, crashes and failed writes (FaeV4PeerNode).             *)
THEOREM NodesSound == Spec => []Inductive
BY InitInductive, NextInductive, PTL DEF Spec
-----------------------------------------------------------------------------
(* Types, and no negative fee, in every reachable state: what AcceptError   *)
(* and the replay of feeds let in are records whose inputs cover their      *)
(* outputs (acceptTxInto, applyConfirmedTx).                                *)
THEOREM TypeCorrect == Spec => []TypeOK
<1>1. Inductive => TypeOK
  <2> SUFFICES ASSUME Inductive PROVE TypeOK
    OBVIOUS
  <2>1. ASSUME NEW n \in Nodes
        PROVE  /\ LedgerType(state[n]) /\ disk[n].chain \in Seq(BlockType)
               /\ \A t \in DOMAIN disk[n].transactions :
                    t \in Txs /\ disk[n].transactions[t] \in RecordType
               /\ syncing[n] = NoCandidate \/ LedgerType(syncing[n])
    <3>1. Sound(state[n]) /\ ImageSound(disk[n])
      BY DEF Inductive, StatesSound, FilesSound
    <3>2. syncing[n] = NoCandidate \/ Sound(syncing[n])
      BY DEF Inductive, CandidatesSound, Idle
    <3> QED BY <3>1, <3>2 DEF Sound, ImageSound, ChainSound
  <2>2. /\ status \in [Nodes -> {"up", "down", "failed"}]
        /\ crashes \in 0..MaxCrashes /\ failures \in 0..MaxPersistFailures
        /\ mined \subseteq BlockType /\ relayed \subseteq mined
    BY DEF Inductive, Shapes, BlocksSound
  <2> QED BY <2>1, <2>2 DEF TypeOK
<1> QED BY <1>1, NodesSound, PTL

(* A sequence without repetitions is as long as the set it lists.           *)
LEMMA ListLength ==
  ASSUME NEW T, NEW q \in Seq(T), \A i, j \in DOMAIN q : q[i] = q[j] => i = j
  PROVE  Len(q) = Cardinality(Elements(q))
<1>1. q \in Bijection(1..Len(q), Elements(q))
  <2>1. q \in [1..Len(q) -> Elements(q)] /\ DOMAIN q = 1..Len(q)
    BY DEF Elements
  <2>2. \A x \in Elements(q) : \E i \in 1..Len(q) : q[i] = x
    BY DEF Elements
  <2>3. IsInjective(q)
    BY DEF IsInjective
  <2> QED BY <2>1, <2>2, <2>3 DEF Bijection, Injection, Surjection
<1>2. Len(q) \in Nat /\ IsFiniteSet(1..Len(q)) /\ Cardinality(1..Len(q)) = Len(q)
  <2>1. Len(q) \in Nat
    OBVIOUS
  <2> QED BY <2>1, FS_Interval
<1>3. Cardinality(Elements(q)) = Cardinality(1..Len(q))
  <2>1. ExistsBijection(1..Len(q), Elements(q))
    BY <1>1 DEF ExistsBijection
  <2> QED BY <1>2, <2>1, FS_Bijection
<1> QED BY <1>2, <1>3

(* The pool of a sound state is coherent.                                   *)
LEMMA PoolCoherent ==
  ASSUME NEW s, Sound(s)
  PROVE  IndexesAgree(s) /\ ParentsFirst(s)
<1> DEFINE q == s.mempoolOrder
<1>0. PoolSound(s) /\ q \in Seq(Txs)
  BY DEF Sound, LedgerType
<1>1. Elements(q) = Pending(s) /\ \A i, j \in DOMAIN q : q[i] = q[j] => i = j
  BY <1>0 DEF PoolSound
<1>2. Len(q) = Cardinality(Pending(s))
  BY <1>0, <1>1, ListLength
<1>3. \A t \in Pending(s), o \in UNION {InputSet(u) : u \in Pending(s)} :
        s.mempoolSpends[o] = t <=> o \in InputSet(t)
  BY <1>0 DEF PoolSound
<1>4. IndexesAgree(s)
  BY <1>0, <1>1, <1>2, <1>3 DEF IndexesAgree, PoolSound
<1>5. ASSUME NEW i \in DOMAIN q, NEW o \in InputSet(q[i]), ~Unspent(s, o)
      PROVE  \E j \in 1..(i - 1) : o \in OutpointsOf(q[j])
  <2>1. q[i] \in Pending(s)
    BY <1>1 DEF Elements
  <2>2. PICK u \in Pending(s) : o \in OutpointsOf(u) /\ Precedes(q, u, q[i])
    BY <1>0, <1>5, <2>1 DEF PoolSound
  <2>3. PICK j, k \in DOMAIN q : j < k /\ q[j] = u /\ q[k] = q[i]
    BY <2>2 DEF Precedes
  <2>4. k = i /\ j \in 1..(i - 1)
    BY <1>0, <1>1, <2>3
  <2> QED BY <2>2, <2>3, <2>4
<1>6. ParentsFirst(s)
  BY <1>5 DEF ParentsFirst
<1> QED BY <1>4, <1>6

(* The mempool indexes of a running node agree and its pool is minable in   *)
(* order (mempoolOrder, mempoolSpends and mempoolOutputs of the state).     *)
THEOREM PoolsCoherent == Spec => []MempoolCoherent
<1>1. Inductive => MempoolCoherent
  BY PoolCoherent DEF Inductive, StatesSound, MempoolCoherent, UpNodes
<1> QED BY <1>1, NodesSound, PTL

(* A confirmed transaction stands in exactly one block, at the height of    *)
(* its record, and no two confirmed ones spend an output (applyConfirmedTx, *)
(* reconcileDetachedTransactions).                                          *)
THEOREM EachConfirmedOnce == Spec => []ConfirmedOnce
<1>1. Inductive => ConfirmedOnce
  <2> SUFFICES ASSUME Inductive, NEW n \in Nodes
               PROVE  LET s == state[n]
                          Places(t) == {i \in DOMAIN s.chain : t \in Elements(s.chain[i].txids)}
                      IN  /\ \A t \in Txs : Places(t) = IF t \in Confirmed(s) THEN {s.transactions[t].height} ELSE {}
                          /\ \A t, u \in Confirmed(s) : t # u => InputSet(t) \cap InputSet(u) = {}
    BY DEF ConfirmedOnce, UpNodes
  <2> DEFINE s == state[n]
             Places(t) == {i \in DOMAIN s.chain : t \in Elements(s.chain[i].txids)}
  <2>1. ConfirmedSound(s) /\ ChainSound(s.chain)
    BY DEF Inductive, StatesSound, Sound
  <2> HIDE DEF s
  <2>2. ASSUME NEW t \in Confirmed(s) PROVE Places(t) = {s.transactions[t].height}
    <3>1. PICK i \in DOMAIN s.chain : t \in Elements(s.chain[i].txids)
      BY <2>1 DEF ConfirmedSound, ChainTxs
    <3>2. \A j \in DOMAIN s.chain : t \in Elements(s.chain[j].txids) => j = i
      BY <2>1, <3>1 DEF ChainSound
    <3>3. s.transactions[t].height = i
      BY <2>1, <3>1 DEF ConfirmedSound
    <3> QED BY <3>1, <3>2, <3>3
  <2>3. ASSUME NEW t, t \notin Confirmed(s) PROVE Places(t) = {}
    BY <2>1, <2>3 DEF ConfirmedSound, ChainTxs
  <2>4. \A t, u \in Confirmed(s) : t # u => InputSet(t) \cap InputSet(u) = {}
    BY <2>1 DEF ConfirmedSound
  <2> QED BY <2>2, <2>3, <2>4 DEF s
<1> QED BY <1>1, NodesSound, PTL

(* What is unspent is what was issued, less the fees nobody collected, and  *)
(* no more than the cap was issued (coinbaseReward, applyConfirmedTx,       *)
(* expectedReward).                                                         *)
THEOREM ValueIsConserved == Spec => []ValueConserved
<1>1. Inductive => ValueConserved
  BY DEF Inductive, StatesSound, Sound, Balanced, ValueConserved, UpNodes
<1> QED BY <1>1, NodesSound, PTL

(* Unless a write failed, a node that stops and can load its file has the   *)
(* chain, the outputs and the pending transactions it had (persist, load).  *)
THEOREM RestartsLoseNothing == Spec => []RestartLosesNothing
<1>1. Inductive => RestartLosesNothing
  <2> SUFFICES ASSUME Inductive, failures = 0, NEW n \in Nodes, status[n] = "up",
                      VerifyPersistedState(disk[n]).ok
               PROVE  /\ VerifyPersistedState(disk[n]).st.chain = state[n].chain
                      /\ VerifyPersistedState(disk[n]).st.utxos = state[n].utxos
                      /\ Pending(VerifyPersistedState(disk[n]).st) = Pending(state[n])
    BY DEF RestartLosesNothing, UpNodes
  <2> DEFINE r == VerifyPersistedState(disk[n]).st
             s == state[n]
  <2>1. ImageSound(disk[n]) /\ disk[n].chain = s.chain /\ PendingIn(disk[n]) = Pending(s)
    BY DEF Inductive, FilesSound
  <2>2. Sound(r) /\ r.chain = disk[n].chain /\ Pending(r) = PendingIn(disk[n])
    BY <2>1, ReloadSound
  <2>3. Sound(s)
    BY DEF Inductive, StatesSound
  <2> HIDE DEF r, s
  <2>4. UtxosSound(r.utxos, s.chain) /\ UtxosSound(s.utxos, s.chain)
    BY <2>1, <2>2, <2>3 DEF Sound, ConfirmedSound
  <2>5. r.utxos = s.utxos
    BY <2>4, OutputsUnique
  <2> QED BY <2>1, <2>2, <2>5 DEF r, s
<1> QED BY <1>1, NodesSound, PTL
-----------------------------------------------------------------------------
(* What a step can do to the memory of a node that runs before and after:   *)
(* nothing, a payment more, a block more, or the adoption of a candidate.   *)
Moved(n) ==
  \/ state'[n] = state[n]
  \/ Known(state[n]) \subseteq Known(state'[n]) /\ state'[n].chain = state[n].chain
  \/ /\ Known(state[n]) \subseteq Known(state'[n])
     /\ \E b \in BlockType : state'[n].chain = Append(state[n].chain, b)
  \/ /\ syncing[n] # NoCandidate /\ StillPreferred(n)
     /\ state'[n] = Reconcile(syncing[n], state[n])

(* The memory of the other nodes is not touched by a turn of the lock.      *)
LEMMA TurnMoves ==
  ASSUME DOMAIN state = Nodes, NEW n \in Nodes, NEW s, Commit(n, s) \/ CommitUnpersisted(n, s)
  PROVE  state'[n] = s /\ \A m \in Nodes \ {n} : state'[m] = state[m]
BY DEF Commit, CommitUnpersisted

(* A block that was found and accepted is appended.                         *)
LEMMA BlockMoves ==
  ASSUME Inductive, BlocksSound', mined \subseteq mined', NEW n \in Nodes, NEW b \in mined',
         SubmissionOk(state[n], b), state'[n] = AppendBlock(state[n], b, state[n].transactions)
  PROVE  Moved(n)
<1> DEFINE found == mined'
<1>1. /\ \A c \in found : c.hash \in Hashes
      /\ \A c, d \in found : c.hash = d.hash => c = d
      /\ b \in found /\ b \in BlockType
  BY DEF BlocksSound
<1>2. Sound(state[n]) /\ Elements(state[n].chain) \subseteq found \cup {GenesisBlock}
  BY DEF Inductive, StatesSound, Blocks
<1> HIDE DEF found
<1> DEFINE s == state[n]
           r == AppendBlock(s, b, s.transactions)
<1>3. SubmissionOk(s, b) /\ Sound(s) /\ Elements(s.chain) \subseteq found \cup {GenesisBlock}
  BY <1>2
<1>4. state'[n] = r
  OBVIOUS
<1> HIDE DEF s
<1>5. Grown(r, s, b)
  BY <1>1, <1>3, AcceptedBlock
<1> HIDE DEF r
<1>6. state'[n].chain = Append(s.chain, b) /\ Known(state'[n]) = Known(s)
  BY <1>4, <1>5 DEF Grown
<1> QED BY <1>1, <1>6 DEF Moved, s

(* Every step moves a running node in one of these ways.                    *)
LEMMA StepMoves ==
  ASSUME Inductive, [Next]_vars, NEW n \in Nodes, status[n] = "up", status'[n] = "up"
  PROVE  Moved(n)
<1>0. Inductive'
  BY NextInductive
<1>d. /\ DOMAIN state = Nodes /\ status \in [Nodes -> {"up", "down", "failed"}]
      /\ DOMAIN syncing = Nodes /\ BlocksSound'
  BY <1>0 DEF Inductive, Shapes
<1>1. CASE UNCHANGED vars
  BY <1>1 DEF vars, Moved
<1>2. ASSUME NEW m \in Nodes, NEW t \in Txs, SubmitTx(m, t) PROVE Moved(n)
  <2> DEFINE s == AcceptTxInto(state[m], t, NextSeq(state[m]))
  <2>1. AcceptError(state[m], t) = "none" /\ (Commit(m, s) \/ CommitUnpersisted(m, s))
    BY <1>2 DEF SubmitTx
  <2>2. state'[m] = s /\ \A l \in Nodes \ {m} : state'[l] = state[l]
    <3> HIDE DEF s
    <3> QED BY <1>d, <2>1, TurnMoves
  <2>3. Sound(state[m]) /\ NextSeq(state[m]) \in Nat
    BY DEF Inductive, StatesSound, Sound, LedgerType, NextSeq
  <2>4. Known(s) = Known(state[m]) \cup {t} /\ s.chain = state[m].chain
    BY <2>1, <2>3, AcceptKeepsSound
  <2> HIDE DEF s
  <2> QED BY <2>2, <2>4 DEF Moved
<1>3. ASSUME NEW m \in Nodes, NEW k \in 0..Len(SelectedPending(state[m])),
             NEW hash \in FreshHashes, NEW work \in Works,
             SubmitBlock(m, SubSeq(state[m].mempoolOrder, 1, k), hash, work)
      PROVE  Moved(n)
  <2> DEFINE b == BlockOn(state[m], SubSeq(state[m].mempoolOrder, 1, k), hash, work)
             s == AppendBlock(state[m], b, state[m].transactions)
  <2>1. /\ SubmissionOk(state[m], b) /\ mined' = mined \cup {b}
        /\ Commit(m, s) \/ CommitUnpersisted(m, s)
    BY <1>3 DEF SubmitBlock
  <2> HIDE DEF b
  <2>2. state'[m] = s /\ \A l \in Nodes \ {m} : state'[l] = state[l]
    <3> HIDE DEF s
    <3> QED BY <1>d, <2>1, TurnMoves
  <2>3. b \in mined' /\ mined \subseteq mined'
    BY <2>1
  <2>4. Moved(m)
    BY <1>d, <2>1, <2>2, <2>3, BlockMoves
  <2> QED BY <2>2, <2>4 DEF Moved
<1>4. ASSUME NEW m \in Nodes, NEW b \in relayed, ReceiveBlock(m, b) PROVE Moved(n)
  <2> DEFINE s == AppendBlock(state[m], b, state[m].transactions)
  <2>1. /\ SubmissionOk(state[m], b) /\ mined' = mined
        /\ Commit(m, s) \/ CommitUnpersisted(m, s)
    BY <1>4 DEF ReceiveBlock
  <2>2. state'[m] = s /\ \A l \in Nodes \ {m} : state'[l] = state[l]
    <3> HIDE DEF s
    <3> QED BY <1>d, <2>1, TurnMoves
  <2>3. b \in mined' /\ mined \subseteq mined'
    BY <2>1 DEF Inductive, BlocksSound
  <2>4. Moved(m)
    BY <1>d, <2>1, <2>2, <2>3, BlockMoves
  <2> QED BY <2>2, <2>4 DEF Moved
<1>5. ASSUME NEW m \in Nodes, NEW l \in Nodes \ {m}, SyncFetch(m, l) PROVE Moved(n)
  BY <1>5 DEF SyncFetch, Moved
<1>6. ASSUME NEW m \in Nodes, SyncAdopt(m) PROVE Moved(n)
  <2> DEFINE s == Reconcile(syncing[m], state[m])
  <2>1. /\ syncing[m] # NoCandidate
        /\ \/ StillPreferred(m) /\ (Commit(m, s) \/ CommitUnpersisted(m, s))
           \/ UNCHANGED state
    BY <1>6 DEF SyncAdopt
  <2> HIDE DEF s
  <2>2. CASE UNCHANGED state
    BY <2>2 DEF Moved
  <2>3. CASE StillPreferred(m) /\ (Commit(m, s) \/ CommitUnpersisted(m, s))
    <3>1. state'[m] = s /\ \A l \in Nodes \ {m} : state'[l] = state[l]
      BY <1>d, <2>3, TurnMoves
    <3> QED BY <2>1, <2>3, <3>1 DEF Moved, s
  <2> QED BY <2>1, <2>2, <2>3
<1>7. ASSUME NEW m \in Nodes, Crash(m) PROVE Moved(n)
  <2>1. m # n
    BY <1>d, <1>7 DEF Crash
  <2> QED BY <1>d, <1>7, <2>1 DEF Crash, Moved
<1>8. ASSUME NEW m \in Nodes, Restart(m) PROVE Moved(n)
  <2>1. m # n
    BY <1>8 DEF Restart
  <2> QED BY <1>d, <1>8, <2>1 DEF Restart, Moved
<1>9. CASE Next
  <2>1. PICK m \in Nodes :
          \/ \E t \in Txs : SubmitTx(m, t)
          \/ \E k \in 0..Len(SelectedPending(state[m])), hash \in FreshHashes, work \in Works :
               SubmitBlock(m, SubSeq(state[m].mempoolOrder, 1, k), hash, work)
          \/ \E b \in relayed : ReceiveBlock(m, b)
          \/ \E l \in Nodes \ {m} : SyncFetch(m, l)
          \/ SyncAdopt(m) \/ Crash(m) \/ Restart(m)
    BY <1>9, Zenon DEF Next
  <2> QED BY <1>2, <1>3, <1>4, <1>5, <1>6, <1>7, <1>8, <2>1, Zenon
<1> QED BY <1>1, <1>9

(* A running node forgets a payment only if its new state cannot take it,   *)
(* whatever chain it moves to (reconcileDetachedTransactions).              *)
THEOREM NothingNeedlesslyDropped == Spec => NoNeedlessDrop
<1> DEFINE A == \A n \in Nodes : status[n] = "up" /\ status'[n] = "up" =>
                  \A t \in Known(state[n]) \ Known(state'[n]) : AcceptError(state'[n], t) # "none"
<1>1. ASSUME Inductive, [Next]_vars PROVE A
  <2> SUFFICES ASSUME NEW n \in Nodes, status[n] = "up", status'[n] = "up",
                      NEW t \in Known(state[n]) \ Known(state'[n])
               PROVE  AcceptError(state'[n], t) # "none"
    OBVIOUS
  <2>1. Moved(n)
    BY <1>1, StepMoves
  <2>2. ~(Known(state[n]) \subseteq Known(state'[n]))
    OBVIOUS
  <2>3. syncing[n] # NoCandidate /\ state'[n] = Reconcile(syncing[n], state[n])
    BY <2>1, <2>2 DEF Moved
  <2>4. \A u \in Known(state[n]) \ Known(Reconcile(syncing[n], state[n])) :
          AcceptError(Reconcile(syncing[n], state[n]), u) # "none"
    BY <1>1, <2>3, AdoptedSound
  <2> QED BY <2>3, <2>4
<1>2. Inductive /\ [Next]_vars => [A]_vars
  BY <1>1
<1> QED BY <1>2, NodesSound, PTL DEF Spec, NoNeedlessDrop

(* A block more is work more.                                               *)
LEMMA WorkGrows ==
  ASSUME NEW c, c \in Seq(BlockType), NEW b \in BlockType
  PROVE  ChainWork(Append(c, b)) > ChainWork(c)
<1> DEFINE d == Append(c, b)
           q == [i \in DOMAIN c |-> c[i].work]
<1>1. ASSUME NEW x \in BlockType PROVE x.work \in Nat /\ x.work > 0
  <2>1. x.work \in Works
    BY DEF BlockType
  <2>2. Works \subseteq Nat \ {0}
    BY LedgerAssumption
  <2>3. x.work \in Nat \ {0}
    BY <2>1, <2>2, Zenon
  <2>4. \A k \in Nat \ {0} : k \in Nat /\ k > 0
    OBVIOUS
  <2> QED BY <2>3, <2>4, Zenon
<1>2. q \in Seq(Nat) /\ b.work \in Nat /\ b.work > 0
  <2>1. \A i \in DOMAIN c : c[i].work \in Nat
    <3>1. \A i \in DOMAIN c : c[i] \in BlockType
      OBVIOUS
    <3> QED BY <1>1, <3>1, Zenon
  <2>2. q \in Seq(Nat)
    BY <2>1
  <2> QED BY <1>1, <2>2
<1>3. [i \in DOMAIN d |-> d[i].work] = Append(q, b.work)
  <2>1. /\ Len(c) \in Nat /\ DOMAIN c = 1..Len(c) /\ DOMAIN d = 1..(Len(c) + 1)
        /\ d[Len(c) + 1] = b /\ \A i \in 1..Len(c) : d[i] = c[i]
    OBVIOUS
  <2>2. /\ Len(q) = Len(c) /\ DOMAIN Append(q, b.work) = 1..(Len(c) + 1)
        /\ Append(q, b.work)[Len(c) + 1] = b.work
        /\ \A i \in 1..Len(c) : Append(q, b.work)[i] = c[i].work
    BY <1>2, <2>1
  <2>3. Append(q, b.work) = [i \in 1..(Len(c) + 1) |-> Append(q, b.work)[i]]
    BY <1>2, <2>2
  <2> HIDE DEF d, q
  <2>4. \A i \in 1..(Len(c) + 1) : d[i].work = Append(q, b.work)[i]
    BY <2>1, <2>2
  <2> QED BY <2>1, <2>3, <2>4, Zenon
<1> HIDE DEF d
<1>4. ChainWork(d) = SumSeq(q) + b.work /\ SumSeq(q) \in Nat
  <2> HIDE DEF q
  <2>1. SumSeq(Append(q, b.work)) = SumSeq(q) + b.work /\ SumSeq(q) \in Nat
    BY <1>2, SumSeqAppend, SumSeqNat
  <2> QED BY <1>3, <2>1, Zenon DEF ChainWork
<1>5. ChainWork(c) = SumSeq(q)
  BY DEF ChainWork
<1> HIDE DEF q
<1> QED BY <1>2, <1>4, <1>5 DEF d

(* A running node only ever moves to a chain it prefers, although it        *)
(* validated it against an older state (syncPeer, shouldPreferAuthoritative *)
(* Chain).                                                                  *)
THEOREM PreferredChainsOnly == Spec => OnlyPreferredChains
<1> DEFINE A == \A n \in Nodes : status[n] = "up" /\ status'[n] = "up" /\ state'[n].chain # state[n].chain
                                   => Preferred(state'[n], state[n])
<1>1. ASSUME Inductive, [Next]_vars PROVE A
  <2> SUFFICES ASSUME NEW n \in Nodes, status[n] = "up", status'[n] = "up",
                      state'[n].chain # state[n].chain
               PROVE  Preferred(state'[n], state[n])
    OBVIOUS
  <2>1. Moved(n)
    BY <1>1, StepMoves
  <2>2. CASE \E b \in BlockType : state'[n].chain = Append(state[n].chain, b)
    <3>1. state[n].chain \in Seq(BlockType)
      BY <1>1 DEF Inductive, StatesSound, Sound, ChainSound
    <3>2. ChainWork(state'[n].chain) > ChainWork(state[n].chain)
      BY <2>2, <3>1, WorkGrows
    <3> QED BY <3>2 DEF Preferred
  <2>3. CASE syncing[n] # NoCandidate /\ StillPreferred(n) /\ state'[n] = Reconcile(syncing[n], state[n])
    <3>1. state'[n].chain = syncing[n].chain
      BY <1>1, <2>3, AdoptedSound
    <3>2. Preferred(syncing[n], state[n])
      BY <2>3 DEF StillPreferred
    <3> QED BY <3>1, <3>2 DEF Preferred, TipHash
  <2> QED BY <2>1, <2>2, <2>3 DEF Moved
<1>2. Inductive /\ [Next]_vars => [A]_vars
  BY <1>1
<1> QED BY <1>2, NodesSound, PTL DEF Spec, OnlyPreferredChains
-----------------------------------------------------------------------------
(* What a template holds: the head of the pool, no more than a block takes. *)
LEMMA SelectedFacts ==
  ASSUME NEW s, Sound(s)
  PROVE  LET q == s.mempoolOrder
             txids == SelectedPending(s)
         IN  /\ txids \in Seq(Txs) /\ Len(txids) <= MaxTxsPerBlock
             /\ Elements(txids) \subseteq Pending(s)
             /\ \A i \in DOMAIN txids : i \in DOMAIN q /\ txids[i] = q[i]
             /\ \A i \in DOMAIN txids : \A j \in 1..(i - 1) : j \in DOMAIN txids
<1> DEFINE q == s.mempoolOrder
           m == IF Len(q) < MaxTxsPerBlock THEN Len(q) ELSE MaxTxsPerBlock
           txids == SelectedPending(s)
<1>1. q \in Seq(Txs) /\ Elements(q) = Pending(s)
  BY DEF Sound, LedgerType, PoolSound
<1>2. txids = SubSeq(q, 1, m)
  BY DEF SelectedPending
<1> HIDE DEF q, txids
<1>3. Len(q) \in Nat /\ m \in 0..Len(q) /\ m <= MaxTxsPerBlock
  BY <1>1, LedgerAssumption
<1> HIDE DEF m
<1>4. /\ txids \in Seq(Txs) /\ Len(txids) = m /\ DOMAIN txids = 1..m
      /\ \A i \in 1..m : txids[i] = q[i] /\ i \in DOMAIN q
  BY <1>1, <1>2, <1>3
<1>5. Elements(txids) \subseteq Elements(q)
  BY <1>4 DEF Elements
<1>6. \A i \in DOMAIN txids : \A j \in 1..(i - 1) : j \in DOMAIN txids
  BY <1>3, <1>4
<1> QED BY <1>1, <1>3, <1>4, <1>5, <1>6 DEF q, txids

(* The payments of a template apply, in their order.                        *)
LEMMA SelectedApply ==
  ASSUME NEW s, Sound(s)
  PROVE  TxsApply(s, SelectedPending(s), s.transactions)
<1> DEFINE q == s.mempoolOrder
           txids == SelectedPending(s)
<1>1. /\ txids \in Seq(Txs) /\ Elements(txids) \subseteq Pending(s)
      /\ \A i \in DOMAIN txids : i \in DOMAIN q /\ txids[i] = q[i]
      /\ \A i \in DOMAIN txids : \A j \in 1..(i - 1) : j \in DOMAIN txids
  BY SelectedFacts
<1> HIDE DEF txids
<1>2. /\ \A i, j \in DOMAIN q : q[i] = q[j] => i = j
      /\ \A t \in Pending(s) : \A o \in InputSet(t) : s.mempoolSpends[o] = t
      /\ q \in Seq(Txs)
  BY DEF Sound, PoolSound, LedgerType
<1>3. \A i \in DOMAIN q : \A o \in InputSet(q[i]) :
        Unspent(s, o) \/ \E j \in 1..(i - 1) : o \in OutpointsOf(q[j])
  BY PoolCoherent DEF ParentsFirst
<1> HIDE DEF q
<1>4. ASSUME NEW i \in DOMAIN txids
      PROVE  /\ \A o \in InputSet(txids[i]) :
                  /\ Unspent(s, o) \/ \E j \in 1..(i - 1) : o \in OutpointsOf(txids[j])
                  /\ \A j \in 1..(i - 1) : o \notin InputSet(txids[j])
             /\ OutputSum(txids[i]) + s.transactions[txids[i]].fee = SumSeq(InputAmounts(s, txids[i]))
  <2>0. i \in DOMAIN q /\ txids[i] = q[i] /\ txids[i] \in Pending(s)
    BY <1>1 DEF Elements
  <2>1. ASSUME NEW o \in InputSet(txids[i]), ~Unspent(s, o)
        PROVE  \E j \in 1..(i - 1) : o \in OutpointsOf(txids[j])
    <3>1. PICK j \in 1..(i - 1) : o \in OutpointsOf(q[j])
      BY <1>3, <2>0, <2>1
    <3>2. q[j] = txids[j]
      BY <1>1
    <3> QED BY <3>1, <3>2
  <2>2. ASSUME NEW o \in InputSet(txids[i]), NEW j \in 1..(i - 1), o \in InputSet(txids[j])
        PROVE  FALSE
    <3>1. j \in DOMAIN txids /\ j # i
      BY <1>1
    <3>2. j \in DOMAIN q /\ txids[j] = q[j] /\ txids[j] \in Pending(s)
      BY <1>1, <3>1 DEF Elements
    <3>3. txids[j] = txids[i]
      BY <1>2, <2>0, <2>2, <3>2
    <3> QED BY <1>2, <2>0, <3>1, <3>2, <3>3
  <2>3. OutputSum(txids[i]) + s.transactions[txids[i]].fee = SumSeq(InputAmounts(s, txids[i]))
    BY <2>0 DEF Sound, FeesSound, Pending
  <2> QED BY <2>1, <2>2, <2>3
<1> QED BY <1>4 DEF TxsApply, InputAmounts, txids

(* A template is a block the node that made it would take.                  *)
LEMMA TemplateOk ==
  ASSUME NEW s, Sound(s), NEW hash, NEW work,
         BlockOn(s, SelectedPending(s), hash, work).reward > 0
  PROVE  SubmissionOk(s, BlockOn(s, SelectedPending(s), hash, work))
<1> DEFINE txids == SelectedPending(s)
           b == BlockOn(s, txids, hash, work)
           fees == TransactionFees(txids, s.transactions)
<1>1. /\ txids \in Seq(Txs) /\ Len(txids) <= MaxTxsPerBlock
      /\ Elements(txids) \subseteq Pending(s)
  BY SelectedFacts
<1>2. \A i, j \in DOMAIN txids : txids[i] = txids[j] => i = j
  <2>1. /\ \A i \in DOMAIN txids : i \in DOMAIN s.mempoolOrder /\ txids[i] = s.mempoolOrder[i]
    BY SelectedFacts
  <2> HIDE DEF txids
  <2> QED BY <2>1 DEF Sound, PoolSound
<1>3. TxsApply(s, txids, s.transactions)
  BY SelectedApply
<1> HIDE DEF txids
<1>4. fees \in Nat
  BY <1>1, FeesNat DEF Pending
<1>5. s.chain \in Seq(BlockType)
  BY DEF Sound, ChainSound
<1>6. Height(s) + 1 \in Nat \ {0}
  BY <1>5 DEF Height
<1>7. ExpectedReward(s, Height(s) + 1) \in Nat
  BY <1>5, <1>6, IssuedNat
<1>8. /\ b.height = Height(s) + 1 /\ b.prev = TipHash(s) /\ b.txids = txids
      /\ b.reward = ExpectedReward(s, b.height) /\ b.coinbase = CoinbaseValue(b.height, b.reward, fees)
  BY DEF BlockOn
<1>9. b.reward > 0
  BY DEF txids
<1> HIDE DEF b, fees
<1>10. CoinbaseActive(b.height) => b.coinbase > 0
  BY <1>4, <1>7, <1>8, <1>9 DEF CoinbaseValue
<1>11. EnvelopeOk(s, b, s.transactions)
  <2>1. Elements(b.txids) \subseteq DOMAIN s.transactions
    BY <1>1, <1>8 DEF Pending, Known
  <2> QED BY <1>1, <1>2, <1>8, <1>10, <2>1 DEF EnvelopeOk, fees
<1> QED BY <1>1, <1>3, <1>8, <1>11 DEF SubmissionOk, b, txids

(* The template a running node hands out is a block it would accept, as     *)
(* long as there is a reward (baseTemplate, appendBlockFromSubmission).     *)
THEOREM TemplatesMinable == Spec => []TemplateMinable
<1>1. Inductive => TemplateMinable
  BY TemplateOk DEF Inductive, StatesSound, TemplateMinable, UpNodes
<1> QED BY <1>1, NodesSound, PTL
-----------------------------------------------------------------------------
(***************************************************************************)
(* The nodes implement module ForkChoice: seen only as the hashes, parents *)
(* and works of their blocks, their chains move as that module says, for   *)
(* any number of nodes, transactions, blocks, crashes and failed writes.   *)
(***************************************************************************)
(* What ForkChoice sees of a block, of the nodes and of their files.        *)
LinkOf(b) == [hash |-> b.hash, prev |-> b.prev, work |-> b.work]
chains == [n \in Nodes |-> Links(state[n].chain)]
files == [n \in Nodes |-> Links(disk[n].chain)]
runs == [n \in Nodes |-> status[n] = "up"]
downloads == [n \in Nodes |-> Links(syncing[n].chain)]
found == {[hash |-> b.hash, prev |-> b.prev, work |-> b.work] : b \in mined}

(* A running node, a data file and a candidate have at least the            *)
(* checkpoint; a node that does not run has nothing in memory.              *)
Started ==
  \A n \in Nodes :
    /\ status[n] = "up" => state[n].chain # <<>>
    /\ status[n] # "up" => state[n].chain = <<>>
    /\ disk[n].chain # <<>>
    /\ syncing[n] # NoCandidate => syncing[n].chain # <<>>

ViewInv == Inductive /\ Started
-----------------------------------------------------------------------------
(* The view of a chain has its length, and block for block its hashes,      *)
(* parents and works.                                                       *)
LEMMA LinksFacts ==
  ASSUME NEW c, c \in Seq(BlockType)
  PROVE  /\ Len(Links(c)) = Len(c) /\ DOMAIN Links(c) = 1..Len(c) /\ Len(c) \in Nat
         /\ \A i \in 1..Len(c) : Links(c)[i] = LinkOf(c[i])
         /\ Links(c) = <<>> <=> c = <<>>
<1>1. Len(c) \in Nat /\ DOMAIN c = 1..Len(c)
  OBVIOUS
<1>2. Links(c) = [i \in 1..Len(c) |-> LinkOf(c[i])]
  BY <1>1 DEF Links, LinkOf
<1>3. DOMAIN Links(c) = 1..Len(c) /\ \A i \in 1..Len(c) : Links(c)[i] = LinkOf(c[i])
  BY <1>2
<1>4. Links(c) \in Seq({LinkOf(c[i]) : i \in 1..Len(c)})
  BY <1>1, <1>2
<1>5. Len(Links(c)) = Len(c)
  BY <1>1, <1>3, <1>4
<1>6. Links(c) = <<>> <=> c = <<>>
  BY <1>1, <1>4, <1>5
<1> QED BY <1>1, <1>3, <1>5, <1>6

(* The view of a chain with a block more is the view with a link more.      *)
LEMMA LinksAppend ==
  ASSUME NEW c, c \in Seq(BlockType), NEW b \in BlockType
  PROVE  Links(Append(c, b)) = Append(Links(c), LinkOf(b))
<1> DEFINE d == Append(c, b)
           p == Links(c)
           x == LinkOf(b)
           S == {LinkOf(y) : y \in BlockType}
<1>1. d \in Seq(BlockType) /\ Len(d) = Len(c) + 1 /\ Len(c) \in Nat
      /\ d[Len(c) + 1] = b /\ \A i \in 1..Len(c) : d[i] = c[i]
  OBVIOUS
<1>2. Links(d) = [i \in 1..(Len(c) + 1) |-> LinkOf(d[i])]
  BY <1>1 DEF Links, LinkOf
<1>3. p \in Seq(S) /\ x \in S
  BY DEF Links, LinkOf
<1>4. Len(p) = Len(c) /\ \A i \in 1..Len(c) : p[i] = LinkOf(c[i])
  BY LinksFacts
<1> HIDE DEF d, p, x, S
<1>5. /\ Append(p, x)[Len(c) + 1] = x /\ \A i \in 1..Len(c) : Append(p, x)[i] = p[i]
      /\ DOMAIN Append(p, x) = 1..(Len(c) + 1)
  BY <1>1, <1>3, <1>4
<1> DEFINE w == Append(p, x)
<1>6. w = [i \in 1..(Len(c) + 1) |-> w[i]]
  <2>1. w \in Seq(S)
    BY <1>3
  <2>2. w = [i \in DOMAIN w |-> w[i]]
    <3> HIDE DEF w
    <3> QED BY <2>1
  <2> QED BY <1>5, <2>2
<1> HIDE DEF w
<1>7. \A i \in 1..(Len(c) + 1) : LinkOf(d[i]) = w[i]
  BY <1>1, <1>4, <1>5 DEF w, x
<1>8. Links(d) = w
  <2>1. [i \in 1..(Len(c) + 1) |-> LinkOf(d[i])] = [i \in 1..(Len(c) + 1) |-> w[i]]
    BY <1>7, Zenon
  <2> QED BY <1>2, <1>6, <2>1, Zenon
<1> QED BY <1>8 DEF d, w, p, x

(* ForkChoice adds the work of a chain up as the ledger does,               *)
LEMMA SameWork ==
  ASSUME NEW c, c \in Seq(BlockType)
  PROVE  Choice!Work(Links(c)) = ChainWork(c)
<1> DEFINE q == [i \in DOMAIN c |-> c[i].work]
           r == [i \in DOMAIN Links(c) |-> Links(c)[i].work]
<1>1. DOMAIN Links(c) = 1..Len(c) /\ DOMAIN c = 1..Len(c)
      /\ \A i \in 1..Len(c) : Links(c)[i].work = c[i].work
  <2>1. DOMAIN c = 1..Len(c)
    OBVIOUS
  <2>2. DOMAIN Links(c) = 1..Len(c) /\ \A i \in 1..Len(c) : Links(c)[i] = LinkOf(c[i])
    BY LinksFacts
  <2>3. \A i \in 1..Len(c) : LinkOf(c[i]).work = c[i].work
    BY DEF LinkOf
  <2> QED BY <2>1, <2>2, <2>3
<1>2. r = q
  <2>1. \A i \in DOMAIN c : Links(c)[i].work = c[i].work
    BY <1>1
  <2>2. DOMAIN Links(c) = DOMAIN c
    BY <1>1
  <2> QED BY <2>1, <2>2, Zenon
<1>3. ChainWork(c) = SumSeq(q) /\ Choice!Work(Links(c)) = Choice!SumSeq(r)
  BY Zenon DEF ChainWork, Choice!Work
<1> HIDE DEF q, r
<1>4. Choice!SumSeq(q) = SumSeq(q)
  BY Zenon DEF SumSeq, Choice!SumSeq
<1> QED BY <1>2, <1>3, <1>4

(* and names it by the same tip.                                            *)
LEMMA SameTip ==
  ASSUME NEW s, s.chain \in Seq(BlockType)
  PROVE  Choice!Tip(Links(s.chain)) = TipHash(s)
<1> DEFINE c == s.chain
<1>1. /\ Len(Links(c)) = Len(c) /\ Len(c) \in Nat
      /\ Links(c) = <<>> <=> c = <<>>
      /\ c # <<>> => Links(c)[Len(c)] = LinkOf(c[Len(c)])
  <2>1. c # <<>> => Len(c) \in 1..Len(c)
    OBVIOUS
  <2> HIDE DEF c
  <2> QED BY <2>1, LinksFacts DEF c
<1>2. TipHash(s) = IF c = <<>> THEN 0 ELSE c[Len(c)].hash
  BY DEF TipHash, ZeroHash
<1> HIDE DEF c
<1>3. Choice!Tip(Links(c)) = IF Links(c) = <<>> THEN 0 ELSE Links(c)[Len(Links(c))].hash
  BY DEF Choice!Tip, Choice!ZeroHash
<1> QED BY <1>1, <1>2, <1>3 DEF c, LinkOf

(* So it prefers the same chains.                                           *)
LEMMA SameChoice ==
  ASSUME NEW s, s.chain \in Seq(BlockType), NEW r, r.chain \in Seq(BlockType)
  PROVE  Choice!Better(Links(s.chain), Links(r.chain)) <=> Preferred(s, r)
<1>1. /\ Choice!Work(Links(s.chain)) = ChainWork(s.chain)
      /\ Choice!Work(Links(r.chain)) = ChainWork(r.chain)
      /\ Links(s.chain) = <<>> <=> s.chain = <<>>
      /\ Choice!Tip(Links(s.chain)) = TipHash(s) /\ Choice!Tip(Links(r.chain)) = TipHash(r)
  BY SameWork, SameTip, LinksFacts
<1> QED BY <1>1 DEF Choice!Better, Preferred
-----------------------------------------------------------------------------
(* The nodes start as ForkChoice says: ForkChoice's checkpoint is what it   *)
(* sees of the block they start from.                                       *)
LEMMA InitView == Init => Choice!Init /\ Started
<1> SUFFICES ASSUME Init PROVE Choice!Init /\ Started
  OBVIOUS
<1>1. GenesisState.chain = <<GenesisBlock>> /\ GenesisBlock \in BlockType
  BY GenesisFacts
<1>2. LinkOf(GenesisBlock) = Choice!Genesis
  BY DEF LinkOf, GenesisBlock, Choice!Genesis, Choice!GenesisHash, Choice!ZeroHash, GenesisHash, ZeroHash
<1>3. Links(<<GenesisBlock>>) = <<Choice!Genesis>>
  <2>1. <<>> \in Seq(BlockType) /\ Append(<<>>, GenesisBlock) = <<GenesisBlock>>
    BY <1>1
  <2>2. Links(Append(<<>>, GenesisBlock)) = Append(Links(<<>>), LinkOf(GenesisBlock))
    BY <1>1, <2>1, LinksAppend
  <2>3. Links(<<>>) = <<>>
    BY <2>1, LinksFacts
  <2>4. \A x : Append(<<>>, x) = <<x>>
    OBVIOUS
  <2> QED BY <1>2, <2>1, <2>2, <2>3, <2>4, Zenon
<1>4. Image(GenesisState).chain = <<GenesisBlock>>
  BY <1>1 DEF Image
<1>5. /\ \A n \in Nodes : state[n].chain = <<GenesisBlock>> /\ disk[n].chain = <<GenesisBlock>>
      /\ \A n \in Nodes : status[n] = "up" /\ syncing[n] = NoCandidate
      /\ mined = {} /\ crashes = 0
  BY <1>1, <1>4 DEF Init
<1>6. Links(NoCandidate.chain) = <<>>
  <2>1. <<>> \in Seq(BlockType) /\ NoCandidate.chain = <<>>
    BY DEF NoCandidate
  <2> QED BY <2>1, LinksFacts
<1>7. /\ chains = [n \in Nodes |-> <<Choice!Genesis>>] /\ files = [n \in Nodes |-> <<Choice!Genesis>>]
      /\ runs = [n \in Nodes |-> TRUE] /\ downloads = [n \in Nodes |-> <<>>] /\ found = {}
  <2>1. chains = [n \in Nodes |-> <<Choice!Genesis>>]
    BY <1>3, <1>5, Zenon DEF chains
  <2>2. files = [n \in Nodes |-> <<Choice!Genesis>>]
    BY <1>3, <1>5, Zenon DEF files
  <2>3. runs = [n \in Nodes |-> TRUE]
    BY <1>5, Zenon DEF runs
  <2>4. downloads = [n \in Nodes |-> <<>>]
    BY <1>5, <1>6, Zenon DEF downloads
  <2>5. found = {}
    BY <1>5 DEF found
  <2> QED BY <2>1, <2>2, <2>3, <2>4, <2>5
<1>8. Choice!Init
  BY <1>5, <1>7, Zenon DEF Choice!Init, chains, files, runs, downloads, found
<1>9. Started
  <2>1. <<GenesisBlock>> # <<>>
    OBVIOUS
  <2> QED BY <1>5, <2>1 DEF Started
<1> QED BY <1>8, <1>9

(* A turn of the lock moves the node's chain, and its file with it or not.  *)
LEMMA TurnView ==
  ASSUME ViewInv, NEW n \in Nodes, NEW s, Commit(n, s) \/ CommitUnpersisted(n, s)
  PROVE  /\ chains' = [chains EXCEPT ![n] = Links(s.chain)]
         /\ files' = [files EXCEPT ![n] = Links(s.chain)] \/ files' = files
<1>1. DOMAIN state = Nodes /\ DOMAIN disk = Nodes
  BY DEF ViewInv, Inductive, Shapes
<1>2. \A m \in Nodes : state'[m].chain = IF m = n THEN s.chain ELSE state[m].chain
  BY <1>1 DEF Commit, CommitUnpersisted
<1>3. Image(s).chain = s.chain
  BY DEF Image
<1>4. \/ \A m \in Nodes : disk'[m].chain = IF m = n THEN s.chain ELSE disk[m].chain
      \/ disk' = disk
  BY <1>1, <1>3 DEF Commit, CommitUnpersisted
<1>5. chains' = [chains EXCEPT ![n] = Links(s.chain)]
  BY <1>2 DEF chains
<1>6. ASSUME \A m \in Nodes : disk'[m].chain = IF m = n THEN s.chain ELSE disk[m].chain
      PROVE  files' = [files EXCEPT ![n] = Links(s.chain)]
  BY <1>6 DEF files
<1>7. disk' = disk => files' = files
  BY DEF files
<1> QED BY <1>4, <1>5, <1>6, <1>7

(* After it, the node still has a chain, in memory and in its file.         *)
LEMMA TurnStarted ==
  ASSUME ViewInv, NEW n \in Nodes, status[n] = "up", NEW s, s.chain # <<>>,
         Commit(n, s) \/ CommitUnpersisted(n, s), status' = status,
         \A m \in Nodes : syncing'[m] = NoCandidate \/ syncing'[m] = syncing[m]
  PROVE  Started'
<1>1. DOMAIN state = Nodes /\ DOMAIN disk = Nodes
  BY DEF ViewInv, Inductive, Shapes
<1>2. Image(s).chain = s.chain
  BY DEF Image
<1>3. \A m \in Nodes : /\ state'[m] = IF m = n THEN s ELSE state[m]
                       /\ disk'[m] = disk[m] \/ disk'[m] = Image(s)
  <2>1. \A m \in Nodes : state'[m] = IF m = n THEN s ELSE state[m]
    BY <1>1 DEF Commit, CommitUnpersisted
  <2>2. \A m \in Nodes : disk'[m] = disk[m] \/ disk'[m] = Image(s)
    <3> DEFINE i == Image(s)
    <3>1. disk' = [disk EXCEPT ![n] = i] \/ disk' = disk
      BY DEF Commit, CommitUnpersisted
    <3> HIDE DEF i
    <3>2. \A m \in Nodes : disk'[m] = disk[m] \/ disk'[m] = i
      BY <1>1, <3>1
    <3> QED BY <3>2 DEF i
  <2> QED BY <2>1, <2>2
<1>4. ASSUME NEW m \in Nodes
      PROVE  /\ status'[m] = "up" => state'[m].chain # <<>>
             /\ status'[m] # "up" => state'[m].chain = <<>>
             /\ disk'[m].chain # <<>>
             /\ syncing'[m] # NoCandidate => syncing'[m].chain # <<>>
  <2>1. /\ status[m] = "up" => state[m].chain # <<>>
        /\ status[m] # "up" => state[m].chain = <<>>
        /\ disk[m].chain # <<>>
        /\ syncing[m] # NoCandidate => syncing[m].chain # <<>>
    BY DEF ViewInv, Started
  <2> QED BY <1>2, <1>3, <2>1
<1> QED BY <1>4 DEF Started
-----------------------------------------------------------------------------
(* A step of the nodes as ForkChoice sees it.                               *)
ViewStep == Started' /\ [Choice!Next]_(Choice!vars)

(* What ForkChoice sees does not change when its six views do not.          *)
LEMMA SameView ==
  ASSUME chains' = chains, files' = files, runs' = runs, downloads' = downloads, found' = found,
         crashes' = crashes
  PROVE  UNCHANGED Choice!vars
BY Zenon DEF Choice!vars, chains, files, runs, downloads, found

(* A chain that runs is a sequence of blocks with a tip that ForkChoice     *)
(* accepts as a parent.                                                     *)
LEMMA ChainFacts ==
  ASSUME ViewInv, NEW n \in Nodes
  PROVE  /\ state[n].chain \in Seq(BlockType)
         /\ chains[n] = Links(state[n].chain) /\ files[n] = Links(disk[n].chain)
         /\ downloads[n] = Links(syncing[n].chain) /\ runs[n] = (status[n] = "up")
         /\ Choice!Tip(chains[n]) = TipHash(state[n])
         /\ status[n] = "up" => TipHash(state[n]) \in Hashes \cup {Choice!GenesisHash}
<1>1. state[n].chain \in Seq(BlockType)
  BY DEF ViewInv, Inductive, StatesSound, Sound, ChainSound
<1>2. Choice!Tip(Links(state[n].chain)) = TipHash(state[n])
  BY <1>1, SameTip
<1>3. /\ chains[n] = Links(state[n].chain) /\ files[n] = Links(disk[n].chain)
      /\ downloads[n] = Links(syncing[n].chain) /\ runs[n] = (status[n] = "up")
  BY DEF chains, files, downloads, runs
<1>4. status[n] = "up" => TipHash(state[n]) \in Hashes \cup {Choice!GenesisHash}
  <2> SUFFICES ASSUME status[n] = "up" PROVE TipHash(state[n]) \in Hashes \cup {Choice!GenesisHash}
    OBVIOUS
  <2> DEFINE c == state[n].chain
  <2>1. c \in Seq(BlockType) /\ c # <<>>
    BY <1>1 DEF ViewInv, Started
  <2>2. TipHash(state[n]) = c[Len(c)].hash
    BY <2>1 DEF TipHash
  <2> HIDE DEF c
  <2>3. c[Len(c)] \in BlockType
    BY <2>1
  <2>4. c[Len(c)].hash \in Hashes \cup {GenesisHash}
    BY <2>3 DEF BlockType
  <2> QED BY <2>2, <2>4 DEF GenesisHash, Choice!GenesisHash
<1> QED BY <1>1, <1>2, <1>3, <1>4

(* A payment: the file may be written, the chain is the same.               *)
LEMMA SubmitTxView ==
  ASSUME ViewInv, NEW n \in Nodes, NEW t \in Txs, SubmitTx(n, t)
  PROVE  ViewStep
<1> DEFINE s == AcceptTxInto(state[n], t, NextSeq(state[n]))
<1>1. /\ status[n] = "up" /\ AcceptError(state[n], t) = "none"
      /\ Commit(n, s) \/ CommitUnpersisted(n, s)
      /\ UNCHANGED <<status, syncing, mined, relayed, crashes>>
  BY DEF SubmitTx
<1>2. Sound(state[n]) /\ NextSeq(state[n]) \in Nat
  BY DEF ViewInv, Inductive, StatesSound, Sound, LedgerType, NextSeq
<1>3. s.chain = state[n].chain /\ s.chain # <<>>
  BY <1>1, <1>2, AcceptKeepsSound DEF ViewInv, Started
<1> HIDE DEF s
<1>4. Started'
  BY <1>1, <1>3, TurnStarted
<1>5. /\ chains' = [chains EXCEPT ![n] = Links(s.chain)]
      /\ files' = [files EXCEPT ![n] = Links(s.chain)] \/ files' = files
  BY <1>1, TurnView
<1>6. chains[n] = Links(s.chain) /\ runs[n]
  BY <1>1, <1>3, ChainFacts
<1>7. chains' = chains
  <2>1. chains = [m \in Nodes |-> chains[m]]
    BY DEF chains
  <2> QED BY <1>5, <1>6, <2>1
<1>8. runs' = runs /\ downloads' = downloads /\ found' = found /\ crashes' = crashes
  BY <1>1 DEF runs, downloads, found
<1>9. CASE files' = files
  BY <1>4, <1>7, <1>8, <1>9, SameView DEF ViewStep
<1>10. CASE files' = [files EXCEPT ![n] = chains[n]]
  <2>1. Choice!Save(n)
    BY <1>6, <1>7, <1>8, <1>10, Zenon DEF Choice!Save, chains, files, runs, downloads, found
  <2>2. Choice!Next
    BY <2>1, Zenon DEF Choice!Next
  <2> QED BY <1>4, <2>2 DEF ViewStep
<1> QED BY <1>5, <1>6, <1>9, <1>10

(* What an accepted block does to the chain.                                *)
LEMMA BlockView ==
  ASSUME ViewInv, NEW n \in Nodes, status[n] = "up", NEW b \in BlockType,
         SubmissionOk(state[n], b),
         LET s == AppendBlock(state[n], b, state[n].transactions)
         IN  Commit(n, s) \/ CommitUnpersisted(n, s),
         UNCHANGED <<status, syncing, crashes>>
  PROVE  /\ Started' /\ LinkOf(b).prev = Choice!Tip(chains[n]) /\ runs[n]
         /\ chains' = [chains EXCEPT ![n] = Append(chains[n], LinkOf(b))]
         /\ files' = [files EXCEPT ![n] = Append(chains[n], LinkOf(b))] \/ files' = files
         /\ runs' = runs /\ downloads' = downloads
<1> DEFINE s == AppendBlock(state[n], b, state[n].transactions)
<1>1. Commit(n, s) \/ CommitUnpersisted(n, s)
  OBVIOUS
<1>2. s.chain = Append(state[n].chain, b)
  BY AppendParts
<1> HIDE DEF s
<1>3. state[n].chain \in Seq(BlockType) /\ chains[n] = Links(state[n].chain) /\ runs[n]
      /\ Choice!Tip(chains[n]) = TipHash(state[n])
  BY ChainFacts
<1>4. Links(s.chain) = Append(chains[n], LinkOf(b)) /\ s.chain # <<>>
  <2>1. Append(state[n].chain, b) # <<>>
    BY <1>3
  <2> QED BY <1>2, <1>3, <2>1, LinksAppend
<1>5. Started'
  BY <1>1, <1>4, TurnStarted
<1>6. /\ chains' = [chains EXCEPT ![n] = Append(chains[n], LinkOf(b))]
      /\ files' = [files EXCEPT ![n] = Append(chains[n], LinkOf(b))] \/ files' = files
  BY <1>1, <1>4, TurnView
<1>7. LinkOf(b).prev = Choice!Tip(chains[n])
  <2>1. b.prev = TipHash(state[n])
    BY DEF SubmissionOk, EnvelopeOk
  <2> QED BY <1>3, <2>1 DEF LinkOf
<1>8. runs' = runs /\ downloads' = downloads
  BY DEF runs, downloads
<1> QED BY <1>3, <1>5, <1>6, <1>7, <1>8

(* A block that is found.                                                   *)
LEMMA SubmitBlockView ==
  ASSUME ViewInv, NEW n \in Nodes, NEW k \in 0..Len(SelectedPending(state[n])),
         NEW hash \in FreshHashes, NEW work \in Works,
         SubmitBlock(n, SubSeq(state[n].mempoolOrder, 1, k), hash, work)
  PROVE  ViewStep
<1> DEFINE txids == SubSeq(state[n].mempoolOrder, 1, k)
           b == BlockOn(state[n], txids, hash, work)
           s == AppendBlock(state[n], b, state[n].transactions)
<1>1. /\ status[n] = "up" /\ SubmissionOk(state[n], b)
      /\ Commit(n, s) \/ CommitUnpersisted(n, s)
      /\ UNCHANGED <<status, syncing, crashes>>
      /\ mined' = mined \cup {b}
  BY DEF SubmitBlock
<1>2. Sound(state[n])
  BY DEF ViewInv, Inductive, StatesSound
<1>3. txids \in Seq(Txs) /\ Elements(txids) \subseteq Known(state[n])
  BY <1>2, TemplatePart DEF Pending
<1>4. hash \in Hashes /\ \A c \in mined : c.hash # hash
  BY DEF FreshHashes
<1> HIDE DEF txids
<1>5. b \in BlockType
  BY <1>2, <1>3, <1>4, BlockOnTyped
<1>6. b.hash = hash /\ b.work = work /\ b.prev = TipHash(state[n])
  BY DEF BlockOn
<1> HIDE DEF b
<1>7. /\ Started' /\ LinkOf(b).prev = Choice!Tip(chains[n]) /\ runs[n]
      /\ chains' = [chains EXCEPT ![n] = Append(chains[n], LinkOf(b))]
      /\ files' = [files EXCEPT ![n] = Append(chains[n], LinkOf(b))] \/ files' = files
      /\ runs' = runs /\ downloads' = downloads
  BY <1>1, <1>5, BlockView
<1>8. LinkOf(b) \in Choice!Block
  <2>1. b.prev \in Hashes \cup {Choice!GenesisHash}
    BY <1>1, <1>6, ChainFacts
  <2> QED BY <1>4, <1>6, <2>1 DEF LinkOf, Choice!Block
<1>9. \A other \in found : other.hash # LinkOf(b).hash
  BY <1>4, <1>6 DEF found, LinkOf
<1>10. found' = found \cup {LinkOf(b)}
  BY <1>1 DEF found, LinkOf
<1>11. PICK l : l = LinkOf(b)
  OBVIOUS
<1>12. /\ l \in Choice!Block /\ l.prev = Choice!Tip(chains[n]) /\ found' = found \cup {l}
       /\ \A other \in found : other.hash # l.hash
       /\ chains' = [chains EXCEPT ![n] = Append(chains[n], l)]
       /\ files' = [files EXCEPT ![n] = Append(chains[n], l)] \/ files' = files
  BY <1>7, <1>8, <1>9, <1>10, <1>11, Zenon
<1>13. Choice!Mine(n, l)
  BY <1>1, <1>7, <1>12, Zenon
     DEF Choice!Mine, Choice!Continues, Choice!MoveTo, chains, files, runs, downloads, found
<1>14. Choice!Next
  BY <1>12, <1>13, Zenon DEF Choice!Next
<1> QED BY <1>7, <1>14 DEF ViewStep

(* A block that arrives.                                                    *)
LEMMA ReceiveBlockView ==
  ASSUME ViewInv, NEW n \in Nodes, NEW b \in relayed, ReceiveBlock(n, b)
  PROVE  ViewStep
<1> DEFINE s == AppendBlock(state[n], b, state[n].transactions)
<1>1. /\ status[n] = "up" /\ SubmissionOk(state[n], b)
      /\ Commit(n, s) \/ CommitUnpersisted(n, s)
      /\ UNCHANGED <<status, syncing, mined, relayed, crashes>>
  BY DEF ReceiveBlock
<1>2. b \in mined /\ b \in BlockType
  BY DEF ViewInv, Inductive, BlocksSound
<1> DEFINE l == LinkOf(b)
<1>3. /\ Started' /\ l.prev = Choice!Tip(chains[n]) /\ runs[n]
      /\ chains' = [chains EXCEPT ![n] = Append(chains[n], l)]
      /\ files' = [files EXCEPT ![n] = Append(chains[n], l)] \/ files' = files
      /\ runs' = runs /\ downloads' = downloads
  BY <1>1, <1>2, BlockView
<1>4. l \in found /\ found' = found
  BY <1>1, <1>2 DEF found, LinkOf
<1> HIDE DEF l
<1>5. Choice!Receive(n, l)
  BY <1>1, <1>3, <1>4, Zenon
     DEF Choice!Receive, Choice!Continues, Choice!MoveTo, chains, files, runs, downloads, found
<1>6. Choice!Next
  BY <1>4, <1>5, Zenon DEF Choice!Next, found
<1> QED BY <1>3, <1>6 DEF ViewStep
-----------------------------------------------------------------------------
(* A download that validates is of the peer's whole chain, and that chain   *)
(* was the better one.                                                      *)
LEMMA SyncFetchView ==
  ASSUME ViewInv, NEW n \in Nodes, NEW m \in Nodes \ {n}, SyncFetch(n, m)
  PROVE  ViewStep
<1> DEFINE s == Candidate(state[n], state[m]).st
<1>1. /\ status[n] = "up" /\ status[m] = "up" /\ syncing[n] = NoCandidate
      /\ Candidate(state[n], state[m]).ok /\ Preferred(s, state[n])
      /\ syncing' = [syncing EXCEPT ![n] = s]
      /\ UNCHANGED <<state, disk, status, mined, relayed, crashes, failures>>
  BY DEF SyncFetch
<1>2. Sound(state[n]) /\ Sound(state[m]) /\ DOMAIN syncing = Nodes
  BY DEF ViewInv, Inductive, StatesSound, Shapes
<1>3. s.chain = state[m].chain
  BY <1>1, <1>2, CandidateSound
<1> HIDE DEF s
<1>4. state[m].chain # <<>> /\ state[m].chain \in Seq(BlockType)
  BY <1>1, <1>2 DEF ViewInv, Started, Sound, ChainSound
<1>5. Started'
  <2>1. \A l \in Nodes : syncing'[l] = IF l = n THEN s ELSE syncing[l]
    BY <1>1, <1>2
  <2>2. \A l \in Nodes : syncing'[l] # NoCandidate => syncing'[l].chain # <<>>
    BY <1>3, <1>4, <2>1 DEF ViewInv, Started
  <2> QED BY <1>1, <2>2 DEF ViewInv, Started
<1>6. downloads' = [downloads EXCEPT ![n] = chains[m]]
  <2>1. \A l \in Nodes : syncing'[l].chain = IF l = n THEN state[m].chain ELSE syncing[l].chain
    BY <1>1, <1>2, <1>3
  <2>2. chains[m] = Links(state[m].chain)
    BY ChainFacts
  <2> QED BY <2>1, <2>2 DEF downloads
<1>7. Choice!Better(chains[m], chains[n])
  <2>1. Choice!Better(Links(s.chain), Links(state[n].chain))
    BY <1>1, <1>3, <1>4, SameChoice, ChainFacts
  <2> QED BY <1>3, <2>1, ChainFacts
<1>8. downloads[n] = <<>>
  <2>1. <<>> \in Seq(BlockType) /\ syncing[n].chain = <<>>
    BY <1>1 DEF NoCandidate
  <2>2. Links(<<>>) = <<>>
    BY <2>1, LinksFacts
  <2> QED BY <2>1, <2>2, ChainFacts
<1>9. runs[n] /\ runs[m]
  BY <1>1, ChainFacts
<1>10. chains' = chains /\ files' = files /\ runs' = runs /\ found' = found /\ crashes' = crashes
  BY <1>1 DEF chains, files, runs, found
<1>11. Choice!Fetch(n, m)
  BY <1>6, <1>7, <1>8, <1>9, <1>10, Zenon DEF Choice!Fetch, chains, files, runs, downloads, found
<1>12. Choice!Next
  <2>1. \E l \in Nodes \ {n} : Choice!Fetch(n, l)
    BY <1>11, Zenon
  <2> QED BY <2>1, Zenon DEF Choice!Next
<1> QED BY <1>5, <1>12 DEF ViewStep

(* The comparison at the adoption is that of ForkChoice, and reconciling    *)
(* the transactions leaves the chain of the candidate alone.                *)
LEMMA SyncAdoptView ==
  ASSUME ViewInv, NEW n \in Nodes, SyncAdopt(n)
  PROVE  ViewStep
<1> DEFINE s == Reconcile(syncing[n], state[n])
<1>1. /\ status[n] = "up" /\ syncing[n] # NoCandidate
      /\ syncing' = [syncing EXCEPT ![n] = NoCandidate]
      /\ IF Preferred(syncing[n], state[n])
         THEN Commit(n, s) \/ CommitUnpersisted(n, s)
         ELSE UNCHANGED <<state, disk, failures>>
      /\ UNCHANGED <<status, mined, relayed, crashes>>
  BY DEF SyncAdopt, StillPreferred
<1>2. Inductive /\ Sound(syncing[n]) /\ DOMAIN syncing = Nodes
  BY <1>1 DEF ViewInv, Inductive, CandidatesSound, Idle, Shapes
<1>3. s.chain = syncing[n].chain
  BY <1>1, <1>2, AdoptedSound
<1> HIDE DEF s
<1>4. /\ syncing[n].chain \in Seq(BlockType) /\ syncing[n].chain # <<>>
      /\ state[n].chain \in Seq(BlockType)
  BY <1>1, <1>2, ChainFacts DEF ViewInv, Started, Sound, ChainSound
<1>5. /\ downloads[n] = Links(syncing[n].chain) /\ downloads[n] # <<>> /\ runs[n]
      /\ Links(s.chain) = downloads[n]
  BY <1>1, <1>3, <1>4, ChainFacts, LinksFacts
<1>6. Choice!StillBetter(n) <=> Preferred(syncing[n], state[n])
  <2>1. Choice!Better(Links(syncing[n].chain), Links(state[n].chain)) <=> Preferred(syncing[n], state[n])
    BY <1>4, SameChoice
  <2>2. Choice!Better(downloads[n], chains[n]) <=> Preferred(syncing[n], state[n])
    BY <1>5, <2>1, ChainFacts
  <2> QED BY <2>2, Zenon DEF Choice!StillBetter, downloads, chains
<1>7. \A m \in Nodes : syncing'[m] = IF m = n THEN NoCandidate ELSE syncing[m]
  BY <1>1, <1>2
<1>8. downloads' = [downloads EXCEPT ![n] = <<>>]
  <2>1. <<>> \in Seq(BlockType) /\ NoCandidate.chain = <<>>
    BY DEF NoCandidate
  <2>2. Links(<<>>) = <<>>
    BY <2>1, LinksFacts
  <2>3. \A m \in Nodes : Links(syncing'[m].chain) = IF m = n THEN <<>> ELSE Links(syncing[m].chain)
    BY <1>7, <2>1, <2>2
  <2> QED BY <2>3 DEF downloads
<1>9. runs' = runs /\ found' = found /\ crashes' = crashes
  BY <1>1 DEF runs, found
<1>10. CASE Preferred(syncing[n], state[n])
  <2>1. Commit(n, s) \/ CommitUnpersisted(n, s)
    BY <1>1, <1>10
  <2>2. Started'
    BY <1>1, <1>3, <1>4, <1>7, <2>1, TurnStarted
  <2>3. /\ chains' = [chains EXCEPT ![n] = downloads[n]]
        /\ files' = [files EXCEPT ![n] = downloads[n]] \/ files' = files
    BY <1>5, <2>1, TurnView
  <2>4. Choice!MoveTo(n, downloads[n]) /\ Choice!StillBetter(n)
    BY <1>6, <1>10, <2>3, Zenon DEF Choice!MoveTo, chains, files
  <2>5. Choice!Adopt(n)
    BY <1>5, <1>8, <1>9, <2>4, Zenon DEF Choice!Adopt, chains, files, runs, downloads, found
  <2>6. Choice!Next
    BY <2>5, Zenon DEF Choice!Next
  <2> QED BY <2>2, <2>6 DEF ViewStep
<1>11. CASE ~Preferred(syncing[n], state[n])
  <2>1. UNCHANGED <<state, disk, failures>>
    BY <1>1, <1>11
  <2>2. Started'
    BY <1>1, <1>7, <2>1 DEF ViewInv, Started
  <2>3. chains' = chains /\ files' = files /\ ~Choice!StillBetter(n)
    BY <1>6, <1>11, <2>1 DEF chains, files
  <2>4. Choice!Adopt(n)
    BY <1>5, <1>8, <1>9, <2>3, Zenon DEF Choice!Adopt, chains, files, runs, downloads, found
  <2>5. Choice!Next
    BY <2>4, Zenon DEF Choice!Next
  <2> QED BY <2>2, <2>5 DEF ViewStep
<1> QED BY <1>10, <1>11

(* The process dies: no chain is left in memory and none under way.         *)
LEMMA CrashView ==
  ASSUME ViewInv, NEW n \in Nodes, Crash(n)
  PROVE  ViewStep
<1>1. /\ status[n] = "up" /\ crashes < MaxCrashes /\ crashes' = crashes + 1
      /\ status' = [status EXCEPT ![n] = "down"] /\ state' = [state EXCEPT ![n] = EmptyState]
      /\ syncing' = [syncing EXCEPT ![n] = NoCandidate]
      /\ UNCHANGED <<disk, mined, relayed, failures>>
  BY DEF Crash
<1>2. DOMAIN state = Nodes /\ DOMAIN syncing = Nodes /\ DOMAIN status = Nodes
  BY DEF ViewInv, Inductive, Shapes
<1>3. EmptyState.chain = <<>> /\ NoCandidate.chain = <<>> /\ Links(<<>>) = <<>>
  <2>1. <<>> \in Seq(BlockType)
    OBVIOUS
  <2> QED BY <2>1, EmptySound, LinksFacts DEF NoCandidate
<1>4. \A m \in Nodes : /\ status'[m] = IF m = n THEN "down" ELSE status[m]
                       /\ state'[m] = IF m = n THEN EmptyState ELSE state[m]
                       /\ syncing'[m] = IF m = n THEN NoCandidate ELSE syncing[m]
  BY <1>1, <1>2
<1>5. Started'
  BY <1>1, <1>3, <1>4 DEF ViewInv, Started
<1>6. /\ chains' = [chains EXCEPT ![n] = <<>>] /\ downloads' = [downloads EXCEPT ![n] = <<>>]
      /\ runs' = [runs EXCEPT ![n] = FALSE]
  <2>1. \A m \in Nodes : /\ Links(state'[m].chain) = IF m = n THEN <<>> ELSE Links(state[m].chain)
                         /\ Links(syncing'[m].chain) = IF m = n THEN <<>> ELSE Links(syncing[m].chain)
                         /\ (status'[m] = "up") = IF m = n THEN FALSE ELSE status[m] = "up"
    BY <1>3, <1>4
  <2>2. chains' = [chains EXCEPT ![n] = <<>>]
    BY <2>1 DEF chains
  <2>3. downloads' = [downloads EXCEPT ![n] = <<>>]
    BY <2>1 DEF downloads
  <2>4. runs' = [runs EXCEPT ![n] = FALSE]
    BY <2>1 DEF runs
  <2> QED BY <2>2, <2>3, <2>4
<1>7. files' = files /\ found' = found /\ runs[n]
  BY <1>1 DEF files, found, runs
<1>8. Choice!Stop(n)
  BY <1>1, <1>6, <1>7, Zenon DEF Choice!Stop, chains, files, runs, downloads, found
<1>9. Choice!Next
  BY <1>8, Zenon DEF Choice!Next
<1> QED BY <1>5, <1>9 DEF ViewStep

(* A file that loads gives the chain it holds; one that does not leaves the *)
(* node stopped.                                                            *)
LEMMA RestartView ==
  ASSUME ViewInv, NEW n \in Nodes, Restart(n)
  PROVE  ViewStep
<1> DEFINE loaded == VerifyPersistedState(disk[n])
<1>1. /\ status[n] = "down"
      /\ status' = [status EXCEPT ![n] = IF loaded.ok THEN "up" ELSE "failed"]
      /\ state' = [state EXCEPT ![n] = IF loaded.ok THEN loaded.st ELSE EmptyState]
      /\ UNCHANGED <<disk, syncing, mined, relayed, crashes, failures>>
  BY DEF Restart
<1>2. /\ ImageSound(disk[n]) /\ DOMAIN state = Nodes /\ DOMAIN status = Nodes
      /\ state[n].chain = <<>> /\ disk[n].chain # <<>>
  BY <1>1 DEF ViewInv, Started, Inductive, FilesSound, Shapes
<1>3. loaded.ok => loaded.st.chain = disk[n].chain
  BY <1>2, ReloadSound
<1> HIDE DEF loaded
<1>4. \A m \in Nodes : m # n => status'[m] = status[m] /\ state'[m] = state[m]
  BY <1>1, <1>2
<1>5. /\ loaded.ok => status'[n] = "up" /\ state'[n].chain = disk[n].chain
      /\ ~loaded.ok => status'[n] = "failed" /\ state'[n].chain = <<>>
  BY <1>1, <1>2, <1>3, EmptySound
<1>6. Started'
  <2>1. /\ status'[n] = "up" => state'[n].chain # <<>>
        /\ status'[n] # "up" => state'[n].chain = <<>>
    BY <1>2, <1>5
  <2>2. \A m \in Nodes : /\ status'[m] = "up" => state'[m].chain # <<>>
                         /\ status'[m] # "up" => state'[m].chain = <<>>
    BY <1>4, <2>1 DEF ViewInv, Started
  <2> QED BY <1>1, <2>2 DEF ViewInv, Started
<1>7. files' = files /\ found' = found /\ downloads' = downloads /\ ~runs[n] /\ crashes' = crashes
  BY <1>1 DEF files, found, downloads, runs
<1>8. CASE loaded.ok
  <2>1. \A m \in Nodes :
          /\ Links(state'[m].chain) = IF m = n THEN files[n] ELSE Links(state[m].chain)
          /\ (status'[m] = "up") = IF m = n THEN TRUE ELSE status[m] = "up"
    BY <1>4, <1>5, <1>8, ChainFacts
  <2>2. chains' = [chains EXCEPT ![n] = files[n]]
    BY <2>1 DEF chains
  <2>3. runs' = [runs EXCEPT ![n] = TRUE]
    BY <2>1 DEF runs
  <2>4. Choice!Resume(n)
    BY <1>7, <2>2, <2>3, Zenon DEF Choice!Resume, Choice!Loaded, chains, files, runs, downloads, found
  <2>5. Choice!Next
    BY <2>4, Zenon DEF Choice!Next
  <2> QED BY <1>6, <2>5 DEF ViewStep
<1>9. CASE ~loaded.ok
  <2>1. \A m \in Nodes : /\ state'[m].chain = state[m].chain
                         /\ (status'[m] = "up") = (status[m] = "up")
    BY <1>1, <1>2, <1>4, <1>5, <1>9
  <2>2. chains' = chains /\ runs' = runs
    BY <2>1, Zenon DEF chains, runs
  <2> QED BY <1>6, <1>7, <2>2, SameView DEF ViewStep
<1> QED BY <1>8, <1>9

(* So every step is one of ForkChoice, or none.                             *)
LEMMA NextView == ViewInv /\ [Next]_vars => ViewStep
<1> SUFFICES ASSUME ViewInv, [Next]_vars PROVE ViewStep
  OBVIOUS
<1>1. CASE UNCHANGED vars
  <2>1. Started'
    BY <1>1 DEF ViewInv, Started, vars
  <2>2. UNCHANGED Choice!vars
    BY <1>1, SameView DEF vars, chains, files, runs, downloads, found
  <2> QED BY <2>1, <2>2 DEF ViewStep
<1>2. ASSUME NEW n \in Nodes, NEW t \in Txs, SubmitTx(n, t) PROVE ViewStep
  BY <1>2, SubmitTxView
<1>3. ASSUME NEW n \in Nodes, NEW k \in 0..Len(SelectedPending(state[n])),
             NEW hash \in FreshHashes, NEW work \in Works,
             SubmitBlock(n, SubSeq(state[n].mempoolOrder, 1, k), hash, work)
      PROVE  ViewStep
  BY <1>3, SubmitBlockView
<1>4. ASSUME NEW n \in Nodes, NEW b \in relayed, ReceiveBlock(n, b) PROVE ViewStep
  BY <1>4, ReceiveBlockView
<1>5. ASSUME NEW n \in Nodes, NEW m \in Nodes \ {n}, SyncFetch(n, m) PROVE ViewStep
  BY <1>5, SyncFetchView
<1>6. ASSUME NEW n \in Nodes, SyncAdopt(n) \/ Crash(n) \/ Restart(n) PROVE ViewStep
  BY <1>6, SyncAdoptView, CrashView, RestartView
<1>7. CASE Next
  <2>1. PICK n \in Nodes :
          \/ \E t \in Txs : SubmitTx(n, t)
          \/ \E k \in 0..Len(SelectedPending(state[n])), hash \in FreshHashes, work \in Works :
               SubmitBlock(n, SubSeq(state[n].mempoolOrder, 1, k), hash, work)
          \/ \E b \in relayed : ReceiveBlock(n, b)
          \/ \E m \in Nodes \ {n} : SyncFetch(n, m)
          \/ SyncAdopt(n) \/ Crash(n) \/ Restart(n)
    BY <1>7, Zenon DEF Next
  <2> QED BY <1>2, <1>3, <1>4, <1>5, <1>6, <2>1, Zenon
<1> QED BY <1>1, <1>7

(* The nodes implement ForkChoice: whatever the mempools, the files and the *)
(* validation of downloads do around them, their chains only make the moves *)
(* of that module (appendBlock, adoptCandidate, load), with its comparison  *)
(* of works and tips.                                                       *)
THEOREM NodesImplementForkChoice == Spec => ImplementsForkChoice
<1>1. Init => ViewInv /\ Choice!Init
  BY InitInductive, InitView DEF ViewInv
<1>2. ViewInv /\ [Next]_vars => ViewInv' /\ [Choice!Next]_(Choice!vars)
  <2> SUFFICES ASSUME ViewInv, [Next]_vars PROVE ViewInv' /\ [Choice!Next]_(Choice!vars)
    OBVIOUS
  <2>1. Inductive'
    BY NextInductive DEF ViewInv
  <2>2. ViewStep
    BY NextView
  <2> QED BY <2>1, <2>2 DEF ViewInv, ViewStep
<1> QED BY <1>1, <1>2, PTL DEF Spec, ImplementsForkChoice, Choice!Spec
=============================================================================
