---------------------------- MODULE SqlLedgerProofs ----------------------------
(***************************************************************************)
(* Theorems about the hosted ledger (SqlLedger), for any transactions,     *)
(* submissions and miners.  Version 2 is deployed with miners that take    *)
(* their templates as they are, the two later versions with any.           *)
(***************************************************************************)
EXTENDS SqlLedger, SumsProofs

(* The tables after each transaction of a block.                            *)
Steps(b) == CHOOSE f : f = [i \in 0..Len(b.txids) |-> IF i = 0 THEN Tables ELSE Confirm(f[i - 1], b.txids[i])]

(* The function After is defined by exists; what it is at each position.    *)
LEMMA StepsEquation ==
  ASSUME NEW b, Len(b.txids) \in Nat
  PROVE  /\ Steps(b)[0] = Tables
         /\ \A i \in 1..Len(b.txids) : Steps(b)[i] = Confirm(Steps(b)[i - 1], b.txids[i])
         /\ After(b) = Steps(b)[Len(b.txids)]
<1> DEFINE Base == Tables
           Further(d, i) == Confirm(d, b.txids[i])
           F == Steps(b)
<1>1. \E f : f = [i \in 0..Len(b.txids) |-> IF i = 0 THEN Base ELSE Further(f[i - 1], i)]
  <2> HIDE DEF Base, Further
  <2> DEFINE N == {n \in Nat : \E f : f = [i \in 0..n |-> IF i = 0 THEN Base ELSE Further(f[i - 1], i)]}
  <2>1. 0 \in N
    <3> DEFINE g == [i \in 0..0 |-> Base]
    <3>1. g = [i \in 0..0 |-> IF i = 0 THEN Base ELSE Further(g[i - 1], i)]
      OBVIOUS
    <3> QED BY <3>1
  <2>2. ASSUME NEW n \in N PROVE n + 1 \in N
    <3>1. PICK f : f = [i \in 0..n |-> IF i = 0 THEN Base ELSE Further(f[i - 1], i)]
      OBVIOUS
    <3> DEFINE g == [i \in 0..(n + 1) |-> IF i <= n THEN f[i] ELSE Further(f[n], n + 1)]
    <3>2. /\ n \in Nat /\ n + 1 \in Nat /\ g[n + 1] = Further(f[n], n + 1)
          /\ \A i \in 0..n : g[i] = f[i]
      OBVIOUS
    <3>3. g = [i \in 0..(n + 1) |-> g[i]]
      OBVIOUS
    <3> HIDE DEF g
    <3>4. ASSUME NEW i \in 0..(n + 1) PROVE g[i] = IF i = 0 THEN Base ELSE Further(g[i - 1], i)
      <4>1. CASE i <= n
        <5>1. i \in 0..n /\ g[i] = f[i] /\ (i # 0 => g[i - 1] = f[i - 1])
          BY <3>2, <4>1
        <5>2. f[i] = IF i = 0 THEN Base ELSE Further(f[i - 1], i)
          BY <3>1, <5>1, Zenon
        <5> QED BY <5>1, <5>2
      <4>2. CASE i = n + 1
        <5>1. i # 0 /\ i - 1 = n /\ g[i - 1] = f[n]
          BY <3>2, <4>2
        <5> QED BY <3>2, <4>2, <5>1
      <4> QED BY <3>2, <4>1, <4>2
    <3>5. g = [i \in 0..(n + 1) |-> IF i = 0 THEN Base ELSE Further(g[i - 1], i)]
      BY <3>3, <3>4, Zenon
    <3>6. \E h : h = [i \in 0..(n + 1) |-> IF i = 0 THEN Base ELSE Further(h[i - 1], i)]
      BY <3>5, Zenon
    <3> QED BY <3>2, <3>6, Zenon
  <2>3. N = Nat
    BY <2>1, <2>2, SetInduction
  <2>4. Len(b.txids) \in N
    BY <2>3
  <2> QED BY <2>4, Zenon
<1>2. F = [i \in 0..Len(b.txids) |-> IF i = 0 THEN Base ELSE Further(F[i - 1], i)]
  BY <1>1, Zenon DEF Steps
<1>3. After(b) = F[Len(b.txids)]
  BY <1>1, Zenon DEF After, Steps
<1>4. 0 \in 0..Len(b.txids) /\ \A i \in 1..Len(b.txids) : i \in 0..Len(b.txids) /\ i # 0
  OBVIOUS
<1> HIDE DEF F
<1>5. F[0] = Base /\ \A i \in 1..Len(b.txids) : F[i] = Further(F[i - 1], i)
  BY <1>2, <1>4, Zenon
<1> QED BY <1>3, <1>5, Zenon DEF F

(* What a template has taken up to each position of the mempool.            *)
Room(l) == Len(l) < MaxTxs
TakeOne(l, t) == IF status[t] = "pending" /\ Room(l) THEN Append(l, t) ELSE l
Takes ==
  CHOOSE f : f = [i \in 0..Len(mempool) |->
    IF i = 0 THEN <<>>
    ELSE IF status[mempool[i]] = "pending" /\ Len(f[i - 1]) < MaxTxs THEN Append(f[i - 1], mempool[i])
    ELSE f[i - 1]]

(* So does the function Pending is defined by.                              *)
LEMMA TakesEquation ==
  ASSUME Len(mempool) \in Nat
  PROVE  /\ Takes[0] = <<>>
         /\ \A i \in 1..Len(mempool) : Takes[i] = TakeOne(Takes[i - 1], mempool[i])
         /\ Pending = Takes[Len(mempool)]
<1> DEFINE Base == <<>>
           Further(l, i) == IF status[mempool[i]] = "pending" /\ Len(l) < MaxTxs THEN Append(l, mempool[i]) ELSE l
           F == Takes
<1>1. \E f : f = [i \in 0..Len(mempool) |-> IF i = 0 THEN Base ELSE Further(f[i - 1], i)]
  <2> HIDE DEF Base, Further
  <2> DEFINE N == {n \in Nat : \E f : f = [i \in 0..n |-> IF i = 0 THEN Base ELSE Further(f[i - 1], i)]}
  <2>1. 0 \in N
    <3> DEFINE g == [i \in 0..0 |-> Base]
    <3>1. g = [i \in 0..0 |-> IF i = 0 THEN Base ELSE Further(g[i - 1], i)]
      OBVIOUS
    <3> QED BY <3>1
  <2>2. ASSUME NEW n \in N PROVE n + 1 \in N
    <3>1. PICK f : f = [i \in 0..n |-> IF i = 0 THEN Base ELSE Further(f[i - 1], i)]
      OBVIOUS
    <3> DEFINE g == [i \in 0..(n + 1) |-> IF i <= n THEN f[i] ELSE Further(f[n], n + 1)]
    <3>2. /\ n \in Nat /\ n + 1 \in Nat /\ g[n + 1] = Further(f[n], n + 1)
          /\ \A i \in 0..n : g[i] = f[i]
      OBVIOUS
    <3>3. g = [i \in 0..(n + 1) |-> g[i]]
      OBVIOUS
    <3> HIDE DEF g
    <3>4. ASSUME NEW i \in 0..(n + 1) PROVE g[i] = IF i = 0 THEN Base ELSE Further(g[i - 1], i)
      <4>1. CASE i <= n
        <5>1. i \in 0..n /\ g[i] = f[i] /\ (i # 0 => g[i - 1] = f[i - 1])
          BY <3>2, <4>1
        <5>2. f[i] = IF i = 0 THEN Base ELSE Further(f[i - 1], i)
          BY <3>1, <5>1, Zenon
        <5> QED BY <5>1, <5>2
      <4>2. CASE i = n + 1
        <5>1. i # 0 /\ i - 1 = n /\ g[i - 1] = f[n]
          BY <3>2, <4>2
        <5> QED BY <3>2, <4>2, <5>1
      <4> QED BY <3>2, <4>1, <4>2
    <3>5. g = [i \in 0..(n + 1) |-> IF i = 0 THEN Base ELSE Further(g[i - 1], i)]
      BY <3>3, <3>4, Zenon
    <3>6. \E h : h = [i \in 0..(n + 1) |-> IF i = 0 THEN Base ELSE Further(h[i - 1], i)]
      BY <3>5, Zenon
    <3> QED BY <3>2, <3>6, Zenon
  <2>3. N = Nat
    BY <2>1, <2>2, SetInduction
  <2>4. Len(mempool) \in N
    BY <2>3
  <2> QED BY <2>4, Zenon
<1>2. F = [i \in 0..Len(mempool) |-> IF i = 0 THEN Base ELSE Further(F[i - 1], i)]
  BY <1>1, Zenon DEF Takes
<1>3. Pending = F[Len(mempool)]
  BY <1>1, Zenon DEF Pending, Takes
<1>4. 0 \in 0..Len(mempool) /\ \A i \in 1..Len(mempool) : i \in 0..Len(mempool) /\ i # 0
  OBVIOUS
<1> HIDE DEF F
<1>5. F[0] = Base /\ \A i \in 1..Len(mempool) : F[i] = Further(F[i - 1], i)
  BY <1>2, <1>4, Zenon
<1> QED BY <1>3, <1>5, Zenon DEF F, TakeOne, Room
-----------------------------------------------------------------------------
(* Shapes: the tables as one record.                                        *)
Statuses == {"absent", "pending", "confirmed"}
Fields == {"utxos", "status", "spends", "outs", "left"}

(* What a transaction is.                                                   *)
LEMMA TxFacts ==
  ASSUME SqlAssumption, NEW t \in Txs
  PROVE  /\ Amount[t] \in Nat \ {0} /\ Inputs[t] \in Seq(Outpoints) /\ Len(Inputs[t]) \in Nat \ {0}
         /\ DOMAIN Inputs[t] = 1..Len(Inputs[t])
         /\ \A j \in 1..Len(Inputs[t]) : Inputs[t][j] \in Outpoints
         /\ \A j, k \in 1..Len(Inputs[t]) : Inputs[t][j] = Inputs[t][k] => j = k
         /\ InputSet(t) \subseteq Outpoints
<1>1. /\ Amount[t] \in Nat \ {0} /\ Inputs[t] \in Seq(Outpoints) /\ Inputs[t] # <<>>
      /\ \A j, k \in DOMAIN Inputs[t] : Inputs[t][j] = Inputs[t][k] => j = k
  BY DEF SqlAssumption
<1>2. /\ Len(Inputs[t]) \in Nat /\ DOMAIN Inputs[t] = 1..Len(Inputs[t])
      /\ \A j \in 1..Len(Inputs[t]) : Inputs[t][j] \in Outpoints
  BY <1>1
<1>3. Len(Inputs[t]) # 0
  BY <1>1
<1>4. InputSet(t) \subseteq Outpoints
  BY <1>2 DEF InputSet
<1> QED BY <1>1, <1>2, <1>3, <1>4

(* Outpoints of transactions and of coinbases differ.                       *)
LEMMA OutpointsApart ==
  ASSUME NEW t, NEW u, NEW h, NEW k
  PROVE  /\ Out(t) # Coinbase(h) /\ Out(t)[1] = "tx" /\ Out(t)[2] = t /\ Coinbase(h)[1] = "cb"
         /\ (Out(t) = Out(u) => t = u) /\ (Coinbase(h) = Coinbase(k) => h = k)
         /\ (t \in Txs => Out(t) \in Outpoints) /\ (h \in Nat \ {0} => Coinbase(h) \in Outpoints)
BY DEF Out, Coinbase, Outpoints

(* and there are no others.                                                 *)
LEMMA OutpointKinds ==
  ASSUME NEW o \in Outpoints
  PROVE  (\E t \in Txs : o = Out(t)) \/ (\E h \in Nat \ {0} : o = Coinbase(h))
BY DEF Out, Coinbase, Outpoints

(* What the inputs of a transaction leave of the tables.                    *)
LEMMA SpendInputsFacts ==
  ASSUME NEW d, DOMAIN d = Fields, NEW t, DOMAIN Inputs[t] = 1..Len(Inputs[t]), Len(Inputs[t]) \in Nat,
         NEW s, s = SpendInputs(d, t)
  PROVE  /\ DOMAIN s = Fields /\ s.status = d.status /\ s.spends = d.spends /\ s.outs = d.outs
         /\ DOMAIN s.utxos = DOMAIN d.utxos
         /\ \A o \in DOMAIN d.utxos : s.utxos[o].amount = d.utxos[o].amount /\ s.utxos[o].spent \in BOOLEAN
         /\ s.left \in BOOLEAN
         /\ (~s.left <=> \A o \in InputSet(t) : Usable(d, t, o))
         /\ ~s.left => Unspent(s.utxos) = Unspent(d.utxos) \ InputSet(t)
<1> DEFINE reached == {j \in DOMAIN Inputs[t] : \A k \in 1..j : Usable(d, t, Inputs[t][k])}
           gone == {Inputs[t][j] : j \in reached}
           table == [o \in DOMAIN d.utxos |-> [amount |-> d.utxos[o].amount, spent |-> d.utxos[o].spent \/ o \in gone]]
<1>1. s = [d EXCEPT !.utxos = table, !.left = reached # DOMAIN Inputs[t]]
  BY DEF SpendInputs
<1>2. (reached = DOMAIN Inputs[t]) <=> (\A o \in InputSet(t) : Usable(d, t, o))
  <2>1. ASSUME reached = DOMAIN Inputs[t], NEW o \in InputSet(t) PROVE Usable(d, t, o)
    <3>1. PICK j \in DOMAIN Inputs[t] : o = Inputs[t][j]
      BY <2>1 DEF InputSet
    <3>2. j \in reached /\ j \in 1..j
      BY <2>1, <3>1
    <3>3. Usable(d, t, Inputs[t][j])
      BY <3>2
    <3> QED BY <3>1, <3>3
  <2>2. ASSUME \A o \in InputSet(t) : Usable(d, t, o) PROVE reached = DOMAIN Inputs[t]
    <3>1. ASSUME NEW j \in DOMAIN Inputs[t], NEW k \in 1..j PROVE Usable(d, t, Inputs[t][k])
      <4>1. k \in DOMAIN Inputs[t]
        BY <3>1
      <4>2. Inputs[t][k] \in InputSet(t)
        BY <4>1 DEF InputSet
      <4> QED BY <2>2, <4>2
    <3> QED BY <3>1
  <2> QED BY <2>1, <2>2
<1>3. gone = InputSet(t) \/ reached # DOMAIN Inputs[t]
  BY DEF InputSet
<1>4. /\ DOMAIN table = DOMAIN d.utxos
      /\ \A o \in DOMAIN d.utxos : table[o].amount = d.utxos[o].amount
  OBVIOUS
<1>5. \A o \in DOMAIN d.utxos : table[o].spent = (d.utxos[o].spent \/ o \in gone)
  BY Zenon
<1>6. \A o \in DOMAIN d.utxos : table[o].spent \in BOOLEAN
  BY <1>5, Zenon
<1>7. Unspent(table) = Unspent(d.utxos) \ gone
  BY <1>4, <1>5, Zenon DEF Unspent
<1>8. (reached # DOMAIN Inputs[t]) \in BOOLEAN
  BY Zenon
<1> HIDE DEF reached, gone, table
<1>9. /\ DOMAIN s = Fields /\ s.status = d.status /\ s.spends = d.spends /\ s.outs = d.outs
      /\ s.utxos = table
  BY <1>1 DEF Fields
<1>10. s.left = (reached # DOMAIN Inputs[t])
  BY <1>1, Zenon DEF Fields
<1> QED BY <1>2, <1>3, <1>4, <1>6, <1>7, <1>8, <1>9, <1>10, Zenon

(* c is d after the transaction t.                                          *)
Confirmed(d, t, c) ==
  /\ c.status = [d.status EXCEPT ![t] = "confirmed"]
  /\ c.spends = {r \in d.spends : r[2] # t} /\ c.outs = d.outs \ {Out(t)}
  /\ DOMAIN c.utxos = DOMAIN d.utxos \cup {Out(t)}
  /\ Unspent(c.utxos) = (Unspent(d.utxos) \ InputSet(t)) \cup {Out(t)}
  /\ c.utxos[Out(t)].amount = Amount[t]
  /\ \A o \in DOMAIN d.utxos : o # Out(t) => c.utxos[o].amount = d.utxos[o].amount
  /\ \A o \in DOMAIN c.utxos : c.utxos[o].spent \in BOOLEAN

(* A row that is created is unspent; the others stay.                       *)
Grown(table, o, v, after) ==
  /\ DOMAIN after = DOMAIN table \cup {o} /\ after[o].amount = v
  /\ \A x \in DOMAIN table : x # o => after[x] = table[x]
  /\ Unspent(after) = Unspent(table) \cup {o}
  /\ (\A x \in DOMAIN table : table[x].spent \in BOOLEAN) => (\A x \in DOMAIN after : after[x].spent \in BOOLEAN)
(* A row that is created does not disturb the others.                       *)
LEMMA CreatedFacts ==
  ASSUME NEW table, NEW o, NEW v
  PROVE  Grown(table, o, v, Created(table, o, v))
<1> DEFINE after == Created(table, o, v)
<1>1. DOMAIN after = DOMAIN table \cup {o}
  BY DEF Created
<1>2. after[o] = [amount |-> v, spent |-> FALSE]
  BY Zenon DEF Created
<1>3. \A x \in DOMAIN table : x # o => after[x] = table[x]
  BY Zenon DEF Created
<1>4. after[o].spent = FALSE /\ after[o].amount = v
  BY <1>2
<1>5. Unspent(after) = Unspent(table) \cup {o}
  BY <1>1, <1>3, <1>4, Zenon DEF Unspent
<1>6. \A x \in DOMAIN after : x = o \/ x \in DOMAIN table
  BY <1>1, Zenon
<1> HIDE DEF after
<1>7. (\A x \in DOMAIN table : table[x].spent \in BOOLEAN) => (\A x \in DOMAIN after : after[x].spent \in BOOLEAN)
  BY <1>3, <1>4, <1>6, Zenon
<1>8. Grown(table, o, v, after)
  BY <1>1, <1>3, <1>4, <1>5, <1>7, Zenon DEF Grown
<1> QED BY <1>8 DEF after

(* When a transaction is confirmed, and what that does.                     *)
LEMMA ConfirmFacts ==
  ASSUME SqlAssumption, NEW d, DOMAIN d = Fields, d.left \in BOOLEAN, NEW t \in Txs, NEW c, c = Confirm(d, t)
  PROVE  /\ DOMAIN c = Fields /\ c.left \in BOOLEAN
         /\ (~c.left <=> ~d.left /\ d.status[t] = "pending" /\ \A o \in InputSet(t) : Usable(d, t, o))
         /\ ~c.left => Confirmed(d, t, c)
<1> DEFINE s == SpendInputs(d, t)
<1>1. DOMAIN Inputs[t] = 1..Len(Inputs[t]) /\ Len(Inputs[t]) \in Nat
  BY TxFacts
<1> HIDE DEF s
<1>2. /\ DOMAIN s = Fields /\ s.status = d.status /\ s.spends = d.spends /\ s.outs = d.outs
      /\ DOMAIN s.utxos = DOMAIN d.utxos
      /\ \A o \in DOMAIN d.utxos : s.utxos[o].amount = d.utxos[o].amount /\ s.utxos[o].spent \in BOOLEAN
      /\ s.left \in BOOLEAN
      /\ (~s.left <=> \A o \in InputSet(t) : Usable(d, t, o))
      /\ (~s.left => Unspent(s.utxos) = Unspent(d.utxos) \ InputSet(t))
  BY <1>1, SpendInputsFacts, Zenon DEF s
<1>3. CASE d.left \/ d.status[t] # "pending"
  <2>1. c = [d EXCEPT !.left = TRUE]
    BY <1>3, Zenon DEF Confirm
  <2>2. DOMAIN c = Fields /\ c.left = TRUE
    BY <2>1 DEF Fields
  <2> QED BY <1>3, <2>2, Zenon
<1>4. CASE ~(d.left \/ d.status[t] # "pending") /\ s.left
  <2>1. c = s
    BY <1>4, Zenon DEF Confirm, s
  <2> QED BY <1>2, <1>4, <2>1, Zenon
<1>5. CASE ~(d.left \/ d.status[t] # "pending") /\ ~s.left
  <2>1. c = Materialize(s, t)
    BY <1>5, Zenon DEF Confirm, s
  <2> DEFINE table == Created(s.utxos, Out(t), Amount[t])
             confirmed == [s.status EXCEPT ![t] = "confirmed"]
  <2>2. c = [s EXCEPT !.outs = @ \ {Out(t)}, !.utxos = table, !.status[t] = "confirmed", !.spends = {r \in @ : r[2] # t}]
    BY <2>1 DEF Materialize
  <2> HIDE DEF table
  <2>3. DOMAIN c = Fields /\ c.left = s.left /\ c.outs = s.outs \ {Out(t)} /\ c.utxos = table
        /\ c.status = confirmed /\ c.spends = {r \in s.spends : r[2] # t}
    BY <1>2, <2>2 DEF Fields
  <2>4. Grown(s.utxos, Out(t), Amount[t], table)
    BY CreatedFacts DEF table
  <2>5. \A x \in DOMAIN table : table[x].spent \in BOOLEAN
    BY <1>2, <2>4, Zenon DEF Grown
  <2>6. Confirmed(d, t, c)
    BY <1>2, <1>5, <2>3, <2>4, <2>5, Zenon DEF Confirmed, Grown
  <2> QED BY <1>2, <1>5, <2>3, <2>6, Zenon
<1> QED BY <1>3, <1>4, <1>5
-----------------------------------------------------------------------------
(* What holds of the tables between the transactions of a block.            *)
RowsSound(d) ==
  /\ DOMAIN d.utxos \subseteq Outpoints /\ IsFiniteSet(DOMAIN d.utxos)
  /\ \A o \in DOMAIN d.utxos : d.utxos[o].amount \in Nat /\ d.utxos[o].spent \in BOOLEAN
  /\ \A t \in Txs : Out(t) \in DOMAIN d.utxos <=> d.status[t] = "confirmed"
  /\ \A t \in Txs : Out(t) \in DOMAIN d.utxos => d.utxos[Out(t)].amount = Amount[t]
Waits(d, t) == d.status[t] = "pending"
Settled(d) == {t \in Txs : d.status[t] = "confirmed"}
PoolSound(d) ==
  /\ \A r \in d.spends : \E t \in Txs : \E o \in InputSet(t) : Waits(d, t) /\ r = <<o, t>>
  /\ \A t \in Txs : Waits(d, t) => \A o \in InputSet(t) : <<o, t>> \in d.spends
  /\ \A t, u \in Txs : Waits(d, t) /\ Waits(d, u) /\ t # u => InputSet(t) \cap InputSet(u) = {}
  /\ \A x \in d.outs : \E t \in Txs : Waits(d, t) /\ x = Out(t)
  /\ \A t \in Txs : Waits(d, t) => Out(t) \in d.outs
  /\ \A t \in Txs : Waits(d, t) => InputSet(t) \subseteq Unspent(d.utxos) \cup d.outs
Sound(d) ==
  /\ DOMAIN d = Fields
  /\ d.status \in [Txs -> Statuses] /\ IsFiniteSet(Settled(d))
  /\ RowsSound(d)
  /\ PoolSound(d)

(* A transaction that is confirmed leaves sound rows.                       *)
LEMMA ConfirmedRows ==
  ASSUME SqlAssumption, NEW d, Sound(d), NEW t \in Txs, Waits(d, t), NEW c, Confirmed(d, t, c)
  PROVE  RowsSound(c)
<1>1. /\ d.status \in [Txs -> Statuses] /\ RowsSound(d)
  BY DEF Sound
<1>2. c.status = [d.status EXCEPT ![t] = "confirmed"]
  BY DEF Confirmed
<1>3. c.status[t] = "confirmed" /\ \A u \in Txs : u # t => c.status[u] = d.status[u]
  BY <1>1, <1>2
<1>4. DOMAIN c.utxos = DOMAIN d.utxos \cup {Out(t)}
  BY DEF Confirmed
<1>5. DOMAIN c.utxos \subseteq Outpoints
  BY <1>1, <1>4, OutpointsApart DEF RowsSound
<1>6. IsFiniteSet(DOMAIN c.utxos)
  BY <1>1, <1>4, FS_AddElement DEF RowsSound
<1>7. Amount[t] \in Nat
  BY TxFacts
<1>8. ASSUME NEW o \in DOMAIN c.utxos PROVE c.utxos[o].amount \in Nat
  <2>1. CASE o = Out(t)
    BY <1>7, <2>1 DEF Confirmed
  <2>2. CASE o # Out(t)
    BY <1>1, <1>4, <2>2 DEF Confirmed, RowsSound
  <2> QED BY <2>1, <2>2
<1>9. \A o \in DOMAIN c.utxos : c.utxos[o].spent \in BOOLEAN
  BY Zenon DEF Confirmed
<1>10. ASSUME NEW u \in Txs
       PROVE  /\ Out(u) \in DOMAIN c.utxos <=> c.status[u] = "confirmed"
              /\ Out(u) \in DOMAIN c.utxos => c.utxos[Out(u)].amount = Amount[u]
  <2>1. CASE u = t
    BY <1>3, <1>4, <2>1 DEF Confirmed
  <2>2. CASE u # t
    <3>1. Out(u) # Out(t)
      BY <2>2, OutpointsApart
    <3> QED BY <1>1, <1>3, <1>4, <2>2, <3>1 DEF Confirmed, RowsSound
  <2> QED BY <2>1, <2>2
<1> QED BY <1>5, <1>6, <1>8, <1>9, <1>10, Zenon DEF RowsSound

(* So does the mempool,                                                     *)
LEMMA ConfirmedPool ==
  ASSUME SqlAssumption, NEW d, Sound(d), NEW t \in Txs, Waits(d, t), NEW c, Confirmed(d, t, c),
         \A o \in InputSet(t) : o \in Unspent(d.utxos)
  PROVE  PoolSound(c)
<1>1. d.status \in [Txs -> Statuses] /\ PoolSound(d) /\ d.status[t] = "pending"
  BY DEF Sound, Waits
<1>2. /\ c.status = [d.status EXCEPT ![t] = "confirmed"] /\ c.outs = d.outs \ {Out(t)}
      /\ c.spends = {r \in d.spends : r[2] # t}
      /\ Unspent(c.utxos) = (Unspent(d.utxos) \ InputSet(t)) \cup {Out(t)}
  BY DEF Confirmed
<1>3. \A u \in Txs : Waits(c, u) <=> Waits(d, u) /\ u # t
  BY <1>1, <1>2 DEF Waits
<1>4. ASSUME NEW r \in c.spends
      PROVE  \E u \in Txs : \E o \in InputSet(u) : Waits(c, u) /\ r = <<o, u>>
  <2>1. r \in d.spends /\ r[2] # t
    BY <1>2
  <2>2. PICK u \in Txs : \E o \in InputSet(u) : Waits(d, u) /\ r = <<o, u>>
    BY <1>1, <2>1 DEF PoolSound
  <2>3. PICK o \in InputSet(u) : Waits(d, u) /\ r = <<o, u>>
    BY <2>2
  <2>4. u # t
    BY <2>1, <2>3
  <2> QED BY <1>3, <2>3, <2>4
<1>5. ASSUME NEW u \in Txs, Waits(c, u), NEW o \in InputSet(u) PROVE <<o, u>> \in c.spends
  <2>1. Waits(d, u) /\ u # t
    BY <1>3, <1>5
  <2>2. <<o, u>> \in d.spends
    BY <1>1, <2>1 DEF PoolSound
  <2> QED BY <1>2, <2>1, <2>2
<1>6. ASSUME NEW u \in Txs, NEW v \in Txs, Waits(c, u), Waits(c, v), u # v PROVE InputSet(u) \cap InputSet(v) = {}
  BY <1>1, <1>3, <1>6 DEF PoolSound
<1>7. ASSUME NEW x \in c.outs PROVE \E u \in Txs : Waits(c, u) /\ x = Out(u)
  <2>1. x \in d.outs /\ x # Out(t)
    BY <1>2
  <2>2. PICK u \in Txs : Waits(d, u) /\ x = Out(u)
    BY <1>1, <2>1 DEF PoolSound
  <2> QED BY <1>3, <2>1, <2>2
<1>8. ASSUME NEW u \in Txs, Waits(c, u) PROVE Out(u) \in c.outs
  <2>1. Waits(d, u) /\ u # t
    BY <1>3, <1>8
  <2>2. Out(u) \in d.outs /\ Out(u) # Out(t)
    BY <1>1, <2>1, OutpointsApart DEF PoolSound
  <2> QED BY <1>2, <2>2
<1>9. ASSUME NEW u \in Txs, Waits(c, u), NEW o \in InputSet(u) PROVE o \in Unspent(c.utxos) \cup c.outs
  <2>1. Waits(d, u) /\ u # t /\ Waits(d, t)
    BY <1>3, <1>9
  <2>2. o \in Unspent(d.utxos) \cup d.outs /\ o \notin InputSet(t)
    BY <1>1, <2>1 DEF PoolSound
  <2> QED BY <1>2, <2>2
<1>10. /\ \A r \in c.spends : \E u \in Txs : \E o \in InputSet(u) : Waits(c, u) /\ r = <<o, u>>
       /\ \A u \in Txs : Waits(c, u) => \A o \in InputSet(u) : <<o, u>> \in c.spends
  BY <1>4, <1>5
<1>11. \A u, v \in Txs : Waits(c, u) /\ Waits(c, v) /\ u # v => InputSet(u) \cap InputSet(v) = {}
  BY <1>6
<1>12. \A u \in Txs : Waits(c, u) => InputSet(u) \subseteq Unspent(c.utxos) \cup c.outs
  BY <1>9
<1> QED BY <1>7, <1>8, <1>10, <1>11, <1>12, Zenon DEF PoolSound

(* and all of them.                                                         *)
LEMMA ConfirmedSound ==
  ASSUME SqlAssumption, NEW d, Sound(d), NEW t \in Txs, Waits(d, t), NEW c, DOMAIN c = Fields, Confirmed(d, t, c),
         \A o \in InputSet(t) : o \in Unspent(d.utxos)
  PROVE  Sound(c) /\ Settled(c) = Settled(d) \cup {t}
<1>1. d.status \in [Txs -> Statuses] /\ IsFiniteSet(Settled(d))
  BY DEF Sound
<1>2. c.status = [d.status EXCEPT ![t] = "confirmed"]
  BY DEF Confirmed
<1>3. c.status \in [Txs -> Statuses]
  BY <1>1, <1>2 DEF Statuses
<1>4. Settled(c) = Settled(d) \cup {t}
  BY <1>1, <1>2 DEF Settled
<1>5. IsFiniteSet(Settled(c))
  BY <1>1, <1>4, FS_AddElement
<1> QED BY <1>3, <1>4, <1>5, ConfirmedRows, ConfirmedPool DEF Sound
-----------------------------------------------------------------------------
(* The tables d after the first n transactions of the list l.               *)
Through(l, n, d) ==
  /\ Sound(d)
  /\ \A j \in 1..n : status[l[j]] = "pending" /\ d.status[l[j]] = "confirmed"
  /\ \A j, k \in 1..n : l[j] = l[k] => j = k
  /\ \A t \in Txs : (\A j \in 1..n : l[j] # t) => d.status[t] = status[t]
  /\ Settled(d) = Settled(Tables) \cup {l[j] : j \in 1..n}
  /\ DOMAIN d.utxos = DOMAIN utxos \cup {Out(l[j]) : j \in 1..n}
  /\ \A o \in DOMAIN utxos : d.utxos[o].amount = utxos[o].amount
  /\ \A o \in Unspent(utxos) : (\A j \in 1..n : o \notin InputSet(l[j])) => o \in Unspent(d.utxos)

(* Before the first.                                                        *)
LEMMA ThroughNone ==
  ASSUME Sound(Tables), NEW l
  PROVE  Through(l, 0, Tables) /\ Tables.left = FALSE
<1>1. Tables.status = status /\ Tables.utxos = utxos /\ Tables.left = FALSE
  BY DEF Tables
<1>2. 1..0 = {}
  OBVIOUS
<1> QED BY <1>1, <1>2 DEF Through

(* One transaction more.                                                    *)
LEMMA ThroughOneMore ==
  ASSUME SqlAssumption, Sound(Tables), NEW l \in Seq(Txs), NEW n \in Nat, n + 1 <= Len(l),
         NEW d, Through(l, n, d), Waits(d, l[n + 1]), NEW c, DOMAIN c = Fields, Confirmed(d, l[n + 1], c),
         \A o \in InputSet(l[n + 1]) : o \in Unspent(d.utxos)
  PROVE  Through(l, n + 1, c)
<1> DEFINE t == l[n + 1]
<1>1. t \in Txs /\ \A j \in 1..(n + 1) : l[j] \in Txs
  OBVIOUS
<1>2. Sound(d) /\ Waits(d, t) /\ Confirmed(d, t, c) /\ \A o \in InputSet(t) : o \in Unspent(d.utxos)
  BY DEF Through
<1>3. 1..(n + 1) = 1..n \cup {n + 1} /\ n + 1 \notin 1..n
  OBVIOUS
<1> HIDE DEF t
<1>4. Sound(c) /\ Settled(c) = Settled(d) \cup {t}
  BY <1>1, <1>2, ConfirmedSound
<1>5. d.status \in [Txs -> Statuses] /\ c.status = [d.status EXCEPT ![t] = "confirmed"] /\ d.status[t] = "pending"
  BY <1>2 DEF Sound, Confirmed, Waits
<1>6. c.status[t] = "confirmed" /\ \A u \in Txs : u # t => c.status[u] = d.status[u]
  BY <1>1, <1>5
<1>7. \A j \in 1..n : l[j] # t
  BY <1>5 DEF Through
<1>8. status[t] = "pending"
  BY <1>1, <1>5, <1>7 DEF Through
<1>9. \A j \in 1..(n + 1) : status[l[j]] = "pending" /\ c.status[l[j]] = "confirmed"
  <2>1. ASSUME NEW j \in 1..n PROVE status[l[j]] = "pending" /\ c.status[l[j]] = "confirmed"
    BY <1>1, <1>3, <1>6, <1>7 DEF Through
  <2>2. status[l[n + 1]] = "pending" /\ c.status[l[n + 1]] = "confirmed"
    BY <1>6, <1>8 DEF t
  <2> QED BY <1>3, <2>1, <2>2, Zenon
<1>10. \A j, k \in 1..(n + 1) : l[j] = l[k] => j = k
  BY <1>3, <1>7 DEF Through, t
<1>11. ASSUME NEW u \in Txs, \A j \in 1..(n + 1) : l[j] # u PROVE c.status[u] = status[u]
  <2>1. u # t /\ \A j \in 1..n : l[j] # u
    BY <1>3, <1>11 DEF t
  <2> QED BY <1>6, <2>1 DEF Through
<1>12. Settled(c) = Settled(Tables) \cup {l[j] : j \in 1..(n + 1)}
  <2>1. {l[j] : j \in 1..(n + 1)} = {l[j] : j \in 1..n} \cup {t}
    BY <1>3 DEF t
  <2> QED BY <1>4, <2>1 DEF Through
<1>13. DOMAIN c.utxos = DOMAIN utxos \cup {Out(l[j]) : j \in 1..(n + 1)}
  <2>1. {Out(l[j]) : j \in 1..(n + 1)} = {Out(l[j]) : j \in 1..n} \cup {Out(t)}
    BY <1>3 DEF t
  <2>2. DOMAIN c.utxos = DOMAIN d.utxos \cup {Out(t)}
    BY <1>2 DEF Confirmed
  <2> QED BY <2>1, <2>2 DEF Through
<1>14. ASSUME NEW o \in DOMAIN utxos PROVE c.utxos[o].amount = utxos[o].amount
  <2>1. o # Out(t)
    <3>1. Tables.status = status /\ Tables.utxos = utxos
      BY DEF Tables
    <3> QED BY <1>1, <1>8, <3>1 DEF Sound, RowsSound
  <2>2. o \in DOMAIN d.utxos
    BY DEF Through
  <2> QED BY <1>2, <2>1, <2>2 DEF Confirmed, Through
<1>15. ASSUME NEW o \in Unspent(utxos), \A j \in 1..(n + 1) : o \notin InputSet(l[j]) PROVE o \in Unspent(c.utxos)
  <2>1. (\A j \in 1..n : o \notin InputSet(l[j])) /\ o \notin InputSet(t)
    BY <1>3, <1>15 DEF t
  <2>2. o \in Unspent(d.utxos)
    BY <2>1 DEF Through
  <2> QED BY <1>2, <2>1, <2>2 DEF Confirmed
<1> QED BY <1>4, <1>9, <1>10, <1>11, <1>12, <1>13, <1>14, <1>15, Zenon DEF Through

(* d becomes c when the block takes the transaction t.                      *)
Advances(d, t, c) == ~d.left /\ Waits(d, t) /\ Confirmed(d, t, c) /\ \A o \in InputSet(t) : o \in Unspent(d.utxos)

(* A block that is not left on the way has gone through all of them.        *)
LEMMA WentThrough ==
  ASSUME SqlAssumption, Sound(Tables), NEW b, b.txids \in Seq(Txs)
  PROVE  \A n \in 0..Len(b.txids) :
           /\ DOMAIN Steps(b)[n] = Fields /\ Steps(b)[n].left \in BOOLEAN
           /\ ~Steps(b)[n].left => Through(b.txids, n, Steps(b)[n])
           /\ n > 0 /\ ~Steps(b)[n].left => Advances(Steps(b)[n - 1], b.txids[n], Steps(b)[n])
<1> DEFINE l == b.txids
           F == Steps(b)
           Fine(n) == DOMAIN F[n] = Fields /\ F[n].left \in BOOLEAN /\ (~F[n].left => Through(l, n, F[n]))
           Passed(n) == Advances(F[n - 1], l[n], F[n])
           N == {n \in Nat : n <= Len(l) => Fine(n)}
<1>1. l \in Seq(Txs) /\ Len(l) \in Nat
  OBVIOUS
<1>2. F[0] = Tables /\ \A i \in 1..Len(l) : F[i] = Confirm(F[i - 1], l[i])
  BY <1>1, StepsEquation
<1> HIDE DEF F, l
<1>3. Fine(0)
  <2>1. DOMAIN Tables = Fields
    BY DEF Sound
  <2> QED BY <1>2, <2>1, ThroughNone
<1>4. ASSUME NEW n \in Nat, n + 1 <= Len(l), Fine(n)
      PROVE  Fine(n + 1) /\ (~F[n + 1].left => Passed(n + 1))
  <2> DEFINE d == F[n]
             t == l[n + 1]
             c == F[n + 1]
  <2>1. c = Confirm(d, t) /\ t \in Txs /\ DOMAIN d = Fields /\ d.left \in BOOLEAN
    <3>1. n + 1 \in 1..Len(l) /\ n + 1 - 1 = n
      BY <1>1, <1>4
    <3> QED BY <1>1, <1>2, <1>4, <3>1
  <2>2. ~d.left => Through(l, n, d)
    BY <1>4, Zenon
  <2> HIDE DEF c, d, t
  <2>3. /\ DOMAIN c = Fields /\ c.left \in BOOLEAN
        /\ (~c.left <=> ~d.left /\ d.status[t] = "pending" /\ \A o \in InputSet(t) : Usable(d, t, o))
        /\ (~c.left => Confirmed(d, t, c))
    BY <2>1, ConfirmFacts, Zenon
  <2>4. ASSUME ~c.left PROVE Through(l, n + 1, c) /\ Waits(d, t) /\ \A o \in InputSet(t) : o \in Unspent(d.utxos)
    <3>1. Waits(d, t) /\ \A o \in InputSet(t) : o \in Unspent(d.utxos)
      BY <2>3, <2>4, Zenon DEF Waits, Usable
    <3>2. Through(l, n, d) /\ Confirmed(d, t, c) /\ DOMAIN c = Fields
      BY <2>2, <2>3, <2>4, Zenon
    <3>3. Through(l, n + 1, c)
      BY <1>1, <1>4, <3>1, <3>2, ThroughOneMore DEF t
    <3> QED BY <3>1, <3>3
  <2>5. Fine(n + 1)
    BY <2>3, <2>4, Zenon DEF c
  <2>6. ~c.left => Advances(d, t, c)
    BY <2>3, <2>4, Zenon DEF Advances
  <2>7. n + 1 - 1 = n
    BY <1>4
  <2>8. ~F[n + 1].left => Passed(n + 1)
    <3>1. F[n + 1 - 1] = d
      BY <2>7 DEF d
    <3>2. ASSUME ~c.left PROVE Passed(n + 1)
      BY <2>6, <3>1, <3>2 DEF c, t
    <3> QED BY <3>2, Zenon DEF c
  <2> QED BY <2>5, <2>8
<1> HIDE DEF Fine, Passed
<1>5. N = Nat
  <2>1. 0 \in N
    BY <1>3
  <2>2. \A n \in N : n + 1 \in N
    BY <1>1, <1>4
  <2> QED BY <2>1, <2>2, SetInduction
<1>6. ASSUME NEW n \in 0..Len(l) PROVE Fine(n) /\ (n > 0 /\ ~F[n].left => Passed(n))
  <2>1. Fine(n)
    BY <1>1, <1>5
  <2>2. ASSUME n > 0, ~F[n].left PROVE Passed(n)
    <3>1. n - 1 \in Nat /\ n - 1 + 1 = n /\ n - 1 <= Len(l) /\ n - 1 + 1 <= Len(l)
      BY <1>1, <2>2
    <3>2. Fine(n - 1)
      BY <1>5, <3>1
    <3>3. ~F[n - 1 + 1].left => Passed(n - 1 + 1)
      BY <1>4, <3>1, <3>2
    <3> QED BY <2>2, <3>1, <3>3
  <2> QED BY <2>1, <2>2
<1> QED BY <1>6 DEF Fine, Passed, F, l
-----------------------------------------------------------------------------
(* Values and fees.                                                         *)
Worths == [o \in Outpoints |-> Value(o)]
AllFees == [t \in Txs |-> Fee(t)]

(* What an outpoint is worth.                                               *)
LEMMA ValueFacts ==
  ASSUME SqlAssumption, Sound(Tables)
  PROVE  /\ \A o \in Outpoints : Value(o) \in Nat /\ Worths[o] = Value(o)
         /\ \A t \in Txs : Value(Out(t)) = Amount[t]
         /\ \A o \in DOMAIN utxos : Value(o) = utxos[o].amount
<1>1. Tables.utxos = utxos
  BY DEF Tables
<1>2. RowsSound(Tables)
  BY DEF Sound
<1>3. ASSUME NEW t \in Txs PROVE Value(Out(t)) = Amount[t] /\ Amount[t] \in Nat
  <2>1. Out(t)[1] = "tx" /\ Out(t)[2] = t /\ Amount[t] \in Nat
    BY OutpointsApart, TxFacts
  <2>2. CASE Out(t) \in DOMAIN utxos
    BY <1>1, <1>2, <2>1, <2>2 DEF RowsSound, Value
  <2>3. CASE Out(t) \notin DOMAIN utxos
    BY <2>1, <2>3 DEF Value
  <2> QED BY <2>1, <2>2, <2>3
<1>4. \A o \in DOMAIN utxos : Value(o) = utxos[o].amount /\ utxos[o].amount \in Nat
  BY <1>1, <1>2 DEF RowsSound, Value
<1>5. ASSUME NEW o \in Outpoints PROVE Value(o) \in Nat
  <2>1. CASE \E t \in Txs : o = Out(t)
    BY <1>3, <2>1
  <2>2. CASE \E h \in Nat \ {0} : o = Coinbase(h)
    <3>1. CASE o \in DOMAIN utxos
      BY <1>4, <3>1
    <3>2. CASE o \notin DOMAIN utxos
      <4>1. o[1] # "tx"
        BY <2>2 DEF Coinbase
      <4> QED BY <3>2, <4>1 DEF Value
    <3> QED BY <3>1, <3>2
  <2> QED BY <2>1, <2>2, OutpointKinds
<1>6. \A o \in Outpoints : Worths[o] = Value(o)
  BY DEF Worths
<1> QED BY <1>3, <1>4, <1>5, <1>6

(* A fee is what the inputs have over the output.                           *)
LEMMA FeeFacts ==
  ASSUME SqlAssumption, Sound(Tables), NEW t \in Txs
  PROVE  /\ IsFiniteSet(InputSet(t)) /\ Fee(t) \in Int /\ AllFees[t] = Fee(t)
         /\ SumOver(Worths, InputSet(t)) = Fee(t) + Amount[t]
<1> DEFINE q == Inputs[t]
           r == [j \in DOMAIN Inputs[t] |-> Value(Inputs[t][j])]
<1>1. /\ Amount[t] \in Nat \ {0} /\ Len(q) \in Nat \ {0} /\ DOMAIN q = 1..Len(q)
      /\ \A j \in 1..Len(q) : q[j] \in Outpoints
      /\ \A j, k \in 1..Len(q) : q[j] = q[k] => j = k
  BY TxFacts
<1>2. \A o \in Outpoints : Value(o) \in Nat /\ Worths[o] = Value(o)
  BY ValueFacts
<1>3. DOMAIN r = 1..Len(q) /\ \A j \in 1..Len(q) : r[j] = Value(q[j])
  BY <1>1
<1>4. \A j \in 1..Len(q) : r[j] \in Nat /\ r[j] = Worths[q[j]]
  BY <1>1, <1>2, <1>3
<1>5. r = [j \in 1..Len(q) |-> r[j]]
  BY <1>1, Zenon
<1> HIDE DEF r
<1>6. r \in [1..Len(q) -> Nat]
  BY <1>4, <1>5
<1>7. r \in Seq(Nat) /\ Len(r) = Len(q)
  BY <1>1, <1>6
<1>8. Lists(q, InputSet(t), Worths, r)
  BY <1>1, <1>4, <1>7 DEF Lists, InputSet
<1>9. SumOver(Worths, InputSet(t)) = SumSeq(r) /\ IsFiniteSet(InputSet(t))
  BY <1>8, SumOverList
<1>10. SumSeq(r) \in Nat
  BY <1>7, SumSeqNat
<1>11. Fee(t) = SumSeq(r) - Amount[t]
  BY Zenon DEF Fee, r
<1>12. AllFees[t] = Fee(t)
  BY DEF AllFees
<1> QED BY <1>1, <1>9, <1>10, <1>11, <1>12

(* A transaction that is confirmed leaves its fee out of what is unspent.   *)
LEMMA OneFeeLess ==
  ASSUME SqlAssumption, Sound(Tables), NEW l \in Seq(Txs), NEW n \in Nat, n + 1 <= Len(l),
         NEW d, Through(l, n, d), Waits(d, l[n + 1]), NEW c, Confirmed(d, l[n + 1], c),
         \A o \in InputSet(l[n + 1]) : o \in Unspent(d.utxos)
  PROVE  /\ SumOver(Worths, Unspent(c.utxos)) \in Nat
         /\ SumOver(Worths, Unspent(c.utxos)) + Fee(l[n + 1]) = SumOver(Worths, Unspent(d.utxos))
<1> DEFINE t == l[n + 1]
           U == Unspent(d.utxos)
           I == InputSet(t)
           R == U \ I
           f == Worths
<1>1. t \in Txs
  OBVIOUS
<1> HIDE DEF t, f
<1>2. Sound(d) /\ Waits(d, t) /\ Confirmed(d, t, c) /\ \A o \in I : o \in U
  BY DEF Through, t
<1>3. /\ DOMAIN d.utxos \subseteq Outpoints /\ IsFiniteSet(DOMAIN d.utxos) /\ Out(t) \notin DOMAIN d.utxos
  BY <1>1, <1>2 DEF Sound, RowsSound, Waits
<1>4. U \subseteq DOMAIN d.utxos
  BY DEF Unspent
<1>5. IsFiniteSet(U) /\ IsFiniteSet(R) /\ IsFiniteSet(I)
  <2>1. R \subseteq DOMAIN d.utxos /\ I \subseteq DOMAIN d.utxos
    BY <1>2, <1>4
  <2> QED BY <1>3, <1>4, <2>1, FS_Subset
<1>6. \A o \in Outpoints : f[o] \in Nat /\ f[o] = Value(o)
  BY ValueFacts DEF f
<1>7. f[Out(t)] = Amount[t] /\ Amount[t] \in Nat
  <2>1. Out(t) \in Outpoints /\ Value(Out(t)) = Amount[t] /\ Amount[t] \in Nat
    BY <1>1, OutpointsApart, ValueFacts, TxFacts
  <2> QED BY <1>6, <2>1
<1>8. Out(t) \notin R /\ R \cup I = U /\ R \cap I = {}
  BY <1>2, <1>3, <1>4
<1>9. \A x \in U : f[x] \in Nat
  BY <1>3, <1>4, <1>6
<1>10. Unspent(c.utxos) = R \cup {Out(t)}
  BY <1>2 DEF Confirmed
<1> HIDE DEF U, I, R
<1>11. SumOver(f, U) = SumOver(f, R) + SumOver(f, I)
  <2>1. \A x \in R \cup I : f[x] \in Nat
    BY <1>8, <1>9
  <2> QED BY <1>5, <1>8, <2>1, SumOverUnion
<1>12. SumOver(f, R \cup {Out(t)}) = f[Out(t)] + SumOver(f, R) /\ SumOver(f, R) \in Nat
  <2>1. \A x \in R \cup {Out(t)} : f[x] \in Nat
    BY <1>7, <1>8, <1>9
  <2>2. \A x \in R : f[x] \in Nat
    BY <2>1
  <2> QED BY <1>5, <1>8, <2>1, <2>2, SumOverAdd, SumOverNat
<1>13. SumOver(f, I) = Fee(t) + Amount[t] /\ Fee(t) \in Int
  BY <1>1, FeeFacts DEF I, f
<1>14. SumOver(f, Unspent(c.utxos)) = Amount[t] + SumOver(f, R)
  BY <1>7, <1>10, <1>12
<1>15. SumOver(f, Unspent(c.utxos)) \in Nat /\ SumOver(f, Unspent(c.utxos)) + Fee(t) = SumOver(f, U)
  BY <1>7, <1>11, <1>12, <1>13, <1>14
<1> QED BY <1>15 DEF t, f, U

(* The fees of a list, one after the other.                                 *)
FeeList(l) == [j \in DOMAIN l |-> Fee(l[j])]

(* They are naturals, and what Fees adds up.                                *)
LEMMA FeeListFacts ==
  ASSUME SqlAssumption, Sound(Tables), NEW l \in Seq(Txs), \A j \in 1..Len(l) : Fee(l[j]) >= 0
  PROVE  /\ FeeList(l) \in Seq(Nat) /\ Len(FeeList(l)) = Len(l) /\ Fees(l) = SumSeq(FeeList(l))
         /\ \A j \in 1..Len(l) : FeeList(l)[j] = Fee(l[j])
<1> DEFINE r == FeeList(l)
<1>1. DOMAIN l = 1..Len(l) /\ Len(l) \in Nat /\ \A j \in 1..Len(l) : l[j] \in Txs
  OBVIOUS
<1>2. r = [j \in 1..Len(l) |-> Fee(l[j])]
  BY <1>1, Zenon DEF FeeList
<1>3. \A j \in 1..Len(l) : Fee(l[j]) \in Nat
  BY <1>1, FeeFacts
<1>4. \A j \in 1..Len(l) : r[j] = Fee(l[j])
  BY <1>2
<1>5. r = [j \in 1..Len(l) |-> r[j]]
  BY <1>2, Zenon
<1>6. Fees(l) = SumSeq(r)
  BY DEF Fees, FeeList
<1> HIDE DEF r
<1>7. r \in [1..Len(l) -> Nat]
  BY <1>3, <1>4, <1>5
<1>8. r \in Seq(Nat) /\ Len(r) = Len(l)
  BY <1>1, <1>7
<1> QED BY <1>4, <1>6, <1>8, Zenon DEF r

(* A block that goes through leaves the fees out of what is unspent,        *)
LEMMA BlockValue ==
  ASSUME SqlAssumption, Sound(Tables), NEW b, b.txids \in Seq(Txs), ~After(b).left,
         \A j \in 1..Len(b.txids) : Fee(b.txids[j]) >= 0
  PROVE  /\ SumOver(Worths, Unspent(After(b).utxos)) \in Nat /\ Fees(b.txids) \in Nat
         /\ SumOver(Worths, Unspent(After(b).utxos)) + Fees(b.txids) = SumOver(Worths, Unspent(utxos))
<1> DEFINE l == b.txids
           F == Steps(b)
           p == PartialSums(FeeList(l))
           W(n) == SumOver(Worths, Unspent(F[n].utxos))
           Left(n) == W(n) \in Nat /\ p[n] \in Nat /\ W(n) + p[n] = SumOver(Worths, Unspent(utxos))
           N == {n \in Nat : n <= Len(l) /\ ~F[n].left => Left(n)}
<1>1. l \in Seq(Txs) /\ Len(l) \in Nat
  OBVIOUS
<1>2. F[0] = Tables /\ After(b) = F[Len(l)]
  BY <1>1, StepsEquation
<1>3. \A n \in 0..Len(l) :
        /\ DOMAIN F[n] = Fields /\ F[n].left \in BOOLEAN
        /\ ~F[n].left => Through(l, n, F[n])
        /\ n > 0 /\ ~F[n].left => Advances(F[n - 1], l[n], F[n])
  BY WentThrough, Zenon
<1>4. /\ FeeList(l) \in Seq(Nat) /\ Len(FeeList(l)) = Len(l) /\ Fees(l) = SumSeq(FeeList(l))
      /\ \A j \in 1..Len(l) : FeeList(l)[j] = Fee(l[j])
  BY FeeListFacts
<1>5. /\ p[0] = 0 /\ \A n \in 1..Len(l) : p[n] = p[n - 1] + Fee(l[n])
      /\ Fees(l) = p[Len(l)]
  <2>1. /\ p = [i \in 0..Len(FeeList(l)) |-> IF i = 0 THEN 0 ELSE p[i - 1] + FeeList(l)[i]]
        /\ SumSeq(FeeList(l)) = p[Len(FeeList(l))]
    BY <1>1, <1>4, PartialSumsEquation
  <2> HIDE DEF p
  <2>2. 0 \in 0..Len(l) /\ \A n \in 1..Len(l) : n \in 0..Len(l) /\ n # 0
    BY <1>1
  <2>3. p[0] = 0 /\ \A n \in 1..Len(l) : p[n] = p[n - 1] + FeeList(l)[n]
    BY <1>4, <2>1, <2>2, Zenon
  <2> QED BY <1>4, <2>1, <2>3
<1>6. \A n \in 0..Len(l) : p[n] \in Nat
  BY <1>4, PartialSumsNat
<1> HIDE DEF F, l, p
<1>7. 0 \in N
  <2>1. F[0].utxos = utxos
    BY <1>2 DEF Tables
  <2>2. SumOver(Worths, Unspent(utxos)) \in Nat
    <3>1. DOMAIN utxos \subseteq Outpoints /\ IsFiniteSet(DOMAIN utxos)
      BY DEF Sound, RowsSound, Tables
    <3>2. Unspent(utxos) \subseteq DOMAIN utxos
      BY DEF Unspent
    <3>3. \A o \in Unspent(utxos) : Worths[o] \in Nat
      BY <3>1, <3>2, ValueFacts
    <3> QED BY <3>1, <3>2, <3>3, FS_Subset, SumOverNat
  <2>3. W(0) \in Nat /\ W(0) + 0 = SumOver(Worths, Unspent(utxos))
    BY <2>1, <2>2
  <2> QED BY <1>5, <2>3
<1>8. ASSUME NEW n \in N PROVE n + 1 \in N
  <2> SUFFICES ASSUME n + 1 <= Len(l), ~F[n + 1].left PROVE Left(n + 1)
    BY <1>8
  <2>1. n \in Nat /\ n \in 0..Len(l) /\ n + 1 \in 0..Len(l) /\ n + 1 \in 1..Len(l) /\ n + 1 - 1 = n /\ n + 1 > 0
    BY <1>1, <1>8
  <2>2. F[n + 1 - 1] = F[n]
    BY <2>1
  <2>a. Advances(F[n], l[n + 1], F[n + 1])
    BY <1>3, <2>1, <2>2
  <2>3. /\ ~F[n].left /\ Waits(F[n], l[n + 1]) /\ Confirmed(F[n], l[n + 1], F[n + 1])
        /\ \A o \in InputSet(l[n + 1]) : o \in Unspent(F[n].utxos)
    BY <2>a, Zenon DEF Advances
  <2>4. Through(l, n, F[n])
    BY <1>3, <2>1, <2>3
  <2>5. W(n + 1) \in Nat /\ W(n + 1) + Fee(l[n + 1]) = W(n)
    BY <1>1, <2>1, <2>3, <2>4, OneFeeLess
  <2>6. Left(n)
    BY <1>8, <2>1, <2>3
  <2>7. p[n + 1] = p[n] + Fee(l[n + 1]) /\ p[n + 1] \in Nat
    BY <1>5, <1>6, <2>1
  <2>8. Fee(l[n + 1]) \in Int
    <3>1. l[n + 1] \in Txs
      BY <1>1, <2>1
    <3> QED BY <3>1, FeeFacts
  <2> HIDE DEF W
  <2> QED BY <2>5, <2>6, <2>7, <2>8
<1>9. N = Nat
  BY <1>7, <1>8, SetInduction
<1>10. Left(Len(l))
  BY <1>1, <1>2, <1>9
<1> QED BY <1>2, <1>5, <1>10 DEF l

(* and adds them to what is settled.                                        *)
LEMMA BlockFees ==
  ASSUME SqlAssumption, Sound(Tables), NEW b, b.txids \in Seq(Txs), ~After(b).left,
         \A t \in Txs : status[t] # "absent" => Fee(t) >= 0
  PROVE  /\ Fees(b.txids) \in Nat /\ SumOver(AllFees, Settled(Tables)) \in Nat
         /\ SumOver(AllFees, Settled(After(b))) = SumOver(AllFees, Settled(Tables)) + Fees(b.txids)
<1> DEFINE l == b.txids
           S == Settled(Tables)
           R == {l[j] : j \in DOMAIN l}
<1>1. l \in Seq(Txs) /\ Len(l) \in Nat /\ DOMAIN l = 1..Len(l) /\ \A j \in 1..Len(l) : l[j] \in Txs
  OBVIOUS
<1>2. Through(l, Len(l), After(b))
  <2>1. After(b) = Steps(b)[Len(l)] /\ Len(l) \in 0..Len(l)
    BY <1>1, StepsEquation
  <2> QED BY <2>1, WentThrough
<1> HIDE DEF l
<1>3. /\ \A j \in 1..Len(l) : status[l[j]] = "pending"
      /\ \A j, k \in 1..Len(l) : l[j] = l[k] => j = k
      /\ Settled(After(b)) = S \cup R
  BY <1>1, <1>2 DEF Through
<1>4. \A j \in 1..Len(l) : Fee(l[j]) >= 0
  BY <1>1, <1>3
<1>5. FeeList(l) \in Seq(Nat) /\ Len(FeeList(l)) = Len(l) /\ Fees(l) = SumSeq(FeeList(l))
      /\ \A j \in 1..Len(l) : FeeList(l)[j] = Fee(l[j])
  BY <1>1, <1>4, FeeListFacts
<1>6. Lists(l, R, AllFees, FeeList(l))
  <2>1. \A j \in 1..Len(l) : FeeList(l)[j] = AllFees[l[j]]
    BY <1>1, <1>5, FeeFacts
  <2> QED BY <1>1, <1>3, <1>5, <2>1 DEF Lists
<1>7. SumOver(AllFees, R) = Fees(l) /\ IsFiniteSet(R) /\ Fees(l) \in Nat
  BY <1>5, <1>6, SumOverList, SumSeqNat
<1>8. IsFiniteSet(S) /\ \A t \in S : t \in Txs /\ status[t] = "confirmed"
  BY DEF Sound, Settled, Tables
<1>9. S \cap R = {}
  BY <1>1, <1>3, <1>8
<1>10. \A t \in S \cup R : AllFees[t] \in Nat
  <2>1. \A t \in S \cup R : t \in Txs /\ status[t] # "absent"
    BY <1>1, <1>3, <1>8
  <2>2. \A t \in S \cup R : Fee(t) \in Int /\ AllFees[t] = Fee(t) /\ Fee(t) >= 0
    BY <2>1, FeeFacts
  <2> QED BY <2>2
<1>11. SumOver(AllFees, S) \in Nat
  BY <1>8, <1>10, SumOverNat
<1> HIDE DEF S, R
<1>12. SumOver(AllFees, S \cup R) = SumOver(AllFees, S) + SumOver(AllFees, R)
  BY <1>7, <1>8, <1>9, <1>10, SumOverUnion
<1> QED BY <1>3, <1>7, <1>11, <1>12 DEF l, S
-----------------------------------------------------------------------------
(* A list a block can carry: pending transactions, each once, after those   *)
(* whose outputs they spend.                                                *)
Ready(l) ==
  /\ l \in Seq(Txs) /\ \A j, k \in 1..Len(l) : l[j] = l[k] => j = k
  /\ \A j \in 1..Len(l) : status[l[j]] = "pending"
  /\ \A j \in 1..Len(l) : \A o \in InputSet(l[j]) : o \in Unspent(utxos) \/ \E k \in 1..(j - 1) : o = Out(l[k])

(* After n of them, the next ones can still be confirmed.                   *)
Lines(l, n, d) == \A j \in (n + 1)..Len(l) : \A o \in InputSet(l[j]) :
                    o \in Unspent(d.utxos) \/ \E k \in (n + 1)..(j - 1) : o = Out(l[k])

(* The next one can;                                                        *)
LEMMA NextIsUsable ==
  ASSUME SqlAssumption, Sound(Tables), NEW l, Ready(l), NEW n \in Nat, n + 1 <= Len(l),
         NEW d, Through(l, n, d), Lines(l, n, d)
  PROVE  /\ Waits(d, l[n + 1]) /\ \A o \in InputSet(l[n + 1]) : Usable(d, l[n + 1], o)
<1>1. /\ l \in Seq(Txs) /\ n + 1 \in 1..Len(l) /\ n + 1 \in (n + 1)..Len(l) /\ (n + 1)..(n + 1 - 1) = {}
      /\ 1..n \subseteq 1..Len(l) /\ n + 1 \notin 1..n /\ l[n + 1] \in Txs
  BY DEF Ready
<1>2. \A j \in 1..n : l[j] # l[n + 1]
  BY <1>1 DEF Ready
<1>3. Waits(d, l[n + 1])
  <2>1. status[l[n + 1]] = "pending"
    BY <1>1 DEF Ready
  <2> QED BY <1>1, <1>2, <2>1 DEF Through, Waits
<1>4. \A o \in InputSet(l[n + 1]) : o \in Unspent(d.utxos)
  BY <1>1 DEF Lines
<1>5. PoolSound(d)
  BY DEF Through, Sound
<1>6. \A o \in InputSet(l[n + 1]) : <<o, l[n + 1]>> \in d.spends
  BY <1>1, <1>3, <1>5 DEF PoolSound
<1> QED BY <1>3, <1>4, <1>6 DEF Usable

(* and so can those after it when it is confirmed.                          *)
LEMMA LinesStay ==
  ASSUME SqlAssumption, Sound(Tables), NEW l, Ready(l), NEW n \in Nat, n + 1 <= Len(l),
         NEW d, Through(l, n, d), Lines(l, n, d), NEW c, Confirmed(d, l[n + 1], c)
  PROVE  Lines(l, n + 1, c)
<1> DEFINE t == l[n + 1]
<1>1. l \in Seq(Txs) /\ Len(l) \in Nat /\ n + 1 \in 1..Len(l) /\ t \in Txs
  BY DEF Ready
<1>2. Sound(d) /\ PoolSound(d) /\ Waits(d, t)
  BY NextIsUsable DEF Through, Sound
<1>3. Unspent(c.utxos) = (Unspent(d.utxos) \ InputSet(t)) \cup {Out(t)}
  BY DEF Confirmed
<1>4. ASSUME NEW j \in (n + 1 + 1)..Len(l), NEW o \in InputSet(l[j])
      PROVE  o \in Unspent(c.utxos) \/ \E k \in (n + 1 + 1)..(j - 1) : o = Out(l[k])
  <2>1. /\ j \in 1..Len(l) /\ j \in (n + 1)..Len(l) /\ l[j] \in Txs /\ j # n + 1
        /\ \A i \in 1..n : i \in 1..Len(l) /\ i # j
    BY <1>1
  <2>2. l[j] # t /\ \A i \in 1..n : l[i] # l[j]
    BY <1>1, <2>1 DEF Ready
  <2>3. Waits(d, l[j])
    <3>1. status[l[j]] = "pending"
      BY <2>1 DEF Ready
    <3> QED BY <2>1, <2>2, <3>1 DEF Through, Waits
  <2>4. InputSet(l[j]) \cap InputSet(t) = {}
    BY <1>1, <1>2, <2>1, <2>2, <2>3 DEF PoolSound
  <2>5. o \in Unspent(d.utxos) \/ \E k \in (n + 1)..(j - 1) : o = Out(l[k])
    BY <2>1 DEF Lines
  <2>6. CASE o \in Unspent(d.utxos)
    BY <1>3, <2>4, <2>6
  <2>7. CASE \E k \in (n + 1)..(j - 1) : o = Out(l[k])
    <3>1. PICK k \in (n + 1)..(j - 1) : o = Out(l[k])
      BY <2>7
    <3>2. CASE k = n + 1
      BY <1>3, <3>1, <3>2
    <3>3. CASE k # n + 1
      <4>1. k \in (n + 1 + 1)..(j - 1)
        BY <2>1, <3>3
      <4> QED BY <3>1, <4>1
    <3> QED BY <3>2, <3>3
  <2> QED BY <2>5, <2>6, <2>7
<1> QED BY <1>4 DEF Lines

(* A block that carries such a list is not left on the way,                 *)
LEMMA ReadyGoesThrough ==
  ASSUME SqlAssumption, Sound(Tables), NEW b, Ready(b.txids)
  PROVE  ~After(b).left
<1> DEFINE l == b.txids
           F == Steps(b)
           Fine(n) == ~F[n].left /\ Through(l, n, F[n]) /\ Lines(l, n, F[n])
           N == {n \in Nat : n <= Len(l) => Fine(n)}
<1>1. l \in Seq(Txs) /\ Len(l) \in Nat
  BY DEF Ready
<1>2. /\ F[0] = Tables /\ \A i \in 1..Len(l) : F[i] = Confirm(F[i - 1], l[i])
      /\ After(b) = F[Len(l)]
  BY <1>1, StepsEquation
<1>3. \A n \in 0..Len(l) :
        /\ DOMAIN F[n] = Fields /\ F[n].left \in BOOLEAN
        /\ ~F[n].left => Through(l, n, F[n])
        /\ n > 0 /\ ~F[n].left => Advances(F[n - 1], l[n], F[n])
  BY <1>1, WentThrough, Zenon
<1> HIDE DEF F
<1>4. 0 \in N
  <2>1. Through(l, 0, Tables) /\ Tables.left = FALSE /\ Tables.utxos = utxos
    BY ThroughNone DEF Tables
  <2>2. 0 + 1 = 1
    OBVIOUS
  <2>3. Lines(l, 0, Tables)
    BY <2>1, <2>2 DEF Ready, Lines
  <2>4. Fine(0)
    BY <1>2, <2>1, <2>3
  <2> QED BY <2>4
<1>5. ASSUME NEW n \in N PROVE n + 1 \in N
  <2> SUFFICES ASSUME n + 1 <= Len(l) PROVE Fine(n + 1)
    BY <1>5
  <2>1. n \in Nat /\ n \in 0..Len(l) /\ n + 1 \in 0..Len(l) /\ n + 1 \in 1..Len(l) /\ n + 1 - 1 = n /\ n + 1 > 0
    BY <1>1, <1>5
  <2>2. Fine(n)
    BY <1>5, <2>1
  <2>3. Waits(F[n], l[n + 1]) /\ \A o \in InputSet(l[n + 1]) : Usable(F[n], l[n + 1], o)
    BY <2>1, <2>2, NextIsUsable
  <2>4. F[n + 1] = Confirm(F[n], l[n + 1]) /\ l[n + 1] \in Txs
    BY <1>1, <1>2, <2>1
  <2>5. DOMAIN F[n] = Fields /\ F[n].left \in BOOLEAN /\ ~F[n].left
    BY <1>3, <2>1, <2>2
  <2>6. (~F[n + 1].left <=> ~F[n].left /\ F[n].status[l[n + 1]] = "pending" /\ \A o \in InputSet(l[n + 1]) : Usable(F[n], l[n + 1], o))
    BY <2>4, <2>5, ConfirmFacts, Zenon
  <2>7. ~F[n + 1].left
    BY <2>3, <2>5, <2>6, Zenon DEF Waits
  <2>8. Through(l, n + 1, F[n + 1]) /\ Confirmed(F[n], l[n + 1], F[n + 1])
    <3>1. F[n + 1 - 1] = F[n]
      BY <2>1
    <3>2. Advances(F[n], l[n + 1], F[n + 1])
      BY <1>3, <2>1, <2>7, <3>1
    <3> QED BY <1>3, <2>1, <2>7, <3>2 DEF Advances
  <2>9. Lines(l, n + 1, F[n + 1])
    BY <2>1, <2>2, <2>8, LinesStay
  <2> QED BY <2>7, <2>8, <2>9
<1>6. N = Nat
  BY <1>4, <1>5, SetInduction
<1>7. Fine(Len(l))
  BY <1>1, <1>6
<1> QED BY <1>2, <1>7

(* nor refused before by version 3.                                         *)
LEMMA ReadyPrevalidates ==
  ASSUME SqlAssumption, Sound(Tables), NEW b, Ready(b.txids)
  PROVE  Prevalidated(b)
<1>1. PoolSound(Tables) /\ Tables.status = status /\ Tables.utxos = utxos /\ Tables.outs = outs /\ Tables.spends = spends
  BY DEF Sound, Tables
<1>2. b.txids \in Seq(Txs) /\ DOMAIN b.txids = 1..Len(b.txids)
  BY DEF Ready
<1>3. ASSUME NEW j \in DOMAIN b.txids, NEW k \in DOMAIN Inputs[b.txids[j]]
      PROVE  /\ status[b.txids[j]] = "pending"
             /\ <<Inputs[b.txids[j]][k], b.txids[j]>> \in spends /\ Row(Inputs[b.txids[j]][k])
  <2>1. b.txids[j] \in Txs /\ status[b.txids[j]] = "pending"
    BY <1>2 DEF Ready
  <2>2. Inputs[b.txids[j]][k] \in InputSet(b.txids[j])
    BY DEF InputSet
  <2> QED BY <1>1, <2>1, <2>2 DEF PoolSound, Waits, Row
<1>4. \A j \in DOMAIN b.txids : status[b.txids[j]] = "pending"
  BY <1>2 DEF Ready
<1> QED BY <1>3, <1>4 DEF Prevalidated
-----------------------------------------------------------------------------
(* The mempool in the order of its numbers: each transaction once, after    *)
(* those whose outputs it spends.                                           *)
Listed ==
  /\ mempool \in Seq(Txs) /\ \A i, j \in 1..Len(mempool) : mempool[i] = mempool[j] => i = j
  /\ \A i \in 1..Len(mempool) : status[mempool[i]] # "absent"
  /\ \A t \in Txs : status[t] # "absent" => \E i \in 1..Len(mempool) : mempool[i] = t
  /\ \A i \in 1..Len(mempool) : \A u \in Txs :
        Out(u) \in InputSet(mempool[i]) => \E k \in 1..(i - 1) : mempool[k] = u
  /\ \A t \in Txs : \A h : status[t] # "absent" /\ Coinbase(h) \in InputSet(t) => Coinbase(h) \in DOMAIN utxos

(* The list l is what was taken of the first i transactions.                *)
TakenOf(l, i) ==
  /\ Ready(l)
  /\ \A j \in 1..Len(l) : \E k \in 1..i : l[j] = mempool[k]
  /\ Room(l) => \A k \in 1..i : status[mempool[k]] = "pending" => \E j \in 1..Len(l) : l[j] = mempool[k]

(* What is listed for a template, a block can carry.                        *)
LEMMA PendingReady ==
  ASSUME SqlAssumption, Sound(Tables), Listed
  PROVE  Ready(Pending)
<1> DEFINE N == {i \in Nat : i <= Len(mempool) => TakenOf(Takes[i], i)}
<1>1. mempool \in Seq(Txs) /\ Len(mempool) \in Nat
  BY DEF Listed
<1>2. /\ Takes[0] = <<>> /\ Pending = Takes[Len(mempool)]
      /\ \A i \in 1..Len(mempool) : Takes[i] = TakeOne(Takes[i - 1], mempool[i])
  BY <1>1, TakesEquation
<1>3. PoolSound(Tables) /\ Tables.status = status /\ Tables.utxos = utxos /\ Tables.outs = outs
  BY DEF Sound, Tables
<1>4. 0 \in N
  <2>1. <<>> \in Seq(Txs) /\ Len(<<>>) = 0 /\ 1..0 = {}
    OBVIOUS
  <2>2. TakenOf(<<>>, 0)
    BY <2>1 DEF TakenOf, Ready
  <2>3. TakenOf(Takes[0], 0)
    BY <1>2, <2>2, Zenon
  <2> QED BY <2>3
<1>5. ASSUME NEW i \in N PROVE i + 1 \in N
  <2> SUFFICES ASSUME i + 1 <= Len(mempool) PROVE TakenOf(Takes[i + 1], i + 1)
    BY <1>5
  <2> DEFINE l == Takes[i]
             t == mempool[i + 1]
             m == Takes[i + 1]
  <2>1. /\ i \in Nat /\ i + 1 \in 1..Len(mempool) /\ i + 1 - 1 = i /\ t \in Txs
        /\ 1..(i + 1) = 1..i \cup {i + 1} /\ \A k \in 1..i : k \in 1..Len(mempool) /\ k # i + 1
    BY <1>1, <1>5
  <2>2. TakenOf(l, i)
    BY <1>5, <2>1
  <2>3. m = TakeOne(l, t)
    BY <1>2, <2>1
  <2> HIDE DEF l, t, m
  <2>4. CASE ~(status[t] = "pending" /\ Room(l))
    <3>1. m = l
      BY <2>3, <2>4, Zenon DEF TakeOne
    <3>2. \A j \in 1..Len(l) : \E k \in 1..(i + 1) : l[j] = mempool[k]
      BY <2>1, <2>2 DEF TakenOf
    <3>3. ASSUME Room(l), NEW k \in 1..(i + 1), status[mempool[k]] = "pending" PROVE \E j \in 1..Len(l) : l[j] = mempool[k]
      <4>1. k # i + 1
        BY <2>4, <3>3 DEF t
      <4>2. k \in 1..i
        BY <2>1, <4>1
      <4> QED BY <2>2, <3>3, <4>2 DEF TakenOf
    <3>4. TakenOf(m, i + 1)
      BY <2>2, <3>1, <3>2, <3>3 DEF TakenOf
    <3> QED BY <3>4 DEF m
  <2>5. CASE status[t] = "pending" /\ Room(l)
    <3>1. l \in Seq(Txs) /\ Ready(l)
      BY <2>2 DEF TakenOf, Ready
    <3>2. m = Append(l, t)
      BY <2>3, <2>5, Zenon DEF TakeOne
    <3>3. /\ m \in Seq(Txs) /\ Len(m) = Len(l) + 1 /\ Len(l) \in Nat /\ m[Len(l) + 1] = t
          /\ \A j \in 1..Len(l) : m[j] = l[j]
          /\ 1..Len(m) = 1..Len(l) \cup {Len(l) + 1} /\ Len(l) + 1 \notin 1..Len(l)
      BY <2>1, <3>1, <3>2
    <3>4. \A j \in 1..Len(l) : \E k \in 1..i : l[j] = mempool[k]
      BY <2>2 DEF TakenOf
    <3>5. \A k \in 1..i : mempool[k] # t
      BY <2>1 DEF Listed, t
    <3>6. \A j \in 1..Len(l) : l[j] # t
      BY <3>4, <3>5
    <3>7. \A j, k \in 1..Len(m) : m[j] = m[k] => j = k
      <4>1. \A j, k \in 1..Len(l) : l[j] = l[k] => j = k
        BY <3>1 DEF Ready
      <4> QED BY <3>3, <3>6, <4>1
    <3>8. \A j \in 1..Len(m) : status[m[j]] = "pending"
      <4>1. \A j \in 1..Len(l) : status[l[j]] = "pending"
        BY <3>1 DEF Ready
      <4> QED BY <2>5, <3>3, <4>1
    <3>9. ASSUME NEW j \in 1..Len(m), NEW o \in InputSet(m[j])
          PROVE  o \in Unspent(utxos) \/ \E k \in 1..(j - 1) : o = Out(m[k])
      <4>1. CASE j \in 1..Len(l)
        <5>1. o \in InputSet(l[j])
          BY <3>3, <4>1
        <5>2. o \in Unspent(utxos) \/ \E k \in 1..(j - 1) : o = Out(l[k])
          BY <3>1, <4>1, <5>1 DEF Ready
        <5>3. \A k \in 1..(j - 1) : m[k] = l[k]
          BY <3>3, <4>1
        <5> QED BY <5>2, <5>3
      <4>2. CASE j = Len(l) + 1
        <5>1. o \in InputSet(t) /\ 1..(j - 1) = 1..Len(l)
          BY <3>3, <4>2
        <5>2. o \in Unspent(utxos) \cup outs
          BY <1>3, <2>1, <2>5, <5>1 DEF PoolSound, Waits
        <5>3. ASSUME o \in outs PROVE \E k \in 1..Len(l) : o = Out(m[k])
          <6>1. PICK u \in Txs : status[u] = "pending" /\ o = Out(u)
            BY <1>3, <5>3 DEF PoolSound, Waits
          <6>2. PICK k \in 1..(i + 1 - 1) : mempool[k] = u
            BY <2>1, <5>1, <6>1 DEF Listed, t
          <6>3. k \in 1..i
            BY <2>1
          <6>4. PICK n \in 1..Len(l) : l[n] = u
            BY <2>2, <2>5, <6>1, <6>2, <6>3 DEF TakenOf
          <6> QED BY <3>3, <6>1, <6>4
        <5> QED BY <5>1, <5>2, <5>3
      <4> QED BY <3>3, <4>1, <4>2
    <3>10. Ready(m)
      BY <3>3, <3>7, <3>8, <3>9 DEF Ready
    <3>11. \A j \in 1..Len(m) : \E k \in 1..(i + 1) : m[j] = mempool[k]
      BY <2>1, <3>3, <3>4 DEF t
    <3>12. ASSUME Room(m), NEW k \in 1..(i + 1), status[mempool[k]] = "pending" PROVE \E j \in 1..Len(m) : m[j] = mempool[k]
      <4>1. CASE k = i + 1
        BY <3>3, <4>1 DEF t
      <4>2. CASE k \in 1..i
        <5>1. PICK j \in 1..Len(l) : l[j] = mempool[k]
          BY <2>2, <2>5, <3>12, <4>2 DEF TakenOf
        <5> QED BY <3>3, <5>1
      <4> QED BY <2>1, <4>1, <4>2
    <3> QED BY <3>10, <3>11, <3>12 DEF TakenOf, m
  <2> QED BY <2>4, <2>5 DEF m
<1>6. N = Nat
  BY <1>4, <1>5, SetInduction
<1>7. TakenOf(Takes[Len(mempool)], Len(mempool))
  BY <1>1, <1>6
<1> QED BY <1>2, <1>7 DEF TakenOf
-----------------------------------------------------------------------------
(* The supply: types, heights and rewards.                                  *)
Block == [reward : 0..Subsidy, txids : Seq(Txs)]
Job == [pc : {"idle", "issued", "pending", "mined", "check", "rpc"}, height : Nat, reward : 0..Subsidy,
        txids : Seq(Txs), honest : BOOLEAN]
(* A template is for a height there was; one that has passed the checks and *)
(* whose height is still the next has the reward that is due.               *)
Fair(job) ==
  /\ job.pc # "idle" => job.height <= Len(blocks) + 1
  /\ job.pc = "rpc" /\ job.height = Len(blocks) + 1 => job.reward = Reward(Issued)
Supplied ==
  /\ blocks \in Seq(Block) /\ mempool \in Seq(Txs) /\ miner \in [Miners -> Job]
  /\ \A m \in Miners : Fair(miner[m])
  /\ SupplyByRule

(* What is issued is a natural.                                             *)
Rewards == [h \in DOMAIN blocks |-> blocks[h].reward]
(* The sum of the rewards is a natural, whatever the blocks.                *)
LEMMA IssuedNat ==
  ASSUME SqlAssumption, blocks \in Seq(Block)
  PROVE  Issued \in Nat /\ Rewards \in Seq(Nat) /\ Len(Rewards) = Len(blocks)
<1>1. Subsidy \in Nat /\ DOMAIN blocks = 1..Len(blocks) /\ Len(blocks) \in Nat
  BY DEF SqlAssumption
<1>2. \A h \in 1..Len(blocks) : blocks[h].reward \in Nat
  <2>1. \A h \in 1..Len(blocks) : blocks[h] \in Block
    OBVIOUS
  <2>2. \A x \in Block : x.reward \in Nat
    BY <1>1 DEF Block
  <2> QED BY <2>1, <2>2
<1>3. Rewards \in [1..Len(blocks) -> Nat]
  BY <1>1, <1>2 DEF Rewards
<1>4. Rewards \in Seq(Nat) /\ Len(Rewards) = Len(blocks)
  BY <1>1, <1>3
<1> QED BY <1>4, SumSeqNat DEF Issued, Rewards

(* A block more adds its reward.                                            *)
LEMMA IssuedGrows ==
  ASSUME SqlAssumption, blocks \in Seq(Block), NEW x \in Block, blocks' = Append(blocks, x)
  PROVE  Issued' = Issued + x.reward /\ Len(blocks') = Len(blocks) + 1 /\ blocks' \in Seq(Block)
<1>1. Rewards \in Seq(Nat) /\ Len(Rewards) = Len(blocks) /\ Len(blocks) \in Nat /\ DOMAIN blocks = 1..Len(blocks)
  BY IssuedNat
<1>2. x.reward \in Nat
  BY DEF Block, SqlAssumption
<1>3. /\ blocks' \in Seq(Block) /\ Len(blocks') = Len(blocks) + 1 /\ DOMAIN blocks' = 1..(Len(blocks) + 1)
      /\ \A h \in 1..Len(blocks) : blocks'[h] = blocks[h]
      /\ blocks'[Len(blocks) + 1] = x
  BY <1>1
<1> DEFINE r == Append(Rewards, x.reward)
<1>4. /\ r \in Seq(Nat) /\ Len(r) = Len(blocks) + 1 /\ DOMAIN r = 1..(Len(blocks) + 1)
      /\ \A h \in 1..Len(blocks) : r[h] = Rewards[h]
      /\ r[Len(blocks) + 1] = x.reward
  BY <1>1, <1>2
<1>5. \A h \in 1..Len(blocks) : Rewards[h] = blocks[h].reward
  BY <1>1 DEF Rewards
<1> HIDE DEF r
<1>6. r = [h \in DOMAIN r |-> r[h]]
  BY <1>4
<1>7. \A h \in DOMAIN blocks' : r[h] = blocks'[h].reward
  BY <1>1, <1>3, <1>4, <1>5
<1>8. [h \in DOMAIN blocks' |-> blocks'[h].reward] = r
  BY <1>3, <1>4, <1>6, <1>7, Zenon
<1>9. Issued' = SumSeq(r)
  BY <1>8, Zenon DEF Issued
<1>10. SumSeq(r) = SumSeq(Rewards) + x.reward
  BY <1>1, <1>2, SumSeqAppend DEF r
<1> QED BY <1>3, <1>9, <1>10 DEF Issued, Rewards

(* A reward is at most the subsidy,                                         *)
LEMMA RewardFacts ==
  ASSUME SqlAssumption, NEW n \in Nat
  PROVE  Reward(n) \in 0..Subsidy /\ Subsidy \in Nat /\ MaxSupply \in Nat
BY DEF Reward, SqlAssumption

(* and a block with the reward that is due leaves the supply by the rule.   *)
LEMMA RuleKept ==
  ASSUME SqlAssumption, blocks \in Seq(Block), SupplyByRule,
         NEW x \in Block, blocks' = Append(blocks, x), x.reward = Reward(Issued)
  PROVE  SupplyByRule'
<1> DEFINE k == Len(blocks)
           n == k * Subsidy
<1>1. Issued' = Issued + Reward(Issued) /\ Len(blocks') = k + 1 /\ k \in Nat /\ Issued \in Nat
  BY IssuedGrows, IssuedNat
<1>2. Subsidy \in Nat /\ MaxSupply \in Nat /\ n \in Nat /\ (k + 1) * Subsidy = n + Subsidy
  <2>1. Subsidy \in Nat /\ MaxSupply \in Nat
    BY DEF SqlAssumption
  <2>2. \A a, c \in Nat : a * c \in Nat /\ (a + 1) * c = a * c + c
    OBVIOUS
  <2> QED BY <1>1, <2>1, <2>2
<1>3. Issued = IF n < MaxSupply THEN n ELSE MaxSupply
  BY DEF SupplyByRule
<1>4. SupplyByRule' = (Issued' = IF Len(blocks') * Subsidy < MaxSupply THEN Len(blocks') * Subsidy ELSE MaxSupply)
  BY Zenon DEF SupplyByRule
<1>5. Len(blocks') * Subsidy = n + Subsidy
  BY <1>1, <1>2
<1> HIDE DEF n, k
<1>6. Issued' = IF n + Subsidy < MaxSupply THEN n + Subsidy ELSE MaxSupply
  BY <1>1, <1>2, <1>3 DEF Reward
<1> QED BY <1>4, <1>5, <1>6

(* A template lists transactions.                                           *)
LEMMA PendingType ==
  ASSUME mempool \in Seq(Txs)
  PROVE  Pending \in Seq(Txs)
<1> DEFINE N == {i \in Nat : i <= Len(mempool) => Takes[i] \in Seq(Txs)}
<1>1. Len(mempool) \in Nat /\ \A i \in 1..Len(mempool) : mempool[i] \in Txs
  OBVIOUS
<1>2. /\ Takes[0] = <<>> /\ Pending = Takes[Len(mempool)]
      /\ \A i \in 1..Len(mempool) : Takes[i] = TakeOne(Takes[i - 1], mempool[i])
  BY <1>1, TakesEquation
<1>3. 0 \in N
  <2>1. <<>> \in Seq(Txs)
    OBVIOUS
  <2>2. Takes[0] \in Seq(Txs)
    BY <1>2, <2>1, Zenon
  <2> QED BY <2>2
<1>4. ASSUME NEW i \in N PROVE i + 1 \in N
  <2> SUFFICES ASSUME i + 1 <= Len(mempool) PROVE Takes[i + 1] \in Seq(Txs)
    BY <1>4
  <2>1. i \in Nat /\ i + 1 \in 1..Len(mempool) /\ i + 1 - 1 = i /\ Takes[i] \in Seq(Txs) /\ mempool[i + 1] \in Txs
    BY <1>1, <1>4
  <2>2. Takes[i + 1] = TakeOne(Takes[i], mempool[i + 1])
    BY <1>2, <2>1
  <2>3. Append(Takes[i], mempool[i + 1]) \in Seq(Txs)
    BY <2>1
  <2>4. Takes[i + 1] = Append(Takes[i], mempool[i + 1]) \/ Takes[i + 1] = Takes[i]
    BY <2>2, Zenon DEF TakeOne
  <2> QED BY <2>1, <2>3, <2>4
<1>5. N = Nat
  BY <1>3, <1>4, SetInduction
<1> QED BY <1>1, <1>2, <1>5

(* A miner goes on with its template.                                       *)
LEMMA FairStep ==
  ASSUME SqlAssumption, Supplied, NEW m \in Miners, NEW to \in Job, Fair(to),
         miner' = [miner EXCEPT ![m] = to], UNCHANGED <<blocks, mempool>>
  PROVE  Supplied'
<1>1. Issued' = Issued /\ SupplyByRule' = SupplyByRule
  BY DEF Issued, SupplyByRule
<1>2. miner' \in [Miners -> Job] /\ miner'[m] = to /\ \A n \in Miners : n # m => miner'[n] = miner[n]
  BY DEF Supplied
<1>3. \A n \in Miners : Fair(miner[n])'
  BY <1>1, <1>2 DEF Fair, Supplied
<1> QED BY <1>1, <1>2, <1>3 DEF Supplied

(* What any version does to the blocks.                                     *)
LEMMA AcceptedBlocks ==
  ASSUME NEW b, AcceptBlock(b)
  PROVE  /\ mempool' = mempool
         /\ \/ blocks' = blocks
            \/ NextHeight(b) /\ blocks' = Append(blocks, [reward |-> b.reward, txids |-> b.txids])
BY DEF AcceptBlock, AcceptBlockV2, AcceptBlockAtomic, AcceptBlockV3, Written, Ledger

(* At first the supply is by the rule,                                      *)
LEMMA SuppliedInit ==
  ASSUME SqlAssumption, Init
  PROVE  Supplied
<1>1. blocks = <<>> /\ mempool = <<>> /\ miner = [m \in Miners |-> NoBlock]
  BY DEF Init
<1>2. blocks \in Seq(Block) /\ mempool \in Seq(Txs) /\ Len(blocks) = 0 /\ DOMAIN blocks = 1..0
  BY <1>1
<1>3. NoBlock \in Job
  <2>1. <<>> \in Seq(Txs) /\ Subsidy \in Nat
    BY DEF SqlAssumption
  <2>2. FALSE \in BOOLEAN /\ TRUE \in BOOLEAN
    OBVIOUS
  <2> QED BY <2>1, <2>2 DEF NoBlock, Job
<1>4. miner \in [Miners -> Job] /\ \A m \in Miners : miner[m] = NoBlock
  BY <1>1, <1>3
<1>5. NoBlock.pc = "idle"
  BY DEF NoBlock
<1>6. \A m \in Miners : Fair(miner[m])
  BY <1>4, <1>5 DEF Fair
<1>7. SupplyByRule
  <2>1. Rewards \in Seq(Nat) /\ Len(Rewards) = 0 /\ Issued = SumSeq(Rewards)
    BY <1>2, IssuedNat DEF Issued, Rewards
  <2>2. SumSeq(Rewards) = PartialSums(Rewards)[0] /\ PartialSums(Rewards) = [i \in 0..0 |-> IF i = 0 THEN 0 ELSE PartialSums(Rewards)[i - 1] + Rewards[i]]
    BY <2>1, PartialSumsEquation
  <2>3. 0 \in 0..0
    OBVIOUS
  <2>4. Issued = 0
    BY <2>1, <2>2, <2>3, Zenon
  <2>5. 0 * Subsidy = 0 /\ Subsidy \in Nat /\ MaxSupply \in Nat
    BY DEF SqlAssumption
  <2> QED BY <1>2, <2>4, <2>5 DEF SupplyByRule
<1> QED BY <1>2, <1>4, <1>6, <1>7 DEF Supplied

(* So does a list somebody chooses.                                         *)
LEMMA OwnLists ==
  ASSUME NEW l \in Own
  PROVE  l \in Seq(Txs)
<1>1. PICK k \in 0..2 : l \in [1..k -> Txs]
  BY DEF Own
<1> QED BY <1>1

(* and every step keeps it so.                                              *)
LEMMA PoolStep ==
  ASSUME SqlAssumption, Supplied, blocks' = blocks, miner' = miner, mempool' \in Seq(Txs)
  PROVE  Supplied'
<1>1. Issued' = Issued /\ SupplyByRule' = SupplyByRule
  BY DEF Issued, SupplyByRule
<1> QED BY <1>1 DEF Supplied, Fair

(* The fields a miner changes.                                              *)
LEMMA JobFacts ==
  ASSUME SqlAssumption, Supplied, NEW m \in Miners
  PROVE  /\ miner[m] \in Job /\ Fair(miner[m])
         /\ NoBlock \in Job /\ Fair(NoBlock)
         /\ Issued \in Nat /\ Reward(Issued) \in 0..Subsidy /\ Len(blocks) \in Nat
<1>1. miner[m] \in Job /\ Fair(miner[m]) /\ Len(blocks) \in Nat
  BY DEF Supplied
<1>2. <<>> \in Seq(Txs) /\ Subsidy \in Nat /\ TRUE \in BOOLEAN
  BY DEF SqlAssumption
<1>3. NoBlock \in Job /\ Fair(NoBlock)
  BY <1>2 DEF NoBlock, Job, Fair
<1>4. Issued \in Nat
  BY IssuedNat DEF Supplied
<1> QED BY <1>1, <1>3, <1>4, RewardFacts

(* The three requests of a template, and giving it up, keep the rule of     *)
(* supply.                                                                  *)
LEMMA SuppliedTemplate ==
  ASSUME SqlAssumption, Supplied, NEW m \in Miners,
         TemplateTip(m) \/ TemplateIssued(m) \/ TemplatePending(m) \/ Drop(m)
  PROVE  Supplied'
<1>1. /\ miner[m] \in Job /\ Fair(miner[m]) /\ NoBlock \in Job /\ Fair(NoBlock)
      /\ Issued \in Nat /\ Reward(Issued) \in 0..Subsidy /\ Len(blocks) \in Nat
  BY JobFacts
<1>2. CASE TemplateTip(m)
  <2>1. PICK to : to = [NoBlock EXCEPT !.pc = "issued", !.height = Len(blocks) + 1]
    OBVIOUS
  <2>2. to \in Job /\ to.pc = "issued" /\ to.height = Len(blocks) + 1
    <3>1. DOMAIN NoBlock = {"pc", "height", "reward", "txids", "honest"}
      BY DEF NoBlock
    <3>2. to.pc = "issued" /\ to.height = Len(blocks) + 1
      BY <2>1, <3>1
    <3>3. to \in Job
      <4>1. PICK mid : mid = [NoBlock EXCEPT !.pc = "issued"]
        OBVIOUS
      <4>2. mid \in Job
        BY <1>1, <4>1 DEF Job
      <4>3. to = [mid EXCEPT !.height = Len(blocks) + 1]
        BY <2>1, <4>1
      <4>4. Len(blocks) + 1 \in Nat
        BY <1>1
      <4> QED BY <4>2, <4>3, <4>4 DEF Job
    <3> QED BY <3>2, <3>3
  <2>3. miner' = [miner EXCEPT ![m] = to] /\ UNCHANGED <<blocks, mempool>>
    BY <1>2, <2>1 DEF TemplateTip, Step, Ledger
  <2>4. Fair(to)
    BY <1>1, <2>2 DEF Fair
  <2> QED BY <2>2, <2>3, <2>4, FairStep
<1>3. CASE TemplateIssued(m)
  <2>1. PICK to : to = [miner[m] EXCEPT !.pc = "pending", !.reward = Reward(Issued)]
    OBVIOUS
  <2>2. to \in Job /\ to.pc = "pending" /\ to.height = miner[m].height /\ miner[m].pc = "issued"
    BY <1>1, <1>3, <2>1 DEF Job, TemplateIssued, Step
  <2>3. Fair(to)
    BY <1>1, <2>2 DEF Fair
  <2>4. /\ miner' = [miner EXCEPT ![m] = to] \/ miner' = [miner EXCEPT ![m] = NoBlock]
        /\ UNCHANGED <<blocks, mempool>>
    BY <1>3, <2>1 DEF TemplateIssued, Step, Ledger
  <2> QED BY <1>1, <2>2, <2>3, <2>4, FairStep
<1>4. CASE TemplatePending(m)
  <2>1. /\ miner[m].pc = "pending" /\ UNCHANGED <<blocks, mempool>>
        /\ \/ miner' = [miner EXCEPT ![m] = [miner[m] EXCEPT !.pc = "mined", !.txids = Pending]]
           \/ \E l \in Own : miner' = [miner EXCEPT ![m] = [miner[m] EXCEPT !.pc = "mined", !.txids = l, !.honest = FALSE]]
    BY <1>4 DEF TemplatePending, Step, Ledger
  <2>2. CASE miner' = [miner EXCEPT ![m] = [miner[m] EXCEPT !.pc = "mined", !.txids = Pending]]
    <3>1. Pending \in Seq(Txs)
      BY PendingType DEF Supplied
    <3>2. PICK to : to = [miner[m] EXCEPT !.pc = "mined", !.txids = Pending]
      OBVIOUS
    <3>3. to \in Job /\ to.pc = "mined" /\ to.height = miner[m].height
      BY <1>1, <3>1, <3>2 DEF Job
    <3>4. Fair(to)
      BY <1>1, <2>1, <3>3 DEF Fair
    <3> QED BY <2>1, <2>2, <3>2, <3>3, <3>4, FairStep
  <2>3. ASSUME NEW l \in Own, miner' = [miner EXCEPT ![m] = [miner[m] EXCEPT !.pc = "mined", !.txids = l, !.honest = FALSE]]
        PROVE  Supplied'
    <3>1. l \in Seq(Txs)
      BY OwnLists
    <3>2. PICK to : to = [miner[m] EXCEPT !.pc = "mined", !.txids = l, !.honest = FALSE]
      OBVIOUS
    <3>3. to \in Job /\ to.pc = "mined" /\ to.height = miner[m].height
      BY <1>1, <3>1, <3>2 DEF Job
    <3>4. Fair(to)
      BY <1>1, <2>1, <3>3 DEF Fair
    <3> QED BY <2>1, <2>3, <3>2, <3>3, <3>4, FairStep
  <2> QED BY <2>1, <2>2, <2>3
<1>5. CASE Drop(m)
  <2>1. miner' = [miner EXCEPT ![m] = NoBlock] /\ UNCHANGED <<blocks, mempool>>
    BY <1>5 DEF Drop, Step, Ledger
  <2> QED BY <1>1, <2>1, FairStep
<1> QED BY <1>2, <1>3, <1>4, <1>5

(* The two checks of a submission and the block itself keep it: a reward    *)
(* that was due when it was read is due if the height is still the next.    *)
LEMMA SuppliedSubmit ==
  ASSUME SqlAssumption, Supplied, NEW m \in Miners, SubmitTip(m) \/ SubmitIssued(m) \/ SubmitRpc(m)
  PROVE  Supplied'
<1>1. /\ miner[m] \in Job /\ Fair(miner[m]) /\ NoBlock \in Job /\ Fair(NoBlock)
      /\ Issued \in Nat /\ Reward(Issued) \in 0..Subsidy /\ Len(blocks) \in Nat
  BY JobFacts
<1>2. CASE SubmitTip(m)
  <2>1. PICK to : to = [miner[m] EXCEPT !.pc = "check"]
    OBVIOUS
  <2>2. to \in Job /\ to.pc = "check" /\ to.height = miner[m].height /\ miner[m].pc = "mined"
    BY <1>1, <1>2, <2>1 DEF Job, SubmitTip, Step
  <2>3. Fair(to)
    BY <1>1, <2>2 DEF Fair
  <2>4. /\ miner' = [miner EXCEPT ![m] = to] \/ miner' = [miner EXCEPT ![m] = NoBlock]
        /\ UNCHANGED <<blocks, mempool>>
    BY <1>2, <2>1 DEF SubmitTip, Step, Ledger
  <2> QED BY <1>1, <2>2, <2>3, <2>4, FairStep
<1>3. CASE SubmitIssued(m)
  <2>1. PICK to : to = [miner[m] EXCEPT !.pc = "rpc"]
    OBVIOUS
  <2>2. /\ to \in Job /\ to.pc = "rpc" /\ to.height = miner[m].height /\ to.reward = miner[m].reward
        /\ miner[m].pc = "check"
    BY <1>1, <1>3, <2>1 DEF Job, SubmitIssued, Step
  <2>3. /\ \/ miner' = [miner EXCEPT ![m] = to] /\ miner[m].reward = Reward(Issued)
           \/ miner' = [miner EXCEPT ![m] = NoBlock]
        /\ UNCHANGED <<blocks, mempool>>
    BY <1>3, <2>1 DEF SubmitIssued, Step, Ledger
  <2>4. CASE miner' = [miner EXCEPT ![m] = to] /\ miner[m].reward = Reward(Issued)
    <3>1. Fair(to)
      BY <1>1, <2>2, <2>4 DEF Fair
    <3> QED BY <2>2, <2>3, <2>4, <3>1, FairStep
  <2> QED BY <1>1, <2>3, <2>4, FairStep
<1>4. CASE SubmitRpc(m)
  <2> DEFINE b == miner[m]
             x == [reward |-> b.reward, txids |-> b.txids]
  <2>1. b.pc = "rpc" /\ AcceptBlock(b) /\ miner' = [miner EXCEPT ![m] = NoBlock]
    BY <1>4 DEF SubmitRpc
  <2>2. /\ mempool' = mempool
        /\ blocks' = blocks \/ (NextHeight(b) /\ blocks' = Append(blocks, x))
    BY <2>1, AcceptedBlocks
  <2>3. CASE blocks' = blocks
    BY <1>1, <2>1, <2>2, <2>3, FairStep
  <2>4. CASE NextHeight(b) /\ blocks' = Append(blocks, x)
    <3>1. x \in Block /\ x.reward = b.reward
      BY <1>1 DEF Block, Job
    <3>2. b.reward = Reward(Issued)
      BY <1>1, <2>1, <2>4 DEF Fair, NextHeight
    <3>3. blocks \in Seq(Block) /\ SupplyByRule /\ mempool \in Seq(Txs) /\ miner \in [Miners -> Job]
      BY DEF Supplied
    <3> HIDE DEF x, b
    <3>4. SupplyByRule'
      BY <2>4, <3>1, <3>2, <3>3, RuleKept
    <3>5. blocks' \in Seq(Block) /\ Len(blocks') = Len(blocks) + 1
      BY <2>4, <3>1, <3>3, IssuedGrows
    <3>6. /\ miner' \in [Miners -> Job]
          /\ \A n \in Miners : miner'[n] = NoBlock \/ miner'[n] = miner[n]
      BY <1>1, <2>1, <3>3
    <3>7. \A n \in Miners : Fair(miner[n])'
      <4>1. \A n \in Miners : miner[n] \in Job /\ (miner[n].pc # "idle" => miner[n].height <= Len(blocks) + 1 /\ miner[n].height \in Nat)
        BY <3>3 DEF Supplied, Fair, Job
      <4>2. NoBlock.pc = "idle"
        BY DEF NoBlock
      <4>3. \A n \in Miners : miner'[n].pc # "idle" => miner'[n].height <= Len(blocks) + 1 /\ miner'[n].height \in Nat
        BY <3>6, <4>1, <4>2
      <4>4. \A n \in Miners : miner'[n].pc # "idle" => /\ miner'[n].height <= Len(blocks') + 1
                                                       /\ miner'[n].height # Len(blocks') + 1
        BY <1>1, <3>5, <4>3
      <4> QED BY <4>4 DEF Fair
    <3> QED BY <2>2, <3>3, <3>4, <3>5, <3>6, <3>7 DEF Supplied
  <2> QED BY <2>2, <2>3, <2>4
<1> QED BY <1>2, <1>3, <1>4

(* Every step keeps the rule of supply.                                     *)
LEMMA SuppliedNext ==
  ASSUME SqlAssumption, Supplied, [Next]_vars
  PROVE  Supplied'
<1>1. mempool \in Seq(Txs)
  BY DEF Supplied
<1>2. CASE UNCHANGED vars
  BY <1>1, <1>2, PoolStep DEF vars
<1>3. ASSUME NEW s \in Subs, Begin(s) \/ ReadRow(s) \/ CheckReserved(s) \/ AbortTx(s) PROVE Supplied'
  <2>1. blocks' = blocks /\ miner' = miner /\ mempool' = mempool
    BY <1>3 DEF Begin, ReadRow, CheckReserved, AbortTx, Ledger
  <2> QED BY <1>1, <2>1, PoolStep
<1>4. ASSUME NEW s \in Subs, Insert(s) PROVE Supplied'
  <2>1. TxOf[s] \in Txs
    BY DEF SqlAssumption
  <2>2. blocks' = blocks /\ miner' = miner /\ (mempool' = mempool \/ mempool' = Append(mempool, TxOf[s]))
    BY <1>4 DEF Insert, Ledger
  <2>3. mempool' \in Seq(Txs)
    BY <1>1, <2>1, <2>2
  <2> QED BY <2>2, <2>3, PoolStep
<1>5. ASSUME NEW m \in Miners, TemplateTip(m) \/ TemplateIssued(m) \/ TemplatePending(m) \/ Drop(m) PROVE Supplied'
  BY <1>5, SuppliedTemplate
<1>6. ASSUME NEW m \in Miners, SubmitTip(m) \/ SubmitIssued(m) \/ SubmitRpc(m) PROVE Supplied'
  BY <1>6, SuppliedSubmit
<1> QED BY <1>2, <1>3, <1>4, <1>5, <1>6 DEF Next

(* The supply is by the rule, of every version and whoever chooses the      *)
(* transactions.                                                            *)
THEOREM SupplyByTheRule ==
  ASSUME SqlAssumption
  PROVE  Spec => []SupplyByRule
<1>1. Init => Supplied
  BY SuppliedInit
<1>2. Supplied /\ [Next]_vars => Supplied'
  BY SuppliedNext
<1>3. Supplied => SupplyByRule
  BY DEF Supplied
<1> QED BY <1>1, <1>2, <1>3, PTL DEF Spec
-----------------------------------------------------------------------------
(* The tables and those who act on them.  A block in its table is there as  *)
(* a whole, and only such a block has a coinbase;                           *)
Whole ==
  /\ \A h \in Nat \ {0} : Coinbase(h) \in DOMAIN utxos <=> h \in 1..Len(blocks)
  /\ \A h \in 1..Len(blocks) : \A j \in 1..Len(blocks[h].txids) : status[blocks[h].txids[j]] = "confirmed"
(* nobody spends more than there is;                                        *)
Covered == \A t \in Txs : status[t] # "absent" => Fee(t) >= 0
(* the rows a submission holds are there, each of them until it ends;       *)
Places == {"idle", "row", "reserved", "insert"}
Submitted ==
  /\ sub \in [Subs -> [pc : Places, i : Nat]]
  /\ \A s \in Subs : sub[s].i \in 1..Len(Inputs[TxOf[s]])
  /\ \A s \in Subs : At(s, "insert") => sub[s].i = Len(Inputs[TxOf[s]])
  /\ \A s \in Subs : \A o \in Locked(s) : Row(o)
(* a template whose height is still the next one is as good as it was.      *)
Standing(job) ==
  /\ Version = "v2" => job.honest
  /\ job.honest /\ job.pc \in {"mined", "check", "rpc"} /\ job.height = Len(blocks) + 1 => Ready(job.txids)
Stands == \A m \in Miners : Standing(miner[m])

Books == Sound(Tables) /\ Listed /\ Whole /\ Covered /\ ValueKept
SqlInv == Supplied /\ Books /\ Submitted /\ Stands /\ refused = FALSE

(* The tables decide the rest.                                              *)
LEMMA BooksSame ==
  ASSUME Books, UNCHANGED Ledger
  PROVE  Books'
<1>1. blocks' = blocks /\ utxos' = utxos /\ status' = status /\ mempool' = mempool /\ spends' = spends /\ outs' = outs
  BY DEF Ledger
<1>2. Sound(Tables)' = Sound(Tables)
  BY <1>1 DEF Tables, Sound, RowsSound, PoolSound, Settled, Waits
<1>3. Listed' = Listed
  BY <1>1 DEF Listed
<1>4. Whole' = Whole
  BY <1>1 DEF Whole
<1>5. Covered' = Covered
  BY <1>1 DEF Covered, Fee, Value
<1>6. ValueKept' = ValueKept
  BY <1>1 DEF ValueKept, Fee, Value, Issued
<1> QED BY <1>2, <1>3, <1>4, <1>5, <1>6 DEF Books

(* A template stands while nothing that is pending is taken away.           *)
LEMMA StandsSame ==
  ASSUME Stands, UNCHANGED <<blocks, utxos, miner>>,
         \A t \in Txs : status[t] = "pending" => status'[t] = "pending"
  PROVE  Stands'
<1>1. ASSUME NEW l, Ready(l) PROVE Ready(l)'
  <2>1. l \in Seq(Txs) /\ \A j \in 1..Len(l) : l[j] \in Txs
    BY <1>1 DEF Ready
  <2>2. \A j \in 1..Len(l) : status'[l[j]] = "pending"
    BY <1>1, <2>1 DEF Ready
  <2> QED BY <1>1, <2>2 DEF Ready
<1> QED BY <1>1 DEF Stands, Standing

(* A submission of which s is the one that goes on.                         *)
LEMMA SubmittedStep ==
  ASSUME SqlAssumption, Submitted, NEW s \in Subs, NEW pc \in Places, NEW i \in 1..Len(Inputs[TxOf[s]]),
         sub' = [sub EXCEPT ![s] = [pc |-> pc, i |-> i]],
         pc = "insert" => i = Len(Inputs[TxOf[s]]),
         \A o : Row(o) => Row(o)',
         \A o \in Locked(s)' : Row(o)'
  PROVE  Submitted'
<1>1. TxOf[s] \in Txs
  BY DEF SqlAssumption
<1>2. Len(Inputs[TxOf[s]]) \in Nat
  BY <1>1, TxFacts
<1>3. i \in Nat
  BY <1>2
<1>4. /\ sub' \in [Subs -> [pc : Places, i : Nat]]
      /\ sub'[s].pc = pc /\ sub'[s].i = i
      /\ \A r \in Subs : r # s => sub'[r] = sub[r]
  BY <1>3 DEF Submitted
<1>5. \A r \in Subs : r # s => Locked(r)' = Locked(r)
  BY <1>4 DEF Locked
<1>6. \A r \in Subs : \A o \in Locked(r)' : Row(o)'
  BY <1>5 DEF Submitted
<1>7. /\ \A r \in Subs : sub'[r].i \in 1..Len(Inputs[TxOf[r]])
      /\ \A r \in Subs : sub'[r].pc = "insert" => sub'[r].i = Len(Inputs[TxOf[r]])
  BY <1>4 DEF Submitted, At
<1> QED BY <1>4, <1>6, <1>7 DEF Submitted, At

(* One that ends holds nothing.                                             *)
LEMMA SubmittedAnswer ==
  ASSUME SqlAssumption, Submitted, NEW s \in Subs, Answer(s), \A o : Row(o) => Row(o)'
  PROVE  Submitted'
<1>1. sub' = [sub EXCEPT ![s] = [pc |-> "idle", i |-> 1]]
  BY DEF Answer, NoSub
<1>2. TxOf[s] \in Txs
  BY DEF SqlAssumption
<1>3. Len(Inputs[TxOf[s]]) \in Nat \ {0}
  BY <1>2, TxFacts
<1>4. 1 \in 1..Len(Inputs[TxOf[s]])
  BY <1>3
<1>5. "idle" \in Places
  BY DEF Places
<1>6. sub'[s].pc = "idle"
  BY <1>1 DEF Submitted
<1>7. \A o \in Locked(s)' : Row(o)'
  BY <1>6 DEF Locked
<1> QED BY <1>1, <1>4, <1>5, <1>7, SubmittedStep

(* The statements that only read.                                           *)
LEMMA ReadingKeeps ==
  ASSUME SqlAssumption, SqlInv, NEW s \in Subs, Begin(s) \/ ReadRow(s) \/ CheckReserved(s) \/ AbortTx(s)
  PROVE  SqlInv'
<1>1. UNCHANGED <<Ledger, miner, refused>>
  BY DEF Begin, ReadRow, CheckReserved, AbortTx
<1>2. utxos' = utxos /\ outs' = outs /\ blocks' = blocks /\ miner' = miner /\ mempool' = mempool /\ status' = status
  BY <1>1 DEF Ledger
<1>3. Books'
  BY <1>1, BooksSame DEF SqlInv
<1>4. Stands'
  BY <1>2, StandsSame DEF SqlInv
<1>5. Supplied'
  BY <1>2, PoolStep DEF SqlInv, Supplied
<1>6. \A o : Row(o)' = Row(o)
  BY <1>2 DEF Row
<1>7. Submitted
  BY DEF SqlInv
<1> DEFINE t == TxOf[s]
           n == sub[s].i
<1>8. t \in Txs
  BY DEF SqlAssumption
<1>9. Len(Inputs[t]) \in Nat \ {0} /\ n \in 1..Len(Inputs[t]) /\ 1 \in 1..Len(Inputs[t])
  <2>1. Len(Inputs[t]) \in Nat \ {0}
    BY <1>8, TxFacts
  <2>2. n \in 1..Len(Inputs[t])
    BY <1>7 DEF Submitted
  <2> QED BY <2>1, <2>2
<1>10. {"row", "reserved", "insert"} \subseteq Places
  BY DEF Places
<1>11. CASE Answer(s)
  <2>1. Submitted'
    BY <1>6, <1>7, <1>11, SubmittedAnswer
  <2> QED BY <1>1, <1>3, <1>4, <1>5, <2>1 DEF SqlInv
<1>12. ASSUME NEW pc \in Places, NEW i \in 1..Len(Inputs[t]), Go(s, pc, i), pc = "insert" => i = Len(Inputs[t]),
              \A o \in Locked(s)' : Row(o)'
       PROVE  SqlInv'
  <2>1. sub' = [sub EXCEPT ![s] = [pc |-> pc, i |-> i]]
    BY <1>12 DEF Go
  <2>2. Submitted'
    BY <1>6, <1>7, <1>12, <2>1, SubmittedStep
  <2> QED BY <1>1, <1>3, <1>4, <1>5, <2>2 DEF SqlInv
<1>13. ASSUME NEW pc, NEW i, Go(s, pc, i) PROVE sub'[s].pc = pc /\ sub'[s].i = i
  BY <1>7, <1>13 DEF Go, Submitted
<1>14. CASE Begin(s)
  <2>1. Go(s, "row", 1)
    BY <1>14 DEF Begin
  <2>2. Locked(s)' = {}
    <3>1. 1..(1 - 1) = {}
      OBVIOUS
    <3>2. sub'[s].pc = "row" /\ sub'[s].i = 1
      BY <1>13, <2>1
    <3> QED BY <3>1, <3>2 DEF Locked
  <2> QED BY <1>9, <1>10, <1>12, <2>1, <2>2
<1>15. CASE ReadRow(s)
  <2>1. At(s, "row") /\ (Answer(s) \/ (Row(Input(s)) /\ Go(s, "reserved", n)))
    BY <1>15 DEF ReadRow
  <2>2. CASE Row(Input(s)) /\ Go(s, "reserved", n)
    <3>1. sub'[s].pc = "reserved" /\ sub'[s].i = n
      BY <1>13, <2>2
    <3>2. 1..(n - 0) = 1..(n - 1) \cup {n}
      BY <1>9
    <3>3. Locked(s)' = Locked(s) \cup {Input(s)}
      BY <2>1, <3>1, <3>2 DEF Locked, At, Input
    <3>4. \A o \in Locked(s)' : Row(o)'
      BY <1>6, <1>7, <2>2, <3>3 DEF Submitted
    <3> QED BY <1>9, <1>10, <1>12, <2>2, <3>4
  <2> QED BY <1>11, <2>1, <2>2
<1>16. CASE CheckReserved(s)
  <2>1. /\ At(s, "reserved")
        /\ Answer(s) \/ (n < Len(Inputs[t]) /\ Go(s, "row", n + 1)) \/ (~(n < Len(Inputs[t])) /\ Go(s, "insert", n))
    BY <1>16 DEF CheckReserved
  <2>2. CASE n < Len(Inputs[t]) /\ Go(s, "row", n + 1)
    <3>1. sub'[s].pc = "row" /\ sub'[s].i = n + 1
      BY <1>13, <2>2
    <3>2. n + 1 - 1 = n - 0 /\ n + 1 \in 1..Len(Inputs[t])
      BY <1>9, <2>2
    <3>3. Locked(s)' = Locked(s)
      <4>1. 1..(n + 1 - 1) = 1..n /\ 1..(n - 0) = 1..n
        BY <1>9, <3>2
      <4>2. Locked(s)' = {Inputs[t][j] : j \in 1..n}
        <5>1. 1..(sub'[s].i - (IF sub'[s].pc = "row" THEN 1 ELSE 0)) = 1..n
          <6>1. (IF sub'[s].pc = "row" THEN 1 ELSE 0) = 1
            BY <3>1
          <6>2. n \in Nat
            BY <1>9
          <6>3. sub'[s].i - (IF sub'[s].pc = "row" THEN 1 ELSE 0) = n
            BY <3>1, <6>1, <6>2
          <6> QED BY <6>3, Zenon
        <5>2. sub'[s].pc # "idle"
          BY <3>1
        <5> QED BY <5>1, <5>2, Zenon DEF Locked
      <4>3. Locked(s) = {Inputs[t][j] : j \in 1..n}
        <5>1. 1..(n - (IF sub[s].pc = "row" THEN 1 ELSE 0)) = 1..n
          BY <2>1, <4>1 DEF At
        <5> QED BY <2>1, <5>1 DEF Locked, At
      <4> QED BY <4>2, <4>3
    <3>4. \A o \in Locked(s)' : Row(o)'
      BY <1>6, <1>7, <3>3 DEF Submitted
    <3> QED BY <1>10, <1>12, <2>2, <3>2, <3>4
  <2>3. CASE ~(n < Len(Inputs[t])) /\ Go(s, "insert", n)
    <3>1. sub'[s].pc = "insert" /\ sub'[s].i = n /\ n = Len(Inputs[t])
      BY <1>9, <1>13, <2>3
    <3>2. Locked(s)' = Locked(s)
      BY <2>1, <3>1 DEF Locked, At
    <3>3. \A o \in Locked(s)' : Row(o)'
      BY <1>6, <1>7, <3>2 DEF Submitted
    <3> QED BY <1>9, <1>10, <1>12, <2>3, <3>1, <3>3
  <2> QED BY <1>11, <2>1, <2>2, <2>3
<1>17. CASE AbortTx(s)
  BY <1>11, <1>17 DEF AbortTx
<1> QED BY <1>14, <1>15, <1>16, <1>17

(* The reservations of one transaction,                                     *)
LEMMA ReservedFor ==
  ASSUME NEW t
  PROVE  /\ \A o \in InputSet(t) : <<o, t>> \in Reservations(t)
         /\ \A r \in Reservations(t) : \E o \in InputSet(t) : r = <<o, t>>
BY DEF Reservations

(* A submission makes t pending: it is new, pays for itself and spends only *)
(* what nobody else has reserved.                                           *)
Joins(t) ==
  /\ status[t] = "absent" /\ Fee(t) >= 0
  /\ \A o \in InputSet(t) : Row(o) /\ \A u \in Txs : <<o, u>> \notin spends
  /\ status' = [status EXCEPT ![t] = "pending"] /\ mempool' = Append(mempool, t)
  /\ spends' = spends \cup Reservations(t) /\ outs' = outs \cup {Out(t)}
  /\ blocks' = blocks /\ utxos' = utxos

(* The inserts leave everything alone, or t joins the pool.                 *)
LEMMA InsertCases ==
  ASSUME SqlAssumption, SqlInv, NEW s \in Subs, Insert(s)
  PROVE  UNCHANGED Ledger \/ Joins(TxOf[s])
<1> DEFINE t == TxOf[s]
<1>1. t \in Txs
  BY DEF SqlAssumption
<1>2. sub[s].pc = "insert" /\ sub[s].i = Len(Inputs[t]) /\ \A o \in Locked(s) : Row(o)
  BY DEF SqlInv, Submitted, Insert, At
<1>3. Fee(t) \in Int
  BY <1>1, FeeFacts DEF SqlInv, Books
<1>4. InputSet(t) \subseteq Locked(s)
  <2>1. Len(Inputs[t]) \in Nat /\ DOMAIN Inputs[t] = 1..Len(Inputs[t])
    BY <1>1, TxFacts
  <2>2. 1..(sub[s].i - (IF sub[s].pc = "row" THEN 1 ELSE 0)) = DOMAIN Inputs[t]
    BY <1>2, <2>1
  <2>3. sub[s].pc # "idle"
    BY <1>2
  <2> QED BY <2>2, <2>3, Zenon DEF Locked, InputSet
<1>5. CASE ~(Fee(t) < 0 \/ status[t] # "absent" \/ \E r \in Reservations(t), u \in Txs : <<r[1], u>> \in spends)
  <2>1. /\ status' = [status EXCEPT ![t] = "pending"] /\ mempool' = Append(mempool, t)
        /\ spends' = spends \cup Reservations(t) /\ outs' = outs \cup {Out(t)}
        /\ blocks' = blocks /\ utxos' = utxos
    BY <1>5 DEF Insert
  <2>2. Fee(t) >= 0 /\ status[t] = "absent"
    BY <1>3, <1>5
  <2>3. ASSUME NEW o \in InputSet(t), NEW u \in Txs PROVE <<o, u>> \notin spends
    <3>1. <<o, t>> \in Reservations(t)
      BY ReservedFor
    <3>2. <<o, t>>[1] = o
      OBVIOUS
    <3> QED BY <1>5, <3>1, <3>2
  <2> QED BY <1>2, <1>4, <2>1, <2>2, <2>3 DEF Joins
<1>6. CASE Fee(t) < 0 \/ status[t] # "absent" \/ \E r \in Reservations(t), u \in Txs : <<r[1], u>> \in spends
  BY <1>6 DEF Insert
<1> QED BY <1>5, <1>6

(* The tables stay sound when a transaction joins the pool.                 *)
LEMMA JoinedPool ==
  ASSUME SqlAssumption, Sound(Tables), NEW t \in Txs, Joins(t)
  PROVE  Sound(Tables)'
<1>1. /\ status \in [Txs -> Statuses] /\ IsFiniteSet(Settled(Tables)) /\ RowsSound(Tables) /\ PoolSound(Tables)
      /\ Tables.status = status /\ Tables.utxos = utxos /\ Tables.spends = spends /\ Tables.outs = outs
  BY DEF Sound, Tables
<1>2. /\ DOMAIN Tables' = Fields /\ Tables'.status = status' /\ Tables'.utxos = utxos
      /\ Tables'.spends = spends' /\ Tables'.outs = outs'
  BY DEF Tables, Fields, Joins
<1>3. /\ status' \in [Txs -> Statuses] /\ status'[t] = "pending" /\ status[t] = "absent"
      /\ \A u \in Txs : u # t => status'[u] = status[u]
  BY <1>1 DEF Joins, Statuses
<1>4. Settled(Tables') = Settled(Tables)
  BY <1>1, <1>2, <1>3 DEF Settled
<1>5. RowsSound(Tables')
  BY <1>1, <1>2, <1>3 DEF RowsSound
<1>6. PoolSound(Tables')
  <2>1. \A u \in Txs : Waits(Tables', u) <=> Waits(Tables, u) \/ u = t
    BY <1>1, <1>2, <1>3 DEF Waits
  <2>2. spends' = spends \cup Reservations(t) /\ outs' = outs \cup {Out(t)}
    BY DEF Joins
  <2>3. \A r \in spends' : \E u \in Txs : \E o \in InputSet(u) : Waits(Tables', u) /\ r = <<o, u>>
    <3>1. \A r \in spends : \E u \in Txs : \E o \in InputSet(u) : Waits(Tables, u) /\ r = <<o, u>>
      BY <1>1 DEF PoolSound
    <3>2. \A r \in Reservations(t) : \E o \in InputSet(t) : r = <<o, t>>
      BY ReservedFor
    <3> QED BY <2>1, <2>2, <3>1, <3>2
  <2>4. \A u \in Txs : Waits(Tables', u) => \A o \in InputSet(u) : <<o, u>> \in spends'
    <3>1. \A u \in Txs : Waits(Tables, u) => \A o \in InputSet(u) : <<o, u>> \in spends
      BY <1>1 DEF PoolSound
    <3>2. \A o \in InputSet(t) : <<o, t>> \in Reservations(t)
      BY ReservedFor
    <3> QED BY <2>1, <2>2, <3>1, <3>2
  <2>5. ASSUME NEW u \in Txs, NEW v \in Txs, Waits(Tables', u), Waits(Tables', v), u # v
        PROVE  InputSet(u) \cap InputSet(v) = {}
    <3>1. \A w \in Txs : Waits(Tables, w) => InputSet(w) \cap InputSet(t) = {}
      <4>1. \A w \in Txs : Waits(Tables, w) => \A o \in InputSet(w) : <<o, w>> \in spends
        BY <1>1 DEF PoolSound
      <4>2. \A o \in InputSet(t) : \A w \in Txs : <<o, w>> \notin spends
        BY DEF Joins
      <4> QED BY <4>1, <4>2
    <3>2. Waits(Tables, u) /\ Waits(Tables, v) => InputSet(u) \cap InputSet(v) = {}
      BY <1>1, <2>5 DEF PoolSound
    <3> QED BY <2>1, <2>5, <3>1, <3>2
  <2>6. \A x \in outs' : \E u \in Txs : Waits(Tables', u) /\ x = Out(u)
    <3>1. \A x \in outs : \E u \in Txs : Waits(Tables, u) /\ x = Out(u)
      BY <1>1 DEF PoolSound
    <3> QED BY <2>1, <2>2, <3>1
  <2>7. \A u \in Txs : Waits(Tables', u) => Out(u) \in outs'
    <3>1. \A u \in Txs : Waits(Tables, u) => Out(u) \in outs
      BY <1>1 DEF PoolSound
    <3> QED BY <2>1, <2>2, <3>1
  <2>8. \A u \in Txs : Waits(Tables', u) => InputSet(u) \subseteq Unspent(utxos) \cup outs'
    <3>1. \A u \in Txs : Waits(Tables, u) => InputSet(u) \subseteq Unspent(utxos) \cup outs
      BY <1>1 DEF PoolSound
    <3>2. InputSet(t) \subseteq Unspent(utxos) \cup outs
      BY DEF Joins, Row
    <3> QED BY <2>1, <2>2, <3>1, <3>2
  <2> QED BY <1>2, <2>3, <2>4, <2>5, <2>6, <2>7, <2>8 DEF PoolSound
<1>7. Sound(Tables')
  BY <1>1, <1>2, <1>3, <1>4, <1>5, <1>6 DEF Sound
<1> QED BY <1>7

(* A row is there because its transaction was listed, or its block accepted. *)
LEMMA RowsAreKnown ==
  ASSUME SqlAssumption, Sound(Tables), Listed, NEW o, Row(o)
  PROVE  /\ \A u \in Txs : o = Out(u) => \E k \in 1..Len(mempool) : mempool[k] = u
         /\ \A h : o = Coinbase(h) => Coinbase(h) \in DOMAIN utxos
<1>1. /\ RowsSound(Tables) /\ PoolSound(Tables) /\ status \in [Txs -> Statuses]
      /\ Tables.status = status /\ Tables.utxos = utxos /\ Tables.outs = outs
  BY DEF Sound, Tables
<1>2. \A t \in Txs : status[t] # "absent" => \E i \in 1..Len(mempool) : mempool[i] = t
  BY DEF Listed
<1>3. o \in DOMAIN utxos \/ o \in outs
  BY DEF Row, Unspent
<1>4. ASSUME NEW u \in Txs, o = Out(u) PROVE status[u] # "absent"
  <2>1. CASE o \in DOMAIN utxos
    <3>1. status[u] = "confirmed"
      BY <1>1, <1>4, <2>1 DEF RowsSound
    <3> QED BY <3>1
  <2>2. CASE o \in outs
    <3>1. PICK v \in Txs : Waits(Tables, v) /\ o = Out(v)
      BY <1>1, <2>2 DEF PoolSound
    <3>2. v = u
      BY <1>4, <3>1 DEF Out
    <3> QED BY <1>1, <3>1, <3>2 DEF Waits
  <2> QED BY <1>3, <2>1, <2>2
<1>5. ASSUME NEW h, o = Coinbase(h) PROVE Coinbase(h) \in DOMAIN utxos
  <2>1. ASSUME o \in outs PROVE FALSE
    <3>1. PICK v \in Txs : o = Out(v)
      BY <1>1, <2>1 DEF PoolSound
    <3> QED BY <1>5, <3>1 DEF Out, Coinbase
  <2> QED BY <1>3, <1>5, <2>1
<1> QED BY <1>2, <1>4, <1>5

(* It is listed after what it spends.                                       *)
LEMMA JoinedList ==
  ASSUME SqlAssumption, Sound(Tables), Listed, NEW t \in Txs, Joins(t)
  PROVE  Listed'
<1>1. mempool \in Seq(Txs) /\ Len(mempool) \in Nat /\ status \in [Txs -> Statuses]
  BY DEF Listed, Sound, Tables
<1>2. mempool' = Append(mempool, t) /\ utxos' = utxos
  BY DEF Joins
<1> DEFINE n == Len(mempool)
<1>3. /\ mempool' \in Seq(Txs) /\ Len(mempool') = n + 1 /\ n \in Nat /\ mempool'[n + 1] = t
      /\ \A i \in 1..n : mempool'[i] = mempool[i]
      /\ 1..Len(mempool') = 1..n \cup {n + 1} /\ n + 1 \notin 1..n /\ 1..(n + 1 - 1) = 1..n
  BY <1>1, <1>2
<1>4. /\ status'[t] = "pending" /\ status[t] = "absent"
      /\ \A u \in Txs : u # t => status'[u] = status[u]
  BY <1>1 DEF Joins
<1>5. \A i \in 1..n : mempool[i] \in Txs /\ mempool[i] # t /\ status[mempool[i]] # "absent"
  BY <1>1, <1>4 DEF Listed
<1> HIDE DEF n
<1>6. \A i, j \in 1..Len(mempool') : mempool'[i] = mempool'[j] => i = j
  <2>1. \A i, j \in 1..n : mempool[i] = mempool[j] => i = j
    BY DEF Listed, n
  <2> QED BY <1>3, <1>5, <2>1
<1>7. \A i \in 1..Len(mempool') : status'[mempool'[i]] # "absent"
  BY <1>3, <1>4, <1>5
<1>8. \A u \in Txs : status'[u] # "absent" => \E i \in 1..Len(mempool') : mempool'[i] = u
  <2>1. \A u \in Txs : status[u] # "absent" => \E i \in 1..n : mempool[i] = u
    BY DEF Listed, n
  <2> QED BY <1>3, <1>4, <2>1
<1>9. ASSUME NEW i \in 1..Len(mempool'), NEW u \in Txs, Out(u) \in InputSet(mempool'[i])
      PROVE  \E k \in 1..(i - 1) : mempool'[k] = u
  <2>1. CASE i \in 1..n
    <3>1. PICK k \in 1..(i - 1) : mempool[k] = u
      BY <1>3, <1>9, <2>1 DEF Listed, n
    <3>2. k \in 1..n
      BY <1>3, <2>1
    <3> QED BY <1>3, <3>1, <3>2
  <2>2. CASE i = n + 1
    <3>1. Row(Out(u))
      BY <1>3, <1>9, <2>2 DEF Joins
    <3>2. PICK k \in 1..n : mempool[k] = u
      BY <3>1, RowsAreKnown DEF n
    <3> QED BY <1>3, <2>2, <3>2
  <2> QED BY <1>3, <2>1, <2>2
<1>10. ASSUME NEW u \in Txs, NEW h, status'[u] # "absent", Coinbase(h) \in InputSet(u)
       PROVE  Coinbase(h) \in DOMAIN utxos'
  <2>1. CASE u = t
    <3>1. Row(Coinbase(h))
      BY <1>10, <2>1 DEF Joins
    <3> QED BY <1>2, <3>1, RowsAreKnown
  <2>2. CASE u # t
    BY <1>2, <1>4, <1>10, <2>2 DEF Listed
  <2> QED BY <2>1, <2>2
<1> QED BY <1>3, <1>6, <1>7, <1>8, <1>9, <1>10 DEF Listed

(* The values are what they were.                                           *)
LEMMA JoinedBooks ==
  ASSUME SqlAssumption, SqlInv, NEW t \in Txs, Joins(t)
  PROVE  Books'
<1>1. Books
  BY DEF SqlInv
<1>2. utxos' = utxos /\ blocks' = blocks
  BY DEF Joins
<1>3. status \in [Txs -> Statuses]
  BY <1>1 DEF Books, Sound, Tables
<1>4. /\ status'[t] = "pending" /\ status[t] = "absent"
      /\ \A u \in Txs : u # t => status'[u] = status[u]
  BY <1>3 DEF Joins
<1>5. \A u \in Txs : Fee(u)' = Fee(u)
  BY <1>2 DEF Fee, Value
<1>6. Sound(Tables)' /\ Listed'
  BY <1>1, JoinedPool, JoinedList DEF Books
<1>7. Whole'
  <2>1. blocks \in Seq(Block)
    BY DEF SqlInv, Supplied
  <2>2. \A h \in 1..Len(blocks) : blocks[h] \in Block
    BY <2>1
  <2>3. \A b \in Block : b.txids \in Seq(Txs)
    BY DEF Block
  <2>4. \A h \in 1..Len(blocks) : \A j \in 1..Len(blocks[h].txids) : blocks[h].txids[j] \in Txs
    BY <2>2, <2>3
  <2>5. \A h \in 1..Len(blocks) : \A j \in 1..Len(blocks[h].txids) : status[blocks[h].txids[j]] = "confirmed"
    BY <1>1 DEF Books, Whole
  <2>6. \A h \in 1..Len(blocks) : \A j \in 1..Len(blocks[h].txids) : status'[blocks[h].txids[j]] = "confirmed"
    BY <1>4, <2>4, <2>5
  <2> QED BY <1>1, <1>2, <2>6 DEF Books, Whole
<1>8. Covered'
  BY <1>1, <1>4, <1>5 DEF Books, Covered, Joins
<1>9. ValueKept'
  <2>1. {u \in Txs : status'[u] = "confirmed"} = {u \in Txs : status[u] = "confirmed"}
    BY <1>4
  <2>2. [u \in Txs |-> Fee(u)'] = [u \in Txs |-> Fee(u)]
    BY <1>5, Zenon
  <2>3. Issued' = Issued
    BY <1>2 DEF Issued
  <2>4. ValueKept
    BY <1>1 DEF Books
  <2> QED BY <1>2, <2>1, <2>2, <2>3, <2>4, Zenon DEF ValueKept
<1> QED BY <1>6, <1>7, <1>8, <1>9 DEF Books

(* An insert keeps everything.                                              *)
LEMMA InsertKeeps ==
  ASSUME SqlAssumption, SqlInv, NEW s \in Subs, Insert(s)
  PROVE  SqlInv'
<1> DEFINE t == TxOf[s]
<1>1. t \in Txs
  BY DEF SqlAssumption
<1>2. UNCHANGED Ledger \/ Joins(t)
  BY InsertCases
<1>3. Answer(s) /\ miner' = miner /\ refused' = refused
  BY DEF Insert
<1>4. Supplied'
  BY SuppliedNext DEF SqlInv, Next
<1>5. Books'
  BY <1>1, <1>2, JoinedBooks, BooksSame DEF SqlInv
<1>6. utxos' = utxos /\ outs \subseteq outs' /\ blocks' = blocks
  BY <1>2 DEF Joins, Ledger
<1>7. \A u \in Txs : status[u] = "pending" => status'[u] = "pending"
  <2>1. status \in [Txs -> Statuses]
    BY DEF SqlInv, Books, Sound, Tables
  <2> QED BY <1>2, <2>1 DEF Joins, Ledger
<1>8. Stands'
  BY <1>3, <1>6, <1>7, StandsSame DEF SqlInv
<1>9. \A o : Row(o) => Row(o)'
  BY <1>6 DEF Row
<1>10. Submitted'
  BY <1>3, <1>9, SubmittedAnswer DEF SqlInv
<1> QED BY <1>3, <1>4, <1>5, <1>8, <1>10 DEF SqlInv
-----------------------------------------------------------------------------
(* A miner reads, and its template stands.                                  *)
LEMMA MinerKeeps ==
  ASSUME SqlAssumption, SqlInv, NEW m \in Miners, NEW to, miner' = [miner EXCEPT ![m] = to],
         UNCHANGED <<Ledger, sub, refused>>, Supplied', Standing(to)
  PROVE  SqlInv'
<1>1. /\ blocks' = blocks /\ utxos' = utxos /\ outs' = outs /\ status' = status /\ sub' = sub
  BY DEF Ledger
<1>2. Books'
  BY BooksSame DEF SqlInv
<1>3. Submitted'
  BY <1>1 DEF SqlInv, Submitted, Locked, Row, At
<1>4. \A n \in Miners : miner'[n] = to \/ miner'[n] = miner[n]
  BY DEF SqlInv, Supplied
<1>5. \A n \in Miners : Standing(miner'[n])
  BY <1>4 DEF SqlInv, Stands
<1>6. \A l : Ready(l)' = Ready(l)
  BY <1>1 DEF Ready
<1>7. Stands'
  BY <1>1, <1>5, <1>6 DEF Stands, Standing
<1> QED BY <1>2, <1>3, <1>7 DEF SqlInv

(* A miner without a template has none that could be refused.               *)
LEMMA NoBlockStands == Standing(NoBlock)
BY DEF Standing, NoBlock

(* A field more, of a template that stands.                                 *)
LEMMA StandsOn ==
  ASSUME SqlAssumption, SqlInv, NEW m \in Miners, NEW to, miner' = [miner EXCEPT ![m] = to],
         UNCHANGED <<Ledger, sub, refused>>, Supplied', to.honest = miner[m].honest,
         to.pc \in {"mined", "check", "rpc"} =>
           /\ miner[m].pc \in {"mined", "check", "rpc"}
           /\ to.height = miner[m].height /\ to.txids = miner[m].txids
  PROVE  SqlInv'
<1>1. Standing(miner[m])
  BY DEF SqlInv, Stands
<1>2. Standing(to)
  BY <1>1 DEF Standing
<1> QED BY <1>2, MinerKeeps

(* The requests of a miner before its block keep the invariant.             *)
LEMMA TemplateKeeps ==
  ASSUME SqlAssumption, Version = "v2" => Choosers = {}, SqlInv, NEW m \in Miners,
         TemplateTip(m) \/ TemplateIssued(m) \/ TemplatePending(m) \/ SubmitTip(m) \/ SubmitIssued(m) \/ Drop(m)
  PROVE  SqlInv'
<1>1. UNCHANGED <<Ledger, sub, refused>>
  BY DEF TemplateTip, TemplateIssued, TemplatePending, SubmitTip, SubmitIssued, Drop, Step
<1>2. Supplied'
  BY SuppliedTemplate, SuppliedSubmit DEF SqlInv
<1>3. miner[m] \in Job
  BY DEF SqlInv, Supplied
<1>4. CASE miner' = [miner EXCEPT ![m] = NoBlock]
  BY <1>1, <1>2, <1>4, NoBlockStands, MinerKeeps
<1>5. CASE TemplateTip(m)
  <2>1. PICK to : to = [NoBlock EXCEPT !.pc = "issued", !.height = Len(blocks) + 1]
    OBVIOUS
  <2>2. miner' = [miner EXCEPT ![m] = to]
    BY <1>5, <2>1 DEF TemplateTip, Step
  <2>3. to.pc = "issued" /\ to.honest = TRUE
    BY <2>1 DEF NoBlock
  <2>4. Standing(to)
    BY <2>3 DEF Standing
  <2> QED BY <1>1, <1>2, <2>2, <2>4, MinerKeeps
<1>6. CASE TemplateIssued(m)
  <2>1. PICK to : to = [miner[m] EXCEPT !.pc = "pending", !.reward = Reward(Issued)]
    OBVIOUS
  <2>2. miner' = [miner EXCEPT ![m] = to] \/ miner' = [miner EXCEPT ![m] = NoBlock]
    BY <1>6, <2>1 DEF TemplateIssued, Step
  <2>3. to.pc = "pending" /\ to.honest = miner[m].honest
    BY <1>3, <2>1 DEF Job
  <2> QED BY <1>1, <1>2, <1>4, <2>2, <2>3, StandsOn
<1>7. CASE TemplatePending(m)
  <2>1. CASE miner' = [miner EXCEPT ![m] = [miner[m] EXCEPT !.pc = "mined", !.txids = Pending]]
    <3>1. PICK to : to = [miner[m] EXCEPT !.pc = "mined", !.txids = Pending]
      OBVIOUS
    <3>2. to.txids = Pending /\ to.honest = miner[m].honest
      BY <1>3, <3>1 DEF Job
    <3>3. Ready(Pending)
      BY PendingReady DEF SqlInv, Books
    <3>4. Standing(miner[m])
      BY DEF SqlInv, Stands
    <3>5. Standing(to)
      BY <3>2, <3>3, <3>4 DEF Standing
    <3> QED BY <1>1, <1>2, <2>1, <3>1, <3>5, MinerKeeps
  <2>2. ASSUME m \in Choosers, NEW l \in Own,
               miner' = [miner EXCEPT ![m] = [miner[m] EXCEPT !.pc = "mined", !.txids = l, !.honest = FALSE]]
        PROVE  SqlInv'
    <3>1. PICK to : to = [miner[m] EXCEPT !.pc = "mined", !.txids = l, !.honest = FALSE]
      OBVIOUS
    <3>2. to.honest = FALSE /\ Version # "v2"
      BY <1>3, <2>2, <3>1 DEF Job
    <3>3. Standing(to)
      BY <3>2 DEF Standing
    <3> QED BY <1>1, <1>2, <2>2, <3>1, <3>3, MinerKeeps
  <2> QED BY <1>7, <2>1, <2>2, Zenon DEF TemplatePending, Step
<1>8. CASE SubmitTip(m)
  <2>1. PICK to : to = [miner[m] EXCEPT !.pc = "check"]
    OBVIOUS
  <2>2. /\ miner' = [miner EXCEPT ![m] = to] \/ miner' = [miner EXCEPT ![m] = NoBlock]
        /\ miner[m].pc = "mined"
    BY <1>8, <2>1 DEF SubmitTip, Step
  <2>3. to.honest = miner[m].honest /\ to.height = miner[m].height /\ to.txids = miner[m].txids
    BY <1>3, <2>1 DEF Job
  <2> QED BY <1>1, <1>2, <1>4, <2>2, <2>3, StandsOn
<1>9. CASE SubmitIssued(m)
  <2>1. PICK to : to = [miner[m] EXCEPT !.pc = "rpc"]
    OBVIOUS
  <2>2. /\ miner' = [miner EXCEPT ![m] = to] \/ miner' = [miner EXCEPT ![m] = NoBlock]
        /\ miner[m].pc = "check"
    BY <1>9, <2>1 DEF SubmitIssued, Step
  <2>3. to.honest = miner[m].honest /\ to.height = miner[m].height /\ to.txids = miner[m].txids
    BY <1>3, <2>1 DEF Job
  <2> QED BY <1>1, <1>2, <1>4, <2>2, <2>3, StandsOn
<1>10. CASE Drop(m)
  BY <1>4, <1>10 DEF Drop, Step
<1> QED BY <1>5, <1>6, <1>7, <1>8, <1>9, <1>10
-----------------------------------------------------------------------------
(* What a block was accepted with: all of it, and its coinbase.             *)
Paid(b) == IF Version = "v3" THEN b.reward + Fees(b.txids) ELSE b.reward
Accepted(b) == NextHeight(b) /\ ~After(b).left /\ Written(b, After(b), Paid(b))

(* A block is accepted as a whole, or nothing is written; one that stands   *)
(* is accepted.                                                             *)
LEMMA RpcCases ==
  ASSUME SqlAssumption, SqlInv, NEW m \in Miners, SubmitRpc(m), NEW b, b = miner[m]
  PROVE  \/ Accepted(b)
         \/ UNCHANGED Ledger /\ ~(b.honest /\ b.height = Len(blocks) + 1)
<1>1. b.pc = "rpc" /\ AcceptBlock(b)
  BY DEF SubmitRpc
<1>2. /\ Version = "v2" => b.honest
      /\ b.honest /\ b.height = Len(blocks) + 1 => Ready(b.txids)
  BY <1>1 DEF SqlInv, Stands, Standing
<1>3. NextHeight(b) <=> b.height = Len(blocks) + 1
  <2>1. Len(blocks) \in Nat /\ b.height \in Nat
    BY DEF SqlInv, Supplied, Job
  <2> QED BY <2>1 DEF NextHeight
<1>4. Ready(b.txids) => ~After(b).left /\ Prevalidated(b)
  BY ReadyGoesThrough, ReadyPrevalidates DEF SqlInv, Books
<1>5. CASE Version = "v2" /\ AcceptBlockV2(b)
  <2>1. Paid(b) = b.reward
    BY <1>5 DEF Paid
  <2> QED BY <1>2, <1>3, <1>4, <1>5, <2>1, Zenon DEF AcceptBlockV2, Accepted
<1>6. CASE Version = "v2_atomic" /\ AcceptBlockAtomic(b)
  <2>1. Paid(b) = b.reward
    BY <1>6 DEF Paid
  <2> QED BY <1>2, <1>3, <1>4, <1>6, <2>1, Zenon DEF AcceptBlockAtomic, Accepted
<1>7. CASE Version = "v3" /\ AcceptBlockV3(b)
  <2>1. Paid(b) = b.reward + Fees(b.txids)
    BY <1>7 DEF Paid
  <2> QED BY <1>2, <1>3, <1>4, <1>7, <2>1, Zenon DEF AcceptBlockV3, Accepted
<1> QED BY <1>1, <1>5, <1>6, <1>7 DEF AcceptBlock

(* What is known of a block b that was accepted, d the tables with its      *)
(* transactions and h its height.                                           *)
Settles(b, d, h) ==
  /\ b \in Job /\ b.txids \in Seq(Txs) /\ h = Len(blocks) + 1 /\ h \in Nat \ {0} /\ Len(blocks) \in Nat
  /\ DOMAIN d = Fields /\ ~d.left /\ Sound(d) /\ Through(b.txids, Len(b.txids), d)
  /\ \A j \in 1..Len(b.txids) : status[b.txids[j]] = "pending" /\ d.status[b.txids[j]] = "confirmed"
  /\ Fees(b.txids) \in Nat /\ Paid(b) \in Nat
  /\ Coinbase(h) \notin DOMAIN d.utxos /\ Coinbase(h) \notin DOMAIN utxos
  /\ Grown(d.utxos, Coinbase(h), Paid(b), utxos')
  /\ status' = d.status /\ spends' = d.spends /\ outs' = d.outs /\ mempool' = mempool
  /\ blocks' = Append(blocks, [reward |-> b.reward, txids |-> b.txids])

(* All of that holds of a block that was accepted.                          *)
LEMMA AcceptedFacts ==
  ASSUME SqlAssumption, SqlInv, NEW m \in Miners, NEW b, b = miner[m], Accepted(b), NEW d, d = After(b), NEW h, h = b.height
  PROVE  Settles(b, d, h)
<1>1. b \in Job /\ b.txids \in Seq(Txs) /\ b.reward \in Nat /\ Len(blocks) \in Nat
  <2>1. b \in Job /\ Subsidy \in Nat /\ Len(blocks) \in Nat
    BY DEF SqlInv, Supplied, SqlAssumption
  <2> QED BY <2>1 DEF Job
<1>2. h = Len(blocks) + 1 /\ h \in Nat \ {0} /\ ~d.left
  BY <1>1 DEF Accepted, NextHeight
<1>3. Sound(Tables) /\ Covered /\ Whole
  BY DEF SqlInv, Books
<1>4. Len(b.txids) \in Nat /\ Len(b.txids) \in 0..Len(b.txids) /\ \A j \in 1..Len(b.txids) : b.txids[j] \in Txs
  BY <1>1
<1>5. d = Steps(b)[Len(b.txids)]
  BY <1>4, StepsEquation, Zenon
<1>6. DOMAIN d = Fields /\ Through(b.txids, Len(b.txids), d)
  BY <1>1, <1>2, <1>3, <1>4, <1>5, WentThrough
<1>7. /\ Sound(d)
      /\ \A j \in 1..Len(b.txids) : status[b.txids[j]] = "pending" /\ d.status[b.txids[j]] = "confirmed"
      /\ DOMAIN d.utxos = DOMAIN utxos \cup {Out(b.txids[j]) : j \in 1..Len(b.txids)}
  BY <1>6 DEF Through
<1>8. \A j \in 1..Len(b.txids) : Fee(b.txids[j]) >= 0
  BY <1>3, <1>4, <1>7 DEF Covered
<1>9. Fees(b.txids) \in Nat
  BY <1>1, <1>2, <1>3, <1>8, BlockValue
<1>10. Paid(b) \in Nat
  BY <1>1, <1>9 DEF Paid
<1>11. Coinbase(h) \notin DOMAIN utxos
  BY <1>1, <1>2, <1>3 DEF Whole
<1>12. Coinbase(h) \notin DOMAIN d.utxos
  BY <1>7, <1>11 DEF Out, Coinbase
<1>13. Written(b, d, Paid(b))
  BY DEF Accepted
<1>14. utxos' = Created(d.utxos, Coinbase(h), Paid(b))
  BY <1>2, <1>13, Zenon DEF Written
<1>15. Grown(d.utxos, Coinbase(h), Paid(b), utxos')
  BY <1>14, CreatedFacts, Zenon
<1>16. /\ status' = d.status /\ spends' = d.spends /\ outs' = d.outs /\ mempool' = mempool
       /\ blocks' = Append(blocks, [reward |-> b.reward, txids |-> b.txids])
  BY <1>13 DEF Written
<1> QED BY <1>1, <1>2, <1>6, <1>7, <1>9, <1>10, <1>11, <1>12, <1>15, <1>16 DEF Settles

(* A coinbase disturbs nobody.                                              *)
LEMMA CoinbaseSound ==
  ASSUME SqlAssumption, NEW d, Sound(d), NEW h \in Nat \ {0}, NEW w \in Nat, Coinbase(h) \notin DOMAIN d.utxos,
         NEW e, DOMAIN e = Fields, e.status = d.status, e.spends = d.spends, e.outs = d.outs,
         Grown(d.utxos, Coinbase(h), w, e.utxos)
  PROVE  Sound(e)
<1>1. d.status \in [Txs -> Statuses] /\ IsFiniteSet(Settled(d)) /\ RowsSound(d) /\ PoolSound(d)
  BY DEF Sound
<1>2. Settled(e) = Settled(d) /\ \A t \in Txs : Waits(e, t) <=> Waits(d, t)
  BY DEF Settled, Waits
<1>3. /\ DOMAIN e.utxos = DOMAIN d.utxos \cup {Coinbase(h)} /\ e.utxos[Coinbase(h)].amount = w
      /\ \A x \in DOMAIN d.utxos : x # Coinbase(h) => e.utxos[x] = d.utxos[x]
      /\ Unspent(e.utxos) = Unspent(d.utxos) \cup {Coinbase(h)}
      /\ (\A x \in DOMAIN d.utxos : d.utxos[x].spent \in BOOLEAN) => (\A x \in DOMAIN e.utxos : e.utxos[x].spent \in BOOLEAN)
  BY DEF Grown
<1>4. \A t \in Txs : Out(t) # Coinbase(h)
  BY DEF Out, Coinbase
<1>5. Coinbase(h) \in Outpoints
  BY OutpointsApart
<1>6. RowsSound(e)
  <2>1. IsFiniteSet(DOMAIN e.utxos)
    BY <1>1, <1>3, FS_AddElement DEF RowsSound
  <2>2. DOMAIN e.utxos \subseteq Outpoints
    BY <1>1, <1>3, <1>5 DEF RowsSound
  <2>3. \A o \in DOMAIN e.utxos : e.utxos[o].amount \in Nat
    BY <1>1, <1>3 DEF RowsSound
  <2>4. \A o \in DOMAIN e.utxos : e.utxos[o].spent \in BOOLEAN
    BY <1>1, <1>3, Zenon DEF RowsSound
  <2>5. \A t \in Txs : Out(t) \in DOMAIN e.utxos <=> e.status[t] = "confirmed"
    BY <1>1, <1>3, <1>4 DEF RowsSound
  <2>6. \A t \in Txs : Out(t) \in DOMAIN e.utxos => e.utxos[Out(t)].amount = Amount[t]
    BY <1>1, <1>3, <1>4 DEF RowsSound
  <2> QED BY <2>1, <2>2, <2>3, <2>4, <2>5, <2>6, Zenon DEF RowsSound
<1>7. PoolSound(e)
  BY <1>1, <1>2, <1>3 DEF PoolSound
<1> QED BY <1>1, <1>2, <1>6, <1>7 DEF Sound

(* The tables are sound after a block that was accepted.                    *)
LEMMA AcceptedSound ==
  ASSUME SqlAssumption, SqlInv, NEW m \in Miners, NEW b, b = miner[m], Accepted(b)
  PROVE  Sound(Tables)'
<1>1. PICK d : d = After(b)
  OBVIOUS
<1>2. PICK h : h = b.height
  OBVIOUS
<1>3. /\ Sound(d) /\ h \in Nat \ {0} /\ Paid(b) \in Nat /\ Coinbase(h) \notin DOMAIN d.utxos
      /\ Grown(d.utxos, Coinbase(h), Paid(b), utxos')
      /\ status' = d.status /\ spends' = d.spends /\ outs' = d.outs
  <2>1. Settles(b, d, h)
    BY <1>1, <1>2, AcceptedFacts
  <2> QED BY <2>1 DEF Settles
<1>4. PICK e : e = Tables'
  OBVIOUS
<1>5. DOMAIN e = Fields /\ e.status = status' /\ e.spends = spends' /\ e.outs = outs' /\ e.utxos = utxos'
  BY <1>4 DEF Tables, Fields
<1>6. Sound(e)
  BY <1>3, <1>5, CoinbaseSound
<1> QED BY <1>4, <1>6

(* What is counted keeps its value, and every transaction its fee.          *)
LEMMA AcceptedValues ==
  ASSUME SqlAssumption, SqlInv, NEW m \in Miners, NEW b, b = miner[m], Accepted(b), NEW d, d = After(b)
  PROVE  /\ \A t \in Txs : status'[t] # "absent" => status[t] # "absent"
         /\ \A t \in Txs : status[t] = "confirmed" => status'[t] = "confirmed"
         /\ \A t \in Txs : status[t] # "absent" => Fee(t)' = Fee(t)
         /\ \A o \in DOMAIN d.utxos : utxos'[o].amount = Value(o)
<1>1. PICK h : h = b.height
  OBVIOUS
<1>2. /\ b.txids \in Seq(Txs) /\ Sound(d) /\ Through(b.txids, Len(b.txids), d)
      /\ \A j \in 1..Len(b.txids) : status[b.txids[j]] = "pending" /\ d.status[b.txids[j]] = "confirmed"
      /\ Coinbase(h) \notin DOMAIN d.utxos /\ Coinbase(h) \notin DOMAIN utxos
      /\ Grown(d.utxos, Coinbase(h), Paid(b), utxos')
      /\ status' = d.status
  <2>1. Settles(b, d, h)
    BY <1>1, AcceptedFacts
  <2> QED BY <2>1 DEF Settles
<1>3. Sound(Tables) /\ Listed /\ Tables.utxos = utxos
  BY DEF SqlInv, Books, Tables
<1>4. /\ \A o \in Outpoints : Value(o) \in Nat
      /\ \A t \in Txs : Value(Out(t)) = Amount[t]
      /\ \A o \in DOMAIN utxos : Value(o) = utxos[o].amount
  BY <1>3, ValueFacts
<1>5. /\ DOMAIN d.utxos = DOMAIN utxos \cup {Out(b.txids[j]) : j \in 1..Len(b.txids)}
      /\ \A o \in DOMAIN utxos : d.utxos[o].amount = utxos[o].amount
      /\ \A t \in Txs : (\A j \in 1..Len(b.txids) : b.txids[j] # t) => d.status[t] = status[t]
      /\ \A j \in 1..Len(b.txids) : b.txids[j] \in Txs
  BY <1>2 DEF Through
<1>6. /\ DOMAIN utxos' = DOMAIN d.utxos \cup {Coinbase(h)}
      /\ \A o \in DOMAIN d.utxos : utxos'[o] = d.utxos[o]
  BY <1>2 DEF Grown
<1>7. \A t \in Txs : Out(t) \in DOMAIN d.utxos => d.utxos[Out(t)].amount = Amount[t]
  BY <1>2 DEF Sound, RowsSound
<1>8. \A o \in DOMAIN d.utxos : utxos'[o].amount = Value(o)
  BY <1>4, <1>5, <1>6, <1>7
<1>9. \A t \in Txs : status'[t] # status[t] => status[t] = "pending" /\ status'[t] = "confirmed"
  BY <1>2, <1>5
<1>10. ASSUME NEW t \in Txs, status[t] # "absent" PROVE Fee(t)' = Fee(t)
  <2>1. InputSet(t) \subseteq Outpoints
    BY TxFacts
  <2>2. ASSUME NEW o \in InputSet(t) PROVE Value(o)' = Value(o)
    <3>1. CASE o \in DOMAIN d.utxos
      BY <1>6, <1>8, <3>1 DEF Value
    <3>2. CASE o \notin DOMAIN d.utxos
      <4>1. o # Coinbase(h)
        BY <1>2, <1>3, <1>10 DEF Listed
      <4>2. o \notin DOMAIN utxos /\ o \notin DOMAIN utxos'
        BY <1>5, <1>6, <3>2, <4>1
      <4> QED BY <4>2, Zenon DEF Value
    <3> QED BY <3>1, <3>2
  <2>3. \A j \in DOMAIN Inputs[t] : Value(Inputs[t][j])' = Value(Inputs[t][j])
    BY <2>2 DEF InputSet
  <2>4. [j \in DOMAIN Inputs[t] |-> Value(Inputs[t][j])'] = [j \in DOMAIN Inputs[t] |-> Value(Inputs[t][j])]
    BY <2>3, Zenon
  <2> QED BY <2>4, Zenon DEF Fee
<1> QED BY <1>8, <1>9, <1>10

(* The value a block pays is the value it takes, and the subsidy.           *)
LEMMA AcceptedValueKept ==
  ASSUME SqlAssumption, SqlInv, NEW m \in Miners, NEW b, b = miner[m], Accepted(b)
  PROVE  ValueKept'
<1>1. PICK d : d = After(b)
  OBVIOUS
<1>2. PICK h : h = b.height
  OBVIOUS
<1>3. /\ b \in Job /\ b.txids \in Seq(Txs) /\ ~d.left /\ Sound(d) /\ Through(b.txids, Len(b.txids), d)
      /\ \A j \in 1..Len(b.txids) : status[b.txids[j]] = "pending"
      /\ Fees(b.txids) \in Nat /\ Paid(b) \in Nat
      /\ Coinbase(h) \notin DOMAIN d.utxos
      /\ Grown(d.utxos, Coinbase(h), Paid(b), utxos')
      /\ status' = d.status
      /\ blocks' = Append(blocks, [reward |-> b.reward, txids |-> b.txids])
  <2>1. Settles(b, d, h)
    BY <1>1, <1>2, AcceptedFacts
  <2> QED BY <2>1 DEF Settles
<1>4. /\ \A t \in Txs : status'[t] # "absent" => status[t] # "absent"
      /\ \A t \in Txs : status[t] # "absent" => Fee(t)' = Fee(t)
      /\ \A o \in DOMAIN d.utxos : utxos'[o].amount = Value(o)
  BY <1>1, AcceptedValues
<1>5. /\ Sound(Tables) /\ ValueKept /\ \A t \in Txs : status[t] # "absent" => Fee(t) >= 0
      /\ Tables.utxos = utxos /\ Tables.status = status
  BY DEF SqlInv, Books, Tables, Covered
<1>6. /\ \A o \in Outpoints : Value(o) \in Nat /\ Worths[o] = Value(o)
      /\ \A o \in DOMAIN utxos : Value(o) = utxos[o].amount
  BY <1>5, ValueFacts
<1>7. /\ DOMAIN d.utxos \subseteq Outpoints /\ IsFiniteSet(DOMAIN d.utxos) /\ IsFiniteSet(Settled(d))
      /\ DOMAIN utxos \subseteq Outpoints /\ IsFiniteSet(DOMAIN utxos)
      /\ Settled(Tables) = {t \in Txs : status[t] = "confirmed"} /\ Settled(d) = {t \in Txs : status'[t] = "confirmed"}
  BY <1>3, <1>5 DEF Sound, RowsSound, Settled
<1> DEFINE Rows == [o \in DOMAIN utxos |-> utxos[o].amount]
           Rows2 == [o \in DOMAIN utxos' |-> utxos'[o].amount]
           Costs == [t \in Txs |-> Fee(t)]
           Costs2 == [t \in Txs |-> Fee(t)']
<1>8. SumOver(Rows, Unspent(utxos)) = SumOver(Worths, Unspent(utxos))
  <2>1. Unspent(utxos) \subseteq DOMAIN utxos
    BY DEF Unspent
  <2>2. \A o \in Unspent(utxos) : Rows[o] = Worths[o]
    BY <1>6, <1>7, <2>1
  <2>3. IsFiniteSet(Unspent(utxos))
    BY <1>7, <2>1, FS_Subset
  <2> HIDE DEF Rows
  <2> QED BY <2>2, <2>3, SumOverSame
<1>9. SumOver(Rows2, Unspent(utxos')) = Paid(b) + SumOver(Worths, Unspent(d.utxos))
  <2>1. /\ DOMAIN utxos' = DOMAIN d.utxos \cup {Coinbase(h)} /\ utxos'[Coinbase(h)].amount = Paid(b)
        /\ Unspent(utxos') = Unspent(d.utxos) \cup {Coinbase(h)}
    BY <1>3 DEF Grown
  <2>2. Unspent(d.utxos) \subseteq DOMAIN d.utxos /\ Coinbase(h) \notin Unspent(d.utxos)
    BY <1>3 DEF Unspent
  <2>3. IsFiniteSet(Unspent(d.utxos))
    BY <1>7, <2>2, FS_Subset
  <2>4. /\ Rows2[Coinbase(h)] = Paid(b)
        /\ \A o \in Unspent(d.utxos) : Rows2[o] = Worths[o] /\ Rows2[o] \in Nat
    BY <1>4, <1>6, <1>7, <2>1, <2>2
  <2> HIDE DEF Rows2
  <2>5. \A o \in Unspent(d.utxos) \cup {Coinbase(h)} : Rows2[o] \in Nat
    BY <1>3, <2>4
  <2>6. SumOver(Rows2, Unspent(d.utxos) \cup {Coinbase(h)}) = Rows2[Coinbase(h)] + SumOver(Rows2, Unspent(d.utxos))
    BY <2>2, <2>3, <2>5, SumOverAdd
  <2>7. SumOver(Rows2, Unspent(d.utxos)) = SumOver(Worths, Unspent(d.utxos))
    BY <2>3, <2>4, SumOverSame
  <2> QED BY <2>1, <2>4, <2>6, <2>7
<1>10. SumOver(Costs, Settled(Tables)) = SumOver(AllFees, Settled(Tables))
  BY DEF AllFees
<1>11. SumOver(Costs2, Settled(d)) = SumOver(AllFees, Settled(d))
  <2>1. \A t \in Settled(d) : Costs2[t] = AllFees[t]
    BY <1>4, <1>7 DEF AllFees
  <2> HIDE DEF Costs2
  <2> QED BY <1>7, <2>1, SumOverSame
<1>12. /\ SumOver(Worths, Unspent(d.utxos)) \in Nat
       /\ SumOver(Worths, Unspent(d.utxos)) + Fees(b.txids) = SumOver(Worths, Unspent(utxos))
  <2>1. \A j \in 1..Len(b.txids) : Fee(b.txids[j]) >= 0
    <3>1. \A j \in 1..Len(b.txids) : b.txids[j] \in Txs
      BY <1>3
    <3> QED BY <1>3, <1>5, <3>1
  <2>2. ~After(b).left
    BY <1>1, <1>3
  <2>3. /\ SumOver(Worths, Unspent(After(b).utxos)) \in Nat
        /\ SumOver(Worths, Unspent(After(b).utxos)) + Fees(b.txids) = SumOver(Worths, Unspent(utxos))
    BY <1>3, <1>5, <2>1, <2>2, BlockValue
  <2> QED BY <1>1, <2>3, Zenon
<1>13. /\ SumOver(AllFees, Settled(Tables)) \in Nat
       /\ SumOver(AllFees, Settled(d)) = SumOver(AllFees, Settled(Tables)) + Fees(b.txids)
  <2>1. ~After(b).left
    BY <1>1, <1>3
  <2>2. /\ SumOver(AllFees, Settled(Tables)) \in Nat
        /\ SumOver(AllFees, Settled(After(b))) = SumOver(AllFees, Settled(Tables)) + Fees(b.txids)
    BY <1>3, <1>5, <2>1, BlockFees
  <2> QED BY <1>1, <2>2, Zenon
<1>14. Issued' = Issued + b.reward /\ b.reward \in Nat /\ Issued \in Nat
  <2>1. PICK x : x = [reward |-> b.reward, txids |-> b.txids]
    OBVIOUS
  <2>2. b.reward \in 0..Subsidy /\ Subsidy \in Nat /\ blocks \in Seq(Block)
    BY <1>3 DEF Job, SqlInv, Supplied, SqlAssumption
  <2>3. x \in Block /\ x.reward = b.reward
    BY <1>3, <2>1, <2>2 DEF Block
  <2>4. blocks' = Append(blocks, x)
    BY <1>3, <2>1
  <2>5. Issued' = Issued + x.reward /\ Issued \in Nat
    BY <2>2, <2>3, <2>4, IssuedGrows, IssuedNat
  <2> QED BY <2>2, <2>3, <2>5
<1>15. SumOver(Rows, Unspent(utxos)) + (IF Version = "v3" THEN 0 ELSE SumOver(Costs, Settled(Tables))) = Issued
  BY <1>5, <1>7, Zenon DEF ValueKept
<1>16. ValueKept' <=>
         SumOver(Rows2, Unspent(utxos')) + (IF Version = "v3" THEN 0 ELSE SumOver(Costs2, Settled(d))) = Issued'
  BY <1>7, Zenon DEF ValueKept
<1> HIDE DEF Rows, Rows2, Costs, Costs2
<1>17. SumOver(Rows2, Unspent(utxos')) + (IF Version = "v3" THEN 0 ELSE SumOver(Costs2, Settled(d))) = Issued'
  <2> DEFINE u1 == SumOver(Worths, Unspent(utxos))
             u2 == SumOver(Worths, Unspent(d.utxos))
             f1 == SumOver(AllFees, Settled(Tables))
             fees == Fees(b.txids)
  <2>1. u1 \in Nat /\ u2 \in Nat /\ f1 \in Nat /\ fees \in Nat /\ u2 + fees = u1
    BY <1>3, <1>12, <1>13
  <2>2. CASE Version = "v3"
    <3>1. Paid(b) = b.reward + fees
      BY <2>2 DEF Paid
    <3>2. u1 + 0 = Issued
      BY <1>8, <1>15, <2>2
    <3>3. SumOver(Rows2, Unspent(utxos')) + 0 = Issued'
      <4> HIDE DEF u1, u2, f1, fees
      <4>1. SumOver(Rows2, Unspent(utxos')) = Paid(b) + u2
        BY <1>9 DEF u2
      <4> QED BY <1>14, <2>1, <3>1, <3>2, <4>1
    <3> QED BY <2>2, <3>3
  <2>3. CASE Version # "v3"
    <3>1. Paid(b) = b.reward
      BY <2>3 DEF Paid
    <3>2. u1 + f1 = Issued
      BY <1>8, <1>10, <1>15, <2>3
    <3>3. SumOver(Rows2, Unspent(utxos')) + SumOver(Costs2, Settled(d)) = Issued'
      <4> HIDE DEF u1, u2, f1, fees
      <4>1. SumOver(Rows2, Unspent(utxos')) = Paid(b) + u2 /\ SumOver(Costs2, Settled(d)) = f1 + fees
        BY <1>9, <1>11, <1>13 DEF u2, f1, fees
      <4> QED BY <1>14, <2>1, <3>1, <3>2, <4>1
    <3> QED BY <2>3, <3>3
  <2> QED BY <2>2, <2>3
<1> QED BY <1>16, <1>17

(* The list, the blocks and the fees after it.                              *)
LEMMA AcceptedBooks ==
  ASSUME SqlAssumption, SqlInv, NEW m \in Miners, NEW b, b = miner[m], Accepted(b)
  PROVE  Books'
<1>1. PICK d : d = After(b)
  OBVIOUS
<1>2. PICK h : h = b.height
  OBVIOUS
<1>3. Settles(b, d, h)
  BY <1>1, <1>2, AcceptedFacts
<1>4. /\ \A t \in Txs : status'[t] # "absent" => status[t] # "absent"
      /\ \A t \in Txs : status[t] = "confirmed" => status'[t] = "confirmed"
      /\ \A t \in Txs : status[t] # "absent" => Fee(t)' = Fee(t)
  BY <1>1, AcceptedValues
<1>5. /\ b.txids \in Seq(Txs) /\ h = Len(blocks) + 1 /\ Len(blocks) \in Nat
      /\ \A j \in 1..Len(b.txids) : status[b.txids[j]] = "pending" /\ status'[b.txids[j]] = "confirmed"
      /\ mempool' = mempool /\ Coinbase(h) \notin DOMAIN utxos
      /\ blocks' = Append(blocks, [reward |-> b.reward, txids |-> b.txids])
  BY <1>3 DEF Settles
<1>6. /\ Through(b.txids, Len(b.txids), d) /\ status' = d.status
      /\ DOMAIN utxos' = DOMAIN d.utxos \cup {Coinbase(h)}
  BY <1>3 DEF Settles, Grown
<1>7. /\ DOMAIN d.utxos = DOMAIN utxos \cup {Out(b.txids[j]) : j \in 1..Len(b.txids)}
      /\ \A t \in Txs : (\A j \in 1..Len(b.txids) : b.txids[j] # t) => status'[t] = status[t]
  BY <1>6 DEF Through
<1>8. Listed /\ Whole /\ Covered /\ blocks \in Seq(Block)
  BY DEF SqlInv, Books, Supplied
<1>9. \A t \in Txs : status[t] # "absent" => status'[t] # "absent"
  BY <1>5, <1>7
<1>10. Listed'
  <2>1. mempool \in Seq(Txs) /\ \A i \in 1..Len(mempool) : mempool[i] \in Txs
    BY <1>8 DEF Listed
  <2>2. \A i \in 1..Len(mempool) : status'[mempool[i]] # "absent"
    BY <1>8, <1>9, <2>1 DEF Listed
  <2>3. \A t \in Txs : status'[t] # "absent" => \E i \in 1..Len(mempool) : mempool[i] = t
    BY <1>4, <1>8 DEF Listed
  <2>4. \A t \in Txs : \A k : status'[t] # "absent" /\ Coinbase(k) \in InputSet(t) => Coinbase(k) \in DOMAIN utxos'
    BY <1>4, <1>6, <1>7, <1>8 DEF Listed
  <2> QED BY <1>5, <1>8, <2>1, <2>2, <2>3, <2>4 DEF Listed
<1>11. Whole'
  <2>1. PICK x : x = [reward |-> b.reward, txids |-> b.txids]
    OBVIOUS
  <2>2. /\ Len(blocks') = Len(blocks) + 1 /\ blocks'[Len(blocks) + 1] = x
        /\ \A i \in 1..Len(blocks) : blocks'[i] = blocks[i]
        /\ 1..(Len(blocks) + 1) = 1..Len(blocks) \cup {h}
    BY <1>5, <1>8, <2>1
  <2>3. \A k \in Nat \ {0} : Coinbase(k) \in DOMAIN utxos' <=> k \in 1..Len(blocks) \/ k = h
    <3>1. \A k \in Nat \ {0} : Coinbase(k) \in DOMAIN d.utxos <=> Coinbase(k) \in DOMAIN utxos
      BY <1>7 DEF Coinbase, Out
    <3>2. \A k \in Nat \ {0} : Coinbase(k) \in DOMAIN utxos <=> k \in 1..Len(blocks)
      BY <1>8 DEF Whole
    <3>3. \A k : Coinbase(k) = Coinbase(h) => k = h
      BY DEF Coinbase
    <3> QED BY <1>6, <3>1, <3>2, <3>3
  <2>4. \A i \in 1..Len(blocks) : \A j \in 1..Len(blocks[i].txids) : status'[blocks[i].txids[j]] = "confirmed"
    <3>1. \A i \in 1..Len(blocks) : blocks[i] \in Block
      BY <1>8
    <3>2. \A y \in Block : y.txids \in Seq(Txs)
      BY DEF Block
    <3>3. \A i \in 1..Len(blocks) : \A j \in 1..Len(blocks[i].txids) : blocks[i].txids[j] \in Txs
      BY <3>1, <3>2
    <3> QED BY <1>4, <1>8, <3>3 DEF Whole
  <2>5. \A j \in 1..Len(x.txids) : status'[x.txids[j]] = "confirmed"
    BY <1>5, <2>1
  <2>6. \A i \in 1..Len(blocks') : \A j \in 1..Len(blocks'[i].txids) : status'[blocks'[i].txids[j]] = "confirmed"
    BY <1>5, <2>2, <2>4, <2>5
  <2> QED BY <2>2, <2>3, <2>6 DEF Whole
<1>12. Covered'
  BY <1>4, <1>8 DEF Covered
<1>13. Sound(Tables)' /\ ValueKept'
  BY AcceptedSound, AcceptedValueKept
<1> QED BY <1>10, <1>11, <1>12, <1>13 DEF Books

(* No row that a submission holds is touched.                               *)
LEMMA AcceptedSubmitted ==
  ASSUME SqlAssumption, SqlInv, NEW m \in Miners, SubmitRpc(m), NEW b, b = miner[m], Accepted(b)
  PROVE  Submitted'
<1>1. PICK d : d = After(b)
  OBVIOUS
<1>2. PICK h : h = b.height
  OBVIOUS
<1>3. Settles(b, d, h)
  BY <1>1, <1>2, AcceptedFacts
<1>4. /\ b.txids \in Seq(Txs) /\ Through(b.txids, Len(b.txids), d) /\ outs' = d.outs /\ Sound(d)
      /\ Unspent(utxos') = Unspent(d.utxos) \cup {Coinbase(h)}
  BY <1>3 DEF Settles, Grown
<1>5. sub' = sub
  BY DEF SubmitRpc
<1>6. Submitted /\ Sound(Tables) /\ Tables.outs = outs /\ Tables.status = status
  BY DEF SqlInv, Books, Tables
<1>7. \A s \in Subs : Locked(s)' = Locked(s)
  BY <1>5 DEF Locked
<1>8. ASSUME NEW s \in Subs, NEW o \in Locked(s), NEW j \in 1..Len(b.txids)
      PROVE  o \notin InputSet(b.txids[j]) /\ o # Out(b.txids[j])
  <2>1. DOMAIN b.txids = 1..Len(b.txids)
    BY <1>4
  <2>2. o \in LockedRows
    BY DEF LockedRows
  <2>3. LockedRows \cap UNION {InputSet(b.txids[k]) \cup {Out(b.txids[k])} : k \in DOMAIN b.txids} = {}
    BY DEF SubmitRpc
  <2> QED BY <2>1, <2>2, <2>3
<1>9. ASSUME NEW s \in Subs, NEW o \in Locked(s) PROVE Row(o)'
  <2>1. o \in Unspent(utxos) \/ o \in outs
    BY <1>6 DEF Submitted, Row
  <2>2. CASE o \in Unspent(utxos)
    <3>1. o \in Unspent(d.utxos)
      BY <1>4, <1>8, <2>2 DEF Through
    <3> QED BY <1>4, <3>1 DEF Row
  <2>3. CASE o \in outs
    <3>1. PICK t \in Txs : status[t] = "pending" /\ o = Out(t)
      BY <1>6, <2>3 DEF Sound, PoolSound, Waits
    <3>2. \A j \in 1..Len(b.txids) : b.txids[j] # t
      BY <1>8, <3>1
    <3>3. Waits(d, t)
      BY <1>4, <3>1, <3>2 DEF Through, Waits
    <3>4. o \in d.outs
      BY <1>4, <3>1, <3>3 DEF Sound, PoolSound
    <3> QED BY <1>4, <3>4 DEF Row
  <2> QED BY <2>1, <2>2, <2>3
<1> QED BY <1>5, <1>6, <1>7, <1>9 DEF Submitted, At

(* A block keeps the invariant, accepted or turned away.                    *)
LEMMA RpcKeeps ==
  ASSUME SqlAssumption, SqlInv, NEW m \in Miners, SubmitRpc(m)
  PROVE  SqlInv'
<1>1. PICK b : b = miner[m]
  OBVIOUS
<1>2. Supplied'
  BY SuppliedSubmit DEF SqlInv
<1>3. /\ miner' = [miner EXCEPT ![m] = NoBlock] /\ sub' = sub
      /\ refused' = (refused \/ (b.honest /\ b.height = Len(blocks) + 1 /\ Coinbase(b.height) \notin DOMAIN utxos'))
  BY <1>1 DEF SubmitRpc
<1>4. refused = FALSE
  BY DEF SqlInv
<1>5. CASE Accepted(b)
  <2>1. PICK d : d = After(b)
    OBVIOUS
  <2>2. PICK h : h = b.height
    OBVIOUS
  <2>3. Settles(b, d, h)
    BY <1>1, <1>5, <2>1, <2>2, AcceptedFacts
  <2>4. Coinbase(h) \in DOMAIN utxos' /\ Len(blocks) \in Nat
    BY <2>3 DEF Settles, Grown
  <2>5. refused' = FALSE
    BY <1>3, <1>4, <2>2, <2>4, Zenon
  <2>6. Books'
    BY <1>1, <1>5, AcceptedBooks
  <2>7. Submitted'
    BY <1>1, <1>5, AcceptedSubmitted
  <2>8. Len(blocks') = Len(blocks) + 1
    <3>1. blocks \in Seq(Block)
      BY DEF SqlInv, Supplied
    <3> QED BY <2>3, <3>1 DEF Settles
  <2>9. ASSUME NEW n \in Miners PROVE Standing(miner[n])'
    <3>1. miner'[n] = NoBlock \/ miner'[n] = miner[n]
      BY <1>3 DEF SqlInv, Supplied
    <3>2. Standing(miner[n]) /\ Fair(miner[n]) /\ miner[n] \in Job
      BY DEF SqlInv, Stands, Supplied
    <3>3. miner[n].pc \in {"mined", "check", "rpc"} => miner[n].height # Len(blocks') + 1
      <4>1. miner[n].height \in Nat
        BY <3>2 DEF Job
      <4> QED BY <2>4, <2>8, <3>2, <4>1 DEF Fair
    <3>4. NoBlock.pc = "idle" /\ NoBlock.honest
      BY DEF NoBlock
    <3> QED BY <3>1, <3>2, <3>3, <3>4 DEF Standing
  <2> QED BY <1>2, <2>5, <2>6, <2>7, <2>9 DEF SqlInv, Stands
<1>6. CASE UNCHANGED Ledger /\ ~(b.honest /\ b.height = Len(blocks) + 1)
  <2>1. refused' = FALSE
    BY <1>3, <1>4, <1>6
  <2>2. UNCHANGED <<Ledger, sub, refused>>
    BY <1>3, <1>4, <1>6, <2>1
  <2> QED BY <1>2, <1>3, <2>2, NoBlockStands, MinerKeeps
<1> QED BY <1>1, <1>5, <1>6, RpcCases

(* At first the tables are empty,                                           *)
LEMMA SqlInvInit ==
  ASSUME SqlAssumption, Init
  PROVE  SqlInv
<1>1. /\ blocks = <<>> /\ utxos = <<>> /\ status = [t \in Txs |-> "absent"] /\ mempool = <<>> /\ spends = {} /\ outs = {}
      /\ refused = FALSE /\ sub = [s \in Subs |-> NoSub] /\ miner = [m \in Miners |-> NoBlock]
  BY DEF Init
<1>2. Supplied
  BY SuppliedInit
<1>3. \A t \in Txs : status[t] = "absent"
  BY <1>1
<1>4. DOMAIN utxos = {} /\ Unspent(utxos) = {} /\ 1..0 = {} /\ Len(mempool) = 0 /\ Len(blocks) = 0
  BY <1>1 DEF Unspent
<1>5. Sound(Tables)
  <2>1. /\ DOMAIN Tables = Fields /\ Tables.status = status /\ Tables.utxos = utxos
        /\ Tables.spends = {} /\ Tables.outs = {}
    BY <1>1 DEF Tables, Fields
  <2>2. Settled(Tables) = {}
    BY <1>3, <2>1 DEF Settled
  <2>3. \A t \in Txs : ~Waits(Tables, t)
    BY <1>3, <2>1 DEF Waits
  <2>4. PoolSound(Tables)
    BY <2>1, <2>3 DEF PoolSound
  <2>5. RowsSound(Tables)
    BY <1>3, <1>4, <2>1, FS_EmptySet DEF RowsSound
  <2>6. status \in [Txs -> Statuses]
    BY <1>1 DEF Statuses
  <2> QED BY <2>1, <2>2, <2>4, <2>5, <2>6, FS_EmptySet DEF Sound
<1>6. Listed
  BY <1>1, <1>3, <1>4 DEF Listed
<1>7. Whole
  BY <1>4 DEF Whole
<1>8. Covered
  BY <1>3 DEF Covered
<1>9. ValueKept
  <2>1. Issued = 0
    <3>1. blocks \in Seq(Block)
      BY <1>2 DEF Supplied
    <3>2. SupplyByRule
      BY <1>2 DEF Supplied
    <3>3. Subsidy \in Nat /\ MaxSupply \in Nat /\ 0 * Subsidy = 0
      BY DEF SqlAssumption
    <3> QED BY <1>4, <3>2, <3>3 DEF SupplyByRule
  <2>2. {t \in Txs : status[t] = "confirmed"} = {}
    BY <1>3
  <2>3. \A f : SumOver(f, {}) = 0
    BY SumOverPick, FS_EmptySet
  <2> DEFINE Rows == [o \in DOMAIN utxos |-> utxos[o].amount]
             Costs == [t \in Txs |-> Fee(t)]
  <2>4. SumOver(Rows, Unspent(utxos)) = 0 /\ SumOver(Costs, {t \in Txs : status[t] = "confirmed"}) = 0
    BY <1>4, <2>2, <2>3
  <2>5. ValueKept <=>
          SumOver(Rows, Unspent(utxos)) + (IF Version = "v3" THEN 0 ELSE SumOver(Costs, {t \in Txs : status[t] = "confirmed"})) = Issued
    BY Zenon DEF ValueKept
  <2> HIDE DEF Rows, Costs
  <2> QED BY <2>1, <2>4, <2>5
<1>10. Submitted
  <2>1. \A s \in Subs : TxOf[s] \in Txs
    BY DEF SqlAssumption
  <2>2. \A s \in Subs : Len(Inputs[TxOf[s]]) \in Nat \ {0}
    BY <2>1, TxFacts
  <2>3. \A s \in Subs : sub[s] = NoSub
    BY <1>1
  <2>4. NoSub.pc = "idle" /\ NoSub.i = 1 /\ NoSub \in [pc : Places, i : Nat]
    BY DEF NoSub, Places
  <2>5. \A s \in Subs : sub[s].i \in 1..Len(Inputs[TxOf[s]])
    BY <2>2, <2>3, <2>4
  <2>6. \A s \in Subs : Locked(s) = {}
    BY <2>3, <2>4 DEF Locked
  <2>7. sub \in [Subs -> [pc : Places, i : Nat]]
    BY <1>1, <2>4
  <2> QED BY <2>3, <2>4, <2>5, <2>6, <2>7 DEF Submitted, At
<1>11. Stands
  BY <1>1, NoBlockStands DEF Stands
<1> QED BY <1>1, <1>2, <1>5, <1>6, <1>7, <1>8, <1>9, <1>10, <1>11 DEF SqlInv, Books

(* and no step spoils them.                                                 *)
LEMMA SqlInvNext ==
  ASSUME SqlAssumption, Version = "v2" => Choosers = {}, SqlInv, [Next]_vars
  PROVE  SqlInv'
<1>1. CASE UNCHANGED vars
  <2>1. Books' /\ blocks' = blocks /\ utxos' = utxos /\ outs' = outs /\ status' = status /\ sub' = sub /\ miner' = miner
    BY <1>1, BooksSame DEF vars, Ledger, SqlInv
  <2>2. Supplied'
    BY <1>1, SuppliedNext DEF SqlInv
  <2>3. Submitted'
    BY <2>1 DEF SqlInv, Submitted, Locked, Row, At
  <2>4. Stands'
    BY <2>1, StandsSame DEF SqlInv
  <2> QED BY <1>1, <2>1, <2>2, <2>3, <2>4 DEF SqlInv, vars
<1>2. ASSUME NEW s \in Subs, Begin(s) \/ ReadRow(s) \/ CheckReserved(s) \/ AbortTx(s) PROVE SqlInv'
  BY <1>2, ReadingKeeps
<1>3. ASSUME NEW s \in Subs, Insert(s) PROVE SqlInv'
  BY <1>3, InsertKeeps
<1>4. ASSUME NEW m \in Miners,
             TemplateTip(m) \/ TemplateIssued(m) \/ TemplatePending(m) \/ SubmitTip(m) \/ SubmitIssued(m) \/ Drop(m)
      PROVE  SqlInv'
  BY <1>4, TemplateKeeps
<1>5. ASSUME NEW m \in Miners, SubmitRpc(m) PROVE SqlInv'
  BY <1>5, RpcKeeps
<1> QED BY <1>1, <1>2, <1>3, <1>4, <1>5 DEF Next

(* The invariant holds in every reachable state.                            *)
LEMMA SqlInvHolds ==
  ASSUME SqlAssumption, Version = "v2" => Choosers = {}
  PROVE  Spec => []SqlInv
<1>1. Init => SqlInv
  BY SqlInvInit
<1>2. SqlInv /\ [Next]_vars => SqlInv'
  BY SqlInvNext
<1> QED BY <1>1, <1>2, PTL DEF Spec
-----------------------------------------------------------------------------
(* Every table holds rows of its kind, whatever version is deployed and     *)
(* however submissions and blocks interleave, as long as the blocks of the  *)
(* old version are built from templates.                                    *)
THEOREM TablesTyped ==
  ASSUME SqlAssumption, Version = "v2" => Choosers = {}
  PROVE  Spec => []TypeOK
<1>1. SqlInv => TypeOK
  <2> SUFFICES ASSUME SqlInv PROVE TypeOK
    OBVIOUS
  <2>1. blocks \in Seq(Block) /\ mempool \in Seq(Txs) /\ Sound(Tables) /\ Submitted /\ refused = FALSE
    BY DEF SqlInv, Supplied, Books
  <2>2. \A i \in DOMAIN blocks : blocks[i] \in Block
    BY <2>1
  <2>3. \A i \in DOMAIN blocks : blocks[i].reward \in 0..Subsidy /\ blocks[i].txids \in Seq(Txs)
    BY <2>2 DEF Block
  <2>4. status \in [Txs -> Statuses] /\ \A o \in DOMAIN utxos : utxos[o].amount \in Nat /\ utxos[o].spent \in BOOLEAN
    BY <2>1 DEF Sound, RowsSound, Tables
  <2>5. \A s \in Subs : sub[s].i \in 1..Len(Inputs[TxOf[s]])
    BY <2>1 DEF Submitted
  <2> QED BY <2>1, <2>3, <2>4, <2>5, Zenon DEF TypeOK, Statuses
<1>2. Spec => []SqlInv
  BY SqlInvHolds
<1> QED BY <1>1, <1>2, PTL

(* What is reserved is what the pending transactions spend, each outpoint   *)
(* for one of them: two submissions that read before either wrote do not    *)
(* both come in.                                                            *)
THEOREM ReservedForOne ==
  ASSUME SqlAssumption, Version = "v2" => Choosers = {}
  PROVE  Spec => []MempoolSound
<1>1. SqlInv => MempoolSound
  <2> SUFFICES ASSUME SqlInv PROVE MempoolSound
    OBVIOUS
  <2> DEFINE pending == {t \in Txs : status[t] = "pending"}
  <2>1. PoolSound(Tables) /\ Tables.status = status /\ Tables.spends = spends /\ Tables.outs = outs /\ Tables.utxos = utxos
    BY DEF SqlInv, Books, Sound, Tables
  <2>2. \A t \in Txs : Waits(Tables, t) <=> t \in pending
    BY <2>1 DEF Waits
  <2>3. /\ \A r \in spends : \E t \in pending : \E o \in InputSet(t) : r = <<o, t>>
        /\ \A t \in pending : \A o \in InputSet(t) : <<o, t>> \in spends
        /\ \A t, u \in pending : t # u => InputSet(t) \cap InputSet(u) = {}
        /\ \A t \in pending : InputSet(t) \subseteq Unspent(utxos) \cup outs
        /\ \A x \in outs : \E t \in pending : x = Out(t)
        /\ \A t \in pending : Out(t) \in outs
    BY <2>1, <2>2 DEF PoolSound
  <2> HIDE DEF pending
  <2>4. spends = UNION {Reservations(t) : t \in pending}
    <3>1. \A r \in spends : \E t \in pending : r \in Reservations(t)
      <4> SUFFICES ASSUME NEW r \in spends PROVE \E t \in pending : r \in Reservations(t)
        OBVIOUS
      <4>1. PICK t \in pending : \E o \in InputSet(t) : r = <<o, t>>
        BY <2>3
      <4>2. PICK o \in InputSet(t) : r = <<o, t>>
        BY <4>1
      <4> QED BY <4>2, ReservedFor
    <3>2. \A t \in pending : \A r \in Reservations(t) : r \in spends
      <4> SUFFICES ASSUME NEW t \in pending, NEW r \in Reservations(t) PROVE r \in spends
        OBVIOUS
      <4>1. PICK o \in InputSet(t) : r = <<o, t>>
        BY ReservedFor
      <4> QED BY <2>3, <4>1
    <3> QED BY <3>1, <3>2, Zenon
  <2>5. ASSUME NEW r \in spends, NEW u \in spends, r[1] = u[1] PROVE r = u
    <3>1. PICK t \in pending : \E o \in InputSet(t) : r = <<o, t>>
      BY <2>3
    <3>2. PICK v \in pending : \E o \in InputSet(v) : u = <<o, v>>
      BY <2>3
    <3>3. PICK o \in InputSet(t) : r = <<o, t>>
      BY <3>1
    <3>4. PICK q \in InputSet(v) : u = <<q, v>>
      BY <3>2
    <3>5. o = q
      BY <2>5, <3>3, <3>4
    <3>6. t = v
      BY <2>3, <3>5
    <3> QED BY <3>3, <3>4, <3>5, <3>6
  <2>6. outs = {Out(t) : t \in pending}
    BY <2>3, Zenon
  <2>7. ASSUME NEW r \in spends PROVE Row(r[1])
    <3>1. PICK t \in pending : \E o \in InputSet(t) : r = <<o, t>>
      BY <2>3
    <3>2. PICK o \in InputSet(t) : r = <<o, t>>
      BY <3>1
    <3> QED BY <2>3, <3>2 DEF Row
  <2> QED BY <2>4, <2>5, <2>6, <2>7, Zenon DEF MempoolSound, pending
<1>2. Spec => []SqlInv
  BY SqlInvHolds
<1> QED BY <1>1, <1>2, PTL

(* Nothing is made or lost: every version keeps the account, though no      *)
(* version looks at it, and the old ones burn the fees.                     *)
THEOREM NothingMadeOrLost ==
  ASSUME SqlAssumption, Version = "v2" => Choosers = {}
  PROVE  Spec => []ValueKept
<1>1. SqlInv => ValueKept
  BY DEF SqlInv, Books
<1>2. Spec => []SqlInv
  BY SqlInvHolds
<1> QED BY <1>1, <1>2, PTL

(* No block is there in part, though the old version returns in the middle  *)
(* and keeps what it wrote.                                                 *)
THEOREM BlocksAreWhole ==
  ASSUME SqlAssumption, Version = "v2" => Choosers = {}
  PROVE  Spec => []BlocksWhole
<1>1. SqlInv => BlocksWhole
  <2> SUFFICES ASSUME SqlInv, NEW h \in DOMAIN blocks
               PROVE  /\ Coinbase(h) \in DOMAIN utxos
                      /\ \A j \in DOMAIN blocks[h].txids :
                            status[blocks[h].txids[j]] = "confirmed" /\ Out(blocks[h].txids[j]) \in DOMAIN utxos
    BY DEF BlocksWhole
  <2>1. blocks \in Seq(Block) /\ Whole /\ Sound(Tables) /\ Tables.utxos = utxos /\ Tables.status = status
    BY DEF SqlInv, Supplied, Books, Tables
  <2>2. blocks[h] \in Block /\ h \in 1..Len(blocks) /\ h \in Nat \ {0}
    BY <2>1
  <2>3. blocks[h].txids \in Seq(Txs)
    BY <2>2 DEF Block
  <2>4. ASSUME NEW j \in DOMAIN blocks[h].txids
        PROVE  status[blocks[h].txids[j]] = "confirmed" /\ Out(blocks[h].txids[j]) \in DOMAIN utxos
    <3>1. j \in 1..Len(blocks[h].txids) /\ blocks[h].txids[j] \in Txs
      BY <2>3
    <3>2. status[blocks[h].txids[j]] = "confirmed"
      BY <2>1, <2>2, <3>1 DEF Whole
    <3> QED BY <2>1, <3>1, <3>2 DEF Sound, RowsSound
  <2> QED BY <2>1, <2>2, <2>4 DEF Whole
<1>2. Spec => []SqlInv
  BY SqlInvHolds
<1> QED BY <1>1, <1>2, PTL

(* A template stays good until its height is taken: what was pending when   *)
(* it was listed is in the order of its numbers, each after what it spends, *)
(* and only a block takes any of it away.                                   *)
THEOREM NoTemplateRefused ==
  ASSUME SqlAssumption, Version = "v2" => Choosers = {}
  PROVE  Spec => []TemplateStands
<1>1. SqlInv => TemplateStands
  BY DEF SqlInv, TemplateStands
<1>2. Spec => []SqlInv
  BY SqlInvHolds
<1> QED BY <1>1, <1>2, PTL
=============================================================================
