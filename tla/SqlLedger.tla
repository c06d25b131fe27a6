----------------------------- MODULE SqlLedger -----------------------------
(* The hosted ledger: the tables of 20260903_fae_v4_canonical.sql, the      *)
(* functions that change them (accept_tx; accept_block_v2, its atomic       *)
(* candidate of 20261013 and accept_block_v3 of 20260907), and the edge     *)
(* function that reads the tables in separate requests before it calls      *)
(* them.  PostgreSQL, at read committed: a statement sees what is committed *)
(* when it starts, FOR UPDATE holds the row until its transaction ends, and *)
(* a transaction that throws leaves nothing behind.  A block holds the      *)
(* advisory lock; it is one step, taken when nobody holds a row it writes.  *)
(* There is no fork: a height names one block, and its hash is left out.    *)
EXTENDS Sums, FiniteSets

CONSTANTS Txs, Inputs, \* Inputs[t]: the sequence of outpoints t spends
          Amount,      \* Amount[t]: value of t's one output
          MaxTxs,      \* most transactions of a template
          Subs, TxOf,  \* submissions, and the transaction each one carries
          Miners,
          Version,     \* the accept_block that is deployed
          Choosers,    \* miners that may choose the transactions themselves
          Subsidy, MaxSupply

Out(t) == <<"tx", t>>
Coinbase(h) == <<"cb", h>>
Outpoints == ({"tx"} \X Txs) \cup ({"cb"} \X (Nat \ {0}))

(* verifyTx: a transaction has inputs, names none of them twice, and makes  *)
(* a positive output.                                                       *)
SqlAssumption ==
    /\ Version \in {"v2", "v2_atomic", "v3"} /\ Choosers \subseteq Miners
    /\ {Subsidy, MaxTxs} \subseteq Nat \ {0} /\ MaxSupply \in Nat /\ TxOf \in [Subs -> Txs]
    /\ \A t \in Txs : /\ Amount[t] \in Nat \ {0} /\ Inputs[t] \in Seq(Outpoints) /\ Inputs[t] # <<>>
                      /\ \A j, k \in DOMAIN Inputs[t] : Inputs[t][j] = Inputs[t][k] => j = k

VARIABLES blocks,   \* fae_v4_blocks in order of height: [reward, txids]
          utxos,    \* fae_v4_utxos: outpoint -> [amount, spent]
          status,   \* fae_v4_transactions: absent, pending or confirmed
          mempool,  \* every transaction by mempool_seq
          spends,   \* fae_v4_mempool_spends: <<outpoint, txid>>
          outs,     \* fae_v4_mempool_outputs
          sub,      \* accept_tx: statement reached, input reached
          miner,    \* a template, and its submission
          refused   \* a block of a template met the tip and was turned away
vars == <<blocks, utxos, status, mempool, spends, outs, sub, miner, refused>>

NoSub == [pc |-> "idle", i |-> 1]
NoBlock == [pc |-> "idle", height |-> 0, reward |-> 0, txids |-> <<>>, honest |-> TRUE]

Init ==
    /\ blocks = <<>> /\ utxos = <<>> /\ status = [t \in Txs |-> "absent"]
    /\ mempool = <<>> /\ spends = {} /\ outs = {} /\ refused = FALSE
    /\ sub = [s \in Subs |-> NoSub] /\ miner = [m \in Miners |-> NoBlock]
-----------------------------------------------------------------------------
(* accept_tx, statement by statement; the inputs are taken as owned.        *)
Unspent(table) == {o \in DOMAIN table : ~table[o].spent}
Input(s) == Inputs[TxOf[s]][sub[s].i]
Locked(s) == IF sub[s].pc = "idle" THEN {}
             ELSE {Inputs[TxOf[s]][j] : j \in 1..(sub[s].i - (IF sub[s].pc = "row" THEN 1 ELSE 0))}
LockedRows == UNION {Locked(s) : s \in Subs}
At(s, pc) == sub[s].pc = pc
Go(s, pc, i) == sub' = [sub EXCEPT ![s] = [pc |-> pc, i |-> i]]
Answer(s) == sub' = [sub EXCEPT ![s] = NoSub]
Ledger == <<blocks, utxos, status, mempool, spends, outs>>

Begin(s) == /\ At(s, "idle") /\ status[TxOf[s]] = "absent"
            /\ Go(s, "row", 1) /\ UNCHANGED <<Ledger, miner, refused>>

Row(o) == o \in Unspent(utxos) \cup outs
ReadRow(s) ==
    /\ At(s, "row")
    /\ \A r \in Subs \ {s} : Input(s) \notin Locked(r)
    /\ IF Row(Input(s)) THEN Go(s, "reserved", sub[s].i) ELSE Answer(s)
    /\ UNCHANGED <<Ledger, miner, refused>>

CheckReserved(s) ==
    /\ At(s, "reserved")
    /\ IF \E t \in Txs : <<Input(s), t>> \in spends THEN Answer(s)
       ELSE IF sub[s].i < Len(Inputs[TxOf[s]]) THEN Go(s, "row", sub[s].i + 1)
       ELSE Go(s, "insert", sub[s].i)
    /\ UNCHANGED <<Ledger, miner, refused>>

(* fee_atoms: an outpoint keeps its value, from the mempool to the block.   *)
Value(o) == IF o \in DOMAIN utxos THEN utxos[o].amount ELSE IF o[1] = "tx" THEN Amount[o[2]] ELSE 0
Fee(t) == SumSeq([j \in DOMAIN Inputs[t] |-> Value(Inputs[t][j])]) - Amount[t]

InputSet(t) == {Inputs[t][j] : j \in DOMAIN Inputs[t]}
Reservations(t) == {<<o, t>> : o \in InputSet(t)}
(* overspend, and the inserts; a unique violation undoes them all.          *)
Insert(s) ==
    LET t == TxOf[s] IN
    /\ At(s, "insert") /\ Answer(s)
    /\ IF Fee(t) < 0 \/ status[t] # "absent" \/ \E r \in Reservations(t), u \in Txs : <<r[1], u>> \in spends
       THEN UNCHANGED Ledger
       ELSE /\ status' = [status EXCEPT ![t] = "pending"] /\ mempool' = Append(mempool, t)
            /\ spends' = spends \cup Reservations(t) /\ outs' = outs \cup {Out(t)}
            /\ UNCHANGED <<blocks, utxos>>
    /\ UNCHANGED <<miner, refused>>

(* The victim of a deadlock, a timeout, a lost connection.                  *)
AbortTx(s) == ~At(s, "idle") /\ Answer(s) /\ UNCHANGED <<Ledger, miner, refused>>
-----------------------------------------------------------------------------
(* accept_block, on the tables as one record.  "left" says why it stopped.  *)
Tables == [utxos |-> utxos, status |-> status, spends |-> spends, outs |-> outs, left |-> FALSE]
Created(table, o, v) == [x \in DOMAIN table \cup {o} |-> IF x = o THEN [amount |-> v, spent |-> FALSE] ELSE table[x]]

(* The inputs of t one by one, up to the first that is not reserved for it  *)
(* or not there.                                                            *)
Usable(d, t, o) == <<o, t>> \in d.spends /\ o \in Unspent(d.utxos)
SpendInputs(d, t) ==
    LET reached == {j \in DOMAIN Inputs[t] : \A k \in 1..j : Usable(d, t, Inputs[t][k])}
        gone == {Inputs[t][j] : j \in reached}
    IN  [d EXCEPT !.utxos = [o \in DOMAIN d.utxos |-> [amount |-> d.utxos[o].amount,
                                                       spent |-> d.utxos[o].spent \/ o \in gone]],
                  !.left = reached # DOMAIN Inputs[t]]
Materialize(d, t) ==
    [d EXCEPT !.outs = @ \ {Out(t)}, !.utxos = Created(d.utxos, Out(t), Amount[t]),
              !.status[t] = "confirmed", !.spends = {r \in @ : r[2] # t}]
Confirm(d, t) ==
    IF d.left \/ d.status[t] # "pending" THEN [d EXCEPT !.left = TRUE]
    ELSE IF SpendInputs(d, t).left THEN SpendInputs(d, t) ELSE Materialize(SpendInputs(d, t), t)

Fees(txids) == SumSeq([j \in DOMAIN txids |-> Fee(txids[j])])
(* What v3 looks at before it writes anything: it does not see the order.   *)
Prevalidated(b) ==
    \A j \in DOMAIN b.txids : LET t == b.txids[j] IN
        /\ status[t] = "pending"
        /\ \A k \in DOMAIN Inputs[t] : <<Inputs[t][k], t>> \in spends /\ Row(Inputs[t][k])

After(b) ==
    LET after[i \in 0..Len(b.txids)] == IF i = 0 THEN Tables ELSE Confirm(after[i - 1], b.txids[i])
    IN  after[Len(b.txids)]
Written(b, d, coinbase) ==
    /\ blocks' = Append(blocks, [reward |-> b.reward, txids |-> b.txids])
    /\ utxos' = IF d.left THEN d.utxos ELSE Created(d.utxos, Coinbase(b.height), coinbase)
    /\ status' = d.status /\ spends' = d.spends /\ outs' = d.outs /\ UNCHANGED mempool
NextHeight(b) == Len(blocks) + 1 = b.height

(* A return commits what was written before it.                             *)
AcceptBlockV2(b) == IF NextHeight(b) THEN Written(b, After(b), b.reward) ELSE UNCHANGED Ledger
(* The candidate: a raise that is caught undoes it.                         *)
AcceptBlockAtomic(b) ==
    IF NextHeight(b) /\ ~After(b).left THEN Written(b, After(b), b.reward) ELSE UNCHANGED Ledger
AcceptBlockV3(b) ==
    IF NextHeight(b) /\ Prevalidated(b) /\ ~After(b).left THEN Written(b, After(b), b.reward + Fees(b.txids))
    ELSE UNCHANGED Ledger
Returns(b) == AcceptBlockV2(b) (* Mutant: what was written is kept by every version. *)
AcceptBlock(b) ==
    \/ Version = "v2" /\ AcceptBlockV2(b)
    \/ Version = "v2_atomic" /\ AcceptBlockAtomic(b)
    \/ Version = "v3" /\ AcceptBlockV3(b)
-----------------------------------------------------------------------------
(* The edge function: template, then submitBlock.                           *)
Issued == SumSeq([h \in DOMAIN blocks |-> blocks[h].reward])
Reward(issued) == IF issued >= MaxSupply THEN 0
                  ELSE IF Subsidy < MaxSupply - issued THEN Subsidy ELSE MaxSupply - issued
(* Those that are pending, by mempool_seq, as many as go into a template.   *)
Pending ==
    LET taken[i \in 0..Len(mempool)] ==
          IF i = 0 THEN <<>>
          ELSE IF status[mempool[i]] = "pending" /\ Len(taken[i - 1]) < MaxTxs THEN Append(taken[i - 1], mempool[i])
          ELSE taken[i - 1]
    IN  taken[Len(mempool)]
Own == UNION {{l \in [1..k -> Txs] : \A i, j \in 1..k : l[i] = l[j] => i = j} : k \in 0..2}

Step(m, from, to) == miner[m].pc = from /\ miner' = [miner EXCEPT ![m] = to] /\ UNCHANGED <<Ledger, sub>>
Drop(m) == Step(m, miner[m].pc, NoBlock) /\ UNCHANGED refused

TemplateTip(m) ==
    /\ Step(m, "idle", [NoBlock EXCEPT !.pc = "issued", !.height = Len(blocks) + 1]) /\ UNCHANGED refused
TemplateIssued(m) ==
    /\ Step(m, "issued", IF Issued >= MaxSupply THEN NoBlock
                         ELSE [miner[m] EXCEPT !.pc = "pending", !.reward = Reward(Issued)])
    /\ UNCHANGED refused
TemplatePending(m) ==
    /\ \/ Step(m, "pending", [miner[m] EXCEPT !.pc = "mined", !.txids = Pending])
       \/ /\ m \in Choosers
          /\ \E l \in Own : Step(m, "pending", [miner[m] EXCEPT !.pc = "mined", !.txids = l, !.honest = FALSE])
    /\ UNCHANGED refused

SubmitTip(m) ==
    /\ Step(m, "mined", IF miner[m].height = Len(blocks) + 1 THEN [miner[m] EXCEPT !.pc = "check"] ELSE NoBlock)
    /\ UNCHANGED refused
(* The fields of the header; for v3 the fees of the listed transactions.    *)
SubmitIssued(m) ==
    /\ Step(m, "check",
            IF /\ miner[m].reward = Reward(Issued)
               /\ Version = "v3" => \A j \in DOMAIN miner[m].txids : status[miner[m].txids[j]] = "pending"
            THEN [miner[m] EXCEPT !.pc = "rpc"] ELSE NoBlock)
    /\ UNCHANGED refused
SubmitRpc(m) ==
    LET b == miner[m]
        rows == UNION {InputSet(b.txids[j]) \cup {Out(b.txids[j])} : j \in DOMAIN b.txids} IN
    /\ b.pc = "rpc" /\ LockedRows \cap rows = {}
    /\ AcceptBlock(b)
    /\ refused' = (refused \/ (b.honest /\ b.height = Len(blocks) + 1 /\ Coinbase(b.height) \notin DOMAIN utxos'))
    /\ miner' = [miner EXCEPT ![m] = NoBlock] /\ UNCHANGED sub

Next == \/ \E s \in Subs : \/ Begin(s) \/ ReadRow(s) \/ CheckReserved(s) \/ Insert(s) \/ AbortTx(s)
        \/ \E m \in Miners : \/ TemplateTip(m) \/ TemplateIssued(m) \/ TemplatePending(m)
                             \/ SubmitTip(m) \/ SubmitIssued(m) \/ SubmitRpc(m)
                             \/ (miner[m].pc # "idle" /\ Drop(m))
Spec == Init /\ [][Next]_vars
-----------------------------------------------------------------------------
(* Every table holds rows of its kind.                                      *)
TypeOK ==
    /\ \A i \in DOMAIN blocks : blocks[i].reward \in 0..Subsidy /\ blocks[i].txids \in Seq(Txs)
    /\ status \in [Txs -> {"absent", "pending", "confirmed"}] /\ mempool \in Seq(Txs)
    /\ \A o \in DOMAIN utxos : utxos[o].amount \in Nat /\ utxos[o].spent \in BOOLEAN
    /\ refused \in BOOLEAN /\ \A s \in Subs : sub[s].i \in 1..Len(Inputs[TxOf[s]])

(* Whatever order the submissions and blocks come in, what is reserved is   *)
(* what the pending transactions spend, each outpoint for one of them, and  *)
(* each of these inputs is unspent or made by another pending transaction.  *)
MempoolSound ==
    LET pending == {t \in Txs : status[t] = "pending"} IN
    /\ spends = UNION {Reservations(t) : t \in pending}
    /\ \A r, u \in spends : r[1] = u[1] => r = u
    /\ outs = {Out(t) : t \in pending}
    /\ \A r \in spends : Row(r[1])

(* Nothing is made or lost: what can be spent is what was issued, less the  *)
(* fees, which v2 does not pay to anybody.                                  *)
ValueKept ==
    LET unspent == SumOver([o \in DOMAIN utxos |-> utxos[o].amount], Unspent(utxos))
        burnt == SumOver([t \in Txs |-> Fee(t)], {t \in Txs : status[t] = "confirmed"})
    IN  unspent + (IF Version = "v3" THEN 0 ELSE burnt) = Issued

(* A block that is in the table is there as a whole: its coinbase exists    *)
(* and its transactions are confirmed.                                      *)
BlocksWhole ==
    \A h \in DOMAIN blocks :
        /\ Coinbase(h) \in DOMAIN utxos
        /\ \A j \in DOMAIN blocks[h].txids : LET t == blocks[h].txids[j] IN status[t] = "confirmed" /\ Out(t) \in DOMAIN utxos

(* A block built from a template, whose tip is still the tip when the lock  *)
(* is taken, is accepted: no submission in between makes it unacceptable.   *)
TemplateStands == ~refused

(* The supply is the one the rule gives for the height, though the tip and  *)
(* the sum of the rewards are read in separate requests, before the lock is *)
(* taken, and other blocks are accepted in between.                         *)
SupplyByRule == Issued = IF Len(blocks) * Subsidy < MaxSupply THEN Len(blocks) * Subsidy ELSE MaxSupply
=============================================================================
