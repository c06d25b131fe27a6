----------------------------- MODULE ReorgState -----------------------------
(* Outputs, coinbase maturity and the mempool across reorganisations        *)
(* (activation-state-transition-candidate.mjs).  Two branches grow from a   *)
(* prefix; the tip moves between them, to a shorter one too, since the      *)
(* module leaves the choice to others.                                      *)
EXTENDS Sums, FiniteSets

CONSTANTS Txs,        \* per txid, a number: inputs, the amount of its output, mempool_seq or 0 when absent
          Activation, Maturity, \* activation_height, candidate_coinbase_maturity_blocks; the legacy maturity is 0
          Reward,     \* of every coinbase, one output each
          Fork,       \* height of the common prefix
          MaxHeight,  \* bound: blocks of a branch
          MaxTxs,     \* bound: transactions of a block
          Invalid     \* a thrown error

Ids == DOMAIN Txs
Branches == {"a", "b"}
Outpoint == {"tx", "prefix", "a", "b"} \X Nat
ReorgAssumption ==
    /\ Activation \in Nat \ {0} /\ Maturity \in Nat \ {0} /\ Reward \in Nat \ {0}
    /\ MaxHeight \in Nat /\ Fork \in 0..MaxHeight /\ MaxTxs \in Nat
    /\ Ids \subseteq Nat /\ \A t \in Ids : Txs[t] \in [inputs : Seq(Outpoint), out : Nat \ {0}, seq : Nat]

VARIABLES state,   \* what the blocks of each branch give, replayed from the first one
          branch,  \* the transactions of the blocks of each branch above the prefix, in the order of the chain
          active,  \* the branch the node is on
          pool     \* accepted rows, with their mempool_seq
vars == <<state, branch, active, pool>>
-----------------------------------------------------------------------------
(* coinbaseMaturityForCreationHeight, matureAtSpendHeight                   *)
Mature(u, height) == ~u.coinbase \/ height >= u.made + (IF u.made < Activation THEN 0 ELSE Maturity)

Inputs(t) == {Txs[t].inputs[i] : i \in DOMAIN Txs[t].inputs}
Output(t) == <<"tx", t>>
MadeBy(t, height) == [amount |-> Txs[t].out, made |-> height, coinbase |-> FALSE, spent |-> FALSE]
Paid(t, view) == SumOver([o \in Inputs(t) |-> view[o].amount], Inputs(t))
(* validateTxAgainstView: view holds the outputs of the state, and those of *)
(* the mempool for outpoints the state does not have.                       *)
Valid(t, view, reserved, height) ==
    /\ Inputs(t) # {} /\ Cardinality(Inputs(t)) = Len(Txs[t].inputs)
    /\ \A o \in Inputs(t) : o \notin reserved /\ o \in DOMAIN view /\ ~view[o].spent /\ Mature(view[o], height)
    /\ Txs[t].out <= Paid(t, view)

(* emptyTransitionState, connectTransitionBlock, replayTransition           *)
Empty == [height |-> 0, utxos |-> <<>>, confirmed |-> {}]
Spend(st, t) ==
    [o \in DOMAIN st.utxos \cup {Output(t)} |->
        IF o = Output(t) THEN MadeBy(t, st.height) ELSE [st.utxos[o] EXCEPT !.spent = @ \/ o \in Inputs(t)]]
ConnectTx(st, t) ==
    IF st = Invalid THEN Invalid
    ELSE IF t \in st.confirmed \/ ~Valid(t, st.utxos, {}, st.height) THEN Invalid
    ELSE [height |-> st.height, utxos |-> Spend(st, t), confirmed |-> st.confirmed \cup {t}]
Coinbase(st, o) ==
    [p \in DOMAIN st.utxos \cup {o} |->
        IF p = o THEN [amount |-> Reward, made |-> st.height, coinbase |-> TRUE, spent |-> FALSE] ELSE st.utxos[p]]
Connect(st, on, txs) ==
    LET connected[k \in 0..Len(txs)] ==
            IF k = 0 THEN [height |-> st.height + 1, utxos |-> st.utxos, confirmed |-> st.confirmed]
            ELSE ConnectTx(connected[k - 1], txs[k])
        after == connected[Len(txs)]
        o == <<on, st.height + 1>>
    IN  IF after = Invalid THEN Invalid
        ELSE IF o \in DOMAIN after.utxos THEN Invalid
        ELSE [height |-> after.height, utxos |-> Coinbase(after, o), confirmed |-> after.confirmed]

(* walletTransitionView: what an address may spend in the next block.       *)
Spendable(st) == {o \in DOMAIN st.utxos : ~st.utxos[o].spent /\ Mature(st.utxos[o], st.height + 1)}
-----------------------------------------------------------------------------
(* reconcileTransitionMempool: rows in the order of their numbers, each     *)
(* transaction looked at once.                                              *)
Before(x, y) == x.seq < y.seq \/ (x.seq = y.seq /\ x.tx < y.tx)
Ordered(rows) == [k \in 1..Cardinality(rows) |-> CHOOSE x \in rows : Cardinality({y \in rows : Before(y, x)}) = k - 1]
Reserved(rows) == UNION {Inputs(row.tx) : row \in rows}
Outputs(rows) == {Output(row.tx) : row \in rows}
View(st, rows) ==
    [o \in DOMAIN st.utxos \cup Outputs(rows) |-> IF o \in DOMAIN st.utxos THEN st.utxos[o] ELSE MadeBy(o[2], st.height + 1)]
Acceptable(st, accepted, t) == Valid(t, View(st, accepted), Reserved(accepted), st.height + 1)
Reconcile(st, candidates) ==
    LET rows == Ordered(candidates)
        accepted[k \in 0..Len(rows)] ==
            IF k = 0 THEN {}
            ELSE accepted[k - 1] \cup
                 {row \in {rows[k]} : /\ \A j \in 1..(k - 1) : rows[j].tx # row.tx
                                      /\ Acceptable(st, accepted[k - 1], row.tx)}
    IN  accepted[Len(rows)]
Row(t, default) == [tx |-> t, seq |-> IF Txs[t].seq = 0 THEN default ELSE Txs[t].seq]

(* reorgTransition: what the old branch confirmed and the new one did not,  *)
(* numbered in the order of the chain.                                      *)
Detached(old, new) == {k \in 1..Len(branch[old]) : branch[old][k] \notin state[new].confirmed}
Disconnected(old, new) == {Row(branch[old][k], Cardinality(Detached(old, new) \cap 1..k)) : k \in Detached(old, new)}
Candidates(old, new) == pool \cup Disconnected(old, new)
ReorgMempool(old, new) == Reconcile(state[new], Candidates(old, new))
-----------------------------------------------------------------------------
Init == state = [b \in Branches |-> Empty] /\ branch = [b \in Branches |-> <<>>] /\ active = "a" /\ pool = {}

Submit(t) ==
    /\ pool' = Reconcile(state[active], pool \cup {Row(t, Cardinality(pool) + 1)}) /\ pool' # pool
    /\ UNCHANGED <<state, branch, active>>
(* A block anyone mined, and what the mempool is then.                      *)
Contents == {s \in UNION {[1..n -> Ids] : n \in 0..MaxTxs} : \A i, j \in DOMAIN s : s[i] = s[j] => i = j}
MinePrefix(txs) ==
    /\ state["a"].height < Fork /\ Connect(state["a"], "prefix", txs) # Invalid
    /\ state' = [b \in Branches |-> Connect(state[b], "prefix", txs)]
    /\ pool' = Reconcile(state'[active], pool) /\ UNCHANGED <<branch, active>>
Mine(b, txs) ==
    /\ state[b].height \in Fork..(MaxHeight - 1) /\ Connect(state[b], b, txs) # Invalid
    /\ state' = [state EXCEPT ![b] = Connect(@, b, txs)] /\ branch' = [branch EXCEPT ![b] = @ \o txs]
    /\ pool' = IF b = active THEN Reconcile(state'[b], pool) ELSE pool
    /\ UNCHANGED active
Reorg(new) ==
    /\ new # active /\ state[new].height > Fork
    /\ active' = new /\ pool' = ReorgMempool(active, new) /\ UNCHANGED <<state, branch>>

Next == \/ \E t \in Ids : Submit(t)
        \/ \E txs \in Contents : MinePrefix(txs)
        \/ \E b \in Branches, txs \in Contents : Mine(b, txs)
        \/ \E new \in Branches : Reorg(new)
Spec == Init /\ [][Next]_vars
-----------------------------------------------------------------------------
(* The variables have their types.                                          *)
TypeOK ==
    /\ DOMAIN state = Branches /\ \A b \in Branches : state[b].height \in 0..MaxHeight /\ state[b].confirmed \subseteq Ids
    /\ branch \in [Branches -> Seq(Ids)] /\ active \in Branches /\ pool \subseteq [tx : Ids, seq : Nat]

(* What is pending can go into the next blocks: no input is named by two,   *)
(* none is confirmed already, and every input is unspent and mature in the  *)
(* chain the node is on, or an output of another that is pending            *)
(* (AGENT_BUILD_COLONY_B_STATE_TRANSITION.md, gate 6).                      *)
PoolSound ==
    LET pending == {row.tx : row \in pool} IN
    /\ pending \cap state[active].confirmed = {}
    /\ \A t \in pending : Inputs(t) \subseteq Spendable(state[active]) \cup Outputs(pool)
    /\ \A x, y \in pool : x # y => x.tx # y.tx /\ Inputs(x.tx) \cap Inputs(y.tx) = {}

(* On every branch the coinbases are what is unspent and the fees: nothing  *)
(* is spent twice and nothing comes from nowhere (gate 2).                  *)
Unspent(st) == SumOver([o \in DOMAIN st.utxos |-> IF st.utxos[o].spent THEN 0 ELSE st.utxos[o].amount], DOMAIN st.utxos)
Fees(st) == SumOver([t \in st.confirmed |-> Paid(t, st.utxos) - Txs[t].out], st.confirmed)
Conserved == \A b \in Branches : Unspent(state[b]) + Fees(state[b]) = state[b].height * Reward /\ Fees(state[b]) >= 0

(* The activation takes nothing away: an output that can be spent in the    *)
(* next block can be spent in every later one of that branch until it is.   *)
StaysSpendable == \A b \in Branches : \A o \in Spendable(state[b]) : o \in Spendable(state'[b]) \/ state'[b].utxos[o].spent

(* A reorganisation drops no transaction that the mempool it leaves could   *)
(* still take (gates 4, 6 and 7), but one looked at before a transaction it *)
(* spends from: rows are looked at once, in the order of their numbers, and *)
(* a child's number may be the smaller.                                     *)
BeforeParent(t, candidates) ==
    \E child \in candidates, parent \in pool' :
        child.tx = t /\ Output(parent.tx) \in Inputs(t) /\ Before(child, parent)
NothingNeedless == active' # active =>
    LET candidates == Candidates(active, active') IN
    \A row \in candidates :
        (\A r \in pool' : r.tx # row.tx) /\ Acceptable(state[active'], pool', row.tx)
            => BeforeParent(row.tx, candidates)
=============================================================================
