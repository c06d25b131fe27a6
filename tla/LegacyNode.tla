----------------------------- MODULE LegacyNode -----------------------------
(* The independent node of the legacy network (fae-node.mjs): mempool,      *)
(* template, blocks, synchronisation by whole chains and the state file.    *)
(* Outputs are derived: what the chain made less what it spent, and what    *)
(* pending transactions make and reserve.  A transaction has one output,    *)
(* named by its txid; a coinbase is named by the hash of its block.         *)
EXTENDS Sums, FiniteSets, SequencesExt

CONSTANTS Nodes, None,
          Txs,        \* per txid: inputs, from, to, out
          Miner, Reward, \* who is paid by every block, and how much
          Hashes,     \* numbers: of the blocks there may be, as the strings compare
          MaxTxsPerBlock, MaxCrashes, MaxFailures
Ids == DOMAIN Txs
LegacyAssumption ==
    /\ Ids \subseteq Nat /\ Hashes \subseteq Nat \ {0} /\ Ids \cap Hashes = {}
    /\ \A t \in Ids : Txs[t].out \in Nat \ {0} /\ Txs[t].inputs \subseteq Ids \cup Hashes /\ IsFiniteSet(Txs[t].inputs)
    /\ Reward \in Nat /\ MaxTxsPerBlock \in Nat /\ MaxCrashes \in Nat /\ MaxFailures \in Nat

VARIABLES state,   \* chain, mempoolOrder, mempool_seq of the records, mempoolSeq
          file,    \* what was persisted last
          syncing, \* a chain that was fetched and validated and waits for the lock, or None
          blocks,  \* every block found so far, by hash: the one below and its transactions
          told,    \* transactions the node said yes to
          crashes, failures
vars == <<state, file, syncing, blocks, told, crashes, failures>>
-----------------------------------------------------------------------------
Tip(s) == IF s.chain = <<>> THEN 0 ELSE Last(s.chain)
Confirmed(s) == UNION {ToSet(blocks[s.chain[i]].txids) : i \in DOMAIN s.chain}
Pending(s) == ToSet(s.order)
Height(s, t) == CHOOSE i \in DOMAIN s.chain : t \in ToSet(blocks[s.chain[i]].txids)
InputsOf(ts) == UNION {Txs[t].inputs : t \in ts}
Unspent(s) == (ToSet(s.chain) \cup Confirmed(s)) \ InputsOf(Confirmed(s))
Amount(o) == IF o \in Ids THEN Txs[o].out ELSE Reward
Owner(o) == IF o \in Ids THEN Txs[o].to ELSE Miner
Total(outpoints) == SumOver([o \in outpoints |-> Amount(o)], outpoints)

(* acceptTxInto: seq is the number a record brings, 0 for a new one.        *)
Missing(s, t) == \E o \in Txs[t].inputs : o \notin Unspent(s) \cup Pending(s)
Acceptable(s, t) ==
    /\ t \notin Confirmed(s) \cup Pending(s) /\ ~Missing(s, t)
    /\ \A o \in Txs[t].inputs : Owner(o) = Txs[t].from /\ o \notin InputsOf(Pending(s))
    /\ Txs[t].out <= Total(Txs[t].inputs)
AcceptTxInto(s, t, seq) ==
    LET n == IF seq = 0 THEN s.last + 1 ELSE seq IN
    [chain |-> s.chain, order |-> Append(s.order, t), seq |-> [s.seq EXCEPT ![t] = n], last |-> IF s.last > n THEN s.last ELSE n]

(* applyConfirmedTx for each in turn: inputs come from the chain alone.     *)
Applies(s, txids) ==
    \A i \in DOMAIN txids : LET before == ToSet(SubSeq(txids, 1, i - 1)) IN
        Txs[txids[i]].inputs \subseteq (Unspent(s) \cup before) \ InputsOf(before)
Omit(q, S) ==
    LET left[i \in 0..Len(q)] == IF i = 0 THEN <<>> ELSE IF q[i] \in S THEN left[i - 1] ELSE Append(left[i - 1], q[i])
    IN  left[Len(q)]
AppendBlock(s, hash, txids) == [chain |-> Append(s.chain, hash), order |-> Omit(s.order, ToSet(txids)), seq |-> s.seq, last |-> s.last]
Template(s) == SubSeq(s.order, 1, IF Len(s.order) < MaxTxsPerBlock THEN Len(s.order) ELSE MaxTxsPerBlock)

(* preferred: the bits are the same in all blocks of an instance.           *)
Preferred(a, b) == Len(a.chain) > Len(b.chain) \/ (Len(a.chain) = Len(b.chain) /\ Tip(a) < Tip(b))

(* reorgRecordOrder, reconcileDetachedTransactions: passes over what waits, *)
(* until one accepts nothing.  What is refused for another reason than a    *)
(* missing input is refused in every later pass.                            *)
Before(s, t, u) ==
    LET h(x) == IF x \in Confirmed(s) THEN Height(s, x) ELSE Len(s.chain) + 1 IN
    \/ h(t) < h(u)
    \/ h(t) = h(u) /\ (s.seq[t] < s.seq[u] \/ (s.seq[t] = s.seq[u] /\ t < u))
Detached(candidate, previous) == (Confirmed(previous) \cup Pending(previous)) \ Confirmed(candidate)
Ordered(s, ts) == [k \in 1..Cardinality(ts) |-> CHOOSE t \in ts : Cardinality({u \in ts : Before(s, u, t)}) = k - 1]
Pass(s, waiting, seq) ==
    LET offered[i \in 0..Len(waiting)] ==
            IF i = 0 THEN s
            ELSE IF Acceptable(offered[i - 1], waiting[i]) THEN AcceptTxInto(offered[i - 1], waiting[i], seq[waiting[i]])
            ELSE offered[i - 1]
    IN  offered[Len(waiting)]
Reconcile(candidate, previous) ==
    LET waiting == Ordered(previous, Detached(candidate, previous))
        passed[k \in 0..Len(waiting)] == IF k = 0 THEN candidate ELSE Pass(passed[k - 1], waiting, previous.seq)
    IN  passed[Len(waiting)]
-----------------------------------------------------------------------------
Empty == [chain |-> <<>>, order |-> <<>>, seq |-> [t \in Ids |-> 0], last |-> 0]
Init ==
    /\ state = [n \in Nodes |-> Empty] /\ file = state
    /\ syncing = [n \in Nodes |-> None] /\ blocks = <<>> /\ told = [n \in Nodes |-> {}] /\ crashes = 0 /\ failures = 0

(* state is set, then written to a temporary file that is renamed; a write  *)
(* that throws leaves the new state in memory.                              *)
Write(n, s, yes) == state' = [state EXCEPT ![n] = s] /\ file' = [file EXCEPT ![n] = s] /\ told' = [told EXCEPT ![n] = yes] /\ UNCHANGED failures
Fails(n, s, yes) ==
    /\ failures < MaxFailures /\ failures' = failures + 1
    /\ state' = [state EXCEPT ![n] = s] /\ told' = [told EXCEPT ![n] = yes \cap @] /\ UNCHANGED file
Persist(n, s, yes) == Write(n, s, yes) \/ Fails(n, s, yes)

(* /submit-tx, from a wallet or relayed.                                    *)
SubmitTx(n, t) ==
    /\ Acceptable(state[n], t) /\ Persist(n, AcceptTxInto(state[n], t, 0), told[n] \cup {t})
    /\ UNCHANGED <<syncing, blocks, crashes>>
(* /submit-block with a template taken when the mempool was no longer, and  *)
(* the same path for a block another node relays.                           *)
SubmitBlock(n, hash, txids) ==
    /\ hash \notin DOMAIN blocks
    /\ blocks' = [h \in DOMAIN blocks \cup {hash} |-> IF h = hash THEN [prev |-> Tip(state[n]), txids |-> txids] ELSE blocks[h]]
    /\ Persist(n, AppendBlock(state[n], hash, txids), told[n]) /\ UNCHANGED <<syncing, crashes>>
ReceiveBlock(n, hash) ==
    /\ blocks[hash].prev = Tip(state[n]) /\ ToSet(blocks[hash].txids) \subseteq Pending(state[n]) /\ Applies(state[n], blocks[hash].txids)
    /\ Persist(n, AppendBlock(state[n], hash, blocks[hash].txids), told[n]) /\ UNCHANGED <<syncing, blocks, crashes>>

(* fetchCandidate, outside the lock: the pages end when the chain of the    *)
(* source has been read, and blocks of two branches do not link.  Records   *)
(* keep the numbers they have there, the counter starts again.              *)
Fetched(s) == [chain |-> s.chain, order |-> <<>>, seq |-> [t \in Ids |-> IF t \in Confirmed(s) THEN s.seq[t] ELSE 0], last |-> 0]
SyncFetch(n, m) ==
    /\ syncing[n] = None /\ Preferred(state[m], state[n])
    /\ syncing' = [syncing EXCEPT ![n] = Fetched(state[m])] /\ UNCHANGED <<state, file, blocks, told, crashes, failures>>
Adopt(n) ==
    /\ syncing[n] # None /\ syncing' = [syncing EXCEPT ![n] = None]
    /\ IF Preferred(syncing[n], state[n])
       THEN \E s \in {Reconcile(syncing[n], state[n])} : Persist(n, s, told[n] \cap (Confirmed(s) \cup Pending(s)))
       ELSE UNCHANGED <<state, file, told, failures>>
    /\ UNCHANGED <<blocks, crashes>>
Crash(n) ==
    /\ crashes < MaxCrashes /\ crashes' = crashes + 1
    /\ state' = [state EXCEPT ![n] = file[n]] /\ syncing' = [syncing EXCEPT ![n] = None] /\ UNCHANGED <<file, blocks, told, failures>>

Offered(s) == {SubSeq(Template(s), 1, k) : k \in 0..Len(Template(s))}
Next == \E n \in Nodes :
    \/ \E t \in Ids : SubmitTx(n, t)
    \/ \E hash \in Hashes : \E txids \in Offered(state[n]) : SubmitBlock(n, hash, txids)
    \/ \E hash \in DOMAIN blocks : ReceiveBlock(n, hash)
    \/ \E m \in Nodes \ {n} : SyncFetch(n, m)
    \/ Adopt(n) \/ Crash(n)
(* setInterval runs syncOnce for as long as the process is up.              *)
Spec == Init /\ [][Next]_vars /\ \A n \in Nodes : WF_vars(Adopt(n)) /\ \A m \in Nodes \ {n} : WF_vars(SyncFetch(n, m))
-----------------------------------------------------------------------------
(* The variables have their types; the counter is not behind a number in    *)
(* the mempool, so what comes next has a greater one.                       *)
TypeOK ==
    /\ \A n \in Nodes : \A s \in {state[n], file[n]} :
        /\ ToSet(s.chain) \subseteq DOMAIN blocks /\ Pending(s) \subseteq Ids /\ s.seq \in [Ids -> Nat] /\ s.last \in Nat
        /\ \A t \in Pending(s) : s.seq[t] \in 1..s.last
    /\ DOMAIN blocks \subseteq Hashes /\ told \in [Nodes -> SUBSET Ids] /\ crashes \in 0..MaxCrashes /\ failures \in 0..MaxFailures

(* What /template gives can be confirmed in the order it has, whatever      *)
(* reorganisations the mempool went through: the miner's block is valid.    *)
TemplateApplies == \A n \in Nodes : Applies(state[n], Template(state[n])) /\ IsInjective(state[n].order)

(* Adopting a chain drops no transaction that could still be accepted       *)
(* (partition-recovery-3node.mjs, "recovered transaction not selected").    *)
NothingNeedless == \A n \in Nodes : syncing[n] # None /\ syncing'[n] = None /\ crashes' = crashes =>
    \A t \in Confirmed(state[n]) \cup Pending(state[n]) : ~Acceptable(state'[n], t)

(* A transaction the node said yes to, and has not dropped at a             *)
(* reorganisation, is still there after a crash.                            *)
ToldSurvives == \A n \in Nodes : told[n] \subseteq Confirmed(file[n]) \cup Pending(file[n])

(* Nodes that see each other end on one chain.                              *)
Converges == <>[](\A n, m \in Nodes : state[n].chain = state[m].chain)
=============================================================================
