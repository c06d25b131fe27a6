-------------------------------- MODULE Ledger --------------------------------
(***************************************************************************)
(* The ledger rules of the authoritative node,                             *)
(* sovereign-forge/node/authoritative/fae-v4-core.mjs, as operators on a   *)
(* state record with the fields of the program's state object:             *)
(*                                                                         *)
(*   chain           the blocks after the empty chain, oldest first        *)
(*   transactions    txid -> record, for the transactions the node knows   *)
(*   mempoolOrder    the pending txids, in the order a template takes them *)
(*   mempoolSeq      the highest arrival number handed out                 *)
(*   utxos           outpoint -> amount and spent flag (entries stay)      *)
(*   mempoolSpends   outpoint -> the pending transaction that reserves it  *)
(*   mempoolOutputs  outpoint -> amount, of the outputs not yet mined      *)
(*                                                                         *)
(* Transactions are numbers, so that the txid comparisons of the code have *)
(* a meaning; block hashes are numbers of a disjoint set, ordered like the *)
(* hash strings.  A signature, its key and the address it owns are fixed   *)
(* by the transaction: the model's transactions are correctly signed and   *)
(* spend outputs of their signer.  The difficulty of a block is its `work` *)
(* (2^difficulty_bits): nextDifficulty depends on timestamps that differ   *)
(* between branches, so a block may carry any member of Works.             *)
(***************************************************************************)
EXTENDS Sums, FiniteSets

CONSTANTS
  Txs,              \* the transaction ids
  Hashes,           \* the block hashes a miner can find
  Inputs,           \* [Txs -> Seq(outpoint)]
  Outputs,          \* [Txs -> Seq(amount)]
  Works,            \* the work values a block can carry
  InitialSubsidy, HalvingEraBlocks, MaxSupply,
  MaxTxsPerBlock,
  ActivationHeight  \* PPLNS_COINBASE_ACTIVATION_HEIGHT; 0 stands for null

ZeroHash == 0       \* ZERO_HASH, the parent of the first block
GenesisHash == 1    \* the checkpointed legacy prefix, as one block
Outpoint == (Txs \cup Hashes \cup {GenesisHash}) \X Nat

ASSUME LedgerAssumption ==
  /\ Txs \subseteq Nat /\ Hashes \subseteq Nat
  /\ {ZeroHash, GenesisHash} \cap (Txs \cup Hashes) = {} /\ Txs \cap Hashes = {}
  /\ \A h \in Hashes : h > GenesisHash
  /\ Inputs \in [Txs -> Seq(Outpoint)]
  /\ Outputs \in [Txs -> Seq(Nat \ {0})]
  /\ \A t \in Txs : /\ Inputs[t] # <<>> /\ Outputs[t] # <<>>
                    /\ \A i, j \in DOMAIN Inputs[t] :
                          Inputs[t][i] = Inputs[t][j] => i = j
  /\ Works \subseteq Nat \ {0} /\ Works # {}
  /\ InitialSubsidy \in Nat /\ HalvingEraBlocks \in Nat \ {0}
  /\ MaxSupply \in Nat /\ MaxTxsPerBlock \in Nat /\ ActivationHeight \in Nat
-----------------------------------------------------------------------------
Elements(q) == {q[i] : i \in DOMAIN q}
Larger(a, b) == IF a >= b THEN a ELSE b

(* The map f after the entries of g have been set in it, and without S.     *)
Overlay(g, f) == [x \in DOMAIN f \cup DOMAIN g |-> IF x \in DOMAIN g THEN g[x] ELSE f[x]]
Without(f, S) == [x \in DOMAIN f \ S |-> f[x]]

(* The elements of q that are not in S, in their order.                     *)
Omit(q, S) ==
  LET left[i \in 0..Len(q)] ==
        IF i = 0 THEN <<>>
        ELSE IF q[i] \in S THEN left[i - 1] ELSE Append(left[i - 1], q[i])
  IN  left[Len(q)]

(* The members of S in the order the comparison Before prescribes.          *)
SortBy(S, Before(_, _)) ==
  CHOOSE q \in [1..Cardinality(S) -> S] :
    \A i, j \in 1..Cardinality(S) : i < j => Before(q[i], q[j])
-----------------------------------------------------------------------------
(* Chain arithmetic.                                                        *)
Height(s) == Len(s.chain)
TipHash(s) == IF s.chain = <<>> THEN ZeroHash ELSE s.chain[Len(s.chain)].hash

(* INITIAL_SUBSIDY >> era                                                   *)
Halved(era) ==
  LET half[e \in 0..era] == IF e = 0 THEN InitialSubsidy ELSE half[e - 1] \div 2
  IN  half[era]
Subsidy(height) ==
  LET era == (height - 1) \div HalvingEraBlocks
  IN  IF era >= 63 THEN 0 ELSE Halved(era)

ChainWork(chain) == SumSeq([i \in DOMAIN chain |-> chain[i].work])
Issued(s) == SumSeq([i \in DOMAIN s.chain |-> s.chain[i].reward])

ExpectedReward(s, height) ==
  LET remaining == MaxSupply - Issued(s)
  IN  IF remaining <= 0 THEN 0
      ELSE IF Subsidy(height) < remaining THEN Subsidy(height) ELSE remaining

(* More work wins; equal work is decided by the lower tip hash.             *)
Preferred(candidate, current) ==
  LET cw == ChainWork(candidate.chain)
      ow == ChainWork(current.chain)
  IN  \/ cw > ow
      \/ cw = ow /\ candidate.chain # <<>> /\ TipHash(candidate) < TipHash(current)

CoinbaseActive(height) == ActivationHeight >= 1 /\ height >= ActivationHeight

EmptyState ==
  [chain |-> <<>>, transactions |-> <<>>, mempoolOrder |-> <<>>, mempoolSeq |-> 0,
   utxos |-> <<>>, mempoolSpends |-> <<>>, mempoolOutputs |-> <<>>]

Known(s) == DOMAIN s.transactions
Pending(s) == {t \in Known(s) : s.transactions[t].status = "pending"}
Confirmed(s) == {t \in Known(s) : s.transactions[t].status = "confirmed"}
-----------------------------------------------------------------------------
(* acceptTxInto: a transaction enters the mempool.                          *)
InputSet(t) == Elements(Inputs[t])
OutpointsOf(t) == {<<t, i - 1>> : i \in DOMAIN Outputs[t]}
OutputAmount(o) == Outputs[o[1]][o[2] + 1]
OutputSum(t) == SumSeq(Outputs[t])

(* Mutant: the spent flag is not looked at.                                 *)
Existing(s, o) == o \in DOMAIN s.utxos
Unspent(s, o) == o \in DOMAIN s.utxos /\ ~s.utxos[o].spent
Spendable(s, o) == Unspent(s, o) \/ o \in DOMAIN s.mempoolOutputs
Reserved(s, o) == o \in DOMAIN s.mempoolSpends
SpendableAmount(s, o) ==
  IF Unspent(s, o) THEN s.utxos[o].amount ELSE s.mempoolOutputs[o]
InputSum(s, t) ==
  SumSeq([i \in DOMAIN Inputs[t] |-> SpendableAmount(s, Inputs[t][i])])

(* Mutant: only the first output is weighed against the inputs.             *)
OverspendsFirstOutput(s, t) == Outputs[t][1] > InputSum(s, t)
Overspends(s, t) == OutputSum(t) > InputSum(s, t)

(* The inputs are examined in order and the first bad one names the error.  *)
AcceptError(s, t) ==
  LET Bad(i) == ~Spendable(s, Inputs[t][i]) \/ Reserved(s, Inputs[t][i])
  IN  CASE t \in Known(s) -> "duplicate_txid"
        [] t \notin Known(s) /\ \E i \in DOMAIN Inputs[t] : Bad(i) ->
             LET first == CHOOSE i \in DOMAIN Inputs[t] :
                            Bad(i) /\ \A j \in 1..(i - 1) : ~Bad(j)
             IN  IF Spendable(s, Inputs[t][first])
                 THEN "input_reserved" ELSE "missing_or_spent_input"
        [] OTHER -> IF Overspends(s, t) THEN "overspend" ELSE "none"

(* The arrival number: a feed record keeps its own unless it is 0.          *)
NextSeq(s) == s.mempoolSeq + 1
FeedSeq(s, seq) == IF seq # 0 THEN seq ELSE NextSeq(s)

AcceptTxInto(s, t, seq) ==
  [s EXCEPT
     !.mempoolSeq = Larger(@, seq),
     !.transactions = Overlay([u \in {t} |-> [status |-> "pending", height |-> 0, seq |-> seq,
                                               fee |-> InputSum(s, t) - OutputSum(t)]], @),
     !.mempoolOrder = Append(@, t),
     !.mempoolSpends = Overlay([o \in InputSet(t) |-> t], @),
     !.mempoolOutputs = Overlay([o \in OutpointsOf(t) |-> OutputAmount(o)], @)]
-----------------------------------------------------------------------------
(* Blocks.  `records` are the records the block's transactions come with:   *)
(* the node's own for a submission, the peer's for a block from a feed.     *)
TransactionFees(txids, records) ==
  SumSeq([i \in DOMAIN txids |-> records[txids[i]].fee])

(* Mutant: the miner collects the fees before the activation height too.    *)
CoinbaseWithFees(height, reward, fees) == reward + fees
CoinbaseValue(height, reward, fees) ==
  IF CoinbaseActive(height) THEN reward + fees ELSE reward

EnvelopeOk(s, b, records) ==
  /\ b.height = Height(s) + 1 /\ b.prev = TipHash(s)
  /\ Len(b.txids) <= MaxTxsPerBlock
  /\ \A i, j \in DOMAIN b.txids : b.txids[i] = b.txids[j] => i = j
  /\ b.reward = ExpectedReward(s, b.height)
  /\ Elements(b.txids) \subseteq DOMAIN records
  /\ b.coinbase = CoinbaseValue(b.height, b.reward, TransactionFees(b.txids, records))
  /\ CoinbaseActive(b.height) => b.coinbase > 0

(* applyConfirmedTx for each transaction of a block, in order: every input  *)
(* is unspent at its turn, and the record's fee balances the amounts.       *)
ConfirmAmount(s, o) == IF o \in DOMAIN s.utxos THEN s.utxos[o].amount ELSE OutputAmount(o)
TxsApply(s, txids, records) ==
  \A i \in DOMAIN txids :
    /\ \A o \in InputSet(txids[i]) :
         /\ Unspent(s, o) \/ \E j \in 1..(i - 1) : o \in OutpointsOf(txids[j])
         /\ \A j \in 1..(i - 1) : o \notin InputSet(txids[j])
    /\ OutputSum(txids[i]) + records[txids[i]].fee =
         SumSeq([k \in DOMAIN Inputs[txids[i]] |-> ConfirmAmount(s, Inputs[txids[i]][k])])

ConfirmedSeq(s, t, record) ==
  IF record.seq # 0 THEN record.seq
  ELSE IF t \in Known(s) THEN s.transactions[t].seq ELSE 0

(* Mutant: a confirmed transaction's inputs stay reserved.                  *)
ReservationsKept(s, spent) == s.mempoolSpends
ReservationsLeft(s, spent) == Without(s.mempoolSpends, spent)

AppendBlock(s, b, records) ==
  LET txs     == Elements(b.txids)
      spent   == UNION {InputSet(t) : t \in txs}
      created == UNION {OutpointsOf(t) : t \in txs}
      before  == Overlay([o \in created |-> [amount |-> OutputAmount(o), spent |-> FALSE]], s.utxos)
      utxos   == [o \in DOMAIN before |-> [before[o] EXCEPT !.spent = @ \/ o \in spent]]
      reward  == [o \in {<<b.hash, 0>>} |-> [amount |-> b.coinbase, spent |-> FALSE]]
  IN  [chain |-> Append(s.chain, b),
       transactions |->
         Overlay([t \in txs |-> [status |-> "confirmed", height |-> b.height,
                                 seq |-> ConfirmedSeq(s, t, records[t]), fee |-> records[t].fee]],
                 s.transactions),
       mempoolOrder |-> Omit(s.mempoolOrder, txs),
       mempoolSeq |-> s.mempoolSeq,
       utxos |-> Overlay(reward, utxos),
       mempoolSpends |-> ReservationsLeft(s, spent),
       mempoolOutputs |-> Without(s.mempoolOutputs, created)]

(* appendBlockFromSubmission, appendBlockFromFeed: when they do not throw.  *)
SubmissionOk(s, b) ==
  /\ Elements(b.txids) \subseteq Pending(s)
  /\ EnvelopeOk(s, b, s.transactions)
  /\ TxsApply(s, b.txids, s.transactions)
FeedBlockOk(s, b, records) == EnvelopeOk(s, b, records) /\ TxsApply(s, b.txids, records)

(* The template a miner gets: the head of the mempool on the current tip.   *)
(* Mutant: the newest transactions are taken instead of the oldest.         *)
SelectedNewest(s) ==
  SubSeq(s.mempoolOrder, IF Len(s.mempoolOrder) < MaxTxsPerBlock THEN 1
                         ELSE Len(s.mempoolOrder) - MaxTxsPerBlock + 1,
         Len(s.mempoolOrder))
SelectedPending(s) ==
  SubSeq(s.mempoolOrder, 1, IF Len(s.mempoolOrder) < MaxTxsPerBlock
                            THEN Len(s.mempoolOrder) ELSE MaxTxsPerBlock)

BlockOn(s, txids, hash, work) ==
  LET height == Height(s) + 1
      reward == ExpectedReward(s, height)
  IN  [hash |-> hash, prev |-> TipHash(s), height |-> height, work |-> work,
       reward |-> reward, txids |-> txids,
       coinbase |-> CoinbaseValue(height, reward, TransactionFees(txids, s.transactions))]
-----------------------------------------------------------------------------
(* Rebuilding a state from a chain and its records: replayPrefix, and the   *)
(* download of a branch on top of a prefix.                                 *)
ReplayStep(p, b, records) ==
  IF p.ok /\ FeedBlockOk(p.st, b, records)
  THEN [ok |-> TRUE, st |-> AppendBlock(p.st, b, records)]
  ELSE [ok |-> FALSE, st |-> p.st]
ReplayOn(s, blocks, records) ==
  LET at[i \in 0..Len(blocks)] ==
        IF i = 0 THEN [ok |-> TRUE, st |-> s] ELSE ReplayStep(at[i - 1], blocks[i], records)
  IN  at[Len(blocks)]

ConfirmedRecords(transactions) ==
  [t \in {u \in DOMAIN transactions : transactions[u].status = "confirmed"} |-> transactions[t]]

(* verifyPersistedState: replay the whole chain, then admit the pending     *)
(* transactions in the order of their arrival numbers; any error throws.    *)
PersistedOrder(transactions, a, b) ==
  \/ transactions[a].seq < transactions[b].seq
  \/ transactions[a].seq = transactions[b].seq /\ a < b

AdmitStep(p, t, transactions) ==
  IF p.ok /\ AcceptError(p.st, t) = "none"
  THEN [ok |-> TRUE, st |-> AcceptTxInto(p.st, t, FeedSeq(p.st, transactions[t].seq))]
  ELSE [ok |-> FALSE, st |-> p.st]
AdmitInOrder(s, q, transactions) ==
  LET at[i \in 0..Len(q)] ==
        IF i = 0 THEN [ok |-> TRUE, st |-> s] ELSE AdmitStep(at[i - 1], q[i], transactions)
  IN  at[Len(q)]

VerifyPersistedState(image) ==
  LET replayed == ReplayOn(EmptyState, image.chain, ConfirmedRecords(image.transactions))
      pending  == {t \in DOMAIN image.transactions : image.transactions[t].status = "pending"}
      q        == SortBy(pending, LAMBDA a, b : PersistedOrder(image.transactions, a, b))
  IN  IF replayed.ok THEN AdmitInOrder(replayed.st, q, image.transactions) ELSE replayed

(* reconcileDetachedTransactions: what the abandoned state knew and the     *)
(* candidate does not is offered again, confirmed records first, in passes  *)
(* that go on as long as one of them admits something; a missing input      *)
(* keeps a transaction waiting, any other error drops it.                   *)
ReorgOrder(transactions, a, b) ==
  LET Rank(t) == IF transactions[t].status = "pending" THEN <<1, 0>>
                 ELSE <<0, transactions[t].height>>
  IN  \/ Rank(a)[1] < Rank(b)[1]
      \/ Rank(a)[1] = Rank(b)[1] /\ Rank(a)[2] < Rank(b)[2]
      \/ Rank(a) = Rank(b) /\ PersistedOrder(transactions, a, b)

OfferStep(p, t, transactions) ==
  LET error == AcceptError(p.st, t)
  IN  CASE error = "none" ->
             [p EXCEPT !.st = AcceptTxInto(@, t, FeedSeq(@, transactions[t].seq)),
                       !.progress = TRUE]
        [] error = "missing_or_spent_input" -> [p EXCEPT !.waiting = Append(@, t)]
        [] OTHER -> p
ReconcilePass(s, q, transactions) ==
  LET at[i \in 0..Len(q)] ==
        IF i = 0 THEN [st |-> s, waiting |-> <<>>, progress |-> FALSE]
        ELSE OfferStep(at[i - 1], q[i], transactions)
  IN  at[Len(q)]

NextPass(p, transactions) ==
  IF p.progress /\ p.waiting # <<>> THEN ReconcilePass(p.st, p.waiting, transactions) ELSE p

(* Mutant: the payments the abandoned blocks had confirmed are forgotten.   *)
DetachedPending(candidate, previous) == Pending(previous) \ Known(candidate)
Detached(candidate, previous) == Known(previous) \ Known(candidate)

Reconcile(candidate, previous) ==
  LET q == SortBy(Detached(candidate, previous),
                  LAMBDA a, b : ReorgOrder(previous.transactions, a, b))
      pass[k \in 0..(Len(q) + 1)] ==
        IF k = 0 THEN [st |-> candidate, waiting |-> q, progress |-> TRUE]
        ELSE NextPass(pass[k - 1], previous.transactions)
  IN  pass[Len(q) + 1].st
-----------------------------------------------------------------------------
(* What a state consists of.                                                *)
RecordType == [status : {"pending", "confirmed"}, height : Nat, seq : Nat, fee : Nat]
BlockType ==
  [hash : Hashes \cup {GenesisHash}, prev : Hashes \cup {ZeroHash, GenesisHash}, height : Nat,
   work : Works, reward : Nat, txids : Seq(Txs), coinbase : Nat]

LedgerType(s) ==
  /\ s.chain \in Seq(BlockType)
  /\ DOMAIN s.transactions \subseteq Txs
  /\ \A t \in DOMAIN s.transactions : s.transactions[t] \in RecordType
  /\ s.mempoolOrder \in Seq(Txs) /\ s.mempoolSeq \in Nat
  /\ DOMAIN s.utxos \subseteq Outpoint
  /\ \A o \in DOMAIN s.utxos : s.utxos[o] \in [amount : Nat, spent : BOOLEAN]
  /\ DOMAIN s.mempoolSpends \subseteq Outpoint
  /\ \A o \in DOMAIN s.mempoolSpends : s.mempoolSpends[o] \in Txs
  /\ DOMAIN s.mempoolOutputs \subseteq Outpoint
  /\ \A o \in DOMAIN s.mempoolOutputs : s.mempoolOutputs[o] \in Nat

(* The three mempool indexes say the same thing: the order lists each       *)
(* pending transaction once, the reservations are exactly their inputs and  *)
(* the mempool outputs exactly their outputs.                               *)
IndexesAgree(s) ==
  /\ Elements(s.mempoolOrder) = Pending(s) /\ Len(s.mempoolOrder) = Cardinality(Pending(s))
  /\ DOMAIN s.mempoolSpends = UNION {InputSet(t) : t \in Pending(s)}
  /\ \A t \in Pending(s), o \in UNION {InputSet(u) : u \in Pending(s)} :
        s.mempoolSpends[o] = t <=> o \in InputSet(t)
  /\ DOMAIN s.mempoolOutputs = UNION {OutpointsOf(t) : t \in Pending(s)}

(* Each pending transaction spends confirmed outputs or outputs of pending  *)
(* ones that precede it, so the pool is minable in the order it is kept.    *)
ParentsFirst(s) ==
  \A i \in DOMAIN s.mempoolOrder : \A o \in InputSet(s.mempoolOrder[i]) :
    Unspent(s, o) \/ \E j \in 1..(i - 1) : o \in OutpointsOf(s.mempoolOrder[j])

(* The value of the outputs that are not spent, and the fees of the blocks  *)
(* before the coinbase activation, which nobody collects.                   *)
UnspentOutputs(s) == {o \in DOMAIN s.utxos : Unspent(s, o)}
UnspentValue(s) == SumOver([o \in UnspentOutputs(s) |-> s.utxos[o].amount], UnspentOutputs(s))
Feeless(s) == {t \in Confirmed(s) : ~CoinbaseActive(s.transactions[t].height)}
BurnedFees(s) == SumOver([t \in Feeless(s) |-> s.transactions[t].fee], Feeless(s))
=============================================================================
