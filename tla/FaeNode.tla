------------------------------- MODULE FaeNode -------------------------------
(***************************************************************************)
(* Nodes of the authoritative network                                      *)
(* (sovereign-forge/node/authoritative/fae-v4-peer-node.mjs).  Each keeps   *)
(* the ledger state of module Ledger in memory and a copy of it in its     *)
(* data file.  A handler changes memory and then persists, both inside the *)
(* node's write lock (`serial`), so one action is one turn of the lock; a   *)
(* failed write leaves the change in memory and the old file on disk.      *)
(* Synchronising with a peer is two actions: the candidate is downloaded   *)
(* and validated against a snapshot outside the lock (SyncFetch) and       *)
(* adopted in a later turn of it (SyncAdopt), after the state may have     *)
(* moved.  Peers are honest nodes running this code; connections, sealed   *)
(* sessions and the choice of the peer are nondeterministic.               *)
(***************************************************************************)
EXTENDS Ledger

CONSTANTS Nodes, MaxCrashes, MaxPersistFailures

ASSUME FaeNodeAssumption == MaxCrashes \in Nat /\ MaxPersistFailures \in Nat

VARIABLES
  state,     \* the ledger state in memory, per node
  disk,      \* the chain and transactions of the data file, per node
  status,    \* "up", "down", or "failed" when start() threw
  syncing,   \* the validated candidate awaiting adoption, or NoCandidate
  mined,     \* the blocks found so far, by any node
  relayed,   \* those of them that their finder announced to its peers
  crashes, failures

vars == <<state, disk, status, syncing, mined, relayed, crashes, failures>>

NoCandidate == [chain |-> <<>>]
FreshHashes == Hashes \ {b.hash : b \in mined}
(* Mutant: only what is confirmed is written to the file.                   *)
ConfirmedImage(s) == [chain |-> s.chain, transactions |-> ConfirmedRecords(s.transactions)]
Image(s) == [chain |-> s.chain, transactions |-> s.transactions]

(* The checkpointed legacy blocks every node starts from, as one block.     *)
GenesisBlock ==
  [hash |-> GenesisHash, prev |-> ZeroHash, height |-> 1,
   work |-> CHOOSE w \in Works : \A v \in Works : w <= v,
   reward |-> ExpectedReward(EmptyState, 1), txids |-> <<>>,
   coinbase |-> CoinbaseValue(1, ExpectedReward(EmptyState, 1), 0)]
GenesisState == AppendBlock(EmptyState, GenesisBlock, <<>>)

Init ==
  /\ state = [n \in Nodes |-> GenesisState]
  /\ disk = [n \in Nodes |-> Image(GenesisState)]
  /\ status = [n \in Nodes |-> "up"]
  /\ syncing = [n \in Nodes |-> NoCandidate]
  /\ mined = {} /\ relayed = {}
  /\ crashes = 0 /\ failures = 0
-----------------------------------------------------------------------------
(* state := s; await persist().  The write lands, or throws.                *)
Commit(n, s) ==
  /\ state' = [state EXCEPT ![n] = s]
  /\ disk' = [disk EXCEPT ![n] = Image(s)]
  /\ UNCHANGED failures
CommitUnpersisted(n, s) ==
  /\ failures < MaxPersistFailures
  /\ state' = [state EXCEPT ![n] = s]
  /\ failures' = failures + 1
  /\ UNCHANGED disk

(* POST /submit-tx from a wallet and POST /tx from a peer.                  *)
SubmitTx(n, t) ==
  /\ status[n] = "up"
  /\ AcceptError(state[n], t) = "none"
  /\ LET s == AcceptTxInto(state[n], t, NextSeq(state[n]))
     IN  Commit(n, s) \/ CommitUnpersisted(n, s)
  /\ UNCHANGED <<status, syncing, mined, relayed, crashes>>

(* POST /submit-block: a miner returns the template it took while the tip   *)
(* was the same, when the mempool was possibly shorter (txids is a prefix   *)
(* of it).  baseTemplate throws once the reward is exhausted.  The block is *)
(* announced only when the handler reaches the end.                         *)
SubmitBlock(n, txids, hash, work) ==
  LET b == BlockOn(state[n], txids, hash, work)
      s == AppendBlock(state[n], b, state[n].transactions)
  IN  /\ status[n] = "up"
      /\ b.reward > 0
      /\ SubmissionOk(state[n], b)
      /\ mined' = mined \cup {b}
      /\ \/ Commit(n, s) /\ relayed' = relayed \cup {b}
         \/ CommitUnpersisted(n, s) /\ UNCHANGED relayed
      /\ UNCHANGED <<status, syncing, crashes>>

(* POST /blocks: an announced block reaches a peer, any time and any number *)
(* of times; relaying goes one hop.                                         *)
ReceiveBlock(n, b) ==
  LET s == AppendBlock(state[n], b, state[n].transactions)
  IN  /\ status[n] = "up"
      /\ SubmissionOk(state[n], b)
      /\ Commit(n, s) \/ CommitUnpersisted(n, s)
      /\ UNCHANGED <<status, syncing, mined, relayed, crashes>>

(* The highest block both chains have: findCommonAncestor of a locator that *)
(* lists every recent height.                                               *)
AncestorHeight(a, b) ==
  CHOOSE h \in 0..Len(a.chain) :
    LET Shared(k) == k <= Len(b.chain) /\ \A i \in 1..k : a.chain[i] = b.chain[i]
    IN  Shared(h) /\ \A k \in 0..Len(a.chain) : Shared(k) => k <= h

Candidate(base, remote) ==
  LET h      == AncestorHeight(base, remote)
      prefix == ReplayOn(EmptyState, SubSeq(base.chain, 1, h), ConfirmedRecords(base.transactions))
      branch == SubSeq(remote.chain, h + 1, Len(remote.chain))
  IN  IF prefix.ok THEN ReplayOn(prefix.st, branch, remote.transactions) ELSE prefix

(* syncPeer up to the validated candidate: n takes its snapshot and reads   *)
(* m's branch.  (If m reorganises during the download the hashes disagree   *)
(* and the attempt throws, leaving no trace.)                               *)
SyncFetch(n, m) ==
  /\ status[n] = "up" /\ status[m] = "up"
  /\ syncing[n] = NoCandidate
  /\ ChainWork(state[m].chain) >= ChainWork(state[n].chain)
  /\ TipHash(state[m]) # TipHash(state[n])
  /\ Len(state[m].chain) > AncestorHeight(state[n], state[m])
  /\ LET candidate == Candidate(state[n], state[m])
     IN  /\ candidate.ok
         /\ Preferred(candidate.st, state[n])
         /\ syncing' = [syncing EXCEPT ![n] = candidate.st]
  /\ UNCHANGED <<state, disk, status, mined, relayed, crashes, failures>>

(* Mutant: the comparison made before the download is relied on.            *)
StillPreferredAssumed(n) == TRUE
StillPreferred(n) == Preferred(syncing[n], state[n])

(* The adoption turn: the comparison is repeated against the state of now,  *)
(* then what that state knew is reconciled into the candidate.              *)
SyncAdopt(n) ==
  /\ status[n] = "up" /\ syncing[n] # NoCandidate
  /\ syncing' = [syncing EXCEPT ![n] = NoCandidate]
  /\ IF StillPreferred(n)
     THEN LET s == Reconcile(syncing[n], state[n])
          IN  Commit(n, s) \/ CommitUnpersisted(n, s)
     ELSE UNCHANGED <<state, disk, failures>>
  /\ UNCHANGED <<status, mined, relayed, crashes>>

(* The process dies: memory, and a download under way, are gone.            *)
Crash(n) ==
  /\ status[n] = "up" /\ crashes < MaxCrashes
  /\ crashes' = crashes + 1
  /\ status' = [status EXCEPT ![n] = "down"]
  /\ state' = [state EXCEPT ![n] = EmptyState]
  /\ syncing' = [syncing EXCEPT ![n] = NoCandidate]
  /\ UNCHANGED <<disk, mined, relayed, failures>>

(* start(): load() verifies the data file and throws if it does not replay. *)
Restart(n) ==
  /\ status[n] = "down"
  /\ LET loaded == VerifyPersistedState(disk[n])
     IN  /\ status' = [status EXCEPT ![n] = IF loaded.ok THEN "up" ELSE "failed"]
         /\ state' = [state EXCEPT ![n] = IF loaded.ok THEN loaded.st ELSE EmptyState]
  /\ UNCHANGED <<disk, syncing, mined, relayed, crashes, failures>>
-----------------------------------------------------------------------------
Next ==
  \E n \in Nodes :
    \/ \E t \in Txs : SubmitTx(n, t)
    \/ \E k \in 0..Len(SelectedPending(state[n])), hash \in FreshHashes, work \in Works :
         SubmitBlock(n, SubSeq(state[n].mempoolOrder, 1, k), hash, work)
    \/ \E b \in relayed : ReceiveBlock(n, b)
    \/ \E m \in Nodes \ {n} : SyncFetch(n, m)
    \/ SyncAdopt(n)
    \/ Crash(n)
    \/ Restart(n)

Spec == Init /\ [][Next]_vars
-----------------------------------------------------------------------------
(* What holds of a node's ledger whatever its peers do.                     *)
UpNodes == {n \in Nodes : status[n] = "up"}

(* Every node's memory, file and candidate have their types; in particular  *)
(* no recorded fee is negative.                                             *)
TypeOK ==
  /\ \A n \in Nodes :
       /\ LedgerType(state[n])
       /\ disk[n].chain \in Seq(BlockType)
       /\ \A t \in DOMAIN disk[n].transactions :
            t \in Txs /\ disk[n].transactions[t] \in RecordType
       /\ syncing[n] = NoCandidate \/ LedgerType(syncing[n])
  /\ status \in [Nodes -> {"up", "down", "failed"}]
  /\ mined \subseteq BlockType /\ relayed \subseteq mined
  /\ crashes \in 0..MaxCrashes /\ failures \in 0..MaxPersistFailures

(* The three mempool indexes of a running node agree, and its pool can be   *)
(* mined in the order it is kept, after any order of payments, blocks and   *)
(* reorganisations.                                                         *)
MempoolCoherent == \A n \in UpNodes : IndexesAgree(state[n]) /\ ParentsFirst(state[n])

(* The template createMiningTemplate hands out is a block the same node     *)
(* would accept, whatever submissions, blocks and reorganisations led here. *)
TemplateMinable ==
  \A n \in UpNodes, hash \in FreshHashes, work \in Works :
    LET b == BlockOn(state[n], SelectedPending(state[n]), hash, work)
    IN  b.reward > 0 => SubmissionOk(state[n], b)

(* No value appears or disappears: what is unspent is what was issued, less *)
(* the fees of blocks before the coinbase activation (which nobody          *)
(* collects), and never more than the cap.                                  *)
ValueConserved ==
  \A n \in UpNodes : /\ UnspentValue(state[n]) + BurnedFees(state[n]) = Issued(state[n])
                     /\ Issued(state[n]) <= MaxSupply

(* A transaction is marked confirmed exactly if one block of the chain, at  *)
(* that height, holds it, and no output is spent by two of them.            *)
ConfirmedOnce ==
  \A n \in UpNodes :
    LET s == state[n]
        Places(t) == {i \in DOMAIN s.chain : t \in Elements(s.chain[i].txids)}
    IN  /\ \A t \in Txs : Places(t) = IF t \in Confirmed(s) THEN {s.transactions[t].height} ELSE {}
        /\ \A t, u \in Confirmed(s) : t # u => InputSet(t) \cap InputSet(u) = {}

(* As long as no write failed, a node that stopped now and could load its   *)
(* file would resume with the same chain, the same outputs and the same     *)
(* pending transactions.                                                    *)
RestartLosesNothing ==
  failures = 0 =>
    \A n \in UpNodes :
      LET loaded == VerifyPersistedState(disk[n])
      IN  loaded.ok => /\ loaded.st.chain = state[n].chain
                       /\ loaded.st.utxos = state[n].utxos
                       /\ Pending(loaded.st) = Pending(state[n])

(* A running node only ever moves to a chain it prefers, although it        *)
(* validated the candidate against an older state.                          *)
OnlyPreferredChains ==
  [][\A n \in Nodes : status[n] = "up" /\ status'[n] = "up" /\ state'[n].chain # state[n].chain
       => Preferred(state'[n], state[n])]_vars

(* A running node forgets a transaction only if its new state cannot take   *)
(* it: a reorganisation never loses a payment that is still valid.          *)
NoNeedlessDrop ==
  [][\A n \in Nodes : status[n] = "up" /\ status'[n] = "up" =>
       \A t \in Known(state[n]) \ Known(state'[n]) : AcceptError(state'[n], t) # "none"]_vars

(* The chains of the nodes behave as module ForkChoice says, whatever the  *)
(* mempools, the files and the validation of downloads do around them.      *)
Links(chain) == [i \in DOMAIN chain |->
                   [hash |-> chain[i].hash, prev |-> chain[i].prev, work |-> chain[i].work]]
Choice == INSTANCE ForkChoice WITH
  MaxStops <- MaxCrashes,
  chain    <- [n \in Nodes |-> Links(state[n].chain)],
  stored   <- [n \in Nodes |-> Links(disk[n].chain)],
  running  <- [n \in Nodes |-> status[n] = "up"],
  fetched  <- [n \in Nodes |-> Links(syncing[n].chain)],
  blocks   <- {[hash |-> b.hash, prev |-> b.prev, work |-> b.work] : b \in mined},
  stops    <- crashes
ImplementsForkChoice == Choice!Spec

(* Whatever a node has written to its data file, it can load again.  (It    *)
(* fails: a reorganisation may leave a parent and its child pending with    *)
(* one arrival number, and verifyPersistedState lets the txid decide which  *)
(* of them is admitted first.)                                              *)
PersistedStateLoads == \A n \in Nodes : VerifyPersistedState(disk[n]).ok
=============================================================================
