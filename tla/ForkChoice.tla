------------------------------ MODULE ForkChoice ------------------------------
(***************************************************************************)
(* What the nodes of the network promise about their chains, with no       *)
(* ledger: which block a node may add, which chain it may switch to, and   *)
(* what survives a stop.  FaeNode implements it.                           *)
(***************************************************************************)
EXTENDS Sums, FiniteSets

CONSTANTS Nodes, Hashes, Works, MaxStops

ZeroHash == 0
GenesisHash == 1

ASSUME ForkChoiceAssumption ==
  /\ Hashes \subseteq Nat /\ \A h \in Hashes : h > GenesisHash
  /\ Works \subseteq Nat \ {0} /\ Works # {}
  /\ MaxStops \in Nat

VARIABLES
  chain,     \* the chain of each node; <<>> while it is stopped
  stored,    \* the chain in its data file
  running,   \* whether it runs
  fetched,   \* the chain it has downloaded and not yet decided on, or <<>>
  blocks,    \* all blocks found so far
  stops      \* how often a node has stopped

vars == <<chain, stored, running, fetched, blocks, stops>>

Genesis == [hash |-> GenesisHash, prev |-> ZeroHash,
            work |-> CHOOSE w \in Works : \A v \in Works : w <= v]
Block == [hash : Hashes, prev : Hashes \cup {GenesisHash}, work : Works]

Work(c) == SumSeq([i \in DOMAIN c |-> c[i].work])
Tip(c) == IF c = <<>> THEN ZeroHash ELSE c[Len(c)].hash

(* Mutant: equal work never moves a node.                                   *)
BetterByWork(c, d) == Work(c) > Work(d)
Better(c, d) ==
  \/ Work(c) > Work(d)
  \/ Work(c) = Work(d) /\ c # <<>> /\ Tip(c) < Tip(d)
-----------------------------------------------------------------------------
Init ==
  /\ chain = [n \in Nodes |-> <<Genesis>>]
  /\ stored = [n \in Nodes |-> <<Genesis>>]
  /\ running = [n \in Nodes |-> TRUE]
  /\ fetched = [n \in Nodes |-> <<>>]
  /\ blocks = {} /\ stops = 0

(* Mutant: a block is appended whatever its parent is.                      *)
ContinuesAnyTip(n, b) == TRUE
Continues(n, b) == b.prev = Tip(chain[n])

(* A new chain in memory reaches the data file or not.                      *)
MoveTo(n, c) ==
  /\ chain' = [chain EXCEPT ![n] = c]
  /\ stored' = [stored EXCEPT ![n] = c] \/ UNCHANGED stored

(* A transaction is accepted: the file is written, the chain is the same.   *)
Save(n) ==
  /\ running[n]
  /\ stored' = [stored EXCEPT ![n] = chain[n]]
  /\ UNCHANGED <<chain, running, fetched, blocks, stops>>

Mine(n, b) ==
  /\ running[n] /\ Continues(n, b)
  /\ \A other \in blocks : other.hash # b.hash
  /\ blocks' = blocks \cup {b}
  /\ MoveTo(n, Append(chain[n], b))
  /\ UNCHANGED <<running, fetched, stops>>

(* A block found elsewhere is added if it continues the node's chain.       *)
Receive(n, b) ==
  /\ running[n] /\ Continues(n, b)
  /\ MoveTo(n, Append(chain[n], b))
  /\ UNCHANGED <<running, fetched, blocks, stops>>

Fetch(n, m) ==
  /\ running[n] /\ running[m] /\ fetched[n] = <<>>
  /\ Better(chain[m], chain[n])
  /\ fetched' = [fetched EXCEPT ![n] = chain[m]]
  /\ UNCHANGED <<chain, stored, running, blocks, stops>>

(* Mutant: the comparison made before the download is relied on.            *)
StillBetterAssumed(n) == TRUE
StillBetter(n) == Better(fetched[n], chain[n])
Adopt(n) ==
  /\ running[n] /\ fetched[n] # <<>>
  /\ fetched' = [fetched EXCEPT ![n] = <<>>]
  /\ IF StillBetter(n) THEN MoveTo(n, fetched[n]) ELSE UNCHANGED <<chain, stored>>
  /\ UNCHANGED <<running, blocks, stops>>

Stop(n) ==
  /\ running[n] /\ stops < MaxStops
  /\ stops' = stops + 1
  /\ running' = [running EXCEPT ![n] = FALSE]
  /\ chain' = [chain EXCEPT ![n] = <<>>]
  /\ fetched' = [fetched EXCEPT ![n] = <<>>]
  /\ UNCHANGED <<stored, blocks>>

(* Mutant: a file that cannot be read counts as no file.                    *)
LoadedFresh(n) == <<>>
Loaded(n) == stored[n]
Resume(n) ==
  /\ ~running[n]
  /\ running' = [running EXCEPT ![n] = TRUE]
  /\ chain' = [chain EXCEPT ![n] = Loaded(n)]
  /\ UNCHANGED <<stored, fetched, blocks, stops>>

Next ==
  \E n \in Nodes :
    \/ Save(n)
    \/ \E b \in Block : Mine(n, b)
    \/ \E b \in blocks : Receive(n, b)
    \/ \E m \in Nodes \ {n} : Fetch(n, m)
    \/ Adopt(n)
    \/ Stop(n)
    \/ Resume(n)

Spec == Init /\ [][Next]_vars

(* syncPeers runs on a timer against every configured peer, and the write   *)
(* lock is granted in order.  Nobody has to mine, to stop or to restart.    *)
FairSpec ==
  /\ Spec
  /\ \A n \in Nodes : WF_vars(Adopt(n))
  /\ \A n \in Nodes : \A m \in Nodes \ {n} : WF_vars(Fetch(n, m))
-----------------------------------------------------------------------------
Chains == {c \in Seq(Block \cup {Genesis}) : c # <<>> => c[1] = Genesis}

(* A running node has a chain, a stopped one no memory; every file has one. *)
TypeOK ==
  /\ \A n \in Nodes : stored[n] # <<>>
  /\ \A n \in Nodes : IF running[n] THEN chain[n] # <<>> ELSE chain[n] = <<>> /\ fetched[n] = <<>>
  /\ chain \in [Nodes -> Chains] /\ stored \in [Nodes -> Chains]
  /\ fetched \in [Nodes -> Chains]
  /\ running \in [Nodes -> BOOLEAN]
  /\ blocks \subseteq Block /\ stops \in 0..MaxStops

(* Every chain anywhere -- in memory, in a file, or downloaded -- starts at *)
(* the checkpoint and follows parent links through blocks that were mined,  *)
(* and no two mined blocks share a hash.  So a tip hash names one chain.    *)
Linked(c) ==
  \A i \in DOMAIN c :
    /\ i > 1 => c[i] \in blocks /\ c[i].prev = c[i - 1].hash
    /\ i = 1 => c[i] = Genesis
UniqueHashes == \A b, d \in blocks : b.hash = d.hash => b = d
AllChains == {chain[n] : n \in Nodes} \cup {stored[n] : n \in Nodes} \cup {fetched[n] : n \in Nodes}
ChainsLinked == UniqueHashes /\ \A c \in AllChains : Linked(c)

(* The same tip hash means the same chain, for chains of two nodes, of      *)
(* memory and file, of now and of a download: the tip comparison in         *)
(* syncPeer (`already_current`, `already_adopted`) may stand for equality.  *)
TipNamesChain == \A c, d \in AllChains : Tip(c) = Tip(d) => c = d

(* A running node moves only to a better chain, also when the chain it      *)
(* adopts was compared with an older one.                                   *)
OnlyBetterChains ==
  [][\A n \in Nodes : running[n] /\ running'[n] /\ chain'[n] # chain[n]
       => Better(chain'[n], chain[n])]_vars

(* A data file, too, only improves: however far memory ran ahead of it when *)
(* writes failed, and whatever a stop lost, no later write puts a worse     *)
(* chain in the place of a better one.                                      *)
FilesOnlyImprove ==
  [][\A n \in Nodes : stored'[n] # stored[n] => Better(stored'[n], stored[n])]_vars

(* When mining and stopping end, all running nodes settle on one chain.     *)
Convergence ==
  <>[](\A n, m \in Nodes : running[n] /\ running[m] => chain[n] = chain[m])
=============================================================================
