---------------------------- MODULE ForkChoiceProofs ----------------------------
(***************************************************************************)
(* Proofs about ForkChoice for every set of nodes, hashes and work values: *)
(* its types, that chains are linked and named by their tips, and that     *)
(* neither a node nor its data file ever goes to a worse chain.  And about *)
(* ShadowNode, the nodes that follow a branch across the activation: every *)
(* chain starts from the trusted base, is only left for a better one, and  *)
(* takes no block before its time, whatever page a peer answers with.  And *)
(* about ReorgState, outputs and the mempool of a node whose tip moves     *)
(* between two branches: on each of them the coinbases are what is unspent *)
(* and the fees, what is pending can go into the next blocks, and a move   *)
(* drops nothing that could still be taken.  And about LegacyNode and      *)
(* Explorer, the older nodes and the pages over them: what is pending can  *)
(* be mined in its order, adopting a chain drops nothing that could still  *)
(* be taken, and the history of an address adds up to its balance.         *)
(***************************************************************************)
EXTENDS ForkChoice, SumsProofs, SequenceTheorems

Link == Block \cup {Genesis}

(* The checkpoint has a work, the least one.                                *)
LEMMA GenesisWork == Genesis.work \in Works
<1>1. \E w \in Works : \A v \in Works : w <= v
  BY ForkChoiceAssumption, LeastElement
<1> QED BY <1>1 DEF Genesis

(* Works and hashes are positive numbers.                                   *)
LEMMA LinkFields ==
  ASSUME NEW b \in Link
  PROVE  b.work \in Nat \ {0} /\ b.hash \in Nat \ {0}
<1>1. b.work \in Works /\ (b.hash \in Hashes \/ b.hash = GenesisHash)
  <2>1. CASE b \in Block
    BY <2>1 DEF Block
  <2>2. CASE b = Genesis
    <3>1. Genesis.hash = GenesisHash
      BY DEF Genesis
    <3> QED BY <2>2, <3>1, GenesisWork
  <2> QED BY <2>1, <2>2 DEF Link
<1>2. b.work \in Nat \ {0}
  BY <1>1, ForkChoiceAssumption
<1>3. b.hash \in Nat \ {0}
  <2>1. CASE b.hash \in Hashes
    <3>1. b.hash \in Nat /\ b.hash > 1
      BY <2>1, ForkChoiceAssumption DEF GenesisHash
    <3> QED BY <3>1
  <2>2. CASE b.hash = GenesisHash
    BY <2>2 DEF GenesisHash
  <2> QED BY <1>1, <2>1, <2>2
<1> QED BY <1>2, <1>3

(* The work of a chain is a number.                                         *)
LEMMA WorkNat ==
  ASSUME NEW c \in Seq(Link)
  PROVE  Work(c) \in Nat
<1> DEFINE q == [i \in DOMAIN c |-> c[i].work]
<1>1. q \in Seq(Nat)
  BY LinkFields
<1> HIDE DEF q
<1>2. SumSeq(q) \in Nat
  BY <1>1, SumSeqNat
<1> QED BY <1>2 DEF Work, q

(* A chain that grows by a block gains the work of that block.              *)
LEMMA WorkAppend ==
  ASSUME NEW c \in Seq(Link), NEW b \in Link
  PROVE  Work(Append(c, b)) = Work(c) + b.work
<1> DEFINE q == [i \in DOMAIN c |-> c[i].work]
           d == Append(c, b)
           r == [i \in DOMAIN d |-> d[i].work]
<1>1. q \in Seq(Nat) /\ b.work \in Nat
  BY LinkFields
<1>2. r = Append(q, b.work)
  <2>1. DOMAIN r = 1..(Len(c) + 1) /\ DOMAIN Append(q, b.work) = 1..(Len(c) + 1)
    BY <1>1
  <2>2. \A i \in 1..(Len(c) + 1) : r[i] = Append(q, b.work)[i]
    BY <1>1
  <2>3. r \in Seq(Nat) /\ Append(q, b.work) \in Seq(Nat)
    BY <1>1, LinkFields
  <2> HIDE DEF r, q
  <2> QED BY <2>1, <2>2, <2>3
<1>3. Work(d) = SumSeq(r) /\ Work(c) = SumSeq(q)
  BY DEF Work
<1> HIDE DEF q, r
<1>4. SumSeq(Append(q, b.work)) = SumSeq(q) + b.work
  BY <1>1, SumSeqAppend
<1> QED BY <1>2, <1>3, <1>4

(* The tip of a chain that is not empty is a hash of a block.               *)
LEMMA TipNat ==
  ASSUME NEW c \in Seq(Link)
  PROVE  Tip(c) \in Nat /\ (c # <<>> => Tip(c) # ZeroHash)
BY LinkFields DEF Tip, ZeroHash

(* Adding a block makes a chain better, and better is transitive.           *)
LEMMA BetterAppend ==
  ASSUME NEW c \in Seq(Link), NEW b \in Link
  PROVE  Better(Append(c, b), c)
BY WorkNat, WorkAppend, LinkFields DEF Better

(* Better is transitive.                                                    *)
LEMMA BetterTransitive ==
  ASSUME NEW c \in Seq(Link), NEW d \in Seq(Link), NEW e \in Seq(Link),
         Better(c, d), Better(d, e)
  PROVE  Better(c, e)
<1>1. /\ Work(c) \in Nat /\ Work(d) \in Nat /\ Work(e) \in Nat
      /\ Tip(c) \in Nat /\ Tip(d) \in Nat /\ Tip(e) \in Nat
  BY WorkNat, TipNat
<1> QED BY <1>1 DEF Better
-----------------------------------------------------------------------------
(* Chains are sequences of blocks.                                          *)
LEMMA ChainsAreSequences == Chains \subseteq Seq(Link)
BY DEF Chains, Link

(* A chain stays one when a block is added.                                 *)
LEMMA AppendChain ==
  ASSUME NEW c \in Chains, c # <<>>, NEW b \in Block
  PROVE  Append(c, b) \in Chains /\ Append(c, b) # <<>>
<1>1. c \in Seq(Link) /\ c[1] = Genesis /\ b \in Link
  BY DEF Chains, Link
<1>2. Append(c, b) \in Seq(Link) /\ Append(c, b)[1] = Genesis /\ Append(c, b) # <<>>
  BY <1>1
<1> QED BY <1>2 DEF Chains, Link

(* Moving to a chain, with or without saving it, keeps the types.           *)
LEMMA MoveToType ==
  ASSUME TypeOK, NEW n \in Nodes, NEW c \in Chains, c # <<>>, running[n], MoveTo(n, c),
         UNCHANGED running, fetched' = fetched \/ fetched' = [fetched EXCEPT ![n] = <<>>],
         blocks' \subseteq Block, UNCHANGED stops
  PROVE  TypeOK'
<1>1. <<>> \in Chains
  BY DEF Chains
<1> QED BY <1>1 DEF TypeOK, MoveTo

(* The type invariant holds at the start,                                   *)
LEMMA TypeInit == Init => TypeOK
<1>1. <<Genesis>> \in Chains /\ <<>> \in Chains /\ <<Genesis>> # <<>>
  BY DEF Chains
<1> HIDE DEF Chains
<1> QED BY <1>1, ForkChoiceAssumption DEF Init, TypeOK

(* and every step keeps it.                                                 *)
LEMMA TypeStep == TypeOK /\ [Next]_vars => TypeOK'
<1> SUFFICES ASSUME TypeOK, [Next]_vars PROVE TypeOK'
  OBVIOUS
<1>0. <<>> \in Chains
  BY DEF Chains
<1>1. ASSUME NEW n \in Nodes, Save(n) PROVE TypeOK'
  BY <1>1 DEF TypeOK, Save
<1>2. ASSUME NEW n \in Nodes, NEW b \in Block, Mine(n, b) PROVE TypeOK'
  <2>1. Append(chain[n], b) \in Chains /\ Append(chain[n], b) # <<>>
    BY <1>2, AppendChain DEF TypeOK, Mine
  <2> QED BY <1>2, <2>1, MoveToType DEF Mine, TypeOK
<1>3. ASSUME NEW n \in Nodes, NEW b \in blocks, Receive(n, b) PROVE TypeOK'
  <2>1. Append(chain[n], b) \in Chains /\ Append(chain[n], b) # <<>>
    BY <1>3, AppendChain DEF TypeOK, Receive
  <2> QED BY <1>3, <2>1, MoveToType DEF Receive, TypeOK
<1>4. ASSUME NEW n \in Nodes, NEW m \in Nodes, Fetch(n, m) PROVE TypeOK'
  BY <1>4 DEF TypeOK, Fetch
<1>5. ASSUME NEW n \in Nodes, Adopt(n) PROVE TypeOK'
  <2>1. CASE StillBetter(n)
    BY <1>5, <2>1, MoveToType DEF Adopt, TypeOK
  <2>2. CASE ~StillBetter(n)
    BY <1>5, <2>2, <1>0 DEF Adopt, TypeOK
  <2> QED BY <2>1, <2>2
<1>6. ASSUME NEW n \in Nodes, Stop(n) PROVE TypeOK'
  BY <1>6, <1>0, ForkChoiceAssumption DEF TypeOK, Stop
<1>7. ASSUME NEW n \in Nodes, Resume(n) PROVE TypeOK'
  BY <1>7 DEF TypeOK, Resume, Loaded
<1>8. CASE UNCHANGED vars
  BY <1>8 DEF TypeOK, vars
<1> QED BY <1>1, <1>2, <1>3, <1>4, <1>5, <1>6, <1>7, <1>8 DEF Next

(* The variables of ForkChoice always have their types; a running node has  *)
(* a chain that starts at the checkpoint, and so has every data file.       *)
THEOREM TypeCorrect == Spec => []TypeOK
BY TypeInit, TypeStep, PTL DEF Spec
-----------------------------------------------------------------------------
(* Chains are linked.  LinkedIn says of which blocks.                       *)
LinkedIn(c, B) ==
  \A i \in DOMAIN c :
    /\ i > 1 => c[i] \in B /\ c[i].prev = c[i - 1].hash
    /\ i = 1 => c[i] = Genesis

LinksInv == \A n \in Nodes : /\ LinkedIn(chain[n], blocks)
                             /\ LinkedIn(stored[n], blocks)
                             /\ LinkedIn(fetched[n], blocks)

(* The inductive form implies the property.                                 *)
LEMMA LinksInvIsChainsLinked == UniqueHashes /\ LinksInv => ChainsLinked
BY DEF LinksInv, ChainsLinked, AllChains, Linked, LinkedIn

(* Chains stay linked when blocks are mined.                                *)
LEMMA LinkedMonotone ==
  ASSUME NEW c, NEW B, NEW D, B \subseteq D, LinkedIn(c, B)
  PROVE  LinkedIn(c, D)
BY DEF LinkedIn

(* A block that names the tip of a linked chain continues it.               *)
LEMMA LinkedAppend ==
  ASSUME NEW c \in Seq(Link), c # <<>>, NEW B, NEW b \in B, NEW D,
         LinkedIn(c, D), D \subseteq B, b.prev = Tip(c)
  PROVE  LinkedIn(Append(c, b), B)
<1> DEFINE d == Append(c, b)
<1>1. /\ DOMAIN d = 1..(Len(c) + 1) /\ Len(c) \in Nat \ {0} /\ DOMAIN c = 1..Len(c)
      /\ \A i \in 1..Len(c) : d[i] = c[i]
      /\ d[Len(c) + 1] = b
  OBVIOUS
<1>2. b.prev = c[Len(c)].hash
  BY DEF Tip
<1> SUFFICES ASSUME NEW i \in DOMAIN d
             PROVE  /\ i > 1 => d[i] \in B /\ d[i].prev = d[i - 1].hash
                    /\ i = 1 => d[i] = Genesis
  BY DEF LinkedIn
<1> HIDE DEF d
<1>3. CASE i = Len(c) + 1
  BY <1>1, <1>2, <1>3
<1>4. CASE i \in 1..Len(c)
  <2>1. /\ i > 1 => c[i] \in B /\ c[i].prev = c[i - 1].hash
        /\ i = 1 => c[i] = Genesis
    BY <1>1, <1>4 DEF LinkedIn
  <2>2. d[i] = c[i] /\ (i > 1 => d[i - 1] = c[i - 1])
    BY <1>1, <1>4
  <2> QED BY <2>1, <2>2
<1> QED BY <1>1, <1>3, <1>4

(* An empty chain is linked.                                                *)
LEMMA LinkedEmpty == \A B : LinkedIn(<<>>, B)
BY DEF LinkedIn

(* Moving to a linked chain keeps everything linked.                        *)
LEMMA MoveToLinks ==
  ASSUME TypeOK, LinksInv, NEW n \in Nodes, NEW c, MoveTo(n, c),
         blocks \subseteq blocks', LinkedIn(c, blocks'),
         fetched' = fetched \/ fetched' = [fetched EXCEPT ![n] = <<>>]
  PROVE  LinksInv'
<1> SUFFICES ASSUME NEW m \in Nodes
             PROVE  /\ LinkedIn(chain'[m], blocks')
                    /\ LinkedIn(stored'[m], blocks')
                    /\ LinkedIn(fetched'[m], blocks')
  BY DEF LinksInv
<1>1. /\ chain'[m] = chain[m] \/ chain'[m] = c
      /\ stored'[m] = stored[m] \/ stored'[m] = c
      /\ fetched'[m] = fetched[m] \/ fetched'[m] = <<>>
  BY DEF MoveTo, TypeOK
<1>2. /\ LinkedIn(chain[m], blocks') /\ LinkedIn(stored[m], blocks')
      /\ LinkedIn(fetched[m], blocks') /\ LinkedIn(<<>>, blocks')
  BY LinkedMonotone, LinkedEmpty DEF LinksInv
<1> QED BY <1>1, <1>2

LinkedState == UniqueHashes /\ LinksInv

(* The invariant of linked chains holds at the start,                       *)
LEMMA LinkedInit == Init => LinkedState
<1> SUFFICES ASSUME Init PROVE LinkedState
  OBVIOUS
<1>1. LinkedIn(<<Genesis>>, {}) /\ LinkedIn(<<>>, {})
  BY DEF LinkedIn
<1> QED BY <1>1 DEF Init, LinkedState, LinksInv, UniqueHashes

(* and every step keeps it.                                                 *)
LEMMA LinkedStep == TypeOK /\ LinkedState /\ [Next]_vars => LinkedState'
<1> SUFFICES ASSUME TypeOK, LinkedState, [Next]_vars PROVE LinkedState'
  OBVIOUS
<1>0. UniqueHashes /\ LinksInv /\ \A n \in Nodes : chain[n] \in Seq(Link)
  BY ChainsAreSequences DEF LinkedState, TypeOK
<1>1. ASSUME NEW n \in Nodes, Save(n) PROVE LinkedState'
  BY <1>0, <1>1 DEF LinkedState, LinksInv, UniqueHashes, Save, TypeOK
<1>2. ASSUME NEW n \in Nodes, NEW b \in Block, Mine(n, b) PROVE LinkedState'
  <2>1. LinkedIn(Append(chain[n], b), blocks')
    <3>1. /\ b.prev = Tip(chain[n]) /\ chain[n] # <<>>
          /\ b \in blocks' /\ blocks \subseteq blocks' /\ LinkedIn(chain[n], blocks)
      BY <1>0, <1>2 DEF Mine, Continues, TypeOK, LinksInv
    <3> QED BY <1>0, <3>1, LinkedAppend
  <2>2. LinksInv'
    BY <1>0, <1>2, <2>1, MoveToLinks DEF Mine
  <2>3. UniqueHashes'
    BY <1>0, <1>2 DEF UniqueHashes, Mine
  <2> QED BY <2>2, <2>3 DEF LinkedState
<1>3. ASSUME NEW n \in Nodes, NEW b \in blocks, Receive(n, b) PROVE LinkedState'
  <2>1. LinkedIn(Append(chain[n], b), blocks')
    <3>1. /\ b.prev = Tip(chain[n]) /\ chain[n] # <<>>
          /\ blocks' = blocks /\ LinkedIn(chain[n], blocks)
      BY <1>0, <1>3 DEF Receive, Continues, TypeOK, LinksInv
    <3> QED BY <1>0, <3>1, LinkedAppend
  <2>2. LinksInv'
    BY <1>0, <1>3, <2>1, MoveToLinks DEF Receive
  <2> QED BY <1>0, <1>3, <2>2 DEF LinkedState, UniqueHashes, Receive
<1>4. ASSUME NEW n \in Nodes, NEW m \in Nodes, Fetch(n, m) PROVE LinkedState'
  BY <1>0, <1>4 DEF LinkedState, LinksInv, UniqueHashes, Fetch, TypeOK
<1>5. ASSUME NEW n \in Nodes, Adopt(n) PROVE LinkedState'
  <2>1. CASE StillBetter(n)
    <3>1. LinksInv'
      BY <1>0, <1>5, <2>1, MoveToLinks DEF Adopt, LinksInv
    <3> QED BY <1>0, <1>5, <3>1 DEF LinkedState, UniqueHashes, Adopt
  <2>2. CASE ~StillBetter(n)
    BY <1>0, <1>5, <2>2, LinkedEmpty DEF LinkedState, LinksInv, UniqueHashes, Adopt, TypeOK
  <2> QED BY <2>1, <2>2
<1>6. ASSUME NEW n \in Nodes, Stop(n) PROVE LinkedState'
  BY <1>0, <1>6, LinkedEmpty DEF LinkedState, LinksInv, UniqueHashes, Stop, TypeOK
<1>7. ASSUME NEW n \in Nodes, Resume(n) PROVE LinkedState'
  BY <1>0, <1>7 DEF LinkedState, LinksInv, UniqueHashes, Resume, Loaded, TypeOK
<1>8. CASE UNCHANGED vars
  BY <1>0, <1>8 DEF LinkedState, LinksInv, UniqueHashes, vars
<1> QED BY <1>1, <1>2, <1>3, <1>4, <1>5, <1>6, <1>7, <1>8 DEF Next

(* No node, file or download ever holds a chain that is not linked through  *)
(* mined blocks to the checkpoint, and no hash ever belongs to two blocks.  *)
THEOREM ChainsStayLinked == Spec => []ChainsLinked
<1>1. Spec => []LinkedState
  BY TypeInit, TypeStep, LinkedInit, LinkedStep, PTL DEF Spec
<1>2. LinkedState => ChainsLinked
  BY LinksInvIsChainsLinked DEF LinkedState
<1> QED BY <1>1, <1>2, PTL
-----------------------------------------------------------------------------
(* A tip names its chain.  Counted from the end, two linked chains with the *)
(* same tip agree as far as both reach; the checkpoint, whose hash no mined *)
(* block has, can then only be in the same place.                           *)
LEMMA BlockHashes ==
  ASSUME blocks \subseteq Block, NEW b \in blocks
  PROVE  b.hash # Genesis.hash
<1>1. b.hash \in Hashes
  BY DEF Block
<1>2. b.hash \in Nat /\ b.hash > 1
  BY <1>1, ForkChoiceAssumption DEF GenesisHash
<1> QED BY <1>2 DEF Genesis, GenesisHash

(* Two linked chains with the same tip agree from the tip backwards.        *)
LEMMA AgreeFromTip ==
  ASSUME blocks \subseteq Block, UniqueHashes,
         NEW c \in Seq(Link), NEW d \in Seq(Link), c # <<>>, d # <<>>,
         LinkedIn(c, blocks), LinkedIn(d, blocks), Tip(c) = Tip(d)
  PROVE  \A k \in Nat : k < Len(c) /\ k < Len(d) => c[Len(c) - k] = d[Len(d) - k]
<1> DEFINE S == {k \in Nat : k < Len(c) /\ k < Len(d) => c[Len(c) - k] = d[Len(d) - k]}
<1>0. Len(c) \in Nat \ {0} /\ Len(d) \in Nat \ {0} /\ DOMAIN c = 1..Len(c) /\ DOMAIN d = 1..Len(d)
  OBVIOUS
<1>1. ASSUME NEW i \in DOMAIN c, NEW j \in DOMAIN d, c[i].hash = d[j].hash
      PROVE  c[i] = d[j]
  <2>1. /\ c[i] = Genesis \/ c[i] \in blocks
        /\ d[j] = Genesis \/ d[j] \in blocks
    BY <1>0 DEF LinkedIn
  <2> QED BY <1>1, <2>1, BlockHashes DEF UniqueHashes
<1>2. 0 \in S
  <2>1. c[Len(c)].hash = d[Len(d)].hash
    BY DEF Tip
  <2> QED BY <1>0, <1>1, <2>1
<1>3. ASSUME NEW k \in S PROVE k + 1 \in S
  <2> SUFFICES ASSUME k + 1 < Len(c), k + 1 < Len(d)
               PROVE  c[Len(c) - (k + 1)] = d[Len(d) - (k + 1)]
    OBVIOUS
  <2> DEFINE i == Len(c) - k
             j == Len(d) - k
  <2>1. /\ i \in DOMAIN c /\ i > 1 /\ i - 1 \in DOMAIN c /\ Len(c) - (k + 1) = i - 1
        /\ j \in DOMAIN d /\ j > 1 /\ j - 1 \in DOMAIN d /\ Len(d) - (k + 1) = j - 1
    BY <1>0
  <2>2. c[i] = d[j]
    BY <1>0
  <2> HIDE DEF i, j
  <2>3. c[i].prev = c[i - 1].hash /\ d[j].prev = d[j - 1].hash
    BY <2>1 DEF LinkedIn
  <2>4. c[i - 1] = d[j - 1]
    BY <1>1, <2>1, <2>2, <2>3
  <2> QED BY <2>1, <2>4
<1>4. S = Nat
  BY <1>2, <1>3, SetInduction
<1> QED BY <1>4

(* Of two linked chains with the same tip neither is the longer one.        *)
LEMMA NotLonger ==
  ASSUME blocks \subseteq Block, UniqueHashes,
         NEW c \in Seq(Link), NEW d \in Seq(Link), c # <<>>, d # <<>>,
         LinkedIn(c, blocks), LinkedIn(d, blocks), Tip(c) = Tip(d)
  PROVE  ~(Len(c) < Len(d))
<1> SUFFICES ASSUME Len(c) < Len(d) PROVE FALSE
  OBVIOUS
<1>0. Len(c) \in Nat \ {0} /\ Len(d) \in Nat \ {0} /\ DOMAIN c = 1..Len(c) /\ DOMAIN d = 1..Len(d)
  OBVIOUS
<1> DEFINE k == Len(c) - 1
           j == Len(d) - k
<1>1. k \in Nat /\ k < Len(c) /\ k < Len(d) /\ Len(c) - k = 1 /\ j \in DOMAIN d /\ j > 1
  BY <1>0
<1>2. c[Len(c) - k] = d[Len(d) - k]
  BY <1>1, AgreeFromTip
<1>3. c[1] = Genesis
  BY <1>0 DEF LinkedIn
<1>4. d[j] = Genesis
  BY <1>1, <1>2, <1>3
<1>5. d[j] \in blocks
  BY <1>1 DEF LinkedIn
<1> QED BY <1>4, <1>5, BlockHashes

(* Hence a tip names one linked chain.                                      *)
LEMMA SameTipSameChain ==
  ASSUME blocks \subseteq Block, UniqueHashes,
         NEW c \in Seq(Link), NEW d \in Seq(Link),
         LinkedIn(c, blocks), LinkedIn(d, blocks), Tip(c) = Tip(d)
  PROVE  c = d
<1>1. CASE c = <<>> \/ d = <<>>
  BY <1>1, TipNat DEF Tip
<1>2. CASE c # <<>> /\ d # <<>>
  <2>1. Len(c) = Len(d) /\ Len(c) \in Nat
    <3>1. ~(Len(c) < Len(d)) /\ ~(Len(d) < Len(c))
      BY <1>2, NotLonger
    <3> QED BY <3>1
  <2>2. \A i \in 1..Len(c) : c[i] = d[i]
    <3> SUFFICES ASSUME NEW i \in 1..Len(c) PROVE c[i] = d[i]
      OBVIOUS
    <3>1. Len(c) - i \in Nat /\ Len(c) - i < Len(c) /\ Len(c) - (Len(c) - i) = i
      BY <2>1
    <3>2. c[Len(c) - (Len(c) - i)] = d[Len(d) - (Len(c) - i)]
      BY <1>2, <2>1, <3>1, AgreeFromTip
    <3> QED BY <2>1, <3>1, <3>2
  <2> QED BY <2>1, <2>2
<1> QED BY <1>1, <1>2

(* The tip hash a node compares in place of the chain stands for the chain: *)
(* of any two chains held by nodes, files and downloads, equal tips mean    *)
(* equal chains.                                                            *)
THEOREM TipsNameChains == Spec => []TipNamesChain
<1>1. TypeOK /\ ChainsLinked => TipNamesChain
  <2> SUFFICES ASSUME TypeOK, ChainsLinked, NEW c \in AllChains, NEW d \in AllChains, Tip(c) = Tip(d)
               PROVE  c = d
    BY DEF TipNamesChain
  <2>1. c \in Seq(Link) /\ d \in Seq(Link) /\ blocks \subseteq Block
    BY ChainsAreSequences DEF AllChains, TypeOK
  <2>2. LinkedIn(c, blocks) /\ LinkedIn(d, blocks) /\ UniqueHashes
    BY DEF ChainsLinked, Linked, LinkedIn
  <2> QED BY <2>1, <2>2, SameTipSameChain
<1> QED BY <1>1, TypeCorrect, ChainsStayLinked, PTL
-----------------------------------------------------------------------------
(* Nobody goes to a worse chain.  A node is never behind its own file.      *)
FileNotAhead ==
  \A n \in Nodes : running[n] => chain[n] = stored[n] \/ Better(chain[n], stored[n])

OnlyBetterStep ==
  \A n \in Nodes : running[n] /\ running'[n] /\ chain'[n] # chain[n]
    => Better(chain'[n], chain[n])
FilesImproveStep ==
  \A n \in Nodes : stored'[n] # stored[n] => Better(stored'[n], stored[n])

(* Moving to a better chain improves memory and file.                       *)
LEMMA MoveToBetter ==
  ASSUME TypeOK, FileNotAhead, NEW n \in Nodes, NEW c \in Chains, MoveTo(n, c), running[n],
         Better(c, chain[n]), UNCHANGED running
  PROVE  FileNotAhead' /\ OnlyBetterStep /\ FilesImproveStep
<1>0. /\ c \in Seq(Link) /\ chain[n] \in Seq(Link) /\ stored[n] \in Seq(Link)
      /\ DOMAIN chain = Nodes /\ DOMAIN stored = Nodes
  BY ChainsAreSequences DEF TypeOK
<1>1. Better(c, stored[n])
  <2>1. CASE chain[n] = stored[n]
    BY <2>1
  <2>2. CASE Better(chain[n], stored[n])
    BY <1>0, <2>2, BetterTransitive
  <2> QED BY <2>1, <2>2 DEF FileNotAhead
<1>2. ASSUME NEW m \in Nodes
      PROVE  /\ chain'[m] = IF m = n THEN c ELSE chain[m]
             /\ stored'[m] = stored[m] \/ (m = n /\ stored'[m] = c)
  BY <1>0 DEF MoveTo
<1>3. FileNotAhead'
  BY <1>1, <1>2 DEF FileNotAhead
<1>4. OnlyBetterStep /\ FilesImproveStep
  BY <1>1, <1>2 DEF OnlyBetterStep, FilesImproveStep
<1> QED BY <1>3, <1>4

(* Every step improves them or leaves them, restarts of the node excepted.  *)
LEMMA ImproveStep ==
  TypeOK /\ FileNotAhead /\ [Next]_vars => FileNotAhead' /\ OnlyBetterStep /\ FilesImproveStep
<1> SUFFICES ASSUME TypeOK, FileNotAhead, [Next]_vars
             PROVE  FileNotAhead' /\ OnlyBetterStep /\ FilesImproveStep
  OBVIOUS
<1> DEFINE Goal == FileNotAhead' /\ OnlyBetterStep /\ FilesImproveStep
<1>0. \A n \in Nodes : chain[n] \in Seq(Link) /\ chain[n] \in Chains /\ fetched[n] \in Chains
  BY ChainsAreSequences DEF TypeOK
<1>1. ASSUME NEW n \in Nodes, Save(n) PROVE Goal
  BY <1>1 DEF FileNotAhead, OnlyBetterStep, FilesImproveStep, Save, TypeOK
<1>2. ASSUME NEW n \in Nodes, NEW b \in Block, Mine(n, b) PROVE Goal
  <2>1. Append(chain[n], b) \in Chains /\ Better(Append(chain[n], b), chain[n])
    BY <1>0, <1>2, AppendChain, BetterAppend DEF Mine, TypeOK, Link
  <2> QED BY <1>2, <2>1, MoveToBetter DEF Mine
<1>3. ASSUME NEW n \in Nodes, NEW b \in blocks, Receive(n, b) PROVE Goal
  <2>1. Append(chain[n], b) \in Chains /\ Better(Append(chain[n], b), chain[n])
    BY <1>0, <1>3, AppendChain, BetterAppend DEF Receive, TypeOK, Link
  <2> QED BY <1>3, <2>1, MoveToBetter DEF Receive
<1>4. ASSUME NEW n \in Nodes, NEW m \in Nodes, Fetch(n, m) PROVE Goal
  BY <1>4 DEF FileNotAhead, OnlyBetterStep, FilesImproveStep, Fetch
<1>5. ASSUME NEW n \in Nodes, Adopt(n) PROVE Goal
  <2>1. CASE StillBetter(n)
    BY <1>0, <1>5, <2>1, MoveToBetter DEF Adopt, StillBetter
  <2>2. CASE ~StillBetter(n)
    BY <1>5, <2>2 DEF FileNotAhead, OnlyBetterStep, FilesImproveStep, Adopt
  <2> QED BY <2>1, <2>2
<1>6. ASSUME NEW n \in Nodes, Stop(n) PROVE Goal
  BY <1>6 DEF FileNotAhead, OnlyBetterStep, FilesImproveStep, Stop, TypeOK
<1>7. ASSUME NEW n \in Nodes, Resume(n) PROVE Goal
  BY <1>7 DEF FileNotAhead, OnlyBetterStep, FilesImproveStep, Resume, Loaded, TypeOK
<1>8. CASE UNCHANGED vars
  BY <1>8 DEF FileNotAhead, OnlyBetterStep, FilesImproveStep, vars
<1> QED BY <1>1, <1>2, <1>3, <1>4, <1>5, <1>6, <1>7, <1>8 DEF Next

(* No file is ahead of memory at the start.                                 *)
LEMMA NotAheadInit == Init => FileNotAhead
BY DEF Init, FileNotAhead

(* A running node never leaves its chain for one that the fork choice ranks *)
(* lower, however old the comparison is that made it download that chain.   *)
THEOREM NodesOnlyImprove == Spec => OnlyBetterChains
<1>1. TypeOK /\ FileNotAhead /\ [Next]_vars => [OnlyBetterStep]_vars
  BY ImproveStep
<1>2. TypeOK /\ FileNotAhead /\ [Next]_vars => FileNotAhead'
  BY ImproveStep
<1> QED BY <1>1, <1>2, TypeInit, TypeStep, NotAheadInit, PTL
        DEF Spec, OnlyBetterChains, OnlyBetterStep

(* Nor does its data file, through failed writes, stops and restarts.       *)
THEOREM FilesImprove == Spec => FilesOnlyImprove
<1>1. TypeOK /\ FileNotAhead /\ [Next]_vars => [FilesImproveStep]_vars
  BY ImproveStep
<1>2. TypeOK /\ FileNotAhead /\ [Next]_vars => FileNotAhead'
  BY ImproveStep
<1> QED BY <1>1, <1>2, TypeInit, TypeStep, NotAheadInit, PTL
        DEF Spec, FilesOnlyImprove, FilesImproveStep

(* The nodes that follow a branch across the activation (ShadowNode).       *)
CONSTANTS HashBits, Activation, TargetSeconds, HalfLife, RetargetInterval, MtpWindow, FutureDrift, LegacyDrift, StartBits,
          MinBits, MaxBits, Trusted, Syncing, Times, Ids, MaxPage, MaxLocator, MaxFaults
VARIABLES branch, disk, saving, up, clock, sess, faults
Shadow == INSTANCE ShadowNode WITH chain <- branch

(* Twice as much from one number to the next.                               *)
Doubles(f, n) == f = [i \in 0..n |-> IF i = 0 THEN 1 ELSE 2 * f[i - 1]]

LEMMA DoublesExist ==
  ASSUME NEW n \in Nat
  PROVE  \E f : Doubles(f, n)
<1> DEFINE N == {k \in Nat : \E f : Doubles(f, k)}
<1>1. 0 \in N
  <2> DEFINE g == [i \in 0..0 |-> 1]
  <2>1. g = [i \in 0..0 |-> IF i = 0 THEN 1 ELSE 2 * g[i - 1]]
    OBVIOUS
  <2>2. Doubles(g, 0)
    BY <2>1 DEF Doubles
  <2> QED BY <2>2
<1>2. ASSUME NEW k \in N PROVE k + 1 \in N
  <2>1. PICK f : f = [i \in 0..k |-> IF i = 0 THEN 1 ELSE 2 * f[i - 1]]
    BY DEF Doubles
  <2> DEFINE g == [i \in 0..(k + 1) |-> IF i <= k THEN f[i] ELSE 2 * f[k]]
  <2>2. k \in Nat /\ k + 1 \in Nat /\ g[k + 1] = 2 * f[k] /\ \A i \in 0..k : g[i] = f[i]
    OBVIOUS
  <2>3. g = [i \in 0..(k + 1) |-> g[i]]
    OBVIOUS
  <2> HIDE DEF g
  <2>4. ASSUME NEW i \in 0..(k + 1) PROVE g[i] = IF i = 0 THEN 1 ELSE 2 * g[i - 1]
    <3>1. CASE i <= k
      <4>1. i \in 0..k /\ (i # 0 => i - 1 \in 0..k)
        BY <2>2, <3>1
      <4>2. f[i] = IF i = 0 THEN 1 ELSE 2 * f[i - 1]
        BY <2>1, <4>1
      <4> QED BY <2>2, <4>1, <4>2
    <3>2. CASE i = k + 1
      <4>1. i # 0 /\ i - 1 = k /\ k \in 0..k
        BY <2>2, <3>2
      <4> QED BY <2>2, <3>2, <4>1
    <3> QED BY <2>2, <3>1, <3>2
  <2>5. g = [i \in 0..(k + 1) |-> IF i = 0 THEN 1 ELSE 2 * g[i - 1]]
    BY <2>3, <2>4
  <2>6. Doubles(g, k + 1)
    BY <2>5 DEF Doubles
  <2> QED BY <2>2, <2>6
<1>3. N \in SUBSET Nat
  OBVIOUS
<1> HIDE DEF N
<1>4. N = Nat
  BY <1>1, <1>2, <1>3, SetInduction
<1> QED BY <1>4 DEF N

LEMMA DoublesStep ==
  ASSUME NEW n \in Nat, NEW f, Doubles(f, n), NEW i \in 0..n
  PROVE  f[i] = IF i = 0 THEN 1 ELSE 2 * f[i - 1]
BY DEF Doubles

LEMMA DoublesAgree ==
  ASSUME NEW n \in Nat, NEW m \in Nat, NEW f, NEW g, Doubles(f, n), Doubles(g, m), NEW i \in Nat, i <= n, i <= m
  PROVE  f[i] = g[i]
<1> DEFINE N == {k \in Nat : k <= n /\ k <= m => f[k] = g[k]}
<1>1. 0 \in N
  <2>1. 0 \in 0..n /\ 0 \in 0..m
    OBVIOUS
  <2>2. f[0] = 1 /\ g[0] = 1
    BY <2>1, DoublesStep
  <2> QED BY <2>2
<1>2. ASSUME NEW k \in N PROVE k + 1 \in N
  <2>1. SUFFICES ASSUME k + 1 <= n, k + 1 <= m PROVE f[k + 1] = g[k + 1]
    OBVIOUS
  <2>2. k \in Nat /\ k + 1 \in 0..n /\ k + 1 \in 0..m /\ k + 1 # 0 /\ (k + 1) - 1 = k /\ f[k] = g[k]
    BY <2>1
  <2>3. f[k + 1] = (IF k + 1 = 0 THEN 1 ELSE 2 * f[(k + 1) - 1]) /\ g[k + 1] = (IF k + 1 = 0 THEN 1 ELSE 2 * g[(k + 1) - 1])
    BY <2>2, DoublesStep
  <2> QED BY <2>2, <2>3
<1>3. N \in SUBSET Nat
  OBVIOUS
<1> HIDE DEF N
<1>4. N = Nat
  BY <1>1, <1>2, <1>3, SetInduction
<1>5. i \in N
  BY <1>4
<1> QED BY <1>5 DEF N

(* The powers of two are what they should be.                               *)
LEMMA PowerIs ==
  Shadow!Power = [n \in Nat |-> IF n = 0 THEN 1 ELSE 2 * Shadow!Power[n - 1]]
<1> DEFINE Upto(n) == CHOOSE f : Doubles(f, n)
           F == [n \in Nat |-> Upto(n)[n]]
<1>1. ASSUME NEW n \in Nat PROVE Doubles(Upto(n), n)
  BY DoublesExist
<1>2. \A n \in Nat : F[n] = Upto(n)[n]
  OBVIOUS
<1>3. F = [n \in Nat |-> F[n]]
  OBVIOUS
<1> HIDE DEF Upto, F
<1>4. ASSUME NEW n \in Nat PROVE F[n] = IF n = 0 THEN 1 ELSE 2 * F[n - 1]
  <2>1. PICK f : f = Upto(n) /\ Doubles(f, n)
    BY <1>1
  <2>2. n \in 0..n
    OBVIOUS
  <2>3. f[n] = IF n = 0 THEN 1 ELSE 2 * f[n - 1]
    BY <2>1, <2>2, DoublesStep
  <2>4. CASE n = 0
    BY <1>2, <2>1, <2>3, <2>4
  <2>5. CASE n # 0
    <3>1. n - 1 \in Nat /\ n - 1 <= n /\ n - 1 <= n - 1
      BY <2>5
    <3>2. PICK g : g = Upto(n - 1) /\ Doubles(g, n - 1)
      BY <1>1, <3>1
    <3>3. f[n - 1] = g[n - 1]
      BY <2>1, <3>1, <3>2, DoublesAgree
    <3>4. F[n] = f[n] /\ F[n - 1] = g[n - 1]
      BY <1>2, <2>1, <3>1, <3>2
    <3> QED BY <2>3, <2>5, <3>3, <3>4
  <2> QED BY <2>4, <2>5
<1>5. F = [n \in Nat |-> IF n = 0 THEN 1 ELSE 2 * F[n - 1]]
  BY <1>3, <1>4
<1> QED BY <1>5, Zenon DEF Shadow!Power

LEMMA PowerPositive ==
  ASSUME NEW n \in Nat
  PROVE  Shadow!Power[n] \in Nat \ {0} /\ (n # 0 => Shadow!Power[n] >= 2)
<1> DEFINE P == Shadow!Power
           N == {k \in Nat : P[k] \in Nat \ {0} /\ (k # 0 => P[k] >= 2)}
<1>0. P = [k \in Nat |-> IF k = 0 THEN 1 ELSE 2 * P[k - 1]]
  BY PowerIs
<1> HIDE DEF P
<1>1. 0 \in N
  <2>1. P[0] = 1
    BY <1>0
  <2> QED BY <2>1
<1>2. ASSUME NEW k \in N PROVE k + 1 \in N
  <2>1. k \in Nat /\ k + 1 \in Nat /\ k + 1 # 0 /\ (k + 1) - 1 = k /\ P[k] \in Nat \ {0}
    OBVIOUS
  <2>2. P[k + 1] = 2 * P[k]
    BY <1>0, <2>1
  <2> QED BY <2>1, <2>2
<1>3. N \in SUBSET Nat
  OBVIOUS
<1> HIDE DEF N
<1>4. N = Nat
  BY <1>1, <1>2, <1>3, SetInduction
<1>5. n \in N
  BY <1>4
<1> QED BY <1>5 DEF N, P

LEMMA PowerNext ==
  ASSUME NEW n \in Nat, n # 0
  PROVE  Shadow!Power[n] = 2 * Shadow!Power[n - 1]
<1>1. PICK P : P = Shadow!Power
  OBVIOUS
<1>2. P = [k \in Nat |-> IF k = 0 THEN 1 ELSE 2 * P[k - 1]]
  BY <1>1, PowerIs
<1>3. P[n] = 2 * P[n - 1]
  BY <1>2
<1> QED BY <1>1, <1>3

LEMMA ShadowConstants ==
  ASSUME Shadow!RulesAssumption
  PROVE  /\ Activation \in Nat /\ Activation >= 2 /\ HalfLife \in Nat \ {0} /\ TargetSeconds \in Nat \ {0}
         /\ RetargetInterval \in Nat \ {0} /\ HashBits \in Nat \ {0} /\ MinBits \in Nat /\ StartBits \in Nat /\ MaxBits \in Nat
         /\ LegacyDrift \in Nat /\ FutureDrift \in Nat /\ MtpWindow \in Nat
BY DEF Shadow!RulesAssumption

(* What a level of difficulty, a target and a unit of work may be.          *)
LEMMA LogRange ==
  ASSUME NEW e \in Nat, NEW a \in Nat
  PROVE  Shadow!RoundedLog2(e, a) \in -2..2
<1> DEFINE Fits(d) == /\ d = -2 \/ 32 * e * e >= Shadow!Power[2 * d + 4] * a * a
                      /\ d = 2 \/ 32 * e * e < Shadow!Power[2 * d + 6] * a * a
<1>1. \E d \in -2..2 : Fits(d)
  <2>1. PICK E, t2, t4, t6, t8 : /\ E = 32 * e * e /\ t2 = Shadow!Power[2] * a * a /\ t4 = Shadow!Power[4] * a * a
                                 /\ t6 = Shadow!Power[6] * a * a /\ t8 = Shadow!Power[8] * a * a
    OBVIOUS
  <2>2. Shadow!Power[2] \in Int /\ Shadow!Power[4] \in Int /\ Shadow!Power[6] \in Int /\ Shadow!Power[8] \in Int
    BY PowerPositive
  <2>3. E \in Int /\ t2 \in Int /\ t4 \in Int /\ t6 \in Int /\ t8 \in Int
    BY <2>1, <2>2
  <2>4. 2 * (-2) + 6 = 2 /\ 2 * (-1) + 4 = 2 /\ 2 * (-1) + 6 = 4 /\ 2 * 0 + 4 = 4 /\ 2 * 0 + 6 = 6 /\ 2 * 1 + 4 = 6 /\ 2 * 1 + 6 = 8 /\ 2 * 2 + 4 = 8
    OBVIOUS
  <2>5. /\ Fits(-2) <=> E < t2
        /\ Fits(-1) <=> E >= t2 /\ E < t4
        /\ Fits(0) <=> E >= t4 /\ E < t6
        /\ Fits(1) <=> E >= t6 /\ E < t8
        /\ Fits(2) <=> E >= t8
    BY <2>1, <2>4
  <2> HIDE DEF Fits
  <2>6. E < t2 \/ (E >= t2 /\ E < t4) \/ (E >= t4 /\ E < t6) \/ (E >= t6 /\ E < t8) \/ E >= t8
    BY <2>3
  <2>7. -2 \in -2..2 /\ -1 \in -2..2 /\ 0 \in -2..2 /\ 1 \in -2..2 /\ 2 \in -2..2
    OBVIOUS
  <2> QED BY <2>5, <2>6, <2>7
<1>2. Shadow!RoundedLog2(e, a) = CHOOSE d \in -2..2 : Fits(d)
  BY Zenon DEF Shadow!RoundedLog2
<1> HIDE DEF Fits
<1> QED BY <1>1, <1>2

LEMMA LastOf ==
  ASSUME NEW S, NEW c \in Seq(S), c # <<>>
  PROVE  Len(c) \in Nat \ {0} /\ Shadow!Last(c) = c[Len(c)] /\ Shadow!Last(c) \in S
<1>1. Len(c) \in Nat /\ Len(c) # 0
  BY EmptySeq, LenProperties
<1>2. Len(c) \in 1..Len(c)
  BY <1>1
<1> QED BY <1>1, <1>2, ElementOfSeq DEF Shadow!Last

LEMMA BlockFields ==
  ASSUME NEW b \in Shadow!Block
  PROVE  /\ b.id \in Nat /\ b.ts \in Nat /\ b.level \in Nat /\ b.mode \in {"bits", "target"}
         /\ b.mode = "target" => b.level \in 0..Shadow!MaxHash
<1>1. Shadow!MaxHash \in Int \/ Shadow!MaxHash \notin Int
  OBVIOUS
<1>2. 0..Shadow!MaxHash \subseteq Nat
  OBVIOUS
<1> QED BY <1>2 DEF Shadow!Block

LEMMA BitsOf ==
  ASSUME Shadow!RulesAssumption, NEW c \in Seq(Shadow!Block)
  PROVE  Shadow!NextBits(c) \in Nat
<1> USE ShadowConstants
<1>1. CASE c = <<>>
  BY <1>1 DEF Shadow!NextBits
<1>2. CASE c # <<>>
  <2>1. Shadow!Last(c).level \in Nat /\ Shadow!Last(c).ts \in Nat
    BY <1>2, LastOf, BlockFields
  <2>2. CASE (Len(c) + 1) % RetargetInterval # 1 \/ Len(c) < RetargetInterval
    BY <1>2, <2>1, <2>2 DEF Shadow!NextBits
  <2>3. CASE ~((Len(c) + 1) % RetargetInterval # 1 \/ Len(c) < RetargetInterval)
    <3>1. PICK first, span, e, a, delta : /\ first = c[Len(c) - RetargetInterval + 1] /\ span = Shadow!Last(c).ts - first.ts
             /\ e = TargetSeconds * (RetargetInterval - 1) /\ a = (IF span > 1 THEN span ELSE 1) /\ delta = Shadow!RoundedLog2(e, a)
      OBVIOUS
    <3>2. Len(c) \in Nat /\ Len(c) - RetargetInterval + 1 \in 1..Len(c)
      BY <2>3, LenProperties
    <3>3. first.ts \in Nat
      BY <3>1, <3>2, ElementOfSeq, BlockFields
    <3>4. span \in Int
      BY <2>1, <3>1, <3>3
    <3>5. a \in Nat
      BY <3>1, <3>4
    <3>6. e \in Nat
      <4>1. PICK r, t : r = RetargetInterval - 1 /\ t = TargetSeconds
        OBVIOUS
      <4>2. RetargetInterval \in Nat /\ RetargetInterval >= 1 /\ TargetSeconds \in Nat
        OBVIOUS
      <4>3. r \in Nat /\ t \in Nat
        BY <4>1, <4>2
      <4>4. e = t * r
        BY <3>1, <4>1, Zenon
      <4>5. t * r \in Nat
        BY <4>3
      <4> QED BY <4>4, <4>5
    <3>7. delta \in Int
      <4>1. Shadow!RoundedLog2(e, a) \in -2..2
        BY <3>5, <3>6, LogRange
      <4>2. -2..2 \subseteq Int
        OBVIOUS
      <4> QED BY <3>1, <4>1, <4>2
    <3>8. Shadow!NextBits(c) = Shadow!Clamp(Shadow!Last(c).level + delta, MinBits, MaxBits)
      BY <1>2, <2>3, <3>1 DEF Shadow!NextBits
    <3> QED BY <2>1, <3>7, <3>8 DEF Shadow!Clamp
  <2> QED BY <2>2, <2>3
<1> QED BY <1>1, <1>2

LEMMA LimitIs ==
  ASSUME Shadow!RulesAssumption
  PROVE  Shadow!MaxHash \in Nat \ {0} /\ \A b \in Nat : Shadow!TargetOfBits(b) \in 0..Shadow!MaxHash
<1> USE ShadowConstants
<1>1. Shadow!Power[HashBits] \in Nat /\ Shadow!Power[HashBits] >= 2
  BY PowerPositive
<1>2. Shadow!MaxHash \in Nat \ {0}
  BY <1>1 DEF Shadow!MaxHash
<1>3. ASSUME NEW b \in Nat PROVE Shadow!TargetOfBits(b) \in 0..Shadow!MaxHash
  <2>1. PICK x, p : x = Shadow!MaxHash /\ p = Shadow!Power[b]
    OBVIOUS
  <2>2. x \in Nat /\ p \in Nat /\ p >= 1
    BY <1>2, <2>1, PowerPositive
  <2>3. x \div p \in Nat /\ x \div p <= x
    <3>1. x \div p \in Nat /\ p * (x \div p) <= x
      BY <2>2, SMT
    <3>2. PICK y : y = x \div p
      OBVIOUS
    <3>3. y \in Nat /\ p * y <= x
      BY <3>1, <3>2
    <3>4. y <= p * y
      <4>1. p - 1 \in Nat
        BY <2>2
      <4>2. (p - 1) * y \in Nat /\ p * y = (p - 1) * y + y
        BY <2>2, <3>3, <4>1, SMT
      <4> QED BY <3>3, <4>2
    <3> QED BY <2>2, <3>2, <3>3, <3>4
  <2> QED BY <2>1, <2>2, <2>3 DEF Shadow!TargetOfBits
<1> QED BY <1>2, <1>3

LEMMA TruncInt ==
  ASSUME NEW a \in Int, NEW b \in Nat \ {0}
  PROVE  Shadow!TruncDiv(a, b) \in Int
<1>1. CASE a >= 0
  BY <1>1 DEF Shadow!TruncDiv
<1>2. CASE ~(a >= 0)
  <2>1. -a \in Int /\ (-a) \div b \in Int
    BY <1>2
  <2> QED BY <1>2, <2>1 DEF Shadow!TruncDiv
<1> QED BY <1>1, <1>2

LEMMA AsertRange ==
  ASSUME Shadow!RulesAssumption, NEW anchor \in Nat, NEW parentTs \in Nat, NEW height \in Nat, NEW ts \in Nat
  PROVE  Shadow!AsertTarget(anchor, parentTs, height, ts) \in 0..Shadow!MaxHash
<1> USE ShadowConstants
<1>1. PICK late : late = (ts - parentTs) - TargetSeconds * (height - Activation + 1)
  OBVIOUS
<1>2. late \in Int
  BY <1>1
<1>3. PICK exponent : exponent = Shadow!TruncDiv(late * Shadow!Radix, HalfLife)
  OBVIOUS
<1>4. exponent \in Int
  <2>1. late * Shadow!Radix \in Int
    BY <1>2 DEF Shadow!Radix
  <2> QED BY <1>3, <2>1, TruncInt
<1>5. PICK shifts : shifts = exponent \div Shadow!Radix
  OBVIOUS
<1>6. shifts \in Int /\ exponent - shifts * Shadow!Radix + 1 \in 1..4
  BY <1>4, <1>5 DEF Shadow!Radix
<1>7. PICK scaled : scaled = anchor * Shadow!Factor[exponent - shifts * Shadow!Radix + 1]
  OBVIOUS
<1>8. scaled \in Nat
  <2>1. \A i \in 1..4 : Shadow!Factor[i] \in Nat
    BY DEF Shadow!Factor
  <2> QED BY <1>6, <1>7, <2>1
<1>9. PICK shifted : shifted = IF shifts < 0 THEN scaled \div Shadow!Power[-shifts] ELSE scaled * Shadow!Power[shifts]
  OBVIOUS
<1>10. shifted \in Nat
  <2>1. CASE shifts < 0
    <3>1. -shifts \in Nat
      BY <1>6, <2>1
    <3>2. PICK p : p = Shadow!Power[-shifts]
      OBVIOUS
    <3>3. p \in Nat \ {0}
      BY <3>1, <3>2, PowerPositive
    <3>4. scaled \div p \in Nat
      BY <1>8, <3>3
    <3> QED BY <1>9, <2>1, <3>2, <3>4
  <2>2. CASE ~(shifts < 0)
    <3>1. shifts \in Nat
      BY <1>6, <2>2
    <3>2. PICK p : p = Shadow!Power[shifts]
      OBVIOUS
    <3>3. p \in Nat
      BY <3>1, <3>2, PowerPositive
    <3> QED BY <1>8, <1>9, <2>2, <3>2, <3>3
  <2> QED BY <2>1, <2>2
<1>11. Shadow!PowLimit \in 0..Shadow!MaxHash /\ Shadow!MaxHash \in Nat \ {0}
  BY LimitIs DEF Shadow!PowLimit
<1>12. shifted \div Shadow!Radix \in Nat
  BY <1>10 DEF Shadow!Radix
<1>13. Shadow!Clamp(shifted \div Shadow!Radix, 1, Shadow!PowLimit) \in 0..Shadow!MaxHash
  BY <1>11, <1>12 DEF Shadow!Clamp
<1>14. Shadow!AsertTarget(anchor, parentTs, height, ts) = Shadow!Clamp(shifted \div Shadow!Radix, 1, Shadow!PowLimit)
  BY <1>1, <1>3, <1>5, <1>7, <1>9, Zenon DEF Shadow!AsertTarget
<1> QED BY <1>13, <1>14

LEMMA PrefixIs ==
  ASSUME NEW S, NEW c \in Seq(S), NEW h \in Nat
  PROVE  /\ Shadow!Prefix(c, h) \in Seq(S)
         /\ Len(Shadow!Prefix(c, h)) = IF h < Len(c) THEN h ELSE Len(c)
         /\ \A i \in 1..Len(c) : i <= h => Shadow!Prefix(c, h)[i] = c[i]
<1>1. PICK n : n = IF h < Len(c) THEN h ELSE Len(c)
  OBVIOUS
<1>2. Len(c) \in Nat
  BY LenProperties
<1>3. n \in Nat /\ n <= Len(c) /\ \A i \in 1..Len(c) : i <= h => i <= n
  BY <1>1, <1>2
<1>4. Shadow!Prefix(c, h) = SubSeq(c, 1, n)
  BY <1>1, Zenon DEF Shadow!Prefix
<1>5. \A i \in 1..n : c[i] \in S
  BY <1>2, <1>3, ElementOfSeq
<1>6. 1 \in Int /\ n \in Int
  BY <1>3
<1>7. PICK q : q = SubSeq(c, 1, n)
  OBVIOUS
<1>8. /\ q \in Seq(S) /\ Len(q) = (IF 1 <= n THEN n - 1 + 1 ELSE 0)
      /\ \A i \in 1..(n - 1 + 1) : q[i] = c[1 + i - 1]
  BY <1>5, <1>6, <1>7, SubSeqProperties
<1>9. Len(q) = n /\ \A i \in 1..n : q[i] = c[i]
  <2>1. n - 1 + 1 = n /\ \A i \in 1..n : 1 + i - 1 = i
    BY <1>3
  <2> QED BY <1>3, <1>8, <2>1
<1> QED BY <1>1, <1>3, <1>4, <1>7, <1>8, <1>9

LEMMA WholePrefix ==
  ASSUME NEW S, NEW c \in Seq(S)
  PROVE  Shadow!Prefix(c, Len(c)) = c
<1>1. Len(c) \in Nat
  BY LenProperties
<1>2. Shadow!Prefix(c, Len(c)) = SubSeq(c, 1, Len(c))
  BY <1>1 DEF Shadow!Prefix
<1> QED BY <1>2, SubSeqFull

LEMMA ExpectedRange ==
  ASSUME Shadow!RulesAssumption, NEW c \in Seq(Shadow!Block), c # <<>>, NEW ts \in Nat
  PROVE  Shadow!ExpectedTarget(c, ts) \in 0..Shadow!MaxHash
<1>0. Activation \in Nat /\ Activation >= 2 /\ Len(c) \in Nat \ {0}
  BY ShadowConstants, LastOf
<1>1. PICK before : before = Shadow!Prefix(c, Activation - 1)
  OBVIOUS
<1>2. Activation - 1 \in Nat
  BY <1>0
<1>3. before \in Seq(Shadow!Block) /\ Len(before) = (IF Activation - 1 < Len(c) THEN Activation - 1 ELSE Len(c))
  BY <1>1, <1>2, PrefixIs
<1>4. Len(before) # 0
  BY <1>0, <1>3
<1>5. before # <<>>
  BY <1>4, EmptySeq
<1>6. Shadow!Last(before).ts \in Nat
  BY <1>3, <1>5, LastOf, BlockFields
<1>7. Shadow!NextBits(before) \in Nat
  BY <1>3, BitsOf
<1>8. Shadow!TargetOfBits(Shadow!NextBits(before)) \in Nat
  <2>1. Shadow!TargetOfBits(Shadow!NextBits(before)) \in 0..Shadow!MaxHash
    BY <1>7, LimitIs
  <2>2. 0..Shadow!MaxHash \subseteq Nat
    OBVIOUS
  <2> QED BY <2>1, <2>2
<1>9. Len(c) + 1 \in Nat
  BY <1>0
<1>10. Shadow!ExpectedTarget(c, ts) =
         Shadow!AsertTarget(Shadow!TargetOfBits(Shadow!NextBits(before)), Shadow!Last(before).ts, Len(c) + 1, ts)
  BY <1>1, Zenon DEF Shadow!ExpectedTarget
<1> QED BY <1>6, <1>8, <1>9, <1>10, AsertRange

LEMMA MinedIs ==
  ASSUME Shadow!RulesAssumption, NEW c \in Seq(Shadow!Block), c # <<>>, NEW id \in Nat, NEW ts \in Nat
  PROVE  Shadow!Mined(c, id, ts) \in Shadow!Block
<1>1. Shadow!TipId(c) \in Nat
  <2>1. Shadow!Last(c) \in Shadow!Block
    BY LastOf
  <2> QED BY <2>1, BlockFields DEF Shadow!TipId
<1>2. CASE Len(c) + 1 < Activation
  <2>1. PICK b : b = [id |-> id, prev |-> Shadow!TipId(c), ts |-> ts, mode |-> "bits", level |-> Shadow!NextBits(c)]
    OBVIOUS
  <2>2. Shadow!NextBits(c) \in Nat
    BY BitsOf
  <2>3. b \in Shadow!Block
    BY <1>1, <2>1, <2>2 DEF Shadow!Block
  <2>4. Shadow!Mined(c, id, ts) = b
    BY <1>2, <2>1 DEF Shadow!Mined
  <2> QED BY <2>3, <2>4
<1>3. CASE ~(Len(c) + 1 < Activation)
  <2>1. PICK b : b = [id |-> id, prev |-> Shadow!TipId(c), ts |-> ts, mode |-> "target", level |-> Shadow!ExpectedTarget(c, ts)]
    OBVIOUS
  <2>2. Shadow!ExpectedTarget(c, ts) \in 0..Shadow!MaxHash
    BY ExpectedRange
  <2>3. b \in Shadow!Block
    BY <1>1, <2>1, <2>2 DEF Shadow!Block
  <2>4. Shadow!Mined(c, id, ts) = b
    BY <1>3, <2>1 DEF Shadow!Mined
  <2> QED BY <2>3, <2>4
<1> QED BY <1>2, <1>3

LEMMA WorkPositive ==
  ASSUME Shadow!RulesAssumption, NEW b \in Shadow!Block
  PROVE  Shadow!Work(b) \in Nat \ {0}
<1>1. b.level \in Nat /\ b.mode \in {"bits", "target"} /\ (b.mode = "target" => b.level \in 0..Shadow!MaxHash)
  BY BlockFields
<1>2. CASE b.mode = "bits"
  BY <1>1, <1>2, PowerPositive DEF Shadow!Work
<1>3. CASE b.mode = "target"
  <2>1. PICK p, t : p = Shadow!Power[HashBits] /\ t = b.level + 1
    OBVIOUS
  <2>2. p \in Nat /\ HashBits \in Nat
    BY <2>1, ShadowConstants, PowerPositive
  <2>3. Shadow!MaxHash = p - 1
    BY <2>1 DEF Shadow!MaxHash
  <2>4. t \in Nat /\ t >= 1 /\ t <= p
    BY <1>1, <1>3, <2>1, <2>2, <2>3
  <2>5. p \div t \in Nat /\ p \div t # 0
    <3>1. PICK q : q = p \div t
      OBVIOUS
    <3>2. q \in Nat /\ p <= t * q + (t - 1)
      BY <2>2, <2>4, <3>1, SMT
    <3>3. CASE q = 0
      <4>1. t * q = 0
        BY <2>4, <3>3
      <4> QED BY <2>2, <2>4, <3>2, <4>1
    <3> QED BY <3>1, <3>2, <3>3
  <2>6. Shadow!Work(b) = p \div t
    BY <1>3, <2>1 DEF Shadow!Work, Shadow!WorkOfTarget
  <2> QED BY <2>5, <2>6
<1> QED BY <1>1, <1>2, <1>3

(* A chain that grows by a block gains work, and so it is preferred.        *)
LEMMA ShadowWorkAppend ==
  ASSUME Shadow!RulesAssumption, NEW c \in Seq(Shadow!Block), NEW b \in Shadow!Block
  PROVE  Shadow!Preferred(Append(c, b), c)
<1> DEFINE d == Append(c, b)
           q == [i \in DOMAIN c |-> Shadow!Work(c[i])]
           r == [i \in DOMAIN d |-> Shadow!Work(d[i])]
           w == Shadow!Work(b)
<1>0. w \in Nat \ {0} /\ \A x \in Shadow!Block : Shadow!Work(x) \in Nat
  BY WorkPositive
<1>1. Len(c) \in Nat /\ DOMAIN c = 1..Len(c) /\ \A i \in 1..Len(c) : c[i] \in Shadow!Block
  BY LenProperties, ElementOfSeq
<1>2. /\ d \in Seq(Shadow!Block) /\ Len(d) = Len(c) + 1 /\ DOMAIN d = 1..(Len(c) + 1)
      /\ d[Len(c) + 1] = b /\ \A i \in 1..Len(c) : d[i] = c[i]
  BY AppendProperties, LenProperties
<1> HIDE DEF d
<1>3. q \in Seq(Nat) /\ Len(q) = Len(c) /\ \A i \in 1..Len(c) : q[i] = Shadow!Work(c[i])
  <2>1. \A i \in 1..Len(c) : Shadow!Work(c[i]) \in Nat
    BY <1>0, <1>1
  <2>2. q = [i \in 1..Len(c) |-> Shadow!Work(c[i])]
    BY <1>1
  <2> HIDE DEF q
  <2>3. q \in [1..Len(c) -> Nat]
    BY <2>1, <2>2
  <2> QED BY <1>1, <2>2, <2>3, SeqDef, LenProperties
<1>4. r = Append(q, w)
  <2>1. \A i \in 1..(Len(c) + 1) : r[i] = Append(q, w)[i]
    <3>1. SUFFICES ASSUME NEW i \in 1..(Len(c) + 1) PROVE r[i] = Append(q, w)[i]
      OBVIOUS
    <3>2. r[i] = Shadow!Work(d[i])
      BY <1>2
    <3> HIDE DEF q, r, w
    <3>3. CASE i = Len(c) + 1
      BY <1>0, <1>2, <1>3, <3>2, <3>3 DEF w
    <3>4. CASE i \in 1..Len(c)
      BY <1>1, <1>2, <1>3, <3>2, <3>4
    <3>5. i = Len(c) + 1 \/ i \in 1..Len(c)
      BY <1>1
    <3> QED BY <3>3, <3>4, <3>5, Zenon
  <2>2. DOMAIN r = 1..(Len(c) + 1)
    BY <1>2
  <2>3. r = [i \in 1..(Len(c) + 1) |-> r[i]]
    BY <1>2
  <2> HIDE DEF r, q, w
  <2>4. Append(q, w) \in Seq(Nat) /\ Len(Append(q, w)) = Len(c) + 1
    BY <1>0, <1>3, AppendProperties
  <2>5. Append(q, w) = [i \in 1..(Len(c) + 1) |-> Append(q, w)[i]]
    <3>1. PICK a : a = Append(q, w)
      OBVIOUS
    <3>2. a \in Seq(Nat) /\ Len(a) = Len(c) + 1
      BY <2>4, <3>1
    <3>3. a \in [1..(Len(c) + 1) -> Nat]
      BY <3>2, LenProperties
    <3>4. a = [i \in 1..(Len(c) + 1) |-> a[i]]
      BY <3>3
    <3> QED BY <3>1, <3>4
  <2> QED BY <2>1, <2>3, <2>5
<1>5. Shadow!ChainWork(d) = SumSeq(r) /\ Shadow!ChainWork(c) = SumSeq(q)
  BY Zenon DEF Shadow!ChainWork, Shadow!SumSeq, SumSeq
<1> HIDE DEF q, r, w
<1>6. SumSeq(Append(q, w)) = SumSeq(q) + w /\ SumSeq(q) \in Nat
  BY <1>0, <1>3, SumSeqAppend, SumSeqNat
<1>7. Shadow!ChainWork(d) > Shadow!ChainWork(c) /\ Shadow!ChainWork(d) # Shadow!ChainWork(c)
  BY <1>0, <1>4, <1>5, <1>6
<1>8. Shadow!Preferred(d, c)
  BY <1>7 DEF Shadow!Preferred
<1> QED BY <1>8 DEF d

(* Chains a node may have, and what two chains have in common.              *)
Branch(c) == c \in Seq(Shadow!Block) /\ Shadow!StartsWith(c, Trusted) /\ Shadow!ValidChain(c)
Same(c, d, k) == k <= Len(c) /\ k <= Len(d) /\ \A i \in 1..k : c[i] = d[i]
(* What a sync has read is still so of the chain c of the node: that only   *)
(* grows meanwhile.                                                         *)
Underway(s, c) ==
  /\ s.stage \in {"ask", "check", "headers"} => s.height \in Nat
  /\ s.stage \in {"check", "headers", "blocks", "adopt"} => s.from \in Nat
  /\ s.stage \in {"headers", "blocks"} => s.local \in Seq(Shadow!Block) /\ Same(s.local, c, s.from)
  /\ s.stage \in {"blocks", "adopt"} => s.candidate \in Seq(Shadow!Block)
  /\ s.stage = "blocks" => Same(s.candidate, s.local, s.from)
  /\ s.stage = "adopt" => Same(s.candidate, c, s.from)
Settled(n) == Branch(branch[n]) /\ Branch(disk[n]) /\ Underway(sess[n], branch[n]) /\ (n \notin up => sess[n].stage = "idle")
ShadowInv ==
  /\ DOMAIN branch = Nodes /\ DOMAIN disk = Nodes /\ DOMAIN sess = Nodes /\ up \subseteq Nodes
  /\ \A n \in Nodes : Settled(n)

LEMMA BranchHasBlocks ==
  ASSUME Shadow!ShadowAssumption, NEW c, Branch(c)
  PROVE  c # <<>> /\ Len(c) \in Nat /\ c \in Seq(Shadow!Block)
<1>1. Len(Trusted) \in Nat \ {0}
  BY LastOf DEF Shadow!ShadowAssumption
<1>2. Len(c) \in Nat /\ Len(c) >= Len(Trusted)
  BY LenProperties DEF Branch, Shadow!StartsWith
<1>3. Len(c) # 0
  BY <1>1, <1>2
<1> QED BY <1>2, <1>3, EmptySeq DEF Branch

LEMMA TrustedIsBranch ==
  ASSUME Shadow!ShadowAssumption
  PROVE  Branch(Trusted)
<1>1. Trusted \in Seq(Shadow!Block) /\ Shadow!ValidChain(Trusted)
  BY DEF Shadow!ShadowAssumption
<1>2. Shadow!Prefix(Trusted, Len(Trusted)) = Trusted /\ Len(Trusted) \in Nat
  BY <1>1, WholePrefix, LenProperties
<1> QED BY <1>1, <1>2 DEF Branch, Shadow!StartsWith

LEMMA IdleIsUnderway ==
  ASSUME NEW s, s.stage = "idle", NEW c
  PROVE  Underway(s, c)
BY DEF Underway

LEMMA NoSyncIsIdle == Shadow!NoSync.stage = "idle"
BY DEF Shadow!NoSync

LEMMA ShadowInit ==
  ASSUME Shadow!ShadowAssumption, Shadow!Init
  PROVE  ShadowInv
<1>1. branch = [n \in Nodes |-> Trusted] /\ disk = branch /\ sess = [n \in Nodes |-> Shadow!NoSync] /\ up = Nodes
  BY DEF Shadow!Init
<1>2. \A n \in Nodes : branch[n] = Trusted /\ disk[n] = Trusted /\ sess[n].stage = "idle"
  BY <1>1, NoSyncIsIdle
<1> QED BY <1>1, <1>2, TrustedIsBranch, IdleIsUnderway DEF ShadowInv, Settled

(* A step of a session leaves the chains as they are.                       *)
LEMMA SessionMoves ==
  ASSUME ShadowInv, NEW n \in Nodes, NEW s, sess' = [sess EXCEPT ![n] = s], UNCHANGED <<branch, disk>>,
         Underway(s, branch[n]), up' \subseteq up, s.stage = "idle" \/ n \in up', \A m \in Nodes \ {n} : m \in up => m \in up'
  PROVE  ShadowInv'
<1>1. DOMAIN branch' = Nodes /\ DOMAIN disk' = Nodes /\ DOMAIN sess' = Nodes /\ up' \subseteq Nodes
  BY DEF ShadowInv
<1>2. ASSUME NEW m \in Nodes PROVE Settled(m)'
  <2>1. Settled(m) /\ branch'[m] = branch[m] /\ disk'[m] = disk[m]
    BY DEF ShadowInv
  <2>2. CASE m = n
    <3>1. sess'[m] = s
      BY <2>2 DEF ShadowInv
    <3> QED BY <2>1, <2>2, <3>1 DEF Settled
  <2>3. CASE m # n
    <3>1. sess'[m] = sess[m]
      BY <2>3 DEF ShadowInv
    <3> QED BY <2>1, <2>3, <3>1 DEF Settled
  <2> QED BY <2>2, <2>3
<1> QED BY <1>1, <1>2 DEF ShadowInv

LEMMA SameGrows ==
  ASSUME NEW c \in Seq(Shadow!Block), NEW b \in Shadow!Block, NEW d, NEW k \in Nat, Same(d, c, k)
  PROVE  Same(d, Append(c, b), k)
<1>1. PICK e : e = Append(c, b)
  OBVIOUS
<1>2. Len(c) \in Nat /\ Len(e) = Len(c) + 1 /\ \A i \in 1..Len(c) : e[i] = c[i]
  BY <1>1, AppendProperties, LenProperties
<1>3. k <= Len(e) /\ \A i \in 1..k : i \in 1..Len(c)
  BY <1>2 DEF Same
<1> QED BY <1>1, <1>2, <1>3 DEF Same

LEMMA UnderwayGrows ==
  ASSUME NEW c \in Seq(Shadow!Block), NEW b \in Shadow!Block, NEW s, Underway(s, c)
  PROVE  Underway(s, Append(c, b))
BY SameGrows DEF Underway

LEMMA GreatestIn ==
  ASSUME NEW top \in Nat, NEW T \in SUBSET (1..top), T # {}
  PROVE  \E m \in T : \A x \in T : x <= m
<1> DEFINE R == {top - x : x \in T}
<1>1. R \in SUBSET Nat
  <2>1. \A x \in T : top - x \in Nat
    OBVIOUS
  <2> QED BY <2>1
<1>6. R # {}
  <2>1. PICK x \in T : TRUE
    OBVIOUS
  <2>2. top - x \in R
    OBVIOUS
  <2> QED BY <2>2
<1>2. PICK r \in R : \A y \in R : r <= y
  BY <1>1, <1>6, LeastElement
<1>3. PICK m \in T : r = top - m
  OBVIOUS
<1>4. \A x \in T : top - m <= top - x
  BY <1>2, <1>3
<1>5. \A x \in T : x <= m
  BY <1>4
<1> QED BY <1>5

(* The steps of a sync, one after the other.                                *)
LEMMA HelloKeeps ==
  ASSUME ShadowInv, NEW n \in Nodes, NEW p \in Nodes, Shadow!Hello(n, p)
  PROVE  ShadowInv'
<1>1. PICK s : /\ s.stage = "ask" /\ s.height = Len(branch[p]) /\ sess' = [sess EXCEPT ![n] = s]
               /\ n \in up /\ UNCHANGED <<branch, disk, up>>
  BY DEF Shadow!Hello, Shadow!To, Shadow!Stage, Shadow!Store, Shadow!World
<1>2. Len(branch[p]) \in Nat
  BY LenProperties DEF ShadowInv, Settled, Branch
<1>3. Underway(s, branch[n])
  BY <1>1, <1>2 DEF Underway
<1> QED BY <1>1, <1>3, SessionMoves

LEMMA StopsKeep ==
  ASSUME ShadowInv, NEW n \in Nodes, Shadow!Stops(n), UNCHANGED <<branch, disk, up>>
  PROVE  ShadowInv'
<1>1. PICK s : s.stage = "idle" /\ sess' = [sess EXCEPT ![n] = s]
  BY NoSyncIsIdle DEF Shadow!Stops, Shadow!To
<1>2. Underway(s, branch[n])
  BY <1>1, IdleIsUnderway
<1> QED BY <1>1, <1>2, SessionMoves

LEMMA AskKeeps ==
  ASSUME ShadowInv, NEW n \in Nodes, Shadow!AskAncestor(n)
  PROVE  ShadowInv'
<1>1. n \in up /\ sess[n].stage = "ask" /\ UNCHANGED <<branch, disk, up>>
  BY DEF Shadow!AskAncestor, Shadow!Stage, Shadow!Store, Shadow!World
<1>2. PICK common : common = Shadow!Common(branch[n], branch[sess[n].peer])
  OBVIOUS
<1>3. CASE common = {}
  <2>1. Shadow!Stops(n)
    BY <1>2, <1>3 DEF Shadow!AskAncestor
  <2> QED BY <1>1, <2>1, StopsKeep
<1>4. CASE common # {}
  <2>1. PICK h, s : /\ h = (CHOOSE x \in common : \A y \in common : y <= x)
                    /\ s.stage = "check" /\ s.height = sess[n].height /\ s.from = h /\ sess' = [sess EXCEPT ![n] = s]
    BY <1>2, <1>4 DEF Shadow!AskAncestor, Shadow!To
  <2>2. common \in SUBSET (1..Len(branch[n])) /\ Len(branch[n]) \in Nat
    BY <1>2, LenProperties DEF Shadow!Common, ShadowInv, Settled, Branch
  <2>3. h \in common
    <3>1. \E x \in common : \A y \in common : y <= x
      BY <1>4, <2>2, GreatestIn
    <3> QED BY <2>1, <3>1
  <2>4. h \in Nat
    BY <2>2, <2>3
  <2>5. Underway(sess[n], branch[n])
    BY DEF ShadowInv, Settled
  <2>6. Underway(s, branch[n])
    BY <1>1, <2>1, <2>4, <2>5 DEF Underway
  <2> QED BY <1>1, <2>1, <2>6, SessionMoves
<1> QED BY <1>3, <1>4

LEMMA CheckKeeps ==
  ASSUME ShadowInv, NEW n \in Nodes, Shadow!CheckAncestor(n)
  PROVE  ShadowInv'
<1>1. n \in up /\ sess[n].stage = "check" /\ UNCHANGED <<branch, disk, up>>
  BY DEF Shadow!CheckAncestor, Shadow!Stage, Shadow!Store, Shadow!World
<1>2. Underway(sess[n], branch[n]) /\ branch[n] \in Seq(Shadow!Block)
  BY DEF ShadowInv, Settled, Branch
<1>3. CASE Shadow!Stops(n)
  BY <1>1, <1>3, StopsKeep
<1>4. CASE ~Shadow!Stops(n)
  <2>1. PICK s : /\ s.stage = "headers" /\ s.height = sess[n].height /\ s.from = sess[n].from /\ s.local = branch[n]
                 /\ sess[n].from <= Len(branch[n]) /\ sess' = [sess EXCEPT ![n] = s]
    BY <1>4 DEF Shadow!CheckAncestor, Shadow!To
  <2>2. Underway(s, branch[n])
    BY <1>1, <1>2, <2>1 DEF Underway, Same
  <2> QED BY <1>1, <2>1, <2>2, SessionMoves
<1> QED BY <1>3, <1>4

LEMMA PageIs ==
  ASSUME NEW c \in Seq(Shadow!Block), NEW s, s.height \in Nat, s.from \in Nat
  PROVE  Shadow!Page(c, s) \in Seq(Shadow!Block)
<1>1. CASE s.height - s.from > MaxPage \/ Len(c) < s.height
  BY <1>1, EmptySeq DEF Shadow!Page
<1>2. CASE ~(s.height - s.from > MaxPage \/ Len(c) < s.height)
  <2>1. PICK a, b : a = s.from + 1 /\ b = s.height
    OBVIOUS
  <2>2. a \in Nat \ {0} /\ b \in Nat /\ b <= Len(c) /\ Len(c) \in Nat
    BY <1>2, <2>1, LenProperties
  <2>3. \A i \in a..b : c[i] \in Shadow!Block
    BY <2>2, ElementOfSeq
  <2>4. a \in Int /\ b \in Int
    BY <2>2
  <2>5. SubSeq(c, a, b) \in Seq(Shadow!Block)
    BY <2>3, <2>4, SubSeqProperties
  <2>6. Shadow!Page(c, s) = SubSeq(c, a, b)
    BY <1>2, <2>1, Zenon DEF Shadow!Page
  <2> QED BY <2>5, <2>6
<1> QED BY <1>1, <1>2

LEMMA GluedIs ==
  ASSUME NEW c \in Seq(Shadow!Block), NEW from \in Nat, from <= Len(c), NEW page \in Seq(Shadow!Block)
  PROVE  /\ Shadow!Prefix(c, from) \o page \in Seq(Shadow!Block)
         /\ Same(Shadow!Prefix(c, from) \o page, c, from)
<1>1. PICK q : q = Shadow!Prefix(c, from)
  OBVIOUS
<1>2. Len(c) \in Nat
  BY LenProperties
<1>3. q \in Seq(Shadow!Block) /\ Len(q) = (IF from < Len(c) THEN from ELSE Len(c)) /\ \A i \in 1..Len(c) : i <= from => q[i] = c[i]
  BY <1>1, PrefixIs
<1>4. Len(q) = from /\ \A i \in 1..from : q[i] = c[i]
  BY <1>2, <1>3
<1>5. PICK g : g = q \o page
  OBVIOUS
<1>6. /\ g \in Seq(Shadow!Block) /\ Len(g) = Len(q) + Len(page) /\ Len(page) \in Nat
      /\ \A i \in 1..(Len(q) + Len(page)) : g[i] = IF i <= Len(q) THEN q[i] ELSE page[i - Len(q)]
  BY <1>3, <1>5, ConcatProperties, LenProperties
<1>7. from <= Len(g) /\ \A i \in 1..from : g[i] = c[i]
  BY <1>4, <1>6
<1> QED BY <1>1, <1>5, <1>6, <1>7 DEF Same

LEMMA HeadersKeep ==
  ASSUME ShadowInv, NEW n \in Nodes, Shadow!FetchHeaders(n)
  PROVE  ShadowInv'
<1>1. n \in up /\ sess[n].stage = "headers" /\ sess[n].peer \in Nodes /\ UNCHANGED <<branch, disk, up>>
  BY DEF Shadow!FetchHeaders, Shadow!Stage, Shadow!Store, Shadow!World, ShadowInv
<1>2. Underway(sess[n], branch[n])
  BY DEF ShadowInv, Settled
<1>3. /\ sess[n].height \in Nat /\ sess[n].from \in Nat /\ sess[n].local \in Seq(Shadow!Block)
      /\ Same(sess[n].local, branch[n], sess[n].from)
  BY <1>1, <1>2 DEF Underway
<1>4. PICK candidate : candidate = Shadow!Prefix(sess[n].local, sess[n].from) \o Shadow!Page(branch[sess[n].peer], sess[n])
  OBVIOUS
<1>5. CASE Shadow!Stops(n)
  BY <1>1, <1>5, StopsKeep
<1>6. CASE ~Shadow!Stops(n)
  <2>1. PICK s : /\ s.stage = "blocks" /\ s.from = sess[n].from /\ s.local = sess[n].local /\ s.candidate = candidate
                 /\ sess' = [sess EXCEPT ![n] = s]
    BY <1>4, <1>6 DEF Shadow!FetchHeaders, Shadow!To
  <2>2. branch[sess[n].peer] \in Seq(Shadow!Block)
    BY <1>1 DEF ShadowInv, Settled, Branch
  <2>3. Shadow!Page(branch[sess[n].peer], sess[n]) \in Seq(Shadow!Block)
    BY <1>3, <2>2, PageIs
  <2>4. sess[n].from <= Len(sess[n].local)
    BY <1>3 DEF Same
  <2>5. candidate \in Seq(Shadow!Block) /\ Same(candidate, sess[n].local, sess[n].from)
    BY <1>3, <1>4, <2>3, <2>4, GluedIs
  <2>6. Underway(s, branch[n])
    BY <1>3, <2>1, <2>5 DEF Underway
  <2> QED BY <1>1, <2>1, <2>6, SessionMoves
<1> QED BY <1>5, <1>6

LEMMA BlocksKeep ==
  ASSUME ShadowInv, NEW n \in Nodes, Shadow!FetchBlocks(n)
  PROVE  ShadowInv'
<1>1. n \in up /\ sess[n].stage = "blocks" /\ UNCHANGED <<branch, disk, up>>
  BY DEF Shadow!FetchBlocks, Shadow!Stage, Shadow!Store, Shadow!World
<1>2. Underway(sess[n], branch[n])
  BY DEF ShadowInv, Settled
<1>3. /\ sess[n].from \in Nat /\ sess[n].candidate \in Seq(Shadow!Block)
      /\ Same(sess[n].local, branch[n], sess[n].from) /\ Same(sess[n].candidate, sess[n].local, sess[n].from)
  BY <1>1, <1>2 DEF Underway
<1>4. CASE Shadow!Stops(n)
  BY <1>1, <1>4, StopsKeep
<1>5. CASE ~Shadow!Stops(n)
  <2>1. PICK s : /\ s.stage = "adopt" /\ s.from = sess[n].from /\ s.candidate = sess[n].candidate /\ sess' = [sess EXCEPT ![n] = s]
    BY <1>5 DEF Shadow!FetchBlocks, Shadow!To
  <2>2. Same(sess[n].candidate, branch[n], sess[n].from)
    BY <1>3 DEF Same
  <2>3. Underway(s, branch[n])
    BY <1>3, <2>1, <2>2 DEF Underway
  <2> QED BY <1>1, <2>1, <2>3, SessionMoves
<1> QED BY <1>4, <1>5

(* A node that goes to a chain, with what it had read of it or without; all *)
(* the others stay as they are.                                             *)
LEMMA ChainMoves ==
  ASSUME ShadowInv, NEW n \in Nodes, NEW c, Branch(c), branch' = [branch EXCEPT ![n] = c], UNCHANGED <<disk, up>>,
         DOMAIN sess' = Nodes, \A m \in Nodes \ {n} : sess'[m] = sess[m],
         Underway(sess'[n], c), sess'[n].stage = "idle" \/ n \in up
  PROVE  ShadowInv'
<1>1. DOMAIN branch' = Nodes /\ DOMAIN disk' = Nodes /\ DOMAIN sess' = Nodes /\ up' \subseteq Nodes
  BY DEF ShadowInv
<1>2. ASSUME NEW m \in Nodes PROVE Settled(m)'
  <2>1. Settled(m) /\ disk'[m] = disk[m]
    BY DEF ShadowInv
  <2>2. CASE m = n
    <3>1. branch'[m] = c
      BY <2>2 DEF ShadowInv
    <3> QED BY <2>1, <2>2, <3>1 DEF Settled
  <2>3. CASE m # n
    <3>1. branch'[m] = branch[m] /\ sess'[m] = sess[m]
      BY <2>3 DEF ShadowInv
    <3> QED BY <2>1, <3>1 DEF Settled
  <2> QED BY <2>2, <2>3
<1> QED BY <1>1, <1>2 DEF ShadowInv

(* What a change of chain promises.                                         *)
Promised(n) ==
  /\ Shadow!Preferred(branch'[n], branch[n])
  /\ \E k \in Nat : Same(branch'[n], branch[n], k) /\ Shadow!InTime(branch'[n], k + 1, clock[n])
Stays(n) == branch'[n] = branch[n]

LEMMA AdoptKeeps ==
  ASSUME ShadowInv, NEW n \in Nodes, Shadow!Adopt(n)
  PROVE  ShadowInv' /\ \A m \in Nodes : Stays(m) \/ Promised(m)
<1>1. n \in up /\ sess[n].stage = "adopt" /\ Shadow!Stops(n) /\ UNCHANGED <<up, clock, disk>>
  BY DEF Shadow!Adopt, Shadow!Stage, Shadow!Store, Shadow!World
<1>2. Underway(sess[n], branch[n])
  BY DEF ShadowInv, Settled
<1>3. sess[n].from \in Nat /\ sess[n].candidate \in Seq(Shadow!Block) /\ Same(sess[n].candidate, branch[n], sess[n].from)
  BY <1>1, <1>2 DEF Underway
<1>4. CASE UNCHANGED Shadow!Store
  <2>1. UNCHANGED <<branch, disk>>
    BY <1>4 DEF Shadow!Store
  <2> QED BY <1>1, <2>1, StopsKeep DEF Stays
<1>5. CASE ~UNCHANGED Shadow!Store
  <2>1. PICK c : c = sess[n].candidate
    OBVIOUS
  <2>2. /\ Shadow!Preferred(c, branch[n]) /\ Shadow!InTime(c, sess[n].from + 1, clock[n])
        /\ Shadow!StateValid(c, n) /\ branch' = [branch EXCEPT ![n] = c]
    BY <1>5, <2>1 DEF Shadow!Adopt, Shadow!Adoptable
  <2>3. Branch(c)
    BY <1>3, <2>1, <2>2 DEF Branch, Shadow!StateValid
  <2>4. sess' = [sess EXCEPT ![n] = Shadow!NoSync] /\ DOMAIN sess = Nodes /\ DOMAIN branch = Nodes
    BY <1>1 DEF Shadow!Stops, Shadow!To, ShadowInv
  <2>5. DOMAIN sess' = Nodes /\ sess'[n].stage = "idle" /\ \A m \in Nodes \ {n} : sess'[m] = sess[m]
    BY <2>4, NoSyncIsIdle
  <2>6. Underway(sess'[n], c)
    BY <2>5, IdleIsUnderway
  <2>7. ShadowInv'
    BY <1>1, <2>2, <2>3, <2>5, <2>6, ChainMoves
  <2>8. branch'[n] = c /\ \A m \in Nodes \ {n} : branch'[m] = branch[m]
    BY <2>2, <2>4
  <2>9. Promised(n)
    BY <1>3, <2>1, <2>2, <2>8 DEF Promised
  <2> QED BY <2>7, <2>8, <2>9 DEF Stays
<1> QED BY <1>4, <1>5

LEMMA AppendKeeps ==
  ASSUME Shadow!RulesAssumption, Shadow!ShadowAssumption, ShadowInv,
         NEW n \in Nodes, NEW id \in Ids, NEW ts \in Times, Shadow!AppendBlock(n, id, ts)
  PROVE  ShadowInv' /\ \A m \in Nodes : Stays(m) \/ Promised(m)
<1>1. PICK c, b, d : c = branch[n] /\ b = Shadow!Mined(c, id, ts) /\ d = Append(c, b)
  OBVIOUS
<1>2. /\ n \in up /\ Shadow!InTime(d, Len(d), clock[n]) /\ Shadow!StateValid(d, n)
      /\ branch' = [branch EXCEPT ![n] = d] /\ UNCHANGED <<disk, sess, up, clock>>
  BY <1>1 DEF Shadow!AppendBlock, Shadow!Appendable, Shadow!World
<1>3. Branch(c) /\ Underway(sess[n], c) /\ DOMAIN branch = Nodes /\ DOMAIN sess = Nodes
  BY <1>1 DEF ShadowInv, Settled
<1>4. c # <<>> /\ c \in Seq(Shadow!Block) /\ Len(c) \in Nat
  BY <1>3, BranchHasBlocks
<1>5. id \in Nat /\ ts \in Nat
  BY DEF Shadow!ShadowAssumption
<1>6. b \in Shadow!Block
  BY <1>1, <1>4, <1>5, MinedIs
<1>7. d \in Seq(Shadow!Block) /\ Len(d) = Len(c) + 1 /\ \A i \in 1..Len(c) : d[i] = c[i]
  BY <1>1, <1>4, <1>6, AppendProperties
<1>8. Branch(d)
  BY <1>2, <1>7 DEF Branch, Shadow!StateValid
<1>9. Underway(sess'[n], d)
  <2>1. Underway(sess[n], Append(c, b))
    BY <1>3, <1>4, <1>6, UnderwayGrows
  <2> QED BY <1>1, <1>2, <2>1
<1>10. ShadowInv'
  BY <1>2, <1>3, <1>8, <1>9, ChainMoves
<1>11. branch'[n] = d /\ \A m \in Nodes \ {n} : branch'[m] = branch[m]
  BY <1>2, <1>3
<1>12. Promised(n)
  <2>1. Shadow!Preferred(d, c)
    BY <1>1, <1>4, <1>6, ShadowWorkAppend
  <2>2. Same(d, c, Len(c)) /\ Shadow!InTime(d, Len(c) + 1, clock[n])
    BY <1>2, <1>4, <1>7 DEF Same
  <2> QED BY <1>1, <1>4, <1>11, <2>1, <2>2 DEF Promised
<1> QED BY <1>10, <1>11, <1>12 DEF Stays

LEMMA SaveKeeps ==
  ASSUME ShadowInv, NEW n \in Nodes, Shadow!Save(n)
  PROVE  ShadowInv' /\ \A m \in Nodes : Stays(m)
<1>1. disk' = [disk EXCEPT ![n] = branch[n]] /\ UNCHANGED <<branch, sess, up>>
  BY DEF Shadow!Save, Shadow!World
<1>2. ASSUME NEW m \in Nodes PROVE Settled(m)'
  <2>1. Settled(m) /\ (disk'[m] = disk[m] \/ disk'[m] = branch[m])
    BY <1>1 DEF ShadowInv
  <2> QED BY <1>1, <2>1 DEF Settled
<1> QED BY <1>1, <1>2 DEF ShadowInv, Stays

LEMMA StartKeeps ==
  ASSUME ShadowInv, NEW n \in Nodes, Shadow!Start(n)
  PROVE  ShadowInv' /\ \A m \in Nodes : Stays(m) \/ m \notin up
<1>1. n \notin up /\ up' = up \cup {n} /\ branch' = [branch EXCEPT ![n] = disk[n]] /\ UNCHANGED <<disk, sess>>
  BY DEF Shadow!Start
<1>2. ASSUME NEW m \in Nodes PROVE Settled(m)'
  <2>1. Settled(m)
    BY DEF ShadowInv
  <2>2. CASE m = n
    <3>1. branch'[m] = disk[m] /\ sess'[m] = sess[m] /\ disk'[m] = disk[m]
      BY <1>1, <2>2 DEF ShadowInv
    <3> QED BY <1>1, <2>1, <2>2, <3>1, IdleIsUnderway DEF Settled
  <2>3. CASE m # n
    <3>1. branch'[m] = branch[m] /\ sess'[m] = sess[m] /\ disk'[m] = disk[m]
      BY <1>1, <2>3 DEF ShadowInv
    <3> QED BY <1>1, <2>1, <2>3, <3>1 DEF Settled
  <2> QED BY <2>2, <2>3
<1> QED BY <1>1, <1>2 DEF ShadowInv, Stays

LEMMA CrashKeeps ==
  ASSUME ShadowInv, NEW n \in Nodes, Shadow!Crash(n)
  PROVE  ShadowInv' /\ \A m \in Nodes : Stays(m)
<1>1. PICK s : s.stage = "idle" /\ sess' = [sess EXCEPT ![n] = s] /\ up' = up \ {n} /\ UNCHANGED <<branch, disk>>
  BY NoSyncIsIdle DEF Shadow!Crash, Shadow!Stops, Shadow!To
<1>2. Underway(s, branch[n])
  BY <1>1, IdleIsUnderway
<1>3. up' \subseteq up /\ \A m \in Nodes \ {n} : m \in up => m \in up'
  BY <1>1
<1> QED BY <1>1, <1>2, <1>3, SessionMoves DEF Stays

LEMMA ShadowStands ==
  ASSUME ShadowInv, UNCHANGED <<branch, disk, sess, up>>
  PROVE  ShadowInv' /\ \A m \in Nodes : Stays(m)
BY DEF ShadowInv, Settled, Stays

LEMMA ShadowFurther ==
  ASSUME Shadow!RulesAssumption, Shadow!ShadowAssumption, ShadowInv, [Shadow!Next]_(Shadow!vars)
  PROVE  ShadowInv' /\ \A m \in Nodes \cap up : Stays(m) \/ Promised(m)
<1>1. CASE UNCHANGED Shadow!vars
  BY <1>1, ShadowStands DEF Shadow!vars
<1>2. ASSUME NEW n \in Nodes, Shadow!Sync(n)
      PROVE  ShadowInv' /\ \A m \in Nodes \cap up : Stays(m) \/ Promised(m)
  <2>1. CASE Shadow!Adopt(n)
    BY <2>1, AdoptKeeps
  <2>2. CASE Shadow!AskAncestor(n)
    <3>1. branch' = branch
      BY <2>2 DEF Shadow!AskAncestor, Shadow!Store
    <3> QED BY <2>2, <3>1, AskKeeps DEF Stays
  <2>3. CASE Shadow!CheckAncestor(n)
    <3>1. branch' = branch
      BY <2>3 DEF Shadow!CheckAncestor, Shadow!Store
    <3> QED BY <2>3, <3>1, CheckKeeps DEF Stays
  <2>4. CASE Shadow!FetchHeaders(n)
    <3>1. branch' = branch
      BY <2>4 DEF Shadow!FetchHeaders, Shadow!Store
    <3> QED BY <2>4, <3>1, HeadersKeep DEF Stays
  <2>5. CASE Shadow!FetchBlocks(n)
    <3>1. branch' = branch
      BY <2>5 DEF Shadow!FetchBlocks, Shadow!Store
    <3> QED BY <2>5, <3>1, BlocksKeep DEF Stays
  <2> QED BY <1>2, <2>1, <2>2, <2>3, <2>4, <2>5, Zenon DEF Shadow!Sync
<1>3. ASSUME NEW n \in Nodes, NEW p \in Nodes, Shadow!Hello(n, p)
      PROVE  ShadowInv' /\ \A m \in Nodes \cap up : Stays(m) \/ Promised(m)
  <2>1. branch' = branch
    BY <1>3 DEF Shadow!Hello, Shadow!Store
  <2> QED BY <1>3, <2>1, HelloKeeps DEF Stays
<1>4. ASSUME NEW n \in Nodes, NEW id \in Ids, NEW t \in Times, Shadow!AppendBlock(n, id, t)
      PROVE  ShadowInv' /\ \A m \in Nodes \cap up : Stays(m) \/ Promised(m)
  BY <1>4, AppendKeeps
<1>5. ASSUME NEW n \in Nodes, Shadow!Save(n) \/ Shadow!Crash(n)
      PROVE  ShadowInv' /\ \A m \in Nodes \cap up : Stays(m) \/ Promised(m)
  BY <1>5, SaveKeeps, CrashKeeps
<1>6. ASSUME NEW n \in Nodes, Shadow!Start(n)
      PROVE  ShadowInv' /\ \A m \in Nodes \cap up : Stays(m) \/ Promised(m)
  BY <1>6, StartKeeps
<1>7. ASSUME NEW n \in Nodes, Shadow!LoseAnswer(n)
      PROVE  ShadowInv' /\ \A m \in Nodes \cap up : Stays(m) \/ Promised(m)
  <2>1. Shadow!Stops(n) /\ UNCHANGED <<branch, disk, up>>
    BY <1>7 DEF Shadow!LoseAnswer, Shadow!Store
  <2> QED BY <2>1, StopsKeep DEF Stays
<1>8. ASSUME NEW n \in Nodes, Shadow!SaveFails(n) \/ Shadow!Tick(n) \/ \E t \in Times : Shadow!SetClock(n, t)
      PROVE  ShadowInv' /\ \A m \in Nodes \cap up : Stays(m) \/ Promised(m)
  <2>1. UNCHANGED <<branch, disk, sess, up>>
    BY <1>8 DEF Shadow!SaveFails, Shadow!Tick, Shadow!SetClock, Shadow!Store
  <2> QED BY <2>1, ShadowStands
<1> QED BY <1>1, <1>2, <1>3, <1>4, <1>5, <1>6, <1>7, <1>8, Zenon DEF Shadow!Next

LEMMA ShadowSets ==
  ASSUME NEW S
  PROVE  Shadow!Cardinality(S) = Cardinality(S)
BY DEF Shadow!Cardinality, Cardinality, Shadow!IsFiniteSet, IsFiniteSet

LEMMA EarlyIsLater ==
  ASSUME NEW c \in Seq(Shadow!Block), NEW d \in Seq(Shadow!Block), NEW k \in Nat, Same(c, d, k), NEW now, Shadow!InTime(c, k + 1, now)
  PROVE  LET common == {h \in 1..Len(c) : h <= Len(d) /\ c[h] = d[h]}
         IN  Shadow!InTime(c, Shadow!Cardinality(common) + 1, now)
<1> DEFINE common == {h \in 1..Len(c) : h <= Len(d) /\ c[h] = d[h]}
<1>1. Len(c) \in Nat /\ Len(d) \in Nat /\ k <= Len(c) /\ k <= Len(d) /\ \A i \in 1..k : c[i] = d[i]
  BY LenProperties DEF Same
<1>2. 1..k \in SUBSET common /\ common \in SUBSET (1..Len(c))
  BY <1>1
<1> HIDE DEF common
<1>3. IsFiniteSet(1..Len(c)) /\ Cardinality(1..k) = k
  BY <1>1, FS_Interval
<1>4. IsFiniteSet(common)
  BY <1>2, <1>3, FS_Subset
<1>5. Cardinality(common) \in Nat /\ k <= Cardinality(common)
  BY <1>2, <1>3, <1>4, FS_Subset, FS_CardinalityType
<1>6. PICK z : z = Shadow!Cardinality(common) /\ z \in Nat /\ k <= z
  BY <1>5, ShadowSets
<1>7. \A h \in (z + 1)..Len(c) : h \in (k + 1)..Len(c)
  BY <1>1, <1>6
<1>8. Shadow!InTime(c, z + 1, now)
  BY <1>7 DEF Shadow!InTime
<1> QED BY <1>6, <1>8 DEF common

(* Nodes that sync headers first, across the activation: a node can always  *)
(* be started from what it has written, and while it runs it only goes to   *)
(* a chain it prefers to the one it has at that moment, and takes over no   *)
(* block that is early by the clock of that moment; whatever answers are    *)
(* lost, clocks set back, writes failed and blocks appended between the     *)
(* stages of a sync.                                                        *)
THEOREM ShadowNodesSound ==
  ASSUME Shadow!RulesAssumption, Shadow!ShadowAssumption
  PROVE  Shadow!Spec => []Shadow!StartsAgain /\ [][Shadow!OnlyBetter /\ Shadow!NothingEarly]_(Shadow!vars)
<1>1. Shadow!Init => ShadowInv
  BY ShadowInit
<1>2. ShadowInv /\ [Shadow!Next]_(Shadow!vars) => ShadowInv'
  BY ShadowFurther
<1>3. ShadowInv => Shadow!StartsAgain
  BY DEF ShadowInv, Settled, Branch, Shadow!StateValid, Shadow!StartsAgain
<1>4. ShadowInv /\ [Shadow!Next]_(Shadow!vars) => [Shadow!OnlyBetter /\ Shadow!NothingEarly]_(Shadow!vars)
  <2>1. SUFFICES ASSUME ShadowInv, [Shadow!Next]_(Shadow!vars) PROVE Shadow!OnlyBetter /\ Shadow!NothingEarly
    OBVIOUS
  <2>2. ShadowInv' /\ up \subseteq Nodes /\ \A m \in Nodes \cap up : Stays(m) \/ Promised(m)
    BY <2>1, ShadowFurther DEF ShadowInv
  <2>3. Shadow!OnlyBetter
    BY <2>2 DEF Stays, Promised, Shadow!OnlyBetter
  <2>4. ASSUME NEW n \in up \cap up', branch'[n] # branch[n]
        PROVE  LET common == {h \in 1..Len(branch'[n]) : h <= Len(branch[n]) /\ branch'[n][h] = branch[n][h]}
               IN  Shadow!InTime(branch'[n], Shadow!Cardinality(common) + 1, clock[n])
    <3>1. n \in Nodes /\ Promised(n)
      BY <2>2, <2>4 DEF Stays
    <3>2. PICK c, d, now : c = branch'[n] /\ d = branch[n] /\ now = clock[n]
      OBVIOUS
    <3>3. c \in Seq(Shadow!Block)
      <4>1. Branch(branch[n])'
        BY <2>2, <3>1 DEF ShadowInv, Settled
      <4> QED BY <3>2, <4>1 DEF Branch
    <3>4. d \in Seq(Shadow!Block)
      BY <2>1, <3>1, <3>2 DEF ShadowInv, Settled, Branch
    <3>5. PICK k \in Nat : Same(c, d, k) /\ Shadow!InTime(c, k + 1, now)
      BY <3>1, <3>2 DEF Promised
    <3> QED BY <3>2, <3>3, <3>4, <3>5, EarlyIsLater
  <2>5. Shadow!NothingEarly
    BY <2>4, Zenon DEF Shadow!NothingEarly
  <2> QED BY <2>3, <2>5
<1> QED BY <1>1, <1>2, <1>3, <1>4, PTL DEF Shadow!Spec


(* Outputs and mempool across reorganisations (ReorgState).                 *)
CONSTANTS Txs, Maturity, Reward, Fork, MaxHeight, MaxTxs, Invalid
VARIABLES state, active, pool
Reorgs == INSTANCE ReorgState

(* The module counts and adds as this one does.                             *)
LEMMA ReorgCounts == \A S : Reorgs!Cardinality(S) = Cardinality(S)
BY DEF Reorgs!Cardinality, Cardinality, Reorgs!IsFiniteSet, IsFiniteSet

LEMMA ReorgSums == \A f, S : Reorgs!SumOver(f, S) = SumOver(f, S)
BY Zenon DEF Reorgs!SumOver, SumOver

(* Rows as candidates are: with the number the transaction came with.       *)
Rows == {row \in [tx : Reorgs!Ids, seq : Nat] : Txs[row.tx].seq # 0 => row.seq = Txs[row.tx].seq}
Ahead(rows, x) == {y \in rows : Reorgs!Before(y, x)}

(* Of two rows one is before the other, and what is before it is too.       *)
LEMMA BeforeOrders ==
  ASSUME Reorgs!ReorgAssumption, NEW rows \in SUBSET Rows
  PROVE  /\ \A x \in rows : ~Reorgs!Before(x, x)
         /\ \A x, y \in rows : x # y => Reorgs!Before(x, y) \/ Reorgs!Before(y, x)
         /\ \A x, y, z \in rows : Reorgs!Before(x, y) /\ Reorgs!Before(y, z) => Reorgs!Before(x, z)
<1>1. \A x \in rows : x \in [tx : Nat, seq : Nat]
  BY DEF Rows, Reorgs!ReorgAssumption
<1> QED BY <1>1 DEF Reorgs!Before

(* There are fewer before the first of two.                                 *)
LEMMA RanksOrdered ==
  ASSUME Reorgs!ReorgAssumption, NEW rows \in SUBSET Rows, IsFiniteSet(rows)
  PROVE  /\ \A x \in rows : Cardinality(Ahead(rows, x)) \in 0..(Cardinality(rows) - 1)
         /\ \A x, y \in rows : Reorgs!Before(x, y) => Cardinality(Ahead(rows, x)) < Cardinality(Ahead(rows, y))
<1>0. Cardinality(rows) \in Nat
  BY FS_CardinalityType
<1>1. ASSUME NEW x \in rows PROVE IsFiniteSet(Ahead(rows, x)) /\ Cardinality(Ahead(rows, x)) \in 0..(Cardinality(rows) - 1)
  <2>1. Ahead(rows, x) \in SUBSET rows /\ x \notin Ahead(rows, x)
    BY BeforeOrders DEF Ahead
  <2>2. /\ IsFiniteSet(Ahead(rows, x)) /\ Cardinality(Ahead(rows, x)) <= Cardinality(rows)
        /\ Cardinality(Ahead(rows, x)) # Cardinality(rows)
    BY <2>1, FS_Subset
  <2>3. Cardinality(Ahead(rows, x)) \in Nat
    BY <2>2, FS_CardinalityType
  <2> QED BY <1>0, <2>2, <2>3
<1>2. ASSUME NEW x \in rows, NEW y \in rows, Reorgs!Before(x, y)
      PROVE  Cardinality(Ahead(rows, x)) < Cardinality(Ahead(rows, y))
  <2>1. Ahead(rows, x) \in SUBSET Ahead(rows, y) /\ x \in Ahead(rows, y) /\ x \notin Ahead(rows, x)
    BY <1>2, BeforeOrders DEF Ahead
  <2>2. /\ Cardinality(Ahead(rows, x)) <= Cardinality(Ahead(rows, y))
        /\ Cardinality(Ahead(rows, x)) # Cardinality(Ahead(rows, y))
    BY <1>1, <2>1, FS_Subset
  <2> QED BY <1>1, <2>2
<1> QED BY <1>1, <1>2

(* The rows in order: each is there, and one before another comes first.    *)
LEMMA OrderedFacts ==
  ASSUME Reorgs!ReorgAssumption, NEW rows \in SUBSET Rows, IsFiniteSet(rows)
  PROVE  LET q == Reorgs!Ordered(rows)  n == Cardinality(rows) IN
         /\ n \in Nat /\ q \in [1..n -> rows] /\ Len(q) = n
         /\ \A x \in rows : \E k \in 1..n : x = q[k]
         /\ \A i, j \in 1..n : Reorgs!Before(q[i], q[j]) => i < j
<1> DEFINE q == Reorgs!Ordered(rows)
           n == Cardinality(rows)
           rank == [x \in rows |-> Cardinality(Ahead(rows, x))]
<1>0. n \in Nat
  BY FS_CardinalityType
<1>1. /\ rank \in [rows -> 0..(n - 1)]
      /\ \A x, y \in rows : Reorgs!Before(x, y) => rank[x] < rank[y]
  BY RanksOrdered
<1>2. q = [k \in 1..n |-> CHOOSE x \in rows : rank[x] = k - 1]
  <2>1. q = [k \in 1..n |-> CHOOSE x \in rows : Cardinality(Ahead(rows, x)) = k - 1]
    <3>1. q = [k \in 1..n |-> CHOOSE x \in rows : Reorgs!Cardinality(Ahead(rows, x)) = k - 1]
      BY ReorgCounts, Zenon DEF Reorgs!Ordered, Ahead
    <3>2. ASSUME NEW k PROVE (CHOOSE x \in rows : Reorgs!Cardinality(Ahead(rows, x)) = k - 1) = (CHOOSE x \in rows : Cardinality(Ahead(rows, x)) = k - 1)
      <4>1. \A x : (x \in rows /\ Reorgs!Cardinality(Ahead(rows, x)) = k - 1) <=> (x \in rows /\ Cardinality(Ahead(rows, x)) = k - 1)
        BY ReorgCounts
      <4> QED BY <4>1, Zenon
    <3> QED BY <3>1, <3>2
  <2>2. ASSUME NEW k PROVE (CHOOSE x \in rows : Cardinality(Ahead(rows, x)) = k - 1) = (CHOOSE x \in rows : rank[x] = k - 1)
    <3>1. \A x : (x \in rows /\ Cardinality(Ahead(rows, x)) = k - 1) <=> (x \in rows /\ rank[x] = k - 1)
      OBVIOUS
    <3> QED BY <3>1, Zenon
  <2> QED BY <2>1, <2>2
<1> HIDE DEF rank, q
<1>3. ASSUME NEW x \in rows, NEW y \in rows, rank[x] = rank[y] PROVE x = y
  <2>1. rank[x] \in Nat /\ ~(rank[x] < rank[y]) /\ ~(rank[y] < rank[x])
    BY <1>0, <1>1, <1>3
  <2> QED BY <1>1, <2>1, BeforeOrders
<1>4. ASSUME NEW k \in 0..(n - 1) PROVE \E x \in rows : rank[x] = k
  <2>1. IsFiniteSet(0..(n - 1)) /\ Cardinality(0..(n - 1)) = n
    BY <1>0, FS_Interval
  <2>2. rank \in Injection(rows, 0..(n - 1))
    BY <1>1, <1>3 DEF Injection, IsInjective
  <2>3. rank \in Surjection(rows, 0..(n - 1))
    BY <2>1, <2>2, FS_Injection
  <2> QED BY <2>3 DEF Surjection
<1>5. ASSUME NEW k \in 1..n PROVE q[k] \in rows /\ rank[q[k]] = k - 1
  <2>1. k - 1 \in 0..(n - 1)
    BY <1>0
  <2>2. \E x \in rows : rank[x] = k - 1
    BY <1>4, <2>1
  <2>3. q[k] = CHOOSE x \in rows : rank[x] = k - 1
    BY <1>2
  <2> QED BY <2>2, <2>3
<1>6. q \in [1..n -> rows] /\ Len(q) = n
  BY <1>0, <1>2, <1>5
<1>7. ASSUME NEW x \in rows PROVE \E k \in 1..n : x = q[k]
  <2>1. rank[x] + 1 \in 1..n
    BY <1>0, <1>1
  <2>2. q[rank[x] + 1] \in rows /\ rank[q[rank[x] + 1]] = rank[x]
    BY <1>0, <1>1, <1>5, <2>1
  <2> QED BY <1>3, <2>1, <2>2
<1>8. ASSUME NEW i \in 1..n, NEW j \in 1..n, Reorgs!Before(q[i], q[j]) PROVE i < j
  <2>1. rank[q[i]] < rank[q[j]]
    BY <1>1, <1>5, <1>8
  <2> QED BY <1>0, <1>5, <2>1
<1> QED BY <1>0, <1>6, <1>7, <1>8 DEF q

(* What reconcile has accepted after k rows.                                *)
Accepts(A, st, rows, n) ==
    A = [k \in 0..n |->
            IF k = 0 THEN {}
            ELSE A[k - 1] \cup
                 {row \in {rows[k]} : /\ \A j \in 1..(k - 1) : rows[j].tx # row.tx
                                      /\ Reorgs!Acceptable(st, A[k - 1], row.tx)}]

LEMMA AcceptsExists ==
  ASSUME NEW st, NEW rows, NEW n \in Nat
  PROVE  \E A : Accepts(A, st, rows, n)
<1> DEFINE More(k, acc) == acc \cup {row \in {rows[k]} : /\ \A j \in 1..(k - 1) : rows[j].tx # row.tx
                                                         /\ Reorgs!Acceptable(st, acc, row.tx)}
           Is(A, k) == A = [i \in 0..k |-> IF i = 0 THEN {} ELSE More(i, A[i - 1])]
           N == {k \in Nat : \E A : Is(A, k)}
<1> HIDE DEF More
<1>1. 0 \in N
  <2> DEFINE A == [i \in 0..0 |-> {}]
  <2>1. Is(A, 0)
    OBVIOUS
  <2> HIDE DEF Is, A
  <2> QED BY <2>1
<1>2. ASSUME NEW k \in N PROVE k + 1 \in N
  <2>1. k \in Nat /\ \E A : Is(A, k)
    OBVIOUS
  <2>2. PICK A : Is(A, k)
    BY <2>1
  <2> DEFINE B == [i \in 0..(k + 1) |-> IF i <= k THEN A[i] ELSE More(k + 1, A[k])]
  <2>3. B = [i \in 0..(k + 1) |-> B[i]] /\ B[k + 1] = More(k + 1, A[k]) /\ \A i \in 0..k : B[i] = A[i]
    BY <2>1
  <2>4. A = [i \in 0..k |-> IF i = 0 THEN {} ELSE More(i, A[i - 1])]
    BY <2>2
  <2> HIDE DEF B
  <2>5. ASSUME NEW i \in 0..(k + 1) PROVE B[i] = IF i = 0 THEN {} ELSE More(i, B[i - 1])
    <3>1. CASE i <= k
      <4>1. i \in 0..k /\ (i # 0 => i - 1 \in 0..k)
        BY <2>1, <3>1
      <4>2. A[i] = IF i = 0 THEN {} ELSE More(i, A[i - 1])
        BY <2>4, <4>1
      <4> QED BY <2>3, <4>1, <4>2
    <3>2. CASE i = k + 1
      <4>1. i # 0 /\ i - 1 = k /\ k \in 0..k
        BY <2>1, <3>2
      <4> QED BY <2>3, <3>2, <4>1
    <3> QED BY <2>1, <3>1, <3>2
  <2>6. Is(B, k + 1)
    BY <2>3, <2>5
  <2> HIDE DEF Is
  <2> QED BY <2>1, <2>6
<1>3. N = Nat
  <2> HIDE DEF Is
  <2> QED BY <1>1, <1>2, SetInduction
<1>4. PICK A : Is(A, n)
  BY <1>3
<1> QED BY <1>4 DEF Accepts, More

(* Step by step, and what is accepted was there at its turn.                *)
LEMMA ReconcileSteps ==
  ASSUME Reorgs!ReorgAssumption, NEW st, NEW candidates \in SUBSET Rows, IsFiniteSet(candidates)
  PROVE  LET q == Reorgs!Ordered(candidates)  n == Cardinality(candidates) IN
         \E A : Accepts(A, st, q, n) /\ Reorgs!Reconcile(st, candidates) = A[n]
<1> DEFINE q == Reorgs!Ordered(candidates)
           n == Cardinality(candidates)
           B == CHOOSE A : Accepts(A, st, q, n)
<1>1. n \in Nat /\ Len(q) = n
  BY OrderedFacts
<1>2. Accepts(B, st, q, n)
  BY <1>1, AcceptsExists
<1>3. Reorgs!Reconcile(st, candidates) = B[n]
  BY <1>1, Zenon DEF Reorgs!Reconcile, Accepts
<1> QED BY <1>2, <1>3

(* A recorded output, and a state of the chain: what is confirmed spends    *)
(* what there is, and no output is there before its transaction.            *)
Utxo == [amount : Nat, made : Nat, coinbase : BOOLEAN, spent : BOOLEAN]
StateFits(st) ==
    /\ st.height \in Nat /\ st.confirmed \in SUBSET Reorgs!Ids /\ IsFiniteSet(st.confirmed)
    /\ IsFiniteSet(DOMAIN st.utxos) /\ \A o \in DOMAIN st.utxos : st.utxos[o] \in Utxo
    /\ \A t \in Reorgs!Ids : Reorgs!Output(t) \in DOMAIN st.utxos => t \in st.confirmed
    /\ \A t \in st.confirmed : /\ Reorgs!Inputs(t) # {} /\ Txs[t].out <= Reorgs!Paid(t, st.utxos)
                               /\ \A o \in Reorgs!Inputs(t) : o \in DOMAIN st.utxos /\ st.utxos[o].spent

(* A mempool that fits it.                                                  *)
PoolFits(st, rows) ==
    /\ \A x \in rows : x.tx \notin st.confirmed /\ Reorgs!Inputs(x.tx) \subseteq Reorgs!Spendable(st) \cup Reorgs!Outputs(rows)
    /\ \A x, y \in rows : x # y => x.tx # y.tx /\ Reorgs!Inputs(x.tx) \cap Reorgs!Inputs(y.tx) = {}

(* A row that is acceptable leaves one that fits.                           *)
LEMMA AcceptFits ==
  ASSUME NEW st, StateFits(st), NEW rows, PoolFits(st, rows), NEW row,
         Reorgs!Acceptable(st, rows, row.tx), \A x \in rows : x.tx # row.tx
  PROVE  PoolFits(st, rows \cup {row})
<1> DEFINE view == Reorgs!View(st, rows)
           I == Reorgs!Inputs(row.tx)
           more == rows \cup {row}
<1>1. /\ I # {}
      /\ \A o \in I : /\ o \notin Reorgs!Reserved(rows) /\ o \in DOMAIN view /\ ~view[o].spent
                     /\ Reorgs!Mature(view[o], st.height + 1)
  BY DEF Reorgs!Acceptable, Reorgs!Valid
<1>2. view = [o \in DOMAIN st.utxos \cup Reorgs!Outputs(rows) |->
                IF o \in DOMAIN st.utxos THEN st.utxos[o] ELSE Reorgs!MadeBy(o[2], st.height + 1)]
  BY DEF Reorgs!View
<1> HIDE DEF view, I
<1>3. \A o \in I : o \in DOMAIN st.utxos => o \in Reorgs!Spendable(st)
  BY <1>1, <1>2 DEF Reorgs!Spendable
<1>4. I \subseteq Reorgs!Spendable(st) \cup Reorgs!Outputs(rows)
  BY <1>1, <1>2, <1>3
<1>5. row.tx \notin st.confirmed
  <2> SUFFICES ASSUME row.tx \in st.confirmed PROVE FALSE
    OBVIOUS
  <2>1. PICK o \in I : o \in DOMAIN st.utxos /\ st.utxos[o].spent
    BY <1>1 DEF StateFits, I
  <2> QED BY <1>1, <1>2, <2>1
<1>6. \A x \in rows : Reorgs!Inputs(x.tx) \cap I = {}
  BY <1>1 DEF Reorgs!Reserved
<1>7. Reorgs!Outputs(rows) \subseteq Reorgs!Outputs(more)
  BY DEF Reorgs!Outputs
<1>8. ASSUME NEW x \in more
      PROVE  x.tx \notin st.confirmed /\ Reorgs!Inputs(x.tx) \subseteq Reorgs!Spendable(st) \cup Reorgs!Outputs(more)
  <2>1. CASE x \in rows
    BY <1>7, <2>1 DEF PoolFits
  <2>2. CASE x = row
    BY <1>4, <1>5, <1>7, <2>2 DEF I
  <2> QED BY <2>1, <2>2
<1>9. ASSUME NEW x \in more, NEW y \in more, x # y
      PROVE  x.tx # y.tx /\ Reorgs!Inputs(x.tx) \cap Reorgs!Inputs(y.tx) = {}
  <2>1. CASE x \in rows /\ y \in rows
    BY <1>9, <2>1 DEF PoolFits
  <2>2. CASE x \in rows /\ y = row
    BY <1>6, <2>2 DEF I
  <2>3. CASE x = row /\ y \in rows
    BY <1>6, <2>3 DEF I
  <2> QED BY <1>9, <2>1, <2>2, <2>3
<1> QED BY <1>8, <1>9 DEF PoolFits

(* The k-th row is the first of its transaction and acceptable at its turn. *)
Fresh(A, st, q, k) ==
    /\ \A j \in 1..(k - 1) : q[j].tx # q[k].tx
    /\ Reorgs!Acceptable(st, A[k - 1], q[k].tx)

(* What was accepted by the k-th row, in steps.                             *)
Grown(A, st, q, n) ==
    /\ A[0] = {}
    /\ \A k \in 1..n : A[k] = IF Fresh(A, st, q, k) THEN A[k - 1] \cup {q[k]} ELSE A[k - 1]
    /\ \A k \in 0..n : \A i \in 0..k : A[i] \subseteq A[k]
    /\ \A k \in 0..n : \A x \in A[k] : \E i \in 1..k : x = q[i] /\ x \in A[i]

LEMMA AcceptsGrow ==
  ASSUME NEW st, NEW q, NEW n \in Nat, NEW A, Accepts(A, st, q, n)
  PROVE  Grown(A, st, q, n)
<1> DEFINE More(k, acc) == acc \cup {row \in {q[k]} : /\ \A j \in 1..(k - 1) : q[j].tx # row.tx
                                                      /\ Reorgs!Acceptable(st, acc, row.tx)}
<1>0. A = [k \in 0..n |-> IF k = 0 THEN {} ELSE More(k, A[k - 1])]
  BY Zenon DEF Accepts
<1> HIDE DEF More
<1>1. A[0] = {}
  BY <1>0
<1>2. ASSUME NEW k \in 1..n PROVE A[k] = IF Fresh(A, st, q, k) THEN A[k - 1] \cup {q[k]} ELSE A[k - 1]
  <2>1. A[k] = More(k, A[k - 1])
    <3>1. k \in 0..n /\ k # 0
      OBVIOUS
    <3> QED BY <1>0, <3>1, Zenon
  <2>2. More(k, A[k - 1]) = IF Fresh(A, st, q, k) THEN A[k - 1] \cup {q[k]} ELSE A[k - 1]
    <3>1. CASE Fresh(A, st, q, k)
      BY <3>1 DEF More, Fresh
    <3>2. CASE ~Fresh(A, st, q, k)
      BY <3>2 DEF More, Fresh
    <3> QED BY <3>1, <3>2
  <2> QED BY <2>1, <2>2
<1> DEFINE N == {k \in Nat : k <= n => /\ \A i \in 0..k : A[i] \subseteq A[k]
                                     /\ \A x \in A[k] : \E i \in 1..k : x = q[i] /\ x \in A[i]}
<1>3. 0 \in N
  BY <1>1
<1>4. ASSUME NEW k \in N PROVE k + 1 \in N
  <2>1. SUFFICES ASSUME k + 1 <= n
                 PROVE  /\ \A i \in 0..(k + 1) : A[i] \subseteq A[k + 1]
                        /\ \A x \in A[k + 1] : \E i \in 1..(k + 1) : x = q[i] /\ x \in A[i]
    OBVIOUS
  <2>2. /\ k \in Nat /\ k + 1 \in 1..n /\ \A i \in 0..k : A[i] \subseteq A[k]
        /\ \A x \in A[k] : \E i \in 1..k : x = q[i] /\ x \in A[i]
    BY <2>1
  <2> HIDE DEF N
  <2>3. A[k + 1] = IF Fresh(A, st, q, k + 1) THEN A[k] \cup {q[k + 1]} ELSE A[k]
    <3>1. (k + 1) - 1 = k
      BY <2>2
    <3> QED BY <1>2, <2>2, <3>1
  <2>4. ASSUME NEW i \in 0..(k + 1) PROVE A[i] \subseteq A[k + 1]
    <3>1. i \in 0..k \/ i = k + 1
      BY <2>2
    <3> QED BY <2>2, <2>3, <3>1
  <2>5. ASSUME NEW x \in A[k + 1] PROVE \E i \in 1..(k + 1) : x = q[i] /\ x \in A[i]
    <3>1. CASE x \in A[k]
      BY <2>2, <3>1
    <3>2. CASE x \notin A[k]
      BY <2>2, <2>3, <3>2
    <3> QED BY <3>1, <3>2
  <2> QED BY <2>4, <2>5
<1>5. N = Nat
  BY <1>3, <1>4, SetInduction
<1>6. \A k \in 0..n : /\ \A i \in 0..k : A[i] \subseteq A[k]
                      /\ \A x \in A[k] : \E i \in 1..k : x = q[i] /\ x \in A[i]
  BY <1>5
<1> QED BY <1>1, <1>2, <1>6 DEF Grown

(* Reconciling gives a mempool that fits, of the candidates.                *)
LEMMA ReconcileFits ==
  ASSUME Reorgs!ReorgAssumption, NEW st, StateFits(st), NEW candidates \in SUBSET Rows, IsFiniteSet(candidates)
  PROVE  LET rows == Reorgs!Reconcile(st, candidates) IN
         rows \in SUBSET Rows /\ IsFiniteSet(rows) /\ PoolFits(st, rows)
<1> DEFINE q == Reorgs!Ordered(candidates)
           n == Cardinality(candidates)
<1>1. n \in Nat /\ q \in [1..n -> candidates]
  BY OrderedFacts
<1>2. PICK A : Accepts(A, st, q, n) /\ Reorgs!Reconcile(st, candidates) = A[n]
  BY ReconcileSteps
<1> HIDE DEF q, n
<1>3. Grown(A, st, q, n)
  BY <1>1, <1>2, AcceptsGrow
<1> DEFINE N == {k \in Nat : k <= n => PoolFits(st, A[k])}
<1>4. 0 \in N
  BY <1>3 DEF PoolFits, Grown
<1>5. ASSUME NEW k \in N PROVE k + 1 \in N
  <2>1. SUFFICES ASSUME k + 1 <= n PROVE PoolFits(st, A[k + 1])
    OBVIOUS
  <2>2. k \in Nat /\ k \in 0..n /\ k + 1 \in 1..n /\ (k + 1) - 1 = k /\ PoolFits(st, A[k])
    BY <1>1, <2>1
  <2> HIDE DEF N
  <2>3. CASE A[k + 1] = A[k]
    BY <2>2, <2>3
  <2>4. CASE Fresh(A, st, q, k + 1) /\ A[k + 1] = A[k] \cup {q[k + 1]}
    <3>1. (\A j \in 1..k : q[j].tx # q[k + 1].tx) /\ Reorgs!Acceptable(st, A[k], q[k + 1].tx)
      BY <2>2, <2>4 DEF Fresh
    <3>2. \A x \in A[k] : x.tx # q[k + 1].tx
      BY <1>3, <2>2, <3>1 DEF Grown
    <3> QED BY <2>2, <2>4, <3>1, <3>2, AcceptFits
  <2> QED BY <1>3, <2>2, <2>3, <2>4 DEF Grown
<1>6. N = Nat
  BY <1>4, <1>5, SetInduction
<1>7. PoolFits(st, A[n])
  BY <1>1, <1>6
<1>8. A[n] \subseteq candidates
  <2>1. n \in 0..n /\ \A x \in A[n] : \E i \in 1..n : x = q[i]
    BY <1>1, <1>3 DEF Grown
  <2> QED BY <1>1, <2>1
<1> QED BY <1>2, <1>7, <1>8, FS_Subset

(* A transaction whose parents are there already that finds room in a       *)
(* mempool finds it in a smaller one that has these parents.                *)
LEMMA AcceptableBefore ==
  ASSUME NEW st, NEW few, NEW many, few \subseteq many, NEW t, Reorgs!Acceptable(st, many, t),
         \A x \in many : Reorgs!Output(x.tx) \in Reorgs!Inputs(t) => x \in few
  PROVE  Reorgs!Acceptable(st, few, t)
<1> DEFINE vf == Reorgs!View(st, few)
           vm == Reorgs!View(st, many)
           I == Reorgs!Inputs(t)
<1>1. /\ I # {} /\ Reorgs!Cardinality(I) = Reorgs!Len(Txs[t].inputs)
      /\ \A o \in I : /\ o \notin Reorgs!Reserved(many) /\ o \in DOMAIN vm /\ ~vm[o].spent
                     /\ Reorgs!Mature(vm[o], st.height + 1)
      /\ Txs[t].out <= Reorgs!Paid(t, vm)
  BY DEF Reorgs!Acceptable, Reorgs!Valid
<1>2. vf = [o \in DOMAIN st.utxos \cup Reorgs!Outputs(few) |->
                IF o \in DOMAIN st.utxos THEN st.utxos[o] ELSE Reorgs!MadeBy(o[2], st.height + 1)]
  BY DEF Reorgs!View
<1>3. vm = [o \in DOMAIN st.utxos \cup Reorgs!Outputs(many) |->
                IF o \in DOMAIN st.utxos THEN st.utxos[o] ELSE Reorgs!MadeBy(o[2], st.height + 1)]
  BY DEF Reorgs!View
<1>4. ASSUME NEW o \in I PROVE o \in DOMAIN vf /\ vf[o] = vm[o]
  <2>1. o \in DOMAIN st.utxos \/ o \in Reorgs!Outputs(many)
    BY <1>1, <1>3
  <2>2. o \in DOMAIN st.utxos \/ o \in Reorgs!Outputs(few)
    BY <2>1 DEF Reorgs!Outputs
  <2> HIDE DEF vf, vm
  <2> QED BY <1>2, <1>3, <2>1, <2>2
<1>5. Reorgs!Paid(t, vf) = Reorgs!Paid(t, vm)
  <2>1. [o \in I |-> vf[o].amount] = [o \in I |-> vm[o].amount]
    BY <1>4
  <2> HIDE DEF vf, vm
  <2> QED BY <2>1 DEF Reorgs!Paid
<1>6. \A o \in I : o \notin Reorgs!Reserved(few)
  BY <1>1 DEF Reorgs!Reserved
<1> HIDE DEF vf, vm
<1>7. Reorgs!Valid(t, vf, Reorgs!Reserved(few), st.height + 1)
  BY <1>1, <1>4, <1>5, <1>6 DEF Reorgs!Valid
<1> QED BY <1>7 DEF Reorgs!Acceptable, vf

(* What reconciling leaves out finds no room in what it leaves, unless it   *)
(* was looked at before a transaction it spends from.                       *)
LEMMA ReconcileKeeps ==
  ASSUME Reorgs!ReorgAssumption, NEW st, NEW candidates \in SUBSET Rows, IsFiniteSet(candidates),
         NEW row \in candidates, \A x \in Reorgs!Reconcile(st, candidates) : x.tx # row.tx,
         Reorgs!Acceptable(st, Reorgs!Reconcile(st, candidates), row.tx)
  PROVE  \E child \in candidates, parent \in Reorgs!Reconcile(st, candidates) :
            child.tx = row.tx /\ Reorgs!Output(parent.tx) \in Reorgs!Inputs(row.tx) /\ Reorgs!Before(child, parent)
<1> DEFINE q == Reorgs!Ordered(candidates)
           n == Cardinality(candidates)
<1>1. /\ n \in Nat /\ q \in [1..n -> candidates]
      /\ \A x \in candidates : \E k \in 1..n : x = q[k]
      /\ \A i, j \in 1..n : Reorgs!Before(q[i], q[j]) => i < j
  BY OrderedFacts
<1>2. PICK A : Accepts(A, st, q, n) /\ Reorgs!Reconcile(st, candidates) = A[n]
  BY ReconcileSteps
<1> HIDE DEF q, n
<1>3. Grown(A, st, q, n)
  BY <1>1, <1>2, AcceptsGrow
<1>4. PICK k \in 1..n : q[k].tx = row.tx /\ \A j \in 1..n : q[j].tx = row.tx => k <= j
  <2> DEFINE S == {j \in 1..n : q[j].tx = row.tx}
  <2>1. S \in SUBSET Nat /\ S # {}
    BY <1>1
  <2>2. \E m \in S : \A j \in S : m <= j
    BY <2>1, LeastElement
  <2> QED BY <2>2
<1>5. SUFFICES ASSUME \A x \in A[n] : Reorgs!Output(x.tx) \in Reorgs!Inputs(row.tx) => ~Reorgs!Before(q[k], x)
               PROVE  FALSE
  BY <1>1, <1>2, <1>4
<1>6. k \in Nat /\ k - 1 \in 0..n /\ k \in 0..n /\ n \in 0..n /\ k - 1 \in 0..n /\ k \in 0..n
  BY <1>1
<1>7. A[k - 1] \subseteq A[n] /\ A[k] \subseteq A[n]
  BY <1>1, <1>3, <1>6 DEF Grown
<1>8. ASSUME NEW x \in A[n], Reorgs!Output(x.tx) \in Reorgs!Inputs(row.tx) PROVE x \in A[k - 1]
  <2>1. PICK i \in 1..n : x = q[i] /\ x \in A[i]
    BY <1>3, <1>6 DEF Grown
  <2>2. q[i] \in Rows /\ q[k] \in Rows
    BY <1>1
  <2>3. q[i].tx \in Nat /\ q[k].tx \in Nat /\ q[i].seq \in Nat /\ q[k].seq \in Nat /\ q[i].tx # q[k].tx
    BY <1>2, <1>4, <1>8, <2>1, <2>2 DEF Rows, Reorgs!ReorgAssumption
  <2>4. ~Reorgs!Before(q[k], q[i])
    BY <1>5, <1>8, <2>1
  <2>5. Reorgs!Before(q[i], q[k])
    BY <2>3, <2>4 DEF Reorgs!Before
  <2>7. i < k
    BY <1>1, <2>5
  <2>8. i \in 0..(k - 1)
    BY <1>6, <2>7
  <2> QED BY <1>3, <1>6, <2>1, <2>8 DEF Grown
<1>9. Reorgs!Acceptable(st, A[k - 1], row.tx)
  BY <1>2, <1>7, <1>8, AcceptableBefore
<1>10. \A j \in 1..(k - 1) : q[j].tx # q[k].tx
  <2>1. \A j \in 1..(k - 1) : j \in 1..n /\ ~(k <= j)
    BY <1>1, <1>6
  <2> QED BY <1>4, <2>1
<1>11. q[k] \in A[k]
  <2>1. Fresh(A, st, q, k)
    BY <1>4, <1>9, <1>10 DEF Fresh
  <2>2. A[k] = A[k - 1] \cup {q[k]}
    BY <1>3, <2>1 DEF Grown
  <2> QED BY <2>2
<1> QED BY <1>2, <1>4, <1>7, <1>11

(* The sum of zeros.                                                        *)
LEMMA SumOverZero ==
  ASSUME NEW S, IsFiniteSet(S), NEW f, \A x \in S : f[x] = 0
  PROVE  SumOver(f, S) = 0
<1> DEFINE Good == {T \in SUBSET S : SumOver(f, T) = 0}
<1>1. {} \in Good
  BY FS_EmptySet, SumOverPick
<1>2. ASSUME NEW T \in SUBSET S, NEW y \in T, T \ {y} \in Good PROVE T \in Good
  <2>1. SumOver(f, T) = f[y] + SumOver(f, T \ {y})
    <3>1. IsFiniteSet(T)
      BY FS_Subset
    <3>2. \A x \in T : f[x] \in Nat
      OBVIOUS
    <3> QED BY <3>1, <3>2, SumOverRemove
  <2> QED BY <1>2, <2>1
<1>3. S \in Good
  <2>1. Good \in SUBSET SUBSET S /\ {} \in Good
    BY <1>1
  <2>2. \A T \in SUBSET S : \A y \in T : T \ {y} \in Good => T \in Good
    BY <1>2
  <2> HIDE DEF Good
  <2> QED BY <2>1, <2>2, SubsetInduction
<1> QED BY <1>3

(* A payment is worth what its inputs are, a natural.                       *)
LEMMA PaidIsNat ==
  ASSUME NEW t, NEW view, IsFiniteSet(Reorgs!Inputs(t)), \A o \in Reorgs!Inputs(t) : view[o].amount \in Nat
  PROVE  /\ Reorgs!Paid(t, view) \in Nat
         /\ Reorgs!Paid(t, view) = SumOver([o \in Reorgs!Inputs(t) |-> view[o].amount], Reorgs!Inputs(t))
<1>1. Reorgs!Paid(t, view) = SumOver([o \in Reorgs!Inputs(t) |-> view[o].amount], Reorgs!Inputs(t))
  BY ReorgSums, Zenon DEF Reorgs!Paid
<1>2. SumOver([o \in Reorgs!Inputs(t) |-> view[o].amount], Reorgs!Inputs(t)) \in Nat
  BY SumOverNat
<1> QED BY <1>1, <1>2

(* What is unspent, and what the fees are, in sums of this module.          *)
Left(st) == [o \in DOMAIN st.utxos |-> IF st.utxos[o].spent THEN 0 ELSE st.utxos[o].amount]
Fee(st) == [t \in st.confirmed |-> Reorgs!Paid(t, st.utxos) - Txs[t].out]

LEMMA WorthInSums ==
  ASSUME Reorgs!ReorgAssumption, NEW st, StateFits(st)
  PROVE  /\ Reorgs!Unspent(st) = SumOver(Left(st), DOMAIN st.utxos) /\ Reorgs!Fees(st) = SumOver(Fee(st), st.confirmed)
         /\ \A o \in DOMAIN st.utxos : Left(st)[o] \in Nat
         /\ \A t \in st.confirmed : Fee(st)[t] \in Nat
         /\ Reorgs!Unspent(st) \in Nat /\ Reorgs!Fees(st) \in Nat
<1>1. Reorgs!Unspent(st) = SumOver(Left(st), DOMAIN st.utxos)
  BY ReorgSums, Zenon DEF Reorgs!Unspent, Left
<1>2. Reorgs!Fees(st) = SumOver(Fee(st), st.confirmed)
  BY ReorgSums, Zenon DEF Reorgs!Fees, Fee
<1>3. \A o \in DOMAIN st.utxos : Left(st)[o] \in Nat
  BY DEF StateFits, Utxo, Left
<1>4. ASSUME NEW t \in st.confirmed PROVE Fee(st)[t] \in Nat
  <2>1. Reorgs!Inputs(t) \in SUBSET DOMAIN st.utxos /\ Txs[t].out <= Reorgs!Paid(t, st.utxos) /\ Txs[t].out \in Nat
    BY DEF StateFits, Reorgs!ReorgAssumption
  <2>2. IsFiniteSet(Reorgs!Inputs(t)) /\ \A o \in Reorgs!Inputs(t) : st.utxos[o].amount \in Nat
    BY <2>1, FS_Subset DEF StateFits, Utxo
  <2>3. Reorgs!Paid(t, st.utxos) \in Nat
    BY <2>2, PaidIsNat
  <2>4. Fee(st)[t] = Reorgs!Paid(t, st.utxos) - Txs[t].out
    BY DEF Fee
  <2> QED BY <2>1, <2>3, <2>4
<1>5. SumOver(Left(st), DOMAIN st.utxos) \in Nat
  BY <1>3, SumOverNat DEF StateFits
<1>6. SumOver(Fee(st), st.confirmed) \in Nat
  BY <1>4, SumOverNat DEF StateFits
<1> QED BY <1>1, <1>2, <1>3, <1>4, <1>5, <1>6

(* A later state of a chain: the outputs are there, of the same worth.      *)
Grows(st, later) ==
    \A o \in DOMAIN st.utxos : /\ o \in DOMAIN later.utxos /\ later.utxos[o].amount = st.utxos[o].amount
                               /\ later.utxos[o].made = st.utxos[o].made /\ later.utxos[o].coinbase = st.utxos[o].coinbase
Worth(st) == Reorgs!Unspent(st) + Reorgs!Fees(st)

(* A confirmed transaction is worth the same there.                         *)
LEMMA PaidStays ==
  ASSUME NEW st, NEW later, Grows(st, later), NEW t, Reorgs!Inputs(t) \subseteq DOMAIN st.utxos
  PROVE  Reorgs!Paid(t, later.utxos) = Reorgs!Paid(t, st.utxos)
<1>1. [o \in Reorgs!Inputs(t) |-> later.utxos[o].amount] = [o \in Reorgs!Inputs(t) |-> st.utxos[o].amount]
  BY DEF Grows
<1> QED BY <1>1 DEF Reorgs!Paid

(* An output once it is spent.                                              *)
LEMMA SpentRecord ==
  ASSUME NEW u \in Utxo, NEW p, NEW S, NEW v, v = [u EXCEPT !.spent = @ \/ p \in S]
  PROVE  /\ v \in Utxo /\ (v.spent <=> (u.spent \/ p \in S))
         /\ v.amount = u.amount /\ v.made = u.made /\ v.coinbase = u.coinbase
BY DEF Utxo

(* Spending takes from what is unspent what it makes and its fee.           *)
LEMMA SpendKeeps ==
  ASSUME Reorgs!ReorgAssumption, NEW st, StateFits(st), NEW t \in Reorgs!Ids, t \notin st.confirmed,
         Reorgs!Valid(t, st.utxos, {}, st.height),
         NEW next, next.height = st.height, next.utxos = Reorgs!Spend(st, t), next.confirmed = st.confirmed \cup {t}
  PROVE  StateFits(next) /\ Grows(st, next) /\ Worth(next) = Worth(st) /\ next.height = st.height
<1> DEFINE D == DOMAIN st.utxos
           I == Reorgs!Inputs(t)
           o == Reorgs!Output(t)
<1>1. /\ I # {} /\ I \subseteq D /\ \A p \in I : ~st.utxos[p].spent
      /\ Txs[t].out <= Reorgs!Paid(t, st.utxos)
  BY DEF Reorgs!Valid
<1>2. o \notin D /\ IsFiniteSet(D) /\ \A p \in D : st.utxos[p] \in Utxo
  BY DEF StateFits
<1>3. next.height = st.height /\ next.confirmed = st.confirmed \cup {t} /\ next.utxos = Reorgs!Spend(st, t)
  OBVIOUS
<1>d. /\ DOMAIN next.utxos = D \cup {o} /\ next.utxos[o] = Reorgs!MadeBy(t, st.height)
      /\ \A p \in D : next.utxos[p] = [st.utxos[p] EXCEPT !.spent = @ \/ p \in I]
  BY <1>2, <1>3 DEF Reorgs!Spend
<1> HIDE DEF o
<1>4. ASSUME NEW p \in D
      PROVE  /\ next.utxos[p] \in Utxo /\ (next.utxos[p].spent <=> (st.utxos[p].spent \/ p \in I))
             /\ next.utxos[p].amount = st.utxos[p].amount /\ next.utxos[p].made = st.utxos[p].made
             /\ next.utxos[p].coinbase = st.utxos[p].coinbase
  <2>1. st.utxos[p] \in Utxo
    BY <1>2
  <2>2. next.utxos[p] = [st.utxos[p] EXCEPT !.spent = @ \/ p \in I]
    BY <1>d
  <2> QED BY <2>1, <2>2, SpentRecord
<1>5. Txs[t].out \in Nat
  BY DEF Reorgs!ReorgAssumption
<1>6. Reorgs!MadeBy(t, st.height) \in Utxo /\ Reorgs!MadeBy(t, st.height).amount = Txs[t].out /\ ~Reorgs!MadeBy(t, st.height).spent
  BY <1>5 DEF Reorgs!MadeBy, StateFits, Utxo
<1>7. Grows(st, next)
  BY <1>4, <1>d DEF Grows
<1>8. \A p \in DOMAIN next.utxos : next.utxos[p] \in Utxo
  BY <1>4, <1>d, <1>6
<1>9. \A u \in next.confirmed : \A p \in Reorgs!Inputs(u) : p \in DOMAIN next.utxos /\ next.utxos[p].spent
  BY <1>1, <1>3, <1>4, <1>d DEF StateFits
<1>10. \A u \in st.confirmed : Reorgs!Inputs(u) \subseteq D
  BY DEF StateFits
<1>11. \A u \in next.confirmed : Reorgs!Paid(u, next.utxos) = Reorgs!Paid(u, st.utxos)
  BY <1>1, <1>3, <1>7, <1>10, PaidStays
<1>12. StateFits(next)
  <2>1. IsFiniteSet(next.confirmed) /\ IsFiniteSet(DOMAIN next.utxos) /\ next.confirmed \in SUBSET Reorgs!Ids
    BY <1>3, <1>d, FS_AddElement DEF StateFits
  <2>2. ASSUME NEW u \in Reorgs!Ids, Reorgs!Output(u) \in DOMAIN next.utxos PROVE u \in next.confirmed
    BY <1>3, <1>d, <2>2 DEF StateFits, Reorgs!Output, o
  <2>3. \A u \in next.confirmed : Reorgs!Inputs(u) # {} /\ Txs[u].out <= Reorgs!Paid(u, next.utxos)
    BY <1>1, <1>3, <1>11 DEF StateFits
  <2> QED BY <1>3, <1>8, <1>9, <2>1, <2>2, <2>3 DEF StateFits
<1>13. IsFiniteSet(I) /\ \A p \in I : st.utxos[p].amount \in Nat
  BY <1>1, <1>2, FS_Subset DEF Utxo
<1>14. Reorgs!Paid(t, st.utxos) \in Nat /\ Reorgs!Paid(t, st.utxos) = SumOver([p \in I |-> st.utxos[p].amount], I)
  BY <1>13, PaidIsNat
<1>15. Reorgs!Unspent(next) = Reorgs!Unspent(st) - Reorgs!Paid(t, st.utxos) + Txs[t].out
  <2>1. /\ Reorgs!Unspent(st) = SumOver(Left(st), D) /\ \A p \in D : Left(st)[p] \in Nat
    BY WorthInSums
  <2>2. /\ Reorgs!Unspent(next) = SumOver(Left(next), D \cup {o}) /\ \A p \in D \cup {o} : Left(next)[p] \in Nat
    BY <1>d, <1>12, WorthInSums
  <2>3. /\ Left(next)[o] = Txs[t].out
        /\ \A p \in D \ I : Left(next)[p] = Left(st)[p]
        /\ \A p \in I : Left(next)[p] = 0 /\ Left(st)[p] = st.utxos[p].amount
    BY <1>1, <1>2, <1>4, <1>d, <1>6 DEF Left, Utxo
  <2>4. SumOver(Left(next), D \cup {o}) = Txs[t].out + SumOver(Left(next), D)
    <3>1. \A p \in D \cup {o} : Left(next)[p] \in Nat
      BY <2>2
    <3>2. SumOver(Left(next), D \cup {o}) = Left(next)[o] + SumOver(Left(next), D)
      BY <1>2, <3>1, SumOverAdd
    <3> QED BY <2>3, <3>2
  <2>5. IsFiniteSet(D \ I) /\ (D \ I) \cap I = {} /\ (D \ I) \cup I = D
    BY <1>1, <1>2, FS_Subset
  <2>6. SumOver(Left(next), D) = SumOver(Left(next), D \ I) + SumOver(Left(next), I)
    <3>1. \A p \in (D \ I) \cup I : Left(next)[p] \in Nat
      BY <2>2, <2>5
    <3>2. SumOver(Left(next), (D \ I) \cup I) = SumOver(Left(next), D \ I) + SumOver(Left(next), I)
      BY <1>13, <2>5, <3>1, SumOverUnion
    <3> QED BY <2>5, <3>2
  <2>7. SumOver(Left(st), D) = SumOver(Left(st), D \ I) + SumOver(Left(st), I)
    <3>1. \A p \in (D \ I) \cup I : Left(st)[p] \in Nat
      BY <2>1, <2>5
    <3>2. SumOver(Left(st), (D \ I) \cup I) = SumOver(Left(st), D \ I) + SumOver(Left(st), I)
      BY <1>13, <2>5, <3>1, SumOverUnion
    <3> QED BY <2>5, <3>2
  <2>8. SumOver(Left(next), D \ I) = SumOver(Left(st), D \ I)
    BY <2>3, <2>5, SumOverSame
  <2>9. SumOver(Left(next), I) = 0
    BY <1>13, <2>3, SumOverZero
  <2>10. SumOver(Left(st), I) = Reorgs!Paid(t, st.utxos)
    <3>1. \A p \in I : Left(st)[p] = [x \in I |-> st.utxos[x].amount][p]
      BY <2>3
    <3>2. SumOver(Left(st), I) = SumOver([p \in I |-> st.utxos[p].amount], I)
      BY <1>13, <3>1, SumOverSame
    <3> QED BY <1>14, <3>2
  <2>11. SumOver(Left(st), D \ I) \in Nat
    <3>1. \A p \in D \ I : Left(st)[p] \in Nat
      BY <2>1
    <3> QED BY <2>5, <3>1, SumOverNat
  <2> QED BY <1>5, <1>14, <2>1, <2>2, <2>4, <2>6, <2>7, <2>8, <2>9, <2>10, <2>11
<1>16. Reorgs!Fees(next) = Reorgs!Fees(st) + Reorgs!Paid(t, st.utxos) - Txs[t].out
  <2>1. Reorgs!Fees(st) = SumOver(Fee(st), st.confirmed) /\ Reorgs!Fees(st) \in Nat
    BY WorthInSums
  <2>2. /\ Reorgs!Fees(next) = SumOver(Fee(next), st.confirmed \cup {t})
        /\ \A u \in st.confirmed \cup {t} : Fee(next)[u] \in Nat
    BY <1>3, <1>12, WorthInSums
  <2>3. Fee(next)[t] = Reorgs!Paid(t, st.utxos) - Txs[t].out /\ \A u \in st.confirmed : Fee(next)[u] = Fee(st)[u]
    BY <1>3, <1>11 DEF Fee
  <2>4. IsFiniteSet(st.confirmed)
    BY DEF StateFits
  <2>5. SumOver(Fee(next), st.confirmed \cup {t}) = Fee(next)[t] + SumOver(Fee(next), st.confirmed)
    BY <2>2, <2>4, SumOverAdd
  <2>6. SumOver(Fee(next), st.confirmed) = SumOver(Fee(st), st.confirmed)
    BY <2>3, <2>4, SumOverSame
  <2> QED BY <1>5, <1>14, <2>1, <2>2, <2>3, <2>5, <2>6
<1>17. Reorgs!Unspent(st) \in Nat /\ Reorgs!Fees(st) \in Nat
  BY WorthInSums
<1>18. Worth(next) = Worth(st)
  BY <1>5, <1>14, <1>15, <1>16, <1>17 DEF Worth
<1> QED BY <1>3, <1>7, <1>12, <1>18

(* What connecting a block gives after k of its transactions.               *)
Raised(st) == [height |-> st.height + 1, utxos |-> st.utxos, confirmed |-> st.confirmed]
Connects(C, st, txs, n) ==
    C = [k \in 0..n |->
            IF k = 0 THEN [height |-> st.height + 1, utxos |-> st.utxos, confirmed |-> st.confirmed]
            ELSE Reorgs!ConnectTx(C[k - 1], txs[k])]

LEMMA ConnectsExists ==
  ASSUME NEW st, NEW txs, NEW n \in Nat
  PROVE  \E C : Connects(C, st, txs, n)
<1> DEFINE Is(C, k) == C = [i \in 0..k |-> IF i = 0 THEN Raised(st) ELSE Reorgs!ConnectTx(C[i - 1], txs[i])]
           N == {k \in Nat : \E C : Is(C, k)}
<1>1. 0 \in N
  <2> DEFINE C == [i \in 0..0 |-> Raised(st)]
  <2>1. Is(C, 0)
    OBVIOUS
  <2> HIDE DEF Is, C
  <2> QED BY <2>1
<1>2. ASSUME NEW k \in N PROVE k + 1 \in N
  <2>1. k \in Nat /\ \E C : Is(C, k)
    OBVIOUS
  <2>2. PICK C : Is(C, k)
    BY <2>1
  <2> DEFINE B == [i \in 0..(k + 1) |-> IF i <= k THEN C[i] ELSE Reorgs!ConnectTx(C[k], txs[k + 1])]
  <2>3. B = [i \in 0..(k + 1) |-> B[i]] /\ B[k + 1] = Reorgs!ConnectTx(C[k], txs[k + 1]) /\ \A i \in 0..k : B[i] = C[i]
    BY <2>1
  <2>4. C = [i \in 0..k |-> IF i = 0 THEN Raised(st) ELSE Reorgs!ConnectTx(C[i - 1], txs[i])]
    BY <2>2
  <2> HIDE DEF B
  <2>5. ASSUME NEW i \in 0..(k + 1) PROVE B[i] = IF i = 0 THEN Raised(st) ELSE Reorgs!ConnectTx(B[i - 1], txs[i])
    <3>1. CASE i <= k
      <4>1. i \in 0..k /\ (i # 0 => i - 1 \in 0..k)
        BY <2>1, <3>1
      <4>2. C[i] = IF i = 0 THEN Raised(st) ELSE Reorgs!ConnectTx(C[i - 1], txs[i])
        BY <2>4, <4>1
      <4> QED BY <2>3, <4>1, <4>2
    <3>2. CASE i = k + 1
      <4>1. i # 0 /\ i - 1 = k /\ k \in 0..k
        BY <2>1, <3>2
      <4> QED BY <2>3, <3>2, <4>1
    <3> QED BY <2>1, <3>1, <3>2
  <2>6. Is(B, k + 1)
    BY <2>3, <2>5
  <2> HIDE DEF Is
  <2> QED BY <2>1, <2>6
<1>3. N = Nat
  <2> HIDE DEF Is
  <2> QED BY <1>1, <1>2, SetInduction
<1>4. PICK C : Is(C, n)
  BY <1>3
<1> QED BY <1>4 DEF Connects, Raised

(* Connecting in steps: one transaction after the other, then the coinbase. *)
LEMMA ConnectSteps ==
  ASSUME NEW st, NEW on, NEW txs, Len(txs) \in Nat, Reorgs!Connect(st, on, txs) # Invalid
  PROVE  \E C : /\ C[0] = Raised(st)
                /\ \A k \in 1..Len(txs) : C[k] = Reorgs!ConnectTx(C[k - 1], txs[k])
                /\ C[Len(txs)] # Invalid /\ <<on, st.height + 1>> \notin DOMAIN C[Len(txs)].utxos
                /\ Reorgs!Connect(st, on, txs) = [height |-> C[Len(txs)].height,
                                                 utxos |-> Reorgs!Coinbase(C[Len(txs)], <<on, st.height + 1>>),
                                                 confirmed |-> C[Len(txs)].confirmed]
<1> DEFINE n == Len(txs)
           B == CHOOSE C : Connects(C, st, txs, n)
           o == <<on, st.height + 1>>
<1>1. Connects(B, st, txs, n)
  BY ConnectsExists
<1>2. Reorgs!Connect(st, on, txs) =
        IF B[n] = Invalid THEN Invalid
        ELSE IF o \in DOMAIN B[n].utxos THEN Invalid
        ELSE [height |-> B[n].height, utxos |-> Reorgs!Coinbase(B[n], o), confirmed |-> B[n].confirmed]
  BY Zenon DEF Reorgs!Connect, Connects
<1> HIDE DEF B
<1>3. B[0] = Raised(st)
  <2>1. 0 \in 0..n
    OBVIOUS
  <2> QED BY <1>1, <2>1, Zenon DEF Connects, Raised
<1>4. ASSUME NEW k \in 1..n PROVE B[k] = Reorgs!ConnectTx(B[k - 1], txs[k])
  <2>1. k \in 0..n /\ k # 0
    OBVIOUS
  <2> QED BY <1>1, <2>1, Zenon DEF Connects
<1>5. B[n] # Invalid /\ o \notin DOMAIN B[n].utxos
  BY <1>2
<1>6. Reorgs!Connect(st, on, txs) = [height |-> B[n].height, utxos |-> Reorgs!Coinbase(B[n], o), confirmed |-> B[n].confirmed]
  BY <1>2, <1>5
<1> QED BY <1>3, <1>4, <1>5, <1>6

(* Only the height changes before the first transaction.                    *)
LEMMA RaisedFits ==
  ASSUME NEW st, StateFits(st)
  PROVE  StateFits(Raised(st)) /\ Grows(st, Raised(st)) /\ Worth(Raised(st)) = Worth(st) /\ Raised(st).height = st.height + 1
<1>1. Raised(st).height = st.height + 1 /\ Raised(st).utxos = st.utxos /\ Raised(st).confirmed = st.confirmed
  BY DEF Raised
<1>2. StateFits(Raised(st))
  <2>1. Raised(st).height \in Nat
    BY <1>1 DEF StateFits
  <2> QED BY <1>1, <2>1 DEF StateFits
<1>3. Worth(Raised(st)) = Worth(st)
  BY <1>1 DEF Worth, Reorgs!Unspent, Reorgs!Fees
<1> QED BY <1>1, <1>2, <1>3 DEF Grows

(* The output of a coinbase.                                                *)
LEMMA CoinbaseRecord ==
  ASSUME NEW r \in Nat, NEW h \in Nat, NEW u, u = [amount |-> r, made |-> h, coinbase |-> TRUE, spent |-> FALSE]
  PROVE  u \in Utxo /\ u.amount = r /\ ~u.spent
BY DEF Utxo

(* The coinbase is an output more, of the reward.                           *)
LEMMA CoinbaseFits ==
  ASSUME Reorgs!ReorgAssumption, NEW st, StateFits(st), NEW on, on # "tx", NEW h, <<on, h>> \notin DOMAIN st.utxos,
         NEW next, next.height = st.height, next.utxos = Reorgs!Coinbase(st, <<on, h>>), next.confirmed = st.confirmed
  PROVE  StateFits(next) /\ Grows(st, next) /\ Worth(next) = Worth(st) + Reward
<1> DEFINE D == DOMAIN st.utxos
           o == <<on, h>>
<1>1. /\ DOMAIN next.utxos = D \cup {o} /\ \A p \in D : next.utxos[p] = st.utxos[p]
      /\ next.utxos[o] = [amount |-> Reward, made |-> st.height, coinbase |-> TRUE, spent |-> FALSE]
  BY DEF Reorgs!Coinbase
<1>2. Reward \in Nat /\ st.height \in Nat /\ IsFiniteSet(D) /\ IsFiniteSet(st.confirmed)
  BY DEF Reorgs!ReorgAssumption, StateFits
<1>3. next.utxos[o] \in Utxo /\ next.utxos[o].amount = Reward /\ ~next.utxos[o].spent
  BY <1>1, <1>2, CoinbaseRecord
<1>4. \A t : Reorgs!Output(t) # o
  BY DEF Reorgs!Output
<1> HIDE DEF o
<1>5. Grows(st, next)
  BY <1>1 DEF Grows
<1>6. \A t \in st.confirmed : Reorgs!Inputs(t) \subseteq D
  BY DEF StateFits
<1>7. \A t \in st.confirmed : Reorgs!Paid(t, next.utxos) = Reorgs!Paid(t, st.utxos)
  BY <1>5, <1>6, PaidStays
<1>8. StateFits(next)
  <2>1. IsFiniteSet(DOMAIN next.utxos)
    BY <1>1, <1>2, FS_AddElement
  <2>2. \A p \in DOMAIN next.utxos : next.utxos[p] \in Utxo
    BY <1>1, <1>3 DEF StateFits
  <2>3. \A t \in Reorgs!Ids : Reorgs!Output(t) \in DOMAIN next.utxos => t \in next.confirmed
    BY <1>1, <1>4 DEF StateFits
  <2>4. \A t \in next.confirmed : /\ Reorgs!Inputs(t) # {} /\ Txs[t].out <= Reorgs!Paid(t, next.utxos)
                                  /\ \A p \in Reorgs!Inputs(t) : p \in DOMAIN next.utxos /\ next.utxos[p].spent
    BY <1>1, <1>7 DEF StateFits
  <2> QED BY <1>2, <2>1, <2>2, <2>3, <2>4 DEF StateFits
<1>9. Reorgs!Unspent(next) = Reward + Reorgs!Unspent(st)
  <2>1. Reorgs!Unspent(st) = SumOver(Left(st), D) /\ \A p \in D : Left(st)[p] \in Nat
    BY WorthInSums
  <2>2. Reorgs!Unspent(next) = SumOver(Left(next), D \cup {o}) /\ \A p \in D \cup {o} : Left(next)[p] \in Nat
    BY <1>1, <1>8, WorthInSums
  <2>3. Left(next)[o] = Reward /\ \A p \in D : Left(next)[p] = Left(st)[p]
    BY <1>1, <1>3 DEF Left
  <2>4. o \notin D
    BY DEF o
  <2>5. SumOver(Left(next), D \cup {o}) = Left(next)[o] + SumOver(Left(next), D)
    BY <1>2, <2>2, <2>4, SumOverAdd
  <2>6. SumOver(Left(next), D) = SumOver(Left(st), D)
    BY <1>2, <2>3, SumOverSame
  <2> QED BY <2>1, <2>2, <2>3, <2>5, <2>6
<1>10. Reorgs!Fees(next) = Reorgs!Fees(st)
  <2>1. Reorgs!Fees(st) = SumOver(Fee(st), st.confirmed)
    BY WorthInSums
  <2>2. Reorgs!Fees(next) = SumOver(Fee(next), st.confirmed)
    BY <1>8, WorthInSums
  <2>3. \A t \in st.confirmed : Fee(next)[t] = Fee(st)[t]
    BY <1>7 DEF Fee
  <2>4. SumOver(Fee(next), st.confirmed) = SumOver(Fee(st), st.confirmed)
    BY <1>2, <2>3, SumOverSame
  <2> QED BY <2>1, <2>2, <2>4
<1>11. Reorgs!Unspent(st) \in Nat /\ Reorgs!Fees(st) \in Nat
  BY WorthInSums
<1> QED BY <1>2, <1>5, <1>8, <1>9, <1>10, <1>11 DEF Worth

LEMMA GrowsFurther ==
  ASSUME NEW x, NEW y, NEW z, Grows(x, y), Grows(y, z)
  PROVE  Grows(x, z)
BY DEF Grows

(* A block that connects leaves a state that fits, worth the reward more.   *)
LEMMA ConnectFits ==
  ASSUME Reorgs!ReorgAssumption, NEW st, StateFits(st), NEW on, on # "tx", NEW txs \in Seq(Reorgs!Ids),
         Reorgs!Connect(st, on, txs) # Invalid
  PROVE  LET next == Reorgs!Connect(st, on, txs) IN
         StateFits(next) /\ Grows(st, next) /\ Worth(next) = Worth(st) + Reward /\ next.height = st.height + 1
<1> DEFINE n == Len(txs)
<1>1. PICK C : /\ C[0] = Raised(st)
               /\ \A k \in 1..n : C[k] = Reorgs!ConnectTx(C[k - 1], txs[k])
               /\ C[n] # Invalid /\ <<on, st.height + 1>> \notin DOMAIN C[n].utxos
               /\ Reorgs!Connect(st, on, txs) = [height |-> C[n].height,
                                                utxos |-> Reorgs!Coinbase(C[n], <<on, st.height + 1>>),
                                                confirmed |-> C[n].confirmed]
  BY ConnectSteps
<1> DEFINE Ok(x) == StateFits(x) /\ Grows(st, x) /\ Worth(x) = Worth(st) /\ x.height = st.height + 1
           N == {k \in Nat : k <= n => C[k] = Invalid \/ Ok(C[k])}
<1>2. 0 \in N
  BY <1>1, RaisedFits
<1>3. ASSUME NEW k \in N PROVE k + 1 \in N
  <2>1. SUFFICES ASSUME k + 1 <= n, C[k + 1] # Invalid PROVE Ok(C[k + 1])
    OBVIOUS
  <2>2. k \in Nat /\ k + 1 \in 1..n /\ (k + 1) - 1 = k /\ (C[k] = Invalid \/ Ok(C[k]))
    BY <2>1
  <2> HIDE DEF N, Ok
  <2>3. C[k + 1] = Reorgs!ConnectTx(C[k], txs[k + 1])
    BY <1>1, <2>2
  <2>4. /\ C[k] # Invalid /\ txs[k + 1] \notin C[k].confirmed
        /\ Reorgs!Valid(txs[k + 1], C[k].utxos, {}, C[k].height)
        /\ C[k + 1] = [height |-> C[k].height, utxos |-> Reorgs!Spend(C[k], txs[k + 1]),
                       confirmed |-> C[k].confirmed \cup {txs[k + 1]}]
    BY <2>1, <2>3 DEF Reorgs!ConnectTx
  <2>5. /\ C[k + 1].height = C[k].height /\ C[k + 1].utxos = Reorgs!Spend(C[k], txs[k + 1])
        /\ C[k + 1].confirmed = C[k].confirmed \cup {txs[k + 1]}
    BY <2>4
  <2>6. StateFits(C[k]) /\ Grows(st, C[k]) /\ Worth(C[k]) = Worth(st) /\ C[k].height = st.height + 1
    BY <2>2, <2>4 DEF Ok
  <2>7. txs[k + 1] \in Reorgs!Ids
    BY <2>2
  <2>8. StateFits(C[k + 1]) /\ Grows(C[k], C[k + 1]) /\ Worth(C[k + 1]) = Worth(C[k]) /\ C[k + 1].height = C[k].height
    BY <2>4, <2>5, <2>6, <2>7, SpendKeeps
  <2> QED BY <2>6, <2>8, GrowsFurther DEF Ok
<1>4. N = Nat
  BY <1>2, <1>3, SetInduction
<1>5. Ok(C[n])
  BY <1>1, <1>4
<1> DEFINE next == Reorgs!Connect(st, on, txs)
<1>6. next.height = C[n].height /\ next.utxos = Reorgs!Coinbase(C[n], <<on, st.height + 1>>) /\ next.confirmed = C[n].confirmed
  BY <1>1
<1> HIDE DEF next
<1>7. StateFits(next) /\ Grows(C[n], next) /\ Worth(next) = Worth(C[n]) + Reward
  <2>1. PICK c : c = C[n]
    OBVIOUS
  <2>2. StateFits(c) /\ <<on, st.height + 1>> \notin DOMAIN c.utxos
    BY <1>1, <1>5, <2>1
  <2>3. next.height = c.height /\ next.utxos = Reorgs!Coinbase(c, <<on, st.height + 1>>) /\ next.confirmed = c.confirmed
    BY <1>6, <2>1
  <2>4. StateFits(next) /\ Grows(c, next) /\ Worth(next) = Worth(c) + Reward
    BY <2>2, <2>3, CoinbaseFits
  <2> QED BY <2>1, <2>4
<1>8. Grows(st, next)
  BY <1>5, <1>7, GrowsFurther
<1> QED BY <1>5, <1>6, <1>7, <1>8 DEF next

(* The inductive invariant: the states of both branches fit and are worth   *)
(* their coinbases, they are one until the fork, and the pool fits the      *)
(* branch the node is on.                                                   *)
StatesFit ==
    /\ state = [b \in Reorgs!Branches |-> state[b]]
    /\ \A b \in Reorgs!Branches : StateFits(state[b]) /\ Worth(state[b]) = state[b].height * Reward /\ state[b].height <= MaxHeight
    /\ (\E b \in Reorgs!Branches : state[b].height < Fork) => state["a"] = state["b"]
ReorgInv ==
    /\ StatesFit /\ branch \in [Reorgs!Branches -> Seq(Reorgs!Ids)] /\ active \in Reorgs!Branches
    /\ pool \in SUBSET Rows /\ IsFiniteSet(pool) /\ PoolFits(state[active], pool)

LEMMA ReorgInit ==
  ASSUME Reorgs!ReorgAssumption, Reorgs!Init
  PROVE  ReorgInv
<1> DEFINE st == Reorgs!Empty
<1>1. st.height = 0 /\ st.confirmed = {} /\ DOMAIN st.utxos = {}
  BY DEF Reorgs!Empty
<1> HIDE DEF st
<1>2. StateFits(st)
  BY <1>1, FS_EmptySet DEF StateFits
<1>3. Worth(st) = 0
  <2>1. SumOver(Left(st), DOMAIN st.utxos) = 0 /\ SumOver(Fee(st), st.confirmed) = 0
    BY <1>1, FS_EmptySet, SumOverPick
  <2>2. Reorgs!Unspent(st) = 0 /\ Reorgs!Fees(st) = 0
    BY <1>2, <2>1, WorthInSums
  <2> QED BY <2>2 DEF Worth
<1>4. 0 = 0 * Reward /\ 0 <= MaxHeight
  BY DEF Reorgs!ReorgAssumption
<1>5. StatesFit
  BY <1>1, <1>2, <1>3, <1>4 DEF StatesFit, Reorgs!Init, Reorgs!Branches, st
<1>6. PoolFits(state[active], {})
  BY DEF PoolFits
<1>7. branch \in [Reorgs!Branches -> Seq(Reorgs!Ids)] /\ active \in Reorgs!Branches /\ pool = {}
  BY DEF Reorgs!Init, Reorgs!Branches
<1> QED BY <1>5, <1>6, <1>7, FS_EmptySet DEF ReorgInv

(* Contents of a block are a sequence of transactions.                      *)
LEMMA ContentsAreTxs ==
  ASSUME NEW txs \in Reorgs!Contents
  PROVE  txs \in Seq(Reorgs!Ids)
BY DEF Reorgs!Contents

(* A row made for a transaction, and the rows of what a branch loses.       *)
LEMMA RowsAreMade ==
  ASSUME Reorgs!ReorgAssumption, NEW t \in Reorgs!Ids, NEW k \in Nat
  PROVE  Reorgs!Row(t, k) \in Rows
<1>1. Txs[t].seq \in Nat
  BY DEF Reorgs!ReorgAssumption
<1> QED BY <1>1 DEF Reorgs!Row, Rows

LEMMA DisconnectedRows ==
  ASSUME Reorgs!ReorgAssumption, NEW old \in Reorgs!Branches, NEW new \in Reorgs!Branches,
         branch \in [Reorgs!Branches -> Seq(Reorgs!Ids)]
  PROVE  Reorgs!Disconnected(old, new) \in SUBSET Rows /\ IsFiniteSet(Reorgs!Disconnected(old, new))
<1> DEFINE K == Reorgs!Detached(old, new)
           row == [k \in K |-> Reorgs!Row(branch[old][k], Reorgs!Cardinality(K \cap 1..k))]
           R == Reorgs!Disconnected(old, new)
<1>1. branch[old] \in Seq(Reorgs!Ids)
  OBVIOUS
<1>2. K \in SUBSET (1..Len(branch[old])) /\ IsFiniteSet(1..Len(branch[old]))
  BY <1>1, FS_Interval DEF Reorgs!Detached
<1>3. IsFiniteSet(K) /\ \A k \in K : branch[old][k] \in Reorgs!Ids
  BY <1>1, <1>2, FS_Subset
<1>4. R = {row[k] : k \in K}
  BY DEF Reorgs!Disconnected
<1>5. ASSUME NEW k \in K PROVE row[k] \in Rows
  <2>1. Reorgs!Cardinality(K \cap 1..k) \in Nat
    BY <1>3, FS_Intersection, FS_CardinalityType, ReorgCounts
  <2> QED BY <1>3, <2>1, RowsAreMade
<1> HIDE DEF row, R, K
<1>6. row \in Surjection(K, R)
  <2>1. row \in [K -> R]
    BY <1>4 DEF row
  <2> QED BY <1>4, <2>1 DEF Surjection
<1>7. IsFiniteSet(R)
  BY <1>3, <1>6, FS_Surjection
<1> QED BY <1>4, <1>5, <1>7 DEF R

(* What could be spent still can, or has been.                              *)
LEMMA SpendableStays ==
  ASSUME Reorgs!ReorgAssumption, NEW st, StateFits(st), NEW next, StateFits(next), Grows(st, next),
         next.height = st.height \/ next.height = st.height + 1, NEW o \in Reorgs!Spendable(st)
  PROVE  o \in Reorgs!Spendable(next) \/ next.utxos[o].spent
<1>1. o \in DOMAIN st.utxos /\ Reorgs!Mature(st.utxos[o], st.height + 1)
  BY DEF Reorgs!Spendable
<1>2. /\ o \in DOMAIN next.utxos /\ next.utxos[o].made = st.utxos[o].made
      /\ next.utxos[o].coinbase = st.utxos[o].coinbase
  BY <1>1 DEF Grows
<1>3. st.height \in Nat /\ next.height \in Nat /\ st.utxos[o].made \in Nat /\ Maturity \in Nat
  BY <1>1 DEF StateFits, Utxo, Reorgs!ReorgAssumption
<1>4. Reorgs!Mature(next.utxos[o], next.height + 1)
  BY <1>1, <1>2, <1>3 DEF Reorgs!Mature
<1> QED BY <1>2, <1>4 DEF Reorgs!Spendable

(* What a step does to the state of a branch.                               *)
Advances(b) ==
    /\ StateFits(state'[b]) /\ Grows(state[b], state'[b])
    /\ state'[b].height = state[b].height \/ state'[b].height = state[b].height + 1

LEMMA OneMoreReward ==
  ASSUME Reorgs!ReorgAssumption, NEW h \in Nat, NEW w, w = h * Reward
  PROVE  w + Reward = (h + 1) * Reward
BY DEF Reorgs!ReorgAssumption

LEMMA SameStates ==
  ASSUME StatesFit, UNCHANGED state
  PROVE  StatesFit' /\ \A b \in Reorgs!Branches : Advances(b)
<1>1. StatesFit'
  BY DEF StatesFit, Worth, Reorgs!Unspent, Reorgs!Fees, StateFits, Reorgs!Paid, Reorgs!Inputs
<1> QED BY <1>1 DEF StatesFit, Advances, Grows

(* A block that extends one state: what it is then.                         *)
LEMMA ConnectAdvances ==
  ASSUME Reorgs!ReorgAssumption, StatesFit, NEW b \in Reorgs!Branches, NEW on, on # "tx", NEW txs \in Reorgs!Contents,
         Reorgs!Connect(state[b], on, txs) # Invalid, state[b].height < MaxHeight
  PROVE  LET next == Reorgs!Connect(state[b], on, txs) IN
         /\ StateFits(next) /\ Grows(state[b], next) /\ next.height = state[b].height + 1
         /\ Worth(next) = next.height * Reward /\ next.height <= MaxHeight
<1> DEFINE st == state[b]
           next == Reorgs!Connect(state[b], on, txs)
<1>1. StateFits(st) /\ Worth(st) = st.height * Reward /\ st.height \in Nat /\ MaxHeight \in Nat
  BY DEF StatesFit, StateFits, Reorgs!ReorgAssumption
<1>2. txs \in Seq(Reorgs!Ids)
  BY ContentsAreTxs
<1>3. StateFits(next) /\ Grows(st, next) /\ Worth(next) = Worth(st) + Reward /\ next.height = st.height + 1
  BY <1>1, <1>2, ConnectFits
<1> HIDE DEF st, next
<1>4. Worth(next) = next.height * Reward
  BY <1>1, <1>3, OneMoreReward
<1>5. next.height <= MaxHeight
  BY <1>1, <1>3 DEF st
<1> QED BY <1>3, <1>4, <1>5 DEF st, next

LEMMA PrefixStates ==
  ASSUME Reorgs!ReorgAssumption, StatesFit, NEW txs \in Reorgs!Contents, Reorgs!MinePrefix(txs)
  PROVE  StatesFit' /\ \A b \in Reorgs!Branches : Advances(b)
<1> DEFINE next == Reorgs!Connect(state["a"], "prefix", txs)
<1>1. /\ state["a"].height < Fork /\ next # Invalid
      /\ state' = [b \in Reorgs!Branches |-> Reorgs!Connect(state[b], "prefix", txs)]
  BY DEF Reorgs!MinePrefix
<1>2. state["a"] = state["b"] /\ "a" \in Reorgs!Branches /\ \A b \in Reorgs!Branches : b = "a" \/ b = "b"
  BY <1>1 DEF StatesFit, Reorgs!Branches
<1>3. state["a"].height < MaxHeight
  BY <1>1, <1>2 DEF Reorgs!ReorgAssumption, StatesFit, StateFits
<1>4. /\ StateFits(next) /\ Grows(state["a"], next) /\ next.height = state["a"].height + 1
      /\ Worth(next) = next.height * Reward /\ next.height <= MaxHeight
  BY <1>1, <1>2, <1>3, ConnectAdvances
<1> HIDE DEF next
<1>5. \A b \in Reorgs!Branches : state[b] = state["a"] /\ state'[b] = next
  BY <1>1, <1>2 DEF next
<1>6. state' = [b \in Reorgs!Branches |-> state'[b]]
  BY <1>1
<1>7. \A b \in Reorgs!Branches : Advances(b)
  BY <1>4, <1>5 DEF Advances
<1>8. state'["a"] = state'["b"]
  BY <1>5 DEF Reorgs!Branches
<1>9. \A b \in Reorgs!Branches : StateFits(state'[b]) /\ Worth(state'[b]) = state'[b].height * Reward /\ state'[b].height <= MaxHeight
  BY <1>4, <1>5
<1>10. StatesFit'
  BY <1>6, <1>8, <1>9 DEF StatesFit, Worth, Reorgs!Unspent, Reorgs!Fees, StateFits, Reorgs!Paid
<1> QED BY <1>7, <1>10

LEMMA BranchStates ==
  ASSUME Reorgs!ReorgAssumption, StatesFit, NEW b \in Reorgs!Branches, NEW txs \in Reorgs!Contents, Reorgs!Mine(b, txs)
  PROVE  StatesFit' /\ \A c \in Reorgs!Branches : Advances(c)
<1> DEFINE next == Reorgs!Connect(state[b], b, txs)
<1>1. /\ state[b].height \in Fork..(MaxHeight - 1) /\ next # Invalid
      /\ state' = [state EXCEPT ![b] = next]
  BY DEF Reorgs!Mine
<1>2. /\ \A c \in Reorgs!Branches : /\ StateFits(state[c]) /\ Worth(state[c]) = state[c].height * Reward
                                    /\ state[c].height <= MaxHeight /\ state[c].height \in Nat
      /\ state = [c \in Reorgs!Branches |-> state[c]] /\ Fork \in Nat /\ MaxHeight \in Nat
      /\ (\E c \in Reorgs!Branches : state[c].height < Fork) => state["a"] = state["b"]
      /\ b # "tx" /\ \A c \in Reorgs!Branches : c = "a" \/ c = "b"
  BY DEF StatesFit, StateFits, Reorgs!ReorgAssumption, Reorgs!Branches
<1>3. /\ StateFits(next) /\ Grows(state[b], next) /\ next.height = state[b].height + 1
      /\ Worth(next) = next.height * Reward /\ next.height <= MaxHeight
  BY <1>1, <1>2, ConnectAdvances
<1> HIDE DEF next
<1>4. state'[b] = next /\ (\A c \in Reorgs!Branches : c # b => state'[c] = state[c]) /\ state' = [c \in Reorgs!Branches |-> state'[c]]
  BY <1>1, <1>2
<1>5. \A c \in Reorgs!Branches : Advances(c)
  BY <1>2, <1>3, <1>4 DEF Advances, Grows
<1>6. \A c \in Reorgs!Branches : state[c].height >= Fork
  BY <1>1, <1>2 DEF Reorgs!Branches
<1>7. ~\E c \in Reorgs!Branches : state'[c].height < Fork
  <2>1. ASSUME NEW c \in Reorgs!Branches PROVE ~(state'[c].height < Fork)
    <3>1. CASE c = b
      BY <1>1, <1>2, <1>3, <1>4, <3>1
    <3>2. CASE c # b
      BY <1>2, <1>4, <1>6, <3>2
    <3> QED BY <3>1, <3>2
  <2> QED BY <2>1
<1>8. \A c \in Reorgs!Branches : StateFits(state'[c]) /\ Worth(state'[c]) = state'[c].height * Reward /\ state'[c].height <= MaxHeight
  BY <1>2, <1>3, <1>4
<1>9. StatesFit'
  BY <1>4, <1>7, <1>8 DEF StatesFit, Worth, Reorgs!Unspent, Reorgs!Fees, StateFits, Reorgs!Paid
<1> QED BY <1>5, <1>9

(* Every step keeps the invariant and only advances the branches.           *)
LEMMA ReorgStep ==
  ASSUME Reorgs!ReorgAssumption, ReorgInv, [Reorgs!Next]_(Reorgs!vars)
  PROVE  ReorgInv' /\ \A b \in Reorgs!Branches : Advances(b)
<1>0. /\ StatesFit /\ branch \in [Reorgs!Branches -> Seq(Reorgs!Ids)] /\ active \in Reorgs!Branches
      /\ pool \in SUBSET Rows /\ IsFiniteSet(pool) /\ PoolFits(state[active], pool)
      /\ \A b \in Reorgs!Branches : StateFits(state[b])
  BY DEF ReorgInv, StatesFit
<1>1. ASSUME NEW t \in Reorgs!Ids, Reorgs!Submit(t) PROVE ReorgInv' /\ \A b \in Reorgs!Branches : Advances(b)
  <2> DEFINE row == Reorgs!Row(t, Reorgs!Cardinality(pool) + 1)
  <2>1. pool' = Reorgs!Reconcile(state[active], pool \cup {row}) /\ UNCHANGED <<state, branch, active>>
    BY <1>1 DEF Reorgs!Submit
  <2>2. Reorgs!Cardinality(pool) + 1 \in Nat
    BY <1>0, ReorgCounts, FS_CardinalityType
  <2>3. row \in Rows
    BY <2>2, RowsAreMade
  <2> HIDE DEF row
  <2>4. pool \cup {row} \in SUBSET Rows /\ IsFiniteSet(pool \cup {row})
    BY <1>0, <2>3, FS_AddElement
  <2>5. pool' \in SUBSET Rows /\ IsFiniteSet(pool') /\ PoolFits(state[active], pool')
    BY <1>0, <2>1, <2>4, ReconcileFits
  <2>6. StatesFit' /\ \A b \in Reorgs!Branches : Advances(b)
    BY <1>0, <2>1, SameStates
  <2> QED BY <1>0, <2>1, <2>5, <2>6 DEF ReorgInv, PoolFits, Reorgs!Spendable, Reorgs!Outputs, Reorgs!Mature
<1>2. ASSUME NEW txs \in Reorgs!Contents, Reorgs!MinePrefix(txs) PROVE ReorgInv' /\ \A b \in Reorgs!Branches : Advances(b)
  <2>1. StatesFit' /\ \A b \in Reorgs!Branches : Advances(b)
    BY <1>0, <1>2, PrefixStates
  <2>2. pool' = Reorgs!Reconcile(state'[active], pool) /\ UNCHANGED <<branch, active>>
    BY <1>2 DEF Reorgs!MinePrefix
  <2>3. StateFits(state'[active])
    BY <1>0, <2>1 DEF Advances
  <2>4. pool' \in SUBSET Rows /\ IsFiniteSet(pool') /\ PoolFits(state'[active], pool')
    BY <1>0, <2>2, <2>3, ReconcileFits
  <2> QED BY <1>0, <2>1, <2>2, <2>4 DEF ReorgInv, PoolFits, Reorgs!Spendable, Reorgs!Outputs, Reorgs!Mature
<1>3. ASSUME NEW b \in Reorgs!Branches, NEW txs \in Reorgs!Contents, Reorgs!Mine(b, txs)
      PROVE  ReorgInv' /\ \A c \in Reorgs!Branches : Advances(c)
  <2>1. StatesFit' /\ \A c \in Reorgs!Branches : Advances(c)
    BY <1>0, <1>3, BranchStates
  <2>2. /\ pool' = (IF b = active THEN Reorgs!Reconcile(state'[b], pool) ELSE pool)
        /\ branch' = [branch EXCEPT ![b] = @ \o txs] /\ UNCHANGED active
        /\ \A c \in Reorgs!Branches : c # b => state'[c] = state[c]
    BY <1>3 DEF Reorgs!Mine, ReorgInv, StatesFit
  <2>3. StateFits(state'[b])
    BY <2>1 DEF Advances
  <2>4. txs \in Seq(Reorgs!Ids)
    BY ContentsAreTxs
  <2>5. branch' \in [Reorgs!Branches -> Seq(Reorgs!Ids)]
    BY <1>0, <2>2, <2>4
  <2>6. pool' \in SUBSET Rows /\ IsFiniteSet(pool') /\ PoolFits(state'[active], pool')
    <3>1. CASE b = active
      BY <1>0, <2>2, <2>3, <3>1, ReconcileFits
    <3>2. CASE b # active
      BY <1>0, <2>2, <3>2
    <3> QED BY <3>1, <3>2
  <2> QED BY <1>0, <2>1, <2>2, <2>5, <2>6 DEF ReorgInv, PoolFits, Reorgs!Spendable, Reorgs!Outputs, Reorgs!Mature
<1>4. ASSUME NEW new \in Reorgs!Branches, Reorgs!Reorg(new) PROVE ReorgInv' /\ \A b \in Reorgs!Branches : Advances(b)
  <2>1. /\ active' = new /\ UNCHANGED <<state, branch>>
        /\ pool' = Reorgs!Reconcile(state[new], pool \cup Reorgs!Disconnected(active, new))
    BY <1>4 DEF Reorgs!Reorg, Reorgs!ReorgMempool, Reorgs!Candidates
  <2>2. Reorgs!Disconnected(active, new) \in SUBSET Rows /\ IsFiniteSet(Reorgs!Disconnected(active, new))
    BY <1>0, DisconnectedRows
  <2>3. pool \cup Reorgs!Disconnected(active, new) \in SUBSET Rows /\ IsFiniteSet(pool \cup Reorgs!Disconnected(active, new))
    BY <1>0, <2>2, FS_Union
  <2>4. pool' \in SUBSET Rows /\ IsFiniteSet(pool') /\ PoolFits(state[new], pool')
    BY <1>0, <2>1, <2>3, ReconcileFits
  <2>5. StatesFit' /\ \A b \in Reorgs!Branches : Advances(b)
    BY <1>0, <2>1, SameStates
  <2> QED BY <1>0, <2>1, <2>4, <2>5 DEF ReorgInv, PoolFits, Reorgs!Spendable, Reorgs!Outputs, Reorgs!Mature
<1>5. ASSUME UNCHANGED Reorgs!vars PROVE ReorgInv' /\ \A b \in Reorgs!Branches : Advances(b)
  <2>1. UNCHANGED <<state, branch, active, pool>>
    BY <1>5 DEF Reorgs!vars
  <2>2. StatesFit' /\ \A b \in Reorgs!Branches : Advances(b)
    BY <1>0, <2>1, SameStates
  <2> QED BY <1>0, <2>1, <2>2 DEF ReorgInv, PoolFits, Reorgs!Spendable, Reorgs!Outputs, Reorgs!Mature
<1> QED BY <1>1, <1>2, <1>3, <1>4, <1>5 DEF Reorgs!Next

(* What the invariant says of the pool and of the coins.                    *)
LEMMA ReorgInvImplies ==
  ASSUME Reorgs!ReorgAssumption, ReorgInv
  PROVE  Reorgs!TypeOK /\ Reorgs!PoolSound /\ Reorgs!Conserved
<1>1. StatesFit /\ pool \in SUBSET Rows /\ PoolFits(state[active], pool) /\ active \in Reorgs!Branches
  BY DEF ReorgInv
<1>2. Reorgs!TypeOK
  <2>1. DOMAIN state = Reorgs!Branches /\ MaxHeight \in Nat
    BY <1>1 DEF StatesFit, Reorgs!ReorgAssumption
  <2>2. \A b \in Reorgs!Branches : state[b].height \in 0..MaxHeight /\ state[b].confirmed \subseteq Reorgs!Ids
    BY <1>1, <2>1 DEF StatesFit, StateFits
  <2>3. pool \subseteq [tx : Reorgs!Ids, seq : Nat]
    BY <1>1 DEF Rows
  <2> QED BY <2>1, <2>2, <2>3 DEF ReorgInv, Reorgs!TypeOK
<1>3. Reorgs!PoolSound
  BY <1>1 DEF PoolFits, Reorgs!PoolSound
<1>4. Reorgs!Conserved
  <2>1. ASSUME NEW b \in Reorgs!Branches
        PROVE  Reorgs!Unspent(state[b]) + Reorgs!Fees(state[b]) = state[b].height * Reward /\ Reorgs!Fees(state[b]) >= 0
    <3>1. StateFits(state[b]) /\ Worth(state[b]) = state[b].height * Reward
      BY <1>1 DEF StatesFit
    <3>2. Reorgs!Fees(state[b]) \in Nat
      BY <3>1, WorthInSums
    <3> QED BY <3>1, <3>2 DEF Worth
  <2> QED BY <2>1 DEF Reorgs!Conserved
<1> QED BY <1>2, <1>3, <1>4

(* Whatever blocks are mined on the two branches and however the tip moves  *)
(* between them: what is pending can go into the next blocks, nothing is    *)
(* spent twice or comes from nowhere, and the activation takes no output    *)
(* away from who could spend it.                                            *)
THEOREM ReorgsSound ==
  ASSUME Reorgs!ReorgAssumption
  PROVE  Reorgs!Spec => [](Reorgs!PoolSound /\ Reorgs!Conserved) /\ [][Reorgs!StaysSpendable]_(Reorgs!vars)
<1>1. Reorgs!Init => ReorgInv
  BY ReorgInit
<1>2. ReorgInv /\ [Reorgs!Next]_(Reorgs!vars) => ReorgInv'
  BY ReorgStep
<1>3. ReorgInv => Reorgs!PoolSound /\ Reorgs!Conserved
  BY ReorgInvImplies
<1>4. ReorgInv /\ [Reorgs!Next]_(Reorgs!vars) => [Reorgs!StaysSpendable]_(Reorgs!vars)
  <2>1. SUFFICES ASSUME ReorgInv, [Reorgs!Next]_(Reorgs!vars) PROVE Reorgs!StaysSpendable
    OBVIOUS
  <2>2. \A b \in Reorgs!Branches : Advances(b) /\ StateFits(state[b])
    BY <2>1, ReorgStep DEF ReorgInv, StatesFit
  <2>3. ASSUME NEW b \in Reorgs!Branches, NEW o \in Reorgs!Spendable(state[b])
        PROVE  o \in Reorgs!Spendable(state'[b]) \/ state'[b].utxos[o].spent
    BY <2>2, <2>3, SpendableStays DEF Advances
  <2> QED BY <2>3 DEF Reorgs!StaysSpendable
<1> QED BY <1>1, <1>2, <1>3, <1>4, PTL DEF Reorgs!Spec

(* A reorganisation drops no pending or disconnected transaction that the   *)
(* mempool it leaves could still take, but one that is looked at before a   *)
(* transaction it spends from.                                              *)
THEOREM ReorgsDropNothing ==
  ASSUME Reorgs!ReorgAssumption
  PROVE  Reorgs!Spec => [][Reorgs!NothingNeedless]_(Reorgs!vars)
<1>1. Reorgs!Init => ReorgInv
  BY ReorgInit
<1>2. ReorgInv /\ [Reorgs!Next]_(Reorgs!vars) => ReorgInv'
  BY ReorgStep
<1>3. ReorgInv /\ [Reorgs!Next]_(Reorgs!vars) => [Reorgs!NothingNeedless]_(Reorgs!vars)
  <2>1. SUFFICES ASSUME ReorgInv, [Reorgs!Next]_(Reorgs!vars), active' # active PROVE Reorgs!NothingNeedless
    BY DEF Reorgs!NothingNeedless
  <2>2. PICK new \in Reorgs!Branches : Reorgs!Reorg(new)
    BY <2>1 DEF Reorgs!Next, Reorgs!Submit, Reorgs!MinePrefix, Reorgs!Mine, Reorgs!vars
  <2> DEFINE candidates == pool \cup Reorgs!Disconnected(active, new)
  <2>3. active' = new /\ pool' = Reorgs!Reconcile(state[new], candidates)
    BY <2>2 DEF Reorgs!Reorg, Reorgs!ReorgMempool, Reorgs!Candidates
  <2>4. Reorgs!Disconnected(active, new) \in SUBSET Rows /\ IsFiniteSet(Reorgs!Disconnected(active, new))
    BY <2>1, DisconnectedRows DEF ReorgInv
  <2>5. candidates \in SUBSET Rows /\ IsFiniteSet(candidates)
    BY <2>1, <2>4, FS_Union DEF ReorgInv
  <2> HIDE DEF candidates
  <2>6. ASSUME NEW row \in candidates, \A x \in pool' : x.tx # row.tx, Reorgs!Acceptable(state[new], pool', row.tx)
        PROVE  Reorgs!BeforeParent(row.tx, candidates)
    BY <2>3, <2>5, <2>6, ReconcileKeeps DEF Reorgs!BeforeParent
  <2>7. Reorgs!Candidates(active, active') = candidates /\ state[active'] = state[new]
    BY <2>3 DEF candidates, Reorgs!Candidates
  <2> HIDE DEF candidates
  <2> QED BY <2>6, <2>7 DEF Reorgs!NothingNeedless
<1> QED BY <1>1, <1>2, <1>3, PTL DEF Reorgs!Spec


(* The older nodes and their explorer (LegacyNode, Explorer).               *)
CONSTANTS None, Miner, MaxTxsPerBlock, MaxCrashes, MaxFailures, Server, Routes, PageLimit, MaxOpens
VARIABLES file, syncing, told, crashes, failures, hash, asked, pane, opens
Legacy == INSTANCE Explorer

(* What Omit has kept up to each position of q.                              *)
LegacyLefts(q, S) ==
  CHOOSE f : f = [i \in 0..Len(q) |-> IF i = 0 THEN <<>> ELSE IF q[i] \in S THEN f[i - 1] ELSE Append(f[i - 1], q[i])]

LEMMA LegacyLeftsEquation ==
  ASSUME NEW q, NEW S, Len(q) \in Nat
  PROVE  /\ LegacyLefts(q, S)[0] = <<>>
         /\ \A i \in 1..Len(q) : LegacyLefts(q, S)[i] = IF q[i] \in S THEN LegacyLefts(q, S)[i - 1] ELSE Append(LegacyLefts(q, S)[i - 1], q[i])
         /\ Legacy!Omit(q, S) = LegacyLefts(q, S)[Len(q)]
<1> DEFINE Base == <<>>
           Step(p, i) == IF q[i] \in S THEN p ELSE Append(p, q[i])
           F == LegacyLefts(q, S)
<1>1. \E f : f = [i \in 0..Len(q) |-> IF i = 0 THEN Base ELSE Step(f[i - 1], i)]
  <2> HIDE DEF Base, Step
  <2> DEFINE N == {n \in Nat : \E f : f = [i \in 0..n |-> IF i = 0 THEN Base ELSE Step(f[i - 1], i)]}
  <2>1. 0 \in N
    <3> DEFINE g == [i \in 0..0 |-> Base]
    <3>1. g = [i \in 0..0 |-> IF i = 0 THEN Base ELSE Step(g[i - 1], i)]
      OBVIOUS
    <3> QED BY <3>1
  <2>2. ASSUME NEW n \in N PROVE n + 1 \in N
    <3>1. PICK f : f = [i \in 0..n |-> IF i = 0 THEN Base ELSE Step(f[i - 1], i)]
      OBVIOUS
    <3> DEFINE g == [i \in 0..(n + 1) |-> IF i <= n THEN f[i] ELSE Step(f[n], n + 1)]
    <3>2. /\ n \in Nat /\ n + 1 \in Nat /\ g[n + 1] = Step(f[n], n + 1)
          /\ \A i \in 0..n : g[i] = f[i]
      OBVIOUS
    <3>3. g = [i \in 0..(n + 1) |-> g[i]]
      OBVIOUS
    <3> HIDE DEF g
    <3>4. ASSUME NEW i \in 0..(n + 1) PROVE g[i] = IF i = 0 THEN Base ELSE Step(g[i - 1], i)
      <4>1. CASE i <= n
        <5>1. i \in 0..n /\ g[i] = f[i] /\ (i # 0 => g[i - 1] = f[i - 1])
          BY <3>2, <4>1
        <5>2. f[i] = IF i = 0 THEN Base ELSE Step(f[i - 1], i)
          BY <3>1, <5>1, Zenon
        <5> QED BY <5>1, <5>2
      <4>2. CASE i = n + 1
        <5>1. i # 0 /\ i - 1 = n /\ g[i - 1] = f[n]
          BY <3>2, <4>2
        <5> QED BY <3>2, <4>2, <5>1
      <4> QED BY <3>2, <4>1, <4>2
    <3>5. g = [i \in 0..(n + 1) |-> IF i = 0 THEN Base ELSE Step(g[i - 1], i)]
      BY <3>3, <3>4, Zenon
    <3>6. \E h : h = [i \in 0..(n + 1) |-> IF i = 0 THEN Base ELSE Step(h[i - 1], i)]
      BY <3>5, Zenon
    <3> QED BY <3>2, <3>6, Zenon
  <2>3. N = Nat
    BY <2>1, <2>2, SetInduction
  <2>4. Len(q) \in N
    BY <2>3
  <2> QED BY <2>4, Zenon
<1>2. F = [i \in 0..Len(q) |-> IF i = 0 THEN Base ELSE Step(F[i - 1], i)]
  BY <1>1, Zenon DEF LegacyLefts
<1>3. Legacy!Omit(q, S) = F[Len(q)]
  BY <1>1, Zenon DEF Legacy!Omit, LegacyLefts
<1>4. 0 \in 0..Len(q) /\ \A i \in 1..Len(q) : i \in 0..Len(q) /\ i # 0
  OBVIOUS
<1> HIDE DEF F
<1>5. F[0] = Base /\ \A i \in 1..Len(q) : F[i] = Step(F[i - 1], i)
  BY <1>2, <1>4, Zenon
<1> QED BY <1>3, <1>5, Zenon DEF F

(* The states a pass goes through, and the passes of a reconciliation.       *)
LegacyOffers(s, q, seq) ==
  CHOOSE f : f = [i \in 0..Len(q) |-> IF i = 0 THEN s ELSE IF Legacy!Acceptable(f[i - 1], q[i]) THEN Legacy!AcceptTxInto(f[i - 1], q[i], seq[q[i]]) ELSE f[i - 1]]

LEMMA LegacyOffersEquation ==
  ASSUME NEW s, NEW q, NEW seq, Len(q) \in Nat
  PROVE  /\ LegacyOffers(s, q, seq)[0] = s
         /\ \A i \in 1..Len(q) : LegacyOffers(s, q, seq)[i] = IF Legacy!Acceptable(LegacyOffers(s, q, seq)[i - 1], q[i]) THEN Legacy!AcceptTxInto(LegacyOffers(s, q, seq)[i - 1], q[i], seq[q[i]]) ELSE LegacyOffers(s, q, seq)[i - 1]
         /\ Legacy!Pass(s, q, seq) = LegacyOffers(s, q, seq)[Len(q)]
<1> DEFINE Base == s
           Step(p, i) == IF Legacy!Acceptable(p, q[i]) THEN Legacy!AcceptTxInto(p, q[i], seq[q[i]]) ELSE p
           F == LegacyOffers(s, q, seq)
<1>1. \E f : f = [i \in 0..Len(q) |-> IF i = 0 THEN Base ELSE Step(f[i - 1], i)]
  <2> HIDE DEF Base, Step
  <2> DEFINE N == {n \in Nat : \E f : f = [i \in 0..n |-> IF i = 0 THEN Base ELSE Step(f[i - 1], i)]}
  <2>1. 0 \in N
    <3> DEFINE g == [i \in 0..0 |-> Base]
    <3>1. g = [i \in 0..0 |-> IF i = 0 THEN Base ELSE Step(g[i - 1], i)]
      OBVIOUS
    <3> QED BY <3>1
  <2>2. ASSUME NEW n \in N PROVE n + 1 \in N
    <3>1. PICK f : f = [i \in 0..n |-> IF i = 0 THEN Base ELSE Step(f[i - 1], i)]
      OBVIOUS
    <3> DEFINE g == [i \in 0..(n + 1) |-> IF i <= n THEN f[i] ELSE Step(f[n], n + 1)]
    <3>2. /\ n \in Nat /\ n + 1 \in Nat /\ g[n + 1] = Step(f[n], n + 1)
          /\ \A i \in 0..n : g[i] = f[i]
      OBVIOUS
    <3>3. g = [i \in 0..(n + 1) |-> g[i]]
      OBVIOUS
    <3> HIDE DEF g
    <3>4. ASSUME NEW i \in 0..(n + 1) PROVE g[i] = IF i = 0 THEN Base ELSE Step(g[i - 1], i)
      <4>1. CASE i <= n
        <5>1. i \in 0..n /\ g[i] = f[i] /\ (i # 0 => g[i - 1] = f[i - 1])
          BY <3>2, <4>1
        <5>2. f[i] = IF i = 0 THEN Base ELSE Step(f[i - 1], i)
          BY <3>1, <5>1, Zenon
        <5> QED BY <5>1, <5>2
      <4>2. CASE i = n + 1
        <5>1. i # 0 /\ i - 1 = n /\ g[i - 1] = f[n]
          BY <3>2, <4>2
        <5> QED BY <3>2, <4>2, <5>1
      <4> QED BY <3>2, <4>1, <4>2
    <3>5. g = [i \in 0..(n + 1) |-> IF i = 0 THEN Base ELSE Step(g[i - 1], i)]
      BY <3>3, <3>4, Zenon
    <3>6. \E h : h = [i \in 0..(n + 1) |-> IF i = 0 THEN Base ELSE Step(h[i - 1], i)]
      BY <3>5, Zenon
    <3> QED BY <3>2, <3>6, Zenon
  <2>3. N = Nat
    BY <2>1, <2>2, SetInduction
  <2>4. Len(q) \in N
    BY <2>3
  <2> QED BY <2>4, Zenon
<1>2. F = [i \in 0..Len(q) |-> IF i = 0 THEN Base ELSE Step(F[i - 1], i)]
  BY <1>1, Zenon DEF LegacyOffers
<1>3. Legacy!Pass(s, q, seq) = F[Len(q)]
  BY <1>1, Zenon DEF Legacy!Pass, LegacyOffers
<1>4. 0 \in 0..Len(q) /\ \A i \in 1..Len(q) : i \in 0..Len(q) /\ i # 0
  OBVIOUS
<1> HIDE DEF F
<1>5. F[0] = Base /\ \A i \in 1..Len(q) : F[i] = Step(F[i - 1], i)
  BY <1>2, <1>4, Zenon
<1> QED BY <1>3, <1>5, Zenon DEF F

(* The passes of a reconciliation.                                           *)
LegacyPasses(candidate, previous) ==
  CHOOSE f : f = [i \in 0..Len(Legacy!Ordered(previous, Legacy!Detached(candidate, previous))) |-> IF i = 0 THEN candidate ELSE Legacy!Pass(f[i - 1], Legacy!Ordered(previous, Legacy!Detached(candidate, previous)), previous.seq)]

LEMMA LegacyPassesEquation ==
  ASSUME NEW candidate, NEW previous, Len(Legacy!Ordered(previous, Legacy!Detached(candidate, previous))) \in Nat
  PROVE  /\ LegacyPasses(candidate, previous)[0] = candidate
         /\ \A i \in 1..Len(Legacy!Ordered(previous, Legacy!Detached(candidate, previous))) : LegacyPasses(candidate, previous)[i] = Legacy!Pass(LegacyPasses(candidate, previous)[i - 1], Legacy!Ordered(previous, Legacy!Detached(candidate, previous)), previous.seq)
         /\ Legacy!Reconcile(candidate, previous) = LegacyPasses(candidate, previous)[Len(Legacy!Ordered(previous, Legacy!Detached(candidate, previous)))]
<1> DEFINE Base == candidate
           Step(p, i) == Legacy!Pass(p, Legacy!Ordered(previous, Legacy!Detached(candidate, previous)), previous.seq)
           F == LegacyPasses(candidate, previous)
<1>1. \E f : f = [i \in 0..Len(Legacy!Ordered(previous, Legacy!Detached(candidate, previous))) |-> IF i = 0 THEN Base ELSE Step(f[i - 1], i)]
  <2> HIDE DEF Base, Step
  <2> DEFINE N == {n \in Nat : \E f : f = [i \in 0..n |-> IF i = 0 THEN Base ELSE Step(f[i - 1], i)]}
  <2>1. 0 \in N
    <3> DEFINE g == [i \in 0..0 |-> Base]
    <3>1. g = [i \in 0..0 |-> IF i = 0 THEN Base ELSE Step(g[i - 1], i)]
      OBVIOUS
    <3> QED BY <3>1
  <2>2. ASSUME NEW n \in N PROVE n + 1 \in N
    <3>1. PICK f : f = [i \in 0..n |-> IF i = 0 THEN Base ELSE Step(f[i - 1], i)]
      OBVIOUS
    <3> DEFINE g == [i \in 0..(n + 1) |-> IF i <= n THEN f[i] ELSE Step(f[n], n + 1)]
    <3>2. /\ n \in Nat /\ n + 1 \in Nat /\ g[n + 1] = Step(f[n], n + 1)
          /\ \A i \in 0..n : g[i] = f[i]
      OBVIOUS
    <3>3. g = [i \in 0..(n + 1) |-> g[i]]
      OBVIOUS
    <3> HIDE DEF g
    <3>4. ASSUME NEW i \in 0..(n + 1) PROVE g[i] = IF i = 0 THEN Base ELSE Step(g[i - 1], i)
      <4>1. CASE i <= n
        <5>1. i \in 0..n /\ g[i] = f[i] /\ (i # 0 => g[i - 1] = f[i - 1])
          BY <3>2, <4>1
        <5>2. f[i] = IF i = 0 THEN Base ELSE Step(f[i - 1], i)
          BY <3>1, <5>1, Zenon
        <5> QED BY <5>1, <5>2
      <4>2. CASE i = n + 1
        <5>1. i # 0 /\ i - 1 = n /\ g[i - 1] = f[n]
          BY <3>2, <4>2
        <5> QED BY <3>2, <4>2, <5>1
      <4> QED BY <3>2, <4>1, <4>2
    <3>5. g = [i \in 0..(n + 1) |-> IF i = 0 THEN Base ELSE Step(g[i - 1], i)]
      BY <3>3, <3>4, Zenon
    <3>6. \E h : h = [i \in 0..(n + 1) |-> IF i = 0 THEN Base ELSE Step(h[i - 1], i)]
      BY <3>5, Zenon
    <3> QED BY <3>2, <3>6, Zenon
  <2>3. N = Nat
    BY <2>1, <2>2, SetInduction
  <2>4. Len(Legacy!Ordered(previous, Legacy!Detached(candidate, previous))) \in N
    BY <2>3
  <2> QED BY <2>4, Zenon
<1>2. F = [i \in 0..Len(Legacy!Ordered(previous, Legacy!Detached(candidate, previous))) |-> IF i = 0 THEN Base ELSE Step(F[i - 1], i)]
  BY <1>1, Zenon DEF LegacyPasses
<1>3. Legacy!Reconcile(candidate, previous) = F[Len(Legacy!Ordered(previous, Legacy!Detached(candidate, previous)))]
  BY <1>1, Zenon DEF Legacy!Reconcile, LegacyPasses
<1>4. 0 \in 0..Len(Legacy!Ordered(previous, Legacy!Detached(candidate, previous))) /\ \A i \in 1..Len(Legacy!Ordered(previous, Legacy!Detached(candidate, previous))) : i \in 0..Len(Legacy!Ordered(previous, Legacy!Detached(candidate, previous))) /\ i # 0
  OBVIOUS
<1> HIDE DEF F
<1>5. F[0] = Base /\ \A i \in 1..Len(Legacy!Ordered(previous, Legacy!Detached(candidate, previous))) : F[i] = Step(F[i - 1], i)
  BY <1>2, <1>4, Zenon
<1> QED BY <1>3, <1>5, Zenon DEF F

(* x stands before y in q.                                                  *)
Precedes(q, x, y) == \E i, j \in DOMAIN q : i < j /\ q[i] = x /\ q[j] = y

(* What has been kept after i positions: their elements outside S, each     *)
(* once if q has each once, in the order of q.                              *)
Kept(q, S, i, r) ==
  /\ r \in Seq(Legacy!ToSet(q))
  /\ Legacy!ToSet(r) = {q[k] : k \in {l \in 1..i : q[l] \notin S}}
  /\ \A k, l \in 1..i : k < l /\ q[k] \notin S /\ q[l] \notin S => Precedes(r, q[k], q[l])
  /\ (\A k, l \in DOMAIN q : q[k] = q[l] => k = l) => \A k, l \in DOMAIN r : r[k] = r[l] => k = l

(* One more position keeps it so.                                           *)
LEMMA LegacyKeptStep ==
  ASSUME NEW T, NEW q \in Seq(T), NEW S, NEW i \in 1..Len(q), NEW r, Kept(q, S, i - 1, r)
  PROVE  Kept(q, S, i, IF q[i] \in S THEN r ELSE Append(r, q[i]))
<1>1. CASE q[i] \in S
  BY <1>1 DEF Kept
<1>2. CASE q[i] \notin S
  <2> DEFINE a == Append(r, q[i])
  <2>0. q[i] \in Legacy!ToSet(q) /\ r \in Seq(Legacy!ToSet(q))
    BY DEF Legacy!ToSet, Kept
  <2>1. /\ a \in Seq(Legacy!ToSet(q)) /\ Len(a) = Len(r) + 1 /\ a[Len(r) + 1] = q[i]
        /\ \A k \in 1..Len(r) : a[k] = r[k]
        /\ Len(r) \in Nat /\ DOMAIN r = 1..Len(r) /\ DOMAIN a = 1..(Len(r) + 1)
    BY <2>0
  <2> HIDE DEF a
  <2>2. Legacy!ToSet(a) = Legacy!ToSet(r) \cup {q[i]}
    BY <2>1, SMTT(15) DEF Legacy!ToSet
  <2>3. Legacy!ToSet(a) = {q[k] : k \in {l \in 1..i : q[l] \notin S}}
    BY <1>2, <2>2 DEF Kept
  <2>4. ASSUME NEW k \in 1..i, NEW l \in 1..i, k < l, q[k] \notin S, q[l] \notin S
        PROVE  Precedes(a, q[k], q[l])
    <3>1. CASE l = i
      <4>1. q[k] \in Legacy!ToSet(r)
        BY <2>4, <3>1 DEF Kept
      <4>2. PICK m \in DOMAIN r : r[m] = q[k]
        BY <4>1 DEF Legacy!ToSet
      <4>3. m \in DOMAIN a /\ Len(r) + 1 \in DOMAIN a /\ m < Len(r) + 1 /\ a[m] = q[k]
        BY <2>1, <4>2
      <4> QED BY <2>1, <3>1, <4>3 DEF Precedes
    <3>2. CASE l # i
      <4>1. Precedes(r, q[k], q[l])
        BY <2>4, <3>2 DEF Kept
      <4> QED BY <2>1, <4>1 DEF Precedes
    <3> QED BY <3>1, <3>2
  <2>5. ASSUME \A k, l \in DOMAIN q : q[k] = q[l] => k = l
        PROVE  \A k, l \in DOMAIN a : a[k] = a[l] => k = l
    <3>1. \A k, l \in DOMAIN r : r[k] = r[l] => k = l
      BY <2>5 DEF Kept
    <3>2. q[i] \notin Legacy!ToSet(r)
      <4>1. \A k \in 1..(i - 1) : q[k] # q[i]
        BY <2>5
      <4> QED BY <4>1 DEF Kept
    <3>3. \A k \in DOMAIN r : r[k] # q[i]
      BY <3>2 DEF Legacy!ToSet
    <3> QED BY <2>1, <3>1, <3>3
  <2>6. Kept(q, S, i, a)
    BY <2>1, <2>3, <2>4, <2>5 DEF Kept
  <2> QED BY <1>2, <2>6 DEF a
<1> QED BY <1>1, <1>2

(* Omit lists the elements outside S, each once if q does, in their order.  *)
LEMMA LegacyOmitKeeps ==
  ASSUME NEW T, NEW q \in Seq(T), NEW S
  PROVE  /\ Legacy!Omit(q, S) \in Seq(T)
         /\ Legacy!ToSet(Legacy!Omit(q, S)) = Legacy!ToSet(q) \ S
         /\ (\A k, l \in DOMAIN q : q[k] = q[l] => k = l) =>
              \A k, l \in DOMAIN Legacy!Omit(q, S) : Legacy!Omit(q, S)[k] = Legacy!Omit(q, S)[l] => k = l
         /\ \A x, y \in T \ S : Precedes(q, x, y) => Precedes(Legacy!Omit(q, S), x, y)
<1> DEFINE f == LegacyLefts(q, S)
           N == {n \in Nat : n <= Len(q) => Kept(q, S, n, f[n])}
<1>1. /\ f[0] = <<>> /\ Legacy!Omit(q, S) = f[Len(q)]
      /\ \A i \in 1..Len(q) : f[i] = IF q[i] \in S THEN f[i - 1] ELSE Append(f[i - 1], q[i])
  BY LegacyLeftsEquation
<1> HIDE DEF f
<1>2. 0 \in N
  <2>1. Kept(q, S, 0, <<>>)
    BY DEF Kept, Legacy!ToSet
  <2> QED BY <1>1, <2>1
<1>3. ASSUME NEW n \in N PROVE n + 1 \in N
  <2> SUFFICES ASSUME n + 1 <= Len(q) PROVE Kept(q, S, n + 1, f[n + 1])
    OBVIOUS
  <2>1. Kept(q, S, n, f[n]) /\ n + 1 \in 1..Len(q) /\ (n + 1) - 1 = n
    OBVIOUS
  <2>2. Kept(q, S, n + 1, IF q[n + 1] \in S THEN f[n] ELSE Append(f[n], q[n + 1]))
    BY <2>1, LegacyKeptStep
  <2> QED BY <1>1, <2>1, <2>2
<1>4. N = Nat
  BY <1>2, <1>3, SetInduction
<1>5. Kept(q, S, Len(q), Legacy!Omit(q, S))
  BY <1>1, <1>4
<1>6. Legacy!ToSet(q) \subseteq T
  BY DEF Legacy!ToSet
<1>7. Legacy!Omit(q, S) \in Seq(T)
  BY <1>5, <1>6 DEF Kept
<1>8. Legacy!ToSet(Legacy!Omit(q, S)) = Legacy!ToSet(q) \ S
  <2>1. Legacy!ToSet(Legacy!Omit(q, S)) = {q[k] : k \in {l \in 1..Len(q) : q[l] \notin S}}
    BY <1>5 DEF Kept
  <2>2. {q[k] : k \in {l \in 1..Len(q) : q[l] \notin S}} = Legacy!ToSet(q) \ S
    BY DEF Legacy!ToSet
  <2> QED BY <2>1, <2>2
<1>9. ASSUME NEW x \in T \ S, NEW y \in T \ S, Precedes(q, x, y)
      PROVE  Precedes(Legacy!Omit(q, S), x, y)
  <2>1. PICK i, j \in DOMAIN q : i < j /\ q[i] = x /\ q[j] = y
    BY <1>9 DEF Precedes
  <2>2. i \in 1..Len(q) /\ j \in 1..Len(q)
    OBVIOUS
  <2> QED BY <1>5, <2>2, <2>1 DEF Kept
<1> QED BY <1>5, <1>7, <1>8, <1>9 DEF Kept

(* What a state says, of blocks b: the transactions its chain confirmed,    *)
(* what they and the blocks made, and what of it is not spent.              *)
ConfirmedIn(b, s) == UNION {Legacy!ToSet(b[s.chain[i]].txids) : i \in DOMAIN s.chain}
MadeIn(b, s) == Legacy!ToSet(s.chain) \cup ConfirmedIn(b, s)
UnspentIn(b, s) == MadeIn(b, s) \ Legacy!InputsOf(ConfirmedIn(b, s))
KnownIn(b, s) == ConfirmedIn(b, s) \cup Legacy!ToSet(s.order)

(* The signer of a transaction owns what it spends.                         *)
Owned(t) == \A o \in Txs[t].inputs : Legacy!Owner(o) = Txs[t].from

(* What was confirmed spent what was there, each output once.               *)
PastOk(b, s) ==
    /\ s.chain \in Seq(DOMAIN b)
    /\ ConfirmedIn(b, s) \subseteq Legacy!Ids
    /\ \A t \in ConfirmedIn(b, s) : Txs[t].inputs \subseteq MadeIn(b, s) /\ Owned(t)
    /\ \A t, u \in ConfirmedIn(b, s) : t # u => Txs[t].inputs \cap Txs[u].inputs = {}

(* What is pending spends what is unspent or made by one before it, and no  *)
(* two the same.                                                            *)
InOrder(q, confirmed, unspent) ==
    /\ q \in Seq(Legacy!Ids)
    /\ \A i, j \in DOMAIN q : q[i] = q[j] => i = j
    /\ \A i, j \in DOMAIN q : i # j => Txs[q[i]].inputs \cap Txs[q[j]].inputs = {}
    /\ \A i \in DOMAIN q :
        /\ q[i] \notin confirmed /\ Owned(q[i])
        /\ \A o \in Txs[q[i]].inputs : o \in unspent \/ \E j \in DOMAIN q : j < i /\ q[j] = o
PendingOk(b, s) == InOrder(s.order, ConfirmedIn(b, s), UnspentIn(b, s))
NumbersOk(s) ==
    /\ s = [chain |-> s.chain, order |-> s.order, seq |-> s.seq, last |-> s.last]
    /\ s.seq \in [Legacy!Ids -> Nat] /\ s.last \in Nat
    /\ \A t \in Legacy!ToSet(s.order) : s.seq[t] \in 1..s.last
StateOk(b, s) == NumbersOk(s) /\ PastOk(b, s) /\ PendingOk(b, s)

(* The module's words for this.                                             *)
LEMMA LegacyWords ==
  ASSUME NEW s
  PROVE  /\ Legacy!Confirmed(s) = ConfirmedIn(blocks, s)
         /\ Legacy!Unspent(s) = UnspentIn(blocks, s)
         /\ Legacy!Pending(s) = Legacy!ToSet(s.order)
BY DEF Legacy!Confirmed, Legacy!Unspent, Legacy!Pending, ConfirmedIn, UnspentIn, MadeIn

(* A transaction that is accepted leaves a state that is in order.          *)
LEMMA LegacyAccepts ==
  ASSUME Legacy!LegacyAssumption, NEW s, StateOk(blocks, s), NEW t \in Legacy!Ids, NEW seq \in Nat, Legacy!Acceptable(s, t)
  PROVE  LET r == Legacy!AcceptTxInto(s, t, seq) IN
         /\ StateOk(blocks, r) /\ r.chain = s.chain
         /\ Len(r.order) = Len(s.order) + 1 /\ Legacy!ToSet(r.order) = Legacy!ToSet(s.order) \cup {t}
<1> DEFINE n == IF seq = 0 THEN s.last + 1 ELSE seq
           r == Legacy!AcceptTxInto(s, t, seq)
           q == Append(s.order, t)
<1>1. /\ r.chain = s.chain /\ r.order = q /\ r.seq = [s.seq EXCEPT ![t] = n] /\ r.last = IF s.last > n THEN s.last ELSE n
      /\ r = [chain |-> r.chain, order |-> r.order, seq |-> r.seq, last |-> r.last]
  BY DEF Legacy!AcceptTxInto
<1>2. n \in Nat \ {0} /\ s.last \in Nat
  BY DEF StateOk, NumbersOk
<1>3. /\ s.order \in Seq(Legacy!Ids) /\ q \in Seq(Legacy!Ids) /\ Len(q) = Len(s.order) + 1 /\ Len(s.order) \in Nat
      /\ DOMAIN s.order = 1..Len(s.order) /\ DOMAIN q = 1..(Len(s.order) + 1)
      /\ q[Len(s.order) + 1] = t /\ \A i \in DOMAIN s.order : q[i] = s.order[i]
  BY DEF StateOk, PendingOk, InOrder
<1> HIDE DEF q, n, r
<1>4. Legacy!ToSet(q) = Legacy!ToSet(s.order) \cup {t}
  BY <1>3 DEF Legacy!ToSet
<1>5. /\ t \notin ConfirmedIn(blocks, s) /\ t \notin Legacy!ToSet(s.order) /\ Owned(t)
      /\ \A o \in Txs[t].inputs : /\ o \in UnspentIn(blocks, s) \/ o \in Legacy!ToSet(s.order)
                                  /\ o \notin Legacy!InputsOf(Legacy!ToSet(s.order))
  BY LegacyWords DEF Legacy!Acceptable, Legacy!Missing, Owned
<1>6. NumbersOk(r)
  <2>1. r.seq \in [Legacy!Ids -> Nat] /\ r.last \in Nat /\ r.seq[t] \in 1..r.last
    BY <1>1, <1>2 DEF StateOk, NumbersOk
  <2>2. ASSUME NEW u \in Legacy!ToSet(s.order) PROVE r.seq[u] \in 1..r.last
    <3>1. u \in Legacy!Ids /\ u # t /\ s.seq[u] \in 1..s.last
      BY <1>3, <1>5 DEF Legacy!ToSet, StateOk, NumbersOk
    <3> QED BY <1>1, <1>2, <3>1 DEF StateOk, NumbersOk
  <2> QED BY <1>1, <1>4, <2>1, <2>2 DEF NumbersOk
<1>7. ConfirmedIn(blocks, r) = ConfirmedIn(blocks, s) /\ MadeIn(blocks, r) = MadeIn(blocks, s) /\ UnspentIn(blocks, r) = UnspentIn(blocks, s)
  BY <1>1 DEF ConfirmedIn, MadeIn, UnspentIn
<1>8. PastOk(blocks, r)
  BY <1>1, <1>7 DEF PastOk, StateOk
<1>9. PendingOk(blocks, r)
  <2>1. \A i, j \in DOMAIN q : q[i] = q[j] => i = j
    BY <1>3, <1>5 DEF StateOk, PendingOk, InOrder, Legacy!ToSet
  <2>2. \A i \in DOMAIN s.order : Txs[s.order[i]].inputs \cap Txs[t].inputs = {}
    BY <1>5 DEF Legacy!InputsOf, Legacy!ToSet
  <2>3. ASSUME NEW i \in DOMAIN q, NEW j \in DOMAIN q, i # j PROVE Txs[q[i]].inputs \cap Txs[q[j]].inputs = {}
    <3>1. CASE i \in DOMAIN s.order /\ j \in DOMAIN s.order
      <4>1. Txs[s.order[i]].inputs \cap Txs[s.order[j]].inputs = {}
        BY <2>3, <3>1 DEF StateOk, PendingOk, InOrder
      <4> QED BY <1>3, <3>1, <4>1
    <3>2. CASE i = Len(s.order) + 1
      <4>1. j \in DOMAIN s.order
        BY <1>3, <2>3, <3>2
      <4> QED BY <1>3, <2>2, <3>2, <4>1
    <3>3. CASE j = Len(s.order) + 1
      <4>1. i \in DOMAIN s.order
        BY <1>3, <2>3, <3>3
      <4> QED BY <1>3, <2>2, <3>3, <4>1
    <3> QED BY <1>3, <3>1, <3>2, <3>3
  <2>4. ASSUME NEW i \in DOMAIN q, NEW o \in Txs[q[i]].inputs
        PROVE  /\ q[i] \notin ConfirmedIn(blocks, s) /\ Owned(q[i])
               /\ o \in UnspentIn(blocks, s) \/ \E j \in DOMAIN q : j < i /\ q[j] = o
    <3>1. CASE i \in DOMAIN s.order
      <4>1. q[i] = s.order[i] /\ o \in Txs[s.order[i]].inputs
        BY <1>3, <2>4, <3>1
      <4>2. CASE \E j \in DOMAIN s.order : j < i /\ s.order[j] = o
        <5>1. PICK j \in DOMAIN s.order : j < i /\ s.order[j] = o
          BY <4>2
        <5>2. j \in DOMAIN q /\ q[j] = o
          BY <1>3, <5>1
        <5> QED BY <3>1, <4>1, <5>1, <5>2 DEF StateOk, PendingOk, InOrder
      <4> QED BY <3>1, <4>1, <4>2 DEF StateOk, PendingOk, InOrder
    <3>2. CASE i = Len(s.order) + 1
      <4>1. q[i] = t /\ o \in Txs[t].inputs
        BY <1>3, <2>4, <3>2
      <4>2. CASE o \in Legacy!ToSet(s.order)
        <5>1. PICK j \in DOMAIN s.order : s.order[j] = o
          BY <4>2 DEF Legacy!ToSet
        <5>2. j \in DOMAIN q /\ j < i /\ q[j] = o
          BY <1>3, <3>2, <5>1
        <5> QED BY <1>5, <4>1, <5>2
      <4> QED BY <1>5, <4>1, <4>2
    <3> QED BY <1>3, <3>1, <3>2
  <2>5. \A i \in DOMAIN q : q[i] \notin ConfirmedIn(blocks, s) /\ Owned(q[i])
    BY <1>3, <1>5 DEF StateOk, PendingOk, InOrder
  <2>6. r.order = q /\ UnspentIn(blocks, r) = UnspentIn(blocks, s) /\ ConfirmedIn(blocks, r) = ConfirmedIn(blocks, s)
    BY <1>1, <1>7
  <2>7. InOrder(q, ConfirmedIn(blocks, s), UnspentIn(blocks, s))
    BY <1>3, <2>1, <2>3, <2>4, <2>5 DEF InOrder
  <2> QED BY <2>6, <2>7 DEF PendingOk
<1> QED BY <1>1, <1>3, <1>4, <1>6, <1>8, <1>9 DEF StateOk, r

(* A block somebody else finds changes nothing for a state.                 *)
Extends(b, c) == \A h \in DOMAIN b : h \in DOMAIN c /\ c[h] = b[h]
LEMMA LegacyGrows ==
  ASSUME NEW b, NEW c, Extends(b, c), NEW s, StateOk(b, s)
  PROVE  StateOk(c, s) /\ KnownIn(c, s) = KnownIn(b, s)
<1>1. s.chain \in Seq(DOMAIN b) /\ s.chain \in Seq(DOMAIN c) /\ \A i \in DOMAIN s.chain : c[s.chain[i]] = b[s.chain[i]]
  <2>1. s.chain \in Seq(DOMAIN b)
    BY DEF StateOk, PastOk
  <2>2. DOMAIN b \subseteq DOMAIN c
    BY DEF Extends
  <2> QED BY <2>1, <2>2 DEF Extends
<1>2. ConfirmedIn(c, s) = ConfirmedIn(b, s)
  BY <1>1 DEF ConfirmedIn
<1>3. MadeIn(c, s) = MadeIn(b, s) /\ UnspentIn(c, s) = UnspentIn(b, s) /\ KnownIn(c, s) = KnownIn(b, s)
  BY <1>2 DEF MadeIn, UnspentIn, KnownIn
<1>4. PastOk(c, s)
  BY <1>1, <1>2, <1>3 DEF StateOk, PastOk
<1>5. PendingOk(c, s)
  BY <1>2, <1>3 DEF StateOk, PendingOk, InOrder
<1> QED BY <1>3, <1>4, <1>5 DEF StateOk

(* What is pending is not spent by what was confirmed.                      *)
LEMMA PendingApart ==
  ASSUME Legacy!LegacyAssumption, NEW b, DOMAIN b \subseteq Hashes, NEW s, StateOk(b, s), NEW t \in Legacy!ToSet(s.order)
  PROVE  t \in Legacy!Ids /\ t \notin MadeIn(b, s) /\ t \notin Legacy!InputsOf(ConfirmedIn(b, s))
<1>1. t \in Legacy!Ids /\ t \notin ConfirmedIn(b, s)
  BY DEF StateOk, PendingOk, InOrder, Legacy!ToSet
<1>2. t \notin Legacy!ToSet(s.chain)
  <2>1. s.chain \in Seq(DOMAIN b)
    BY DEF StateOk, PastOk
  <2>2. Legacy!ToSet(s.chain) \subseteq Hashes
    BY <2>1 DEF Legacy!ToSet
  <2> QED BY <1>1, <2>2 DEF Legacy!LegacyAssumption
<1>3. t \notin MadeIn(b, s)
  BY <1>1, <1>2 DEF MadeIn
<1> QED BY <1>1, <1>3 DEF StateOk, PastOk, Legacy!InputsOf

(* A block of pending transactions that come with what they spend.          *)
LEMMA LegacyAppends ==
  ASSUME Legacy!LegacyAssumption, NEW b, NEW c, Extends(b, c), DOMAIN b \subseteq Hashes, NEW s, StateOk(b, s),
         NEW h \in DOMAIN c, NEW txids \in Seq(Legacy!Ids), c[h].txids = txids, Legacy!ToSet(txids) \subseteq Legacy!ToSet(s.order),
         \A t \in Legacy!ToSet(txids) : Txs[t].inputs \subseteq UnspentIn(b, s) \cup Legacy!ToSet(txids)
  PROVE  LET r == Legacy!AppendBlock(s, h, txids) IN StateOk(c, r) /\ KnownIn(c, r) = KnownIn(b, s)
<1> DEFINE S == Legacy!ToSet(txids)
           r == Legacy!AppendBlock(s, h, txids)
           q == Legacy!Omit(s.order, S)
<1>1. /\ r.chain = Append(s.chain, h) /\ r.order = q /\ r.seq = s.seq /\ r.last = s.last
      /\ r = [chain |-> r.chain, order |-> r.order, seq |-> r.seq, last |-> r.last]
  BY DEF Legacy!AppendBlock
<1>2. StateOk(c, s) /\ ConfirmedIn(c, s) = ConfirmedIn(b, s) /\ MadeIn(c, s) = MadeIn(b, s) /\ UnspentIn(c, s) = UnspentIn(b, s)
  <2>1. s.chain \in Seq(DOMAIN b) /\ \A i \in DOMAIN s.chain : c[s.chain[i]] = b[s.chain[i]]
    BY DEF StateOk, PastOk, Extends
  <2>2. ConfirmedIn(c, s) = ConfirmedIn(b, s)
    BY <2>1 DEF ConfirmedIn
  <2> QED BY <2>2, LegacyGrows DEF MadeIn, UnspentIn
<1>3. /\ s.order \in Seq(Legacy!Ids) /\ q \in Seq(Legacy!Ids) /\ Legacy!ToSet(q) = Legacy!ToSet(s.order) \ S
      /\ \A i, j \in DOMAIN q : q[i] = q[j] => i = j
      /\ \A x, y \in Legacy!Ids \ S : Precedes(s.order, x, y) => Precedes(q, x, y)
  BY LegacyOmitKeeps DEF StateOk, PendingOk, InOrder
<1>4. s.chain \in Seq(DOMAIN c) /\ r.chain \in Seq(DOMAIN c) /\ Legacy!ToSet(r.chain) = Legacy!ToSet(s.chain) \cup {h}
  <2>1. s.chain \in Seq(DOMAIN c)
    BY <1>2 DEF StateOk, PastOk
  <2> DEFINE p == Append(s.chain, h)
  <2>2. /\ Len(s.chain) \in Nat /\ DOMAIN s.chain = 1..Len(s.chain) /\ p \in Seq(DOMAIN c)
        /\ DOMAIN p = 1..(Len(s.chain) + 1) /\ p[Len(s.chain) + 1] = h
        /\ \A i \in DOMAIN s.chain : p[i] = s.chain[i]
    BY <2>1
  <2> HIDE DEF p
  <2>3. Legacy!ToSet(p) = Legacy!ToSet(s.chain) \cup {h}
    BY <2>2 DEF Legacy!ToSet
  <2> QED BY <1>1, <2>1, <2>2, <2>3 DEF p
<1>5. ConfirmedIn(c, r) = ConfirmedIn(c, s) \cup S
  <2>1. /\ DOMAIN r.chain = DOMAIN s.chain \cup {Len(s.chain) + 1} /\ r.chain[Len(s.chain) + 1] = h
        /\ \A i \in DOMAIN s.chain : r.chain[i] = s.chain[i]
    BY <1>1, <1>4
  <2> QED BY <2>1 DEF ConfirmedIn
<1> HIDE DEF q, r, S
<1>6. MadeIn(c, r) = MadeIn(b, s) \cup {h} \cup S
  BY <1>2, <1>4, <1>5 DEF MadeIn
<1>7. \A t \in S : /\ t \in Legacy!ToSet(s.order) /\ t \in Legacy!Ids /\ Owned(t) /\ t \notin ConfirmedIn(b, s)
                   /\ \A o \in Txs[t].inputs : o \in UnspentIn(b, s) \/ o \in S
  BY DEF S, StateOk, PendingOk, InOrder, Legacy!ToSet
<1>8. \A t \in S : t \notin MadeIn(b, s) /\ t \notin Legacy!InputsOf(ConfirmedIn(b, s))
  BY <1>7, PendingApart
<1>9. \A t, u \in Legacy!ToSet(s.order) : t # u => Txs[t].inputs \cap Txs[u].inputs = {}
  BY DEF StateOk, PendingOk, InOrder, Legacy!ToSet
<1>10. PastOk(c, r)
  <2>1. ASSUME NEW t \in ConfirmedIn(c, r) PROVE t \in Legacy!Ids /\ Txs[t].inputs \subseteq MadeIn(c, r) /\ Owned(t)
    <3>1. CASE t \in ConfirmedIn(b, s)
      BY <1>6, <3>1 DEF StateOk, PastOk
    <3>2. CASE t \in S
      BY <1>6, <1>7, <3>2 DEF UnspentIn
    <3> QED BY <1>2, <1>5, <2>1, <3>1, <3>2
  <2>2. ASSUME NEW t \in ConfirmedIn(b, s), NEW u \in S PROVE Txs[t].inputs \cap Txs[u].inputs = {}
    <3>1. ASSUME NEW o \in Txs[t].inputs, o \in Txs[u].inputs PROVE FALSE
      <4>1. o \in MadeIn(b, s) /\ o \in Legacy!InputsOf(ConfirmedIn(b, s))
        BY <2>2, <3>1 DEF StateOk, PastOk, Legacy!InputsOf
      <4> QED BY <1>7, <1>8, <2>2, <3>1, <4>1 DEF UnspentIn
    <3> QED BY <3>1
  <2>3. ASSUME NEW t \in ConfirmedIn(c, r), NEW u \in ConfirmedIn(c, r), t # u PROVE Txs[t].inputs \cap Txs[u].inputs = {}
    <3>1. CASE t \in ConfirmedIn(b, s) /\ u \in ConfirmedIn(b, s)
      BY <2>3, <3>1 DEF StateOk, PastOk
    <3>2. CASE t \in S /\ u \in S
      BY <1>7, <1>9, <2>3, <3>2
    <3> QED BY <1>2, <1>5, <2>2, <2>3, <3>1, <3>2
  <2> QED BY <1>4, <2>1, <2>3 DEF PastOk
<1>11. ASSUME NEW t \in Legacy!ToSet(s.order) \ S, NEW o \in Txs[t].inputs, o \in UnspentIn(b, s) \/ o \in S
       PROVE  o \in UnspentIn(c, r)
  <2>1. o \notin Legacy!InputsOf(S)
    <3>1. \A u \in S : u # t /\ u \in Legacy!ToSet(s.order)
      BY <1>7, <1>11
    <3>2. \A u \in S : o \notin Txs[u].inputs
      BY <1>9, <1>11, <3>1
    <3> QED BY <3>2 DEF Legacy!InputsOf
  <2>2. o \notin Legacy!InputsOf(ConfirmedIn(b, s))
    BY <1>8, <1>11 DEF UnspentIn
  <2>3. Legacy!InputsOf(ConfirmedIn(c, r)) = Legacy!InputsOf(ConfirmedIn(b, s)) \cup Legacy!InputsOf(S)
    BY <1>2, <1>5 DEF Legacy!InputsOf
  <2> QED BY <1>6, <1>11, <2>1, <2>2, <2>3 DEF UnspentIn
<1>12. PendingOk(c, r)
  <2>1. ASSUME NEW i \in DOMAIN q PROVE q[i] \in Legacy!ToSet(s.order) /\ q[i] \notin S /\ q[i] \in Legacy!Ids
    <3>1. q[i] \in Legacy!ToSet(q) /\ q[i] \in Legacy!Ids
      BY <1>3, <2>1 DEF Legacy!ToSet
    <3> QED BY <1>3, <3>1
  <2>2. ASSUME NEW i \in DOMAIN q, NEW j \in DOMAIN q, i # j PROVE Txs[q[i]].inputs \cap Txs[q[j]].inputs = {}
    BY <1>3, <1>9, <2>1, <2>2
  <2>3. ASSUME NEW i \in DOMAIN q PROVE q[i] \notin ConfirmedIn(c, r) /\ Owned(q[i])
    <3>1. q[i] \notin ConfirmedIn(b, s) /\ Owned(q[i])
      BY <2>1 DEF StateOk, PendingOk, InOrder, Legacy!ToSet
    <3> QED BY <1>2, <1>5, <2>1, <3>1
  <2>4. ASSUME NEW i \in DOMAIN q, NEW o \in Txs[q[i]].inputs
        PROVE  o \in UnspentIn(c, r) \/ \E j \in DOMAIN q : j < i /\ q[j] = o
    <3>1. PICK k \in DOMAIN s.order : s.order[k] = q[i]
      BY <2>1 DEF Legacy!ToSet
    <3>2. o \in UnspentIn(b, s) \/ \E j \in DOMAIN s.order : j < k /\ s.order[j] = o
      BY <2>4, <3>1 DEF StateOk, PendingOk, InOrder
    <3>3. CASE o \in UnspentIn(b, s) \/ o \in S
      BY <1>11, <2>1, <2>4, <3>3
    <3>4. CASE o \notin S /\ \E j \in DOMAIN s.order : j < k /\ s.order[j] = o
      <4>1. o \in Legacy!Ids
        BY <1>3, <3>4
      <4>2. Precedes(s.order, o, q[i])
        BY <3>1, <3>4 DEF Precedes
      <4>3. Precedes(q, o, q[i])
        BY <1>3, <2>1, <3>4, <4>1, <4>2
      <4> QED BY <1>3, <2>4, <4>3 DEF Precedes
    <3> QED BY <3>2, <3>3, <3>4
  <2>5. r.order = q
    BY <1>1 DEF r, q, S
  <2>6. InOrder(q, ConfirmedIn(c, r), UnspentIn(c, r))
    BY <1>3, <2>2, <2>3, <2>4 DEF InOrder
  <2> QED BY <2>5, <2>6 DEF PendingOk
<1>13. NumbersOk(r)
  <2>1. r.order = q /\ Legacy!ToSet(q) \subseteq Legacy!ToSet(s.order)
    BY <1>1, <1>3 DEF r, q, S
  <2> QED BY <1>1, <2>1 DEF StateOk, NumbersOk
<1>14. KnownIn(c, r) = KnownIn(b, s)
  <2>1. r.order = q
    BY <1>1
  <2>2. S \subseteq Legacy!ToSet(s.order)
    BY <1>7
  <2> QED BY <1>2, <1>3, <1>5, <2>1, <2>2 DEF KnownIn
<1> QED BY <1>10, <1>12, <1>13, <1>14 DEF StateOk, r, S

(* The module counts and adds as this one does.                             *)
LEMMA LegacyCounts == \A S : Legacy!Cardinality(S) = Cardinality(S)
BY DEF Legacy!Cardinality, Cardinality, Legacy!IsFiniteSet, IsFiniteSet

LEMMA LegacySums == \A f, S : Legacy!SumOver(f, S) = SumOver(f, S)
BY Zenon DEF Legacy!SumOver, SumOver

LEMMA LegacyFinite == \A S : Legacy!IsFiniteSet(S) = IsFiniteSet(S)
BY DEF Legacy!IsFiniteSet, IsFiniteSet

(* Where what waits is looked for, and what comes before it.                *)
LegacyAt(s, x) == IF x \in Legacy!Confirmed(s) THEN Legacy!Height(s, x) ELSE Len(s.chain) + 1
LegacyAhead(s, ts, t) == {u \in ts : Legacy!Before(s, u, t)}

LEMMA LegacyBefore ==
  ASSUME Legacy!LegacyAssumption, NEW s, StateOk(blocks, s), NEW ts \in SUBSET KnownIn(blocks, s)
  PROVE  /\ \A x \in ts : ~Legacy!Before(s, x, x)
         /\ \A x, y \in ts : x # y => Legacy!Before(s, x, y) \/ Legacy!Before(s, y, x)
         /\ \A x, y, z \in ts : Legacy!Before(s, x, y) /\ Legacy!Before(s, y, z) => Legacy!Before(s, x, z)
<1>1. \A x \in ts : x \in Nat /\ s.seq[x] \in Nat
  <2>1. s.order \in Seq(Legacy!Ids) /\ s.seq \in [Legacy!Ids -> Nat] /\ ConfirmedIn(blocks, s) \subseteq Legacy!Ids
    BY DEF StateOk, NumbersOk, PastOk, PendingOk, InOrder
  <2>2. ts \subseteq Legacy!Ids
    BY <2>1 DEF KnownIn, Legacy!ToSet
  <2> QED BY <2>1, <2>2 DEF Legacy!LegacyAssumption
<1>2. \A x \in ts : LegacyAt(s, x) \in Nat
  <2>1. s.chain \in Seq(DOMAIN blocks)
    BY DEF StateOk, PastOk
  <2>2. ASSUME NEW x \in Legacy!Confirmed(s) PROVE Legacy!Height(s, x) \in Nat
    <3>1. \E i \in DOMAIN s.chain : x \in Legacy!ToSet(blocks[s.chain[i]].txids)
      BY <2>2 DEF Legacy!Confirmed
    <3>2. Legacy!Height(s, x) \in DOMAIN s.chain
      BY <3>1 DEF Legacy!Height
    <3> QED BY <2>1, <3>2
  <2> QED BY <2>1, <2>2 DEF LegacyAt
<1>3. \A x, y : Legacy!Before(s, x, y) <=>
        \/ LegacyAt(s, x) < LegacyAt(s, y)
        \/ LegacyAt(s, x) = LegacyAt(s, y) /\ (s.seq[x] < s.seq[y] \/ (s.seq[x] = s.seq[y] /\ x < y))
  BY Zenon DEF Legacy!Before, LegacyAt
<1> QED BY <1>1, <1>2, <1>3

(* There are fewer before the first of two.                                 *)
LEMMA LegacyRanks ==
  ASSUME Legacy!LegacyAssumption, NEW s, StateOk(blocks, s), NEW ts \in SUBSET KnownIn(blocks, s), IsFiniteSet(ts)
  PROVE  /\ \A x \in ts : Cardinality(LegacyAhead(s, ts, x)) \in 0..(Cardinality(ts) - 1)
         /\ \A x, y \in ts : Legacy!Before(s, x, y) => Cardinality(LegacyAhead(s, ts, x)) < Cardinality(LegacyAhead(s, ts, y))
<1>0. Cardinality(ts) \in Nat
  BY FS_CardinalityType
<1>1. ASSUME NEW x \in ts PROVE IsFiniteSet(LegacyAhead(s, ts, x)) /\ Cardinality(LegacyAhead(s, ts, x)) \in 0..(Cardinality(ts) - 1)
  <2>1. LegacyAhead(s, ts, x) \in SUBSET ts /\ x \notin LegacyAhead(s, ts, x)
    BY LegacyBefore DEF LegacyAhead
  <2>2. /\ IsFiniteSet(LegacyAhead(s, ts, x)) /\ Cardinality(LegacyAhead(s, ts, x)) <= Cardinality(ts)
        /\ Cardinality(LegacyAhead(s, ts, x)) # Cardinality(ts)
    BY <2>1, FS_Subset
  <2>3. Cardinality(LegacyAhead(s, ts, x)) \in Nat
    BY <2>2, FS_CardinalityType
  <2> QED BY <1>0, <2>2, <2>3
<1>2. ASSUME NEW x \in ts, NEW y \in ts, Legacy!Before(s, x, y)
      PROVE  Cardinality(LegacyAhead(s, ts, x)) < Cardinality(LegacyAhead(s, ts, y))
  <2>1. LegacyAhead(s, ts, x) \in SUBSET LegacyAhead(s, ts, y) /\ x \in LegacyAhead(s, ts, y) /\ x \notin LegacyAhead(s, ts, x)
    BY <1>2, LegacyBefore DEF LegacyAhead
  <2>2. /\ Cardinality(LegacyAhead(s, ts, x)) <= Cardinality(LegacyAhead(s, ts, y))
        /\ Cardinality(LegacyAhead(s, ts, x)) # Cardinality(LegacyAhead(s, ts, y))
    BY <1>1, <2>1, FS_Subset
  <2> QED BY <1>1, <2>2
<1> QED BY <1>1, <1>2

(* The transactions in order: each is there.                                *)
LEMMA LegacyOrdered ==
  ASSUME Legacy!LegacyAssumption, NEW s, StateOk(blocks, s), NEW ts \in SUBSET KnownIn(blocks, s), IsFiniteSet(ts)
  PROVE  LET q == Legacy!Ordered(s, ts)  n == Cardinality(ts) IN
         /\ n \in Nat /\ q \in [1..n -> ts] /\ Len(q) = n
         /\ \A x \in ts : \E k \in 1..n : x = q[k]
         /\ \A i, j \in 1..n : Legacy!Before(s, q[i], q[j]) => i < j
<1> DEFINE q == Legacy!Ordered(s, ts)
           n == Cardinality(ts)
           rank == [x \in ts |-> Cardinality(LegacyAhead(s, ts, x))]
<1>0. n \in Nat
  BY FS_CardinalityType
<1>1. /\ rank \in [ts -> 0..(n - 1)]
      /\ \A x, y \in ts : Legacy!Before(s, x, y) => rank[x] < rank[y]
  BY LegacyRanks
<1>2. q = [k \in 1..n |-> CHOOSE x \in ts : rank[x] = k - 1]
  <2>1. q = [k \in 1..n |-> CHOOSE x \in ts : Cardinality(LegacyAhead(s, ts, x)) = k - 1]
    <3>1. q = [k \in 1..n |-> CHOOSE x \in ts : Legacy!Cardinality(LegacyAhead(s, ts, x)) = k - 1]
      BY LegacyCounts, Zenon DEF Legacy!Ordered, LegacyAhead
    <3>2. ASSUME NEW k PROVE (CHOOSE x \in ts : Legacy!Cardinality(LegacyAhead(s, ts, x)) = k - 1) = (CHOOSE x \in ts : Cardinality(LegacyAhead(s, ts, x)) = k - 1)
      <4>1. \A x : (x \in ts /\ Legacy!Cardinality(LegacyAhead(s, ts, x)) = k - 1) <=> (x \in ts /\ Cardinality(LegacyAhead(s, ts, x)) = k - 1)
        BY LegacyCounts
      <4> QED BY <4>1, Zenon
    <3> QED BY <3>1, <3>2
  <2>2. ASSUME NEW k PROVE (CHOOSE x \in ts : Cardinality(LegacyAhead(s, ts, x)) = k - 1) = (CHOOSE x \in ts : rank[x] = k - 1)
    <3>1. \A x : (x \in ts /\ Cardinality(LegacyAhead(s, ts, x)) = k - 1) <=> (x \in ts /\ rank[x] = k - 1)
      OBVIOUS
    <3> QED BY <3>1, Zenon
  <2> QED BY <2>1, <2>2
<1> HIDE DEF rank, q
<1>3. ASSUME NEW x \in ts, NEW y \in ts, rank[x] = rank[y] PROVE x = y
  <2>1. rank[x] \in Nat /\ ~(rank[x] < rank[y]) /\ ~(rank[y] < rank[x])
    BY <1>0, <1>1, <1>3
  <2> QED BY <1>1, <2>1, LegacyBefore
<1>4. ASSUME NEW k \in 0..(n - 1) PROVE \E x \in ts : rank[x] = k
  <2>1. IsFiniteSet(0..(n - 1)) /\ Cardinality(0..(n - 1)) = n
    BY <1>0, FS_Interval
  <2>2. rank \in Injection(ts, 0..(n - 1))
    BY <1>1, <1>3 DEF Injection, IsInjective
  <2>3. rank \in Surjection(ts, 0..(n - 1))
    BY <2>1, <2>2, FS_Injection
  <2> QED BY <2>3 DEF Surjection
<1>5. ASSUME NEW k \in 1..n PROVE q[k] \in ts /\ rank[q[k]] = k - 1
  <2>1. k - 1 \in 0..(n - 1)
    BY <1>0
  <2>2. \E x \in ts : rank[x] = k - 1
    BY <1>4, <2>1
  <2>3. q[k] = CHOOSE x \in ts : rank[x] = k - 1
    BY <1>2
  <2> QED BY <2>2, <2>3
<1>6. q \in [1..n -> ts] /\ Len(q) = n
  BY <1>0, <1>2, <1>5
<1>7. ASSUME NEW x \in ts PROVE \E k \in 1..n : x = q[k]
  <2>1. rank[x] + 1 \in 1..n
    BY <1>0, <1>1
  <2>2. q[rank[x] + 1] \in ts /\ rank[q[rank[x] + 1]] = rank[x]
    BY <1>0, <1>1, <1>5, <2>1
  <2> QED BY <1>3, <2>1, <2>2
<1>8. ASSUME NEW i \in 1..n, NEW j \in 1..n, Legacy!Before(s, q[i], q[j]) PROVE i < j
  <2>1. rank[q[i]] < rank[q[j]]
    BY <1>1, <1>5, <1>8
  <2> QED BY <1>0, <1>5, <2>1
<1> QED BY <1>0, <1>6, <1>7, <1>8 DEF q

(* A pass keeps a state in order, and either accepts something or nothing   *)
(* of what waits could be accepted.                                         *)
LEMMA LegacyPass ==
  ASSUME Legacy!LegacyAssumption, NEW s, StateOk(blocks, s), NEW q \in Seq(Legacy!Ids), NEW seq \in [Legacy!Ids -> Nat]
  PROVE  LET r == Legacy!Pass(s, q, seq) IN
         /\ StateOk(blocks, r) /\ r.chain = s.chain
         /\ Legacy!ToSet(r.order) \subseteq Legacy!ToSet(s.order) \cup Legacy!ToSet(q)
         /\ \/ r = s /\ \A i \in DOMAIN q : ~Legacy!Acceptable(s, q[i])
            \/ Len(r.order) > Len(s.order)
<1> DEFINE f == LegacyOffers(s, q, seq)
           Good(i, r) == /\ StateOk(blocks, r) /\ r.chain = s.chain
                         /\ Legacy!ToSet(r.order) \subseteq Legacy!ToSet(s.order) \cup Legacy!ToSet(q)
                         /\ \/ r = s /\ \A j \in 1..i : ~Legacy!Acceptable(s, q[j])
                            \/ Len(r.order) > Len(s.order)
           N == {i \in Nat : i <= Len(q) => Good(i, f[i])}
<1>1. /\ f[0] = s /\ Legacy!Pass(s, q, seq) = f[Len(q)]
      /\ \A i \in 1..Len(q) : f[i] = IF Legacy!Acceptable(f[i - 1], q[i]) THEN Legacy!AcceptTxInto(f[i - 1], q[i], seq[q[i]]) ELSE f[i - 1]
  BY LegacyOffersEquation
<1> HIDE DEF f
<1>2. 0 \in N
  BY <1>1
<1>3. ASSUME NEW i \in N PROVE i + 1 \in N
  <2> SUFFICES ASSUME i + 1 <= Len(q) PROVE Good(i + 1, f[i + 1])
    OBVIOUS
  <2>a. i \in Nat /\ (i <= Len(q) => Good(i, f[i]))
    BY <1>3
  <2>b. Len(q) \in Nat /\ DOMAIN q = 1..Len(q)
    OBVIOUS
  <2>c. i <= Len(q) /\ i + 1 \in 1..Len(q) /\ (i + 1) - 1 = i
    BY <2>a, <2>b
  <2>d. q[i + 1] \in Legacy!Ids /\ q[i + 1] \in Legacy!ToSet(q)
    BY <2>b, <2>c DEF Legacy!ToSet
  <2> HIDE DEF Good
  <2>1. Good(i, f[i]) /\ i + 1 \in 1..Len(q) /\ (i + 1) - 1 = i /\ q[i + 1] \in Legacy!Ids /\ q[i + 1] \in Legacy!ToSet(q)
    BY <2>a, <2>c, <2>d
  <2> USE DEF Good
  <2>2. CASE Legacy!Acceptable(f[i], q[i + 1])
    <3> DEFINE r == Legacy!AcceptTxInto(f[i], q[i + 1], seq[q[i + 1]])
    <3>1. f[i + 1] = r
      BY <1>1, <2>1, <2>2
    <3>2. /\ StateOk(blocks, r) /\ r.chain = f[i].chain
          /\ Len(r.order) = Len(f[i].order) + 1 /\ Legacy!ToSet(r.order) = Legacy!ToSet(f[i].order) \cup {q[i + 1]}
      <4>1. StateOk(blocks, f[i]) /\ seq[q[i + 1]] \in Nat
        BY <2>1
      <4> HIDE DEF Good
      <4> QED BY <2>1, <2>2, <4>1, LegacyAccepts
    <3> HIDE DEF r
    <3>3. f[i].order \in Seq(Legacy!Ids) /\ s.order \in Seq(Legacy!Ids)
      BY <2>1 DEF StateOk, PendingOk, InOrder
    <3>4. Len(r.order) > Len(s.order)
      BY <2>1, <3>2, <3>3
    <3> QED BY <2>1, <3>1, <3>2, <3>4
  <2>3. CASE ~Legacy!Acceptable(f[i], q[i + 1])
    <3>1. f[i + 1] = f[i]
      BY <1>1, <2>1, <2>3
    <3>2. CASE f[i] = s /\ \A j \in 1..i : ~Legacy!Acceptable(s, q[j])
      <4>1. \A j \in 1..(i + 1) : ~Legacy!Acceptable(s, q[j])
        BY <2>3, <3>2
      <4> QED BY <2>1, <3>1, <3>2, <4>1
    <3> QED BY <2>1, <3>1, <3>2
  <2> QED BY <2>2, <2>3
<1>4. N = Nat
  BY <1>2, <1>3, SetInduction
<1>5. Good(Len(q), f[Len(q)])
  BY <1>4
<1>6. DOMAIN q = 1..Len(q)
  OBVIOUS
<1> QED BY <1>1, <1>5, <1>6

(* A pass in which nothing could be accepted accepts nothing.               *)
LEMMA PassRefuses ==
  ASSUME NEW s, NEW q \in Seq(Legacy!Ids), NEW seq, \A i \in DOMAIN q : ~Legacy!Acceptable(s, q[i])
  PROVE  Legacy!Pass(s, q, seq) = s
<1> DEFINE f == LegacyOffers(s, q, seq)
           N == {i \in Nat : i <= Len(q) => f[i] = s}
<1>1. /\ f[0] = s /\ Legacy!Pass(s, q, seq) = f[Len(q)]
      /\ \A i \in 1..Len(q) : f[i] = IF Legacy!Acceptable(f[i - 1], q[i]) THEN Legacy!AcceptTxInto(f[i - 1], q[i], seq[q[i]]) ELSE f[i - 1]
  BY LegacyOffersEquation
<1> HIDE DEF f
<1>2. 0 \in N
  BY <1>1
<1>3. ASSUME NEW i \in N PROVE i + 1 \in N
  <2> SUFFICES ASSUME i + 1 <= Len(q) PROVE f[i + 1] = s
    OBVIOUS
  <2>1. f[i] = s /\ i + 1 \in 1..Len(q) /\ (i + 1) - 1 = i /\ ~Legacy!Acceptable(s, q[i + 1])
    OBVIOUS
  <2> QED BY <1>1, <2>1
<1>4. N = Nat
  BY <1>2, <1>3, SetInduction
<1> QED BY <1>1, <1>4

(* What a state knows is finite.                                            *)
LEMMA KnownFinite ==
  ASSUME NEW b, \A h \in DOMAIN b : b[h].txids \in Seq(Legacy!Ids), NEW s, StateOk(b, s)
  PROVE  IsFiniteSet(ConfirmedIn(b, s)) /\ IsFiniteSet(KnownIn(b, s)) /\ IsFiniteSet(Legacy!ToSet(s.chain))
<1>1. \A T : \A q \in Seq(T) : IsFiniteSet(Legacy!ToSet(q))
  <2>1. SUFFICES ASSUME NEW T, NEW q \in Seq(T) PROVE IsFiniteSet(Legacy!ToSet(q))
    OBVIOUS
  <2>2. IsFiniteSet(1..Len(q)) /\ DOMAIN q = 1..Len(q)
    BY FS_Interval
  <2>3. q \in Surjection(1..Len(q), Legacy!ToSet(q))
    BY <2>2 DEF Surjection, Legacy!ToSet
  <2> QED BY <2>2, <2>3, FS_Surjection
<1>2. s.chain \in Seq(DOMAIN b) /\ s.order \in Seq(Legacy!Ids)
  BY DEF StateOk, PastOk, PendingOk, InOrder
<1> DEFINE parts == {Legacy!ToSet(b[s.chain[i]].txids) : i \in DOMAIN s.chain}
           g == [i \in DOMAIN s.chain |-> Legacy!ToSet(b[s.chain[i]].txids)]
<1>3. IsFiniteSet(parts)
  <2>1. DOMAIN s.chain = 1..Len(s.chain) /\ IsFiniteSet(1..Len(s.chain))
    BY <1>2, FS_Interval
  <2>2. g \in Surjection(1..Len(s.chain), parts)
    BY <2>1 DEF Surjection
  <2> QED BY <2>1, <2>2, FS_Surjection
<1>4. \A P \in parts : IsFiniteSet(P)
  <2>1. SUFFICES ASSUME NEW i \in DOMAIN s.chain PROVE IsFiniteSet(Legacy!ToSet(b[s.chain[i]].txids))
    OBVIOUS
  <2>2. b[s.chain[i]].txids \in Seq(Legacy!Ids)
    BY <1>2
  <2> QED BY <1>1, <2>2
<1>5. IsFiniteSet(ConfirmedIn(b, s))
  BY <1>3, <1>4, FS_UNION DEF ConfirmedIn
<1>6. IsFiniteSet(Legacy!ToSet(s.order)) /\ IsFiniteSet(Legacy!ToSet(s.chain))
  BY <1>1, <1>2
<1> QED BY <1>5, <1>6, FS_Union DEF KnownIn

(* Reconciling leaves a state that is in order and takes no more of what    *)
(* the other one knew: every pass accepts something until none could.       *)
LEMMA LegacyReconciles ==
  ASSUME Legacy!LegacyAssumption, \A h \in DOMAIN blocks : blocks[h].txids \in Seq(Legacy!Ids),
         NEW candidate, StateOk(blocks, candidate), candidate.order = <<>>, NEW previous, StateOk(blocks, previous)
  PROVE  LET r == Legacy!Reconcile(candidate, previous) IN
         /\ StateOk(blocks, r) /\ r.chain = candidate.chain
         /\ \A t \in KnownIn(blocks, previous) : ~Legacy!Acceptable(r, t)
<1> DEFINE D == Legacy!Detached(candidate, previous)
           q == Legacy!Ordered(previous, D)
           n == Cardinality(D)
           f == LegacyPasses(candidate, previous)
           Stuck(s) == \A t \in D : ~Legacy!Acceptable(s, t)
           Good(k, s) == /\ StateOk(blocks, s) /\ s.chain = candidate.chain /\ Legacy!ToSet(s.order) \subseteq D
                         /\ Stuck(s) \/ Len(s.order) >= k
           N == {k \in Nat : k <= n => Good(k, f[k])}
<1>1. D = KnownIn(blocks, previous) \ ConfirmedIn(blocks, candidate) /\ D \subseteq Legacy!Ids
  <2>1. D = KnownIn(blocks, previous) \ ConfirmedIn(blocks, candidate)
    BY LegacyWords DEF Legacy!Detached, KnownIn
  <2>2. ConfirmedIn(blocks, previous) \subseteq Legacy!Ids /\ previous.order \in Seq(Legacy!Ids)
    BY DEF StateOk, PastOk, PendingOk, InOrder
  <2> QED BY <2>1, <2>2 DEF KnownIn, Legacy!ToSet
<1> HIDE DEF D
<1>2. IsFiniteSet(D)
  BY <1>1, KnownFinite, FS_Subset
<1>3. n \in Nat /\ q \in [1..n -> D] /\ Len(q) = n /\ \A t \in D : \E k \in 1..n : t = q[k]
  <2>1. D \in SUBSET KnownIn(blocks, previous)
    BY <1>1
  <2> QED BY <1>2, <2>1, LegacyOrdered
<1>4. f[0] = candidate /\ Legacy!Reconcile(candidate, previous) = f[n] /\ \A k \in 1..n : f[k] = Legacy!Pass(f[k - 1], q, previous.seq)
  BY <1>3, LegacyPassesEquation DEF D
<1>5. q \in Seq(Legacy!Ids) /\ Legacy!ToSet(q) = D /\ DOMAIN q = 1..n
  <2>1. q \in [1..n -> Legacy!Ids]
    BY <1>1, <1>3
  <2> QED BY <1>3, <2>1 DEF Legacy!ToSet
<1>6. previous.seq \in [Legacy!Ids -> Nat]
  BY DEF StateOk, NumbersOk
<1> HIDE DEF f, q, n
<1>7. 0 \in N
  BY <1>4 DEF Legacy!ToSet
<1>8. ASSUME NEW k \in N PROVE k + 1 \in N
  <2> SUFFICES ASSUME k + 1 <= n PROVE Good(k + 1, f[k + 1])
    OBVIOUS
  <2> DEFINE r == Legacy!Pass(f[k], q, previous.seq)
  <2>1. Good(k, f[k]) /\ k + 1 \in 1..n /\ (k + 1) - 1 = k /\ k \in Nat
    BY <1>3
  <2>2. f[k + 1] = r
    BY <1>4, <2>1
  <2>3. /\ StateOk(blocks, r) /\ r.chain = f[k].chain
        /\ Legacy!ToSet(r.order) \subseteq Legacy!ToSet(f[k].order) \cup Legacy!ToSet(q)
        /\ \/ r = f[k] /\ \A i \in DOMAIN q : ~Legacy!Acceptable(f[k], q[i])
           \/ Len(r.order) > Len(f[k].order)
    BY <1>5, <1>6, <2>1, LegacyPass
  <2> HIDE DEF r
  <2>4. CASE r = f[k] /\ \A i \in DOMAIN q : ~Legacy!Acceptable(f[k], q[i])
    <3>1. Stuck(f[k])
      BY <1>3, <1>5, <2>4
    <3> QED BY <2>1, <2>2, <2>4, <3>1
  <2>5. CASE Len(r.order) > Len(f[k].order)
    <3>1. r.order \in Seq(Legacy!Ids) /\ f[k].order \in Seq(Legacy!Ids)
      BY <2>1, <2>3 DEF StateOk, PendingOk, InOrder
    <3>2. ~Stuck(f[k])
      <4>1. SUFFICES ASSUME Stuck(f[k]) PROVE FALSE
        OBVIOUS
      <4>2. \A i \in DOMAIN q : ~Legacy!Acceptable(f[k], q[i])
        BY <1>3, <1>5, <4>1
      <4>3. r = f[k]
        BY <1>5, <4>2, PassRefuses DEF r
      <4> QED BY <2>5, <3>1, <4>3
    <3>3. Len(r.order) >= k + 1
      BY <2>1, <2>5, <3>1, <3>2
    <3> QED BY <1>5, <2>1, <2>2, <2>3, <3>3
  <2> QED BY <2>3, <2>4, <2>5
<1>9. N = Nat
  BY <1>7, <1>8, SetInduction
<1>10. Good(n, f[n])
  BY <1>3, <1>9
<1> DEFINE r == f[n]
<1>11. Stuck(r)
  <2>1. SUFFICES ASSUME Len(r.order) >= n PROVE Stuck(r)
    BY <1>10
  <2>2. r.order \in Seq(Legacy!Ids) /\ \A i, j \in DOMAIN r.order : r.order[i] = r.order[j] => i = j
    BY <1>10 DEF StateOk, PendingOk, InOrder
  <2>3. r.order \in Injection(1..Len(r.order), D)
    BY <1>10, <2>2 DEF Injection, IsInjective, Legacy!ToSet
  <2>z. Len(r.order) \in Nat
    BY <2>2
  <2>4. Cardinality(1..Len(r.order)) = Len(r.order) /\ Len(r.order) \in Nat
    <3> DEFINE l == Len(r.order)
    <3>1. l \in Nat /\ 1 \in Int /\ l \in Int
      BY <2>z
    <3> HIDE DEF l
    <3>2. Cardinality(1..l) = IF 1 > l THEN 0 ELSE l - 1 + 1
      BY <3>1, FS_Interval
    <3>3. Cardinality(1..l) = l
      BY <3>1, <3>2
    <3> QED BY <3>1, <3>3 DEF l
  <2>5. Cardinality(1..Len(r.order)) <= n /\ (Cardinality(1..Len(r.order)) = n <=> r.order \in Surjection(1..Len(r.order), D))
    BY <1>2, <2>3, FS_Injection DEF n
  <2>6. r.order \in Surjection(1..Len(r.order), D)
    BY <1>3, <2>1, <2>4, <2>5
  <2>7. D \subseteq Legacy!ToSet(r.order)
    BY <2>2, <2>6 DEF Surjection, Legacy!ToSet
  <2> QED BY <2>7, LegacyWords DEF Legacy!Acceptable
<1>12. ASSUME NEW t \in ConfirmedIn(blocks, candidate) PROVE ~Legacy!Acceptable(r, t)
  <2>1. ConfirmedIn(blocks, r) = ConfirmedIn(blocks, candidate)
    BY <1>10 DEF ConfirmedIn
  <2> QED BY <1>12, <2>1, LegacyWords DEF Legacy!Acceptable
<1> QED BY <1>1, <1>4, <1>10, <1>11, <1>12

(* The first k of what is pending, in the order it has, come after what     *)
(* they spend, and no two spend the same.                                   *)
LEMMA PrefixApplies ==
  ASSUME NEW s, StateOk(blocks, s), NEW k \in 0..Len(s.order)
  PROVE  LET p == SubSeq(s.order, 1, k) IN
         /\ p \in Seq(Legacy!Ids) /\ Legacy!ToSet(p) \subseteq Legacy!ToSet(s.order) /\ Legacy!Applies(s, p)
         /\ \A t \in Legacy!ToSet(p) : Txs[t].inputs \subseteq UnspentIn(blocks, s) \cup Legacy!ToSet(p)
<1> DEFINE q == s.order
           p == SubSeq(q, 1, k)
<1>1. /\ q \in Seq(Legacy!Ids) /\ DOMAIN q = 1..Len(q) /\ Len(q) \in Nat /\ k \in Nat /\ k <= Len(q)
      /\ \A i, j \in DOMAIN q : i # j => Txs[q[i]].inputs \cap Txs[q[j]].inputs = {}
      /\ \A i \in DOMAIN q : \A o \in Txs[q[i]].inputs : o \in UnspentIn(blocks, s) \/ \E j \in DOMAIN q : j < i /\ q[j] = o
  <2>1. InOrder(q, ConfirmedIn(blocks, s), UnspentIn(blocks, s))
    BY DEF StateOk, PendingOk
  <2>2. q \in Seq(Legacy!Ids)
    BY <2>1 DEF InOrder
  <2> HIDE DEF q, p
  <2>3. DOMAIN q = 1..Len(q) /\ Len(q) \in Nat
    BY <2>2
  <2>4. k \in Nat /\ k <= Len(q)
    BY <2>3 DEF q
  <2> QED BY <2>1, <2>2, <2>3, <2>4 DEF InOrder
<1>2. /\ Len(p) = k /\ DOMAIN p = 1..k /\ p \in Seq(Legacy!Ids)
      /\ \A i \in 1..k : p[i] = q[i] /\ i \in DOMAIN q
  BY <1>1
<1> HIDE DEF p, q
<1>3. ASSUME NEW i \in 1..k
      PROVE  LET before == Legacy!ToSet(SubSeq(p, 1, i - 1)) IN
             /\ Txs[p[i]].inputs \subseteq (UnspentIn(blocks, s) \cup before) \ Legacy!InputsOf(before)
             /\ before \subseteq Legacy!ToSet(p)
  <2> DEFINE r == SubSeq(p, 1, i - 1)
             before == Legacy!ToSet(r)
  <2>1. DOMAIN r = 1..(i - 1) /\ \A j \in 1..(i - 1) : r[j] = p[j]
    BY <1>1, <1>2, <1>3
  <2> HIDE DEF r
  <2>2. before = {q[j] : j \in 1..(i - 1)} /\ \A j \in 1..(i - 1) : j \in 1..k /\ j \in DOMAIN q /\ j # i
    BY <1>1, <1>2, <1>3, <2>1 DEF Legacy!ToSet
  <2>3. before \subseteq Legacy!ToSet(p)
    BY <1>2, <2>2 DEF Legacy!ToSet
  <2>4. ASSUME NEW o \in Txs[p[i]].inputs PROVE o \in UnspentIn(blocks, s) \cup before /\ o \notin Legacy!InputsOf(before)
    <3>1. o \in Txs[q[i]].inputs /\ i \in DOMAIN q
      BY <1>2, <1>3, <2>4
    <3>2. o \in UnspentIn(blocks, s) \/ \E j \in DOMAIN q : j < i /\ q[j] = o
      BY <1>1, <3>1
    <3>3. (\E j \in DOMAIN q : j < i /\ q[j] = o) => o \in before
      BY <1>1, <1>3, <2>2
    <3>4. \A j \in 1..(i - 1) : o \notin Txs[q[j]].inputs
      BY <1>1, <2>2, <3>1
    <3>5. o \notin Legacy!InputsOf(before)
      BY <2>2, <3>4 DEF Legacy!InputsOf
    <3> QED BY <3>2, <3>3, <3>5
  <2> QED BY <2>3, <2>4 DEF r
<1>4. Legacy!Applies(s, p)
  BY <1>2, <1>3, LegacyWords DEF Legacy!Applies
<1>5. \A t \in Legacy!ToSet(p) : Txs[t].inputs \subseteq UnspentIn(blocks, s) \cup Legacy!ToSet(p)
  <2>1. SUFFICES ASSUME NEW i \in 1..k PROVE Txs[p[i]].inputs \subseteq UnspentIn(blocks, s) \cup Legacy!ToSet(p)
    BY <1>2 DEF Legacy!ToSet
  <2> QED BY <1>3
<1>6. Legacy!ToSet(p) \subseteq Legacy!ToSet(q)
  BY <1>2 DEF Legacy!ToSet
<1> QED BY <1>2, <1>4, <1>5, <1>6 DEF p, q

(* The template is such a beginning, and so is what a miner has of it.      *)
LEMMA TemplateIsPrefix ==
  ASSUME Legacy!LegacyAssumption, NEW s, StateOk(blocks, s)
  PROVE  /\ \E k \in 0..Len(s.order) : Legacy!Template(s) = SubSeq(s.order, 1, k)
         /\ \A txids \in Legacy!Offered(s) : \E k \in 0..Len(s.order) : txids = SubSeq(s.order, 1, k)
<1> DEFINE q == s.order
           n == IF Len(q) < MaxTxsPerBlock THEN Len(q) ELSE MaxTxsPerBlock
<1>1. q \in Seq(Legacy!Ids) /\ Len(q) \in Nat /\ MaxTxsPerBlock \in Nat
  BY DEF StateOk, PendingOk, InOrder, Legacy!LegacyAssumption
<1>2. n \in 0..Len(q) /\ Legacy!Template(s) = SubSeq(q, 1, n)
  BY <1>1 DEF Legacy!Template
<1> HIDE DEF n, q
<1>3. ASSUME NEW txids \in Legacy!Offered(s) PROVE \E k \in 0..Len(q) : txids = SubSeq(q, 1, k)
  <2> DEFINE p == SubSeq(q, 1, n)
  <2>1. Len(p) = n
    BY <1>1, <1>2
  <2>2. PICK k \in 0..n : txids = SubSeq(p, 1, k)
    BY <1>2, <1>3, <2>1 DEF Legacy!Offered
  <2>3. k \in 0..Len(q) /\ SubSeq(p, 1, k) = SubSeq(q, 1, k)
    <3>1. k \in Nat /\ n \in Nat /\ k <= n /\ n <= Len(q)
      BY <1>1, <1>2
    <3>2. DOMAIN p = 1..n /\ \A i \in 1..n : p[i] = q[i]
      BY <1>1, <1>2
    <3>3. SubSeq(p, 1, k) = [i \in 1..k |-> p[i]] /\ SubSeq(q, 1, k) = [i \in 1..k |-> q[i]]
      BY <1>1, <2>1, <3>1
    <3>4. \A i \in 1..k : p[i] = q[i]
      BY <3>1, <3>2
    <3> HIDE DEF p
    <3> QED BY <1>1, <3>1, <3>3, <3>4
  <2> QED BY <2>2, <2>3
<1> QED BY <1>2, <1>3 DEF q

(* The invariant.  Every state a node has, in memory, in its file or        *)
(* fetched, is in order, and knows what it said yes to.                     *)
LegacyNodeOk(n) ==
    /\ StateOk(blocks, state[n]) /\ StateOk(blocks, file[n])
    /\ syncing[n] # None => StateOk(blocks, syncing[n]) /\ syncing[n].order = <<>>
    /\ told[n] \subseteq Legacy!Ids /\ told[n] \subseteq KnownIn(blocks, state[n]) /\ told[n] \subseteq KnownIn(blocks, file[n])
BlocksOk(b) == DOMAIN b \subseteq Hashes /\ \A h \in DOMAIN b : b[h].txids \in Seq(Legacy!Ids)
LegacyShape ==
    /\ state = [n \in Nodes |-> state[n]] /\ file = [n \in Nodes |-> file[n]]
    /\ syncing = [n \in Nodes |-> syncing[n]] /\ told = [n \in Nodes |-> told[n]]
    /\ crashes \in 0..MaxCrashes /\ failures \in 0..MaxFailures
LegacyInv == BlocksOk(blocks) /\ LegacyShape /\ \A n \in Nodes : LegacyNodeOk(n)

(* What a persisted state leaves: the node has it, and the file has it or   *)
(* what it had.                                                             *)
LEMMA LegacyPersists ==
  ASSUME Legacy!LegacyAssumption, LegacyInv, Extends(blocks, blocks'), BlocksOk(blocks'), NEW n \in Nodes, NEW s, NEW yes,
         StateOk(blocks', s), yes \subseteq Legacy!Ids, yes \subseteq KnownIn(blocks', s),
         Legacy!Persist(n, s, yes), syncing' = syncing, crashes' = crashes
  PROVE  LegacyInv'
<1>1. /\ state' = [state EXCEPT ![n] = s] /\ LegacyShape
      /\ \/ file' = [file EXCEPT ![n] = s] /\ told' = [told EXCEPT ![n] = yes] /\ failures' = failures
         \/ file' = file /\ told' = [told EXCEPT ![n] = yes \cap told[n]] /\ failures < MaxFailures /\ failures' = failures + 1
  BY DEF Legacy!Persist, Legacy!Write, Legacy!Fails, LegacyInv, LegacyShape
<1>2. LegacyShape'
  BY <1>1 DEF LegacyShape, Legacy!LegacyAssumption
<1>3. ASSUME NEW m \in Nodes PROVE LegacyNodeOk(m)'
  <2>1. LegacyNodeOk(m)
    BY DEF LegacyInv
  <2>2. /\ StateOk(blocks', state[m]) /\ StateOk(blocks', file[m])
        /\ KnownIn(blocks', state[m]) = KnownIn(blocks, state[m]) /\ KnownIn(blocks', file[m]) = KnownIn(blocks, file[m])
        /\ syncing[m] # None => StateOk(blocks', syncing[m])
    BY <2>1, LegacyGrows DEF LegacyNodeOk
  <2>3. CASE m = n
    <3>1. /\ state'[m] = s
          /\ (file'[m] = s /\ told'[m] = yes) \/ (file'[m] = file[m] /\ told'[m] = yes \cap told[m])
      BY <1>1, <2>3 DEF LegacyShape
    <3> QED BY <2>1, <2>2, <3>1 DEF LegacyNodeOk
  <2>4. CASE m # n
    <3>1. state'[m] = state[m] /\ file'[m] = file[m] /\ told'[m] = told[m]
      BY <1>1, <2>4 DEF LegacyShape
    <3> QED BY <2>1, <2>2, <3>1 DEF LegacyNodeOk
  <2> QED BY <2>3, <2>4
<1> QED BY <1>2, <1>3 DEF LegacyInv, BlocksOk

LEMMA LegacyInitially == ASSUME Legacy!LegacyAssumption, Legacy!Init PROVE LegacyInv
<1>1. /\ state = [n \in Nodes |-> Legacy!Empty] /\ file = [n \in Nodes |-> Legacy!Empty] /\ told = [n \in Nodes |-> {}]
      /\ syncing = [n \in Nodes |-> None] /\ blocks = <<>> /\ crashes = 0 /\ failures = 0
  BY DEF Legacy!Init
<1>2. DOMAIN blocks = {}
  BY <1>1
<1>3. StateOk(blocks, Legacy!Empty)
  <2> DEFINE e == Legacy!Empty
  <2>1. e.chain = <<>> /\ e.order = <<>> /\ e.last = 0 /\ e.seq = [t \in Legacy!Ids |-> 0]
        /\ e = [chain |-> e.chain, order |-> e.order, seq |-> e.seq, last |-> e.last]
    BY DEF Legacy!Empty
  <2> HIDE DEF e
  <2>2. ConfirmedIn(blocks, e) = {} /\ Legacy!ToSet(e.order) = {} /\ DOMAIN e.order = {}
    BY <2>1 DEF ConfirmedIn, Legacy!ToSet
  <2>3. PastOk(blocks, e)
    BY <2>1, <2>2 DEF PastOk
  <2>4. PendingOk(blocks, e)
    BY <2>1, <2>2 DEF PendingOk, InOrder
  <2>5. NumbersOk(e)
    BY <2>1, <2>2 DEF NumbersOk
  <2> QED BY <2>3, <2>4, <2>5 DEF StateOk, e
<1>4. BlocksOk(blocks)
  BY <1>2 DEF BlocksOk
<1>5. LegacyShape
  BY <1>1 DEF LegacyShape, Legacy!LegacyAssumption
<1>6. \A n \in Nodes : LegacyNodeOk(n)
  BY <1>1, <1>3 DEF LegacyNodeOk
<1> QED BY <1>4, <1>5, <1>6 DEF LegacyInv

LEMMA LegacySubmits ==
  ASSUME Legacy!LegacyAssumption, LegacyInv, NEW n \in Nodes, NEW t \in Legacy!Ids, Legacy!SubmitTx(n, t)
  PROVE  LegacyInv'
<1> DEFINE s == Legacy!AcceptTxInto(state[n], t, 0)
<1>1. /\ Legacy!Acceptable(state[n], t) /\ Legacy!Persist(n, s, told[n] \cup {t})
      /\ syncing' = syncing /\ blocks' = blocks /\ crashes' = crashes
  BY DEF Legacy!SubmitTx
<1>2. LegacyNodeOk(n) /\ BlocksOk(blocks) /\ Extends(blocks, blocks)
  BY DEF LegacyInv, Extends
<1>3. StateOk(blocks, s) /\ s.chain = state[n].chain /\ Legacy!ToSet(s.order) = Legacy!ToSet(state[n].order) \cup {t}
  BY <1>1, <1>2, LegacyAccepts DEF LegacyNodeOk
<1> HIDE DEF s
<1>4. KnownIn(blocks, s) = KnownIn(blocks, state[n]) \cup {t}
  BY <1>3 DEF KnownIn, ConfirmedIn
<1>5. told[n] \cup {t} \subseteq Legacy!Ids /\ told[n] \cup {t} \subseteq KnownIn(blocks, s)
  BY <1>2, <1>4 DEF LegacyNodeOk
<1> QED BY <1>1, <1>2, <1>3, <1>5, LegacyPersists

LEMMA LegacyMines ==
  ASSUME Legacy!LegacyAssumption, LegacyInv, NEW n \in Nodes, NEW h \in Hashes, NEW txids \in Legacy!Offered(state[n]),
         Legacy!SubmitBlock(n, h, txids)
  PROVE  LegacyInv'
<1> DEFINE s == Legacy!AppendBlock(state[n], h, txids)
<1>1. /\ h \notin DOMAIN blocks /\ Legacy!Persist(n, s, told[n]) /\ syncing' = syncing /\ crashes' = crashes
      /\ blocks' = [g \in DOMAIN blocks \cup {h} |-> IF g = h THEN [prev |-> Legacy!Tip(state[n]), txids |-> txids] ELSE blocks[g]]
  BY DEF Legacy!SubmitBlock
<1> HIDE DEF s
<1>2. LegacyNodeOk(n) /\ BlocksOk(blocks)
  BY DEF LegacyInv
<1>3. PICK k \in 0..Len(state[n].order) : txids = SubSeq(state[n].order, 1, k)
  BY <1>2, TemplateIsPrefix DEF LegacyNodeOk
<1>4. /\ txids \in Seq(Legacy!Ids) /\ Legacy!ToSet(txids) \subseteq Legacy!ToSet(state[n].order)
      /\ \A t \in Legacy!ToSet(txids) : Txs[t].inputs \subseteq UnspentIn(blocks, state[n]) \cup Legacy!ToSet(txids)
  BY <1>2, <1>3, PrefixApplies DEF LegacyNodeOk
<1>5. /\ DOMAIN blocks' = DOMAIN blocks \cup {h} /\ h \in DOMAIN blocks' /\ blocks'[h].txids = txids
      /\ \A g \in DOMAIN blocks : blocks'[g] = blocks[g]
  BY <1>1
<1>6. Extends(blocks, blocks')
  BY <1>5 DEF Extends
<1>7. BlocksOk(blocks')
  BY <1>2, <1>4, <1>5 DEF BlocksOk
<1>8. StateOk(blocks', s) /\ KnownIn(blocks', s) = KnownIn(blocks, state[n])
  BY <1>2, <1>4, <1>5, <1>6, LegacyAppends DEF s, LegacyNodeOk, BlocksOk
<1>9. told[n] \subseteq Legacy!Ids /\ told[n] \subseteq KnownIn(blocks', s)
  BY <1>2, <1>8 DEF LegacyNodeOk
<1> QED BY <1>1, <1>6, <1>7, <1>8, <1>9, LegacyPersists

LEMMA LegacyReceives ==
  ASSUME Legacy!LegacyAssumption, LegacyInv, NEW n \in Nodes, NEW h \in DOMAIN blocks, Legacy!ReceiveBlock(n, h)
  PROVE  LegacyInv'
<1> DEFINE txids == blocks[h].txids
           s == Legacy!AppendBlock(state[n], h, txids)
<1>1. /\ Legacy!ToSet(txids) \subseteq Legacy!Pending(state[n]) /\ Legacy!Applies(state[n], txids)
      /\ Legacy!Persist(n, s, told[n]) /\ syncing' = syncing /\ crashes' = crashes /\ blocks' = blocks
  BY DEF Legacy!ReceiveBlock
<1>2. LegacyNodeOk(n) /\ BlocksOk(blocks) /\ Extends(blocks, blocks)
  BY DEF LegacyInv, Extends
<1>3. txids \in Seq(Legacy!Ids) /\ Legacy!ToSet(txids) \subseteq Legacy!ToSet(state[n].order)
  BY <1>1, <1>2, LegacyWords DEF BlocksOk
<1> HIDE DEF s, txids
<1>4. ASSUME NEW i \in DOMAIN txids PROVE Txs[txids[i]].inputs \subseteq UnspentIn(blocks, state[n]) \cup Legacy!ToSet(txids)
  <2> DEFINE before == Legacy!ToSet(SubSeq(txids, 1, i - 1))
  <2>1. Txs[txids[i]].inputs \subseteq UnspentIn(blocks, state[n]) \cup before
    BY <1>1, <1>4, LegacyWords DEF Legacy!Applies
  <2>2. before \subseteq Legacy!ToSet(txids)
    <3> DEFINE r == SubSeq(txids, 1, i - 1)
    <3>1. i \in 1..Len(txids) /\ Len(txids) \in Nat
      BY <1>3, <1>4
    <3>2. DOMAIN r = 1..(i - 1) /\ \A j \in 1..(i - 1) : r[j] = txids[j] /\ j \in DOMAIN txids
      BY <1>3, <3>1
    <3> QED BY <3>2 DEF Legacy!ToSet
  <2> QED BY <2>1, <2>2
<1>5. \A t \in Legacy!ToSet(txids) : Txs[t].inputs \subseteq UnspentIn(blocks, state[n]) \cup Legacy!ToSet(txids)
  BY <1>4 DEF Legacy!ToSet
<1>6. StateOk(blocks, s) /\ KnownIn(blocks, s) = KnownIn(blocks, state[n])
  BY <1>2, <1>3, <1>5, LegacyAppends DEF s, txids, LegacyNodeOk, BlocksOk
<1>7. told[n] \subseteq Legacy!Ids /\ told[n] \subseteq KnownIn(blocks, s)
  BY <1>2, <1>6 DEF LegacyNodeOk
<1> QED BY <1>1, <1>2, <1>6, <1>7, LegacyPersists

(* What was fetched has nothing pending, and its records keep their places. *)
LEMMA LegacyFetches ==
  ASSUME Legacy!LegacyAssumption, LegacyInv, NEW n \in Nodes, NEW m \in Nodes, Legacy!SyncFetch(n, m)
  PROVE  LegacyInv'
<1> DEFINE s == Legacy!Fetched(state[m])
<1>1. /\ syncing' = [syncing EXCEPT ![n] = s] /\ state' = state /\ file' = file /\ blocks' = blocks /\ told' = told
      /\ crashes' = crashes /\ failures' = failures
  BY DEF Legacy!SyncFetch
<1>2. LegacyNodeOk(m) /\ LegacyShape
  BY DEF LegacyInv
<1>3. /\ s.chain = state[m].chain /\ s.order = <<>> /\ s.last = 0
      /\ s.seq = [t \in Legacy!Ids |-> IF t \in Legacy!Confirmed(state[m]) THEN state[m].seq[t] ELSE 0]
      /\ s = [chain |-> s.chain, order |-> s.order, seq |-> s.seq, last |-> s.last]
  BY DEF Legacy!Fetched
<1> HIDE DEF s
<1>4. StateOk(blocks, s)
  <2>1. ConfirmedIn(blocks, s) = ConfirmedIn(blocks, state[m]) /\ MadeIn(blocks, s) = MadeIn(blocks, state[m])
    BY <1>3 DEF ConfirmedIn, MadeIn
  <2>2. Legacy!ToSet(s.order) = {} /\ DOMAIN s.order = {}
    BY <1>3 DEF Legacy!ToSet
  <2>3. PastOk(blocks, s)
    BY <1>2, <1>3, <2>1 DEF LegacyNodeOk, StateOk, PastOk
  <2>4. PendingOk(blocks, s)
    BY <1>3, <2>2 DEF PendingOk, InOrder
  <2>5. NumbersOk(s)
    BY <1>2, <1>3, <2>2 DEF NumbersOk, LegacyNodeOk, StateOk
  <2> QED BY <2>3, <2>4, <2>5 DEF StateOk
<1>5. ASSUME NEW x \in Nodes PROVE LegacyNodeOk(x)'
  <2>1. syncing'[x] = syncing[x] \/ syncing'[x] = s
    BY <1>1, <1>2 DEF LegacyShape
  <2> QED BY <1>1, <1>3, <1>4, <2>1 DEF LegacyInv, LegacyNodeOk
<1>6. LegacyShape'
  BY <1>1, <1>2 DEF LegacyShape
<1> QED BY <1>1, <1>5, <1>6 DEF LegacyInv, BlocksOk

LEMMA LegacyAdopts ==
  ASSUME Legacy!LegacyAssumption, LegacyInv, NEW n \in Nodes, Legacy!Adopt(n)
  PROVE  LegacyInv'
<1>1. syncing[n] # None /\ syncing' = [syncing EXCEPT ![n] = None] /\ blocks' = blocks /\ crashes' = crashes
  BY DEF Legacy!Adopt
<1>2. LegacyNodeOk(n) /\ LegacyShape /\ BlocksOk(blocks)
  BY DEF LegacyInv
<1>3. CASE Legacy!Preferred(syncing[n], state[n])
  <2> DEFINE s == Legacy!Reconcile(syncing[n], state[n])
             yes == told[n] \cap (Legacy!Confirmed(s) \cup Legacy!Pending(s))
  <2>1. Legacy!Persist(n, s, yes)
    BY <1>3 DEF Legacy!Adopt
  <2>2. StateOk(blocks, s)
    BY <1>1, <1>2, LegacyReconciles DEF LegacyNodeOk, BlocksOk
  <2>3. yes \subseteq Legacy!Ids /\ yes \subseteq KnownIn(blocks, s)
    BY <1>2, LegacyWords DEF LegacyNodeOk, KnownIn
  <2> HIDE DEF s, yes
  <2>4. /\ state' = [state EXCEPT ![n] = s]
        /\ \/ file' = [file EXCEPT ![n] = s] /\ told' = [told EXCEPT ![n] = yes] /\ failures' = failures
           \/ file' = file /\ told' = [told EXCEPT ![n] = yes \cap told[n]] /\ failures < MaxFailures /\ failures' = failures + 1
    BY <1>2, <2>1 DEF Legacy!Persist, Legacy!Write, Legacy!Fails, LegacyShape
  <2>5. LegacyShape'
    <3>1. /\ state' = [m \in Nodes |-> state'[m]] /\ file' = [m \in Nodes |-> file'[m]]
          /\ told' = [m \in Nodes |-> told'[m]] /\ syncing' = [m \in Nodes |-> syncing'[m]]
      BY <1>1, <1>2, <2>4 DEF LegacyShape
    <3>2. crashes' \in 0..MaxCrashes /\ failures' \in 0..MaxFailures
      BY <1>1, <1>2, <2>4 DEF LegacyShape, Legacy!LegacyAssumption
    <3> QED BY <3>1, <3>2 DEF LegacyShape
  <2>6. ASSUME NEW m \in Nodes PROVE LegacyNodeOk(m)'
    <3>1. LegacyNodeOk(m)
      BY DEF LegacyInv
    <3>2. CASE m = n
      <4>1. /\ state'[m] = s /\ syncing'[m] = None
            /\ (file'[m] = s /\ told'[m] = yes) \/ (file'[m] = file[m] /\ told'[m] = yes \cap told[m])
        BY <1>1, <1>2, <2>4, <3>2 DEF LegacyShape
      <4> QED BY <1>1, <2>2, <2>3, <3>1, <4>1 DEF LegacyNodeOk
    <3>3. CASE m # n
      <4>1. state'[m] = state[m] /\ file'[m] = file[m] /\ told'[m] = told[m] /\ syncing'[m] = syncing[m]
        BY <1>1, <1>2, <2>4, <3>3 DEF LegacyShape
      <4> QED BY <1>1, <3>1, <4>1 DEF LegacyNodeOk
    <3> QED BY <3>2, <3>3
  <2> QED BY <1>1, <1>2, <2>5, <2>6 DEF LegacyInv, BlocksOk
<1>4. CASE ~Legacy!Preferred(syncing[n], state[n])
  <2>1. state' = state /\ file' = file /\ told' = told /\ failures' = failures
    BY <1>4 DEF Legacy!Adopt
  <2>2. ASSUME NEW m \in Nodes PROVE LegacyNodeOk(m)'
    <3>1. syncing'[m] = syncing[m] \/ syncing'[m] = None
      BY <1>1, <1>2 DEF LegacyShape
    <3> QED BY <1>1, <2>1, <3>1 DEF LegacyInv, LegacyNodeOk
  <2>3. LegacyShape'
    BY <1>1, <1>2, <2>1 DEF LegacyShape
  <2> QED BY <1>1, <2>2, <2>3 DEF LegacyInv, BlocksOk
<1> QED BY <1>3, <1>4

LEMMA LegacyCrashes ==
  ASSUME Legacy!LegacyAssumption, LegacyInv, NEW n \in Nodes, Legacy!Crash(n)
  PROVE  LegacyInv'
<1>1. /\ state' = [state EXCEPT ![n] = file[n]] /\ syncing' = [syncing EXCEPT ![n] = None] /\ crashes < MaxCrashes /\ crashes' = crashes + 1
      /\ file' = file /\ blocks' = blocks /\ told' = told /\ failures' = failures /\ LegacyShape
  BY DEF Legacy!Crash, LegacyInv
<1>2. LegacyShape'
  <2>1. /\ state' = [m \in Nodes |-> state'[m]] /\ file' = [m \in Nodes |-> file'[m]]
        /\ told' = [m \in Nodes |-> told'[m]] /\ syncing' = [m \in Nodes |-> syncing'[m]]
    BY <1>1 DEF LegacyShape
  <2>2. crashes' \in 0..MaxCrashes /\ failures' \in 0..MaxFailures
    BY <1>1 DEF LegacyShape, Legacy!LegacyAssumption
  <2> QED BY <2>1, <2>2 DEF LegacyShape
<1>3. ASSUME NEW m \in Nodes PROVE LegacyNodeOk(m)'
  <2>1. (state'[m] = state[m] /\ syncing'[m] = syncing[m]) \/ (state'[m] = file[m] /\ syncing'[m] = None)
    BY <1>1 DEF LegacyShape
  <2> QED BY <1>1, <2>1 DEF LegacyInv, LegacyNodeOk
<1> QED BY <1>1, <1>2, <1>3 DEF LegacyInv, BlocksOk

LEMMA LegacySteps == ASSUME Legacy!LegacyAssumption, LegacyInv, [Legacy!Next]_(Legacy!vars) PROVE LegacyInv'
<1>1. CASE Legacy!vars' = Legacy!vars
  BY <1>1 DEF Legacy!vars, LegacyInv, LegacyShape, LegacyNodeOk, BlocksOk, Extends
<1>2. CASE Legacy!Next
  <2>1. PICK n \in Nodes :
            \/ \E t \in Legacy!Ids : Legacy!SubmitTx(n, t)
            \/ \E h \in Hashes : \E txids \in Legacy!Offered(state[n]) : Legacy!SubmitBlock(n, h, txids)
            \/ \E h \in DOMAIN blocks : Legacy!ReceiveBlock(n, h)
            \/ \E m \in Nodes \ {n} : Legacy!SyncFetch(n, m)
            \/ Legacy!Adopt(n) \/ Legacy!Crash(n)
    BY <1>2 DEF Legacy!Next
  <2> QED BY <2>1, LegacySubmits, LegacyMines, LegacyReceives, LegacyFetches, LegacyAdopts, LegacyCrashes
<1> QED BY <1>1, <1>2

(* What the invariant says of the module's properties.                      *)
LEMMA LegacyOk == ASSUME Legacy!LegacyAssumption, LegacyInv PROVE Legacy!TypeOK /\ Legacy!TemplateApplies /\ Legacy!ToldSurvives
<1>1. ASSUME NEW n \in Nodes PROVE LegacyNodeOk(n)
  BY DEF LegacyInv
<1>2. ASSUME NEW s, StateOk(blocks, s)
      PROVE  /\ Legacy!ToSet(s.chain) \subseteq DOMAIN blocks /\ Legacy!Pending(s) \subseteq Legacy!Ids
             /\ s.seq \in [Legacy!Ids -> Nat] /\ s.last \in Nat /\ \A t \in Legacy!Pending(s) : s.seq[t] \in 1..s.last
  BY <1>2, LegacyWords DEF StateOk, PastOk, PendingOk, InOrder, NumbersOk, Legacy!ToSet
<1>3. Legacy!TypeOK
  <2>1. told \in [Nodes -> SUBSET Legacy!Ids]
    BY <1>1 DEF LegacyInv, LegacyShape, LegacyNodeOk
  <2>2. DOMAIN blocks \subseteq Hashes /\ crashes \in 0..MaxCrashes /\ failures \in 0..MaxFailures
    BY DEF LegacyInv, LegacyShape, BlocksOk
  <2> QED BY <1>1, <1>2, <2>1, <2>2 DEF Legacy!TypeOK, LegacyNodeOk
<1>4. ASSUME NEW n \in Nodes PROVE Legacy!Applies(state[n], Legacy!Template(state[n])) /\ Legacy!IsInjective(state[n].order)
  <2>1. StateOk(blocks, state[n])
    BY <1>1 DEF LegacyNodeOk
  <2>2. Legacy!Applies(state[n], Legacy!Template(state[n]))
    <3>1. PICK k \in 0..Len(state[n].order) : Legacy!Template(state[n]) = SubSeq(state[n].order, 1, k)
      BY <2>1, TemplateIsPrefix
    <3> QED BY <2>1, <3>1, PrefixApplies
  <2> QED BY <2>1, <2>2 DEF StateOk, PendingOk, InOrder, Legacy!IsInjective
<1>5. \A n \in Nodes : told[n] \subseteq Legacy!Confirmed(file[n]) \cup Legacy!Pending(file[n])
  BY <1>1, LegacyWords DEF LegacyNodeOk, KnownIn
<1> QED BY <1>3, <1>4, <1>5 DEF Legacy!TemplateApplies, Legacy!ToldSurvives

(* A step that adopts a chain leaves nothing out that could be accepted.    *)
LEMMA LegacyLeavesNothing == ASSUME Legacy!LegacyAssumption, LegacyInv, [Legacy!Next]_(Legacy!vars) PROVE Legacy!NothingNeedless
<1> SUFFICES ASSUME NEW n \in Nodes, syncing[n] # None, syncing'[n] = None, crashes' = crashes,
                    NEW t \in Legacy!Confirmed(state[n]) \cup Legacy!Pending(state[n])
             PROVE  ~Legacy!Acceptable(state'[n], t)
  BY DEF Legacy!NothingNeedless
<1>1. LegacyNodeOk(n) /\ LegacyShape /\ BlocksOk(blocks)
  BY DEF LegacyInv
<1>2. syncing' # syncing
  OBVIOUS
<1>3. PICK m \in Nodes : Legacy!Adopt(m)
  <2>1. Legacy!Next
    BY <1>2 DEF Legacy!vars
  <2>2. PICK m \in Nodes :
            \/ \E u \in Legacy!Ids : Legacy!SubmitTx(m, u)
            \/ \E h \in Hashes : \E txids \in Legacy!Offered(state[m]) : Legacy!SubmitBlock(m, h, txids)
            \/ \E h \in DOMAIN blocks : Legacy!ReceiveBlock(m, h)
            \/ \E o \in Nodes \ {m} : Legacy!SyncFetch(m, o)
            \/ Legacy!Adopt(m) \/ Legacy!Crash(m)
    BY <2>1 DEF Legacy!Next
  <2>3. ASSUME NEW o \in Nodes, Legacy!SyncFetch(m, o) PROVE FALSE
    <3>1. syncing[m] = None /\ syncing' = [syncing EXCEPT ![m] = Legacy!Fetched(state[o])]
      BY <2>3 DEF Legacy!SyncFetch
    <3>2. m # n
      BY <3>1
    <3> QED BY <3>1, <3>2
  <2>4. ~Legacy!Crash(m)
    <3>1. crashes \in Int
      BY <1>1 DEF LegacyShape, Legacy!LegacyAssumption
    <3> QED BY <3>1 DEF Legacy!Crash
  <2> QED BY <1>2, <2>2, <2>3, <2>4 DEF Legacy!SubmitTx, Legacy!SubmitBlock, Legacy!ReceiveBlock
<1>4. m = n
  <2>1. syncing' = [syncing EXCEPT ![m] = None]
    BY <1>3 DEF Legacy!Adopt
  <2> QED BY <2>1
<1>5. t \in KnownIn(blocks, state[n])
  BY LegacyWords DEF KnownIn
<1>6. CASE Legacy!Preferred(syncing[n], state[n])
  <2> DEFINE s == Legacy!Reconcile(syncing[n], state[n])
  <2>1. state' = [state EXCEPT ![n] = s]
    BY <1>3, <1>4, <1>6 DEF Legacy!Adopt, Legacy!Persist, Legacy!Write, Legacy!Fails
  <2>2. state'[n] = s
    BY <1>1, <2>1 DEF LegacyShape
  <2>3. ~Legacy!Acceptable(s, t)
    BY <1>1, <1>5, LegacyReconciles DEF LegacyNodeOk, BlocksOk
  <2> QED BY <2>2, <2>3
<1>7. CASE ~Legacy!Preferred(syncing[n], state[n])
  <2>1. state' = state
    BY <1>3, <1>4, <1>7 DEF Legacy!Adopt
  <2> QED BY <2>1 DEF Legacy!Acceptable
<1> QED BY <1>6, <1>7

(* The mempool of an older node is at all times a valid block, in the order *)
(* it has, through reorganisations, restarts and writes that fail; and what *)
(* it said yes to, and has not dropped at a reorganisation, is in its file. *)
THEOREM LegacySound == Legacy!LegacyAssumption /\ Legacy!Spec => [](Legacy!TypeOK /\ Legacy!TemplateApplies /\ Legacy!ToldSurvives)
<1> SUFFICES ASSUME Legacy!LegacyAssumption PROVE Legacy!Spec => [](Legacy!TypeOK /\ Legacy!TemplateApplies /\ Legacy!ToldSurvives)
  OBVIOUS
<1>1. Legacy!Init => LegacyInv
  BY LegacyInitially
<1>2. LegacyInv /\ [Legacy!Next]_(Legacy!vars) => LegacyInv'
  BY LegacySteps
<1>3. LegacyInv => Legacy!TypeOK /\ Legacy!TemplateApplies /\ Legacy!ToldSurvives
  BY LegacyOk
<1> QED BY <1>1, <1>2, <1>3, PTL DEF Legacy!Spec

(* When an older node adopts a chain, no transaction it had, confirmed or   *)
(* pending, is dropped that the new state could still accept.               *)
THEOREM LegacyDropsNothing == Legacy!LegacyAssumption /\ Legacy!Spec => [][Legacy!NothingNeedless]_(Legacy!vars)
<1> SUFFICES ASSUME Legacy!LegacyAssumption PROVE Legacy!Spec => [][Legacy!NothingNeedless]_(Legacy!vars)
  OBVIOUS
<1>1. Legacy!Init => LegacyInv
  BY LegacyInitially
<1>2. LegacyInv /\ [Legacy!Next]_(Legacy!vars) => LegacyInv'
  BY LegacySteps
<1>3. LegacyInv /\ [Legacy!Next]_(Legacy!vars) => [Legacy!NothingNeedless]_(Legacy!vars)
  BY LegacyLeavesNothing
<1> QED BY <1>1, <1>2, <1>3, PTL DEF Legacy!Spec

(* Sums of differences, and sums over the parts of a set.                   *)
LEMMA SumOverDifference ==
  ASSUME NEW S, IsFiniteSet(S), NEW f, NEW g, NEW h, \A x \in S : g[x] \in Nat /\ h[x] \in Nat /\ f[x] = g[x] - h[x]
  PROVE  SumOver(f, S) = SumOver(g, S) - SumOver(h, S)
<1> DEFINE N == {n \in Nat : \A T \in SUBSET S : Cardinality(T) = n => SumOver(f, T) = SumOver(g, T) - SumOver(h, T)}
<1>0. SumOver(f, {}) = 0 /\ SumOver(g, {}) = 0 /\ SumOver(h, {}) = 0
  BY FS_EmptySet, SumOverPick
<1>1. 0 \in N
  <2>1. ASSUME NEW T \in SUBSET S, Cardinality(T) = 0 PROVE T = {}
    BY <2>1, PickFacts
  <2>2. ASSUME NEW T \in SUBSET S, Cardinality(T) = 0 PROVE SumOver(f, T) = SumOver(g, T) - SumOver(h, T)
    <3>1. T = {}
      BY <2>1, <2>2
    <3> QED BY <1>0, <3>1
  <2> QED BY <2>2
<1>2. ASSUME NEW n \in N PROVE n + 1 \in N
  <2> SUFFICES ASSUME NEW T \in SUBSET S, Cardinality(T) = n + 1 PROVE SumOver(f, T) = SumOver(g, T) - SumOver(h, T)
    OBVIOUS
  <2>0. n \in Nat /\ n + 1 # 0
    OBVIOUS
  <2>1. IsFiniteSet(T) /\ T # {}
    BY <2>0, PickFacts
  <2> DEFINE x == Pick(T)
             R == T \ {x}
  <2>2. x \in T /\ x \in S /\ R \in SUBSET S /\ Cardinality(R) = n /\ IsFiniteSet(R)
    <3>1. Pick(T) \in T /\ T \ {Pick(T)} \in SUBSET S /\ Cardinality(T \ {Pick(T)}) = Cardinality(T) - 1
      BY <2>1, PickFacts
    <3>2. IsFiniteSet(T \ {Pick(T)})
      BY <3>1, PickFacts
    <3> QED BY <2>0, <3>1, <3>2
  <2>3. SumOver(f, T) = f[x] + SumOver(f, R) /\ SumOver(g, T) = g[x] + SumOver(g, R) /\ SumOver(h, T) = h[x] + SumOver(h, R)
    BY <2>1, SumOverPick
  <2> HIDE DEF x, R
  <2>4. SumOver(f, R) = SumOver(g, R) - SumOver(h, R)
    BY <2>2
  <2>5. SumOver(g, R) \in Nat /\ SumOver(h, R) \in Nat /\ g[x] \in Nat /\ h[x] \in Nat /\ f[x] = g[x] - h[x]
    BY <2>2, SumOverNat
  <2> QED BY <2>3, <2>4, <2>5
<1>3. N = Nat
  BY <1>1, <1>2, SetInduction
<1>4. Cardinality(S) \in Nat
  BY FS_CardinalityType
<1> QED BY <1>3, <1>4

LEMMA SumOverParts ==
  ASSUME NEW S, IsFiniteSet(S), NEW P, \A x \in S : IsFiniteSet(P[x]), \A x, y \in S : x # y => P[x] \cap P[y] = {},
         NEW g, \A x \in S : \A z \in P[x] : g[z] \in Nat, NEW f, \A x \in S : f[x] = SumOver(g, P[x])
  PROVE  IsFiniteSet(UNION {P[x] : x \in S}) /\ SumOver(f, S) = SumOver(g, UNION {P[x] : x \in S})
<1> DEFINE U(T) == UNION {P[x] : x \in T}
           Good == {T \in SUBSET S : IsFiniteSet(U(T)) /\ SumOver(f, T) = SumOver(g, U(T))}
<1>1. {} \in Good
  <2>1. U({}) = {}
    OBVIOUS
  <2>2. SumOver(f, {}) = 0 /\ SumOver(g, {}) = 0 /\ IsFiniteSet({})
    BY FS_EmptySet, SumOverPick
  <2> QED BY <2>1, <2>2
<1>2. ASSUME NEW T \in SUBSET S, NEW y \in T, T \ {y} \in Good PROVE T \in Good
  <2> DEFINE R == T \ {y}
             new == U(T)
             old == U(R)
  <2>1. new = old \cup P[y] /\ old \cap P[y] = {} /\ y \in S /\ R \in SUBSET S
    OBVIOUS
  <2>2. IsFiniteSet(old) /\ SumOver(f, R) = SumOver(g, old) /\ IsFiniteSet(P[y]) /\ IsFiniteSet(T)
    BY <1>2, FS_Subset
  <2>3. \A z \in old \cup P[y] : g[z] \in Nat
    OBVIOUS
  <2>4. \A x \in T : f[x] \in Nat
    <3>1. SUFFICES ASSUME NEW x \in T PROVE f[x] \in Nat
      OBVIOUS
    <3>2. IsFiniteSet(P[x]) /\ (\A z \in P[x] : g[z] \in Nat) /\ f[x] = SumOver(g, P[x])
      OBVIOUS
    <3> QED BY <3>2, SumOverNat
  <2>0. f[y] = SumOver(g, P[y])
    OBVIOUS
  <2> HIDE DEF R, new, old
  <2>5. SumOver(f, T) = f[y] + SumOver(f, R)
    BY <2>2, <2>4, SumOverRemove DEF R
  <2>6. SumOver(g, old \cup P[y]) = SumOver(g, old) + SumOver(g, P[y])
    BY <2>1, <2>2, <2>3, SumOverUnion
  <2>7. SumOver(g, old) \in Nat /\ SumOver(g, P[y]) \in Nat
    BY <2>2, <2>3, SumOverNat
  <2>8. IsFiniteSet(new)
    BY <2>1, <2>2, FS_Union
  <2>9. SumOver(f, T) = SumOver(g, new)
    BY <2>0, <2>1, <2>2, <2>5, <2>6, <2>7
  <2> QED BY <2>8, <2>9 DEF new
<1>3. S \in Good
  <2>1. Good \in SUBSET SUBSET S
    OBVIOUS
  <2> HIDE DEF Good
  <2> QED BY <1>1, <1>2, <2>1, SubsetInduction
<1> QED BY <1>3

LEMMA SumOverOne == ASSUME NEW f, NEW y, f[y] \in Nat PROVE SumOver(f, {y}) = f[y]
<1>1. IsFiniteSet({}) /\ SumOver(f, {}) = 0
  BY FS_EmptySet, SumOverPick
<1>2. SumOver(f, {} \cup {y}) = f[y] + SumOver(f, {})
  BY <1>1, SumOverAdd
<1>3. {} \cup {y} = {y}
  OBVIOUS
<1> QED BY <1>1, <1>2, <1>3

(* What outpoints are worth, by any table of their amounts.                 *)
LEMMA LegacyTotals ==
  ASSUME NEW X, IsFiniteSet(X), NEW f, \A o \in X : f[o] = Legacy!Amount(o)
  PROVE  Legacy!Total(X) = SumOver(f, X)
<1> DEFINE g == [o \in X |-> Legacy!Amount(o)]
<1>1. Legacy!Total(X) = SumOver(g, X)
  BY LegacySums DEF Legacy!Total
<1>2. \A o \in X : g[o] = f[o]
  OBVIOUS
<1> HIDE DEF g
<1> QED BY <1>1, <1>2, SumOverSame

(* The confirmed events of an address: the blocks it was paid for and the   *)
(* transactions it signed or is paid by.                                    *)
LegacyPast(s, a) == {e \in Legacy!Events(s, a) : ~Legacy!IsPending(s, e)}
Rewarded(s, a) == {h \in Legacy!ToSet(s.chain) : Miner = a}
Transferred(s, a) == {t \in ConfirmedIn(blocks, s) : a \in {Txs[t].from, Txs[t].to}}
LEMMA PastEvents ==
  ASSUME Legacy!LegacyAssumption, BlocksOk(blocks), NEW s, StateOk(blocks, s), NEW a
  PROVE  /\ LegacyPast(s, a) = {<<"reward", h>> : h \in Rewarded(s, a)} \cup {<<"transfer", t>> : t \in Transferred(s, a)}
         /\ IsFiniteSet(LegacyPast(s, a))
<1>1. \A t \in ConfirmedIn(blocks, s) : t \notin Legacy!Pending(s)
  <2>1. \A t \in Legacy!ToSet(s.order) : t \notin ConfirmedIn(blocks, s)
    BY DEF StateOk, PendingOk, InOrder, Legacy!ToSet
  <2> QED BY <2>1, LegacyWords
<1> DEFINE A == {<<"reward", h>> : h \in Rewarded(s, a)}
           B == {<<"transfer", t>> : t \in Transferred(s, a)}
           C == {<<"transfer", t>> : t \in {t \in Legacy!Confirmed(s) \cup Legacy!Pending(s) : a \in {Txs[t].from, Txs[t].to}}}
<1>2. Legacy!Events(s, a) = A \cup C
  BY DEF Legacy!Events, Rewarded
<1>3. \A e \in A : e[1] = "reward" /\ ~Legacy!IsPending(s, e)
  BY DEF Legacy!IsPending
<1>4. \A e \in C : e[1] = "transfer" /\ (~Legacy!IsPending(s, e) <=> e \in B)
  <2>1. SUFFICES ASSUME NEW t \in Legacy!Confirmed(s) \cup Legacy!Pending(s), a \in {Txs[t].from, Txs[t].to}
                 PROVE  (t \notin Legacy!Pending(s)) <=> <<"transfer", t>> \in B
    BY DEF Legacy!IsPending
  <2>2. <<"transfer", t>> \in B <=> t \in ConfirmedIn(blocks, s)
    <3>1. <<"transfer", t>> \in B <=> t \in Transferred(s, a)
      <4>1. \A u : <<"transfer", t>> = <<"transfer", u>> => t = u
        OBVIOUS
      <4> QED BY <4>1
    <3> QED BY <2>1, <3>1 DEF Transferred
  <2> QED BY <1>1, <2>1, <2>2, LegacyWords
<1>5. B \subseteq C
  BY LegacyWords DEF Transferred
<1> HIDE DEF A, B, C
<1>6. LegacyPast(s, a) = A \cup B
  BY <1>2, <1>3, <1>4, <1>5 DEF LegacyPast
<1>7. IsFiniteSet(Rewarded(s, a)) /\ IsFiniteSet(Transferred(s, a))
  BY KnownFinite, FS_Subset DEF BlocksOk, Rewarded, Transferred
<1>8. IsFiniteSet(A)
  <2> DEFINE g == [h \in Rewarded(s, a) |-> <<"reward", h>>]
  <2>1. g \in Surjection(Rewarded(s, a), A)
    BY DEF Surjection, A
  <2> QED BY <1>7, <2>1, FS_Surjection
<1>9. IsFiniteSet(B)
  <2> DEFINE g == [t \in Transferred(s, a) |-> <<"transfer", t>>]
  <2>1. g \in Surjection(Transferred(s, a), B)
    BY DEF Surjection, B
  <2> QED BY <1>7, <2>1, FS_Surjection
<1> QED BY <1>6, <1>8, <1>9, FS_Union DEF A, B

(* What an address owns of what was made is what its events bring, and what *)
(* it owns of what was spent is what they take: the difference is unspent.  *)
LEMMA EventsAddUp ==
  ASSUME Legacy!LegacyAssumption, BlocksOk(blocks), NEW s, StateOk(blocks, s), NEW a
  PROVE  SumOver([e \in LegacyPast(s, a) |-> Legacy!Gain(s, e, a)], LegacyPast(s, a)) = Legacy!BalanceAtoms(s, a)
<1> DEFINE past == LegacyPast(s, a)
           made == MadeIn(blocks, s)
           conf == ConfirmedIn(blocks, s)
           amounts == [o \in made |-> Legacy!Amount(o)]
           gain == [e \in past |-> Legacy!Gain(s, e, a)]
           P == [e \in past |-> IF e[1] = "reward" \/ Txs[e[2]].to = a THEN {e[2]} ELSE {}]
           M == [e \in past |-> IF e[1] = "transfer" /\ Txs[e[2]].from = a THEN Txs[e[2]].inputs ELSE {}]
           plus == [e \in past |-> SumOver(amounts, P[e])]
           minus == [e \in past |-> SumOver(amounts, M[e])]
           mine == {o \in made : Legacy!Owner(o) = a}
           gone == {o \in Legacy!InputsOf(conf) : Legacy!Owner(o) = a}
<1>1. /\ past = {<<"reward", h>> : h \in Rewarded(s, a)} \cup {<<"transfer", t>> : t \in Transferred(s, a)}
      /\ IsFiniteSet(past)
  BY PastEvents
<1>2. /\ \A h \in Rewarded(s, a) : h \in made /\ h \notin Legacy!Ids /\ Miner = a /\ h \in Legacy!ToSet(s.chain)
      /\ \A h \in Legacy!ToSet(s.chain) : h \notin Legacy!Ids
  <2>1. Legacy!ToSet(s.chain) \subseteq Hashes
    <3>1. s.chain \in Seq(DOMAIN blocks) /\ DOMAIN blocks \subseteq Hashes
      BY DEF StateOk, PastOk, BlocksOk
    <3> QED BY <3>1 DEF Legacy!ToSet
  <2> QED BY <2>1 DEF Rewarded, MadeIn, Legacy!LegacyAssumption
<1>3. \A t \in conf : /\ t \in made /\ t \in Legacy!Ids /\ Txs[t].inputs \subseteq made /\ Owned(t)
                      /\ Txs[t].out \in Nat /\ IsFiniteSet(Txs[t].inputs)
  <2>1. PastOk(blocks, s)
    BY DEF StateOk
  <2>2. SUFFICES ASSUME NEW t \in conf
                 PROVE  /\ t \in made /\ t \in Legacy!Ids /\ Txs[t].inputs \subseteq made /\ Owned(t)
                        /\ Txs[t].out \in Nat /\ IsFiniteSet(Txs[t].inputs)
    OBVIOUS
  <2>3. t \in Legacy!Ids /\ Txs[t].inputs \subseteq made /\ Owned(t)
    BY <2>1 DEF PastOk
  <2>4. Txs[t].out \in Nat /\ IsFiniteSet(Txs[t].inputs)
    BY <2>3, LegacyFinite DEF Legacy!LegacyAssumption
  <2> QED BY <2>3, <2>4 DEF MadeIn
<1>4. \A o \in made : amounts[o] \in Nat /\ amounts[o] = Legacy!Amount(o)
  BY DEF Legacy!Amount, Legacy!LegacyAssumption
<1>5. \A t \in Transferred(s, a) : t \in conf /\ (Txs[t].from = a \/ Txs[t].to = a)
  BY DEF Transferred
<1>6. ASSUME NEW h \in Rewarded(s, a)
      PROVE  LET e == <<"reward", h>> IN e \in past /\ P[e] = {h} /\ M[e] = {} /\ gain[e] = Reward /\ amounts[h] = Reward
  BY <1>1, <1>2, <1>4 DEF Legacy!Gain, Legacy!Amount
<1>7. ASSUME NEW t \in Transferred(s, a)
      PROVE  LET e == <<"transfer", t>> IN
             /\ e \in past
             /\ P[e] = IF Txs[t].to = a THEN {t} ELSE {}
             /\ M[e] = IF Txs[t].from = a THEN Txs[t].inputs ELSE {}
             /\ gain[e] = (IF Txs[t].to = a THEN Txs[t].out ELSE 0) - IF Txs[t].from = a THEN Legacy!Total(Txs[t].inputs) ELSE 0
             /\ amounts[t] = Txs[t].out
  <2> DEFINE e == <<"transfer", t>>
  <2>1. e \in past /\ e[1] = "transfer" /\ e[1] # "reward" /\ e[2] = t
    BY <1>1
  <2>2. t \in conf /\ t \in made /\ t \in Legacy!Ids /\ Txs[t].out \in Nat /\ Txs[t].inputs \subseteq made /\ IsFiniteSet(Txs[t].inputs)
    BY <1>3, <1>5
  <2>3. Legacy!Total(Txs[t].inputs) \in Nat
    <3>1. \A o \in Txs[t].inputs : amounts[o] = Legacy!Amount(o) /\ amounts[o] \in Nat
      BY <1>4, <2>2
    <3> HIDE DEF amounts
    <3> QED BY <2>2, <3>1, LegacyTotals, SumOverNat
  <2>4. gain[e] = (IF Txs[t].to = a THEN Txs[t].out ELSE 0) - IF Txs[t].from = a THEN Legacy!Total(Txs[t].inputs) ELSE 0
    <3> DEFINE total == Legacy!Total(Txs[t].inputs)
               back == IF Txs[t].to = a THEN Txs[t].out ELSE 0
    <3>1. gain[e] = IF Txs[t].from = a THEN back - Txs[t].out - (total - Txs[t].out) ELSE back
      BY <2>1 DEF Legacy!Gain
    <3>2. back \in Nat /\ total \in Nat /\ Txs[t].out \in Nat
      BY <2>2, <2>3
    <3> HIDE DEF total, back, gain
    <3>3. back - Txs[t].out - (total - Txs[t].out) = back - total /\ back - 0 = back
      BY <3>2
    <3> QED BY <3>1, <3>3 DEF total, back
  <2>5. amounts[t] = Txs[t].out
    BY <1>4, <2>2 DEF Legacy!Amount
  <2> QED BY <2>1, <2>4, <2>5
<1> HIDE DEF past, made, conf, amounts, gain, P, M
<1>8. ASSUME NEW e \in past
      PROVE  /\ IsFiniteSet(P[e]) /\ P[e] \subseteq mine /\ IsFiniteSet(M[e]) /\ M[e] \subseteq gone
             /\ gain[e] = plus[e] - minus[e]
  <2>1. SumOver(amounts, {}) = 0 /\ IsFiniteSet({})
    BY FS_EmptySet, SumOverPick
  <2>2. ASSUME NEW h \in Rewarded(s, a), e = <<"reward", h>>
        PROVE  /\ IsFiniteSet(P[e]) /\ P[e] \subseteq mine /\ IsFiniteSet(M[e]) /\ M[e] \subseteq gone
               /\ gain[e] = plus[e] - minus[e]
    <3>1. P[e] = {h} /\ M[e] = {} /\ gain[e] = Reward /\ amounts[h] = Reward /\ h \in mine /\ Reward \in Nat
      BY <1>2, <1>6, <2>2 DEF Legacy!Owner, Legacy!LegacyAssumption
    <3>2. SumOver(amounts, {h}) = Reward /\ IsFiniteSet({h})
      <4>1. amounts[h] \in Nat
        BY <3>1
      <4>2. SumOver(amounts, {h}) = amounts[h]
        BY <4>1, SumOverOne
      <4> QED BY <3>1, <4>2, FS_Singleton
    <3>3. plus[e] = Reward /\ minus[e] = 0
      BY <2>1, <3>1, <3>2
    <3> QED BY <2>1, <3>1, <3>2, <3>3
  <2>3. ASSUME NEW t \in Transferred(s, a), e = <<"transfer", t>>
        PROVE  /\ IsFiniteSet(P[e]) /\ P[e] \subseteq mine /\ IsFiniteSet(M[e]) /\ M[e] \subseteq gone
               /\ gain[e] = plus[e] - minus[e]
    <3>1. /\ P[e] = IF Txs[t].to = a THEN {t} ELSE {}
          /\ M[e] = IF Txs[t].from = a THEN Txs[t].inputs ELSE {}
          /\ gain[e] = (IF Txs[t].to = a THEN Txs[t].out ELSE 0) - IF Txs[t].from = a THEN Legacy!Total(Txs[t].inputs) ELSE 0
          /\ amounts[t] = Txs[t].out
      BY <1>7, <2>3
    <3>2. t \in conf /\ t \in made /\ t \in Legacy!Ids /\ Txs[t].out \in Nat /\ Txs[t].inputs \subseteq made /\ IsFiniteSet(Txs[t].inputs) /\ Owned(t)
      BY <1>3, <1>5
    <3>3. P[e] \subseteq mine /\ IsFiniteSet(P[e])
      BY <2>1, <3>1, <3>2, FS_Singleton DEF Legacy!Owner
    <3>4. M[e] \subseteq gone /\ IsFiniteSet(M[e])
      <4>1. CASE Txs[t].from = a
        <5>1. \A o \in Txs[t].inputs : o \in Legacy!InputsOf(conf) /\ Legacy!Owner(o) = a
          BY <3>2, <4>1 DEF Legacy!InputsOf, Owned
        <5> QED BY <3>1, <3>2, <4>1, <5>1
      <4>2. CASE Txs[t].from # a
        BY <2>1, <3>1, <4>2
      <4> QED BY <4>1, <4>2
    <3>5. SumOver(amounts, P[e]) = IF Txs[t].to = a THEN Txs[t].out ELSE 0
      <4>1. amounts[t] \in Nat
        BY <3>1, <3>2
      <4>2. SumOver(amounts, {t}) = amounts[t]
        BY <4>1, SumOverOne
      <4> QED BY <2>1, <3>1, <4>2
    <3>6. SumOver(amounts, M[e]) = IF Txs[t].from = a THEN Legacy!Total(Txs[t].inputs) ELSE 0
      <4>1. \A o \in Txs[t].inputs : amounts[o] = Legacy!Amount(o)
        BY <1>4, <3>2
      <4>2. Legacy!Total(Txs[t].inputs) = SumOver(amounts, Txs[t].inputs)
        BY <3>2, <4>1, LegacyTotals
      <4> QED BY <2>1, <3>1, <4>2
    <3> QED BY <3>1, <3>3, <3>4, <3>5, <3>6
  <2> QED BY <1>1, <2>2, <2>3
<1>9. ASSUME NEW e \in past, NEW f \in past, e # f PROVE P[e] \cap P[f] = {} /\ M[e] \cap M[f] = {}
  <2>1. ASSUME NEW h \in Rewarded(s, a), NEW x \in past, x = <<"reward", h>> PROVE P[x] = {h} /\ M[x] = {} /\ h \notin Legacy!Ids
    BY <1>2, <1>6, <2>1
  <2>2. ASSUME NEW t \in Transferred(s, a), NEW x \in past, x = <<"transfer", t>>
        PROVE  P[x] \subseteq {t} /\ M[x] \subseteq Txs[t].inputs /\ t \in Legacy!Ids
    BY <1>3, <1>5, <1>7, <2>2
  <2>3. CASE \E h \in Rewarded(s, a) : e = <<"reward", h>>
    <3>1. PICK h \in Rewarded(s, a) : e = <<"reward", h>>
      BY <2>3
    <3>2. ASSUME NEW g \in Rewarded(s, a), f = <<"reward", g>> PROVE P[e] \cap P[f] = {} /\ M[e] \cap M[f] = {}
      <4>1. g # h
        BY <1>9, <3>1, <3>2
      <4> QED BY <2>1, <3>1, <3>2, <4>1
    <3>3. ASSUME NEW t \in Transferred(s, a), f = <<"transfer", t>> PROVE P[e] \cap P[f] = {} /\ M[e] \cap M[f] = {}
      BY <2>1, <2>2, <3>1, <3>3
    <3> QED BY <1>1, <3>2, <3>3
  <2>4. CASE \E t \in Transferred(s, a) : e = <<"transfer", t>>
    <3>1. PICK t \in Transferred(s, a) : e = <<"transfer", t>>
      BY <2>4
    <3>2. ASSUME NEW g \in Rewarded(s, a), f = <<"reward", g>> PROVE P[e] \cap P[f] = {} /\ M[e] \cap M[f] = {}
      BY <2>1, <2>2, <3>1, <3>2
    <3>3. ASSUME NEW u \in Transferred(s, a), f = <<"transfer", u>> PROVE P[e] \cap P[f] = {} /\ M[e] \cap M[f] = {}
      <4>1. u # t
        BY <1>9, <3>1, <3>3
      <4>2. Txs[t].inputs \cap Txs[u].inputs = {}
        BY <1>5, <4>1 DEF conf, StateOk, PastOk
      <4> QED BY <2>2, <3>1, <3>3, <4>1, <4>2
    <3> QED BY <1>1, <3>2, <3>3
  <2> QED BY <1>1, <2>3, <2>4
<1>10. UNION {P[e] : e \in past} = mine
  <2>1. ASSUME NEW o \in mine PROVE \E e \in past : o \in P[e]
    <3>1. CASE o \in Legacy!ToSet(s.chain)
      <4>1. o \in Rewarded(s, a)
        BY <1>2, <2>1, <3>1 DEF Legacy!Owner, Rewarded
      <4> QED BY <1>6, <4>1
    <3>2. CASE o \in conf
      <4>1. o \in Transferred(s, a) /\ Txs[o].to = a
        BY <1>3, <2>1, <3>2 DEF Legacy!Owner, Transferred, conf
      <4> QED BY <1>7, <4>1
    <3> QED BY <3>1, <3>2 DEF made, conf, MadeIn
  <2> QED BY <1>8, <2>1
<1>11. UNION {M[e] : e \in past} = gone
  <2>1. ASSUME NEW o \in gone PROVE \E e \in past : o \in M[e]
    <3>1. PICK t \in conf : o \in Txs[t].inputs
      BY <2>1 DEF Legacy!InputsOf
    <3>2. Txs[t].from = a
      BY <1>3, <2>1, <3>1 DEF Owned
    <3>3. t \in Transferred(s, a)
      BY <3>1, <3>2 DEF Transferred, conf
    <3> QED BY <1>7, <3>1, <3>2, <3>3
  <2> QED BY <1>8, <2>1
<1>12. gone \subseteq mine
  BY <1>3 DEF Legacy!InputsOf
<1>13. \A e \in past : P[e] \subseteq made /\ M[e] \subseteq made
  BY <1>8, <1>12
<1> HIDE DEF mine, gone
<1>14. IsFiniteSet(mine) /\ SumOver(plus, past) = SumOver(amounts, mine)
  <2>1. \A e \in past : IsFiniteSet(P[e])
    BY <1>8
  <2>0. \A e \in past : plus[e] = SumOver(amounts, P[e])
    OBVIOUS
  <2>4. \A e, f \in past : e # f => P[e] \cap P[f] = {}
    BY <1>9
  <2>2. \A e \in past : \A o \in P[e] : amounts[o] \in Nat
    BY <1>4, <1>13
  <2> HIDE DEF plus
  <2>5. IsFiniteSet(past)
    BY <1>1
  <2>3. IsFiniteSet(UNION {P[e] : e \in past}) /\ SumOver(plus, past) = SumOver(amounts, UNION {P[e] : e \in past})
    BY ONLY <2>0, <2>1, <2>2, <2>4, <2>5, SumOverParts
  <2> QED BY <1>10, <2>3
<1>15. IsFiniteSet(gone) /\ SumOver(minus, past) = SumOver(amounts, gone)
  <2>1. \A e \in past : IsFiniteSet(M[e])
    BY <1>8
  <2>0. \A e \in past : minus[e] = SumOver(amounts, M[e])
    OBVIOUS
  <2>4. \A e, f \in past : e # f => M[e] \cap M[f] = {}
    BY <1>9
  <2>2. \A e \in past : \A o \in M[e] : amounts[o] \in Nat
    BY <1>4, <1>13
  <2> HIDE DEF minus
  <2>5. IsFiniteSet(past)
    BY <1>1
  <2>3. IsFiniteSet(UNION {M[e] : e \in past}) /\ SumOver(minus, past) = SumOver(amounts, UNION {M[e] : e \in past})
    BY ONLY <2>0, <2>1, <2>2, <2>4, <2>5, SumOverParts
  <2> QED BY <1>11, <2>3
<1>16. SumOver(gain, past) = SumOver(plus, past) - SumOver(minus, past)
  <2>1. ASSUME NEW e \in past PROVE plus[e] \in Nat /\ minus[e] \in Nat
    <3>1. plus[e] = SumOver(amounts, P[e]) /\ minus[e] = SumOver(amounts, M[e])
      OBVIOUS
    <3>2. IsFiniteSet(P[e]) /\ IsFiniteSet(M[e]) /\ (\A o \in P[e] : amounts[o] \in Nat) /\ (\A o \in M[e] : amounts[o] \in Nat)
      BY <1>4, <1>8, <1>13
    <3> QED BY <3>1, <3>2, SumOverNat
  <2>2. \A e \in past : gain[e] = plus[e] - minus[e]
    BY <1>8
  <2> HIDE DEF plus, minus
  <2> QED BY <1>1, <2>1, <2>2, SumOverDifference
<1>17. Legacy!BalanceAtoms(s, a) = SumOver(amounts, mine \ gone)
  <2>1. {o \in Legacy!Unspent(s) : Legacy!Owner(o) = a} = mine \ gone
    BY LegacyWords DEF UnspentIn, mine, gone, made, conf
  <2>2. IsFiniteSet(mine \ gone) /\ \A o \in mine \ gone : amounts[o] = Legacy!Amount(o)
    BY <1>4, <1>14, FS_Difference DEF mine
  <2> QED BY <2>1, <2>2, LegacyTotals DEF Legacy!BalanceAtoms
<1>18. SumOver(amounts, mine) = SumOver(amounts, mine \ gone) + SumOver(amounts, gone)
  <2> DEFINE rest == mine \ gone
  <2>1. IsFiniteSet(rest) /\ rest \cap gone = {} /\ rest \cup gone = mine /\ \A o \in rest \cup gone : amounts[o] \in Nat
    BY <1>4, <1>12, <1>14, FS_Difference DEF mine
  <2> HIDE DEF rest
  <2>2. SumOver(amounts, rest \cup gone) = SumOver(amounts, rest) + SumOver(amounts, gone)
    BY <1>15, <2>1, SumOverUnion
  <2> QED BY <2>1, <2>2 DEF rest
<1>19. SumOver(amounts, mine \ gone) \in Nat /\ SumOver(amounts, gone) \in Nat
  <2>1. IsFiniteSet(mine \ gone) /\ (\A o \in mine \ gone : amounts[o] \in Nat) /\ \A o \in gone : amounts[o] \in Nat
    BY <1>4, <1>12, <1>14, FS_Difference DEF mine
  <2> QED BY <1>15, <2>1, SumOverNat
<1>20. SumOver(gain, past) = Legacy!BalanceAtoms(s, a)
  BY <1>14, <1>15, <1>16, <1>17, <1>18, <1>19
<1> QED BY <1>20 DEF gain, past

(* The page.  While the pane is loading, the request of the page one is on  *)
(* is in flight; what a search finds is a block, so that its answer never   *)
(* takes that request away.                                                 *)
ViewInv ==
    /\ "kind" \in DOMAIN pane
    /\ \A q \in asked : q = [route |-> q.route, reply |-> q.reply]
    /\ \A q \in asked : q.reply # None /\ q.reply.ok /\ q.route[1] = "search" => q.reply.match[1] = "block"
    /\ pane.kind = "loading" => \E q \in asked : q.route = hash

LEMMA SearchFindsBlocks ==
  ASSUME NEW s, NEW r, r[1] = "search", Legacy!Reply(s, r).ok
  PROVE  Legacy!Reply(s, r).match[1] = "block"
<1>1. Legacy!Reply(s, r) = IF r[2] \in DOMAIN s.chain THEN [ok |-> TRUE, match |-> <<"block", s.chain[r[2]]>>] ELSE [ok |-> FALSE]
  BY DEF Legacy!Reply
<1>2. r[2] \in DOMAIN s.chain
  BY <1>1
<1> QED BY <1>1, <1>2

LEMMA ViewShows ==
  ASSUME ViewInv, NEW r, Legacy!Navigate(r)
  PROVE  ViewInv'
<1>1. hash' = r
  BY DEF Legacy!Navigate, Legacy!Show
<1>2. CASE r = <<>>
  <2>1. pane' = [kind |-> "empty", route |-> r] /\ asked' = asked
    BY <1>2 DEF Legacy!Navigate, Legacy!Show, Legacy!Blank
  <2> QED BY <2>1 DEF ViewInv
<1>3. CASE r # <<>>
  <2> DEFINE q == [route |-> r, reply |-> None]
  <2>1. pane' = [kind |-> "loading", route |-> r] /\ asked' = asked \cup {q}
    BY <1>3 DEF Legacy!Navigate, Legacy!Show, Legacy!Blank
  <2>2. q.route = r /\ q.reply = None /\ q = [route |-> q.route, reply |-> q.reply]
    OBVIOUS
  <2> HIDE DEF q
  <2> QED BY <1>1, <2>1, <2>2 DEF ViewInv
<1> QED BY <1>2, <1>3

LEMMA ViewServes ==
  ASSUME ViewInv, NEW q \in asked, Legacy!Serve(q)
  PROVE  ViewInv'
<1> DEFINE answer == Legacy!Reply(state[Server], q.route)
           p == [q EXCEPT !.reply = answer]
<1>1. asked' = (asked \ {q}) \cup {p} /\ hash' = hash /\ pane' = pane
  BY DEF Legacy!Serve
<1>2. q = [route |-> q.route, reply |-> q.reply]
  BY DEF ViewInv
<1> HIDE DEF answer
<1>3. p.route = q.route /\ p.reply = answer /\ p = [route |-> p.route, reply |-> p.reply]
  BY <1>2
<1> HIDE DEF p
<1>4. p.reply.ok /\ p.route[1] = "search" => p.reply.match[1] = "block"
  BY <1>3, SearchFindsBlocks DEF answer
<1> QED BY <1>1, <1>3, <1>4 DEF ViewInv

LEMMA ViewAnswers ==
  ASSUME ViewInv, NEW q \in asked, Legacy!Answer(q)
  PROVE  ViewInv'
<1>1. CASE ~q.reply.ok
  <2>1. pane' = [kind |-> "failed", route |-> q.route] /\ asked' = asked \ {q}
    BY <1>1 DEF Legacy!Answer, Legacy!Blank
  <2> QED BY <2>1 DEF ViewInv
<1>2. CASE q.reply.ok /\ q.route[1] = "search"
  <2>1. q.reply.match[1] = "block"
    BY <1>2 DEF ViewInv, Legacy!Answer
  <2>2. CASE q.reply.match = hash
    <3>1. asked' = asked \ {q} /\ hash' = hash /\ pane' = pane
      BY <1>2, <2>2 DEF Legacy!Answer
    <3>2. q.route # hash
      BY <1>2, <2>1, <2>2
    <3> QED BY <3>1, <3>2 DEF ViewInv
  <2>3. CASE q.reply.match # hash
    <3> DEFINE p == [route |-> q.reply.match, reply |-> None]
    <3>1. hash' = q.reply.match /\ pane' = [kind |-> "loading", route |-> q.reply.match] /\ asked' = (asked \ {q}) \cup {p}
      BY <1>2, <2>3 DEF Legacy!Answer, Legacy!Blank
    <3>2. p.route = q.reply.match /\ p.reply = None /\ p = [route |-> p.route, reply |-> p.reply]
      OBVIOUS
    <3> HIDE DEF p
    <3> QED BY <3>1, <3>2 DEF ViewInv
  <2> QED BY <2>2, <2>3
<1>3. CASE q.reply.ok /\ q.route[1] # "search"
  <2>1. asked' = asked \ {q} /\ "kind" \in DOMAIN pane' /\ pane'.kind # "loading"
    BY <1>3 DEF Legacy!Answer, Legacy!Blank
  <2> QED BY <2>1 DEF ViewInv
<1> QED BY <1>1, <1>2, <1>3 DEF Legacy!Answer

LEMMA ViewSteps ==
  ASSUME ViewInv, [Legacy!ExplorerNext]_<<Legacy!vars, Legacy!view>>
  PROVE  ViewInv'
<1>1. CASE Legacy!view' = Legacy!view
  BY <1>1 DEF Legacy!view, ViewInv
<1>2. ASSUME NEW q \in asked, Legacy!Lose(q) PROVE ViewInv'
  <2>1. pane' = [kind |-> "failed", route |-> q.route] /\ asked' = asked \ {q}
    BY <1>2 DEF Legacy!Lose, Legacy!Blank
  <2> QED BY <2>1 DEF ViewInv
<1>3. CASE Legacy!More \/ Legacy!ServeMore \/ Legacy!MoreComes \/ Legacy!MoreLost
  <2>1. asked' = asked /\ pane.kind = "address" /\ "kind" \in DOMAIN pane
    BY <1>3 DEF Legacy!More, Legacy!ServeMore, Legacy!MoreComes, Legacy!MoreLost, Legacy!Loaded, ViewInv
  <2>2. "kind" \in DOMAIN pane' /\ pane'.kind = "address"
    <3>1. CASE Legacy!More
      BY <2>1, <3>1 DEF Legacy!More
    <3>2. CASE Legacy!ServeMore
      BY <2>1, <3>2 DEF Legacy!ServeMore
    <3>3. CASE Legacy!MoreComes
      BY <2>1, <3>3 DEF Legacy!MoreComes
    <3>4. CASE Legacy!MoreLost
      BY <2>1, <3>4 DEF Legacy!MoreLost
    <3> QED BY <1>3, <3>1, <3>2, <3>3, <3>4
  <2> QED BY <2>1, <2>2 DEF ViewInv
<1>4. CASE Legacy!ExplorerNext
  BY <1>1, <1>2, <1>3, <1>4, ViewShows, ViewServes, ViewAnswers DEF Legacy!ExplorerNext, Legacy!view
<1> QED BY <1>1, <1>4 DEF Legacy!view

(* The explorer never loads for ever, in whatever order its answers come    *)
(* and whichever are lost; and the confirmed history it lists for an        *)
(* address adds up to the balance it shows, in every state of the node      *)
(* behind it.                                                               *)
THEOREM ExplorerHolds ==
  Legacy!LegacyAssumption /\ Server \in Nodes /\ Legacy!ExplorerSpec
  => [](Legacy!TemplateApplies /\ Legacy!HistoryIsBalance /\ Legacy!NoEndlessLoading)
<1> SUFFICES ASSUME Legacy!LegacyAssumption, Server \in Nodes
             PROVE  Legacy!ExplorerSpec => [](Legacy!TemplateApplies /\ Legacy!HistoryIsBalance /\ Legacy!NoEndlessLoading)
  OBVIOUS
<1>1. Legacy!Init2 => LegacyInv /\ ViewInv
  <2> SUFFICES ASSUME Legacy!Init2 PROVE LegacyInv /\ ViewInv
    OBVIOUS
  <2>1. Legacy!Init /\ asked = {} /\ pane = [kind |-> "empty", route |-> <<>>]
    BY DEF Legacy!Init2, Legacy!ViewInit, Legacy!Blank
  <2> QED BY <2>1, LegacyInitially DEF ViewInv
<1>2. LegacyInv /\ ViewInv /\ [Legacy!ExplorerNext]_<<Legacy!vars, Legacy!view>> => (LegacyInv /\ ViewInv)'
  <2> SUFFICES ASSUME LegacyInv, ViewInv, [Legacy!ExplorerNext]_<<Legacy!vars, Legacy!view>> PROVE LegacyInv' /\ ViewInv'
    OBVIOUS
  <2>1. [Legacy!Next]_(Legacy!vars)
    BY DEF Legacy!ExplorerNext, Legacy!Navigate, Legacy!Serve, Legacy!Answer, Legacy!Lose, Legacy!More, Legacy!ServeMore,
           Legacy!MoreComes, Legacy!MoreLost, Legacy!vars
  <2> QED BY <2>1, LegacySteps, ViewSteps
<1>3. LegacyInv /\ ViewInv => Legacy!TemplateApplies /\ Legacy!HistoryIsBalance /\ Legacy!NoEndlessLoading
  <2> SUFFICES ASSUME LegacyInv, ViewInv PROVE Legacy!TemplateApplies /\ Legacy!HistoryIsBalance /\ Legacy!NoEndlessLoading
    OBVIOUS
  <2>1. StateOk(blocks, state[Server]) /\ BlocksOk(blocks)
    BY DEF LegacyInv, LegacyNodeOk
  <2>2. Legacy!HistoryIsBalance
    <3> DEFINE s == state[Server]
    <3>1. ASSUME NEW a PROVE Legacy!SumOver([e \in LegacyPast(s, a) |-> Legacy!Gain(s, e, a)], LegacyPast(s, a)) = Legacy!BalanceAtoms(s, a)
      BY <2>1, EventsAddUp, LegacySums
    <3> QED BY <3>1 DEF Legacy!HistoryIsBalance, LegacyPast
  <2>3. Legacy!NoEndlessLoading
    BY DEF ViewInv, Legacy!NoEndlessLoading
  <2> QED BY <2>2, <2>3, LegacyOk
<1> QED BY <1>1, <1>2, <1>3, PTL DEF Legacy!ExplorerSpec
=============================================================================
