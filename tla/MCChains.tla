------------------------------- MODULE MCChains -------------------------------
(* Everything else that keeps a chain: the recovery of the authoritative    *)
(* node, the SQL ledger in its versions, the shadow node with the rules it  *)
(* tries out, the state transition of the reorganisation candidate, and the *)
(* legacy node with its explorer.  A behaviour is about one of them, its    *)
(* `part'; the others stay where they start.                                *)
EXTENDS Naturals, Sequences, TLC

CONSTANTS Parts, None, Torn, Invalid, pay, rival, child, m1, m2, n1, n2

VARIABLES part,
          value, doubt, latest, loaded, open, contents, raw, rawKept, mem, phase, \* NodeRecovery
          main, last, saving, acked, upset, unhealed, stops, losses, failures,
          blocks, utxos, status, mempool, spends, outs, sub, miner, refused,      \* SqlLedger
          chain, disk, writing, up, clock, sess, faults,                          \* ShadowNode
          replayed, branch, active, pool,                                         \* ReorgState
          state, file, syncing, found, told, crashes, unwritten,                  \* LegacyNode
          hash, asked, pane, opens                                                \* Explorer
nodeVars == <<value, doubt, latest, loaded, open, contents, raw, rawKept, mem, phase, main, last, saving, acked, upset, unhealed, stops, losses, failures>>
sqlVars == <<blocks, utxos, status, mempool, spends, outs, sub, miner, refused>>
shadowVars == <<chain, disk, writing, up, clock, sess, faults>>
reorgVars == <<replayed, branch, active, pool>>
legacyVars == <<state, file, syncing, found, told, crashes, unwritten, hash, asked, pane, opens>>
vars == <<part, nodeVars, sqlVars, shadowVars, reorgVars, legacyVars>>

(* With faults of every kind: chains and payments, and more chains without  *)
(* payments; and for longer, with no loss of power.                         *)
Recovery == INSTANCE NodeRecovery WITH MaxSaves <- 4, MaxRank <- 1, MaxPool <- 1, MaxStops <- 1, MaxPowerLosses <- 1,
    MaxFailures <- 2, SameDirectory <- TRUE
Ranks == INSTANCE NodeRecovery WITH MaxSaves <- 3, MaxRank <- 2, MaxPool <- 0, MaxStops <- 1, MaxPowerLosses <- 1,
    MaxFailures <- 1, SameDirectory <- TRUE
Serving == INSTANCE NodeRecovery WITH MaxSaves <- 9, MaxRank <- 1, MaxPool <- 1, MaxStops <- 1, MaxPowerLosses <- 0,
    MaxFailures <- 1, SameDirectory <- TRUE

(* A payment, one that spends the same coinbase, and one that spends the    *)
(* payment's output and the second coinbase.                                *)
Payments == {pay, rival, child}
Spent == (pay :> <<<<"cb", 1>>>>) @@ (rival :> <<<<"cb", 1>>>>) @@ (child :> <<<<"cb", 2>>, <<"tx", pay>>>>)
Amounts == (pay :> 1) @@ (rival :> 2) @@ (child :> 2)
Submissions == {1, 2, 3}
NoRival == {1, 3}
Carried == (1 :> pay) @@ (2 :> rival) @@ (3 :> child)
TwoCarried == (1 :> pay) @@ (3 :> child)
Both == {m1, m2}
Chooser == {m2}
Nobody == {}
Version2 == INSTANCE SqlLedger WITH Txs <- Payments, Inputs <- Spent, Amount <- Amounts, MaxTxs <- 2, Subs <- Submissions,
    TxOf <- Carried, Miners <- Both, Version <- "v2", Choosers <- Nobody, Subsidy <- 2, MaxSupply <- 5
Chosen2 == INSTANCE SqlLedger WITH Txs <- Payments, Inputs <- Spent, Amount <- Amounts, MaxTxs <- 2, Subs <- NoRival,
    TxOf <- TwoCarried, Miners <- Chooser, Version <- "v2", Choosers <- Chooser, Subsidy <- 2, MaxSupply <- 5
Atomic2 == INSTANCE SqlLedger WITH Txs <- Payments, Inputs <- Spent, Amount <- Amounts, MaxTxs <- 2, Subs <- NoRival,
    TxOf <- TwoCarried, Miners <- Both, Version <- "v2_atomic", Choosers <- Chooser, Subsidy <- 2, MaxSupply <- 5
Version3 == INSTANCE SqlLedger WITH Txs <- Payments, Inputs <- Spent, Amount <- Amounts, MaxTxs <- 2, Subs <- NoRival,
    TxOf <- TwoCarried, Miners <- Both, Version <- "v3", Choosers <- Chooser, Subsidy <- 2, MaxSupply <- 5

(* One trusted block.  A node that syncs with a source, clocks that go on;  *)
(* three blocks after an early activation; and two that sync with faults.   *)
First == <<[id |-> 9, prev |-> 0, ts |-> 0, mode |-> "bits", level |-> 2]>>
Two == {n1, n2}
One == {n1}
Clock == {0, 1, 2}
LongClock == {0, 1, 2, 3}
NoClock == {0}
TwoIds == {1, 2}
ThreeIds == {1, 2, 3}
Shadow == INSTANCE ShadowNode WITH HashBits <- 5, Activation <- 3, TargetSeconds <- 2, HalfLife <- 2, RetargetInterval <- 2,
    MtpWindow <- 3, FutureDrift <- 1, LegacyDrift <- 2, StartBits <- 2, MinBits <- 1, MaxBits <- 3, Nodes <- Two,
    Syncing <- One, Trusted <- First, Times <- Clock, Ids <- TwoIds, MaxPage <- 8, MaxLocator <- 8, MaxFaults <- 1,
    saving <- writing
Forks == INSTANCE ShadowNode WITH HashBits <- 5, Activation <- 2, TargetSeconds <- 2, HalfLife <- 2, RetargetInterval <- 2,
    MtpWindow <- 3, FutureDrift <- 1, LegacyDrift <- 2, StartBits <- 2, MinBits <- 1, MaxBits <- 3, Nodes <- Two,
    Syncing <- One, Trusted <- First, Times <- LongClock, Ids <- ThreeIds, MaxPage <- 8, MaxLocator <- 8, MaxFaults <- 0,
    saving <- writing
Syncs == INSTANCE ShadowNode WITH HashBits <- 5, Activation <- 3, TargetSeconds <- 2, HalfLife <- 2, RetargetInterval <- 2,
    MtpWindow <- 3, FutureDrift <- 1, LegacyDrift <- 2, StartBits <- 2, MinBits <- 1, MaxBits <- 3, Nodes <- Two,
    Syncing <- Two, Trusted <- First, Times <- NoClock, Ids <- ThreeIds, MaxPage <- 8, MaxLocator <- 8, MaxFaults <- 2,
    saving <- writing

(* A parent and a child of it with the smaller txid, a rival of the parent, *)
(* a spender of a coinbase after the activation, one that names an input    *)
(* twice, and a child of the rival numbered before it.                      *)
Tx(inputs, out, seq) == [inputs |-> inputs, out |-> out, seq |-> seq]
Chained == <<Tx(<<<<"tx", 2>>>>, 1, 2), Tx(<<<<"prefix", 1>>>>, 2, 1), Tx(<<<<"prefix", 1>>>>, 1, 3),
             Tx(<<<<"prefix", 3>>>>, 3, 4), Tx(<<<<"tx", 4>>, <<"tx", 4>>>>, 4, 5), Tx(<<<<"tx", 3>>>>, 1, 2)>>
Reorg == INSTANCE ReorgState WITH Txs <- Chained, Activation <- 3, Maturity <- 3, Reward <- 3, Fork <- 3, MaxHeight <- 6,
    MaxTxs <- 2, state <- replayed

(* A payment of the first coinbase, one that spends its output, and one     *)
(* that spends the same coinbase; A mines.  The pages of the explorer.      *)
Paid(inputs, from, to, out) == [inputs |-> inputs, from |-> from, to |-> to, out |-> out]
ChildFirst == <<Paid({2}, "A", "B", 1), Paid({10}, "A", "A", 2)>>
Rivals == Append(ChildFirst, Paid({10}, "A", "B", 2))
Once == <<Paid({10}, "A", "B", 1)>>
ThereAndBack == <<Paid({10}, "A", "B", 2), Paid({1}, "B", "A", 1)>>
There == SubSeq(ThereAndBack, 1, 1)
Two11 == {10, 11}
Three12 == {10, 11, 12}
Home == {<<>>}
OfA == {<<>>, <<"address", "A">>}
Mixed == {<<>>, <<"address", "B">>, <<"block", 11>>, <<"tx", 1>>, <<"search", 1>>}
Legacy == INSTANCE Explorer WITH Nodes <- Two, Txs <- Rivals, Miner <- "A", Reward <- 2, Hashes <- Three12, MaxTxsPerBlock <- 2,
    MaxCrashes <- 0, MaxFailures <- 0, Server <- n1, Routes <- Home, PageLimit <- 2, MaxOpens <- 0,
    blocks <- found, failures <- unwritten
Faulty == INSTANCE Explorer WITH Nodes <- Two, Txs <- ChildFirst, Miner <- "A", Reward <- 2, Hashes <- Three12, MaxTxsPerBlock <- 2,
    MaxCrashes <- 1, MaxFailures <- 1, Server <- n1, Routes <- Home, PageLimit <- 2, MaxOpens <- 0,
    blocks <- found, failures <- unwritten
Meeting == INSTANCE Explorer WITH Nodes <- Two, Txs <- Once, Miner <- "A", Reward <- 2, Hashes <- Three12, MaxTxsPerBlock <- 2,
    MaxCrashes <- 1, MaxFailures <- 0, Server <- n1, Routes <- Home, PageLimit <- 2, MaxOpens <- 0,
    blocks <- found, failures <- unwritten
Pages == INSTANCE Explorer WITH Nodes <- Two, Txs <- ThereAndBack, Miner <- "A", Reward <- 3, Hashes <- Three12, MaxTxsPerBlock <- 2,
    MaxCrashes <- 0, MaxFailures <- 0, Server <- n1, Routes <- OfA, PageLimit <- 2, MaxOpens <- 1,
    blocks <- found, failures <- unwritten
Visits == INSTANCE Explorer WITH Nodes <- Two, Txs <- There, Miner <- "A", Reward <- 3, Hashes <- Two11, MaxTxsPerBlock <- 2,
    MaxCrashes <- 0, MaxFailures <- 0, Server <- n1, Routes <- Mixed, PageLimit <- 2, MaxOpens <- 2,
    blocks <- found, failures <- unwritten

ASSUME Recovery!NodeRecoveryAssumption /\ Ranks!NodeRecoveryAssumption /\ Serving!NodeRecoveryAssumption
ASSUME Shadow!RulesAssumption /\ Shadow!ShadowAssumption
ASSUME Version2!SqlAssumption /\ Chosen2!SqlAssumption /\ Atomic2!SqlAssumption /\ Version3!SqlAssumption
ASSUME Forks!RulesAssumption /\ Forks!ShadowAssumption /\ Reorg!ReorgAssumption
ASSUME Legacy!LegacyAssumption /\ Faulty!LegacyAssumption /\ Meeting!LegacyAssumption /\ Pages!LegacyAssumption /\ Visits!LegacyAssumption
-----------------------------------------------------------------------------
Init == /\ part \in Parts /\ Recovery!RecoveryInit /\ Version2!Init /\ Shadow!Init /\ Reorg!Init
        /\ CASE part = "faulty" -> Faulty!Init2 [] part = "meeting" -> Meeting!Init2
             [] part = "pages" -> Pages!Init2 [] part = "visits" -> Visits!Init2 [] OTHER -> Legacy!Init2

OfNode(name, A) == part = name /\ A /\ UNCHANGED <<part, sqlVars, shadowVars, reorgVars, legacyVars>>
OfSql(name, A) == part = name /\ A /\ UNCHANGED <<part, nodeVars, shadowVars, reorgVars, legacyVars>>
OfShadow(name, A) == part = name /\ A /\ UNCHANGED <<part, nodeVars, sqlVars, reorgVars, legacyVars>>
OfReorg(A) == part = "reorg" /\ A /\ UNCHANGED <<part, nodeVars, sqlVars, shadowVars, legacyVars>>
OfLegacy(name, A) == part = name /\ A /\ UNCHANGED <<part, nodeVars, sqlVars, shadowVars, reorgVars>>
Next == \/ OfNode("recovery", Recovery!RecoveryNext) \/ OfNode("ranks", Ranks!RecoveryNext) \/ OfNode("serving", Serving!RecoveryNext)
        \/ OfSql("version2", Version2!Next) \/ OfSql("chosen2", Chosen2!Next)
        \/ OfSql("atomic2", Atomic2!Next) \/ OfSql("version3", Version3!Next)
        \/ OfShadow("shadow", Shadow!Next) \/ OfShadow("forks", Forks!Next) \/ OfShadow("syncs", Syncs!Next)
        \/ OfReorg(Reorg!Next)
        \/ OfLegacy("legacy", Legacy!ExplorerNext) \/ OfLegacy("faulty", Faulty!ExplorerNext)
        \/ OfLegacy("meeting", Meeting!ExplorerNext)
        \/ OfLegacy("pages", Pages!ExplorerNext) \/ OfLegacy("visits", Visits!ExplorerNext)

(* What each part assumes; only one part moves in a behaviour, so that what *)
(* is assumed of several may be said at once.  (With one peer to say hello  *)
(* to, weak fairness is enough.)                                            *)
Unviewed == UNCHANGED <<hash, asked, pane, opens>>
Fairness ==
    /\ WF_vars(OfNode("serving", Serving!MainCheckpoint))
    /\ WF_vars(\/ OfNode("serving", Serving!Checkpoint) \/ OfShadow("syncs", Syncs!Sync(n1))
               \/ OfLegacy("meeting", Meeting!Adopt(n1) /\ Unviewed))
    /\ WF_vars(\/ OfNode("serving", Serving!CheckpointReturns) \/ OfShadow("syncs", Syncs!Sync(n2))
               \/ OfLegacy("meeting", Meeting!Adopt(n2) /\ Unviewed))
    /\ WF_vars(OfShadow("syncs", Syncs!Save(n1)) \/ OfLegacy("meeting", Meeting!SyncFetch(n1, n2) /\ Unviewed))
    /\ WF_vars(OfShadow("syncs", Syncs!Save(n2)) \/ OfLegacy("meeting", Meeting!SyncFetch(n2, n1) /\ Unviewed))
    /\ \A n \in Two : WF_vars(OfShadow("syncs", Syncs!Start(n)))
    /\ WF_vars(OfShadow("syncs", Syncs!Hello(n1, n2))) /\ WF_vars(OfShadow("syncs", Syncs!Hello(n2, n1)))
Spec == Init /\ [][Next]_vars /\ Fairness
-----------------------------------------------------------------------------
(* Submissions, blocks and templates in any order: what is reserved is what *)
(* is pending, nothing is made or lost, the supply is the one of the rule,  *)
(* a template that is still current is accepted, and a block that is in its *)
(* table is there as a whole.  (Of a miner that chooses what its block      *)
(* carries, version 2 keeps only the supply and the templates.)             *)
SqlSound ==
    /\ part = "version2" => /\ Version2!TypeOK /\ Version2!MempoolSound /\ Version2!ValueKept /\ Version2!BlocksWhole
                            /\ Version2!TemplateStands /\ Version2!SupplyByRule
    /\ part = "chosen2" => Chosen2!TypeOK /\ Chosen2!TemplateStands /\ Chosen2!SupplyByRule
    /\ part = "atomic2" => /\ Atomic2!TypeOK /\ Atomic2!MempoolSound /\ Atomic2!ValueKept /\ Atomic2!BlocksWhole
                           /\ Atomic2!TemplateStands /\ Atomic2!SupplyByRule
    /\ part = "version3" => /\ Version3!TypeOK /\ Version3!MempoolSound /\ Version3!ValueKept /\ Version3!BlocksWhole
                            /\ Version3!TemplateStands /\ Version3!SupplyByRule

(* A node starts again from what it wrote, whatever the clocks say; targets *)
(* are on one schedule on all branches; what is pending can be confirmed,   *)
(* coins are conserved on every branch, and what the node said yes to is    *)
(* there after a crash.                                                     *)
ChainsSound ==
    /\ part = "recovery" => Recovery!TypeOK
    /\ part = "shadow" => Shadow!TypeOK /\ Shadow!StartsAgain
    /\ part = "forks" => Forks!OneSchedule
    /\ part = "reorg" => Reorg!TypeOK /\ Reorg!PoolSound /\ Reorg!Conserved
    /\ part = "legacy" => Legacy!TypeOK /\ Legacy!TemplateApplies
    /\ part = "faulty" => Faulty!ToldSurvives

(* All pages of an address show all its events, the events add up to the    *)
(* balance, and the page only loads while an answer is awaited.             *)
ExplorerSound ==
    /\ part = "pages" => Pages!ViewOK /\ Pages!NothingMissed /\ Pages!HistoryIsBalance
    /\ part = "visits" => Visits!NoEndlessLoading

(* A node never comes back behind its checkpoint, nor, killed or stopped,   *)
(* behind what it acknowledged, and refuses only for a write that fails;    *)
(* only to a preferred chain does it go, with no early block; the           *)
(* activation takes no output away; and a reorganisation drops nothing that *)
(* could still be accepted, but for a child numbered before its parent.     *)
ChainSteps ==
    [][/\ part = "recovery" => /\ Recovery!BootKeepsChain /\ Recovery!BootKeepsAcknowledged
                               /\ Recovery!BootKeepsCheckpoint /\ Recovery!RefusesOnlyUnsaved
       /\ part = "ranks" => /\ Ranks!BootKeepsChain /\ Ranks!BootKeepsAcknowledged
                            /\ Ranks!BootKeepsCheckpoint /\ Ranks!RefusesOnlyUnsaved
       /\ part = "shadow" => Shadow!OnlyBetter /\ Shadow!NothingEarly
       /\ part = "forks" => Forks!OnlyBetter
       /\ part = "reorg" => Reorg!StaysSpendable /\ Reorg!NothingNeedless
       /\ part = "faulty" => Faulty!NothingNeedless]_vars

(* What a node serves, if it loads, gets into its store.                    *)
EveryStateCheckpointed == []<>(part = "serving") => Serving!EveryStateCheckpointed

(* Nodes that see each other end up with one chain, the shadow nodes and    *)
(* the legacy nodes, through crashes, failed writes and lost answers.       *)
ChainsAgree ==
    /\ []<>(part = "syncs") => Syncs!Agreement
    /\ []<>(part = "meeting") => Meeting!Converges

(* A block that is in the table of version 2 is there as a whole, also when *)
(* the miner chooses what it carries: "uses service_role to perform atomic  *)
(* state transitions".                                                      *)
BlocksWhole == part = "chosen2" => Chosen2!BlocksWhole
=============================================================================
