-------------------------- MODULE StandaloneMiner --------------------------
(* The miner of the command line (standalone/fae-miner.mjs and              *)
(* mining-core.mjs) and the node it selected.  A chunk of nonces is one     *)
(* step; every request is answered, or fails and may have reached the node  *)
(* all the same.  Two neighbouring tips have one height.  The counters stop *)
(* at MaxCount, more than the node can take.                                  *)
EXTENDS Naturals

CONSTANTS MaxTip,   \* bound: the chain of the node
          MaxCount, \* bound: the counters
          MaxBack,  \* bound: how often the node comes back with an older chain
          DelayMin, DelayMax, \* reconnectMinMs, reconnectMaxMs
          Once      \* --once

MinerAssumption ==
    /\ {MaxTip, MaxCount, MaxBack, DelayMin, DelayMax} \subseteq Nat
    /\ MaxTip + 2 * MaxBack <= MaxCount /\ 0 < DelayMin /\ DelayMin <= DelayMax
    /\ Once \in BOOLEAN

VARIABLES pc,       \* the request awaited, "hash", "sleep" or "done"
          parent,   \* the tip the template builds on
          stopping, \* set by SIGINT and SIGTERM
          count,    \* accepted, rejected, workReplacements
          delay,    \* reconnectDelay
          tip, ours, back  \* of the node: its tip, blocks it took from us, falls

vars == <<pc, parent, stopping, count, delay, tip, ours, back>>
env == <<tip, ours, back>>

Up(n) == IF n < MaxCount THEN n + 1 ELSE n
Height(t) == t \div 2

Init ==
    /\ pc = "status" /\ parent = 0 /\ stopping = FALSE
    /\ count = [accepted |-> 0, rejected |-> 0, replaced |-> 0]
    /\ delay = DelayMin /\ tip = 0 /\ ours = 0 /\ back = 0

(* tipState of mining-core.                                                 *)
Freshness == IF Height(tip) < Height(parent) THEN "unknown"
             ELSE IF tip = parent THEN "current" ELSE "stale"

(* The head of the outer loop, and of the inner one.                        *)
LoopHead == IF stopping THEN "done" ELSE "status"
StillHashing == IF stopping THEN LoopHead ELSE "hash"

Retry == IF stopping THEN "done" ELSE "sleep"

(* /status at the start of a round; a network of another name ends the run. *)
Connect ==
    /\ pc = "status"
    /\ \/ pc' = "template" /\ delay' = DelayMin
       \/ pc' = "done" /\ UNCHANGED delay
    /\ UNCHANGED <<parent, stopping, count, env>>

(* /template and validateTemplate, which throws for work that is not ours.  *)
GetTemplate ==
    /\ pc = "template"
    /\ \/ pc' = StillHashing /\ parent' = tip
       \/ pc' = "done" /\ UNCHANGED parent
    /\ UNCHANGED <<stopping, count, delay, env>>

(* mineChunk: a nonce was found, or it may be time to look at the tip.      *)
MineChunk ==
    /\ pc = "hash"
    /\ pc' \in {"presubmit", "poll", StillHashing}
    /\ UNCHANGED <<parent, stopping, count, delay, env>>

Rejected(c) == [c EXCEPT !.rejected = Up(@)]
Replaced(c) == [Rejected(c) EXCEPT !.replaced = Up(@)]

(* The status just before the block is offered.                             *)
PreSubmit ==
    /\ pc = "presubmit"
    /\ IF Freshness = "current" THEN pc' = "submit" /\ UNCHANGED count
       ELSE pc' = LoopHead /\ count' = Replaced(count)
    /\ UNCHANGED <<parent, stopping, delay, env>>

(* The node takes the block if its parent is the tip.                       *)
Takes == parent = tip /\ tip < MaxTip
NodeTakes == IF Takes THEN tip' = tip + 1 /\ ours' = ours + 1 /\ UNCHANGED back
             ELSE UNCHANGED env

(* /submit-block with an answer: taken, stale (409), or refused, which ends *)
(* the run with a protocol error.                                           *)
Submit ==
    /\ pc = "submit" /\ NodeTakes
    /\ \/ /\ Takes /\ count' = [count EXCEPT !.accepted = Up(@)]
          /\ pc' = IF Once THEN "done" ELSE LoopHead
       \/ /\ ~Takes /\ count' = Replaced(count) /\ pc' = LoopHead
       \/ /\ ~Takes /\ count' = Rejected(count) /\ pc' = "done"
    /\ UNCHANGED <<parent, stopping, delay>>

LostAnswer(c) == Rejected(c)

(* NodeUnavailableError: a timeout, a refused connection, a status of 5xx.  *)
(* A block that was offered may have been taken.                            *)
NodeUnavailable ==
    /\ pc \in {"status", "template", "presubmit", "submit", "poll"}
    /\ pc' = Retry
    /\ IF pc = "submit"
       THEN count' = LostAnswer(count) /\ (NodeTakes \/ UNCHANGED env)
       ELSE UNCHANGED <<count, env>>
    /\ UNCHANGED <<parent, stopping, delay>>

(* The end of the back-off, which an abort does not shorten.                *)
Sleep ==
    /\ pc = "sleep" /\ pc' = LoopHead
    /\ delay' = IF delay * 2 < DelayMax THEN delay * 2 ELSE DelayMax
    /\ UNCHANGED <<parent, stopping, count, env>>

(* The status every tipPollMs: stale work is replaced, an answer that is    *)
(* behind the template ends the run.                                        *)
PollTip ==
    /\ pc = "poll"
    /\ CASE Freshness = "stale" -> count' = Replaced(count) /\ pc' = LoopHead
         [] Freshness = "unknown" -> pc' = "done" /\ UNCHANGED count
         [] OTHER -> pc' = StillHashing /\ UNCHANGED count
    /\ UNCHANGED <<parent, stopping, delay, env>>

(* An answer of the node with a status of 4xx is no NodeUnavailableError.   *)
HttpRefusal ==
    /\ pc \in {"status", "template", "presubmit", "poll"} /\ pc' = "done"
    /\ UNCHANGED <<parent, stopping, count, delay, env>>

Abort ==
    /\ ~stopping /\ pc # "done" /\ stopping' = TRUE
    /\ UNCHANGED <<pc, parent, count, delay, env>>

(* The node: a block of another miner, or a restart with an older chain.    *)
TipMoves ==
    /\ tip < MaxTip /\ tip' = tip + 1
    /\ UNCHANGED <<pc, parent, stopping, count, delay, ours, back>>
FallsBack ==
    /\ back < MaxBack /\ tip > 1 /\ tip' = tip - 2 /\ back' = back + 1
    /\ UNCHANGED <<pc, parent, stopping, count, delay, ours>>

Round == Connect \/ GetTemplate \/ MineChunk \/ PreSubmit \/ Submit \/ Sleep \/ PollTip
Next == Round \/ NodeUnavailable \/ HttpRefusal \/ Abort \/ TipMoves \/ FallsBack

(* Requests come to an end.                                                 *)
Spec == Init /\ [][Next]_vars
FairSpec == Spec /\ WF_vars(Round \/ NodeUnavailable)
-----------------------------------------------------------------------------
(* The awaits, the counters and the delay, which stays within its bounds.   *)
TypeOK ==
    /\ pc \in {"status", "template", "hash", "presubmit", "submit", "poll", "sleep", "done"}
    /\ {parent, tip, ours} \subseteq 0..(MaxTip + MaxBack * 2) /\ stopping \in BOOLEAN
    /\ \A f \in DOMAIN count : count[f] \in 0..MaxCount
    /\ delay \in DelayMin..DelayMax /\ back \in 0..MaxBack

(* What the miner reports brackets what the node did: it never counts a     *)
(* block the node did not take, and a block it did not count is among those *)
(* it reported rejected (a lost answer to submit-block).                    *)
CountersBracket ==
    /\ count.accepted <= ours /\ ours <= count.accepted + count.rejected
    /\ count.replaced <= count.rejected

(* Work goes on after every outage, unless they come again and again: a     *)
(* miner that waits to reconnect hashes again or has ended for a reason the *)
(* code names.                                                              *)
Reconnects == []<>(pc = "hash" \/ pc = "done" \/ stopping) \/ []<><<NodeUnavailable>>_vars

(* SIGINT and SIGTERM end the run, whatever request or back-off is awaited. *)
StopEnds == []<>(stopping => pc = "done")

===========================================================================
