----------------------------- MODULE ShadowNode -----------------------------
(* Nodes that follow a branch across the activation and sync headers first  *)
(* (full-target-shadow-peer-node.mjs over full-target-headers-sync-         *)
(* candidate.mjs): what was read before an await is used after it, the      *)
(* receiver's clock is read again at every stage, and a chain is adopted    *)
(* and written under one lock.  Sessions run over the secure channel, of    *)
(* which only the lost answer is left here.                                 *)
EXTENDS BranchRules, FiniteSets

CONSTANTS Nodes, Trusted, \* the chain every node starts from
          Syncing,        \* nodes whose sync is enabled
          Times, Ids,     \* bounds: timestamps and clocks; hashes of blocks
          MaxPage, MaxLocator,
          MaxFaults       \* bound: lost answers, failed writes, crashes, corrected clocks

Block == [id : Nat, prev : Nat, ts : Nat, mode : {"bits"}, level : Nat] \cup
         [id : Nat, prev : Nat, ts : Nat, mode : {"target"}, level : 0..MaxHash]
ShadowAssumption == /\ Trusted \in Seq(Block) \ {<<>>} /\ ValidChain(Trusted)
                    /\ Times \subseteq Nat /\ Ids \subseteq Nat \ {0} /\ {MaxPage, MaxLocator} \subseteq Nat

VARIABLES chain,  \* state.chain
          disk,   \* what is in the data file
          saving, \* the write lock is held by a write of the state
          up, clock,
          sess,   \* syncPeer: the stage, and what it has read so far
          faults
vars == <<chain, disk, saving, up, clock, sess, faults>>

NoSync == [stage |-> "idle"]
Init ==
    /\ chain = [n \in Nodes |-> Trusted] /\ disk = chain /\ saving = {} /\ up = Nodes
    /\ clock \in [Nodes -> {0}] /\ sess = [n \in Nodes |-> NoSync] /\ faults = 0
-----------------------------------------------------------------------------
Stage(n, stage) == n \in up /\ sess[n].stage = stage
To(n, s) == sess' = [sess EXCEPT ![n] = s]
Stops(n) == To(n, NoSync)
World == <<up, clock, faults>>
Store == <<chain, disk, saving>>

(* hello: the peer's tip, height and work at that moment.                   *)
Hello(n, p) ==
    /\ n \in Syncing /\ Stage(n, "idle") /\ n # p /\ p \in up
    /\ TipId(chain[p]) # TipId(chain[n]) \/ ChainWork(chain[p]) # ChainWork(chain[n])
    /\ To(n, [stage |-> "ask", peer |-> p, tip |-> TipId(chain[p]),
              height |-> Len(chain[p]), work |-> ChainWork(chain[p])])
    /\ UNCHANGED <<Store, World>>

(* locator and commonAncestor: the newest of our last blocks that the peer  *)
(* has too.                                                                 *)
Common(ours, theirs) ==
    {h \in 1..Len(ours) : /\ h > Len(ours) - MaxLocator /\ h <= Len(theirs) /\ ours[h].id = theirs[h].id}
AskAncestor(n) ==
    LET s == sess[n] IN
    /\ Stage(n, "ask") /\ s.peer \in up
    /\ LET common == Common(chain[n], chain[s.peer]) IN
       IF common = {} THEN Stops(n)
       ELSE LET h == CHOOSE x \in common : \A y \in common : y <= x
            IN  To(n, [stage |-> "check", peer |-> s.peer, tip |-> s.tip, height |-> s.height, work |-> s.work,
                       from |-> h, at |-> chain[n][h].id])
    /\ UNCHANGED <<Store, World>>

(* The answer is compared with the chain there is now; this is the local    *)
(* chain for the rest of the sync.                                          *)
CheckAncestor(n) ==
    LET s == sess[n] IN
    /\ Stage(n, "check")
    /\ IF s.from <= Len(chain[n]) /\ chain[n][s.from].id = s.at /\ s.height > s.from
       THEN To(n, [stage |-> "headers", peer |-> s.peer, tip |-> s.tip, work |-> s.work, from |-> s.from,
                  height |-> s.height, local |-> chain[n]])
       ELSE Stops(n)
    /\ UNCHANGED <<Store, World>>

Page(theirs, s) ==
    IF s.height - s.from > MaxPage \/ Len(theirs) < s.height THEN <<>> ELSE SubSeq(theirs, s.from + 1, s.height)
(* validateMixedHeaderSequence and the claims of the hello.                 *)
FetchHeaders(n) ==
    LET s == sess[n]
        candidate == Prefix(s.local, s.from) \o Page(chain[s.peer], s) IN
    /\ Stage(n, "headers") /\ s.peer \in up
    /\ IF /\ TipId(candidate) = s.tip /\ ValidChain(candidate) /\ InTime(candidate, s.from + 1, clock[n])
          /\ ChainWork(candidate) = s.work
       THEN To(n, [stage |-> "blocks", peer |-> s.peer, from |-> s.from, height |-> s.height,
                  local |-> s.local, candidate |-> candidate])
       ELSE Stops(n)
    /\ UNCHANGED <<Store, World>>

(* validateDownloadedBodies, and the comparison with the local chain.       *)
FetchBlocks(n) ==
    LET s == sess[n] IN
    /\ Stage(n, "blocks") /\ s.peer \in up
    /\ IF /\ Prefix(s.local, s.from) \o Page(chain[s.peer], s) = s.candidate
          /\ InTime(s.candidate, s.from + 1, clock[n]) /\ Preferred(s.candidate, s.local)
       THEN To(n, [stage |-> "adopt", from |-> s.from, candidate |-> s.candidate])
       ELSE Stops(n)
    /\ UNCHANGED <<Store, World>>
-----------------------------------------------------------------------------
StartsWith(c, prefix) == Len(c) >= Len(prefix) /\ Prefix(c, Len(prefix)) = prefix
ByTheClock(c, n) == (* Mutant: a stored chain is judged by the clock, too. *)
    StartsWith(c, Trusted) /\ ValidChain(c) /\ InTime(c, 1, clock[n])
(* validateStateChain                                                       *)
StateValid(c, n) == StartsWith(c, Trusted) /\ ValidChain(c)

AsCompared(s, n) == InTime(s.candidate, s.from + 1, clock[n]) (* Mutant: the comparison before the lock is good enough. *)
Adoptable(s, n) == Preferred(s.candidate, chain[n]) /\ InTime(s.candidate, s.from + 1, clock[n])
Adopt(n) ==
    LET s == sess[n] IN
    /\ Stage(n, "adopt") /\ n \notin saving /\ Stops(n)
    /\ IF Adoptable(s, n) /\ StateValid(s.candidate, n)
       THEN chain' = [chain EXCEPT ![n] = s.candidate] /\ saving' = saving \cup {n} /\ UNCHANGED disk
       ELSE UNCHANGED Store
    /\ UNCHANGED World

Held(n) == {chain[n], disk[n]} \cup (IF "candidate" \in DOMAIN sess[n] THEN {sess[n].candidate} ELSE {})
Used == UNION {{c[h].id : h \in DOMAIN c} : c \in UNION {Held(n) : n \in Nodes}}
(* validateFullActivationCandidate: the new block is looked at as one that  *)
(* arrives now, on the chain it extends.                                    *)
Appendable(n, next) == InTime(next, Len(next), clock[n]) /\ StateValid(next, n)
AppendBlock(n, id, ts) ==
    LET next == Append(chain[n], Mined(chain[n], id, ts)) IN
    /\ n \in up \ saving /\ id \notin Used
    /\ Appendable(n, next)
    /\ chain' = [chain EXCEPT ![n] = next] /\ saving' = saving \cup {n}
    /\ UNCHANGED <<disk, sess, World>>

Save(n) == /\ n \in saving /\ saving' = saving \ {n} /\ disk' = [disk EXCEPT ![n] = chain[n]]
           /\ UNCHANGED <<chain, sess, World>>
-----------------------------------------------------------------------------
Fault == faults < MaxFaults /\ faults' = faults + 1
SaveFails(n) == Fault /\ n \in saving /\ saving' = saving \ {n} /\ UNCHANGED <<chain, disk, up, clock, sess>>
LoseAnswer(n) == Fault /\ n \in up /\ sess[n] # NoSync /\ Stops(n) /\ UNCHANGED <<Store, up, clock>>
SetClock(n, t) == Fault /\ clock' = [clock EXCEPT ![n] = t] /\ UNCHANGED <<Store, up, sess>>
Crash(n) == /\ Fault /\ n \in up /\ up' = up \ {n} /\ saving' = saving \ {n} /\ Stops(n)
            /\ UNCHANGED <<chain, disk, clock>>
(* load: a file that is not valid ends the start.                           *)
Start(n) == /\ n \notin up /\ StateValid(disk[n], n)
            /\ up' = up \cup {n} /\ chain' = [chain EXCEPT ![n] = disk[n]]
            /\ UNCHANGED <<disk, saving, clock, sess, faults>>
Tick(n) == /\ \E t \in Times : t > clock[n]
           /\ clock' = [clock EXCEPT ![n] = @ + 1] /\ UNCHANGED <<Store, up, sess, faults>>

Sync(n) == \/ AskAncestor(n) \/ CheckAncestor(n) \/ FetchHeaders(n) \/ FetchBlocks(n) \/ Adopt(n)
Next == \E n \in Nodes :
    \/ Sync(n) \/ Save(n) \/ SaveFails(n) \/ LoseAnswer(n) \/ Crash(n) \/ Start(n) \/ Tick(n)
    \/ \E p \in Nodes : Hello(n, p)
    \/ \E id \in Ids, t \in Times : AppendBlock(n, id, t)
    \/ \E t \in Times : SetClock(n, t)
Spec == Init /\ [][Next]_vars

(* The interval repeats the sync with each peer, a started request is       *)
(* answered, clocks go on and a stopped node is started again.              *)
Fairness == \A n \in Nodes :
    /\ WF_vars(Sync(n)) /\ WF_vars(Save(n)) /\ WF_vars(Start(n)) /\ WF_vars(Tick(n))
    /\ \A p \in Nodes : SF_vars(Hello(n, p))
FairSpec == Spec /\ Fairness
-----------------------------------------------------------------------------
(* The tables are what they should be, and only a node that is up writes or *)
(* syncs.                                                                   *)
TypeOK ==
    /\ saving \subseteq up /\ up \subseteq Nodes /\ clock \in [Nodes -> Times]
    /\ \A n \in Nodes : /\ {chain[n][h].ts : h \in DOMAIN chain[n]} \subseteq Times
                        /\ sess[n].stage \in {"idle", "ask", "check", "headers", "blocks", "adopt"}

(* Whatever the clocks were when its blocks came in, and are now, a node    *)
(* can be started from what it has written.                                 *)
StartsAgain == \A n \in Nodes : StateValid(disk[n], n)

(* A running node goes only to a chain it prefers to the one it has at that *)
(* moment, though the sync compared with the one it had before its awaits.  *)
OnlyBetter == \A n \in up \cap up' : chain'[n] = chain[n] \/ Preferred(chain'[n], chain[n])

(* No block is taken over that is early by the clock at that moment, even   *)
(* when the clock is set back between two stages of the sync.               *)
NothingEarly ==
    \A n \in up \cap up' : chain'[n] # chain[n] =>
       LET common == {h \in 1..Len(chain'[n]) : h <= Len(chain[n]) /\ chain'[n][h] = chain[n][h]}
       IN  InTime(chain'[n], Cardinality(common) + 1, clock[n])

(* Targets follow one schedule on all chains with the same anchor: a block  *)
(* that is later against the schedule has no smaller target, whatever the   *)
(* blocks between it and the anchor are.                                    *)
Late(c, h) == c[h].ts - TargetSeconds * h
OneSchedule ==
    \A n, m \in Nodes : Prefix(chain[n], Activation - 1) = Prefix(chain[m], Activation - 1) =>
        \A h \in Activation..Len(chain[n]), k \in Activation..Len(chain[m]) :
            Late(chain[n], h) <= Late(chain[m], k) => chain[n][h].level <= chain[m][k].level

(* When no more blocks come, the nodes end up with one chain.               *)
Agreement == <>[](\A n, m \in Nodes : chain[n] = chain[m])
=============================================================================
