------------------------------ MODULE MCClients ------------------------------
(* What runs at the user's: the mining loop of the page, the pins of the    *)
(* coordinators it mines for, the keys and the history of the wallet, the   *)
(* miner of the command line, the stop of a measuring campaign, and the run *)
(* of an independent operator.  A behaviour is about one of them, its       *)
(* `part'; the others stay where they start.                                *)
EXTENDS Naturals

CONSTANTS Parts, None, Garbage, l1, c1, c2, a1, a2, b1, b2, t1, t2, w1, x, d1

VARIABLES part,
          lp, mining, wallet, pow, obs, cooling, cursor, tip,       \* MiningLoop
          own, ledger, pins, page, session, accused, events, wrong, \* CoordinatorTrust
          tab, store, shown, sent,                                  \* WalletKeys
          active, seq, open, shared, hist, box, life, net,          \* WalletHistory
          pc, parent, stopping, count, delay, top, ours, back,      \* StandaloneMiner
          form, mode, held, asking, lock, camp, stopped, stops,     \* Autopilot
          worker, stray, starting, handling, zombie, captures, now,
          peer, node, dir, clock, op, bundle                         \* OperatorRun
loopVars == <<lp, mining, wallet, pow, obs, cooling, cursor, tip>>
pinVars == <<own, ledger, pins, page, session, accused, events, wrong>>
keyVars == <<tab, store, shown, sent>>
historyVars == <<active, seq, open, shared, hist, box, life, net>>
minerVars == <<pc, parent, stopping, count, delay, top, ours, back>>
campVars == <<form, mode, held, asking, lock, camp, stopped, stops, worker, stray, starting, handling, zombie, captures, now>>
operatorVars == <<peer, node, dir, clock, op, bundle>>
vars == <<part, loopVars, pinVars, keyVars, historyVars, minerVars, campVars, operatorVars>>

(* One activation of the loop: with faults; with the wallet used meanwhile; *)
(* direct mining without faults, for longer; two coordinators.              *)
Loop1 == {l1}
None1 == <<>>
One1 == <<c1>>
Two1 == <<c1, c2>>
Own1 == {a1}
Own2 == {a1, a2}
Mining == INSTANCE MiningLoop WITH Loops <- Loop1, Coordinators <- One1, Addresses <- Own1, MaxTip <- 1, MaxAsks <- 2, MaxPosts <- 1, Quiet <- FALSE
Switch == INSTANCE MiningLoop WITH Loops <- Loop1, Coordinators <- One1, Addresses <- Own2, MaxTip <- 1, MaxAsks <- 1, MaxPosts <- 1, Quiet <- FALSE
Follow == INSTANCE MiningLoop WITH Loops <- Loop1, Coordinators <- None1, Addresses <- Own1, MaxTip <- 5, MaxAsks <- 2, MaxPosts <- 1, Quiet <- TRUE
Rotation == INSTANCE MiningLoop WITH Loops <- Loop1, Coordinators <- Two1, Addresses <- Own1, MaxTip <- 2, MaxAsks <- 2, MaxPosts <- 1, Quiet <- TRUE

Base == {b1}
TwoBases == {b1, b2}
Twice == [b \in Base |-> 2]
OneOnly == [b \in TwoBases |-> IF b = b1 THEN 1 ELSE 0]
Tab == {t1}
TwoTabs == {t1, t2}
Word == {w1}
AllWays == {"create", "insert", "import"}
NewWords == {"create"}
Pins == INSTANCE CoordinatorTrust WITH Bases <- Base, Tabs <- Tab, MaxChain <- 2, MaxSeq <- Twice, MaxShares <- 2, MaxEvents <- 1
PinsOfTwo == INSTANCE CoordinatorTrust WITH Bases <- Base, Tabs <- TwoTabs, MaxChain <- 2, MaxSeq <- Twice, MaxShares <- 0, MaxEvents <- 0
SharedPins == INSTANCE CoordinatorTrust WITH Bases <- TwoBases, Tabs <- TwoTabs, MaxChain <- 1, MaxSeq <- OneOnly, MaxShares <- 0, MaxEvents <- 0
Keys == INSTANCE WalletKeys WITH Tabs <- Tab, Words <- Word, Ways <- AllWays, MaxOps <- 2
TwoPages == INSTANCE WalletKeys WITH Tabs <- TwoTabs, Words <- Word, Ways <- NewWords, MaxOps <- 1

(* An answer of every kind.                                                 *)
Rec(ok, f, t, s, h) == [txid |-> ok, from |-> f, to |-> t, status |-> s, height |-> h]
SomePayloads == {{}, Garbage,
    {Rec(TRUE, a1, {a2, a1}, "confirmed", 1), Rec(TRUE, a2, {a1}, "pending", 0)},
    {Rec(TRUE, a1, {a1}, "replaced", 0), Rec(TRUE, a2, {a2}, "confirmed", 1)},
    {Rec(TRUE, a1, {a1, a2}, "confirmed", 0)}, {Rec(TRUE, a1, {a2}, None, 0)},
    {Rec(TRUE, a2, {a1}, "pending", 1)}, {Rec(FALSE, a1, {a2}, "pending", 0)},
    {Rec(TRUE, x, {x}, "pending", 0)}}
History == INSTANCE WalletHistory WITH Addresses <- Own2, Payloads <- SomePayloads, MaxSeq <- 4, wallet <- active
Miner == INSTANCE StandaloneMiner WITH MaxTip <- 2, MaxCount <- 4, MaxBack <- 1, DelayMin <- 1, DelayMax <- 3, Once <- FALSE, tip <- top

Device == {d1}
NoDevice == {}
TwoRuns == <<"timed", "normal">>
Stop == INSTANCE Autopilot WITH Devices <- Device, Hidden <- NoDevice, Steps <- TwoRuns, MaxAsks <- 1, MaxTime <- 3, MaxCaptures <- 2, MaxStops <- 1

Operator == INSTANCE OperatorRun WITH MaxHeight <- 2, MaxWork <- 3, MaxTicks <- 1, MaxSetBacks <- 1

ASSUME Operator!OperatorAssumption
ASSUME Miner!MinerAssumption /\ Stop!AutopilotAssumption
ASSUME Keys!KeysAssumption /\ TwoPages!KeysAssumption /\ History!HistoryAssumption
ASSUME Mining!LoopAssumption /\ Switch!LoopAssumption /\ Follow!LoopAssumption /\ Rotation!LoopAssumption /\ Pins!TrustAssumption /\ SharedPins!TrustAssumption /\ PinsOfTwo!TrustAssumption
-----------------------------------------------------------------------------
Init == /\ part \in Parts /\ Switch!Init /\ (IF part = "shared pins" THEN SharedPins!Init ELSE IF part = "pins of two" THEN PinsOfTwo!Init ELSE Pins!Init) /\ (IF part = "two pages" THEN TwoPages!Init ELSE Keys!Init) /\ History!Init /\ Miner!Init /\ Stop!Init /\ Operator!Init
        /\ part # "switch" => wallet = a1
        /\ part \notin {"keys", "two pages"} => store.single = None
        /\ part # "history" => active = None
        /\ part # "stop" => mode = "physical"

OfLoop(name, A) == part = name /\ A /\ UNCHANGED <<part, pinVars, keyVars, historyVars, minerVars, campVars, operatorVars>>
OfPins(name, A) == part = name /\ A /\ UNCHANGED <<part, loopVars, keyVars, historyVars, minerVars, campVars, operatorVars>>
OfKeys(name, A) == part = name /\ A /\ UNCHANGED <<part, loopVars, pinVars, historyVars, minerVars, campVars, operatorVars>>
OfHistory(A) == part = "history" /\ A /\ UNCHANGED <<part, loopVars, pinVars, keyVars, minerVars, campVars, operatorVars>>
OfMiner(A) == part = "miner" /\ A /\ UNCHANGED <<part, loopVars, pinVars, keyVars, historyVars, campVars, operatorVars>>
OfStop(A) == part = "stop" /\ A /\ UNCHANGED <<part, loopVars, pinVars, keyVars, historyVars, minerVars, operatorVars>>
OfOperator(A) == part = "operator" /\ A /\ UNCHANGED <<part, loopVars, pinVars, keyVars, historyVars, minerVars, campVars>>
Next == \/ OfLoop("mining", Mining!Next) \/ OfLoop("switch", Switch!Next) \/ OfLoop("follow", Follow!Next) \/ OfLoop("rotation", Rotation!Next)
        \/ OfPins("pins", Pins!Next) \/ OfPins("shared pins", SharedPins!Next) \/ OfPins("pins of two", PinsOfTwo!Next) \/ OfKeys("keys", Keys!Next) \/ OfKeys("two pages", TwoPages!Next) \/ OfHistory(History!Next) \/ OfMiner(Miner!Next) \/ OfStop(Stop!Next) \/ OfOperator(Operator!Next)

(* What each part assumes; only one part moves in a behaviour, so that what *)
(* is assumed of several may be said at once.                               *)
Settling(i) == \E q \in open : q.id = i /\ History!Settle(q)
(* The parts whose progress is asked for.                                   *)
Fair == part \notin {"switch", "shared pins", "keys", "two pages"}
Fairness ==
    /\ WF_vars(Fair /\ (\/ OfLoop("mining", Mining!Step(l1)) \/ OfLoop("follow", Follow!Step(l1)) \/ OfLoop("rotation", Rotation!Step(l1))
               \/ OfPins("pins", Pins!Cycle(t1) \/ Pins!Throws(t1)) \/ OfPins("pins of two", PinsOfTwo!Cycle(t1) \/ PinsOfTwo!Throws(t1)) \/ OfHistory(Settling(1))
               \/ OfMiner(Miner!Round \/ Miner!NodeUnavailable) \/ OfStop(Stop!Open) \/ OfOperator(Operator!Runner)))
    /\ WF_vars(Fair /\ (\/ OfLoop("mining", Mining!Poll) \/ OfLoop("follow", Follow!Poll) \/ OfLoop("rotation", Rotation!Poll)
               \/ OfPins("pins", Pins!AskDescriptor(t1, b1)) \/ OfPins("pins of two", PinsOfTwo!AskDescriptor(t1, b1)) \/ OfHistory(Settling(2)) \/ OfStop(Stop!BaselineEnds)))
    /\ WF_vars(Fair /\ (\/ OfLoop("mining", \E a \in obs.asks \ Mining!Heeded : Mining!Answer(a, FALSE))
               \/ OfLoop("follow", \E a \in obs.asks \ Mining!Heeded : Follow!Answer(a, FALSE))
               \/ OfLoop("rotation", \E a \in obs.asks \ Mining!Heeded : Rotation!Answer(a, FALSE))
               \/ OfPins("pins of two", PinsOfTwo!Cycle(t2) \/ PinsOfTwo!Throws(t2)) \/ OfHistory(Settling(3)) \/ OfStop(Stop!WarmEnds)))
    /\ WF_vars(Fair /\ (\/ OfLoop("mining", \E a \in Mining!Heeded, lost \in BOOLEAN : Mining!Answer(a, lost))
               \/ OfLoop("follow", \E a \in Mining!Heeded : Follow!Answer(a, FALSE))
               \/ OfLoop("rotation", \E a \in Mining!Heeded : Rotation!Answer(a, FALSE))
               \/ OfPins("pins of two", PinsOfTwo!AskDescriptor(t2, b1)) \/ OfHistory(Settling(4)) \/ OfStop(Stop!MeasureEnds)))
    /\ WF_vars(Fair /\ (OfLoop("rotation", \E w \in pow.hashing : Rotation!WorkerPosts(w)) \/ OfStop(Stop!Package)))
    /\ WF_vars(Fair /\ (OfLoop("rotation", Rotation!Start(l1)) \/ OfStop(Stop!Continue)))
Spec == Init /\ [][Next]_vars /\ Fairness
-----------------------------------------------------------------------------
(* Direct work of the worker a page knows of is watched; one activation     *)
(* never waits for a worker that is gone, and leaves no other hashing;      *)
(* nobody is accused who did not change the window; what a miner reports    *)
(* brackets what its node did.                                              *)
MinersSound ==
    /\ part = "mining" => Mining!TypeOK /\ Mining!NoneWaitsInVain /\ Mining!WorkIsWatched
    /\ part = "switch" => Switch!TypeOK /\ Switch!NoneWaitsInVain /\ Switch!WorkIsWatched
    /\ part = "rotation" => Rotation!TypeOK /\ Rotation!NoneWaitsInVain
    /\ part = "pins" => Pins!TypeOK /\ Pins!AccusedDidIt
    /\ part = "shared pins" => SharedPins!TypeOK /\ SharedPins!AccusedDidIt
    /\ part = "miner" => Miner!TypeOK /\ Miner!CountersBracket

(* Change comes back, and what the page says of the past is about the       *)
(* address that is active.                                                  *)
WalletSound ==
    /\ part = "keys" => Keys!TypeOK /\ Keys!ChangeComesBack
    /\ part = "two pages" => TwoPages!TypeOK /\ TwoPages!ChangeComesBack
    /\ part = "history" => History!TypeOK /\ History!RowsBelong /\ History!ClaimsAreTrue

(* Honest evidence is admitted, and only as it was written.                 *)
EvidenceSound == Operator!TypeOK /\ Operator!EvidenceSound

(* Work is only given up for a tip that has moved, a pin only moves along   *)
(* certificates, a page keeps what it uses in the browser, and an older     *)
(* answer never takes the place of a newer one.                             *)
ClientSteps ==
    [][/\ part = "mining" => Mining!CancelsOnlyStale
       /\ part = "pins" => Pins!PinsOnlyAdvance /\ Pins!PagesOnlyAdvance
       /\ part = "shared pins" => SharedPins!PinsOnlyAdvance /\ SharedPins!PagesOnlyAdvance
       /\ part = "pins of two" => PinsOfTwo!PinsOnlyAdvance /\ PinsOfTwo!PagesOnlyAdvance
       /\ part = "keys" => Keys!KeepsItsOwn
       /\ part = "two pages" => TwoPages!KeepsItsOwn
       /\ part = "history" => History!NeverOlder]_vars

(* One activation of the loop of the page is a session of MTS-02's model,   *)
(* with or without faults and coordinators.                                 *)
ImplementsWorkSession == Follow!ImplementsWorkSession

(* CatchesUp for two pages; the other parts have one only.                  *)
Both == part = "pins of two"
BothCatchUp == \A b \in Base : \/ <>[](Both /\ PinsOfTwo!Reaches(b) => pins[b].id = own[b].id)
                                \/ []<><<Both /\ PinsOfTwo!Fails>>_vars

(* Direct work on a tip that is gone ends, a tip that stays is worked on,   *)
(* as long as requests do not fail (one activation of the loop); every      *)
(* coordinator is asked again, rotations are caught up with, the history is *)
(* not loading for ever, the miner reconnects, and Stop stops.              *)
ClientsProgress ==
    /\ Stop!StopEnds /\ Operator!RunEnds
    /\ History!Settles
    /\ []<>(part = "miner") => Miner!Reconnects /\ Miner!StopEnds
    /\ []<>(part = "pins") => Pins!CatchesUp
    /\ BothCatchUp
    /\ []<>(part = "mining") => Mining!StaleWorkStops
    /\ []<>(part = "follow") => Follow!FollowsTip
    /\ []<>(part = "rotation") => Rotation!RotationServesAll
=============================================================================
