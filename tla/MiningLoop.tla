---------------------------- MODULE MiningLoop ----------------------------
(* The mining loop of the browser page (mining.js): the rotation over the   *)
(* share coordinators with its cool-down, the direct work with its tip      *)
(* observer, the one global worker, and the buttons.  Every `await' is a    *)
(* pc; what runs between two awaits is one step.  Tips are numbers and two  *)
(* neighbours have one height, so a tip may be replaced at its height.      *)
(* A token that is superseded can never return, so only tokens in use are   *)
(* kept apart; 0 stands for a token no observer holds.                      *)
EXTENDS Naturals, FiniteSets, Sequences, SequencesExt

CONSTANTS
    Loops,        \* activations of miningLoop that may be alive together
    Coordinators, \* SHARE_COORDINATORS, a sequence
    Addresses,    \* reward addresses the wallet may select
    MaxTip,       \* bound: the chain advances up to this tip
    MaxAsks,      \* bound: status requests of observers under way
    MaxPosts,     \* bound: messages of workers under way
    Quiet,        \* requests answered without failing, and nobody stops
    None

Reasons == {"TIP_INVALIDATED", "TIP_FRESHNESS_UNKNOWN"}
LoopAssumption ==
    /\ IsFiniteSet(Loops) /\ {MaxTip, MaxAsks, MaxPosts} \subseteq Nat /\ Quiet \in BOOLEAN
    /\ None \notin Loops /\ None \notin Nat /\ IsInjective(Coordinators)
    /\ None \notin Reasons /\ None \notin [of : Loops, gen : Nat, parent : Nat]
    /\ None \notin [id : Nat, hdr : Nat] /\ None \notin [gen : Nat, parent : Nat, reason : Reasons \cup {None}]

VARIABLES lp,      \* per activation: where it waits, and on what work
          mining,  \* the flag `mining'
          wallet,  \* wallet.address
          pow,     \* worker, powReject, workers that hash, messages they sent
          obs,     \* token, timer, active observer, status requests under way
          cooling, \* coordinators whose retryAt lies ahead
          cursor,  \* coordinatorCursor
          tip      \* the tip of the network

vars == <<lp, mining, wallet, pow, obs, cooling, cursor, tip>>

NC == Len(Coordinators)
Ids == 1..(Cardinality(Loops) + MaxAsks)
Gens == 1..(2 * Cardinality(Loops) + MaxPosts)
Height(t) == t \div 2
Resting == [pc |-> "idle", hdr |-> 0, gen |-> 0, proof |-> None, id |-> 0, why |-> None, addr |-> None, todo |-> <<>>]

Init ==
    /\ lp = [l \in Loops |-> Resting]
    /\ mining = FALSE /\ wallet \in Addresses
    /\ pow = [worker |-> None, reject |-> None, hashing |-> {}, posted |-> {}]
    /\ obs = [token |-> 0, timer |-> None, active |-> None, asks |-> {}]
    /\ cooling = {} /\ cursor = 1 /\ tip = 0

TipByHeight(hdr) == IF Height(tip) > Height(hdr) THEN "stale" ELSE "current" (* Mutant: hashes are not compared. *)
(* directWorkTipState: what an answer of /status says of the work.          *)
TipState(hdr) == IF Height(tip) < Height(hdr) THEN "unknown"
                 ELSE IF tip = hdr THEN "current" ELSE "stale"

Abandoned(p) == [p EXCEPT !.worker = None] (* Mutant: forgotten, not terminated. *)
(* stopWorker: the worker of the page is ended, whoever waits for it.       *)
Terminated(p) == [p EXCEPT !.worker = None, !.hashing = @ \ {p.worker}]

(* localPow: a new worker, of a generation that nobody carries, takes the   *)
(* place of the one the page knew of.                                       *)
FreshGen == CHOOSE g \in Gens : /\ \A l \in Loops : lp[l].gen # g
                               /\ \A w \in pow.hashing \cup pow.posted : w.gen # g
Hashing(p, l, hdr) ==
    LET w == [of |-> l, gen |-> FreshGen, parent |-> hdr]
    IN  [p EXCEPT !.worker = w, !.reject = l, !.hashing = @ \cup {w}]

(* clearDirectTipObserver, and stop() of the observer with number id.       *)
Cleared(o) == [o EXCEPT !.token = 0, !.timer = None]
StopObserver(o, id) ==
    LET free == IF o.active # None /\ o.active.id = id THEN [o EXCEPT !.active = None] ELSE o
    IN  IF id # 0 /\ o.token = id THEN Cleared(free) ELSE free

(* startDirectTipObserver: a token no request under way carries.            *)
FreshId == CHOOSE i \in Ids : /\ \A a \in obs.asks : a.id # i
                              /\ \A l \in Loops : lp[l].id # i
Observing(o, id) ==
    LET me == [id |-> id, hdr |-> tip]
    IN  [o EXCEPT !.token = id, !.timer = me, !.active = me]

(* mineOneIteration: the coordinators in turn from the cursor; those that   *)
(* are cooling when their turn comes are passed by, then direct work.       *)
Rotation(cur) == [i \in 1..NC |-> Coordinators[(((cur + i) - 2) % NC) + 1]]
PassBy(todo, cool) ==
    LET warm == {i \in 1..Len(todo) : todo[i] \notin cool}
    IN  IF warm = {} THEN <<>>
        ELSE SubSeq(todo, CHOOSE i \in warm : \A j \in warm : i <= j, Len(todo))
Turn(l, todo, cool) ==
    LET left == PassBy(todo, cool)
    IN  [Resting EXCEPT !.addr = lp[l].addr, !.todo = left,
                        !.pc = IF left = <<>> THEN "template" ELSE "work"]
After(c) == ((CHOOSE i \in 1..NC : Coordinators[i] = c) % NC) + 1

(* The end of miningLoop: its `finally' ends the worker of the page without *)
(* telling whoever waits for it.                                            *)
End(l) ==
    /\ lp' = [lp EXCEPT ![l] = Resting]
    /\ mining' = FALSE /\ pow' = Terminated(pow)

(* The head of the while loop.                                              *)
Again(l, cool, cur) ==
    \/ /\ mining /\ wallet = lp[l].addr
       /\ lp' = [lp EXCEPT ![l] = Turn(l, Rotation(cur), cool)]
       /\ UNCHANGED <<mining, pow>>
    \/ /\ ~mining \/ wallet # lp[l].addr
       /\ End(l)

(* mine: the button is enabled when the page does not mine.                 *)
Start(l) ==
    /\ ~mining /\ lp[l].pc = "idle" /\ mining' = TRUE
    /\ lp' = [lp EXCEPT ![l] = [Turn(l, Rotation(cursor), cooling) EXCEPT !.addr = wallet]]
    /\ UNCHANGED <<wallet, pow, obs, cooling, cursor, tip>>

(* stop: the activation whose Proof of Work is rejected runs to its end at  *)
(* once, its observer stopped; any other goes on with what it awaits.       *)
StopMining ==
    /\ mining /\ ~Quiet /\ mining' = FALSE
    /\ pow' = [Terminated(pow) EXCEPT !.reject = None]
    /\ IF pow.reject = None
       THEN obs' = Cleared(obs) /\ UNCHANGED lp
       ELSE /\ obs' = StopObserver(Cleared(obs), lp[pow.reject].id)
            /\ lp' = [lp EXCEPT ![pow.reject] = Resting]
    /\ UNCHANGED <<wallet, cooling, cursor, tip>>

(* The wallet's own guards refuse while the flag is up, but they look       *)
(* before they await, so the address may change at any time.                *)
SelectAddress(a) ==
    /\ ~Quiet /\ wallet' = a
    /\ UNCHANGED <<lp, mining, pow, obs, cooling, cursor, tip>>

(* mineDirectIteration: the template is here; its observer starts, and its  *)
(* Proof of Work.                                                           *)
GotTemplate(l) ==
    /\ lp[l].pc = "template"
    /\ LET id == FreshId
       IN  /\ lp' = [lp EXCEPT ![l].pc = "pow", ![l].hdr = tip, ![l].gen = FreshGen,
                                   ![l].proof = None, ![l].id = id, ![l].why = None]
           /\ obs' = Observing(obs, id)
    /\ pow' = Hashing(pow, l, tip)
    /\ UNCHANGED <<mining, wallet, cooling, cursor, tip>>

(* A request failed and the loop has no way to go on: the error is shown.   *)
(* So it ends after a stale tip or a won block, too, if the status of its   *)
(* `await refresh()' does not come.                                         *)
RequestFails(l) ==
    /\ ~Quiet /\ lp[l].pc \in {"template", "submit", "refresh"}
    /\ End(l)
    /\ obs' = StopObserver(obs, lp[l].id)
    /\ UNCHANGED <<wallet, cooling, cursor, tip>>

(* A worker found a nonce and posts it; what it posts may still be under    *)
(* way when it is ended.                                                    *)
WorkerPosts(w) ==
    /\ w \in pow.hashing /\ Cardinality(pow.posted) < MaxPosts
    /\ pow' = [pow EXCEPT !.hashing = @ \ {w}, !.posted = @ \cup {w}]
    /\ UNCHANGED <<lp, mining, wallet, obs, cooling, cursor, tip>>

(* `current' of localPow: the worker the page knows of, and its generation. *)
HeardByLoop(w) == pow.worker # None /\ pow.worker.of = w.of (* Mutant: whatever worker the loop waits for. *)
Heard(w) == pow.worker # None /\ pow.worker = w

OnMessage(w) ==
    /\ w \in pow.posted
    /\ LET rest == [pow EXCEPT !.posted = @ \ {w}]
       IN  IF Heard(w)
           THEN /\ pow' = [Terminated(rest) EXCEPT !.reject = None]
                /\ lp' = [lp EXCEPT ![w.of].pc = IF @ = "pow" THEN "fresh" ELSE "share", ![w.of].proof = w.parent]
           ELSE pow' = rest /\ UNCHANGED lp
    /\ UNCHANGED <<mining, wallet, obs, cooling, cursor, tip>>

(* onerror of the worker: a coordinator is blamed, direct work gives up.    *)
WorkerFails(l) ==
    /\ ~Quiet /\ \E w \in pow.hashing : w.of = l /\ Heard(w)
    /\ pow' = [Terminated(pow) EXCEPT !.reject = None]
    /\ obs' = StopObserver(obs, lp[l].id)
    /\ IF lp[l].pc = "pow"
       THEN /\ lp' = [lp EXCEPT ![l] = Resting] /\ mining' = FALSE
            /\ UNCHANGED <<cooling, cursor>>
       ELSE /\ cooling' = cooling \cup {Head(lp[l].todo)}
            /\ cursor' = After(Head(lp[l].todo))
            /\ lp' = [lp EXCEPT ![l] = Turn(l, Tail(lp[l].todo), cooling')]
            /\ UNCHANGED mining
    /\ UNCHANGED <<wallet, tip>>

(* Leaving the direct iteration for `await refresh()' of the loop.          *)
ToRefresh(l) ==
    /\ lp' = [lp EXCEPT ![l] = [Resting EXCEPT !.pc = "refresh", !.addr = lp[l].addr]]
    /\ obs' = StopObserver(obs, lp[l].id)
    /\ UNCHANGED pow

(* assertDirectWorkFresh, just before the block is offered.                 *)
AssertFresh(l) ==
    /\ lp[l].pc = "fresh"
    /\ \/ /\ TipState(lp[l].hdr) = "current" /\ lp[l].why = None
          /\ lp' = [lp EXCEPT ![l].pc = "submit"]
          /\ UNCHANGED <<obs, pow>>
       \/ /\ TipState(lp[l].hdr) # "current" \/ lp[l].why # None \/ ~Quiet
          /\ ToRefresh(l)
    /\ UNCHANGED <<mining, wallet, cooling, cursor, tip>>

(* submit-block: taken if the parent is still the tip, else a stale error;  *)
(* `if(!mining)break' comes first.                                          *)
SubmitBlock(l) ==
    /\ lp[l].pc = "submit"
    /\ IF lp[l].hdr = tip /\ tip < MaxTip THEN tip' = tip + 1 ELSE UNCHANGED tip
    /\ IF mining \/ lp[l].hdr # tip THEN ToRefresh(l) /\ UNCHANGED mining
       ELSE End(l) /\ obs' = StopObserver(obs, lp[l].id)
    /\ UNCHANGED <<wallet, cooling, cursor>>

(* The status came; without it RequestFails.                                *)
Refreshed(l) ==
    /\ lp[l].pc = "refresh" /\ Again(l, cooling, cursor)
    /\ UNCHANGED <<wallet, obs, cooling, cursor, tip>>

(* mineCoordinatorIteration: work that verifies, then a share.              *)
GotWork(l) ==
    /\ lp[l].pc = "work"
    /\ lp' = [lp EXCEPT ![l].pc = "sharepow", ![l].hdr = tip, ![l].gen = FreshGen]
    /\ pow' = Hashing(pow, l, tip)
    /\ UNCHANGED <<mining, wallet, obs, cooling, cursor, tip>>

(* markCoordinatorFailure: cool down, and try the next one of this turn.    *)
Failed(l, cool) == Turn(l, Tail(lp[l].todo), cool)

CoordinatorFails(l) ==
    /\ lp[l].pc \in {"work", "share"}
    /\ cooling' = cooling \cup {Head(lp[l].todo)}
    /\ cursor' = After(Head(lp[l].todo))
    /\ lp' = [lp EXCEPT ![l] = Failed(l, cooling')]
    /\ UNCHANGED <<mining, wallet, pow, obs, tip>>

(* A verified share receipt: the next turn starts behind this coordinator.  *)
(* If the share was a block the page refreshes first.  `won' is the block.  *)
CursorAfter(c) == After(c)

ShareAccepted(l, won) ==
    /\ lp[l].pc = "share" /\ (won => tip < MaxTip)
    /\ cooling' = cooling \ {Head(lp[l].todo)}
    /\ cursor' = CursorAfter(Head(lp[l].todo))
    /\ tip' = IF won THEN tip + 1 ELSE tip
    /\ IF mining /\ won
       THEN lp' = [lp EXCEPT ![l] = [Resting EXCEPT !.pc = "refresh", !.addr = lp[l].addr]] /\ UNCHANGED <<mining, pow>>
       ELSE Again(l, cooling', cursor')
    /\ UNCHANGED <<wallet, obs>>

CoolDown(c) ==
    /\ c \in cooling /\ cooling' = cooling \ {c}
    /\ UNCHANGED <<lp, mining, wallet, pow, obs, cursor, tip>>

(* poll: the timer of the observer fires and asks for the status.           *)
Poll ==
    /\ obs.timer # None /\ Cardinality(obs.asks) < MaxAsks
    /\ obs' = [obs EXCEPT !.timer = None,
                          !.asks = @ \cup {[id |-> obs.timer.id, hdr |-> obs.timer.hdr, kind |-> "poll"]}]
    /\ UNCHANGED <<lp, mining, wallet, pow, cooling, cursor, tip>>

(* A hint of another tab, or the page comes back to the front: the active   *)
(* observer asks at once; only the return to the front fails closed.        *)
Revalidate(kind) ==
    /\ obs.active # None /\ ~Quiet /\ Cardinality(obs.asks) < MaxAsks
    /\ obs' = [obs EXCEPT !.asks =
                 @ \cup {[id |-> obs.active.id, hdr |-> obs.active.hdr, kind |-> kind]}]
    /\ UNCHANGED <<lp, mining, wallet, pow, cooling, cursor, tip>>

(* invalidate: the observer notes why, stops itself and the worker of the   *)
(* page; whoever waits for a Proof of Work is told.                         *)
Invalidate(a, o, why) ==
    LET noted == [l \in Loops |-> IF lp[l].id = a.id THEN [lp[l] EXCEPT !.why = why] ELSE lp[l]]
        gone == [Cleared(o) EXCEPT !.active = IF @ # None /\ @.id = a.id THEN None ELSE @]
    IN  /\ pow' = [Terminated(pow) EXCEPT !.reject = None]
        /\ obs' = gone
        /\ \/ pow.reject = None /\ lp' = noted /\ UNCHANGED <<cooling, cursor>>
           \/ /\ pow.reject # None /\ lp[pow.reject].pc = "pow"
              /\ lp' = [noted EXCEPT ![pow.reject].pc = "refresh", ![pow.reject].id = 0]
              /\ UNCHANGED <<cooling, cursor>>
           \/ /\ pow.reject # None /\ lp[pow.reject].pc = "sharepow"
              /\ cooling' = cooling \cup {Head(lp[pow.reject].todo)}
              /\ cursor' = After(Head(lp[pow.reject].todo))
              /\ lp' = [noted EXCEPT ![pow.reject] = Failed(pow.reject, cooling')]

(* The answer: one whose token was superseded is not looked at.             *)
Superseded(a) == obs.token # a.id

Answer(a, lost) ==
    /\ a \in obs.asks /\ (lost => ~Quiet)
    /\ LET o == [obs EXCEPT !.asks = @ \ {a}]
           s == IF lost THEN "unknown" ELSE TipState(a.hdr)
       IN  \/ Superseded(a) /\ obs' = o /\ UNCHANGED <<lp, pow, cooling, cursor>>
           \/ ~Superseded(a) /\ s = "stale" /\ Invalidate(a, o, "TIP_INVALIDATED")
           \/ ~Superseded(a) /\ s = "unknown" /\ a.kind = "resume" /\ Invalidate(a, o, "TIP_FRESHNESS_UNKNOWN")
           \/ /\ ~Superseded(a) /\ (s = "current" \/ (s = "unknown" /\ a.kind # "resume"))
              /\ obs' = IF a.kind = "poll" THEN [o EXCEPT !.timer = [id |-> a.id, hdr |-> a.hdr]] ELSE o
              /\ UNCHANGED <<lp, pow, cooling, cursor>>
    /\ UNCHANGED <<mining, wallet, tip>>

(* Somebody else's block, at the next height or in place of the tip.        *)
TipMoves ==
    /\ tip < MaxTip /\ tip' = tip + 1
    /\ UNCHANGED <<lp, mining, wallet, pow, obs, cooling, cursor>>

Step(l) ==
    \/ GotTemplate(l) \/ RequestFails(l) \/ (\E w \in pow.posted : w.of = l /\ OnMessage(w)) \/ AssertFresh(l) \/ SubmitBlock(l)
    \/ Refreshed(l) \/ GotWork(l) \/ CoordinatorFails(l) \/ \E won \in BOOLEAN : ShareAccepted(l, won)

Next ==
    \/ \E l \in Loops : Start(l) \/ Step(l) \/ WorkerFails(l)
    \/ \E w \in pow.hashing : WorkerPosts(w)
    \/ StopMining \/ Poll \/ TipMoves
    \/ \E a \in Addresses : SelectAddress(a)
    \/ \E k \in {"hint", "resume"} : Revalidate(k)
    \/ \E a \in obs.asks, lost \in BOOLEAN : Answer(a, lost)
    \/ \E c \in cooling : CoolDown(c)

(* Requests return and the timer fires.                                     *)
Heeded == {a \in obs.asks : a.kind = "poll" /\ ~Superseded(a)}
Fairness ==
    /\ \A l \in Loops : WF_vars(Step(l))
    /\ WF_vars(Poll) /\ WF_vars(\E a \in Heeded, lost \in BOOLEAN : Answer(a, lost))
    /\ WF_vars(\E a \in obs.asks \ Heeded : Answer(a, FALSE))
FairSpec == Init /\ [][Next]_vars /\ Fairness

-----------------------------------------------------------------------------
(* Values of the variables, before any fault.                               *)
TypeOK ==
    /\ \A l \in Loops : /\ lp[l].pc \in {"idle", "template", "pow", "fresh", "submit",
                                        "refresh", "work", "sharepow", "share"}
                        /\ lp[l].hdr \in 0..MaxTip /\ lp[l].id \in Ids \cup {0}
                        /\ lp[l].pc \in {"work", "sharepow", "share"} => lp[l].todo # <<>>
    /\ mining \in BOOLEAN /\ wallet \in Addresses /\ tip \in 0..MaxTip
    /\ pow.reject \in Loops \cup {None}
    /\ (pow.hashing \cup pow.posted \cup {pow.worker}) \ {None} \subseteq [of : Loops, gen : Gens, parent : 0..MaxTip]
    /\ cooling \subseteq {Coordinators[i] : i \in 1..NC} /\ (cursor \in 1..NC \/ NC = 0)

Waiting(l) == lp[l].pc \in {"pow", "sharepow"}

(* Whatever activations overlap after a stop and a start, the worker that   *)
(* the page knows of searches for the work on which its activation waits,   *)
(* and whoever ends it tells that activation; on direct work it is watched: *)
(* the token is with its observer, which has a timer or a request under     *)
(* way, so that a later tip will be seen, and only answers about this work  *)
(* are heeded (startDirectTipObserver, localPow).                           *)
WorkIsWatched ==
    pow.worker # None =>
       LET l == pow.worker.of
       IN  /\ Waiting(l) /\ pow.reject = l /\ pow.worker \in pow.hashing \cup pow.posted
           /\ pow.worker = [of |-> l, gen |-> lp[l].gen, parent |-> lp[l].hdr]
           /\ lp[l].pc = "pow" =>
                 /\ lp[l].id = obs.token /\ obs.token # 0
                 /\ \A a \in obs.asks : a.id = obs.token => a.hdr = lp[l].hdr
                 /\ \/ obs.timer # None /\ obs.timer.id = obs.token
                    \/ \E a \in obs.asks : a.id = obs.token /\ a.kind = "poll"

(* However activations overlap, what one of them offers to the node or to   *)
(* a coordinator was found for the very header it offers, although there is *)
(* one worker, one generation and one rejection for all (localPow).         *)
OffersItsOwn ==
    \A l \in Loops : lp[l].pc \in {"fresh", "submit", "share"} => lp[l].proof = lp[l].hdr

(* With one activation none waits in vain: whatever observer, hint,         *)
(* coordinator or button ends a worker also tells the loop, and no other    *)
(* worker is left hashing.  It fails when a stop and a start leave two.     *)
NoneWaitsInVain ==
    /\ \A l \in Loops : Waiting(l) => pow.worker # None /\ pow.worker.of = l
    /\ pow.hashing \subseteq {pow.worker}

(* However activations overlap, direct work is not given up while its       *)
(* parent is the tip, unless the page came back to the front and could not  *)
(* ask: a late answer about other work (the token check of invalidate)      *)
(* never cancels it.                                                        *)
CancelsOnlyStale ==
    \A l \in Loops : (lp[l].pc = "pow" /\ lp'[l].pc = "refresh") =>
       \/ tip # lp[l].hdr
       \/ \E a \in obs.asks : a.id = lp[l].id /\ a.kind = "resume"

(* One activation is a session of MTS-02's model: what it offers was found  *)
(* for the work it is on, by a worker of its present generation, and a      *)
(* message of a worker that was ended on the way is never heard; the tip    *)
(* only cancels work it made stale (localPow's current, invalidate).        *)
Here == CHOOSE l \in Loops : TRUE
Bound == \/ lp[Here].pc \in {"pow", "fresh", "submit", "sharepow", "share"}
         \/ lp[Here].pc = "refresh" /\ lp[Here].why # None
Searched(ws) == {[gen |-> w.gen, parent |-> w.parent] : w \in ws}
Session == INSTANCE WorkSession WITH
    Generations <- Gens, Tips <- 0..MaxTip,
    current <- IF Bound THEN [gen |-> lp[Here].gen, parent |-> lp[Here].hdr, reason |-> lp[Here].why] ELSE None,
    workers <- Searched(pow.hashing), events <- Searched(pow.posted),
    result <- IF lp[Here].proof = None THEN None ELSE [gen |-> lp[Here].gen, parent |-> lp[Here].proof]
ImplementsWorkSession == Session!Spec

(* The worker the page knows of does not go on with direct work on a parent *)
(* that is no longer the tip, through failures of coordinators, stops and   *)
(* starts, unless the status is lost again and again.  (Work of a           *)
(* coordinator is not watched: it ends with the share that is refused.)     *)
StaleWorkStops ==
    \/ []<>~(pow.worker \in pow.hashing /\ lp[pow.worker.of].pc = "pow" /\ pow.worker.parent # tip)
    \/ []<><<\E a \in Heeded : Answer(a, TRUE)>>_vars

(* Started once, the page gets to work on every tip that stays: nobody has  *)
(* to stop and start it (the loop's `continue' after a stale tip).          *)
FollowsTip ==
    []<>(mining => \E l \in Loops : lp[l].pc \in {"pow", "fresh", "submit"} /\ lp[l].hdr = tip)

(* A coordinator that stops failing gets work again and again, however well *)
(* or badly the others do (coordinatorCursor and the cool-down).            *)
Asked(c) == \E l \in Loops : lp[l].pc = "work" /\ Head(lp[l].todo) = c
RotationServesAll ==
    \A i \in 1..NC : (<>[](Coordinators[i] \notin cooling)) => []<>Asked(Coordinators[i])
===========================================================================
