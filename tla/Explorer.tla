------------------------------ MODULE Explorer ------------------------------
(* The block explorer: the reader of one node's state (explorer-read.mjs),  *)
(* the client (explorer/api-client.mjs), a page (explorer/app.mjs) and the  *)
(* gateway between them, which may lose an answer.  The nodes are those of  *)
(* LegacyNode.  Answers arrive in any order and the page has no way to tell *)
(* which of them it asked for last.                                         *)
EXTENDS LegacyNode

CONSTANTS Server,     \* the node that is asked
          Routes,     \* pages one may go to: <<kind, what>>, <<>> is home
          PageLimit, MaxOpens \* events of a page; bound: times one goes to a page

VARIABLES hash,   \* location.hash
          asked,  \* requests of show() in flight, with the answer once the node gave it
          pane,   \* what the detail pane shows
          opens
view == <<hash, asked, pane, opens>>
-----------------------------------------------------------------------------
(* rewardEvents, transferEvent, eventOrder: what an address sees.           *)
Events(s, a) ==
    {<<"reward", h>> : h \in {h \in ToSet(s.chain) : Miner = a}}
        \cup {<<"transfer", t>> : t \in {t \in Confirmed(s) \cup Pending(s) : a \in {Txs[t].from, Txs[t].to}}}
IsPending(s, e) == e[1] = "transfer" /\ e[2] \in Pending(s)
HeightOf(s, e) == IF e[1] = "reward" THEN CHOOSE i \in DOMAIN s.chain : s.chain[i] = e[2]
                  ELSE IF IsPending(s, e) THEN Cardinality(Hashes) + 1 ELSE Height(s, e[2])
Sequence(s, e) == IF e[1] = "reward" THEN 0 ELSE s.seq[e[2]]
EventOrder(s, e, f) ==
    \/ HeightOf(s, e) > HeightOf(s, f)
    \/ HeightOf(s, e) = HeightOf(s, f) /\ (Sequence(s, e) > Sequence(s, f) \/ (Sequence(s, e) = Sequence(s, f) /\ e[2] < f[2]))
History(s, a) == SetToSortSeq(Events(s, a), LAMBDA e, f : EventOrder(s, e, f))

(* eventRow: what an event adds to the balance of an address.               *)
Gain(s, e, a) ==
    IF e[1] = "reward" THEN Reward
    ELSE LET t == Txs[e[2]] back == IF t.to = a THEN t.out ELSE 0 IN
         IF t.from = a THEN back - t.out - (Total(t.inputs) - t.out) ELSE back
BalanceAtoms(s, a) == Total({o \in Unspent(s) : Owner(o) = a})

(* parseCursor and the page it starts; a cursor names a tip and an offset.  *)
AnyTip(s, a, cursor) == (* Mutant: the cursor is an offset. *)
    LET all == History(s, a) to == cursor.from + PageLimit IN
    [ok |-> TRUE, tip |-> Tip(s), page |-> SubSeq(all, cursor.from + 1, IF to < Len(all) THEN to ELSE Len(all)),
     next |-> IF to < Len(all) THEN to ELSE 0, total |-> Len(all)]
Address(s, a, cursor) ==
    LET all == History(s, a) to == cursor.from + PageLimit IN
    IF cursor.from # 0 /\ cursor.tip # Tip(s) THEN [ok |-> FALSE]
    ELSE [ok |-> TRUE, tip |-> Tip(s), page |-> SubSeq(all, cursor.from + 1, IF to < Len(all) THEN to ELSE Len(all)),
          next |-> IF to < Len(all) THEN to ELSE 0, total |-> Len(all)]
FirstPage == [tip |-> 0, from |-> 0]
Confirmations(s, h) == Len(s.chain) - h + 1

(* handle: what the node answers to a route of the page.                    *)
Reply(s, r) ==
    CASE r[1] = "address" -> Address(s, r[2], FirstPage)
      [] r[1] = "block" -> IF r[2] \in ToSet(s.chain) THEN [ok |-> TRUE, confirmations |-> Confirmations(s, HeightOf(s, <<"reward", r[2]>>))] ELSE [ok |-> FALSE]
      [] r[1] = "tx" -> IF r[2] \in Confirmed(s) \cup Pending(s)
                        THEN [ok |-> TRUE, confirmations |-> IF r[2] \in Pending(s) THEN 0 ELSE Confirmations(s, Height(s, r[2]))] ELSE [ok |-> FALSE]
      [] r[1] = "search" -> IF r[2] \in DOMAIN s.chain THEN [ok |-> TRUE, match |-> <<"block", s.chain[r[2]]>>] ELSE [ok |-> FALSE]
-----------------------------------------------------------------------------
Blank(kind, r) == [kind |-> kind, route |-> r]
ViewInit == hash = <<>> /\ asked = {} /\ pane = Blank("empty", <<>>) /\ opens = 0

(* hashchange: show() sets the pane to loading and asks.                    *)
Show(r) ==
    /\ hash' = r
    /\ IF r = <<>> THEN pane' = Blank("empty", r) /\ UNCHANGED asked
       ELSE pane' = Blank("loading", r) /\ asked' = asked \cup {[route |-> r, reply |-> None]}
Navigate(r) == r # hash /\ opens < MaxOpens /\ opens' = opens + 1 /\ Show(r) /\ UNCHANGED vars
Serve(q) ==
    /\ q.reply = None /\ asked' = (asked \ {q}) \cup {[q EXCEPT !.reply = Reply(state[Server], q.route)]}
    /\ UNCHANGED <<vars, hash, pane, opens>>
(* The answer is shown, whatever the pane shows by now; the only match of a *)
(* search is gone to.                                                       *)
Answer(q) ==
    /\ q.reply # None
    /\ IF ~q.reply.ok THEN pane' = Blank("failed", q.route) /\ asked' = asked \ {q} /\ UNCHANGED <<hash, opens>>
       ELSE IF q.route[1] = "search"
       THEN /\ UNCHANGED opens
            /\ IF q.reply.match = hash THEN asked' = asked \ {q} /\ UNCHANGED <<hash, pane>>
               ELSE /\ hash' = q.reply.match /\ pane' = Blank("loading", hash')
                    /\ asked' = (asked \ {q}) \cup {[route |-> hash', reply |-> None]}
       ELSE /\ asked' = asked \ {q} /\ UNCHANGED <<hash, opens>>
            /\ pane' = IF q.route[1] = "address"
                       THEN [kind |-> "address", route |-> q.route, tip |-> q.reply.tip, shown |-> q.reply.page, next |-> q.reply.next, total |-> q.reply.total, busy |-> FALSE, more |-> None]
                       ELSE Blank("shown", q.route)
    /\ UNCHANGED vars
(* fetch throws, or the gateway answers 502.                                *)
Lose(q) == pane' = Blank("failed", q.route) /\ asked' = asked \ {q} /\ UNCHANGED <<vars, hash, opens>>

(* Load more: the button is disabled until the answer is there; after an    *)
(* error it asks with the same cursor again.                                *)
Loaded == pane.kind = "address"
More == Loaded /\ pane.next # 0 /\ ~pane.busy /\ pane' = [pane EXCEPT !.busy = TRUE] /\ UNCHANGED <<vars, hash, asked, opens>>
ServeMore ==
    /\ Loaded /\ pane.busy /\ pane.more = None
    /\ pane' = [pane EXCEPT !.more = Address(state[Server], pane.route[2], [tip |-> pane.tip, from |-> pane.next])]
    /\ UNCHANGED <<vars, hash, asked, opens>>
MoreComes ==
    /\ Loaded /\ pane.more # None
    /\ pane' = IF pane.more.ok THEN [pane EXCEPT !.shown = @ \o pane.more.page, !.next = pane.more.next, !.busy = FALSE, !.more = None]
               ELSE [pane EXCEPT !.busy = FALSE, !.more = None]
    /\ UNCHANGED <<vars, hash, asked, opens>>
MoreLost == Loaded /\ pane.busy /\ pane' = [pane EXCEPT !.busy = FALSE, !.more = None] /\ UNCHANGED <<vars, hash, asked, opens>>

Init2 == Init /\ ViewInit
ExplorerNext ==
    \/ Next /\ UNCHANGED view
    \/ \E r \in Routes : Navigate(r)
    \/ \E q \in asked : Serve(q) \/ Answer(q) \/ Lose(q)
    \/ More \/ ServeMore \/ MoreComes \/ MoreLost
ExplorerSpec == Init2 /\ [][ExplorerNext]_<<vars, view>>
-----------------------------------------------------------------------------
(* The variables have their types, and a page has at most what is left.     *)
ViewOK ==
    /\ hash \in Routes \cup {<<"block", h>> : h \in Hashes} /\ opens \in 0..MaxOpens
    /\ Loaded => pane.next \in 0..(pane.total + Cardinality(Ids)) /\ Len(pane.shown) >= pane.next

(* With all pages loaded, every event the address had when the first one    *)
(* was read has been shown, though transactions came in and blocks did, or  *)
(* the node changed its chain, between the pages (node/README.md, "rather   *)
(* than mixing history from two chain views").                              *)
NothingMissed == Loaded /\ pane.next = 0 => Cardinality(ToSet(pane.shown)) >= pane.total

(* The balance is what the confirmed events of the history add up to.       *)
HistoryIsBalance == LET s == state[Server] IN \A a \in {Txs[t].to : t \in Ids} \cup {Miner} :
    LET past == {e \in Events(s, a) : ~IsPending(s, e)}
    IN  SumOver([e \in past |-> Gain(s, e, a)], past) = BalanceAtoms(s, a)

(* The page does not load for ever: an answer is awaited whenever it says   *)
(* that one is.                                                             *)
NoEndlessLoading == pane.kind = "loading" => asked # {}

=============================================================================
