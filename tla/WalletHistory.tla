--------------------------- MODULE WalletHistory ---------------------------
(* The history panel of the wallet page: refresh and refreshNow of core.js  *)
(* with their overlapping requests, and what wallet-transactions.js makes   *)
(* of an answer.  An address is selected and its refresh is begun in one    *)
(* step, since nothing is awaited in between.  The balance and the recent   *)
(* blocks are set under the same guards and left out.                       *)
EXTENDS Naturals, FiniteSets

CONSTANTS Addresses, \* addresses the wallet may select
          Payloads,  \* answers of /transactions: sets of records, or Garbage
          Garbage,   \* an answer that is not a list of transactions
          MaxSeq,    \* bound: refreshSequence
          None

HistoryAssumption == None \notin Addresses /\ None \notin [id : Nat, addr : Addresses \cup {None}]

VARIABLES wallet,  \* wallet?.address
          seq,     \* refreshSequence
          open,    \* refreshNow activations that await an answer
          shared,  \* refreshPromise and refreshAddress
          hist,    \* walletHistoryState
          box,     \* what #txhist shows
          life,    \* data-state of #historystate
          net      \* data-state of #netstatus

vars == <<wallet, seq, open, shared, hist, box, life, net>>

Init ==
    /\ wallet \in Addresses \cup {None} /\ seq = 0 /\ open = {} /\ shared = None
    /\ hist = [state |-> "none", addr |-> None, txs |-> {}, id |-> 0]
    /\ box = [kind |-> "message", addr |-> None, id |-> 0]
    /\ life = "idle" /\ net = "connecting"

-----------------------------------------------------------------------------
(* wallet-transactions.js.  A record: is the txid well formed, who pays,    *)
(* whom, the status and the height (0 for none).                            *)

(* classifyDirection                                                        *)
Direction(r, a) ==
    CASE r.from # a /\ a \notin r.to -> "unrelated"
      [] r.from = a /\ r.to = {a} -> "self"
      [] r.from = a /\ r.to # {a} -> "sent"
      [] OTHER -> "received"

(* normalizeStatus: only a height makes a confirmation, and only its        *)
(* absence makes a pending one.                                             *)
StatusKind(r) ==
    CASE r.status = "confirmed" -> IF r.height > 0 THEN "confirmed" ELSE "invalid"
      [] r.status = "pending" -> IF r.height = 0 THEN "pending" ELSE "invalid"
      [] r.status = None -> "invalid"
      [] OTHER -> "unknown"

(* normalizeTransaction, normalizeOutputs                                   *)
Normal(r, a) ==
    /\ r.txid /\ r.from # None /\ r.to # {}
    /\ Direction(r, a) # "unrelated" /\ StatusKind(r) # "invalid"

(* normalizeHistoryPayload                                                  *)
NormalizeHistoryPayload(p, a) ==
    IF p = Garbage THEN [state |-> "invalid_payload", txs |-> {}]
    ELSE LET good == {r \in p : Normal(r, a)}
         IN  [state |-> IF good # p THEN "invalid_payload"
                        ELSE IF good # {} THEN "ready_recent"
                        ELSE "empty_within_available_coverage",
              txs |-> good]

(* historyFailure                                                           *)
Preserved(state) == state \in {"ready_recent", "empty_within_available_coverage", "stale"}
-----------------------------------------------------------------------------
(* historyRequestIsCurrent                                                  *)
HistoryRequestIsCurrent(q) == q.id = seq /\ wallet = q.addr

(* beginHistoryRequest: rows of another address are taken off the page.     *)
BeginHistoryRequest(a) ==
    /\ life' = "loading"
    /\ box' = IF hist.addr = a THEN box ELSE [kind |-> "message", addr |-> None, id |-> 0]

(* applyHistoryPayload                                                      *)
ApplyHistoryPayload(q, p) ==
    LET n == NormalizeHistoryPayload(p, q.addr)
    IN  /\ hist' = [state |-> n.state, addr |-> q.addr, txs |-> n.txs, id |-> q.id]
        /\ box' = IF n.state = "ready_recent" THEN [kind |-> "rows", addr |-> q.addr, id |-> q.id]
                  ELSE [kind |-> n.state, addr |-> q.addr, id |-> q.id]
        /\ life' = n.state

(* failHistoryRequest: what this address showed before is kept as stale.    *)
FailHistoryRequest(q) ==
    LET keep == hist.addr = q.addr /\ Preserved(hist.state)
    IN  /\ hist' = [state |-> IF keep THEN "stale" ELSE "unavailable",
                    addr |-> IF hist.addr = q.addr THEN hist.addr ELSE None,
                    txs |-> IF keep THEN hist.txs ELSE {}, id |-> q.id]
        /\ box' = IF keep THEN box ELSE [kind |-> "message", addr |-> None, id |-> 0]
        /\ life' = hist'.state

(* refresh and refreshNow up to its first await, for the address a; one run *)
(* for the same address is shared.                                          *)
Refresh(a) ==
    /\ wallet' = a
    /\ IF shared # None /\ shared.addr = a
       THEN UNCHANGED <<seq, open, shared, box, life, net>>
       ELSE /\ seq < MaxSeq /\ seq' = seq + 1
            /\ open' = open \cup {[id |-> seq', addr |-> a, at |-> "network"]}
            /\ shared' = [id |-> seq', addr |-> a]
            /\ net' = IF net = "online" THEN net ELSE "connecting"
            /\ IF a = None THEN UNCHANGED <<box, life>> ELSE BeginHistoryRequest(a)
    /\ UNCHANGED hist

(* The button, the timer of seven seconds, the mining loop.                 *)
RefreshAgain == Refresh(wallet)
(* Another address of the wallet, an external address, another wallet.      *)
Select(a) == a # wallet /\ Refresh(a)

(* The end of a run: the shared promise is forgotten if it is this one.     *)
Finish(q) ==
    /\ open' = open \ {q}
    /\ shared' = IF shared # None /\ shared.id = q.id THEN None ELSE shared

(* /status failed: the run ends with an error.                              *)
NetworkFails(q) ==
    /\ q.at = "network" /\ Finish(q)
    /\ net' = IF q.id = seq THEN "offline" ELSE net
    /\ IF q.addr # None /\ HistoryRequestIsCurrent(q) THEN FailHistoryRequest(q)
       ELSE UNCHANGED <<hist, box, life>>
    /\ UNCHANGED <<wallet, seq>>

(* /status answered: on to the account, or, without one, the end.           *)
NetworkAnswers(q) ==
    /\ q.at = "network"
    /\ net' = IF q.id = seq THEN "online" ELSE net
    /\ IF q.addr # None
       THEN /\ open' = (open \ {q}) \cup {[q EXCEPT !.at = "account"]}
            /\ UNCHANGED <<shared, hist, box, life>>
       ELSE /\ Finish(q)
            /\ IF wallet = None
               THEN /\ hist' = [state |-> "none", addr |-> None, txs |-> {}, id |-> q.id]
                    /\ box' = [kind |-> "message", addr |-> None, id |-> 0] /\ life' = "idle"
               ELSE UNCHANGED <<hist, box, life>>
    /\ UNCHANGED <<wallet, seq>>

(* /balance, /spendable and /transactions are settled.                      *)
AccountSettles(q) ==
    /\ q.at = "account" /\ Finish(q)
    /\ IF ~HistoryRequestIsCurrent(q) THEN UNCHANGED <<hist, box, life>>
       ELSE FailHistoryRequest(q) \/ \E p \in Payloads : ApplyHistoryPayload(q, p)
    /\ UNCHANGED <<wallet, seq, net>>

Settle(q) == NetworkFails(q) \/ NetworkAnswers(q) \/ AccountSettles(q)
Next ==
    \/ RefreshAgain \/ \E a \in Addresses : Select(a)
    \/ \E q \in open : Settle(q)

(* Every request is answered or fails, in whatever order.                   *)
Spec == Init /\ [][Next]_vars
FairSpec == Spec /\ \A i \in 1..MaxSeq : WF_vars(\E q \in open : q.id = i /\ Settle(q))
-----------------------------------------------------------------------------
(* The states of contract.json, and at most one shared run, an open one.    *)
TypeOK ==
    /\ life \in {"idle", "loading", "ready_recent", "empty_within_available_coverage",
                 "invalid_payload", "stale", "unavailable"}
    /\ net \in {"connecting", "online", "offline"}
    /\ shared # None => \E q \in open : q.id = shared.id /\ q.addr = shared.addr

(* Rows on the page are those of the active address, whatever was selected  *)
(* while requests were under way.                                           *)
RowsBelong == box.kind \in {"rows", "empty_within_available_coverage"} => box.addr = wallet

(* A panel that claims transfers shows transactions that concern the active *)
(* address and are complete; a panel that claims none had an answer whose   *)
(* every record was read, so a broken answer is never shown as emptiness.   *)
ClaimsAreTrue ==
    /\ life = "ready_recent" => /\ hist.addr = wallet /\ hist.txs # {}
                                /\ \A r \in hist.txs : wallet \in r.to \cup {r.from}
                                /\ \A r \in hist.txs : /\ r.status = "confirmed" => r.height > 0
                                                     /\ r.status = "pending" => r.height = 0
    /\ life = "empty_within_available_coverage" => hist.addr = wallet /\ hist.txs = {}

(* An answer to an older request never takes the place of a newer one, not  *)
(* even when the user went from A to B and back to A.                       *)
NeverOlder == hist' # hist => hist'.id >= hist.id

(* "loading" and "connecting" come to an end when every request does.       *)
Settles == /\ []<>(life # "loading")
           /\ []<>(seq > 0 => net # "connecting")

===========================================================================
