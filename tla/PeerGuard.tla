----------------------------- MODULE PeerGuard -----------------------------
(* What a node lets a remote address do (peer-guard.mjs), as the request    *)
(* handler of fae-v4-peer-node.mjs uses it: a budget per window, a score    *)
(* for what goes wrong, bans that grow, and a bounded table of addresses.   *)
(* A request is admitted, handled over several awaits and then forgiven or  *)
(* penalised.  Times are kept as what is left of them, so that the clock    *)
(* needs no bound.                                                          *)
EXTENDS Integers, FiniteSets

CONSTANTS Remotes, Window, MaxCost, BanScore, BanFor, MaxBan, MaxRecords,
          StaleAfter, \* four times the longer of MaxBan and Window
          PostCost,   \* cost of a POST
          MaxDouble,  \* doublings of a ban
          MaxFlight   \* bound: requests of an address under way

GuardAssumption ==
    /\ {Window, MaxCost, BanScore, BanFor, MaxBan, MaxRecords, PostCost} \subseteq Nat \ {0}
    /\ {MaxDouble, StaleAfter} \subseteq Nat /\ MaxBan >= BanFor
    /\ BanScore >= 4 \* the largest penalty; 20 by default, and no caller sets less than 4

VARIABLES records,  \* per known address: age of its window, cost, score, rest of its
                    \* ban, time since it was seen, bans
          flight,   \* requests admitted and not settled
          bad       \* the address penalised by the last step, if any
vars == <<records, flight, bad>>

Least(a, b) == IF a < b THEN a ELSE b
Greatest(a, b) == IF a > b THEN a ELSE b
Init == records = <<>> /\ flight = [r \in Remotes |-> 0] /\ bad = {}
-----------------------------------------------------------------------------
Without(table, gone) == [r \in DOMAIN table \ gone |-> table[r]]
With(table, r, record) == [s \in DOMAIN table \cup {r} |-> IF s = r THEN record ELSE table[s]]
Full(table) == Cardinality(DOMAIN table) >= MaxRecords

(* prune: addresses that are not banned and were not seen for long.         *)
Pruned(table) == Without(table, {r \in DOMAIN table : table[r].ban = 0 /\ table[r].seen > StaleAfter})

(* ensureCapacity: who is not banned and was seen longest ago goes first,   *)
(* then whose ban ends first.                                               *)
OldestGoes(a, b) == a.seen >= b.seen (* Mutant: bans are not looked at. *)
GoesFirst(a, b) ==
    \/ a.ban = 0 /\ b.ban > 0
    \/ a.ban > 0 /\ b.ban > a.ban
    \/ a.ban = b.ban /\ a.seen >= b.seen
Victims(table) == {r \in DOMAIN table : \A s \in DOMAIN table : GoesFirst(table[r], table[s])}
Rooms(table) ==
    IF ~Full(table) THEN {table}
    ELSE IF ~Full(Pruned(table)) THEN {Pruned(table)}
    ELSE {Without(Pruned(table), {r}) : r \in Victims(Pruned(table))}

(* record: the address is in the table, and in a window that has not ended. *)
New == [age |-> 0, cost |-> 0, score |-> 0, ban |-> 0, seen |-> 0, bans |-> 0]
InWindow(record) ==
    IF record.age < Window THEN [record EXCEPT !.seen = 0]
    ELSE [record EXCEPT !.age = 0, !.cost = 0, !.score = Greatest(0, @ - 1), !.seen = 0]
Recorded(r) ==
    IF r \in DOMAIN records THEN {With(records, r, InWindow(records[r]))}
    ELSE {With(table, r, New) : table \in Rooms(records)}

(* penalize, forgive                                                        *)
Doublings[n \in 0..MaxDouble] == IF n = 0 THEN 1 ELSE 2 * Doublings[n - 1]
Penalized(record, points) ==
    LET score == record.score + points IN
    IF score < BanScore THEN [record EXCEPT !.score = score]
    ELSE [record EXCEPT !.score = Greatest(BanScore \div 2, score - BanScore),
                        !.ban = Greatest(@, Least(MaxBan, BanFor * Doublings[record.bans])),
                        !.bans = Least(MaxDouble, @ + 1)]
Forgiven(record) == [record EXCEPT !.score = Greatest(0, @ - 1)]
-----------------------------------------------------------------------------
(* A guarded request: banned, too many, or admitted.                        *)
Allow(r, cost) ==
    \E table \in Recorded(r) :
       LET record == table[r]  spent == record.cost + cost IN
       /\ flight[r] < MaxFlight
       /\ IF record.ban > 0 THEN records' = table /\ UNCHANGED flight /\ bad' = {}
          ELSE IF spent > MaxCost
          THEN /\ records' = With(table, r, Penalized([record EXCEPT !.cost = spent], 4))
               /\ bad' = {r} /\ UNCHANGED flight
          ELSE /\ records' = With(table, r, [record EXCEPT !.cost = spent])
               /\ flight' = [flight EXCEPT ![r] = @ + 1] /\ bad' = {}

(* Routes for wallets and miners are not guarded, yet their errors count.   *)
Unguarded(r) ==
    /\ flight[r] < MaxFlight /\ flight' = [flight EXCEPT ![r] = @ + 1]
    /\ bad' = {} /\ UNCHANGED records

Settle(r) ==
    /\ flight[r] > 0 /\ flight' = [flight EXCEPT ![r] = @ - 1]
    /\ \/ records' = records /\ bad' = {}
       \/ \E table \in Recorded(r) : records' = With(table, r, Forgiven(table[r])) /\ bad' = {}
       \/ \E table \in Recorded(r) : records' = With(table, r, Penalized(table[r], 1)) /\ bad' = {r}

(* Time goes by.                                                            *)
Elapsed(record) == [record EXCEPT !.age = Least(@ + 1, Window), !.ban = Greatest(@ - 1, 0),
                                  !.seen = Least(@ + 1, StaleAfter + 1)]
Tick == /\ records' = [r \in DOMAIN records |-> Elapsed(records[r])]
        /\ bad' = {} /\ UNCHANGED flight

Snapshot == records' = Pruned(records) /\ bad' = {} /\ UNCHANGED flight

Next == \/ Tick \/ Snapshot
        \/ \E r \in Remotes : Allow(r, 1) \/ Allow(r, PostCost) \/ Unguarded(r) \/ Settle(r)
Spec == Init /\ [][Next]_vars /\ WF_vars(Tick)
-----------------------------------------------------------------------------
(* The table, the bans and the scores stay within their bounds, whoever     *)
(* asks for what.                                                           *)
TypeOK ==
    /\ DOMAIN records \subseteq Remotes /\ Cardinality(DOMAIN records) <= MaxRecords
    /\ \A r \in DOMAIN records : /\ records[r].ban \in 0..MaxBan
                                 /\ records[r].bans \in 0..MaxDouble
                                 /\ records[r].score \in 0..BanScore

(* However many addresses come: a ban is forgotten only where every address *)
(* of a full table is banned, and none of them for less.                    *)
BannedGoLast ==
    \A r \in DOMAIN records \ DOMAIN records' : records[r].ban > 0 =>
       /\ Full(records) /\ \A s \in DOMAIN records : records[s].ban >= records[r].ban

(* An address that is not penalised any more is not banned for ever, though *)
(* it goes on asking.                                                       *)
Banned(r) == r \in DOMAIN records /\ records[r].ban > 0
Redeemed == \A r \in Remotes : <>[](r \notin bad) => <>[](~Banned(r))
============================================================================
