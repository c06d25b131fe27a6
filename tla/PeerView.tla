------------------------------ MODULE PeerView ------------------------------
(* The peers a node looks for (eclipse-resistant-discovery-candidate.mjs,   *)
(* driven by fae-v4-peer-node-eclipse-candidate.mjs): a bounded set of      *)
(* candidates, probed in batches that put pinned identities first and go    *)
(* round the groups of the network.  Between two probes of a batch the      *)
(* directory is absorbed, which may push out what the batch has to probe.   *)
EXTENDS Naturals, Sequences, FiniteSets, FiniteSetsExt, SequencesExt

CONSTANTS Keys,       \* [peer, at]: identities and endpoints, as numbers
          Group(_),   \* the group of the network of an endpoint
          Pinned,     \* identities pinned out of band
          Known, Heard, \* candidates of the operator, and of the directory
          Unsteady, Dead, \* endpoints that come and go; that never answer
          MaxRecords, MaxEndpoints, MaxBatch, Backoff, MaxBackoff, Reprobe,
          MinIdentities, MinGroups, MinPinned, MaxPerGroup,
          MaxFails    \* bound: failures counted (32 in the code)

ViewAssumption ==
    /\ {MaxRecords, MaxEndpoints, MaxBatch, Backoff, Reprobe, MaxFails} \subseteq Nat \ {0}
    /\ MaxBackoff >= Backoff /\ Known \cup Heard \subseteq Keys
    /\ IsFiniteSet(Known \cup Heard) /\ IsFiniteSet(Pinned)

VARIABLES rows,   \* per candidate: authenticated, failures, time to its next probe,
                  \* and the order of its last probe (0: none)
          batch,  \* what syncPeers still has to probe
          running, down
vars == <<rows, batch, running, down>>

Fresh == [auth |-> FALSE, fails |-> 0, wait |-> 0, last |-> 0]
IsPinned(k) == k.peer \in Pinned
-----------------------------------------------------------------------------
(* ingest, boundIdentity and boundGlobal.  Rows of one rank go in the order *)
(* in which they were last heard of, which can be any; a row that went and  *)
(* comes again is a new one.                                                *)
ByProofOnly(s, k) == IF k \in DOMAIN s /\ s[k].auth THEN 2 ELSE 1 (* Mutant: no protected class. *)
Rank(s, k) == IF IsPinned(k) THEN 3 ELSE IF k \in DOMAIN s /\ s[k].auth THEN 2 ELSE 1
Proof(s, k) == IF k \in DOMAIN s /\ s[k].auth THEN 1 ELSE 0
Endpoints(K, k) == {l \in K : l.peer = k.peer}

FanoutBound(s, all) ==
    {K \in SUBSET all : \A k \in all :
       /\ Cardinality(Endpoints(K, k)) = Min({MaxEndpoints, Cardinality(Endpoints(all, k))})
       /\ k \notin K => \A l \in Endpoints(K, k) : Proof(s, l) >= Proof(s, k)}
Kept(s, all) ==
    UNION {{K \in SUBSET few : /\ Cardinality(K) = Min({MaxRecords, Cardinality(few)})
                               /\ \A k \in K, l \in few \ K : Rank(s, k) >= Rank(s, l)} : few \in FanoutBound(s, all)}

Ingested(s, new) ==
    UNION {{[k \in K |-> IF k \in DOMAIN s \ again THEN s[k] ELSE Fresh] :
               again \in IF K = DOMAIN s \cup new THEN {{}}
                         ELSE SUBSET {k \in new \cap DOMAIN s : Rank(s, k) = 1}} :
           K \in Kept(s, DOMAIN s \cup new)}

Init == /\ rows \in Ingested(<<>>, Known) /\ batch = <<>> /\ running = FALSE /\ down = Dead
-----------------------------------------------------------------------------
(* probeBatch                                                               *)
Lex(a, b) == \E i \in DOMAIN a : a[i] < b[i] /\ \A j \in 1..(i - 1) : a[j] = b[j]
Flag(b) == IF b THEN 0 ELSE 1

Eligible(s) == {k \in DOMAIN s : s[k].wait = 0}
FirstEndpoint(s) == {k \in Eligible(s) : \A l \in Endpoints(Eligible(s), k) : l = k \/ k.at < l.at} (* Mutant: the endpoints do not take turns. *)
ByIdentity(s) == {k \in Eligible(s) : \A l \in Endpoints(Eligible(s), k) :
                                         l = k \/ Lex(<<s[k].last, k.at>>, <<s[l].last, l.at>>)}
InGroup(s, k) == {l \in ByIdentity(s) : Group(l) = Group(k)}
RowKey(s, k) == <<Flag(IsPinned(k)), Flag(~s[k].auth), s[k].last, k.peer, k.at>>
Round(s, k) == Cardinality({l \in InGroup(s, k) : Lex(RowKey(s, l), RowKey(s, k))})
GroupKey(s, k) == <<Flag(\E l \in InGroup(s, k) : IsPinned(l)), Min({s[l].last : l \in InGroup(s, k)}), Group(k)>>
ProbedBefore(s, k, l) == Lex(<<Round(s, k)>> \o GroupKey(s, k), <<Round(s, l)>> \o GroupKey(s, l))
Batch(s) ==
    LET order == SetToSortSeq(ByIdentity(s), LAMBDA k, l : ProbedBefore(s, k, l))
    IN  SubSeq(order, 1, Min({MaxBatch, Len(order)}))

(* The last probes of K are now; the order of the others stays.             *)
Probed(s, K) ==
    LET earlier == {s[k].last : k \in DOMAIN s \ K} \ {0}
        Place(n) == IF n = 0 THEN 0 ELSE Cardinality({m \in earlier : m <= n})
    IN  [k \in DOMAIN s |-> [s[k] EXCEPT !.last = IF k \in K THEN Cardinality(earlier) + 1 ELSE Place(@)]]

(* syncPeers                                                                *)
Sync ==
    /\ ~running /\ UNCHANGED down
    /\ \E s \in Ingested(rows, Heard) :
         /\ batch' = Batch(s) /\ running' = (batch' # <<>>)
         /\ rows' = Probed(s, ToSet(batch'))

(* markProbeResult of a row that is there                                   *)
Marked(s, k, ok) ==
    LET fails == Min({s[k].fails + 1, MaxFails}) IN
    [s EXCEPT ![k] = IF ok THEN [@ EXCEPT !.auth = TRUE, !.fails = 0, !.wait = Reprobe]
                     ELSE [@ EXCEPT !.auth = FALSE, !.fails = fails,
                                    !.wait = Min({MaxBackoff, Backoff * 2 ^ (fails - 1)})]]

(* probe: an unknown row throws, and once more in the handler of that, so   *)
(* that the rest of the batch is given up.                                  *)
Probe ==
    /\ batch # <<>> /\ UNCHANGED down
    /\ LET k == Head(batch) IN
       IF k \in DOMAIN rows
       THEN /\ rows' \in Ingested(Probed(Marked(rows, k, k \notin down), {k}), Heard)
            /\ batch' = Tail(batch) /\ running' = (batch' # <<>>)
       ELSE batch' = <<>> /\ running' = FALSE /\ UNCHANGED rows

Tick == /\ \E k \in DOMAIN rows : rows[k].wait > 0
        /\ rows' = [k \in DOMAIN rows |-> [rows[k] EXCEPT !.wait = IF @ = 0 THEN 0 ELSE @ - 1]]
        /\ UNCHANGED <<batch, running, down>>
Fail(k) == k \notin down /\ down' = down \cup {k} /\ UNCHANGED <<rows, batch, running>>
Recover(k) == k \in down /\ down' = down \ {k} /\ UNCHANGED <<rows, batch, running>>

Next == Sync \/ Probe \/ Tick \/ \E k \in Unsteady : Fail(k) \/ Recover(k)
(* The timer of syncPeers, the time limits of a probe, and the clock.       *)
Spec == Init /\ [][Next]_vars /\ WF_vars(Sync) /\ WF_vars(Probe) /\ WF_vars(Tick)
-----------------------------------------------------------------------------
(* PeerDiversityPolicy.evaluate of the authenticated rows.                  *)
Live == {k \in DOMAIN rows : rows[k].auth}
PeersOf(K) == {k.peer : k \in K}
Ready ==
    /\ \A k, l \in Live : k.at = l.at => k.peer = l.peer
    /\ Cardinality(PeersOf(Live)) >= MinIdentities
    /\ Cardinality({Group(k) : k \in Live}) >= MinGroups
    /\ Cardinality(PeersOf(Live) \cap Pinned) >= MinPinned
    /\ \A k \in Live : Cardinality(PeersOf({l \in Live : Group(l) = Group(k)})) <= MaxPerGroup

(* The bounds of memory; a batch asks nobody twice, and an identity once.   *)
Bounded ==
    /\ Cardinality(DOMAIN rows) <= MaxRecords
    /\ \A k \in DOMAIN rows : Cardinality(Endpoints(DOMAIN rows, k)) <= MaxEndpoints
TypeOK ==
    /\ Bounded
    /\ running = (batch # <<>>)
    /\ \A i, j \in DOMAIN batch : batch[i].peer = batch[j].peer => i = j

(* Whatever the directory offers, a pinned identity stays among the         *)
(* candidates, and a live row whose probe does not fail in this step leaves *)
(* only when all that stay are of its rank, or one is of its identity.      *)
Failing == {k \in down : batch # <<>> /\ k = Head(batch)}
AnchorsKept ==
    /\ \A k \in DOMAIN rows : IsPinned(k) => \E l \in DOMAIN rows' : l.peer = k.peer
    /\ \A k \in DOMAIN rows \ DOMAIN rows' : k \in Live \ Failing =>
         \/ \A l \in DOMAIN rows' : rows'[l].auth \/ IsPinned(l)
         \/ \E l \in DOMAIN rows' : l.peer = k.peer

(* "No sticky READY after the anchor becomes unreachable".                  *)
AnchorKeys == {k \in Keys : IsPinned(k)}
NoStickyReady == <>[](AnchorKeys \subseteq down) => <>[](~Ready)

(* A pinned identity that can be reached at one of its endpoints is found,  *)
(* however many others there are.                                           *)
AnchorsFound ==
    \A k \in Unsteady \cap AnchorKeys : <>[](k \notin down /\ k \in DOMAIN rows) => <>[](k \in Live)

(* With room for all candidates every one that answers is found.            *)
FeelersProgress == \A k \in Known \cup Heard : <>[](k \notin down) => []<>(k \in Live)
============================================================================
