--------------------------- MODULE PeerDirectory ---------------------------
(* The signed descriptors a node keeps of its peers (peer-directory.mjs):   *)
(* filled by gossip, bounded per source, per group of the network, per      *)
(* identity and in all, and marked by the probes of the eclipse candidate   *)
(* (fae-v4-peer-node-eclipse-candidate.mjs).                                *)
EXTENDS Naturals, Sequences, FiniteSets

CONSTANTS Keys,      \* descriptors' [peer, endpoint]
          Group(_),  \* the group of the network of a key
          Own,       \* key of the node's own descriptor
          Sources, SelfSource,
          MaxIssued, \* bound: descriptors issued for a key
          MaxRecords, MaxEndpoints, MaxPerSource, MaxPerGroup, MaxUnverified,
          Strikes    \* authenticationFailureThreshold

DirectoryAssumption ==
    /\ {MaxRecords, MaxEndpoints, MaxPerSource, MaxPerGroup, Strikes} \subseteq Nat \ {0} /\ MaxIssued \in Nat
    /\ MaxUnverified \in 0..MaxRecords /\ Own \in Keys /\ SelfSource \in Sources

VARIABLES entries,  \* in the order of observedAt
          hardened  \* configureAdmission was called
vars == <<entries, hardened>>

Init == entries = <<>> /\ hardened = FALSE
-----------------------------------------------------------------------------
Positions(s, key) == {i \in DOMAIN s : s[i].key = key}
Protected(e, strict) == strict /\ e.source = SelfSource
Rank(e, strict) == IF Protected(e, strict) THEN 3 ELSE IF e.auth THEN 2 ELSE 1

(* boundWhere: of the records inside, the lowest ranked go first, the       *)
(* oldest of them before, until as many as the limit are left.              *)
Loose(s, inside, strict) == {i \in inside : ~Protected(s[i], strict)}
GoesBefore(s, i, j, strict) ==
    \/ Rank(s[i], strict) < Rank(s[j], strict)
    \/ Rank(s[i], strict) = Rank(s[j], strict) /\ i < j
Gone(s, inside, limit, strict) ==
    IF Cardinality(inside) <= limit THEN {}
    ELSE {i \in Loose(s, inside, strict) :
        limit + Cardinality({j \in Loose(s, inside, strict) : GoesBefore(s, j, i, strict)}) < Cardinality(inside)}
Nth(K, n) == CHOOSE i \in K : Cardinality({j \in K : j < i}) = n - 1
Keep(s, K) == [n \in 1..Cardinality(K) |-> s[Nth(K, n)]]
Bound(s, inside, limit, strict) ==
    LET gone == Gone(s, inside, limit, strict) IN IF gone = {} THEN s ELSE Keep(s, DOMAIN s \ gone)

Limit(strict, limit) == IF strict THEN limit ELSE MaxRecords
Unverified(e, strict) == ~e.auth /\ ~Protected(e, strict)
OfSource(s, source) == {i \in DOMAIN s : s[i].source = source}
OfGroup(s, group) == {i \in DOMAIN s : Group(s[i].key) = group}
BoundTotals(s, strict) ==
    LET verified == Bound(s, {i \in DOMAIN s : Unverified(s[i], strict)}, Limit(strict, MaxUnverified), strict)
    IN  Bound(verified, DOMAIN verified, MaxRecords, strict)
BoundSource(s, source, strict) ==
    IF strict /\ source = SelfSource THEN s ELSE Bound(s, OfSource(s, source), Limit(strict, MaxPerSource), strict)
BoundGroup(s, group, strict) == Bound(s, OfGroup(s, group), Limit(strict, MaxPerGroup), strict)
-----------------------------------------------------------------------------
(* register: an older descriptor only lends its source, if it is protected. *)
Forgets(old) == [auth |-> FALSE, fails |-> 0] (* Mutant: gossip starts a record anew. *)
Evidence(old) == IF old = <<>> THEN [auth |-> FALSE, fails |-> 0]
                 ELSE [auth |-> old[1].auth, fails |-> old[1].fails]
EffectiveSource(old, source) ==
    IF old # <<>> /\ ~(hardened /\ source = SelfSource) /\ (Protected(old[1], hardened) \/ old[1].auth)
    THEN old[1].source ELSE source

Placed(key, issued, source) ==
    LET old == Keep(entries, Positions(entries, key))
        others == Keep(entries, DOMAIN entries \ Positions(entries, key))
        fan == Bound(others, {i \in DOMAIN others : others[i].key.peer = key.peer}, MaxEndpoints - 1, hardened)
    IN  Append(fan, [key |-> key, issued |-> issued, source |-> EffectiveSource(old, source),
                     auth |-> Evidence(old).auth, fails |-> Evidence(old).fails])

Register(key, issued, source) ==
    /\ UNCHANGED hardened
    /\ IF \E i \in Positions(entries, key) : entries[i].issued > issued
       THEN entries' = [i \in DOMAIN entries |->
                          IF entries[i].key = key /\ hardened /\ source = SelfSource
                          THEN [entries[i] EXCEPT !.source = source] ELSE entries[i]]
       ELSE LET placed == Placed(key, issued, source)
                fewer == BoundSource(placed, placed[Len(placed)].source, hardened)
            IN  entries' = BoundTotals(BoundGroup(fewer, Group(key), hardened), hardened)

(* merge of what peers gossip, and refreshSelfDescriptor.                   *)
Hear(key) == \E issued \in 1..MaxIssued, source \in Sources \ {SelfSource} : Register(key, issued, source)
Gossip == \E key \in Keys : Hear(key)
RefreshSelf == \E issued \in 1..MaxIssued : Register(Own, issued, SelfSource)

(* probe: markAuthenticated and markProbeFailure; only a node that called   *)
(* configureAdmission probes.  Streaks count up to the threshold.           *)
Struck(e) == IF e.fails + 1 < Strikes THEN [e EXCEPT !.fails = @ + 1] ELSE [e EXCEPT !.fails = Strikes, !.auth = FALSE]
Mark(i, e) == /\ hardened /\ UNCHANGED hardened
              /\ entries' = BoundTotals([entries EXCEPT ![i] = e], hardened)
MarkAuthenticated(key) == \E i \in Positions(entries, key) : Mark(i, [entries[i] EXCEPT !.auth = TRUE, !.fails = 0])
MarkProbeFailure(key) == \E i \in Positions(entries, key) : Mark(i, Struck(entries[i]))

(* configureAdmission: every source, then every group, then the totals.     *)
KeepAsIs(s) == s (* Mutant: the new limits count for new records only. *)
Tightened(s) ==
    LET bySource == Keep(s, DOMAIN s \ UNION {Gone(s, OfSource(s, from), MaxPerSource, TRUE) : from \in Sources \ {SelfSource}})
        byGroup == Keep(bySource, DOMAIN bySource \
                                  UNION {Gone(bySource, OfGroup(bySource, Group(k)), MaxPerGroup, TRUE) : k \in Keys})
    IN  BoundTotals(byGroup, TRUE)
ConfigureAdmission == ~hardened /\ hardened' = TRUE /\ entries' = Tightened(entries)

(* prune: the descriptor is not valid any more.                             *)
Expire(key) == /\ Positions(entries, key) # {} /\ UNCHANGED hardened
               /\ entries' = Keep(entries, DOMAIN entries \ Positions(entries, key))

Next == \/ Gossip \/ RefreshSelf \/ ConfigureAdmission
        \/ \E key \in Keys : MarkAuthenticated(key) \/ MarkProbeFailure(key) \/ Expire(key)
Spec == Init /\ [][Next]_vars
-----------------------------------------------------------------------------
Counted(inside) == Cardinality(Loose(entries, inside, hardened))

(* One record per key; after any sequence of gossip, probes and expiries    *)
(* all ceilings of the admission policy hold at once.                       *)
TypeOK ==
    /\ \A i, j \in DOMAIN entries : entries[i].key = entries[j].key => i = j
    /\ Len(entries) <= MaxRecords
    /\ \A k \in Keys : Counted({i \in DOMAIN entries : entries[i].key.peer = k.peer}) <= MaxEndpoints
    /\ hardened => /\ Counted({i \in DOMAIN entries : ~entries[i].auth}) <= MaxUnverified
                   /\ \A k \in Keys : Counted(OfGroup(entries, Group(k))) <= MaxPerGroup
                   /\ \A source \in Sources \ {SelfSource} : Counted(OfSource(entries, source)) <= MaxPerSource

Row(s, key) == {[auth |-> s[i].auth, fails |-> s[i].fails, source |-> s[i].source] : i \in Positions(s, key)}
Proven(key) == \E row \in Row(entries, key) : row.auth

(* Gossip proves nothing: a record that stays keeps its evidence, its       *)
(* streak of failures and, if it is proven, its source; and a proven record *)
(* of another identity stays.                                               *)
Marks(rows) == {<<row.auth, row.fails>> : row \in rows}
Unsettled(key, row, next) ==
    IF next = {} THEN Proven(key)
    ELSE row # {} /\ (Marks(row) # Marks(next) \/ (Proven(key) /\ {x.source : x \in row} # {x.source : x \in next}))
GossipProvesNothing ==
    \A key \in Keys : Unsettled(key, Row(entries, key), Row(entries', key)) =>
      \A about \in Keys : Hear(about) => about.peer = key.peer /\ Row(entries', key) = {}

(* What the node says of itself is only displaced by itself.                *)
SelfStays ==
    hardened /\ ~Expire(Own) /\ (\E row \in Row(entries, Own) : row.source = SelfSource)
      => \E row \in Row(entries', Own) : row.source = SelfSource

============================================================================
