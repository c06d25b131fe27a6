------------------------------- MODULE MCPeers -------------------------------
(* What a node keeps about the ones it talks to: the guard of remote        *)
(* addresses, the directory, the view and its anchors, the trust store, and *)
(* the sessions of the secure channel.  They share no state, so a behaviour *)
(* is about one of them, its `part', and the others stay where they start.  *)
EXTENDS Naturals

CONSTANTS Parts, None, r1, r2, r3, me, p, q, self, s1, e1, a, b, c, k1, k2

VARIABLES part,
          records, flight, bad,                                    \* PeerGuard
          entries, hardened,                                       \* PeerDirectory
          rows, batch, running, down,                              \* PeerView
          serves, mem, disk, auth, approved, retired, keys, faults, \* PeerTrust
          hub, opened, mine, calls, net, seen, handling, ran, mishaps \* SecureChannel
guardVars == <<records, flight, bad>>
directoryVars == <<entries, hardened>>
viewVars == <<rows, batch, running, down>>
trustVars == <<serves, mem, disk, auth, approved, retired, keys, faults>>
channelVars == <<hub, opened, mine, calls, net, seen, handling, ran, mishaps>>
vars == <<part, guardVars, directoryVars, viewVars, trustVars, channelVars>>

(* Three addresses and two records, and with longer bans two and one.       *)
Three == {r1, r2, r3}
Two == {r1, r2}
Guard == INSTANCE PeerGuard WITH Remotes <- Three, Window <- 1, MaxCost <- 1, StaleAfter <- 1, BanScore <- 4,
    BanFor <- 2, MaxBan <- 2, MaxRecords <- 2, PostCost <- 1, MaxDouble <- 0, MaxFlight <- 1
Bans == INSTANCE PeerGuard WITH Remotes <- Two, Window <- 1, MaxCost <- 2, StaleAfter <- 2, BanScore <- 4,
    BanFor <- 1, MaxBan <- 2, MaxRecords <- 1, PostCost <- 2, MaxDouble <- 2, MaxFlight <- 1

(* The node itself, a peer with two endpoints and another; two of the       *)
(* endpoints are in one group.                                              *)
Me == [peer |-> me, at |-> 1]
Listed == {Me, [peer |-> p, at |-> 2], [peer |-> p, at |-> 3], [peer |-> q, at |-> 3]}
Told == {self, s1}
At(key) == key.at
Directory == INSTANCE PeerDirectory WITH Keys <- Listed, Group <- At, Own <- Me, Sources <- Told, SelfSource <- self,
    MaxIssued <- 2, MaxRecords <- 3, MaxEndpoints <- 2, MaxPerSource <- 2, MaxPerGroup <- 1, MaxUnverified <- 1,
    Strikes <- 2

(* An anchor with a live and a dead endpoint, two peers of one group, and a *)
(* third; and room for all candidates.                                      *)
A1 == [peer |-> 3, at |-> 1]
A2 == [peer |-> 3, at |-> 0]
B == [peer |-> 1, at |-> 3]
C == [peer |-> 2, at |-> 4]
D == [peer |-> 4, at |-> 5]
All == {A1, A2, B, C, D}
Anchors == {3}
Given == {A1, B}
JustA1 == {A1}
JustA2 == {A2}
JustB == {B}
Heard == {A2, C, D}
FewHeard == {C, D}
InGroup(key) == IF key.at = 4 THEN 3 ELSE key.at
View == INSTANCE PeerView WITH Keys <- All, Group <- InGroup, Pinned <- Anchors, Known <- Given, Heard <- Heard,
    Unsteady <- JustA1, Dead <- JustA2, MaxRecords <- 3, MaxEndpoints <- 2, MaxBatch <- 2, Backoff <- 1,
    MaxBackoff <- 2, Reprobe <- 1, MinIdentities <- 2, MinGroups <- 2, MinPinned <- 1, MaxPerGroup <- 1, MaxFails <- 2
Room == INSTANCE PeerView WITH Keys <- All, Group <- InGroup, Pinned <- Anchors, Known <- Given, Heard <- FewHeard,
    Unsteady <- JustA1, Dead <- JustB, MaxRecords <- 4, MaxEndpoints <- 2, MaxBatch <- 2, Backoff <- 1,
    MaxBackoff <- 2, Reprobe <- 1, MinIdentities <- 2, MinGroups <- 2, MinPinned <- 1, MaxPerGroup <- 1, MaxFails <- 2

Configured == {e1}
Identities == {a, b, c}
Trust == INSTANCE PeerTrust WITH Endpoints <- Configured, Ids <- Identities, MaxKeys <- 4, MaxFaults <- 3

(* Room for one session, and a second that takes its place.                 *)
Sent == {k1, k2}
Channel == INSTANCE SecureChannel WITH Calls <- Sent, MaxSessions <- 1, MaxOpened <- 2, MaxFaults <- 2, faults <- mishaps

ASSUME Guard!GuardAssumption /\ Bans!GuardAssumption /\ Directory!DirectoryAssumption
ASSUME View!ViewAssumption /\ Room!ViewAssumption /\ Trust!TrustAssumption /\ Channel!ChannelAssumption
-----------------------------------------------------------------------------
Init == /\ part \in Parts
        /\ Guard!Init /\ Directory!Init /\ Trust!Init /\ (part # "trust" => serves[e1] = a)
        /\ Channel!Init
        /\ IF part = "room" THEN Room!Init ELSE View!Init

OfGuard(name, A) == part = name /\ A /\ UNCHANGED <<part, directoryVars, viewVars, trustVars, channelVars>>
OfDirectory(A) == part = "directory" /\ A /\ UNCHANGED <<part, guardVars, viewVars, trustVars, channelVars>>
OfView(name, A) == part = name /\ A /\ UNCHANGED <<part, guardVars, directoryVars, trustVars, channelVars>>
OfTrust(A) == part = "trust" /\ A /\ UNCHANGED <<part, guardVars, directoryVars, viewVars, channelVars>>
OfChannel(A) == part = "channel" /\ A /\ UNCHANGED <<part, guardVars, directoryVars, viewVars, trustVars>>
Next == \/ OfGuard("guard", Guard!Next) \/ OfGuard("bans", Bans!Next)
        \/ OfDirectory(Directory!Next) \/ OfTrust(Trust!Next)
        \/ OfView("view", View!Next) \/ OfView("room", Room!Next)
        \/ OfChannel(Channel!Next)

(* What each part assumes; only one part moves in a behaviour, so that what *)
(* is assumed of several may be said at once.                               *)
Fairness ==
    /\ WF_vars(\/ OfGuard("guard", Guard!Tick) \/ OfGuard("bans", Bans!Tick) \/ OfTrust(Trust!SyncConfigured(e1))
               \/ OfView("view", View!Sync) \/ OfView("room", Room!Sync) \/ OfChannel(Channel!Timeout(k1)))
    /\ WF_vars(OfView("view", View!Probe) \/ OfView("room", Room!Probe) \/ OfChannel(Channel!Timeout(k2)))
    /\ WF_vars(OfView("view", View!Tick) \/ OfView("room", Room!Tick) \/ OfChannel(Channel!Travels(k1)))
    /\ WF_vars(OfChannel(Channel!Travels(k2)))
    /\ WF_vars(OfChannel(Channel!Handled(k1))) /\ WF_vars(OfChannel(Channel!Handled(k2)))
Spec == Init /\ [][Next]_vars /\ Fairness
-----------------------------------------------------------------------------
(* The tables stay within their bounds, whatever is asked and gossiped; an  *)
(* identity is pinned before it counts as authenticated.                    *)
TablesHold ==
    /\ (part = "guard" => Guard!TypeOK) /\ (part = "bans" => Bans!TypeOK)
    /\ (part = "directory" => Directory!TypeOK) /\ (part = "trust" => Trust!TypeOK)
    /\ (part = "view" => View!TypeOK) /\ (part = "room" => Room!TypeOK)
    /\ (part = "channel" => Channel!TypeOK)

(* However many addresses come, a ban is forgotten only where every address *)
(* of a full table is banned, and none of them for less.                    *)
BannedGoLast == [][(part = "guard" => Guard!BannedGoLast) /\ (part = "bans" => Bans!BannedGoLast)]_vars

(* Gossip proves nothing and displaces nothing that is proven; what the     *)
(* node says of itself is only displaced by itself.                         *)
GossipProvesNothing == [][part = "directory" => Directory!GossipProvesNothing /\ Directory!SelfStays]_vars

(* Whatever the directory offers, an anchor stays a candidate, and a live   *)
(* candidate leaves only for one of its rank.                               *)
AnchorsKept == [][(part = "view" => View!AnchorsKept) /\ (part = "room" => Room!AnchorsKept)]_vars

(* Through failing writes and restarts a pin moves only along rotations an  *)
(* operator asked for, and the identity that was left stays out.            *)
PinsFollowApprovals == [][part = "trust" => Trust!PinsFollowApprovals /\ Trust!RetiredStaysOut]_vars

(* Frames lost, replayed, late and out of order, sessions evicted, expired  *)
(* and forgotten: callers see calls that run at most once and always end.   *)
ImplementsRemoteCalls == Channel!ImplementsRemoteCalls

(* Bans end, anchors are found and readiness falls without them, everyone   *)
(* is found where there is room, and an approved identity gets in.          *)
PeersComeBack ==
    /\ Bans!Redeemed
    /\ []<>(part = "view") => View!NoStickyReady /\ View!AnchorsFound
    /\ []<>(part = "room") => Room!FeelersProgress
    /\ []<>(part = "trust") => Trust!ApprovedGetsIn
=============================================================================
