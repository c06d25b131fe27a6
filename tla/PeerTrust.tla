----------------------------- MODULE PeerTrust -----------------------------
(* Which identity a node accepts at an endpoint (peer-trust.mjs), as the    *)
(* hellos of fae-v4-peer-node.mjs use it: the first one seen is pinned, and *)
(* another is accepted after an operator has approved it.  The store is     *)
(* changed in memory and then written; a write that fails throws.           *)
EXTENDS Naturals, FiniteSets

CONSTANTS Endpoints, Ids, None,
          Configured,  \* endpoints of the node's configuration
          MaxKeys,     \* bound: identities an endpoint goes through
          MaxFaults    \* bound: failing writes and restarts

TrustAssumption == Configured \subseteq Endpoints /\ None \notin Ids /\ MaxKeys >= 1

VARIABLES serves,    \* the identity that answers at an endpoint
          mem, disk, \* per endpoint: the pinned identity and the pending rotation
          auth,      \* authenticatedPeers
          approved,  \* rotations an operator asked for, and that were not written yet
          retired,   \* identities whose rotation away was written
          keys, faults
vars == <<serves, mem, disk, auth, approved, retired, keys, faults>>

Unpinned == [id |-> None, to |-> None]
Init ==
    /\ serves \in [Endpoints -> Ids] /\ mem = [e \in Endpoints |-> Unpinned] /\ disk = mem
    /\ auth = [e \in Endpoints |-> None] /\ approved = {} /\ retired = [e \in Endpoints |-> {}]
    /\ keys = [e \in Endpoints |-> 1] /\ faults = 0
-----------------------------------------------------------------------------
Fault == faults < MaxFaults /\ faults' = faults + 1

(* save: all of the memory is written, or nothing and the caller throws.    *)
Saved(pins) ==
    /\ disk' = pins /\ UNCHANGED faults
    /\ retired' = [e \in Endpoints |->
          IF pins[e].id = disk[e].id \/ disk[e].id = None THEN retired[e] \ {pins[e].id}
          ELSE (retired[e] \cup {disk[e].id}) \ {pins[e].id}]
NotSaved == Fault /\ UNCHANGED <<disk, retired>>
(* A rotation that is written uses up what was asked for.                   *)
Used == {ask \in approved : disk'[ask[1]].id # disk[ask[1]].id /\ disk'[ask[1]].to = None}

(* observe                                                                  *)
Accepts(pin, id) == pin.id = None \/ pin.id = id \/ pin.to = id
KeepsApproval(pin, id) == [id |-> id, to |-> IF pin.id = None THEN None ELSE IF pin.id = id THEN pin.to ELSE pin.id] (* Mutant: approvals work in both directions. *)
Observed(pin, id) == [id |-> id, to |-> IF pin.id = id THEN pin.to ELSE None]

(* peerHello: what is expected, what is pinned, and then the peer counts as *)
(* authenticated.                                                           *)
Authenticated(e) == [auth EXCEPT ![e] = serves[e]]
Hello(e) ==
    /\ Accepts(mem[e], serves[e])
    /\ mem' = [mem EXCEPT ![e] = Observed(@, serves[e])]
    /\ \/ Saved(mem') /\ auth' = Authenticated(e)
       \/ NotSaved /\ UNCHANGED auth
    /\ approved' = approved \ Used /\ UNCHANGED <<serves, keys>>

SyncConfigured(e) == e \in Configured /\ Hello(e)
(* A descriptor names the identity that answers; the endpoint is not known. *)
ProbeDiscovered(e) == auth[e] = None /\ Hello(e)
SyncSelected(e) == auth[e] = serves[e] /\ Hello(e)
Relay(e) == auth[e] # None /\ Hello(e)

(* authorizeRotation                                                        *)
Authorize(e, from, to) ==
    /\ from # to /\ mem[e].id = from
    /\ mem' = [mem EXCEPT ![e].to = to] /\ approved' = approved \cup {<<e, from, to>>}
    /\ (Saved(mem') \/ NotSaved) /\ UNCHANGED <<serves, auth, keys>>

ChangeKey(e, id) ==
    /\ keys[e] < MaxKeys /\ id # serves[e] /\ serves' = [serves EXCEPT ![e] = id]
    /\ keys' = [keys EXCEPT ![e] = @ + 1] /\ UNCHANGED <<mem, disk, auth, approved, retired, faults>>

Restart == /\ Fault /\ mem' = disk /\ auth' = [e \in Endpoints |-> None]
           /\ UNCHANGED <<serves, disk, approved, retired, keys>>

Next ==
    \/ Restart
    \/ \E e \in Endpoints :
          \/ SyncConfigured(e) \/ ProbeDiscovered(e) \/ SyncSelected(e) \/ Relay(e)
          \/ \E id, to \in Ids : Authorize(e, id, to) \/ ChangeKey(e, id)
Spec == Init /\ [][Next]_vars /\ \A e \in Configured : WF_vars(SyncConfigured(e))
-----------------------------------------------------------------------------
(* What is written is what is in memory, except after a failed write; an    *)
(* identity is pinned before it counts as authenticated.                    *)
TypeOK ==
    /\ faults = 0 => mem = disk
    /\ \A e \in Endpoints : mem[e].id = None => disk[e].id = None /\ auth[e] = None

(* A pin moves only along rotations an operator asked for, or falls back to *)
(* what is written, through failing writes and restarts.                    *)
Asked(e, from, to) == from \in {None, to} \/ <<e, from, to>> \in approved
PinsFollowApprovals ==
    \A e \in Endpoints : \/ Asked(e, mem[e].id, mem'[e].id)
                         \/ mem'[e].id = disk[e].id /\ UNCHANGED disk

(* Once a rotation is written, nobody gets in with the identity that was    *)
(* left, not even after a restart, unless an operator asks for it.          *)
RetiredStaysOut ==
    \A e \in Endpoints : auth'[e] \in retired[e] => \/ auth'[e] = auth[e]
                                                     \/ \E id \in Ids : <<e, id, auth'[e]>> \in approved

(* A configured peer whose identity is approved for good comes to count     *)
(* under that identity, whatever it was authenticated as before.            *)
Settled(e, id) == serves[e] = id /\ Accepts(mem[e], id)
ApprovedGetsIn == \A e \in Configured, id \in Ids : <>[]Settled(e, id) => <>[](auth[e] = id)
============================================================================
