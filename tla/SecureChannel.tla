--------------------------- MODULE SecureChannel ---------------------------
(* Sealed calls between two nodes (secure-channel.mjs).  The peer keeps a   *)
(* bounded map of sessions, each with the next sequence number it takes; a  *)
(* caller numbers its requests, may have several under way on one session   *)
(* (syncPeer sends the recovered transactions that way), and closes the     *)
(* session on any error.  Requests travel on connections of their own and   *)
(* so overtake each other.  A frame opens only with the keys of its session *)
(* and at its number; the cryptography is otherwise abstract.               *)
EXTENDS Naturals, Sequences, FiniteSets, SequencesExt

CONSTANTS Calls,
          MaxSessions,  \* of the peer's map
          MaxOpened,    \* bound: sessions ever opened
          MaxFaults     \* bound: lost, replayed and late frames, expiries, restarts

ChannelAssumption == {MaxSessions, MaxOpened, MaxFaults} \subseteq Nat /\ MaxSessions >= 1

VARIABLES hub,      \* SecureChannelHub.sessions, in the order of insertion
          opened,   \* handshakes so far; a session is named by their number
          mine,     \* the caller's sessions: the next number, and whether closed
          calls,    \* per call: its state, its session and number
          net,      \* requests and answers under way
          seen,     \* requests that were ever sent
          handling, \* requests that were opened and await dispatchSecure
          ran,      \* times a call had its effect
          faults
vars == <<hub, opened, mine, calls, net, seen, handling, ran, faults>>

Idle == [st |-> "idle", sid |-> 0, seq |-> 0]
Init ==
    /\ hub = <<>> /\ opened = 0 /\ mine = <<>> /\ calls = [c \in Calls |-> Idle]
    /\ net = {} /\ seen = {} /\ handling = {} /\ ran = [c \in Calls |-> 0] /\ faults = 0

Fault == faults < MaxFaults /\ faults' = faults + 1
Position(sid) == {i \in DOMAIN hub : hub[i].sid = sid}
Forget(i) == RemoveAt(hub, i)
-----------------------------------------------------------------------------
(* prune(1): the oldest sessions go until one more fits.                    *)
Prune(h) == IF Len(h) + 1 > MaxSessions THEN Tail(h) ELSE h

Accepted(sid) == Append(Prune(hub), [sid |-> sid, next |-> 0])

(* establishSecurePeerSession; the acceptance may be lost on its way.       *)
Establish ==
    /\ opened < MaxOpened /\ opened' = opened + 1
    /\ hub' = Accepted(opened + 1)
    /\ \/ mine' = Append(mine, [next |-> 0, closed |-> FALSE]) /\ UNCHANGED faults
       \/ mine' = Append(mine, [next |-> 0, closed |-> TRUE]) /\ Fault
    /\ UNCHANGED <<calls, net, seen, handling, ran>>

(* createRequest: the number is taken at once, whatever becomes of it.      *)
Request(c, sid) ==
    LET f == [kind |-> "request", sid |-> sid, seq |-> mine[sid].next, c |-> c] IN
    /\ calls[c].st = "idle"
    /\ IF mine[sid].closed
       THEN calls' = [calls EXCEPT ![c].st = "refused"] /\ UNCHANGED <<mine, net, seen>>
       ELSE /\ calls' = [calls EXCEPT ![c] = [st |-> "asked", sid |-> sid, seq |-> f.seq]]
            /\ mine' = [mine EXCEPT ![sid].next = @ + 1]
            /\ net' = net \cup {f} /\ seen' = seen \cup {f}
    /\ UNCHANGED <<hub, opened, handling, ran, faults>>

(* openRequest: the session is known and the number is the next one.        *)
Advanced(i) == [hub EXCEPT ![i].next = @ + 1]

OpenRequest(f, refused) ==
    IF \E i \in Position(f.sid) : hub[i].next = f.seq
    THEN /\ \E i \in Position(f.sid) : hub' = Advanced(i)
         /\ handling' = handling \cup {f} /\ net' = net \ {f}
    ELSE /\ net' = (net \ {f}) \cup refused /\ UNCHANGED <<hub, handling>>

Answer(f, kind) == [kind |-> kind, sid |-> f.sid, seq |-> f.seq, c |-> f.c]
Arrive(f) ==
    /\ f \in net /\ f.kind = "request"
    /\ OpenRequest(f, {Answer(f, "error")})
    /\ UNCHANGED <<opened, mine, calls, seen, ran, faults>>

(* A request comes once more; nobody waits for what the peer says to it.    *)
Replay(f) ==
    /\ f \in seen \ net /\ Fault /\ OpenRequest(f, {})
    /\ UNCHANGED <<opened, mine, calls, seen, ran>>

(* dispatchSecure has its effect or throws, then sealResponse needs the     *)
(* session still to be there.                                               *)
Sealed(f, kind) == IF Position(f.sid) = {} THEN "error" ELSE kind
Dispatch(f) ==
    /\ f \in handling /\ handling' = handling \ {f}
    /\ \/ /\ ran' = [ran EXCEPT ![f.c] = @ + 1]
          /\ net' = net \cup {Answer(f, Sealed(f, "answer"))} /\ UNCHANGED faults
       \/ /\ Fault /\ net' = net \cup {Answer(f, "error")} /\ UNCHANGED ran
    /\ UNCHANGED <<hub, opened, mine, calls, seen>>

Close(sid) == mine' = [mine EXCEPT ![sid].closed = TRUE]
AnyResponse(f) == TRUE (* Mutant: whatever the peer says is a result. *)
AcceptResponse(f) == f.kind = "answer" /\ ~mine[f.sid].closed

(* request: the response is opened with the keys of the session, which are  *)
(* zero once it is closed; anything else closes it.                         *)
Response(f) ==
    /\ f \in net /\ f.kind # "request" /\ net' = net \ {f}
    /\ IF calls[f.c].st # "asked" THEN UNCHANGED <<calls, mine>>
       ELSE IF AcceptResponse(f)
       THEN calls' = [calls EXCEPT ![f.c].st = "done"] /\ UNCHANGED mine
       ELSE calls' = [calls EXCEPT ![f.c].st = "failed"] /\ Close(f.sid)
    /\ UNCHANGED <<hub, opened, seen, handling, ran, faults>>

(* AbortSignal.timeout: nothing comes, or it comes too late.                *)
UnderWay(c) == \E f \in net \cup handling : f.c = c
Timer(c) == calls[c].st = "asked"
Timeout(c) ==
    /\ Timer(c) /\ IF UnderWay(c) THEN Fault ELSE UNCHANGED faults
    /\ calls' = [calls EXCEPT ![c].st = "failed"] /\ Close(calls[c].sid)
    /\ UNCHANGED <<hub, opened, net, seen, handling, ran>>

Lose(f) == /\ f \in net /\ Fault /\ net' = net \ {f}
           /\ UNCHANGED <<hub, opened, mine, calls, seen, handling, ran>>
(* prune finds an expired session; the process of the peer starts again.    *)
Expire(sid) == /\ Fault /\ \E i \in Position(sid) : hub' = Forget(i)
               /\ UNCHANGED <<opened, mine, calls, net, seen, handling, ran>>
Restart == /\ Fault /\ hub' = <<>> /\ handling' = {}
           /\ UNCHANGED <<opened, mine, calls, net, seen, ran>>
(* finally{session.close()}, when its calls have settled.                   *)
Finally(sid) == /\ ~mine[sid].closed /\ \A c \in Calls : ~(calls[c].st = "asked" /\ calls[c].sid = sid)
                /\ Close(sid)
                /\ UNCHANGED <<hub, opened, calls, net, seen, handling, ran, faults>>

Next ==
    \/ Establish \/ Restart
    \/ \E sid \in 1..Len(mine) : Expire(sid) \/ Finally(sid) \/ \E c \in Calls : Request(c, sid)
    \/ \E f \in net : Arrive(f) \/ Response(f) \/ Lose(f)
    \/ (\E f \in seen : Replay(f)) \/ (\E f \in handling : Dispatch(f))
    \/ \E c \in Calls : Timeout(c)
Travels(c) == \E f \in net : f.c = c /\ (Arrive(f) \/ Response(f))
Handled(c) == \E f \in handling : f.c = c /\ Dispatch(f)
(* The timer of a request fires if nothing settles the call first.          *)
Spec == /\ Init /\ [][Next]_vars
        /\ \A c \in Calls : WF_vars(Timeout(c)) /\ WF_vars(Travels(c)) /\ WF_vars(Handled(c))
-----------------------------------------------------------------------------
(* The bound of the map; every number taken at the peer was given out by    *)
(* the caller.                                                              *)
TypeOK ==
    /\ Len(hub) <= MaxSessions
    /\ \A i \in DOMAIN hub : hub[i].next <= mine[hub[i].sid].next
    /\ \A f \in net \cup handling : f.seq < mine[f.sid].next

(* Frames lost, replayed, late and out of order, sessions evicted, expired  *)
(* and forgotten: callers see calls that run at most once and always end.   *)
Promise == INSTANCE RemoteCalls WITH call <- [c \in Calls |-> calls[c].st]
ImplementsRemoteCalls == Promise!Spec
============================================================================
