---------------------------- MODULE RemoteCalls ----------------------------
(* What secure-channel.mjs promises to those who call a peer: a call has    *)
(* its effect at the peer at most once, a call that returns has had it, and *)
(* every call ends.  A call that failed may have had its effect, or may     *)
(* still have it.                                                           *)
EXTENDS Naturals

CONSTANT Calls
VARIABLES call, ran
vars == <<call, ran>>

Init == call = [c \in Calls |-> "idle"] /\ ran = [c \in Calls |-> 0]

Become(c, from, to) == call[c] = from /\ call' = [call EXCEPT ![c] = to]
Ask(c) == Become(c, "idle", "asked") /\ UNCHANGED ran
Refuse(c) == Become(c, "idle", "refused") /\ UNCHANGED ran
Run(c) == /\ call[c] \in {"asked", "failed"} /\ ran[c] = 0
          /\ ran' = [ran EXCEPT ![c] = 1] /\ UNCHANGED call
Return(c) == ran[c] = 1 /\ Become(c, "asked", "done") /\ UNCHANGED ran
Fail(c) == Become(c, "asked", "failed") /\ UNCHANGED ran

Next == \E c \in Calls : Ask(c) \/ Refuse(c) \/ Run(c) \/ Return(c) \/ Fail(c)
Safety == Init /\ [][Next]_vars
Spec == Safety /\ \A c \in Calls : WF_vars(Return(c) \/ Fail(c))
============================================================================
