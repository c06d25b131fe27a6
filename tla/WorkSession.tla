----------------------------- MODULE WorkSession -----------------------------
(* What a mining session promises of the work it is on                      *)
(* (lab/mining-tip-sync/work-identity.mjs and tip-observer.mjs): work has a *)
(* generation, only the result of the present generation is taken, and only *)
(* if nothing invalidated it; a tip invalidates work only when it took the  *)
(* place of its parent or went past it.  The counter of generations is a    *)
(* set of tokens, of which one that somebody still carries is never new.    *)
EXTENDS Naturals

CONSTANTS Generations, Tips, Height(_), None

VARIABLES
    current, \* the identity of the work at hand and why it was invalidated
    workers, \* identities some worker still searches for
    events,  \* results of workers, not yet classified
    result,  \* the identity a result was accepted for
    tip      \* the authoritative tip

vars == <<current, workers, events, result, tip>>

Init == current = None /\ workers = {} /\ events = {} /\ result = None /\ tip \in Tips

(* classifyAuthoritativeTip, of an answer that is well formed.              *)
ClassifyTip(parent, observed) ==
    IF Height(observed) < Height(parent) THEN "OBSERVER_BEHIND_WORK_PARENT"
    ELSE IF observed = parent THEN "PARENT_TIP_MATCH"
    ELSE IF Height(observed) = Height(parent) THEN "PARENT_REPLACED" ELSE "CHAIN_ADVANCED"
Stale == {"PARENT_REPLACED", "CHAIN_ADVANCED"}

Identity(g, p) == [gen |-> g, parent |-> p]
Of(c) == Identity(c.gen, c.parent)

(* bindWork: the next generation; nobody carries it yet.                    *)
BindWork(g, p) ==
    /\ \A i \in workers \cup events : i.gen # g
    /\ current # None => current.gen # g
    /\ current' = [gen |-> g, parent |-> p, reason |-> None] /\ result' = None
    /\ \E gone \in SUBSET workers : workers' = (workers \ gone) \cup {Identity(g, p)}
    /\ UNCHANGED <<events, tip>>

(* invalidateCurrent, once per work: for its tip, only if that is stale; or *)
(* because the tip could not be seen.                                       *)
InvalidateCurrent(reason) ==
    /\ current # None /\ current.reason = None
    /\ reason = "TIP_INVALIDATED" => ClassifyTip(current.parent, tip) \in Stale
    /\ current' = [current EXCEPT !.reason = reason]
    /\ workers' \in SUBSET workers
    /\ UNCHANGED <<events, result, tip>>

(* classifyWorkerEvent                                                      *)
Accepted(e) == current # None /\ e.gen = current.gen /\ current.reason = None
WorkerEvent(e) ==
    /\ e \in events /\ events' = events \ {e}
    /\ result' = IF Accepted(e) THEN e ELSE result
    /\ workers' \in SUBSET workers
    /\ UNCHANGED <<current, tip>>

(* Outside the session: a worker finds a result, the tip moves, and whoever *)
(* mines leaves the work.                                                   *)
Found(w) ==
    /\ w \in workers /\ workers' = workers \ {w} /\ events' = events \cup {w}
    /\ UNCHANGED <<current, result, tip>>
TipMoves ==
    /\ tip' \in Tips
    /\ UNCHANGED <<current, workers, events, result>>
Leave ==
    /\ current' = None /\ result' = None /\ workers' \in SUBSET workers /\ tip' \in Tips
    /\ UNCHANGED events

Next ==
    \/ \E g \in Generations, p \in Tips : BindWork(g, p)
    \/ \E reason \in {"TIP_INVALIDATED", "TIP_FRESHNESS_UNKNOWN"} : InvalidateCurrent(reason)
    \/ \E e \in events : WorkerEvent(e)
    \/ \E w \in workers : Found(w)
    \/ TipMoves \/ Leave

Spec == Init /\ [][Next]_vars
=============================================================================
