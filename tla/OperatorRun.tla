----------------------------- MODULE OperatorRun -----------------------------
(* The run of an independent operator and the verdict on its evidence       *)
(* (lab/independent-operator-readiness/run-operator.mjs and                 *)
(* verify-evidence.mjs): a node is started in an empty directory, watched   *)
(* until its tip has moved, stopped, started again and stopped; what was    *)
(* seen goes into a bundle that somebody else verifies.  A tip is known by  *)
(* its work; a better one may be lower.                                     *)
EXTENDS Naturals, Sequences

CONSTANTS
    MaxHeight, MaxWork,    \* bounds: the chain of the peer
    MaxTicks, MaxSetBacks, \* bounds: a millisecond passes, the clock is set back
    None

OperatorAssumption ==
    /\ {MaxHeight, MaxWork} \subseteq Nat \ {0}
    /\ {MaxTicks, MaxSetBacks} \subseteq Nat
    /\ None \notin Nat

VARIABLES
    peer,   \* the tip of the peer, and whether it ever fell
    node,   \* the child process
    dir,    \* runtimeDir: identity file and state file
    clock,  \* Date.now, and how often it ticked and was set back
    op,     \* the runner: where it is, and what it has recorded
    bundle  \* outDir: nothing, documents, the whole; or what became of it

vars == <<peer, node, dir, clock, op, bundle>>

Tip == [h : 0..MaxHeight, w : 0..MaxWork]
Genesis == [h |-> 0, w |-> 0]
NoNode == [up |-> FALSE, code |-> 0, auth |-> FALSE, tip |-> Genesis]
EmptyDir == [id |-> None, tip |-> Genesis]

Locals == [pc |-> "idle", round |-> 1, since |-> 0, until |-> 0, rows |-> <<>>,
           signed |-> <<>>, pre |-> Genesis, peers |-> <<>>]

Init ==
    /\ peer = [tip |-> [h |-> 1, w |-> 1], fell |-> FALSE]
    /\ node = NoNode /\ dir = EmptyDir
    /\ clock = [now |-> 0, ticks |-> 0, back |-> 0]
    /\ op = Locals /\ bundle = "none"
-----------------------------------------------------------------------------
(* What the world does while the runner looks at nothing may as well happen *)
(* while it waits next.                                                     *)
Ended == {"done", "failed", "killed"}
Running == op.pc \notin Ended \cup {"idle"}
Watching == op.pc \in {"ready", "hello", "delay", "confirm", "progress"}

(* The node, as far as the runner sees it: it keeps its identity and its    *)
(* chain in the directory, peers are authenticated before anything is       *)
(* downloaded, and it may exit by itself, or never when asked to.            *)
StartEmpty(d) == EmptyDir (* Mutant: every process gets a directory of its own. *)
Kept(d) == d
(* startNode: its process takes a moment to come up.                        *)
StartNode(round) ==
    LET found == IF round = 1 THEN EmptyDir ELSE Kept(dir)
    IN  /\ dir' = [found EXCEPT !.id = IF @ = None THEN round ELSE @]
        /\ node' = [up |-> TRUE, code |-> 0, auth |-> FALSE, tip |-> found.tip]
        /\ clock' = [clock EXCEPT !.now = @ + 1]

Authenticates ==
    /\ Watching /\ node.up /\ ~node.auth /\ node' = [node EXCEPT !.auth = TRUE]
    /\ UNCHANGED <<peer, dir, clock, op, bundle>>
Syncs ==
    /\ Watching /\ node.up /\ node.auth /\ peer.tip.w > node.tip.w
    /\ node' = [node EXCEPT !.tip = peer.tip] /\ dir' = [dir EXCEPT !.tip = peer.tip]
    /\ UNCHANGED <<peer, clock, op, bundle>>
(* By itself, or asked to: with its last checkpoint, or without.            *)
NodeExits ==
    /\ op.pc \in {"stop", "stopping"} \/ Watching
    /\ node.up
    /\ \E code \in {0, 1} : node' = [node EXCEPT !.up = FALSE, !.code = code]
    /\ UNCHANGED <<peer, dir, clock, op, bundle>>

PeerMines ==
    /\ Watching /\ peer.tip.w < MaxWork
    /\ \E h \in 1..MaxHeight :
          /\ h <= peer.tip.h + 1
          /\ peer' = [tip |-> [h |-> h, w |-> peer.tip.w + 1], fell |-> peer.fell \/ h < peer.tip.h]
    /\ UNCHANGED <<node, dir, clock, op, bundle>>
Tick ==
    /\ Watching /\ clock.ticks < MaxTicks /\ clock' = [clock EXCEPT !.now = @ + 1, !.ticks = @ + 1]
    /\ UNCHANGED <<peer, node, dir, op, bundle>>
SetBack ==
    /\ Watching /\ clock.back < MaxSetBacks /\ clock.now > 0
    /\ clock' = [clock EXCEPT !.now = @ - 1, !.back = @ + 1]
    /\ UNCHANGED <<peer, node, dir, op, bundle>>
-----------------------------------------------------------------------------
(* runOperator                                                              *)
Row(tip) == [at |-> clock.now, tip |-> tip]

Begin ==
    /\ op.pc = "idle" /\ StartNode(1)
    /\ op' = [op EXCEPT !.pc = "ready", !.since = clock.now]
    /\ UNCHANGED <<peer, bundle>>

(* ready: the status is the network's, and a peer is authenticated.         *)
Ready ==
    /\ op.pc = "ready" /\ node.up /\ node.auth
    /\ op' = [op EXCEPT !.pc = "hello", !.peers = Append(@, node.auth)]
    /\ UNCHANGED <<peer, node, dir, clock, bundle>>

(* signedHello: the node signs its identity, the challenge and its tip.     *)
Hello ==
    /\ op.pc = "hello" /\ node.up
    /\ op' = [op EXCEPT !.rows = Append(@, Row(node.tip)),
                        !.signed = Append(@, [id |-> dir.id, tip |-> node.tip]),
                        !.pc = IF op.round = 1 THEN "delay" ELSE "stop"]
    /\ UNCHANGED <<peer, node, dir, clock, bundle>>

(* delay(150)                                                               *)
Delay ==
    /\ op.pc = "delay" /\ op' = [op EXCEPT !.pc = "confirm"]
    /\ clock' = [clock EXCEPT !.now = @ + 1]
    /\ UNCHANGED <<peer, node, dir, bundle>>
Confirm ==
    /\ op.pc = "confirm" /\ node.up
    /\ op' = [op EXCEPT !.pc = "progress", !.rows = Append(@, Row(node.tip))]
    /\ UNCHANGED <<peer, node, dir, clock, bundle>>

(* The first status that is higher than the signed one.                     *)
Progress ==
    /\ op.pc = "progress" /\ node.up /\ node.tip.h > op.signed[1].tip.h
    /\ op' = [op EXCEPT !.pc = "stop", !.rows = Append(@, Row(node.tip)), !.pre = node.tip]
    /\ UNCHANGED <<peer, node, dir, clock, bundle>>

(* The `finally': whatever process there is has gone when it ends, and the  *)
(* directory too.                                                           *)
Finally(pc) ==
    /\ op' = [(IF pc = "done" THEN op ELSE Locals) EXCEPT !.pc = pc]
    /\ node' = NoNode /\ dir' = EmptyDir
    /\ UNCHANGED <<peer, clock>>

(* A request to a process that is gone, or a wait of 60 s or 900 s is over. *)
Fails ==
    /\ \/ op.pc \in {"hello", "confirm"} /\ ~node.up
       \/ op.pc \in {"ready", "progress"}
    /\ Finally("failed") /\ UNCHANGED bundle

(* Past stopNode: the second process, or the end of the recording.          *)
Stopped ==
    IF op.round = 1
    THEN StartNode(2) /\ op' = [op EXCEPT !.pc = "ready", !.round = 2]
    ELSE op' = [op EXCEPT !.pc = "write", !.until = clock.now] /\ UNCHANGED <<node, dir, clock>>

(* stopNode: a process that has exited by itself is not looked at.          *)
Stop ==
    /\ op.pc = "stop"
    /\ IF node.up THEN op' = [op EXCEPT !.pc = "stopping"] /\ UNCHANGED <<node, dir, clock>> ELSE Stopped
    /\ UNCHANGED <<peer, bundle>>
StopReturns ==
    /\ op.pc = "stopping" /\ ~node.up /\ node.code = 0
    /\ Stopped /\ UNCHANGED <<peer, bundle>>
(* Not stopped within ten seconds, or stopped with an error.                 *)
StopThrows ==
    /\ op.pc = "stopping" /\ (node.up \/ node.code # 0)
    /\ Finally("failed") /\ UNCHANGED bundle

WriteDocuments ==
    /\ op.pc = "write" /\ bundle = "none" /\ bundle' = "documents"
    /\ UNCHANGED <<peer, node, dir, clock, op>>
WriteManifest ==
    /\ op.pc = "write" /\ bundle = "documents" /\ bundle' = "whole"
    /\ Finally("done")

(* The runner is killed: its `finally' does not run.                        *)
Killed ==
    /\ Running /\ op' = [Locals EXCEPT !.pc = "killed"]
    /\ UNCHANGED <<peer, node, dir, clock, bundle>>
(* On its way a document is changed; or it is lost, or cut short.           *)
Damage ==
    /\ bundle = "whole" /\ bundle' \in {"altered", "unreadable"}
    /\ UNCHANGED <<peer, node, dir, clock, op>>

Runner ==
    \/ Ready \/ Hello \/ Delay \/ Confirm \/ Progress \/ Fails
    \/ Stop \/ StopReturns \/ StopThrows \/ WriteDocuments \/ WriteManifest
Next ==
    \/ Begin \/ Runner \/ Killed \/ Damage
    \/ Authenticates \/ Syncs \/ NodeExits \/ PeerMines \/ Tick \/ SetBack

(* Every wait of the runner has an end.                                     *)
FairSpec == Init /\ [][Next]_vars /\ WF_vars(Runner)
-----------------------------------------------------------------------------
(* verifyEvidenceBundle: what it finds, in the classes `classify' looks     *)
(* for.  `ours' tells whether the challenge it expects is that of this run. *)
RowsOf(phase) == IF phase = 1 THEN op.rows[1] ELSE op.rows[Len(op.rows)]
Rows == 1..Len(op.rows)

Provenance(ours) ==
    \/ ~ours                                            \* challenge_mismatch
    \/ op.signed[2].id # op.signed[1].id                \* signed_challenge_invalid
    \/ \E i \in 1..2 : RowsOf(i).tip # op.signed[i].tip \* signed_tip_mismatch
    \/ bundle = "altered"                               \* checksum_mismatch

TipsOrdered ==
    \A i \in Rows \ {1} : /\ op.rows[i].at > op.rows[i - 1].at
                          /\ op.rows[i].tip.h >= op.rows[i - 1].tip.h
Admissible ==
    /\ TipsOrdered
    /\ RowsOf(2).tip.h > RowsOf(1).tip.h                \* missing_tip_progression
    /\ op.signed[2].tip.h >= op.pre.h                   \* restart_height_regressed
    /\ op.peers = <<TRUE, TRUE>>                        \* missing_authenticated_peer
    /\ op.since < op.until                              \* impossible_run_time_window
    /\ \A i \in Rows : op.rows[i].at \in op.since..op.until

Verdict(ours) ==
    IF bundle \in {"none", "documents", "unreadable"} THEN "INCOMPLETE"
    ELSE IF Provenance(ours) THEN "INVALID_PROVENANCE"
    ELSE IF Admissible THEN "PASS" ELSE "FAIL"
-----------------------------------------------------------------------------
(* Values of the variables.                                                 *)
TypeOK ==
    /\ peer.tip \in Tip /\ node.tip \in Tip /\ dir.tip \in Tip /\ op.pre \in Tip
    /\ node.up \in BOOLEAN /\ dir.id \in {None, 1, 2}
    /\ clock.now \in 0..(MaxTicks + 3) /\ Len(op.rows) <= 4 /\ Len(op.signed) <= 2
    /\ bundle = "whole" => op.pc = "done"

(* Evidence of a run that came to its end is never refused for its          *)
(* provenance, and fails only for what happened outside the runner: the     *)
(* chain fell to a better but lower tip, the clock was set back, or the tip *)
(* moved in the millisecond of its confirmation.                            *)
HonestRunPasses ==
    bundle = "whole" =>
        /\ Verdict(TRUE) \in {"PASS", "FAIL"}
        /\ Verdict(TRUE) = "FAIL" => \/ peer.fell \/ clock.back > 0
                                     \/ op.rows[2].at = op.rows[3].at

(* A bundle passes only as it was written, by a runner that came to its     *)
(* end, for who asks for this run.                                          *)
OnlyWholePasses ==
    \A ours \in BOOLEAN : Verdict(ours) = "PASS" => ours /\ op.pc = "done" /\ bundle = "whole"

(* However a run ends, short of being killed, its node has gone.            *)
NoNodeLeft == op.pc \in {"done", "failed"} => ~node.up

EvidenceSound == HonestRunPasses /\ OnlyWholePasses /\ NoNodeLeft

(* A run comes to an end whatever the node and the peer do.                 *)
RunEnds == (op.pc = "ready") ~> (op.pc \in Ended)
=============================================================================
