----------------------------- MODULE NodeRecovery -----------------------------
(***************************************************************************)
(* The two copies an independent node keeps of its state, and the one it   *)
(* starts from (authoritative/node-state-recovery.mjs and                  *)
(* fae-node-v6-candidate.mjs).  The raw file is written with every change  *)
(* but never fsynced; the durable store is written by a checkpoint now and *)
(* then.  The store is the register DurableStore implements.               *)
(***************************************************************************)
EXTENDS DurableRegister, Sequences

CONSTANTS
  MaxRank,        \* chains, from the least preferred (the checkpoint) on
  MaxPool,        \* payments accepted
  MaxStops,       \* kills and stops by a signal
  MaxPowerLosses, MaxFailures,
  None, Torn,     \* no file or state; a file not written to its end
  SameDirectory   \* the store's file is next to the raw file (the default)

(* A state, as far as recovery looks at it: its chain, by rank in the fork  *)
(* choice, how many payments were ever accepted (mempoolSeq), and whether   *)
(* verifyPersistedState accepts it: not every state of a node does (H1).    *)
State == [rank : 0..MaxRank, pool : 0..MaxPool, loads : BOOLEAN]
Empty == [rank |-> 0, pool |-> 0, loads |-> TRUE]

NodeRecoveryAssumption ==
  /\ {MaxSaves, MaxRank, MaxPool, MaxStops, MaxPowerLosses, MaxFailures} \subseteq Nat
  /\ SameDirectory \in BOOLEAN /\ None # Torn /\ {None, Torn} \cap State = {}

VARIABLES
  contents,  \* contents[n] is the state of the n-th save of the store
  raw,       \* the raw file: a state, Torn or None
  rawKept,   \* what a power loss may leave of it
  mem,       \* the state of the running node
  phase,     \* "down", "boot_raw", "boot_save", "start", "serving", "stopping",
             \* "closing", "stuck" or "refused"
  main,      \* the main module: at its "startup" checkpoint, in the first
             \* "sync" and the checkpoint after it, past setInterval ("timer"),
             \* or "over": no interval is or will be running
  last,      \* lastCheckpoint
  saving,    \* the state under checkpoint; its save is under way
  acked,     \* the last state whose raw write returned
  upset,     \* the raw file lost its last content to a power loss
  unhealed,  \* a heal of the store failed since a save last returned
  stops, losses, failures

node == <<contents, raw, rawKept, mem, phase, main, last, saving, acked, upset, unhealed>>
faults == <<stops, losses, failures>>
allVars == <<vars, node, faults>>

RecoveryInit ==
  /\ Init /\ contents = <<>> /\ raw = None /\ rawKept = {None} /\ mem = Empty
  /\ phase = "down" /\ main = "over" /\ last = None /\ saving = None
  /\ acked = Empty /\ upset = FALSE /\ unhealed = FALSE
  /\ stops = 0 /\ losses = 0 /\ failures = 0

Stored(n) == IF n \in 1..latest THEN contents[n] ELSE None
-----------------------------------------------------------------------------
(* prepareIndependentNodeStorage: a raw file counts if it is verified; a    *)
(* state in the store was verified before it was saved.                     *)
Loads(x) == x \in State /\ x.loads

(* Mutants: the store only replaces a raw file that is lost; it replaces it *)
(* when they are on the same tip.                                           *)
DurableRepairs(durable) == durable # None /\ ~Loads(raw)
DurableNotWorse(durable) == durable # None /\ (Loads(raw) => durable.rank >= raw.rank)
DurableWins(durable) == durable # None /\ (Loads(raw) => durable.rank > raw.rank)

StoreBehind(durable, selected) == durable = None \/ durable.rank # selected.rank

Select(durable, threw) ==
  LET selected == IF DurableWins(durable) THEN durable ELSE raw IN
  IF ~Loads(raw) /\ durable = None
  THEN /\ phase' = IF raw # None \/ threw THEN "refused" ELSE "start"
       /\ mem' = Empty
  ELSE /\ mem' = selected
       /\ phase' = CASE DurableWins(durable) -> "boot_raw"
                     [] StoreBehind(durable, selected) -> "boot_save"
                     [] OTHER -> "start"

(* store.load() throws if there is no valid file, which is so only while no *)
(* save has returned (AlwaysLoads), and if a write of its heal fails.  Then *)
(* a raw file that counts is taken, whatever the store holds.               *)
Unhealed ==
  /\ doubt # {} /\ failures < MaxFailures
  /\ failures' = failures + 1 /\ unhealed' = TRUE
Prepare ==
  /\ phase = "down"
  /\ \/ Load /\ Select(Stored(loaded'), FALSE) /\ UNCHANGED <<failures, unhealed>>
     \/ /\ Forgo /\ Select(None, TRUE)
        /\ \/ value = 0 /\ doubt # {} /\ UNCHANGED <<failures, unhealed>>
           \/ Unhealed
  /\ UNCHANGED <<contents, raw, rawKept, main, last, saving, acked, upset, stops, losses>>

PutRaw(s) == raw' = s /\ rawKept' = rawKept \cup {s, Torn}

(* writeRawAtomic; the state selected is then the store's own.              *)
RecoverRaw ==
  /\ phase = "boot_raw" /\ phase' = "start"
  /\ PutRaw(mem)
  /\ UNCHANGED <<vars, contents, mem, main, last, saving, acked, upset, unhealed, faults>>

BeginSave(s) == Begin /\ contents' = Append(contents, s) /\ saving' = s

(* A directory sync settles the raw file's name, not what is in it.         *)
SaveReturns ==
  /\ Return /\ saving' = None /\ unhealed' = FALSE
  /\ rawKept' = IF SameDirectory THEN rawKept \cap {raw, Torn} ELSE rawKept

RecoverStore ==
  /\ phase = "boot_save" /\ saving = None
  /\ BeginSave(mem)
  /\ UNCHANGED <<raw, rawKept, mem, phase, main, last, acked, upset, unhealed, faults>>
RecoverStoreReturns ==
  /\ phase = "boot_save" /\ saving # None /\ phase' = "start"
  /\ SaveReturns
  /\ UNCHANGED <<contents, raw, mem, main, last, acked, upset, faults>>

(* node.start() reads the raw file again; it would throw if that did not    *)
(* load, which BootKeepsChain rules out.                                    *)
Start ==
  /\ phase = "start" /\ phase' = "serving" /\ main' = "startup"
  /\ mem' = IF Loads(raw) THEN raw ELSE Empty
  /\ acked' = mem' /\ upset' = FALSE
  /\ UNCHANGED <<vars, contents, raw, rawKept, last, saving, unhealed, faults>>
-----------------------------------------------------------------------------
Running == phase \in {"serving", "stopping", "closing", "stuck"}

(* A payment is accepted, or a block or a chain, which may leave pending    *)
(* payments that do not load in their order; the raw write may fail.        *)
Change ==
  /\ Running
  /\ \/ \E s \in State : s.rank > mem.rank /\ mem' = s
     \/ mem.pool < MaxPool /\ mem' = [mem EXCEPT !.pool = @ + 1]
  /\ \/ PutRaw(mem') /\ acked' = mem' /\ upset' = FALSE /\ UNCHANGED failures
     \/ /\ failures < MaxFailures /\ failures' = failures + 1
        /\ UNCHANGED <<raw, rawKept, acked, upset>>
  /\ UNCHANGED <<vars, contents, phase, main, last, saving, unhealed, stops, losses>>

(* checkpoint() verifies the state, and saves it unless it is the last.     *)
Saves == saving = None /\ Loads(mem) /\ mem # last /\ BeginSave(mem)
Skips == saving = None /\ mem = last /\ UNCHANGED <<vars, contents, saving>>
Throws == saving = None /\ ~Loads(mem) /\ UNCHANGED <<vars, contents, saving>>

(* By the timer: skipped while another one runs; what it throws is logged.  *)
Checkpoint ==
  /\ Running /\ main = "timer" /\ Saves
  /\ UNCHANGED <<raw, rawKept, mem, phase, main, last, acked, upset, unhealed, faults>>

(* The main module waits for its checkpoints, unless stop() is at its own,  *)
(* and sets the interval after them.  One that throws ends the module, and  *)
(* the process, which handles every exception, serves on without a timer.   *)
AtMain == main \in {"startup", "sync"} /\ phase # "stopping"
Further == IF main = "startup" THEN {"sync", "timer"} ELSE {"timer"}
MainCheckpoint ==
  /\ Running /\ main \in {"startup", "sync"}
  /\ \/ Saves /\ UNCHANGED main
     \/ Skips /\ main' \in Further
     \/ phase = "stopping" /\ main' \in Further /\ UNCHANGED <<vars, contents, saving>>
     \/ Throws /\ main' = "over"
  /\ UNCHANGED <<raw, rawKept, mem, phase, last, acked, upset, unhealed, faults>>

CheckpointReturns ==
  /\ Running /\ saving # None
  /\ SaveReturns /\ last' = saving
  /\ main' \in IF AtMain THEN Further ELSE {main}
  /\ phase' = IF phase = "stopping" THEN "closing" ELSE phase
  /\ UNCHANGED <<contents, raw, mem, acked, upset, faults>>

(* Mutant: the marker is set before the save is known to have succeeded.    *)
MarkedBeforeSave == saving
MarkerAfterFailure == last
CheckpointFails ==
  /\ Running /\ saving # None /\ failures < MaxFailures
  /\ failures' = failures + 1 /\ saving' = None
  /\ last' = MarkerAfterFailure
  /\ main' = IF AtMain THEN "over" ELSE main
  /\ phase' = IF phase = "stopping" THEN "stuck" ELSE phase
  /\ UNCHANGED <<vars, contents, raw, rawKept, mem, acked, upset, unhealed, stops, losses>>

(* stop(): the interval is cleared if it is set by now; a checkpoint is     *)
(* skipped if one runs; then the server is closed.  If the checkpoint       *)
(* throws it never is: the process serves on and takes no further signal.   *)
Stop ==
  /\ phase = "serving" /\ stops < MaxStops /\ stops' = stops + 1
  /\ main' = IF main = "timer" THEN "over" ELSE main
  /\ \/ Saves /\ phase' = "stopping"
     \/ Skips /\ phase' = "closing"
     \/ Throws /\ phase' = "stuck"
     \/ saving # None /\ phase' = "closing" /\ UNCHANGED <<vars, contents, saving>>
  /\ UNCHANGED <<raw, rawKept, mem, last, acked, upset, unhealed, losses, failures>>

Down ==
  /\ phase' = "down" /\ main' = "over" /\ saving' = None /\ last' = None /\ mem' = Empty /\ Die
  /\ UNCHANGED <<contents, acked, unhealed>>

(* The interval keeps no process up, the first sync does.                   *)
Exit ==
  /\ \/ phase = "refused"
     \/ phase = "closing" /\ saving = None /\ main \in {"timer", "over"}
  /\ Down /\ UNCHANGED <<raw, rawKept, upset, faults>>
(* A write of prepareIndependentNodeStorage fails: nothing handles it yet.  *)
BootFails ==
  /\ phase \in {"boot_raw", "boot_save"}
  /\ failures < MaxFailures /\ failures' = failures + 1
  /\ Down /\ UNCHANGED <<raw, rawKept, upset, stops, losses>>
Kill ==
  /\ phase \notin {"down", "refused"} /\ stops < MaxStops /\ stops' = stops + 1
  /\ Down /\ UNCHANGED <<raw, rawKept, upset, losses, failures>>
PowerLoss ==
  /\ phase \notin {"down", "refused"} /\ losses < MaxPowerLosses /\ losses' = losses + 1
  /\ Down
  /\ raw' \in rawKept /\ rawKept' = {raw'}
  /\ upset' = (upset \/ raw' # raw)
  /\ UNCHANGED <<stops, failures>>

RecoveryNext ==
  \/ Prepare \/ RecoverRaw \/ RecoverStore \/ RecoverStoreReturns \/ Start
  \/ Change \/ Checkpoint \/ MainCheckpoint \/ CheckpointReturns \/ CheckpointFails
  \/ Stop \/ Exit \/ BootFails \/ Kill \/ PowerLoss

RecoverySpec == RecoveryInit /\ [][RecoveryNext]_allVars
(* The module goes on (the requests of the first sync have time limits),    *)
(* the interval timer keeps running and the disk answers.                   *)
FairSpec ==
  /\ RecoverySpec
  /\ WF_allVars(MainCheckpoint) /\ WF_allVars(Checkpoint) /\ WF_allVars(CheckpointReturns)
-----------------------------------------------------------------------------
TypeOK ==
  /\ value \in 0..latest /\ doubt \subseteq 1..latest /\ latest \in 0..MaxSaves
  /\ loaded \in {Nothing} \cup 0..latest /\ open \in BOOLEAN
  /\ contents \in Seq(State) /\ Len(contents) = latest
  /\ raw \in State \cup {None, Torn} /\ rawKept \subseteq State \cup {None, Torn}
  /\ mem \in State /\ acked \in State /\ {upset, unhealed} \subseteq BOOLEAN
  /\ phase \in {"down", "boot_raw", "boot_save", "start", "serving", "stopping",
                "closing", "stuck", "refused"}
  /\ main \in {"startup", "sync", "timer", "over"}
  /\ {last, saving} \subseteq State \cup {None}

AtLeast(s, t) == s.rank > t.rank \/ (s.rank = t.rank /\ s.pool >= t.pool)

(* A node comes back on the state it selected: its raw file loads by then.  *)
(* And it never does on a worse chain than its last finished checkpoint,    *)
(* whatever was lost of the raw file and whether or not that loaded, unless *)
(* a heal of the store failed since.                                        *)
BootKeepsChain ==
  Start => /\ mem' = mem /\ (raw = None \/ Loads(raw))
           /\ value # 0 /\ ~unhealed => mem'.rank >= contents[value].rank

(* A killed or stopped node comes back with all it acknowledged, payments   *)
(* included, if that is a state that loads, although its last checkpoint    *)
(* may be far behind, skipped or failed, and other answers failed.          *)
BootKeepsAcknowledged == Start /\ ~upset /\ acked.loads => AtLeast(mem', acked)

(* A finished checkpoint survives a power loss with its pool, if the two    *)
(* files share a directory and no write failed.  (With the store elsewhere  *)
(* an older raw file on the same tip may come back, and wins.)              *)
BootKeepsCheckpoint ==
  Start /\ value # 0 /\ failures = 0 => AtLeast(mem', contents[value])

(* A node that finished a checkpoint refuses to start only when a write of  *)
(* that very start failed, the heal's; it does start the next time.         *)
RefusesOnlyUnsaved == Prepare /\ phase' = "refused" => value = 0 \/ failures' > failures

(* A state that loads and stays gets into the store, unless the main module *)
(* ended before it set the interval.                                        *)
EveryStateCheckpointed ==
  \A s \in State : s.loads =>
    []<>(phase = "serving" /\ mem = s => main = "over" \/ (value # 0 /\ contents[value] = s))
=============================================================================
