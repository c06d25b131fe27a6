----------------------------- MODULE DurableStore -----------------------------
(***************************************************************************)
(* DurableStateStore                                                       *)
(* (sovereign-forge/node/authoritative/durable-state-store.mjs): the       *)
(* owner's state in three files, each an envelope with a generation.  A    *)
(* save writes the temporary file, copies the primary to the backup and    *)
(* renames; every call to the file system is one step, between any two of  *)
(* which it may fail, the process may be killed or the power may be lost.  *)
(* load() takes the valid file of the highest generation and, unless that  *)
(* is the primary, writes it anew before it returns.                       *)
(***************************************************************************)
EXTENDS CrashFiles

CONSTANTS MaxSaves, MaxKills, MaxPowerLosses, MaxFailures, MaxDamages

Primary == "path"
Temporary == "path.tmp"
Backup == "path.bak"
Priority == [p \in Paths |-> CASE p = Primary -> 3 [] p = Temporary -> 2 [] OTHER -> 1]

(* A whole file: the n-th state the owner saved, 0 for the one it had       *)
(* before.  Generation 0 is the format without an envelope (`legacy`).      *)
Snapshot == [generation : Nat, id : Nat]
LegacyFile == [generation |-> 0, id |-> 0]

ASSUME DurableStoreAssumption ==
  /\ Paths = {Primary, Temporary, Backup}
  /\ Torn \notin Snapshot
  /\ {MaxSaves, MaxKills, MaxPowerLosses, MaxFailures, MaxDamages} \subseteq Nat

VARIABLES
  pc,          \* "stopped", "ready", or the next call of writeSnapshot
  generation,  \* this.generation
  job,         \* the envelope being written
  rotate,      \* rotateBackup: TRUE for a save, FALSE for load()'s own write
  saves,       \* the saves begun
  saved,       \* the last two states whose save returned, the newer one last
  doubt,       \* the states of saves begun since then
  loaded,      \* what the last load gave the owner, or Nothing
  checkpointed, \* the owner's lastCheckpoint # null: it saved since it started
  kills, losses, failures, damages

history == <<saves, saved, doubt, loaded, checkpointed>>
faults == <<kills, losses, failures, damages>>
vars == <<names, data, dirs, kept, pc, generation, job, rotate, history, faults>>

value == saved[2]
NoJob == LegacyFile
Nothing == -1
Steps == {"open_tmp", "write_tmp", "sync_tmp", "open_bak", "write_bak", "sync_bak",
          "rename", "sync_dir"}

(* A node that never saved, or one that has the file of an older version.   *)
Init ==
  /\ \E i \in {NoFile} \cup {j \in Inodes : \A k \in Inodes : j <= k} :
        names = [p \in Paths |-> IF p = Primary THEN i ELSE NoFile]
  /\ data = [i \in Inodes |-> IF i = names[Primary] THEN LegacyFile ELSE Torn]
  /\ dirs = {names} /\ kept = [i \in Inodes |-> {data[i]}]
  /\ pc = "stopped" /\ generation = 0 /\ job = NoJob /\ rotate = FALSE
  /\ saves = 0 /\ saved = <<0, 0>> /\ doubt = {} /\ loaded = Nothing
  /\ checkpointed = FALSE
  /\ kills = 0 /\ losses = 0 /\ failures = 0 /\ damages = 0
-----------------------------------------------------------------------------
(* load()                                                                   *)
Candidates == {p \in Paths : Exists(p)}
Valid == {p \in Candidates : ReadFile(p) # Torn}

Ranks(p, q) ==
  \/ ReadFile(p).generation > ReadFile(q).generation
  \/ ReadFile(p).generation = ReadFile(q).generation /\ Priority[p] >= Priority[q]

Chosen == CHOOSE p \in Valid : \A q \in Valid : Ranks(p, q)
NeedsHeal == Chosen # Primary \/ ReadFile(Chosen).generation = 0

(* Mutant: the migrated file keeps the generation 0 of the old format.      *)
SameGeneration(g) == g
HealGeneration(g) == IF g >= 1 THEN g ELSE 1

Load ==
  /\ pc = "stopped"
  /\ \/ Candidates = {} /\ generation' = 0 /\ loaded' = 0
        /\ pc' = "ready" /\ UNCHANGED <<job, rotate>>
     \/ Candidates # {} /\ Valid = {} /\ generation' = 0 /\ loaded' = Nothing
        /\ pc' = "ready" /\ UNCHANGED <<job, rotate>>
     \/ Valid # {} /\ ~NeedsHeal
        /\ generation' = ReadFile(Chosen).generation /\ loaded' = ReadFile(Chosen).id
        /\ pc' = "ready" /\ UNCHANGED <<job, rotate>>
     \/ Valid # {} /\ NeedsHeal
        /\ generation' = ReadFile(Chosen).generation
        /\ job' = [generation |-> HealGeneration(ReadFile(Chosen).generation),
                   id |-> ReadFile(Chosen).id]
        /\ pc' = "open_tmp" /\ rotate' = FALSE /\ UNCHANGED loaded
  /\ UNCHANGED <<files, saves, saved, doubt, checkpointed, faults>>

(* save(state)                                                              *)
Save ==
  /\ pc = "ready" /\ saves < MaxSaves
  /\ saves' = saves + 1
  /\ doubt' = doubt \cup {saves'}
  /\ job' = [generation |-> generation + 1, id |-> saves']
  /\ rotate' = TRUE /\ pc' = "open_tmp"
  /\ UNCHANGED <<files, generation, saved, loaded, checkpointed, faults>>
-----------------------------------------------------------------------------
(* writeSnapshot, call by call.                                             *)
Advance(from, to) ==
  /\ pc = from /\ pc' = to
  /\ UNCHANGED <<generation, job, rotate, history, faults>>

OpenTemporary == Advance("open_tmp", "write_tmp") /\ Open(Temporary)
WriteTemporary == Advance("write_tmp", "sync_tmp") /\ Write(Temporary, job)

(* Mutant: the backup is never made.                                        *)
AfterSyncNoBackup == "rename"
AfterSync == IF rotate THEN "open_bak" ELSE "rename"

(* Mutant: the new file is renamed before it is known to be on the disk.    *)
TemporaryNotSynced == Advance("sync_tmp", AfterSync) /\ UNCHANGED files
SyncTemporary == Advance("sync_tmp", AfterSync) /\ SyncFile(Temporary)

(* copyFile: without a primary (ENOENT) there is no backup to make.         *)
OpenBackup ==
  \/ Advance("open_bak", "write_bak") /\ Exists(Primary) /\ Open(Backup)
  \/ Advance("open_bak", "rename") /\ ~Exists(Primary) /\ UNCHANGED files
WriteBackup == Advance("write_bak", "sync_bak") /\ Write(Backup, ReadFile(Primary))
SyncBackup == Advance("sync_bak", "rename") /\ SyncFile(Backup)
RenameTemporary == Advance("rename", "sync_dir") /\ Rename(Temporary, Primary)

(* Mutant: the rename is not made durable before save() returns.            *)
PublishUnsynced == UNCHANGED files
Publish == SyncDirectory

(* The directory is synced and save(), or load(), returns.                  *)
Complete ==
  /\ pc = "sync_dir" /\ pc' = "ready"
  /\ Publish
  /\ generation' = job.generation
  /\ IF rotate THEN saved' = <<saved[2], job.id>> /\ doubt' = {} /\ UNCHANGED loaded
               ELSE loaded' = job.id /\ UNCHANGED <<saved, doubt>>
  /\ checkpointed' = (checkpointed \/ rotate)
  /\ job' = NoJob /\ rotate' = FALSE
  /\ UNCHANGED <<saves, faults>>

(* A call throws: the owner keeps the store object, and may save again.     *)
Fail ==
  /\ pc \in Steps /\ failures < MaxFailures
  /\ failures' = failures + 1
  /\ pc' = "ready" /\ job' = NoJob /\ rotate' = FALSE
  /\ loaded' = IF rotate THEN loaded ELSE Nothing
  /\ UNCHANGED <<files, generation, saves, saved, doubt, checkpointed, kills, losses, damages>>
-----------------------------------------------------------------------------
Stopped ==
  /\ pc' = "stopped" /\ generation' = 0 /\ job' = NoJob /\ rotate' = FALSE
  /\ checkpointed' = FALSE
  /\ UNCHANGED <<saves, saved, doubt, loaded, failures, damages>>

(* The owner exits; it saves when it starts, before it serves anything.     *)
Quit == pc = "ready" /\ checkpointed /\ Stopped /\ UNCHANGED <<files, kills, losses>>

Kill ==
  /\ pc \in Steps /\ kills < MaxKills
  /\ kills' = kills + 1
  /\ Stopped /\ UNCHANGED <<files, losses>>

PowerLoss ==
  /\ losses < MaxPowerLosses
  /\ losses' = losses + 1
  /\ Stopped /\ LosePower /\ UNCHANGED kills

(* One of the files at rest is found damaged when the node is started.      *)
DamageAtRest(p) ==
  /\ pc = "stopped" /\ damages < MaxDamages
  /\ damages' = damages + 1
  /\ Damage(p)
  /\ UNCHANGED <<pc, generation, job, rotate, history, kills, losses, failures>>

Next ==
  \/ Load \/ Save
  \/ OpenTemporary \/ WriteTemporary \/ SyncTemporary
  \/ OpenBackup \/ WriteBackup \/ SyncBackup
  \/ RenameTemporary \/ Complete
  \/ Fail \/ Quit \/ Kill \/ PowerLoss
  \/ \E p \in Paths : DamageAtRest(p)

Spec == Init /\ [][Next]_vars
-----------------------------------------------------------------------------
Content == Snapshot \cup {Torn}

(* Types; an envelope under way has a generation of its own, since 0 is the *)
(* mark of the old format, and no two names lead to one inode.              *)
TypeOK ==
  /\ dirs \subseteq [Paths -> Inodes \cup {NoFile}] /\ names \in dirs
  /\ \A d \in dirs, p, q \in Paths : p # q /\ d[p] = d[q] => d[p] = NoFile
  /\ data \in [Inodes -> Content] /\ kept \in [Inodes -> SUBSET Content]
  /\ pc \in Steps \cup {"stopped", "ready"}
  /\ generation \in Nat /\ job \in Snapshot /\ rotate \in BOOLEAN
  /\ pc \in Steps => job.generation >= 1
  /\ saves \in 0..MaxSaves /\ doubt \subseteq 1..saves
  /\ saved \in (0..saves) \X (0..saves)
  /\ loaded \in {Nothing} \cup (0..saves) /\ checkpointed \in BOOLEAN
  /\ kills \in 0..MaxKills /\ losses \in 0..MaxPowerLosses
  /\ failures \in 0..MaxFailures /\ damages \in 0..MaxDamages

(* Once a save has returned, whatever a kill or a power loss leaves at any  *)
(* moment holds a whole file: load() does not throw                         *)
(* `durable_state_unrecoverable`.  (No file is damaged at rest.)            *)
AlwaysLoads ==
  value # 0 => /\ Valid # {}
               /\ \A d \in dirs : \E p \in Paths : d[p] # NoFile /\ Torn \notin kept[d[p]]

(* The store is a durable register: what save() or load() returned is what  *)
(* the next load returns, unless a later save had begun.                    *)
Register == INSTANCE DurableRegister WITH
  latest <- saves, open <- pc = "ready" \/ rotate
ImplementsRegister == Register!Spec

(* A damaged file costs at most the newest of the states whose save         *)
(* returned: opened with one file damaged, after no more than one save or   *)
(* heal was cut short, load() finds that state, or one as new as the state  *)
(* saved before it.  (After two the backup and the temporary file may be    *)
(* torn while the primary is the file that is damaged.)                     *)
Interruptions == kills + losses + failures
PreviousAtWorst ==
  pc = "stopped" /\ saved[1] # 0 /\ Interruptions <= 1 =>
    Valid # {} /\ ReadFile(Chosen).id >= saved[1]
=============================================================================
