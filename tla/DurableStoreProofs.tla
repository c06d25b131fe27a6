-------------------------- MODULE DurableStoreProofs --------------------------
(***************************************************************************)
(* Theorems about the durable store, for any number of inodes, saves,      *)
(* kills, power losses and failing calls.                                  *)
(***************************************************************************)
EXTENDS DurableStore, TLAPS

Entries == [Paths -> Inodes \cup {NoFile}]
Whole == [generation : Nat, id : 0..saves]

(* What the file system keeps true of its four variables, for contents C.   *)
FilesTyped(ns, dt, ds, kp, C) ==
  /\ ds \subseteq Entries /\ ns \in ds
  /\ \A d \in ds, p, q \in Paths : p # q /\ d[p] = d[q] => d[p] = NoFile
  /\ dt \in [Inodes -> C] /\ kp \in [Inodes -> SUBSET C]
FilesNow(C) == FilesTyped(names, data, dirs, kept, C)
FilesNext(C) == FilesTyped(names', data', dirs', kept', C)

(* The assumptions on the constants, as the provers use them.               *)
LEMMA Constants ==
  /\ NoFile \notin Inodes /\ NoFile = 0
  /\ Paths = {Primary, Temporary, Backup}
  /\ Primary # Temporary /\ Primary # Backup /\ Temporary # Backup
  /\ Torn \notin Snapshot
  /\ MaxSaves \in Nat /\ MaxKills \in Nat /\ MaxPowerLosses \in Nat
  /\ MaxFailures \in Nat /\ MaxDamages \in Nat
BY CrashFilesAssumption, DurableStoreAssumption
   DEF CrashFilesAssumption, DurableStoreAssumption, NoFile, Primary, Temporary, Backup

(* Opening a file gives its name an inode that only this name leads to.     *)
LEMMA OpenFile ==
  ASSUME NEW p \in Paths, NEW C, Torn \in C, FilesNow(C), Open(p)
  PROVE  /\ FilesNext(C)
         /\ \E i \in Inodes :
              /\ names' = [names EXCEPT ![p] = i]
              /\ dirs' = dirs \cup {names'}
              /\ data' = [data EXCEPT ![i] = Torn]
              /\ kept'[i] = IF i = names[p] THEN kept[i] \cup {Torn} ELSE {Torn}
              /\ \A j \in Inodes : j # i => kept'[j] = kept[j]
              /\ i = names[p] \/ \A d \in dirs, q \in Paths : d[q] # i
<1>1. PICK i \in Inodes :
        /\ IF Exists(p) THEN i = names[p] ELSE i \in Free /\ \A j \in Free : i <= j
        /\ names' = [names EXCEPT ![p] = i]
        /\ dirs' = dirs \cup {names'}
        /\ data' = [data EXCEPT ![i] = Torn]
        /\ kept' = [kept EXCEPT ![i] = IF Exists(p) THEN @ \cup {Torn} ELSE {Torn}]
  BY DEF Open
<1>2. i = names[p] \/ \A d \in dirs, q \in Paths : d[q] # i
  BY <1>1 DEF Free
<1>3. names \in Entries /\ names' \in Entries
  BY <1>1 DEF FilesNow, FilesTyped, Entries
<1>4. \A q, r \in Paths : q # r /\ names'[q] = names'[r] => names'[q] = NoFile
  <2>1. \A q, r \in Paths : q # r /\ names[q] = names[r] => names[q] = NoFile
    BY DEF FilesNow, FilesTyped
  <2>2. \A q \in Paths : q # p => names[q] # i
    BY <1>2, <2>1, Constants DEF FilesNow, FilesTyped
  <2>3. \A q \in Paths : names'[q] = IF q = p THEN i ELSE names[q]
    BY <1>1, <1>3 DEF Entries
  <2> QED BY <2>1, <2>2, <2>3
<1>5. kept \in [Inodes -> SUBSET C] /\ data \in [Inodes -> C]
  BY DEF FilesNow, FilesTyped
<1>6. /\ kept' \in [Inodes -> SUBSET C] /\ data' \in [Inodes -> C]
      /\ kept'[i] = IF i = names[p] THEN kept[i] \cup {Torn} ELSE {Torn}
      /\ \A j \in Inodes : j # i => kept'[j] = kept[j]
  BY <1>1, <1>5, Constants DEF Exists
<1>7. dirs' \subseteq Entries /\ names' \in dirs'
  BY <1>1, <1>3 DEF FilesNow, FilesTyped
<1>8. \A d \in dirs', q, r \in Paths : q # r /\ d[q] = d[r] => d[q] = NoFile
  <2>1. \A d \in dirs, q, r \in Paths : q # r /\ d[q] = d[r] => d[q] = NoFile
    BY DEF FilesNow, FilesTyped
  <2> QED BY <1>1, <1>4, <2>1
<1>9. FilesNext(C)
  BY <1>6, <1>7, <1>8 DEF FilesNext, FilesTyped
<1> QED BY <1>1, <1>2, <1>6, <1>9

(* Writing a file changes the content of its own inode only.                *)
LEMMA WriteFile ==
  ASSUME NEW p \in Paths, NEW C, NEW c \in C, FilesNow(C), Exists(p), Write(p, c)
  PROVE  /\ FilesNext(C) /\ names[p] \in Inodes
         /\ names' = names /\ dirs' = dirs
         /\ data'[names[p]] = c /\ kept'[names[p]] = kept[names[p]] \cup {c}
         /\ \A j \in Inodes : j # names[p] => kept'[j] = kept[j] /\ data'[j] = data[j]
<1>1. names[p] \in Inodes
  BY DEF FilesNow, FilesTyped, Entries, Exists
<1> QED BY <1>1 DEF FilesNow, FilesNext, FilesTyped, Write

(* Syncing a file settles its own inode, and may settle the directory.      *)
LEMMA SyncFileContent ==
  ASSUME NEW p \in Paths, NEW C, FilesNow(C), Exists(p), SyncFile(p)
  PROVE  /\ FilesNext(C) /\ names[p] \in Inodes
         /\ names' = names /\ dirs' \subseteq dirs /\ data' = data
         /\ kept'[names[p]] = {data[names[p]]}
         /\ \A j \in Inodes : j # names[p] => kept'[j] = kept[j]
<1>1. names[p] \in Inodes
  BY DEF FilesNow, FilesTyped, Entries, Exists
<1>2. names \in dirs /\ dirs' \subseteq dirs /\ names \in dirs'
  BY DEF FilesNow, FilesTyped, SyncFile
<1> QED BY <1>1, <1>2 DEF FilesNow, FilesNext, FilesTyped, SyncFile, ReadFile

(* Renaming moves a name and leaves every content alone.                    *)
LEMMA RenameFile ==
  ASSUME NEW p \in Paths, NEW q \in Paths, p # q, NEW C, FilesNow(C), Exists(p), Rename(p, q)
  PROVE  /\ FilesNext(C)
         /\ dirs' = dirs \cup {names'} /\ data' = data /\ kept' = kept
         /\ \A r \in Paths : names'[r] = IF r = p THEN NoFile
                                         ELSE IF r = q THEN names[p] ELSE names[r]
<1>1. names \in Entries /\ names' \in Entries
  BY DEF FilesNow, FilesTyped, Entries, Rename
<1>2. \A r \in Paths : names'[r] = IF r = p THEN NoFile
                                   ELSE IF r = q THEN names[p] ELSE names[r]
  BY <1>1 DEF Rename, Entries
<1>3. \A r, s \in Paths : r # s /\ names'[r] = names'[s] => names'[r] = NoFile
  BY <1>2 DEF FilesNow, FilesTyped
<1> QED BY <1>1, <1>2, <1>3 DEF FilesNow, FilesNext, FilesTyped, Rename

(* A power loss leaves one of the directories that were possible, and in a  *)
(* settled file what it had.                                                *)
LEMMA AfterPowerLoss ==
  ASSUME NEW C, FilesNow(C), LosePower
  PROVE  /\ FilesNext(C)
         /\ names' \in dirs /\ dirs' = {names'}
         /\ \A i \in Inodes : kept'[i] = {data'[i]}
         /\ \A i \in Inodes : data'[i] = data[i] \/ data'[i] \in kept[i]
         /\ \A i \in Inodes : kept[i] = {data[i]} => data'[i] = data[i]
<1>1. PICK d \in dirs, found \in [Unsettled -> UNION {kept[i] : i \in Unsettled}] :
        /\ \A i \in Unsettled : found[i] \in kept[i]
        /\ names' = d /\ dirs' = {d}
        /\ data' = [i \in Inodes |-> IF i \in Unsettled THEN found[i] ELSE data[i]]
        /\ kept' = [i \in Inodes |-> {data'[i]}]
  BY DEF LosePower
<1>2. \A i \in Inodes : data'[i] = IF i \in Unsettled THEN found[i] ELSE data[i]
  BY <1>1
<1>3. data' \in [Inodes -> C]
  BY <1>1 DEF FilesNow, FilesTyped, Unsettled
<1>4. kept' \in [Inodes -> SUBSET C]
  BY <1>1, <1>3
<1>5. \A i \in Inodes : /\ kept'[i] = {data'[i]}
                        /\ data'[i] = data[i] \/ data'[i] \in kept[i]
                        /\ kept[i] = {data[i]} => data'[i] = data[i]
  BY <1>1, <1>2 DEF Unsettled
<1>6. FilesNext(C)
  BY <1>1, <1>3, <1>4 DEF FilesNow, FilesNext, FilesTyped
<1> QED BY <1>1, <1>5, <1>6

(* Damage leaves torn content, which is a content.                          *)
LEMMA DamagedFile ==
  ASSUME NEW p \in Paths, NEW C, Torn \in C, FilesNow(C), Damage(p)
  PROVE  FilesNext(C)
BY DEF FilesNow, FilesNext, FilesTyped, Damage

(* What is typed over some contents is typed over more of them.             *)
LEMMA WiderContents ==
  ASSUME NEW C, NEW D, C \subseteq D, FilesNow(C), UNCHANGED files
  PROVE  FilesNext(D)
BY DEF FilesNow, FilesNext, FilesTyped, files
-----------------------------------------------------------------------------
(* The type invariant in the form that is inductive: no file holds a state  *)
(* that was not saved, and a file being written has its name.               *)
Writing == {"write_tmp", "sync_tmp", "open_bak", "write_bak", "sync_bak", "rename"}
Copying == {"write_bak", "sync_bak"}

FilesOK == FilesNow(Whole \cup {Torn})
ControlOK ==
  /\ pc \in Steps \cup {"stopped", "ready"}
  /\ generation \in Nat /\ job \in Whole /\ rotate \in BOOLEAN
  /\ pc \in Steps => job.generation >= 1
  /\ saves \in 0..MaxSaves /\ doubt \subseteq 1..saves
  /\ saved \in (0..saves) \X (0..saves)
  /\ loaded \in {Nothing} \cup (0..saves) /\ checkpointed \in BOOLEAN
CountsOK ==
  /\ kills \in 0..MaxKills /\ losses \in 0..MaxPowerLosses
  /\ failures \in 0..MaxFailures /\ damages \in 0..MaxDamages
NamesOK ==
  /\ pc \in Writing => Exists(Temporary)
  /\ pc \in Copying => Exists(Backup) /\ Exists(Primary)
TypeInv == FilesOK /\ ControlOK /\ CountsOK /\ NamesOK

(* The inductive form implies the type invariant.                           *)
LEMMA TypeInvTypes == TypeInv => TypeOK
BY DEF TypeInv, FilesOK, FilesNow, FilesTyped, ControlOK, CountsOK, TypeOK, Content,
       Whole, Snapshot, Entries

(* Among the valid files load() finds one that ranks first.                 *)
LEMMA ChosenIsValid ==
  ASSUME FilesOK, Valid # {}
  PROVE  Chosen \in Valid /\ ReadFile(Chosen) \in Whole
         /\ \A q \in Valid : Ranks(Chosen, q)
<1>1. \A p \in Valid : ReadFile(p) \in Whole /\ ReadFile(p).generation \in Nat
  BY Constants DEF FilesOK, FilesNow, FilesTyped, Valid, Candidates, Exists, ReadFile, Entries,
                   Whole
<1>2. \A p \in Paths : Priority[p] \in Nat
  BY Constants DEF Priority
<1>3. \A p, q \in Valid : Ranks(p, q) \/ Ranks(q, p)
  BY <1>1, <1>2 DEF Ranks, Valid, Candidates
<1>4. \A p, q, r \in Valid : Ranks(p, q) /\ Ranks(q, r) => Ranks(p, r)
  BY <1>1, <1>2 DEF Ranks, Valid, Candidates
<1>5. Valid \subseteq {Primary, Temporary, Backup}
  BY Constants DEF Valid, Candidates
<1>6. \E p \in Valid : \A q \in Valid : Ranks(p, q)
  BY <1>3, <1>4, <1>5
<1>7. Chosen \in Valid /\ \A q \in Valid : Ranks(Chosen, q)
  BY <1>6 DEF Chosen
<1> QED BY <1>1, <1>7

(* It holds at the start.                                                   *)
LEMMA TypeInvInit == Init => TypeInv
<1> SUFFICES ASSUME Init PROVE TypeInv
  OBVIOUS
<1>1. PICK i \in {NoFile} \cup {j \in Inodes : \A k \in Inodes : j <= k} :
        names = [p \in Paths |-> IF p = Primary THEN i ELSE NoFile]
  BY DEF Init
<1>2. FilesOK
  <2>1. LegacyFile \in Whole
    BY DEF Init, LegacyFile, Whole
  <2>2. data \in [Inodes -> Whole \cup {Torn}] /\ kept \in [Inodes -> SUBSET (Whole \cup {Torn})]
    BY <2>1 DEF Init
  <2>3. names \in Entries
    BY <1>1 DEF Entries
  <2>4. \A p, q \in Paths : p # q /\ names[p] = names[q] => names[p] = NoFile
    BY <1>1
  <2> QED BY <2>2, <2>3, <2>4 DEF Init, FilesOK, FilesNow, FilesTyped
<1>3. ControlOK
  <2>1. saves = 0 /\ saved = <<0, 0>> /\ job = [generation |-> 0, id |-> 0]
    BY DEF Init, NoJob, LegacyFile
  <2>2. job \in Whole /\ saved \in (0..saves) \X (0..saves)
    BY <2>1 DEF Whole
  <2>3. pc \in Steps \cup {"stopped", "ready"} /\ pc \notin Steps
    BY DEF Init, Steps
  <2>4. rotate \in BOOLEAN /\ checkpointed \in BOOLEAN
    BY DEF Init
  <2>5. generation \in Nat /\ saves \in 0..MaxSaves /\ doubt \subseteq 1..saves
        /\ loaded \in {Nothing} \cup (0..saves)
    BY Constants DEF Init
  <2> QED BY <2>2, <2>3, <2>4, <2>5 DEF ControlOK
<1>4. CountsOK
  BY Constants DEF Init, CountsOK
<1>5. NamesOK
  BY DEF Init, NamesOK, Writing, Copying
<1> QED BY <1>2, <1>3, <1>4, <1>5 DEF TypeInv

(* What the file operations preserve, said of the invariant.                *)
LEMMA FilesOKNext ==
  ASSUME FilesNext(Whole \cup {Torn}), saves' = saves
  PROVE  FilesOK'
BY DEF FilesOK, FilesNow, FilesNext, Whole

(* Files that do not change stay well typed when a save begins.             *)
LEMMA FilesOKSame ==
  ASSUME FilesOK, UNCHANGED files, saves \in Nat, saves' \in Nat, saves' >= saves
  PROVE  FilesOK'
<1>1. Whole \cup {Torn} \subseteq Whole' \cup {Torn}
  BY DEF Whole
<1>2. FilesNext(Whole' \cup {Torn})
  BY <1>1, WiderContents DEF FilesOK
<1> QED BY <1>2 DEF FilesOK, FilesNow, FilesNext

(* The calls of writeSnapshot change the program counter only.              *)
LEMMA AdvanceControl ==
  ASSUME NEW from, NEW to \in Steps, from \in Steps, Advance(from, to), ControlOK, CountsOK
  PROVE  ControlOK' /\ CountsOK' /\ saves' = saves /\ job' = job
<1>1. /\ UNCHANGED <<generation, job, rotate, saves, saved, doubt, loaded, checkpointed>>
      /\ UNCHANGED <<kills, losses, failures, damages>>
      /\ pc \in Steps /\ pc' \in Steps
  BY DEF Advance, history, faults
<1>2. Whole' = Whole
  BY <1>1 DEF Whole
<1>3. ControlOK'
  BY <1>1, <1>2 DEF ControlOK
<1> QED BY <1>1, <1>3 DEF CountsOK

(* The owner's process ends: nothing but the files and the history remains. *)
LEMMA StoppedControl ==
  ASSUME Stopped, ControlOK
  PROVE  ControlOK' /\ NamesOK' /\ saves' = saves
<1>1. /\ pc' = "stopped" /\ generation' = 0 /\ job' = LegacyFile /\ rotate' = FALSE
      /\ checkpointed' = FALSE /\ UNCHANGED <<saves, saved, doubt, loaded>>
  BY DEF Stopped, NoJob
<1>2. LegacyFile \in Whole'
  BY <1>1 DEF ControlOK, LegacyFile, Whole
<1>3. pc' \in Steps \cup {"stopped", "ready"} /\ pc' \notin Steps
  BY <1>1 DEF Steps
<1>4. ControlOK'
  BY <1>1, <1>2, <1>3 DEF ControlOK
<1> QED BY <1>1, <1>4 DEF NamesOK, Writing, Copying

(* load() keeps it: the state it heals from is one of the saved ones.       *)
LEMMA TypeInvLoad == ASSUME TypeInv, Load PROVE TypeInv'
<1> USE DEF TypeInv
<1>1. /\ UNCHANGED files /\ UNCHANGED <<saves, saved, doubt, checkpointed>>
      /\ UNCHANGED <<kills, losses, failures, damages>>
  BY DEF Load, faults
<1>2. FilesOK' /\ CountsOK' /\ Whole' = Whole
  BY <1>1, FilesOKSame DEF ControlOK, CountsOK, Whole
<1>3. ASSUME pc' = "ready", UNCHANGED <<job, rotate>>, generation' \in Nat,
             loaded' \in {Nothing} \cup (0..saves)
      PROVE  TypeInv'
  <2>1. pc' \in Steps \cup {"stopped", "ready"} /\ pc' \notin Steps
    BY <1>3 DEF Steps
  <2>2. ControlOK'
    BY <1>1, <1>2, <1>3, <2>1 DEF ControlOK
  <2> QED BY <1>2, <1>3, <2>2 DEF NamesOK, Writing, Copying
<1>4. CASE Valid = {} /\ loaded' \in {Nothing, 0} /\ generation' = 0 /\ pc' = "ready"
           /\ UNCHANGED <<job, rotate>>
  BY <1>3, <1>4 DEF ControlOK
<1>5. CASE Valid # {} /\ ~NeedsHeal
  <2>1. ReadFile(Chosen) \in Whole
    BY <1>5, ChosenIsValid
  <2> QED BY <1>3, <1>5, <2>1 DEF Load, Candidates, Valid, Whole
<1>6. CASE Valid # {} /\ NeedsHeal
  <2> DEFINE g == HealGeneration(ReadFile(Chosen).generation)
  <2>1. ReadFile(Chosen) \in Whole
    BY <1>6, ChosenIsValid
  <2>2. g \in Nat /\ g >= 1
    BY <2>1 DEF HealGeneration, Whole
  <2>3. /\ generation' = ReadFile(Chosen).generation
        /\ job' = [generation |-> g, id |-> ReadFile(Chosen).id]
        /\ pc' = "open_tmp" /\ rotate' = FALSE /\ UNCHANGED loaded
    BY <1>6 DEF Load, Valid
  <2> HIDE DEF g
  <2>4. job' \in Whole /\ job'.generation >= 1 /\ generation' \in Nat
    BY <2>1, <2>2, <2>3 DEF Whole
  <2>5. ControlOK'
    BY <1>1, <1>2, <2>3, <2>4 DEF ControlOK, Steps
  <2> QED BY <1>2, <2>3, <2>5 DEF NamesOK, Writing, Copying
<1> QED BY <1>4, <1>5, <1>6 DEF Load, Valid

(* The beginning of a save keeps it.                                        *)
LEMMA TypeInvSave == ASSUME TypeInv, Save PROVE TypeInv'
<1> USE DEF TypeInv
<1>1. /\ UNCHANGED files /\ UNCHANGED <<generation, saved, loaded, checkpointed>>
      /\ UNCHANGED <<kills, losses, failures, damages>>
      /\ saves < MaxSaves /\ saves' = saves + 1 /\ doubt' = doubt \cup {saves'}
      /\ job' = [generation |-> generation + 1, id |-> saves']
      /\ rotate' = TRUE /\ pc' = "open_tmp"
  BY DEF Save, faults
<1>2. saves \in Nat /\ saves' \in Nat /\ saves' \in 0..MaxSaves
  BY <1>1, Constants DEF ControlOK
<1>3. FilesOK' /\ CountsOK'
  BY <1>1, <1>2, FilesOKSame DEF CountsOK
<1>4. job' \in Whole' /\ job'.generation >= 1
  BY <1>1, <1>2 DEF ControlOK, Whole
<1>5. saved' \in (0..saves') \X (0..saves') /\ doubt' \subseteq 1..saves'
      /\ loaded' \in {Nothing} \cup (0..saves')
  BY <1>1, <1>2 DEF ControlOK
<1>6. ControlOK'
  BY <1>1, <1>2, <1>4, <1>5 DEF ControlOK, Steps
<1> QED BY <1>1, <1>3, <1>6 DEF NamesOK, Writing, Copying

(* The calls of writeSnapshot, one by one.                                  *)
LEMMA TypeInvCalls ==
  ASSUME TypeInv,
         \/ OpenTemporary \/ WriteTemporary \/ SyncTemporary
         \/ OpenBackup \/ WriteBackup \/ SyncBackup \/ RenameTemporary
  PROVE  TypeInv'
<1> USE DEF TypeInv
<1> DEFINE C == Whole \cup {Torn}
<1>1. FilesNow(C) /\ Torn \in C /\ job \in C /\ Temporary \in Paths /\ Backup \in Paths
      /\ Primary \in Paths /\ saves \in Nat /\ names \in Entries
  BY Constants DEF FilesOK, FilesNow, FilesTyped, ControlOK
<1>2. Primary # Temporary /\ Primary # Backup /\ Temporary # Backup
  BY Constants
<1> HIDE DEF C
<1>3. ASSUME FilesNext(C), ControlOK', CountsOK', NamesOK', saves' = saves
      PROVE  TypeInv'
  BY <1>3, FilesOKNext DEF C
<1>4. CASE OpenTemporary
  <2>1. ControlOK' /\ CountsOK' /\ saves' = saves
    BY <1>4, AdvanceControl DEF OpenTemporary, Steps
  <2>2. FilesNext(C) /\ Exists(Temporary)'
    <3>1. PICK i \in Inodes : FilesNext(C) /\ names' = [names EXCEPT ![Temporary] = i]
      BY <1>1, <1>4, OpenFile DEF OpenTemporary
    <3> QED BY <1>1, <3>1, Constants DEF Exists, Entries
  <2>3. NamesOK'
    BY <1>4, <2>2 DEF OpenTemporary, Advance, NamesOK, Copying
  <2> QED BY <1>3, <2>1, <2>2, <2>3
<1>5. CASE WriteTemporary
  <2>1. ControlOK' /\ CountsOK' /\ saves' = saves
    BY <1>5, AdvanceControl DEF WriteTemporary, Steps
  <2>2. Exists(Temporary)
    BY <1>5 DEF WriteTemporary, Advance, NamesOK, Writing
  <2>3. FilesNext(C) /\ names' = names
    BY <1>1, <1>5, <2>2, WriteFile DEF WriteTemporary
  <2>4. NamesOK'
    BY <1>5, <2>2, <2>3 DEF WriteTemporary, Advance, NamesOK, Copying, Exists
  <2> QED BY <1>3, <2>1, <2>3, <2>4
<1>6. CASE SyncTemporary
  <2>1. AfterSync \in {"open_bak", "rename"}
    BY DEF AfterSync
  <2>2. ControlOK' /\ CountsOK' /\ saves' = saves
    BY <1>6, <2>1, AdvanceControl DEF SyncTemporary, Steps
  <2>3. Exists(Temporary)
    BY <1>6 DEF SyncTemporary, Advance, NamesOK, Writing
  <2>4. FilesNext(C) /\ names' = names
    BY <1>1, <1>6, <2>3, SyncFileContent DEF SyncTemporary
  <2>5. NamesOK'
    BY <1>6, <2>1, <2>3, <2>4 DEF SyncTemporary, Advance, NamesOK, Copying, Exists
  <2> QED BY <1>3, <2>2, <2>4, <2>5
<1>7. CASE Advance("open_bak", "write_bak") /\ Exists(Primary) /\ Open(Backup)
  <2>1. ControlOK' /\ CountsOK' /\ saves' = saves
    BY <1>7, AdvanceControl DEF Steps
  <2>2. Exists(Temporary)
    BY <1>7 DEF Advance, NamesOK, Writing
  <2>3. PICK i \in Inodes : FilesNext(C) /\ names' = [names EXCEPT ![Backup] = i]
    BY <1>1, <1>7, OpenFile
  <2>4. Exists(Temporary)' /\ Exists(Backup)' /\ Exists(Primary)'
    BY <1>1, <1>2, <1>7, <2>2, <2>3, Constants DEF Exists, Entries
  <2> QED BY <1>3, <2>1, <2>3, <2>4 DEF NamesOK
<1>8. CASE Advance("open_bak", "rename") /\ ~Exists(Primary) /\ UNCHANGED files
  <2>1. ControlOK' /\ CountsOK' /\ saves' = saves
    BY <1>8, AdvanceControl DEF Steps
  <2>2. Exists(Temporary) /\ names' = names
    BY <1>8 DEF Advance, NamesOK, Writing, files
  <2>3. FilesNext(C)
    BY <1>1, <1>8, WiderContents
  <2>4. NamesOK'
    BY <1>8, <2>2 DEF Advance, NamesOK, Copying, Exists
  <2> QED BY <1>3, <2>1, <2>3, <2>4
<1>9. CASE WriteBackup
  <2>1. ControlOK' /\ CountsOK' /\ saves' = saves
    BY <1>9, AdvanceControl DEF WriteBackup, Steps
  <2>2. Exists(Temporary) /\ Exists(Backup) /\ Exists(Primary)
    BY <1>9 DEF WriteBackup, Advance, NamesOK, Writing, Copying
  <2>3. ReadFile(Primary) \in C
    BY <1>1, <2>2 DEF FilesNow, FilesTyped, Exists, ReadFile, Entries
  <2>4. FilesNext(C) /\ names' = names
    BY <1>1, <1>9, <2>2, <2>3, WriteFile DEF WriteBackup
  <2>5. NamesOK'
    BY <2>2, <2>4 DEF NamesOK, Exists
  <2> QED BY <1>3, <2>1, <2>4, <2>5
<1>10. CASE SyncBackup
  <2>1. ControlOK' /\ CountsOK' /\ saves' = saves
    BY <1>10, AdvanceControl DEF SyncBackup, Steps
  <2>2. Exists(Temporary) /\ Exists(Backup)
    BY <1>10 DEF SyncBackup, Advance, NamesOK, Writing, Copying
  <2>3. FilesNext(C) /\ names' = names
    BY <1>1, <1>10, <2>2, SyncFileContent DEF SyncBackup
  <2>4. NamesOK'
    BY <1>10, <2>2, <2>3 DEF SyncBackup, Advance, NamesOK, Copying, Exists
  <2> QED BY <1>3, <2>1, <2>3, <2>4
<1>11. CASE RenameTemporary
  <2>1. ControlOK' /\ CountsOK' /\ saves' = saves
    BY <1>11, AdvanceControl DEF RenameTemporary, Steps
  <2>2. Exists(Temporary)
    BY <1>11 DEF RenameTemporary, Advance, NamesOK, Writing
  <2>3. FilesNext(C)
    BY <1>1, <1>2, <1>11, <2>2, RenameFile DEF RenameTemporary
  <2>4. NamesOK'
    BY <1>11 DEF RenameTemporary, Advance, NamesOK, Writing, Copying
  <2> QED BY <1>3, <2>1, <2>3, <2>4
<1> QED BY <1>4, <1>5, <1>6, <1>7, <1>8, <1>9, <1>10, <1>11 DEF OpenBackup

(* The return of a save or heal keeps it.                                   *)
LEMMA TypeInvComplete == ASSUME TypeInv, Complete PROVE TypeInv'
<1> USE DEF TypeInv
<1>1. /\ names' = names /\ data' = data /\ kept' = kept /\ dirs' = {names}
      /\ UNCHANGED <<saves, kills, losses, failures, damages>>
      /\ pc' = "ready" /\ generation' = job.generation
      /\ job' = LegacyFile /\ rotate' = FALSE
      /\ checkpointed' = (checkpointed \/ rotate)
  BY DEF Complete, Publish, SyncDirectory, faults, NoJob
<1>2. Whole' = Whole /\ CountsOK'
  BY <1>1 DEF Whole, CountsOK
<1>3. FilesOK'
  BY <1>1, <1>2 DEF FilesOK, FilesNow, FilesTyped
<1>4. /\ saved' \in (0..saves) \X (0..saves) /\ doubt' \subseteq 1..saves
      /\ loaded' \in {Nothing} \cup (0..saves)
  <2>1. job.id \in 0..saves /\ saved[2] \in 0..saves
    BY DEF ControlOK, Whole
  <2>2. CASE rotate
    BY <2>1, <2>2 DEF Complete, ControlOK
  <2>3. CASE ~rotate
    BY <2>1, <2>3 DEF Complete, ControlOK
  <2> QED BY <2>2, <2>3
<1>5. job' \in Whole /\ generation' \in Nat
  BY <1>1 DEF ControlOK, Whole, LegacyFile
<1>6. checkpointed' \in BOOLEAN /\ rotate' \in BOOLEAN
  BY <1>1 DEF ControlOK
<1>7. ControlOK'
  BY <1>1, <1>2, <1>4, <1>5, <1>6 DEF ControlOK, Steps
<1> QED BY <1>1, <1>2, <1>3, <1>7 DEF NamesOK, Writing, Copying

(* A call that throws keeps it.                                             *)
LEMMA TypeInvFail == ASSUME TypeInv, Fail PROVE TypeInv'
<1> USE DEF TypeInv
<1>1. /\ UNCHANGED files
      /\ UNCHANGED <<generation, saves, saved, doubt, checkpointed, kills, losses, damages>>
      /\ failures < MaxFailures /\ failures' = failures + 1
      /\ pc' = "ready" /\ job' = LegacyFile /\ rotate' = FALSE
      /\ loaded' \in {loaded, Nothing}
  BY DEF Fail, NoJob
<1>2. Whole' = Whole /\ FilesOK'
  BY <1>1, FilesOKSame DEF ControlOK, Whole
<1>3. CountsOK'
  BY <1>1, Constants DEF CountsOK
<1>4. job' \in Whole
  BY <1>1 DEF ControlOK, Whole, LegacyFile
<1>5. ControlOK'
  BY <1>1, <1>2, <1>4 DEF ControlOK, Steps
<1> QED BY <1>1, <1>2, <1>3, <1>5 DEF NamesOK, Writing, Copying

(* The ends of the process keep it.                                         *)
LEMMA TypeInvStops == ASSUME TypeInv, Quit \/ Kill \/ PowerLoss PROVE TypeInv'
<1> USE DEF TypeInv
<1>1. Stopped
  BY DEF Quit, Kill, PowerLoss
<1>2. ControlOK' /\ NamesOK' /\ saves' = saves
  BY <1>1, StoppedControl
<1>3. CountsOK'
  BY Constants DEF Quit, Kill, PowerLoss, Stopped, CountsOK
<1>4. CASE Quit \/ Kill
  <2>1. FilesOK'
    BY <1>2, <1>4, FilesOKSame DEF Quit, Kill, ControlOK
  <2> QED BY <1>2, <1>3, <2>1
<1>5. CASE PowerLoss
  <2>1. FilesNext(Whole \cup {Torn})
    BY <1>5, AfterPowerLoss DEF PowerLoss, FilesOK
  <2> QED BY <1>2, <1>3, <2>1, FilesOKNext
<1> QED BY <1>4, <1>5

(* Damage at rest keeps it.                                                 *)
LEMMA TypeInvDamage ==
  ASSUME TypeInv, NEW p \in Paths, DamageAtRest(p)
  PROVE  TypeInv'
<1> USE DEF TypeInv
<1>1. /\ UNCHANGED <<pc, generation, job, rotate, saves, saved, doubt, loaded, checkpointed>>
      /\ UNCHANGED <<kills, losses, failures>> /\ pc = "stopped"
      /\ damages < MaxDamages /\ damages' = damages + 1
  BY DEF DamageAtRest, history
<1>2. FilesOK'
  BY <1>1, DamagedFile, FilesOKNext DEF DamageAtRest, FilesOK
<1>3. CountsOK'
  BY <1>1, Constants DEF CountsOK
<1>4. ControlOK'
  BY <1>1 DEF ControlOK, Whole
<1> QED BY <1>1, <1>2, <1>3, <1>4 DEF NamesOK, Writing, Copying

(* So every step keeps it.                                                  *)
LEMMA TypeInvNext == TypeInv /\ [Next]_vars => TypeInv'
<1>1. ASSUME TypeInv, UNCHANGED vars PROVE TypeInv'
  BY <1>1 DEF vars, files, history, faults, TypeInv, FilesOK, FilesNow, FilesTyped, ControlOK,
              CountsOK, NamesOK, Exists, Whole
<1> QED BY <1>1, TypeInvLoad, TypeInvSave, TypeInvCalls, TypeInvComplete, TypeInvFail,
           TypeInvStops, TypeInvDamage DEF Next

(* TypeOK is an invariant: in particular no two names ever lead to one       *)
(* inode, and no envelope of generation 0 is ever written.                  *)
THEOREM TypeCorrect == Spec => []TypeOK
<1>1. Spec => []TypeInv
  BY TypeInvInit, TypeInvNext, PTL DEF Spec
<1> QED BY <1>1, TypeInvTypes, PTL
-----------------------------------------------------------------------------
(* Why load() always finds a state while no file is damaged at rest: in any  *)
(* directory that may be found, the primary is a settled whole file that no *)
(* name still being written leads to; and what is renamed is settled.  (All *)
(* of it outlives damage, but for the primary being whole.)                 *)
Settled(i, c) == data[i] = c /\ kept[i] = {c}
Intact(c) == c \in Snapshot \/ (c = Torn /\ damages # 0)
PrimarySettled ==
  \A d \in dirs : d[Primary] # NoFile =>
    /\ Intact(data[d[Primary]]) /\ Settled(d[Primary], data[d[Primary]])
    /\ d[Primary] # names[Temporary] /\ d[Primary] # names[Backup]
TemporaryReady ==
  /\ pc = "sync_tmp" => ReadFile(Temporary) = job
  /\ pc \in {"open_bak", "write_bak", "sync_bak", "rename"} => Settled(names[Temporary], job)
  /\ pc = "sync_dir" => Exists(Primary)
SavedNamed == value # 0 => \A d \in dirs : d[Primary] # NoFile
Loadable == PrimarySettled /\ TemporaryReady /\ SavedNamed
LoadInv == TypeInv /\ Loadable

(* It implies the property.                                                 *)
LEMMA LoadableLoads == TypeInv /\ Loadable /\ damages = 0 => AlwaysLoads
<1> SUFFICES ASSUME TypeInv, Loadable, damages = 0, value # 0
             PROVE  /\ Valid # {}
                    /\ \A d \in dirs : \E p \in Paths : d[p] # NoFile /\ Torn \notin kept[d[p]]
  BY DEF AlwaysLoads
<1>1. \A d \in dirs : /\ d[Primary] # NoFile /\ kept[d[Primary]] = {data[d[Primary]]}
                      /\ data[d[Primary]] \in Snapshot
  BY DEF Loadable, SavedNamed, PrimarySettled, Settled, Intact
<1>2. names \in dirs /\ Primary \in Paths
  BY Constants DEF TypeInv, FilesOK, FilesNow, FilesTyped
<1>3. Primary \in Valid
  BY <1>1, <1>2, Constants DEF Valid, Candidates, Exists, ReadFile
<1>4. \A d \in dirs : Torn \notin kept[d[Primary]]
  BY <1>1, Constants
<1> QED BY <1>1, <1>2, <1>3, <1>4

(* The temporary file and the backup can be opened, written and synced      *)
(* without touching a primary.                                              *)
LEMMA OpenKeepsPrimary ==
  ASSUME NEW p \in {Temporary, Backup}, FilesOK, PrimarySettled, SavedNamed, Open(p),
         damages' = damages
  PROVE  /\ PrimarySettled' /\ (value' = value => SavedNamed')
         /\ \A q \in Paths : q # p /\ Exists(q) =>
              /\ names'[q] = names[q]
              /\ data'[names[q]] = data[names[q]] /\ kept'[names[q]] = kept[names[q]]
<1>1. PICK i \in Inodes :
              /\ names' = [names EXCEPT ![p] = i]
              /\ dirs' = dirs \cup {names'}
              /\ data' = [data EXCEPT ![i] = Torn]
              /\ \A j \in Inodes : j # i => kept'[j] = kept[j]
              /\ i = names[p] \/ \A d \in dirs, q \in Paths : d[q] # i
  BY OpenFile, Constants DEF FilesOK
<1>2. /\ names \in dirs /\ dirs \subseteq Entries /\ names \in Entries
      /\ \A q, r \in Paths : q # r /\ names[q] = names[r] => names[q] = NoFile
      /\ DOMAIN data = Inodes
  BY DEF FilesOK, FilesNow, FilesTyped
<1>3. \A q \in Paths : names'[q] = IF q = p THEN i ELSE names[q]
  BY <1>1, <1>2 DEF Entries
<1>4. \A j \in Inodes : j # i => data'[j] = data[j] /\ kept'[j] = kept[j]
  BY <1>1, <1>2 DEF FilesOK, FilesNow, FilesTyped
<1>5. \A d \in dirs' : \E e \in dirs : e[Primary] = d[Primary]
  BY <1>1, <1>2, <1>3, Constants
<1>6. \A d \in dirs : d[Primary] # NoFile =>
        /\ d[Primary] \in Inodes /\ d[Primary] # i
        /\ d[Primary] # names'[Temporary] /\ d[Primary] # names'[Backup]
  BY <1>1, <1>2, <1>3, Constants DEF PrimarySettled, Entries
<1>7. PrimarySettled'
  <2> SUFFICES ASSUME NEW d \in dirs', d[Primary] # NoFile
               PROVE  /\ Intact(data'[d[Primary]])
                      /\ kept'[d[Primary]] = {data'[d[Primary]]}
                      /\ d[Primary] # names'[Temporary] /\ d[Primary] # names'[Backup]
    BY DEF PrimarySettled, Settled, Intact
  <2>1. PICK e \in dirs : e[Primary] = d[Primary]
    BY <1>5
  <2>2. Intact(data[d[Primary]]) /\ kept[d[Primary]] = {data[d[Primary]]}
    BY <2>1 DEF PrimarySettled, Settled
  <2> QED BY <1>4, <1>6, <2>1, <2>2
<1>8. value' = value => SavedNamed'
  BY <1>5 DEF SavedNamed, value
<1>9. \A q \in Paths : q # p /\ Exists(q) => names[q] \in Inodes /\ names[q] # i
  BY <1>1, <1>2, Constants DEF Exists, Entries
<1> QED BY <1>3, <1>4, <1>7, <1>8, <1>9

(* Writing and syncing leave the primary alone as well.                     *)
LEMMA WriteKeepsPrimary ==
  ASSUME NEW p \in {Temporary, Backup}, FilesOK, PrimarySettled, SavedNamed, Exists(p),
         names' = names, dirs' \subseteq dirs, damages' = damages,
         \A j \in Inodes : j # names[p] => kept'[j] = kept[j] /\ data'[j] = data[j]
  PROVE  /\ PrimarySettled' /\ (value' = value => SavedNamed')
         /\ \A q \in Paths : q # p /\ Exists(q) =>
              /\ data'[names[q]] = data[names[q]] /\ kept'[names[q]] = kept[names[q]]
<1>1. /\ dirs \subseteq Entries /\ names \in Entries /\ p \in Paths
      /\ \A q, r \in Paths : q # r /\ names[q] = names[r] => names[q] = NoFile
  BY Constants DEF FilesOK, FilesNow, FilesTyped
<1>2. \A d \in dirs : d[Primary] # NoFile => d[Primary] \in Inodes /\ d[Primary] # names[p]
  BY <1>1, Constants DEF PrimarySettled, Entries
<1>3. PrimarySettled'
  BY <1>2 DEF PrimarySettled, Settled, Intact
<1>4. value' = value => SavedNamed'
  BY DEF SavedNamed, value
<1>5. \A q \in Paths : q # p /\ Exists(q) => names[q] \in Inodes /\ names[q] # names[p]
  BY <1>1 DEF Exists, Entries
<1> QED BY <1>3, <1>4, <1>5

(* It holds at the start.                                                   *)
LEMMA LoadableInit == Init => Loadable
<1> SUFFICES ASSUME Init PROVE Loadable
  OBVIOUS
<1>1. FilesOK
  BY TypeInvInit DEF TypeInv
<1>2. /\ names \in Entries /\ dirs = {names} /\ data = [i \in Inodes |-> IF i = names[Primary] THEN LegacyFile ELSE Torn]
      /\ kept = [i \in Inodes |-> {data[i]}] /\ pc = "stopped" /\ saved = <<0, 0>>
      /\ names[Temporary] = NoFile /\ names[Backup] = NoFile
  BY <1>1, Constants DEF Init, FilesOK, FilesNow, FilesTyped
<1>3. PrimarySettled
  BY <1>2, Constants DEF PrimarySettled, Settled, Intact, LegacyFile, Snapshot, Entries
<1>4. TemporaryReady /\ SavedNamed
  BY <1>2 DEF TemporaryReady, SavedNamed, value
<1> QED BY <1>3, <1>4 DEF Loadable

(* Steps that touch no file keep it.                                        *)
LEMMA LoadableQuiet ==
  ASSUME Loadable, UNCHANGED files, value' = value, damages' = damages,
         pc' \in {"stopped", "ready", "open_tmp"}
  PROVE  Loadable'
<1>1. PrimarySettled' /\ SavedNamed'
  BY DEF Loadable, PrimarySettled, Settled, Intact, SavedNamed, files, value
<1>2. TemporaryReady'
  BY DEF TemporaryReady
<1> QED BY <1>1, <1>2 DEF Loadable

(* So do the calls of writeSnapshot before the rename,                      *)
LEMMA LoadableCalls ==
  ASSUME TypeInv, Loadable,
         \/ OpenTemporary \/ WriteTemporary \/ SyncTemporary
         \/ OpenBackup \/ WriteBackup \/ SyncBackup
  PROVE  Loadable'
<1> DEFINE C == Whole \cup {Torn}
<1>1. /\ FilesNow(C) /\ job \in C /\ Temporary \in Paths /\ Backup \in Paths /\ Primary \in Paths
      /\ names \in Entries /\ Temporary # Backup /\ Primary # Temporary /\ FilesOK
  BY Constants DEF TypeInv, FilesOK, FilesNow, FilesTyped, ControlOK
<1> HIDE DEF C
<1>2. /\ job' = job /\ value' = value /\ damages' = damages
      /\ pc \in Writing => Exists(Temporary)
      /\ pc \in Copying => Exists(Backup) /\ Exists(Primary)
  BY DEF OpenTemporary, WriteTemporary, SyncTemporary, OpenBackup, WriteBackup, SyncBackup,
         Advance, history, faults, value, TypeInv, NamesOK
<1>3. PrimarySettled /\ SavedNamed /\ TemporaryReady
  BY DEF Loadable
<1>4. CASE OpenTemporary
  <2>1. PrimarySettled' /\ SavedNamed'
    BY <1>1, <1>2, <1>3, <1>4, OpenKeepsPrimary DEF OpenTemporary
  <2>2. TemporaryReady'
    BY <1>4 DEF OpenTemporary, Advance, TemporaryReady
  <2> QED BY <2>1, <2>2 DEF Loadable
<1>5. CASE WriteTemporary
  <2>1. Exists(Temporary)
    BY <1>2, <1>5 DEF WriteTemporary, Advance, Writing
  <2>2. /\ names' = names /\ dirs' = dirs /\ data'[names[Temporary]] = job
        /\ \A j \in Inodes : j # names[Temporary] => kept'[j] = kept[j] /\ data'[j] = data[j]
    BY <1>1, <1>5, <2>1, WriteFile DEF WriteTemporary
  <2>3. PrimarySettled' /\ SavedNamed'
    BY <1>1, <1>2, <1>3, <2>1, <2>2, WriteKeepsPrimary
  <2>4. TemporaryReady'
    BY <1>2, <1>5, <2>2 DEF WriteTemporary, Advance, TemporaryReady, ReadFile
  <2> QED BY <2>3, <2>4 DEF Loadable
<1>6. CASE SyncTemporary
  <2>1. Exists(Temporary) /\ data[names[Temporary]] = job
    BY <1>2, <1>3, <1>6 DEF SyncTemporary, Advance, Writing, TemporaryReady, ReadFile
  <2>2. /\ names' = names /\ dirs' \subseteq dirs /\ data' = data
        /\ kept'[names[Temporary]] = {data[names[Temporary]]}
        /\ \A j \in Inodes : j # names[Temporary] => kept'[j] = kept[j]
    BY <1>1, <1>6, <2>1, SyncFileContent DEF SyncTemporary
  <2>3. PrimarySettled' /\ SavedNamed'
    BY <1>1, <1>2, <1>3, <2>1, <2>2, WriteKeepsPrimary
  <2>4. Settled(names[Temporary], job)'
    BY <1>2, <2>1, <2>2 DEF Settled
  <2>5. TemporaryReady'
    BY <1>6, <2>4 DEF SyncTemporary, Advance, AfterSync, TemporaryReady
  <2> QED BY <2>3, <2>5 DEF Loadable
<1>7. CASE OpenBackup
  <2>1. Exists(Temporary) /\ Settled(names[Temporary], job)
    BY <1>2, <1>3, <1>7 DEF OpenBackup, Advance, Writing, TemporaryReady
  <2>2. PrimarySettled' /\ SavedNamed' /\ Settled(names[Temporary], job)'
    <3>1. CASE Open(Backup)
      BY <1>1, <1>2, <1>3, <2>1, <3>1, OpenKeepsPrimary DEF Settled
    <3>2. CASE UNCHANGED files
      BY <1>2, <1>3, <2>1, <3>2 DEF PrimarySettled, Settled, Intact, SavedNamed, files, value
    <3> QED BY <1>7, <3>1, <3>2 DEF OpenBackup
  <2>3. TemporaryReady'
    BY <1>7, <2>2 DEF OpenBackup, Advance, TemporaryReady
  <2> QED BY <2>2, <2>3 DEF Loadable
<1>8. CASE WriteBackup \/ SyncBackup
  <2>1. /\ Exists(Temporary) /\ Exists(Backup) /\ Exists(Primary)
        /\ Settled(names[Temporary], job)
    BY <1>2, <1>3, <1>8 DEF WriteBackup, SyncBackup, Advance, Writing, Copying, TemporaryReady
  <2>2. ReadFile(Primary) \in C
    BY <1>1, <2>1 DEF FilesNow, FilesTyped, Exists, ReadFile, Entries
  <2>3. /\ names' = names /\ dirs' \subseteq dirs
        /\ \A j \in Inodes : j # names[Backup] => kept'[j] = kept[j] /\ data'[j] = data[j]
    BY <1>1, <1>8, <2>1, <2>2, WriteFile, SyncFileContent DEF WriteBackup, SyncBackup
  <2>4. PrimarySettled' /\ SavedNamed' /\ Settled(names[Temporary], job)'
    BY <1>1, <1>2, <1>3, <2>1, <2>3, WriteKeepsPrimary DEF Settled
  <2>5. TemporaryReady'
    BY <1>8, <2>4 DEF WriteBackup, SyncBackup, Advance, TemporaryReady
  <2> QED BY <2>4, <2>5 DEF Loadable
<1> QED BY <1>4, <1>5, <1>6, <1>7, <1>8

(* the rename, since the temporary file is settled by then,                 *)
LEMMA LoadableRename == ASSUME TypeInv, Loadable, RenameTemporary PROVE Loadable'
<1>1. /\ pc = "rename" /\ pc' = "sync_dir" /\ value' = value /\ job \in Snapshot
      /\ damages' = damages
      /\ Exists(Temporary) /\ Settled(names[Temporary], job)
  BY DEF RenameTemporary, Advance, history, faults, value, TypeInv, NamesOK, Writing, ControlOK,
         Whole, Snapshot, Loadable, TemporaryReady
<1>2. /\ dirs' = dirs \cup {names'} /\ data' = data /\ kept' = kept
      /\ names'[Primary] = names[Temporary] /\ names'[Temporary] = NoFile
      /\ names'[Backup] = names[Backup]
  BY <1>1, RenameFile, Constants DEF RenameTemporary, TypeInv, FilesOK
<1>3. names[Temporary] # NoFile /\ names[Temporary] # names[Backup]
  BY <1>1, Constants DEF TypeInv, FilesOK, FilesNow, FilesTyped, Exists
<1>4. PrimarySettled'
  BY <1>1, <1>2, <1>3 DEF Loadable, PrimarySettled, Settled, Intact
<1>5. SavedNamed' /\ TemporaryReady'
  BY <1>1, <1>2, <1>3 DEF Loadable, SavedNamed, value, TemporaryReady, Exists
<1> QED BY <1>4, <1>5 DEF Loadable

(* the directory sync,                                                      *)
LEMMA LoadableComplete == ASSUME TypeInv, Loadable, Complete PROVE Loadable'
<1>1. /\ names' = names /\ data' = data /\ kept' = kept /\ dirs' = {names} /\ names \in dirs
      /\ damages' = damages
  BY DEF Complete, Publish, SyncDirectory, faults, TypeInv, FilesOK, FilesNow, FilesTyped
<1>2. names[Primary] # NoFile /\ pc' = "ready"
  BY DEF Complete, Loadable, TemporaryReady, Exists
<1>3. PrimarySettled' /\ SavedNamed' /\ TemporaryReady'
  BY <1>1, <1>2 DEF Loadable, PrimarySettled, Settled, Intact, SavedNamed, TemporaryReady
<1> QED BY <1>3 DEF Loadable

(* and a power loss, since a settled primary is what it was.                *)
LEMMA LoadablePowerLoss == ASSUME TypeInv, Loadable, PowerLoss PROVE Loadable'
<1>1. /\ FilesNext(Whole \cup {Torn})
      /\ names' \in dirs /\ dirs' = {names'}
      /\ \A i \in Inodes : kept'[i] = {data'[i]}
      /\ \A i \in Inodes : kept[i] = {data[i]} => data'[i] = data[i]
  BY AfterPowerLoss DEF PowerLoss, TypeInv, FilesOK
<1>2. value' = value /\ pc' = "stopped" /\ damages' = damages
  BY DEF PowerLoss, Stopped, value
<1>3. names' \in Entries
      /\ \A p, q \in Paths : p # q /\ names'[p] = names'[q] => names'[p] = NoFile
  BY <1>1 DEF FilesNext, FilesTyped
<1>4. PrimarySettled'
  BY <1>1, <1>2, <1>3, Constants DEF Loadable, PrimarySettled, Settled, Intact, Entries
<1>5. SavedNamed' /\ TemporaryReady'
  BY <1>1, <1>2 DEF Loadable, SavedNamed, TemporaryReady, value
<1> QED BY <1>4, <1>5 DEF Loadable

(* Damage tears a file at rest and leaves the rest of it.                   *)
LEMMA LoadableDamage ==
  ASSUME TypeInv, Loadable, NEW p \in Paths, DamageAtRest(p)
  PROVE  Loadable'
<1>1. /\ names' = names /\ dirs' = dirs /\ value' = value /\ pc' = "stopped"
      /\ damages' = damages + 1 /\ damages \in Nat /\ damages' # 0
      /\ data' = [data EXCEPT ![names[p]] = Torn] /\ kept' = [kept EXCEPT ![names[p]] = {Torn}]
      /\ DOMAIN data = Inodes /\ DOMAIN kept = Inodes
  BY Constants DEF DamageAtRest, Damage, history, value, TypeInv, CountsOK, FilesOK, FilesNow,
                   FilesTyped
<1>2. \A i \in Inodes :
        /\ i = names[p] => data'[i] = Torn /\ kept'[i] = {Torn}
        /\ i # names[p] => data'[i] = data[i] /\ kept'[i] = kept[i]
  BY <1>1
<1>3. \A d \in dirs : d[Primary] # NoFile => d[Primary] \in Inodes
  BY Constants DEF TypeInv, FilesOK, FilesNow, FilesTyped, Entries
<1>4. PrimarySettled'
  <2> SUFFICES ASSUME NEW d \in dirs, d[Primary] # NoFile
               PROVE  /\ Intact(data[d[Primary]])' /\ Settled(d[Primary], data[d[Primary]])'
                      /\ d[Primary] # names[Temporary] /\ d[Primary] # names[Backup]
    BY <1>1 DEF PrimarySettled
  <2>1. /\ Intact(data[d[Primary]]) /\ Settled(d[Primary], data[d[Primary]])
        /\ d[Primary] # names[Temporary] /\ d[Primary] # names[Backup]
    BY DEF Loadable, PrimarySettled
  <2> QED BY <1>1, <1>2, <1>3, <2>1 DEF Intact, Settled
<1>5. SavedNamed' /\ TemporaryReady'
  BY <1>1 DEF Loadable, SavedNamed, value, TemporaryReady
<1> QED BY <1>4, <1>5 DEF Loadable

(* So every step keeps it.                                                  *)
LEMMA LoadInvNext == LoadInv /\ [Next]_vars => LoadInv'
<1> SUFFICES ASSUME LoadInv, [Next]_vars PROVE Loadable'
  BY TypeInvNext DEF LoadInv
<1>1. TypeInv /\ Loadable
  BY DEF LoadInv
<1>2. CASE Load \/ Save \/ Fail \/ Quit \/ Kill
  <2>1. /\ UNCHANGED files /\ value' = value /\ damages' = damages
        /\ pc' \in {"stopped", "ready", "open_tmp"}
    BY <1>2 DEF Load, Save, Fail, Quit, Kill, Stopped, value, faults
  <2> QED BY <1>1, <2>1, LoadableQuiet
<1>3. CASE UNCHANGED vars
  BY <1>1, <1>3 DEF Loadable, PrimarySettled, Settled, Intact, TemporaryReady, SavedNamed, Exists,
                    ReadFile, value, vars, history, faults
<1> QED BY <1>1, <1>2, <1>3, LoadableCalls, LoadableRename, LoadableComplete, LoadablePowerLoss,
           LoadableDamage DEF Next

(* Once a save has returned, the store always loads, however the process    *)
(* dies, the power fails or the calls fail, until a file is damaged at rest.*)
THEOREM LoadsUntilDamage == Spec => [](damages = 0 => AlwaysLoads)
<1>1. Init => LoadInv
  BY TypeInvInit, LoadableInit DEF LoadInv
<1>2. LoadInv => (damages = 0 => AlwaysLoads)
  BY LoadableLoads DEF LoadInv
<1> QED BY <1>1, <1>2, LoadInvNext, PTL DEF Spec
-----------------------------------------------------------------------------
(***************************************************************************)
(* The durable store implements the durable register when no file is       *)
(* damaged at rest, for any number of inodes, saves, kills, power losses   *)
(* and failing calls.                                                      *)
(***************************************************************************)
(* A state a load may give: one the register allows, or after one file was  *)
(* damaged a state as new as the one saved before the last.                 *)
Recent(c) == IF damages = 0 THEN c.id \in doubt \cup {value} ELSE c.id >= saved[1]

(* Every whole file that any crash may leave is one of these, or its        *)
(* primary is at least as new and takes precedence over it.                 *)
Outranked(d, c) ==
  /\ d[Primary] # NoFile /\ data[d[Primary]] # Torn
  /\ c.generation <= data[d[Primary]].generation
  /\ damages = 0 => c.id >= saved[1]
FilesRecent ==
  \A d \in dirs, p \in Paths : d[p] # NoFile =>
    \A c \in kept[d[p]] \ {Torn} : Recent(c) \/ (p # Primary /\ Outranked(d, c))
ReadIsKept == \A i \in Inodes : data[i] \in kept[i]
BackupHasPrimary == \A d \in dirs : d[Primary] = NoFile => d[Backup] = NoFile

(* The generation being written is not behind that of the primary.          *)
PrimaryUpTo(g) == Exists(Primary) /\ ReadFile(Primary) # Torn => ReadFile(Primary).generation <= g
Generations ==
  /\ pc = "ready" => PrimaryUpTo(generation + 1)
  /\ pc \in Steps => PrimaryUpTo(job.generation) /\ job.generation <= generation + 1

JobRecent ==
  /\ pc \in Steps => Recent(job)
  /\ rotate => pc \in Steps /\ job.id = saves /\ saves \in doubt

(* The backup is a copy of the primary that is about to be replaced.        *)
BackupReady ==
  /\ pc = "sync_bak" => ReadFile(Backup) = ReadFile(Primary)
  /\ pc = "rename" /\ rotate /\ Exists(Backup) =>
       Exists(Primary) /\ kept[names[Backup]] = {ReadFile(Primary)}
  /\ pc = "sync_dir" =>
       /\ Exists(Primary) /\ ReadFile(Primary) = job /\ ~Exists(Temporary)
       /\ rotate /\ Exists(Backup) =>
            \A c \in kept[names[Backup]] \ {Torn} :
              c.generation <= job.generation /\ (damages = 0 => c.id >= value)

(* Later saves have the higher numbers.                                     *)
Order == saved[1] <= saved[2] /\ \A x \in doubt : x >= saved[2]

RegisterInv ==
  /\ FilesRecent /\ ReadIsKept /\ BackupHasPrimary
  /\ Generations /\ JobRecent /\ BackupReady /\ Order

(* It holds at the start.                                                   *)
LEMMA RegisterInit == Init => RegisterInv
<1> SUFFICES ASSUME Init PROVE RegisterInv
  OBVIOUS
<1>1. TypeInv
  BY TypeInvInit
<1>2. /\ names \in Entries /\ dirs = {names}
      /\ data = [i \in Inodes |-> IF i = names[Primary] THEN LegacyFile ELSE Torn]
      /\ kept = [i \in Inodes |-> {data[i]}] /\ pc = "stopped" /\ rotate = FALSE
      /\ saved = <<0, 0>> /\ value = 0 /\ doubt = {} /\ damages = 0
      /\ names[Temporary] = NoFile /\ names[Backup] = NoFile
  BY <1>1, Constants DEF Init, TypeInv, FilesOK, FilesNow, FilesTyped, value
<1>3. FilesRecent
  BY <1>2, Constants DEF FilesRecent, Recent, LegacyFile, Entries
<1>4. ReadIsKept /\ BackupHasPrimary
  BY <1>2 DEF ReadIsKept, BackupHasPrimary
<1>5. Generations /\ JobRecent /\ BackupReady /\ Order
  BY <1>2 DEF Generations, JobRecent, BackupReady, Order, Steps
<1> QED BY <1>3, <1>4, <1>5 DEF RegisterInv

(* What the register allows is as new as the last state saved.              *)
LEMMA RecentIsNewer ==
  ASSUME TypeInv, Order, damages = 0, NEW c, Recent(c)
  PROVE  c.id >= saved[1] /\ c.id >= value
<1>1. saved[1] \in Nat /\ saved[2] \in Nat /\ doubt \subseteq Nat
  BY DEF TypeInv, ControlOK
<1>2. \/ c.id \in doubt
      \/ c.id = saved[2]
  BY DEF Recent, value
<1>3. saved[1] <= saved[2] /\ \A x \in doubt : x >= saved[2]
  BY DEF Order
<1> DEFINE a == saved[1]
           b == saved[2]
           x == c.id
<1>4. a \in Nat /\ b \in Nat /\ a <= b /\ (x = b \/ (x \in Nat /\ x >= b))
  BY <1>1, <1>2, <1>3
<1> HIDE DEF a, b, x
<1>5. x >= a /\ x >= b
  BY <1>4
<1> QED BY <1>5 DEF a, b, x, value

(* The order in which load() takes files of equal generation.               *)
LEMMA Priorities ==
  Priority[Primary] = 3 /\ Priority[Temporary] = 2 /\ Priority[Backup] = 1
BY Constants, Zenon DEF Priority

(* Hence load() chooses a state the register may give, and no older one     *)
(* than the primary.                                                        *)
LEMMA ChosenIsRecent ==
  ASSUME TypeInv, Loadable, FilesRecent, ReadIsKept, Valid # {}
  PROVE  Recent(ReadFile(Chosen)) /\ PrimaryUpTo(ReadFile(Chosen).generation)
<1> DEFINE c == ReadFile(Chosen)
<1>1. Chosen \in Valid /\ c \in Whole /\ \A q \in Valid : Ranks(Chosen, q)
  BY ChosenIsValid DEF TypeInv
<1>2. names \in dirs /\ names \in Entries
  BY DEF TypeInv, FilesOK, FilesNow, FilesTyped
<1>3. /\ Chosen \in Paths /\ names[Chosen] # NoFile /\ c # Torn
      /\ c \in kept[names[Chosen]]
  BY <1>1, <1>2 DEF Valid, Candidates, Exists, ReadFile, ReadIsKept, Entries
<1>4. Exists(Primary) /\ ReadFile(Primary) # Torn =>
        /\ Primary \in Valid /\ ReadFile(Primary) \in Snapshot
        /\ Ranks(Chosen, Primary)
  BY <1>1, <1>2, Constants DEF Loadable, PrimarySettled, Intact, Valid, Candidates, Exists, ReadFile
<1>5. ASSUME Chosen # Primary, Exists(Primary), ReadFile(Primary) # Torn
      PROVE  c.generation > ReadFile(Primary).generation
  <2>1. ~(Priority[Chosen] >= Priority[Primary])
    BY <1>3, <1>5, Priorities, Constants
  <2> QED BY <1>4, <1>5, <2>1 DEF Ranks
<1>6. Recent(c)
  <2>1. Recent(c) \/ (Chosen # Primary /\ Outranked(names, c))
    BY <1>2, <1>3 DEF FilesRecent
  <2>2. ASSUME Chosen # Primary, Outranked(names, c) PROVE FALSE
    <3>1. /\ Exists(Primary) /\ ReadFile(Primary) # Torn
          /\ c.generation <= ReadFile(Primary).generation
      BY <2>2 DEF Outranked, Exists, ReadFile
    <3> QED BY <1>1, <1>4, <1>5, <2>2, <3>1 DEF Whole, Snapshot
  <2> QED BY <2>1, <2>2
<1>7. PrimaryUpTo(c.generation)
  BY <1>1, <1>4 DEF PrimaryUpTo, Ranks, Whole, Snapshot
<1> QED BY <1>6, <1>7

(* What the file operations do to FilesRecent: directories are made of those *)
(* that were possible, contents of those that were kept or of recent ones.  *)
LEMMA RecentCarried ==
  ASSUME FilesRecent, doubt \subseteq doubt', saved' = saved, damages' = damages,
         \A d \in dirs', p \in Paths : d[p] # NoFile =>
            \/ kept'[d[p]] \subseteq {Torn}
            \/ \E e \in dirs : e[p] = d[p] /\ e[Primary] = d[Primary],
         \A d \in dirs, p \in Paths : d[p] # NoFile =>
            \A c \in kept'[d[p]] \ {Torn} : c \in kept[d[p]] \/ Recent(c),
         \A d \in dirs : d[Primary] # NoFile => data'[d[Primary]] = data[d[Primary]]
  PROVE  FilesRecent'
<1> SUFFICES ASSUME NEW d \in dirs', NEW p \in Paths, d[p] # NoFile,
                    NEW c \in kept'[d[p]] \ {Torn}
             PROVE  Recent(c)' \/ (p # Primary /\ Outranked(d, c)')
  BY DEF FilesRecent, Outranked
<1>1. PICK e \in dirs : e[p] = d[p] /\ e[Primary] = d[Primary]
  OBVIOUS
<1>2. Recent(c) \/ (p # Primary /\ Outranked(e, c))
  BY <1>1 DEF FilesRecent
<1>3. Recent(c) => Recent(c)'
  BY DEF Recent, value
<1>4. Outranked(e, c) => Outranked(d, c)'
  BY <1>1 DEF Outranked
<1> QED BY <1>2, <1>3, <1>4

(* Opening, writing and syncing the temporary file or the backup keep the   *)
(* part about the files,                                                    *)
LEMMA OpenRecent ==
  ASSUME NEW p \in {Temporary, Backup}, TypeInv, Loadable, FilesRecent, ReadIsKept, BackupHasPrimary,
         Open(p), p = Backup => Exists(Primary), UNCHANGED <<doubt, saved, damages>>
  PROVE  /\ FilesRecent' /\ ReadIsKept' /\ BackupHasPrimary'
         /\ names'[Primary] = names[Primary]
         /\ Exists(Primary) => data'[names[Primary]] = data[names[Primary]]
<1>1. PICK i \in Inodes :
        /\ names' = [names EXCEPT ![p] = i]
        /\ dirs' = dirs \cup {names'}
        /\ data' = [data EXCEPT ![i] = Torn]
        /\ kept'[i] = IF i = names[p] THEN kept[i] \cup {Torn} ELSE {Torn}
        /\ \A j \in Inodes : j # i => kept'[j] = kept[j]
        /\ i = names[p] \/ \A d \in dirs, q \in Paths : d[q] # i
  BY OpenFile, Constants DEF TypeInv, FilesOK
<1>2. /\ names \in dirs /\ dirs \subseteq Entries /\ names \in Entries /\ p \in Paths
      /\ DOMAIN data = Inodes
  BY Constants DEF TypeInv, FilesOK, FilesNow, FilesTyped
<1>3. \A q \in Paths : names'[q] = IF q = p THEN i ELSE names[q]
  BY <1>1, <1>2 DEF Entries
<1>4. \A j \in Inodes : data'[j] = IF j = i THEN Torn ELSE data[j]
  BY <1>1, <1>2
<1>5. \A d \in dirs : d[Primary] # NoFile => d[Primary] \in Inodes /\ d[Primary] # i
  BY <1>1, <1>2, Constants DEF Loadable, PrimarySettled, Entries
<1>6. \A d \in dirs : d[Primary] # NoFile => data'[d[Primary]] = data[d[Primary]]
  BY <1>4, <1>5
<1>7. \A d \in dirs', q \in Paths : d[q] # NoFile =>
            \/ kept'[d[q]] \subseteq {Torn}
            \/ \E e \in dirs : e[q] = d[q] /\ e[Primary] = d[Primary]
  <2> SUFFICES ASSUME NEW q \in Paths
               PROVE  \/ kept'[names'[q]] \subseteq {Torn}
                      \/ names[q] = names'[q] /\ names[Primary] = names'[Primary]
    BY <1>1, <1>2
  <2> QED BY <1>1, <1>3, Constants
<1>8. \A d \in dirs, q \in Paths : d[q] # NoFile =>
            \A c \in kept'[d[q]] \ {Torn} : c \in kept[d[q]] \/ Recent(c)
  <2> SUFFICES ASSUME NEW d \in dirs, NEW q \in Paths, d[q] # NoFile
               PROVE  kept'[d[q]] \subseteq kept[d[q]] \cup {Torn}
    OBVIOUS
  <2>1. d[q] \in Inodes
    BY <1>2 DEF Entries
  <2> QED BY <1>1, <2>1
<1>9. FilesRecent'
  BY <1>6, <1>7, <1>8, RecentCarried DEF value
<1>10. ReadIsKept'
  BY <1>1, <1>4 DEF ReadIsKept
<1>11. BackupHasPrimary'
  BY <1>1, <1>2, <1>3, Constants DEF BackupHasPrimary, Exists
<1> QED BY <1>2, <1>3, <1>6, <1>9, <1>10, <1>11, Constants DEF Exists

(* if what is written is recent.                                            *)
LEMMA WriteRecent ==
  ASSUME NEW p \in {Temporary, Backup}, TypeInv, Loadable, FilesRecent, ReadIsKept, BackupHasPrimary,
         Exists(p), UNCHANGED <<doubt, saved, damages>>, names' = names, dirs' \subseteq dirs,
         \A j \in Inodes : j # names[p] => kept'[j] = kept[j] /\ data'[j] = data[j],
         \A c \in kept'[names[p]] : c \in kept[names[p]] \/ Recent(c) \/ c = Torn,
         data'[names[p]] \in kept'[names[p]]
  PROVE  /\ FilesRecent' /\ ReadIsKept' /\ BackupHasPrimary'
         /\ names'[Primary] = names[Primary]
         /\ Exists(Primary) => data'[names[Primary]] = data[names[Primary]]
<1>1. names \in dirs /\ dirs \subseteq Entries /\ names \in Entries /\ p \in Paths
  BY Constants DEF TypeInv, FilesOK, FilesNow, FilesTyped
<1>2. \A d \in dirs : d[Primary] # NoFile => d[Primary] \in Inodes /\ d[Primary] # names[p]
  BY <1>1, Constants DEF Loadable, PrimarySettled, Entries
<1>3. \A d \in dirs : d[Primary] # NoFile => data'[d[Primary]] = data[d[Primary]]
  BY <1>2
<1>4. \A d \in dirs, q \in Paths : d[q] # NoFile =>
            \A c \in kept'[d[q]] \ {Torn} : c \in kept[d[q]] \/ Recent(c)
  BY <1>1 DEF Entries
<1>5. FilesRecent'
  BY <1>3, <1>4, RecentCarried DEF value
<1>6. ReadIsKept' /\ BackupHasPrimary'
  BY DEF ReadIsKept, BackupHasPrimary
<1> QED BY <1>1, <1>3, <1>5, <1>6 DEF Exists

(* The control part of a call that leaves the primary alone.                *)
LEMMA AdvanceRegister ==
  ASSUME NEW from \in Steps, NEW to \in Steps, Advance(from, to), Generations, JobRecent,
         Order, names'[Primary] = names[Primary],
         Exists(Primary) => data'[names[Primary]] = data[names[Primary]]
  PROVE  Generations' /\ JobRecent' /\ Order'
<1>1. /\ UNCHANGED <<generation, job, rotate, saves, saved, doubt, damages>>
      /\ pc \in Steps /\ pc' \in Steps /\ pc # "ready" /\ pc' # "ready"
  BY DEF Advance, history, faults, Steps
<1>2. Generations'
  BY <1>1 DEF Generations, PrimaryUpTo, Exists, ReadFile
<1>3. JobRecent'
  BY <1>1 DEF JobRecent, Recent, value
<1> QED BY <1>1, <1>2, <1>3 DEF Order

(* Steps that touch no file keep it as well.                                *)
LEMMA RegisterQuiet ==
  ASSUME RegisterInv, UNCHANGED files, doubt \subseteq doubt', saved' = saved, damages' = damages
  PROVE  FilesRecent' /\ ReadIsKept' /\ BackupHasPrimary'
BY RecentCarried DEF RegisterInv, ReadIsKept, BackupHasPrimary, files

(* load() keeps the invariant: what it heals is recent and not behind the   *)
(* primary.                                                                 *)
LEMMA RegisterLoad == ASSUME TypeInv, Loadable, RegisterInv, Load PROVE RegisterInv'
<1> USE DEF RegisterInv
<1>1. UNCHANGED files /\ UNCHANGED <<saves, saved, doubt, damages>> /\ pc = "stopped"
  BY DEF Load, faults
<1>2. FilesRecent' /\ ReadIsKept' /\ BackupHasPrimary' /\ Order'
  BY <1>1, RegisterQuiet DEF Order
<1>3. ~rotate
  BY <1>1 DEF JobRecent, Steps
<1>4. \A g : PrimaryUpTo(g)' <=> PrimaryUpTo(g)
  BY <1>1 DEF PrimaryUpTo, Exists, ReadFile, files
<1>5. CASE Valid = {}
  <2>1. ~(Exists(Primary) /\ ReadFile(Primary) # Torn)
    BY <1>5, Constants DEF Loadable, PrimarySettled, Intact, TypeInv, FilesOK, FilesNow, FilesTyped,
                           Valid, Candidates, Exists, ReadFile
  <2>2. pc' = "ready" /\ UNCHANGED rotate
    BY <1>5 DEF Load
  <2>3. Generations' /\ JobRecent' /\ BackupReady'
    BY <1>3, <1>4, <2>1, <2>2 DEF Generations, JobRecent, BackupReady, Steps, PrimaryUpTo
  <2> QED BY <1>2, <2>3
<1>6. CASE Valid # {} /\ ~NeedsHeal
  <2>1. pc' = "ready" /\ UNCHANGED rotate /\ generation' = ReadFile(Chosen).generation
        /\ ReadFile(Chosen) \in Whole /\ Chosen = Primary
    BY <1>6, ChosenIsValid DEF Load, Valid, NeedsHeal, TypeInv
  <2>2. PrimaryUpTo(generation' + 1)
    BY <2>1 DEF PrimaryUpTo, Whole
  <2>3. Generations' /\ JobRecent' /\ BackupReady'
    BY <1>3, <1>4, <2>1, <2>2 DEF Generations, JobRecent, BackupReady, Steps
  <2> QED BY <1>2, <2>3
<1>7. CASE Valid # {} /\ NeedsHeal
  <2> DEFINE c == ReadFile(Chosen)
             g == HealGeneration(c.generation)
  <2>1. pc' = "open_tmp" /\ rotate' = FALSE /\ generation' = c.generation
        /\ job' = [generation |-> g, id |-> c.id]
    BY <1>7 DEF Load, Valid
  <2>2. c \in Whole /\ Recent(c) /\ PrimaryUpTo(c.generation)
    BY <1>7, ChosenIsValid, ChosenIsRecent DEF TypeInv
  <2>3. g >= c.generation /\ g <= c.generation + 1 /\ g \in Nat /\ c.generation \in Nat
    BY <2>2 DEF HealGeneration, Whole
  <2>4. PrimaryUpTo(g)
    <3>1. ASSUME Exists(Primary), ReadFile(Primary) # Torn
          PROVE  ReadFile(Primary).generation \in Nat
      BY <3>1, Constants DEF Loadable, PrimarySettled, Intact, TypeInv, FilesOK, FilesNow, FilesTyped,
                             Exists, ReadFile, Snapshot
    <3> QED BY <2>2, <2>3, <3>1 DEF PrimaryUpTo
  <2> HIDE DEF g, c
  <2>5. job'.generation = g /\ job'.id = c.id
    BY <2>1
  <2>6. Generations'
    BY <1>4, <2>1, <2>3, <2>4, <2>5 DEF Generations
  <2>7. JobRecent'
    BY <1>1, <2>1, <2>2, <2>5 DEF JobRecent, Recent, value
  <2>8. BackupReady'
    BY <2>1 DEF BackupReady
  <2> QED BY <1>2, <2>6, <2>7, <2>8
<1> QED BY <1>5, <1>6, <1>7

(* So does the beginning of a save,                                         *)
LEMMA RegisterSave == ASSUME TypeInv, Loadable, RegisterInv, Save PROVE RegisterInv'
<1> USE DEF RegisterInv
<1>1. /\ UNCHANGED files /\ UNCHANGED <<generation, saved, damages>>
      /\ pc = "ready" /\ pc' = "open_tmp" /\ rotate' = TRUE
      /\ saves' = saves + 1 /\ doubt' = doubt \cup {saves'}
      /\ job' = [generation |-> generation + 1, id |-> saves']
  BY DEF Save, faults
<1>2. FilesRecent' /\ ReadIsKept' /\ BackupHasPrimary'
  BY <1>1, RegisterQuiet
<1>3. PrimaryUpTo(generation + 1)' /\ generation \in Nat
  BY <1>1 DEF Generations, PrimaryUpTo, Exists, ReadFile, files, TypeInv, ControlOK
<1>4. Generations'
  BY <1>1, <1>3 DEF Generations
<1>5. Order' /\ saves + 1 >= saved[1]
  <2>1. saves \in Nat /\ saved[1] \in 0..saves /\ saved[2] \in 0..saves
    BY DEF TypeInv, ControlOK
  <2> QED BY <1>1, <2>1 DEF Order
<1>6. JobRecent' /\ BackupReady'
  BY <1>1, <1>5 DEF JobRecent, Recent, BackupReady, Steps
<1> QED BY <1>2, <1>4, <1>5, <1>6

(* The calls up to the rename, one by one.                                  *)
LEMMA RegisterCalls ==
  ASSUME TypeInv, Loadable, RegisterInv,
         \/ OpenTemporary \/ WriteTemporary \/ SyncTemporary
         \/ OpenBackup \/ WriteBackup \/ SyncBackup
  PROVE  RegisterInv'
<1> USE DEF RegisterInv
<1> DEFINE C == Whole \cup {Torn}
           Kept == /\ FilesRecent' /\ ReadIsKept' /\ BackupHasPrimary'
                   /\ names'[Primary] = names[Primary]
                   /\ Exists(Primary) => data'[names[Primary]] = data[names[Primary]]
<1>1. /\ FilesNow(C) /\ job \in C /\ Temporary \in Paths /\ Backup \in Paths /\ Primary \in Paths
      /\ names \in Entries /\ names \in dirs /\ Temporary # Backup /\ Primary # Backup
      /\ \A p, q \in Paths : p # q /\ names[p] = names[q] => names[p] = NoFile
  BY Constants DEF TypeInv, FilesOK, FilesNow, FilesTyped, ControlOK
<1> HIDE DEF C
<1>2. /\ UNCHANGED <<doubt, saved, job, rotate, damages>>
      /\ pc \in Writing => Exists(Temporary)
      /\ pc \in Copying => Exists(Backup) /\ Exists(Primary)
  BY DEF OpenTemporary, WriteTemporary, SyncTemporary, OpenBackup, WriteBackup, SyncBackup,
         Advance, history, faults, TypeInv, NamesOK
<1>3. \A p \in Paths : Exists(p) => names[p] \in Inodes
  BY <1>1 DEF Exists, Entries
<1>4. CASE OpenTemporary
  <2>1. Kept
    BY <1>1, <1>2, <1>4, OpenRecent DEF OpenTemporary
  <2>2. Generations' /\ JobRecent' /\ Order'
    BY <1>4, <2>1, AdvanceRegister DEF OpenTemporary, Steps
  <2>3. BackupReady'
    BY <1>4 DEF OpenTemporary, Advance, BackupReady
  <2> QED BY <2>1, <2>2, <2>3
<1>5. CASE WriteTemporary
  <2>1. Exists(Temporary) /\ Recent(job)
    BY <1>2, <1>5 DEF WriteTemporary, Advance, Writing, JobRecent, Steps
  <2>2. /\ names' = names /\ dirs' = dirs
        /\ data'[names[Temporary]] = job
        /\ kept'[names[Temporary]] = kept[names[Temporary]] \cup {job}
        /\ \A j \in Inodes : j # names[Temporary] => kept'[j] = kept[j] /\ data'[j] = data[j]
    BY <1>1, <1>5, <2>1, WriteFile DEF WriteTemporary
  <2>3. Kept
    BY <1>2, <2>1, <2>2, WriteRecent
  <2>4. Generations' /\ JobRecent' /\ Order'
    BY <1>5, <2>3, AdvanceRegister DEF WriteTemporary, Steps
  <2>5. BackupReady'
    BY <1>5 DEF WriteTemporary, Advance, BackupReady
  <2> QED BY <2>3, <2>4, <2>5
<1>6. CASE SyncTemporary
  <2>1. Exists(Temporary) /\ data[names[Temporary]] \in kept[names[Temporary]]
    BY <1>2, <1>3, <1>6, Constants DEF SyncTemporary, Advance, Writing, ReadIsKept
  <2>2. /\ names' = names /\ dirs' \subseteq dirs /\ data' = data
        /\ kept'[names[Temporary]] = {data[names[Temporary]]}
        /\ \A j \in Inodes : j # names[Temporary] => kept'[j] = kept[j]
    BY <1>1, <1>6, <2>1, SyncFileContent DEF SyncTemporary
  <2>3. Kept
    BY <1>2, <2>1, <2>2, WriteRecent
  <2>4. AfterSync \in {"open_bak", "rename"} /\ (AfterSync = "rename" => ~rotate)
    BY DEF AfterSync
  <2>5. Generations' /\ JobRecent' /\ Order'
    BY <1>6, <2>3, <2>4, AdvanceRegister DEF SyncTemporary, Steps
  <2>6. BackupReady'
    BY <1>2, <1>6, <2>4 DEF SyncTemporary, Advance, BackupReady
  <2> QED BY <2>3, <2>5, <2>6
<1>7. CASE Advance("open_bak", "write_bak") /\ Exists(Primary) /\ Open(Backup)
  <2>1. Kept
    BY <1>1, <1>2, <1>7, OpenRecent
  <2>2. Generations' /\ JobRecent' /\ Order'
    BY <1>7, <2>1, AdvanceRegister DEF Steps
  <2>3. BackupReady'
    BY <1>7 DEF Advance, BackupReady
  <2> QED BY <2>1, <2>2, <2>3
<1>8. CASE Advance("open_bak", "rename") /\ ~Exists(Primary) /\ UNCHANGED files
  <2>1. Kept
    BY <1>2, <1>8, RegisterQuiet DEF files, value
  <2>2. Generations' /\ JobRecent' /\ Order'
    BY <1>8, <2>1, AdvanceRegister DEF Steps
  <2>3. ~Exists(Backup)'
    BY <1>1, <1>8 DEF BackupHasPrimary, Exists, files
  <2>4. BackupReady'
    BY <1>8, <2>3 DEF Advance, BackupReady
  <2> QED BY <2>1, <2>2, <2>4
<1>9. CASE WriteBackup
  <2> DEFINE c == ReadFile(Primary)
  <2>1. Exists(Temporary) /\ Exists(Backup) /\ Exists(Primary)
    BY <1>2, <1>9 DEF WriteBackup, Advance, Writing, Copying
  <2>2. c \in C /\ (c = Torn \/ Recent(c))
    BY <1>1, <1>3, <2>1 DEF FilesNow, FilesTyped, ReadFile, Exists, ReadIsKept, FilesRecent
  <2>3. /\ names' = names /\ dirs' = dirs /\ data'[names[Backup]] = c
        /\ kept'[names[Backup]] = kept[names[Backup]] \cup {c}
        /\ \A j \in Inodes : j # names[Backup] => kept'[j] = kept[j] /\ data'[j] = data[j]
    BY <1>1, <1>9, <2>1, <2>2, WriteFile DEF WriteBackup
  <2>4. Kept
    BY <1>2, <2>1, <2>2, <2>3, WriteRecent
  <2>5. Generations' /\ JobRecent' /\ Order'
    BY <1>9, <2>4, AdvanceRegister DEF WriteBackup, Steps
  <2>6. ReadFile(Backup)' = ReadFile(Primary)'
    BY <2>1, <2>3, <2>4 DEF ReadFile
  <2>7. BackupReady'
    BY <1>9, <2>6 DEF WriteBackup, Advance, BackupReady
  <2> QED BY <2>4, <2>5, <2>7
<1>10. CASE SyncBackup
  <2>1. /\ Exists(Temporary) /\ Exists(Backup) /\ Exists(Primary)
        /\ data[names[Backup]] = data[names[Primary]]
        /\ data[names[Backup]] \in kept[names[Backup]]
    BY <1>1, <1>2, <1>3, <1>10 DEF SyncBackup, Advance, Writing, Copying, BackupReady, ReadFile,
       ReadIsKept
  <2>2. /\ names' = names /\ dirs' \subseteq dirs /\ data' = data
        /\ kept'[names[Backup]] = {data[names[Backup]]}
        /\ \A j \in Inodes : j # names[Backup] => kept'[j] = kept[j]
    BY <1>1, <1>10, <2>1, SyncFileContent DEF SyncBackup
  <2>3. Kept
    BY <1>2, <2>1, <2>2, WriteRecent
  <2>4. Generations' /\ JobRecent' /\ Order'
    BY <1>10, <2>3, AdvanceRegister DEF SyncBackup, Steps
  <2>5. BackupReady'
    BY <1>10, <2>1, <2>2 DEF SyncBackup, Advance, BackupReady, Exists, ReadFile
  <2> QED BY <2>3, <2>4, <2>5
<1> QED BY <1>4, <1>5, <1>6, <1>7, <1>8, <1>9, <1>10 DEF OpenBackup

(* the rename: the backup is the primary that the new file replaces,        *)
LEMMA RegisterRename ==
  ASSUME TypeInv, Loadable, RegisterInv, RenameTemporary
  PROVE  RegisterInv'
<1> USE DEF RegisterInv
<1>1. /\ pc = "rename" /\ pc' = "sync_dir" /\ job \in Whole
      /\ UNCHANGED <<generation, job, rotate, saves, saved, doubt, damages>>
      /\ Exists(Temporary) /\ Settled(names[Temporary], job)
  BY DEF RenameTemporary, Advance, history, faults, TypeInv, NamesOK, Writing, ControlOK, Loadable,
         TemporaryReady
<1>2. /\ dirs' = dirs \cup {names'} /\ data' = data /\ kept' = kept
      /\ names'[Primary] = names[Temporary] /\ names'[Temporary] = NoFile
      /\ names'[Backup] = names[Backup]
  BY <1>1, RenameFile, Constants DEF RenameTemporary, TypeInv, FilesOK
<1>3. /\ names[Temporary] # NoFile /\ names \in dirs /\ names \in Entries
      /\ kept \in [Inodes -> SUBSET (Whole \cup {Torn})]
  BY <1>1 DEF TypeInv, FilesOK, FilesNow, FilesTyped, Exists
<1>4. Recent(job) /\ PrimaryUpTo(job.generation) /\ job.generation <= generation + 1
  BY <1>1 DEF JobRecent, Generations, Steps
<1>5. /\ Exists(Primary) /\ ReadFile(Primary) # Torn => ReadFile(Primary).generation \in Nat
      /\ job # Torn /\ Order'
  BY <1>1, <1>3, Constants DEF Loadable, PrimarySettled, Intact, Exists, ReadFile, Snapshot, Whole,
                               Order
<1>6. FilesRecent'
  <2> SUFFICES ASSUME NEW d \in dirs', NEW p \in Paths, d[p] # NoFile,
                      NEW c \in kept[d[p]] \ {Torn}
               PROVE  \/ Recent(c)
                      \/ /\ p # Primary /\ d[Primary] # NoFile /\ data[d[Primary]] # Torn
                         /\ c.generation <= data[d[Primary]].generation
                         /\ damages = 0 => c.id >= saved[1]
    BY <1>1, <1>2 DEF FilesRecent, Recent, Outranked, value
  <2>1. CASE d \in dirs
    BY <2>1 DEF FilesRecent, Outranked
  <2>2. CASE d = names' /\ p = Primary
    BY <1>1, <1>2, <1>4, <2>2 DEF Settled
  <2>3. CASE d = names' /\ p = Backup
    <3>1. Recent(c) \/ Outranked(names, c)
      BY <1>2, <1>3, <2>3 DEF FilesRecent
    <3>2. c \in Whole
      BY <1>2, <1>3, <2>3 DEF Entries
    <3>3. Outranked(names, c) =>
            c.generation <= job.generation /\ (damages = 0 => c.id >= saved[1])
      BY <1>1, <1>4, <1>5, <3>2 DEF Outranked, PrimaryUpTo, Exists, ReadFile, Whole
    <3> QED BY <1>1, <1>2, <1>3, <1>5, <2>3, <3>1, <3>3, Constants DEF Settled
  <2> QED BY <1>2, <2>1, <2>2, <2>3, Constants
<1>7. ReadIsKept' /\ BackupHasPrimary'
  BY <1>2, <1>3 DEF ReadIsKept, BackupHasPrimary
<1>8. ReadFile(Primary)' = job /\ Exists(Primary)' /\ ~Exists(Temporary)'
  BY <1>1, <1>2, <1>3 DEF ReadFile, Exists, Settled
<1>9. Generations' /\ JobRecent'
  BY <1>1, <1>4, <1>8 DEF Generations, PrimaryUpTo, JobRecent, Recent, value, Steps, Whole
<1>10. ASSUME rotate, Exists(Backup)', NEW c \in kept'[names'[Backup]] \ {Torn}
       PROVE  c.generation <= job.generation /\ (damages = 0 => c.id >= value)
  <2>1. /\ Exists(Primary) /\ c = ReadFile(Primary) /\ c # Torn
        /\ c \in kept[names[Primary]] /\ Primary \in Paths
    BY <1>1, <1>2, <1>3, <1>10, Constants DEF BackupReady, Exists, ReadIsKept, ReadFile, Entries
  <2>2. Recent(c)
    BY <1>3, <2>1 DEF FilesRecent, Exists
  <2> QED BY <1>4, <2>1, <2>2, RecentIsNewer DEF PrimaryUpTo
<1>11. BackupReady'
  BY <1>1, <1>8, <1>10 DEF BackupReady, value
<1> QED BY <1>5, <1>6, <1>7, <1>9, <1>11

(* the return: what is not recent any more is outranked by the new primary, *)
LEMMA RegisterComplete == ASSUME TypeInv, Loadable, RegisterInv, Complete PROVE RegisterInv'
<1> USE DEF RegisterInv
<1>1. /\ names' = names /\ data' = data /\ kept' = kept /\ dirs' = {names} /\ names \in dirs
      /\ pc = "sync_dir" /\ pc' = "ready" /\ generation' = job.generation /\ rotate' = FALSE
      /\ job \in Whole /\ job # Torn /\ damages' = damages
  BY Constants DEF Complete, Publish, SyncDirectory, faults, TypeInv, FilesOK, FilesNow, FilesTyped,
                   ControlOK, Whole, Snapshot
<1>2. /\ names[Primary] # NoFile /\ data[names[Primary]] = job /\ names[Temporary] = NoFile
      /\ rotate /\ names[Backup] # NoFile =>
            \A c \in kept[names[Backup]] \ {Torn} :
              c.generation <= job.generation /\ (damages = 0 => c.id >= value)
  BY <1>1 DEF BackupReady, Exists, ReadFile
<1>3. FilesRecent' /\ Order'
  <2>1. CASE rotate
    <3>1. /\ saved' = <<value, job.id>> /\ doubt' = {} /\ job.id >= value
          /\ saved'[1] = value /\ saved'[2] = job.id
      BY <2>1 DEF Complete, value, JobRecent, Order
    <3>2. kept[names[Primary]] = {job}
      BY <1>1, <1>2 DEF Loadable, PrimarySettled, Settled
    <3> SUFFICES ASSUME NEW p \in Paths, names[p] # NoFile, NEW c \in kept[names[p]] \ {Torn}
                 PROVE  \/ c.id = job.id
                        \/ /\ p # Primary /\ c.generation <= job.generation
                           /\ damages = 0 => c.id >= value
      BY <1>1, <1>2, <3>1 DEF FilesRecent, Recent, Outranked, Order, value
    <3> QED BY <1>2, <2>1, <3>2, Constants
  <2>2. CASE ~rotate
    <3>1. UNCHANGED <<saved, doubt>>
      BY <2>2 DEF Complete
    <3> QED BY <1>1, <3>1, RecentCarried DEF Order
  <2> QED BY <2>1, <2>2
<1>4. ReadIsKept' /\ BackupHasPrimary'
  BY <1>1 DEF ReadIsKept, BackupHasPrimary
<1>5. Generations'
  BY <1>1, <1>2 DEF Generations, PrimaryUpTo, Exists, ReadFile, Whole, Steps
<1>6. JobRecent' /\ BackupReady'
  BY <1>1 DEF JobRecent, BackupReady, Steps
<1> QED BY <1>3, <1>4, <1>5, <1>6

(* a call that throws,                                                      *)
LEMMA RegisterFail == ASSUME TypeInv, Loadable, RegisterInv, Fail PROVE RegisterInv'
<1> USE DEF RegisterInv
<1>1. /\ UNCHANGED files /\ UNCHANGED <<generation, saved, doubt, damages>>
      /\ pc \in Steps /\ pc' = "ready" /\ rotate' = FALSE
  BY DEF Fail
<1>2. FilesRecent' /\ ReadIsKept' /\ BackupHasPrimary' /\ Order'
  BY <1>1, RegisterQuiet DEF Order
<1>3. Exists(Primary) /\ ReadFile(Primary) # Torn => ReadFile(Primary).generation \in Nat
  BY Constants DEF Loadable, PrimarySettled, Intact, TypeInv, FilesOK, FilesNow, FilesTyped,
                   Exists, ReadFile, Snapshot
<1>4. PrimaryUpTo(generation + 1)
  BY <1>1, <1>3 DEF Generations, PrimaryUpTo, TypeInv, ControlOK, Whole
<1>5. Generations' /\ JobRecent' /\ BackupReady'
  BY <1>1, <1>4 DEF Generations, PrimaryUpTo, Exists, ReadFile, files, JobRecent, BackupReady, Steps
<1> QED BY <1>2, <1>5

(* and the ends of the process.                                             *)
LEMMA RegisterStops ==
  ASSUME TypeInv, Loadable, RegisterInv, Quit \/ Kill \/ PowerLoss
  PROVE  RegisterInv'
<1> USE DEF RegisterInv
<1>1. pc' = "stopped" /\ rotate' = FALSE /\ UNCHANGED <<saved, doubt, damages>>
  BY DEF Quit, Kill, PowerLoss, Stopped
<1>2. Generations' /\ JobRecent' /\ BackupReady' /\ Order'
  BY <1>1 DEF Generations, JobRecent, BackupReady, Order, Steps
<1>3. CASE Quit \/ Kill
  <2>1. UNCHANGED files
    BY <1>3 DEF Quit, Kill
  <2> QED BY <1>1, <1>2, <2>1, RegisterQuiet
<1>4. CASE PowerLoss
  <2>1. /\ names' \in dirs /\ dirs' = {names'}
        /\ \A i \in Inodes : kept'[i] = {data'[i]}
        /\ \A i \in Inodes : data'[i] = data[i] \/ data'[i] \in kept[i]
        /\ \A i \in Inodes : kept[i] = {data[i]} => data'[i] = data[i]
    BY <1>4, AfterPowerLoss DEF PowerLoss, TypeInv, FilesOK
  <2>2. dirs \subseteq Entries
    BY DEF TypeInv, FilesOK, FilesNow, FilesTyped
  <2>3. \A d \in dirs : d[Primary] # NoFile => data'[d[Primary]] = data[d[Primary]]
    BY <2>1, <2>2, Constants DEF Loadable, PrimarySettled, Settled, Entries
  <2>4. \A d \in dirs, p \in Paths : d[p] # NoFile =>
            \A c \in kept'[d[p]] \ {Torn} : c \in kept[d[p]]
    BY <2>1, <2>2 DEF ReadIsKept, Entries
  <2>5. FilesRecent'
    BY <1>1, <2>1, <2>3, <2>4, RecentCarried
  <2>6. ReadIsKept' /\ BackupHasPrimary'
    BY <2>1 DEF ReadIsKept, BackupHasPrimary
  <2> QED BY <1>2, <2>5, <2>6
<1> QED BY <1>3, <1>4

(* One file damaged at rest costs a load what is outranked, at most.        *)
LEMMA RegisterDamage ==
  ASSUME TypeInv, RegisterInv, MaxDamages <= 1, NEW p \in Paths, DamageAtRest(p)
  PROVE  RegisterInv'
<1> USE DEF RegisterInv
<1>1. /\ names' = names /\ dirs' = dirs /\ pc = "stopped" /\ damages = 0 /\ damages' # 0
      /\ UNCHANGED <<pc, rotate, saved, doubt>>
      /\ data' = [data EXCEPT ![names[p]] = Torn] /\ kept' = [kept EXCEPT ![names[p]] = {Torn}]
      /\ DOMAIN data = Inodes /\ DOMAIN kept = Inodes /\ dirs \subseteq Entries
  BY Constants DEF DamageAtRest, Damage, history, TypeInv, CountsOK, FilesOK, FilesNow, FilesTyped
<1>2. \A i \in Inodes :
        /\ i = names[p] => data'[i] = Torn /\ kept'[i] = {Torn}
        /\ i # names[p] => data'[i] = data[i] /\ kept'[i] = kept[i]
  BY <1>1
<1>3. FilesRecent'
  <2> SUFFICES ASSUME NEW d \in dirs, NEW q \in Paths, d[q] # NoFile,
                      NEW c \in kept'[d[q]] \ {Torn}
               PROVE  c.id >= saved[1]
    BY <1>1 DEF FilesRecent, Recent
  <2>1. c \in kept[d[q]]
    BY <1>1, <1>2 DEF Entries
  <2>2. Recent(c) \/ Outranked(d, c)
    BY <2>1 DEF FilesRecent
  <2> QED BY <1>1, <2>2, RecentIsNewer DEF Outranked
<1>4. ReadIsKept' /\ BackupHasPrimary'
  BY <1>1, <1>2 DEF ReadIsKept, BackupHasPrimary
<1>5. Generations' /\ JobRecent' /\ BackupReady' /\ Order'
  BY <1>1 DEF Generations, JobRecent, BackupReady, Order, Steps
<1> QED BY <1>3, <1>4, <1>5

FullInv == TypeInv /\ Loadable /\ RegisterInv

(* So every step keeps all of it, when no more than one file is damaged.    *)
LEMMA FullInvNext == MaxDamages <= 1 /\ FullInv /\ [Next]_vars => FullInv'
<1> SUFFICES ASSUME MaxDamages <= 1, FullInv, [Next]_vars PROVE FullInv'
  OBVIOUS
<1>1. TypeInv' /\ Loadable'
  BY LoadInvNext DEF FullInv, LoadInv
<1>2. CASE UNCHANGED vars
  <2>1. RegisterInv
    BY DEF FullInv
  <2>2. FilesRecent' /\ ReadIsKept' /\ BackupHasPrimary'
    <3>1. UNCHANGED files /\ UNCHANGED <<doubt, saved, damages>>
      BY <1>2 DEF vars, history, faults, files
    <3> QED BY <2>1, <3>1, RegisterQuiet
  <2>3. Generations' /\ JobRecent' /\ BackupReady' /\ Order'
    BY <1>2, <2>1 DEF RegisterInv, Generations, JobRecent, BackupReady, Order, Recent, PrimaryUpTo,
                      Exists, ReadFile, vars, history, faults, files, value
  <2> QED BY <1>1, <2>2, <2>3 DEF FullInv, RegisterInv
<1>3. RegisterInv'
  BY <1>2, RegisterLoad, RegisterSave, RegisterCalls, RegisterRename, RegisterComplete,
     RegisterFail, RegisterStops, RegisterDamage DEF Next, FullInv
<1> QED BY <1>1, <1>3 DEF FullInv

(* Every step of the store is a step of the register, or one it does not    *)
(* see.                                                                     *)
LEMMA StepRefines ==
  ASSUME MaxDamages = 0, FullInv, [Next]_vars
  PROVE  [Register!Next]_(Register!vars)
<1> USE DEF FullInv
<1>0. damages = 0
  BY DEF TypeInv, CountsOK
<1> DEFINE open == pc = "ready" \/ rotate
           Unseen == UNCHANGED <<saved, doubt, saves, loaded>> /\ open' = open
<1>1. Unseen => UNCHANGED Register!vars
  BY DEF Register!vars, value
<1>2. rotate \in BOOLEAN /\ (rotate => pc \in Steps /\ job.id = saves /\ saves \in doubt)
      /\ (pc \in Steps => job.id \in doubt \cup {value})
  BY <1>0 DEF TypeInv, ControlOK, RegisterInv, JobRecent, Recent
<1>3. CASE Load
  <2>1. ~open /\ UNCHANGED <<saves, saved, doubt>>
    BY <1>2, <1>3 DEF Load, Steps
  <2>2. CASE Candidates = {} /\ loaded' = 0 /\ pc' = "ready"
    <3>1. value = 0
      BY <2>2, Constants DEF Candidates, Exists, Loadable, SavedNamed, TypeInv, FilesOK, FilesNow,
                             FilesTyped
    <3> QED BY <2>1, <2>2, <3>1 DEF Register!Next, Register!Load, value
  <2>3. CASE Valid = {} /\ loaded' = Nothing /\ pc' = "ready"
    BY <2>1, <2>3 DEF Register!Next, Register!Forgo, Register!Nothing, Nothing, value
  <2>4. CASE Valid # {} /\ loaded' = ReadFile(Chosen).id /\ pc' = "ready"
    <3>1. loaded' \in doubt \cup {value}
      BY <1>0, <2>4, ChosenIsRecent DEF Recent, RegisterInv
    <3> QED BY <2>1, <2>4, <3>1 DEF Register!Next, Register!Load, value
  <2>5. CASE pc' = "open_tmp" /\ rotate' = FALSE /\ UNCHANGED loaded
    BY <1>1, <2>1, <2>5
  <2> QED BY <1>3, <2>2, <2>3, <2>4, <2>5 DEF Load
<1>4. CASE Save
  BY <1>4 DEF Save, Register!Next, Register!Begin, value
<1>5. CASE \/ OpenTemporary \/ WriteTemporary \/ SyncTemporary
           \/ OpenBackup \/ WriteBackup \/ SyncBackup \/ RenameTemporary
  <2>1. /\ UNCHANGED <<saved, doubt, saves, loaded, rotate>>
        /\ pc # "ready" /\ pc' # "ready"
    BY <1>5 DEF OpenTemporary, WriteTemporary, SyncTemporary, AfterSync, OpenBackup, WriteBackup,
                SyncBackup, RenameTemporary, Advance, history
  <2> QED BY <1>1, <2>1
<1>6. CASE Complete
  <2>1. pc = "sync_dir" /\ pc' = "ready" /\ UNCHANGED saves
    BY <1>6 DEF Complete
  <2>2. CASE rotate
    <3>1. value' = saves /\ doubt' = {} /\ UNCHANGED loaded /\ doubt # {}
      BY <1>2, <1>6, <2>2 DEF Complete, value
    <3> QED BY <2>1, <2>2, <3>1 DEF Register!Next, Register!Return
  <2>3. CASE ~rotate
    <3>1. loaded' \in doubt \cup {value} /\ UNCHANGED <<saved, doubt>>
      BY <1>2, <1>6, <2>1, <2>3 DEF Complete, Steps
    <3> QED BY <2>1, <2>3, <3>1 DEF Register!Next, Register!Load, value
  <2> QED BY <2>2, <2>3
<1>7. CASE Fail
  <2>1. pc \in Steps /\ pc # "ready" /\ pc' = "ready" /\ UNCHANGED <<saves, saved, doubt>>
        /\ loaded' = IF rotate THEN loaded ELSE Nothing
    BY <1>7 DEF Fail, Steps
  <2>2. CASE rotate
    BY <1>1, <2>1, <2>2
  <2>3. CASE ~rotate
    BY <2>1, <2>3 DEF Register!Next, Register!Forgo, Register!Nothing, Nothing, value
  <2> QED BY <2>2, <2>3
<1>8. CASE Quit \/ Kill \/ PowerLoss
  <2>1. pc' = "stopped" /\ rotate' = FALSE /\ UNCHANGED <<saves, saved, doubt, loaded>>
    BY <1>8 DEF Quit, Kill, PowerLoss, Stopped
  <2>2. CASE open
    BY <2>1, <2>2 DEF Register!Next, Register!Die, value
  <2>3. CASE ~open
    BY <1>1, <2>1, <2>3
  <2> QED BY <2>2, <2>3
<1>9. ASSUME NEW p \in Paths, DamageAtRest(p) PROVE FALSE
  BY <1>0, <1>9 DEF DamageAtRest
<1>10. CASE UNCHANGED vars
  BY <1>1, <1>10 DEF vars, history
<1> QED BY <1>3, <1>4, <1>5, <1>6, <1>7, <1>8, <1>9, <1>10 DEF Next

(* What save() or load() returned is what the next load returns, unless a   *)
(* later save had begun: through any number of kills, power losses and      *)
(* failing calls, and on file systems of either kind.                       *)
THEOREM RegisterImplemented ==
  ASSUME MaxDamages = 0
  PROVE  Spec => ImplementsRegister
<1>1. Init => Register!Init
  BY DEF Init, Register!Init, Register!Nothing, Nothing, value
<1>2. Init => FullInv
  BY TypeInvInit, LoadableInit, RegisterInit DEF FullInv
<1>3. FullInv /\ [Next]_vars => FullInv'
  BY FullInvNext
<1>4. FullInv /\ [Next]_vars => [Register!Next]_(Register!vars)
  BY StepRefines
<1> QED BY <1>1, <1>2, <1>3, <1>4, PTL DEF Spec, ImplementsRegister, Register!Spec
-----------------------------------------------------------------------------
(* What one damaged file costs, where an fsync of a file settles the        *)
(* directory too.  While a save or heal is not cut short, two solid files   *)
(* hold states that were saved: the primary and the backup, or, while the   *)
(* backup is written anew, the primary and the temporary file.  When one    *)
(* was cut short, the primary and one of the other two.                     *)
Solid(d, p) == d[p] # NoFile /\ data[d[p]] # Torn /\ kept[d[p]] = {data[d[p]]}
NotBackup == {Primary, Temporary}
Rewriting == {"open_bak", "write_bak", "sync_bak"}
Resting == pc = "stopped" \/ (pc = "ready" /\ checkpointed)

(* No inode ever was, in directories that may be found, the backup and      *)
(* under another name.                                                      *)
Apart == \A d, e \in dirs, p \in NotBackup : d[Backup] # NoFile => d[Backup] # e[p]
Calm ==
  /\ pc = "stopped" => ~checkpointed
  /\ pc \in Steps /\ ~rotate => ~checkpointed
  /\ pc \in Rewriting => rotate
  /\ Interruptions = 0 /\ pc \in {"stopped", "ready"} => dirs = {names}
BackupMade ==
  damages = 0 /\ rotate /\ pc \in {"rename", "sync_dir"} /\ value # 0 => Solid(names, Backup)
SpareName == IF pc \in Rewriting THEN Temporary ELSE Backup
Spare ==
  saved[1] # 0 /\ damages = 0 =>
    /\ Interruptions = 0 => \A d \in dirs : Solid(d, SpareName)
    /\ Interruptions = 1 /\ Resting => \A d \in dirs : Solid(d, Backup) \/ Solid(d, Temporary)

(* After the damage one of them is left, and it is the primary that a save  *)
(* begins with.                                                             *)
Left ==
  saved[1] # 0 /\ damages = 1 =>
    /\ Interruptions = 0 =>
         \A d \in dirs : Solid(d, Primary) \/ (Solid(d, Backup) /\ ~rotate /\ pc # "ready")
    /\ Interruptions = 1 /\ pc = "stopped" => \A d \in dirs : \E p \in Paths : Solid(d, p)
    /\ Interruptions = 1 /\ pc = "ready" /\ checkpointed => \A d \in dirs : Solid(d, Primary)
SpareInv == Apart /\ Calm /\ BackupMade /\ Spare /\ Left

(* It holds at the start.                                                   *)
LEMMA SpareInit == Init => SpareInv
<1> SUFFICES ASSUME Init PROVE SpareInv
  OBVIOUS
<1>1. TypeInv
  BY TypeInvInit
<1>2. /\ names \in Entries /\ dirs = {names} /\ pc = "stopped" /\ rotate = FALSE
      /\ saved = <<0, 0>> /\ checkpointed = FALSE /\ names[Backup] = NoFile
  BY <1>1, Constants DEF Init, TypeInv, FilesOK, FilesNow, FilesTyped
<1>3. saved[1] = 0 /\ pc \notin Steps /\ pc \notin Rewriting
  BY <1>2 DEF Steps, Rewriting
<1> QED BY <1>2, <1>3 DEF SpareInv, Apart, Calm, BackupMade, Spare, Left

(* The primary of every directory is solid until a file is damaged.         *)
LEMMA SolidPrimary ==
  ASSUME TypeInv, Loadable, NEW d \in dirs, d[Primary] # NoFile,
         damages = 0 \/ data[d[Primary]] # Torn
  PROVE  Solid(d, Primary)
BY Constants DEF Loadable, PrimarySettled, Settled, Intact, Solid

(* Solid files have settled contents, so a power loss leaves them alone;    *)
(* any other step must touch their inode.                                   *)
LEMMA SolidKept ==
  ASSUME NEW d, NEW p, Solid(d, p), data'[d[p]] = data[d[p]], kept'[d[p]] = kept[d[p]]
  PROVE  Solid(d, p)'
BY DEF Solid

(* Opening, writing or syncing the temporary file or the backup leaves the  *)
(* files of other names solid, in each directory that may then be found.    *)
Touches(i) == \A j \in Inodes : j # i => data'[j] = data[j] /\ kept'[j] = kept[j]
OthersKept(p) ==
  /\ Apart'
  /\ \A d \in dirs' : \E e \in dirs : \A q \in Paths \ {p} : Solid(e, q) => Solid(d, q)'
LEMMA OpenKeepsOthers ==
  ASSUME NEW p \in {Temporary, Backup}, TypeInv, Loadable, Apart, Open(p)
  PROVE  OthersKept(p)
<1>1. PICK i \in Inodes :
        /\ names' = [names EXCEPT ![p] = i]
        /\ dirs' = dirs \cup {names'}
        /\ data' = [data EXCEPT ![i] = Torn]
        /\ \A j \in Inodes : j # i => kept'[j] = kept[j]
        /\ i = names[p] \/ \A d \in dirs, q \in Paths : d[q] # i
  BY OpenFile, Constants DEF TypeInv, FilesOK
<1>2. /\ names \in dirs /\ dirs \subseteq Entries /\ names \in Entries /\ p \in Paths
      /\ DOMAIN data = Inodes /\ Primary \in Paths /\ Temporary \in Paths /\ Backup \in Paths
      /\ Paths = {Primary, Temporary, Backup}
  BY Constants DEF TypeInv, FilesOK, FilesNow, FilesTyped
<1>3. \A q \in Paths : names'[q] = IF q = p THEN i ELSE names[q]
  BY <1>1, <1>2 DEF Entries
<1>4. Touches(i) /\ i # NoFile
  BY <1>1, <1>2, Constants DEF Touches
<1>5. \A d \in dirs, q \in Paths \ {p} : d[q] # NoFile => d[q] \in Inodes /\ d[q] # i
  <2> SUFFICES ASSUME NEW d \in dirs, NEW q \in Paths \ {p}, d[q] # NoFile, i = names[p]
               PROVE  d[q] # i
    BY <1>1, <1>2 DEF Entries
  <2>1. CASE p = Temporary /\ q = Primary
    BY <2>1 DEF Loadable, PrimarySettled
  <2>2. CASE p = Temporary /\ q = Backup
    BY <1>2, <2>2 DEF Apart, NotBackup
  <2>3. CASE p = Backup
    BY <1>2, <1>4, <2>3 DEF Apart, NotBackup
  <2> QED BY <1>2, <2>1, <2>2, <2>3
<1>6. \A d \in dirs' : \E e \in dirs : \A q \in Paths \ {p} : d[q] = e[q]
  BY <1>1, <1>2, <1>3
<1>7. \A d \in dirs' : \E e \in dirs : \A q \in Paths \ {p} : Solid(e, q) => Solid(d, q)'
  <2> SUFFICES ASSUME NEW d \in dirs'
               PROVE  \E e \in dirs : \A q \in Paths \ {p} : Solid(e, q) => Solid(d, q)'
    OBVIOUS
  <2>1. PICK e \in dirs : \A q \in Paths \ {p} : d[q] = e[q]
    BY <1>6
  <2>2. \A q \in Paths \ {p} : Solid(e, q) => Solid(d, q)'
    BY <1>4, <1>5, <2>1 DEF Solid, Touches
  <2> QED BY <2>2
<1>8. Apart'
  <2> SUFFICES ASSUME NEW d \in dirs', NEW e \in dirs', NEW q \in NotBackup, d[Backup] # NoFile
               PROVE  d[Backup] # e[q]
    BY DEF Apart
  <2>1. q \in Paths /\ q # Backup
    BY <1>2, Constants DEF NotBackup
  <2>2. PICK f \in dirs : \A r \in Paths \ {p} : d[r] = f[r]
    BY <1>6
  <2>3. PICK g \in dirs : \A r \in Paths \ {p} : e[r] = g[r]
    BY <1>6
  <2>4. CASE p = Temporary
    <3>1. d[Backup] = f[Backup] /\ d[Backup] \in Inodes /\ d[Backup] # i
      BY <1>2, <1>5, <2>2, <2>4, Constants
    <3>2. e[q] = g[q] \/ e[q] = i \/ e \in dirs
      BY <1>1, <1>2, <1>3, <2>1, <2>3
    <3> QED BY <2>1, <3>1, <3>2 DEF Apart
  <2>5. CASE p = Backup
    <3>1. e[q] = g[q]
      BY <2>1, <2>3, <2>5
    <3>2. d[Backup] = i \/ d \in dirs
      BY <1>1, <1>2, <1>3, <2>5
    <3>3. e[q] # i
      BY <1>4, <1>5, <2>1, <2>5, <3>1
    <3> QED BY <3>1, <3>2, <3>3 DEF Apart
  <2> QED BY <2>4, <2>5
<1> QED BY <1>7, <1>8 DEF OthersKept

(* The same of writing and syncing.                                         *)
LEMMA WriteKeepsOthers ==
  ASSUME NEW p \in {Temporary, Backup}, TypeInv, Loadable, Apart, Exists(p),
         names' = names, dirs' \subseteq dirs, Touches(names[p])
  PROVE  OthersKept(p)
<1>1. /\ names \in dirs /\ dirs \subseteq Entries /\ Paths = {Primary, Temporary, Backup}
      /\ names[p] # NoFile
  BY Constants DEF TypeInv, FilesOK, FilesNow, FilesTyped, Exists
<1>2. \A d \in dirs, q \in Paths \ {p} : d[q] # NoFile => d[q] \in Inodes /\ d[q] # names[p]
  <2> SUFFICES ASSUME NEW d \in dirs, NEW q \in Paths \ {p}, d[q] # NoFile
               PROVE  d[q] # names[p]
    BY <1>1 DEF Entries
  <2>1. CASE p = Temporary /\ q = Primary
    BY <2>1 DEF Loadable, PrimarySettled
  <2>2. CASE p = Temporary /\ q = Backup
    BY <1>1, <2>2 DEF Apart, NotBackup
  <2>3. CASE p = Backup
    BY <1>1, <2>3 DEF Apart, NotBackup
  <2> QED BY <1>1, <2>1, <2>2, <2>3
<1>3. \A d \in dirs, q \in Paths \ {p} : Solid(d, q) => Solid(d, q)'
  BY <1>2 DEF Solid, Touches
<1>4. Apart'
  BY DEF Apart
<1> QED BY <1>3, <1>4 DEF OthersKept

(* A state was saved before the last one, so the primary has its name.      *)
LEMMA PrimaryNamed ==
  ASSUME TypeInv, Loadable, Order, saved[1] # 0 \/ value # 0
  PROVE  value # 0 /\ \A d \in dirs : d[Primary] # NoFile
<1> DEFINE a == saved[1]
           b == saved[2]
<1>1. a \in Nat /\ b \in Nat /\ a <= b /\ (a # 0 \/ b # 0)
  BY DEF TypeInv, ControlOK, Order, value
<1> HIDE DEF a, b
<1>2. b # 0
  BY <1>1
<1>3. value # 0
  BY <1>2 DEF b, value
<1> QED BY <1>3 DEF Loadable, SavedNamed

(* While a save or heal is under way there is less to show.                 *)
LEMMA SpareUnderWay ==
  ASSUME SpareInv, Apart', BackupMade', pc' \in Steps, pc' \in Rewriting => rotate',
         UNCHANGED <<saved, damages, kills, losses, failures>>, ~rotate' => ~checkpointed',
         saved[1] # 0 /\ damages = 0 /\ Interruptions = 0 => \A d \in dirs' : Solid(d, SpareName)',
         saved[1] # 0 /\ damages = 1 /\ Interruptions = 0 =>
           \A d \in dirs' : Solid(d, Primary)' \/ (Solid(d, Backup)' /\ ~rotate')
  PROVE  SpareInv'
<1>1. pc' # "stopped" /\ pc' # "ready" /\ Interruptions' = Interruptions
  BY DEF Steps, Interruptions
<1>2. Calm'
  BY <1>1 DEF Calm
<1>3. ~Resting'
  BY <1>1 DEF Resting
<1>4. Spare'
  BY <1>1, <1>3 DEF Spare
<1>5. Left'
  BY <1>1 DEF Left
<1> QED BY <1>2, <1>4, <1>5 DEF SpareInv

(* The calls up to the rename keep it.                                      *)
LEMMA SpareCalls ==
  ASSUME Journaled = TRUE, TypeInv, Loadable, RegisterInv, SpareInv,
         \/ OpenTemporary \/ WriteTemporary \/ SyncTemporary
         \/ OpenBackup \/ WriteBackup \/ SyncBackup
  PROVE  SpareInv'
<1> DEFINE C == Whole \cup {Torn}
           Spared == saved[1] # 0 /\ damages = 0 /\ Interruptions = 0
           Damaged == saved[1] # 0 /\ damages = 1 /\ Interruptions = 0
<1>1. /\ FilesNow(C) /\ job \in C /\ job # Torn /\ names \in Entries /\ names \in dirs
      /\ Temporary \in Paths /\ Backup \in Paths /\ Primary \in Paths
      /\ Temporary # Backup /\ Primary # Backup /\ Primary # Temporary
  BY Constants DEF TypeInv, FilesOK, FilesNow, FilesTyped, ControlOK, Whole, Snapshot
<1> HIDE DEF C
<1>2. /\ UNCHANGED <<saved, job, rotate, checkpointed, damages, kills, losses, failures>>
      /\ pc \in Steps /\ pc' \in Steps
      /\ pc \in Writing => Exists(Temporary)
      /\ pc \in Copying => Exists(Backup) /\ Exists(Primary)
  BY DEF OpenTemporary, WriteTemporary, SyncTemporary, AfterSync, OpenBackup, WriteBackup,
         SyncBackup, Advance, Steps, history, faults, TypeInv, NamesOK
<1>3. Apart /\ (~rotate => ~checkpointed) /\ (pc \in Rewriting => rotate)
  BY <1>2 DEF SpareInv, Calm
<1>4. Spared => \A d \in dirs : Solid(d, SpareName)
  BY DEF SpareInv, Spare
<1>5. Damaged => \A d \in dirs : Solid(d, Primary) \/ (Solid(d, Backup) /\ ~rotate)
  BY DEF SpareInv, Left
<1>6. saved[1] # 0 \/ value # 0 => value # 0 /\ Exists(Primary)
  BY <1>1, PrimaryNamed DEF RegisterInv, Exists
<1> HIDE DEF Spared, Damaged
<1>7. ASSUME pc' \notin Rewriting, pc \notin Rewriting, pc' \notin {"rename", "sync_dir"},
             OthersKept(Temporary)
      PROVE  SpareInv'
  <2>1. SpareName = Backup /\ SpareName' = Backup
    BY <1>7 DEF SpareName
  <2>2. /\ Spared => \A d \in dirs' : Solid(d, SpareName)'
        /\ Damaged => \A d \in dirs' : Solid(d, Primary)' \/ (Solid(d, Backup)' /\ ~rotate')
    BY <1>1, <1>2, <1>4, <1>5, <1>7, <2>1 DEF OthersKept
  <2>3. BackupMade'
    BY <1>7 DEF BackupMade
  <2> QED BY <1>2, <1>3, <1>7, <2>2, <2>3, SpareUnderWay DEF OthersKept, Spared, Damaged
<1>8. ASSUME pc' \in Rewriting, pc \in Rewriting, OthersKept(Backup)
      PROVE  SpareInv'
  <2>1. SpareName = Temporary /\ SpareName' = Temporary
    BY <1>8 DEF SpareName
  <2>2. /\ Spared => \A d \in dirs' : Solid(d, SpareName)'
        /\ Damaged => \A d \in dirs' : Solid(d, Primary)' \/ (Solid(d, Backup)' /\ ~rotate')
    BY <1>1, <1>2, <1>3, <1>4, <1>5, <1>8, <2>1 DEF OthersKept
  <2>3. BackupMade'
    BY <1>8 DEF BackupMade, Rewriting
  <2> QED BY <1>2, <1>3, <1>8, <2>2, <2>3, SpareUnderWay DEF OthersKept, Spared, Damaged
<1>9. CASE OpenTemporary
  <2>1. OthersKept(Temporary)
    BY <1>3, <1>9, OpenKeepsOthers DEF OpenTemporary
  <2> QED BY <1>7, <1>9, <2>1 DEF OpenTemporary, Advance, Rewriting
<1>10. CASE WriteTemporary
  <2>1. Exists(Temporary)
    BY <1>2, <1>10 DEF WriteTemporary, Advance, Writing
  <2>2. names' = names /\ dirs' \subseteq dirs /\ Touches(names[Temporary])
    BY <1>1, <1>10, <2>1, WriteFile DEF WriteTemporary, Touches
  <2>3. OthersKept(Temporary)
    BY <1>3, <2>1, <2>2, WriteKeepsOthers
  <2> QED BY <1>7, <1>10, <2>3 DEF WriteTemporary, Advance, Rewriting
<1>11. CASE SyncTemporary
  <2>1. Exists(Temporary) /\ data[names[Temporary]] = job
    BY <1>2, <1>11 DEF SyncTemporary, Advance, Writing, Loadable, TemporaryReady, ReadFile
  <2>2. /\ names' = names /\ dirs' \subseteq dirs /\ Touches(names[Temporary])
        /\ data' = data /\ kept'[names[Temporary]] = {data[names[Temporary]]}
    BY <1>1, <1>11, <2>1, SyncFileContent DEF SyncTemporary, Touches
  <2>3. OthersKept(Temporary) /\ dirs' = {names}
    BY <1>3, <1>11, <2>1, <2>2, WriteKeepsOthers DEF SyncTemporary, SyncFile
  <2>4. Solid(names, Temporary)'
    BY <1>1, <2>1, <2>2 DEF Solid, Exists
  <2>5. pc' = IF rotate THEN "open_bak" ELSE "rename"
    BY <1>11 DEF SyncTemporary, Advance, AfterSync
  <2>6. SpareName = Backup /\ SpareName' = IF rotate THEN Temporary ELSE Backup
    BY <1>11, <2>5 DEF SpareName, SyncTemporary, Advance, Rewriting
  <2>7. /\ Spared => \A d \in dirs' : Solid(d, SpareName)'
        /\ Damaged => \A d \in dirs' : Solid(d, Primary)' \/ (Solid(d, Backup)' /\ ~rotate')
    BY <1>1, <1>2, <1>4, <1>5, <2>2, <2>3, <2>4, <2>6 DEF OthersKept
  <2>8. BackupMade' /\ (pc' \in Rewriting => rotate')
    BY <1>2, <2>5 DEF BackupMade, Rewriting
  <2> QED BY <1>2, <1>3, <2>3, <2>7, <2>8, SpareUnderWay DEF OthersKept, Spared, Damaged
<1>12. CASE Advance("open_bak", "write_bak") /\ Exists(Primary) /\ Open(Backup)
  <2>1. OthersKept(Backup)
    BY <1>3, <1>12, OpenKeepsOthers
  <2> QED BY <1>8, <1>12, <2>1 DEF Advance, Rewriting
<1>13. CASE Advance("open_bak", "rename") /\ ~Exists(Primary) /\ UNCHANGED files
  <2>1. saved[1] = 0 /\ value = 0
    BY <1>6, <1>13
  <2>2. Apart' /\ BackupMade'
    BY <1>2, <1>3, <1>13, <2>1 DEF Apart, BackupMade, files, value
  <2> QED BY <1>2, <1>3, <1>13, <2>1, <2>2, SpareUnderWay DEF Advance, Rewriting
<1>14. CASE WriteBackup
  <2>1. Exists(Backup) /\ Exists(Primary)
    BY <1>2, <1>14 DEF WriteBackup, Advance, Copying
  <2>2. ReadFile(Primary) \in C
    BY <1>1, <2>1 DEF FilesNow, FilesTyped, Exists, ReadFile, Entries
  <2>3. names' = names /\ dirs' \subseteq dirs /\ Touches(names[Backup])
    BY <1>1, <1>14, <2>1, <2>2, WriteFile DEF WriteBackup, Touches
  <2>4. OthersKept(Backup)
    BY <1>3, <2>1, <2>3, WriteKeepsOthers
  <2> QED BY <1>8, <1>14, <2>4 DEF WriteBackup, Advance, Rewriting
<1>15. CASE SyncBackup
  <2>1. /\ Exists(Backup) /\ Exists(Primary) /\ pc' = "rename" /\ rotate
        /\ data[names[Backup]] = data[names[Primary]]
    BY <1>2, <1>3, <1>15 DEF SyncBackup, Advance, Copying, Rewriting, RegisterInv, BackupReady,
                             ReadFile
  <2>2. /\ names' = names /\ dirs' \subseteq dirs /\ Touches(names[Backup])
        /\ data' = data /\ kept'[names[Backup]] = {data[names[Backup]]}
    BY <1>1, <1>15, <2>1, SyncFileContent DEF SyncBackup, Touches
  <2>3. OthersKept(Backup) /\ dirs' = {names}
    BY <1>3, <1>15, <2>1, <2>2, WriteKeepsOthers DEF SyncBackup, SyncFile
  <2>4. damages = 0 => Solid(names, Backup)'
    <3>1. damages = 0 => Solid(names, Primary)
      BY <1>1, <2>1, SolidPrimary DEF Exists
    <3> QED BY <2>1, <2>2, <3>1 DEF Solid, Exists
  <2>5. SpareName' = Backup
    BY <2>1 DEF SpareName, Rewriting
  <2>6. /\ Spared => \A d \in dirs' : Solid(d, SpareName)'
        /\ Damaged => \A d \in dirs' : Solid(d, Primary)' \/ (Solid(d, Backup)' /\ ~rotate')
    BY <1>1, <1>5, <2>1, <2>2, <2>3, <2>4, <2>5 DEF OthersKept, Spared
  <2>7. BackupMade' /\ pc' \notin Rewriting
    BY <1>2, <2>1, <2>2, <2>4 DEF BackupMade, Rewriting
  <2> QED BY <1>2, <1>3, <2>3, <2>6, <2>7, SpareUnderWay DEF OthersKept, Spared, Damaged
<1> QED BY <1>9, <1>10, <1>11, <1>12, <1>13, <1>14, <1>15 DEF OpenBackup

(* So does the rename: the temporary file is settled by then,               *)
LEMMA SpareRename ==
  ASSUME TypeInv, Loadable, RegisterInv, SpareInv, RenameTemporary
  PROVE  SpareInv'
<1>1. /\ pc = "rename" /\ pc' = "sync_dir" /\ job # Torn
      /\ UNCHANGED <<saved, job, rotate, checkpointed, damages, kills, losses, failures>>
      /\ Exists(Temporary) /\ Settled(names[Temporary], job)
  BY Constants DEF RenameTemporary, Advance, history, faults, TypeInv, NamesOK, Writing, ControlOK,
                   Whole, Snapshot, Loadable, TemporaryReady
<1>2. /\ dirs' = dirs \cup {names'} /\ data' = data /\ kept' = kept /\ names \in dirs
      /\ names'[Primary] = names[Temporary] /\ names'[Temporary] = NoFile
      /\ names'[Backup] = names[Backup]
  BY <1>1, RenameFile, Constants DEF RenameTemporary, TypeInv, FilesOK, FilesNow, FilesTyped
<1>3. \A d : d = names' => Solid(d, Primary)'
  BY <1>1, <1>2 DEF Solid, Settled, Exists
<1>4. \A d \in dirs, p \in Paths : Solid(d, p) => Solid(d, p)'
  BY <1>2 DEF Solid
<1>5. /\ Solid(names, Backup) => Solid(names, Backup)'
      /\ \A d : d = names' => (Solid(names, Backup) => Solid(d, Backup)')
  BY <1>2 DEF Solid
<1>6. SpareName = Backup /\ SpareName' = Backup /\ pc' \notin Rewriting /\ pc' \in Steps
      /\ pc \in Steps /\ Backup \in Paths /\ Primary \in Paths
  BY <1>1, Constants DEF SpareName, Rewriting, Steps
<1>7. Apart'
  <2> SUFFICES ASSUME NEW d \in dirs', NEW e \in dirs', NEW q \in NotBackup, d[Backup] # NoFile
               PROVE  d[Backup] # e[q]
    BY DEF Apart
  <2>1. PICK f \in dirs : d[Backup] = f[Backup]
    BY <1>2
  <2>2. e \in dirs \/ e[q] = NoFile \/ e[q] = names[Temporary]
    BY <1>2, Constants DEF NotBackup
  <2> QED BY <1>2, <2>1, <2>2 DEF SpareInv, Apart, NotBackup
<1>8. BackupMade'
  BY <1>1, <1>5 DEF BackupMade, SpareInv, value
<1>9. saved[1] # 0 /\ damages = 0 /\ Interruptions = 0 => \A d \in dirs' : Solid(d, SpareName)'
  BY <1>2, <1>4, <1>5, <1>6 DEF SpareInv, Spare
<1>10. saved[1] # 0 /\ damages = 1 /\ Interruptions = 0 =>
           \A d \in dirs' : Solid(d, Primary)' \/ (Solid(d, Backup)' /\ ~rotate')
  BY <1>1, <1>2, <1>3, <1>4, <1>6 DEF SpareInv, Left
<1>11. ~rotate' => ~checkpointed'
  BY <1>1, <1>6 DEF SpareInv, Calm
<1> QED BY <1>1, <1>6, <1>7, <1>8, <1>9, <1>10, <1>11, SpareUnderWay

(* the return, since both the primary and the backup are new and settled,   *)
LEMMA SpareComplete ==
  ASSUME TypeInv, Loadable, RegisterInv, SpareInv, Complete
  PROVE  SpareInv'
<1>1. /\ names' = names /\ data' = data /\ kept' = kept /\ dirs' = {names} /\ names \in dirs
      /\ pc = "sync_dir" /\ pc' = "ready" /\ rotate' = FALSE /\ job # Torn
      /\ checkpointed' = (checkpointed \/ rotate)
      /\ UNCHANGED <<kills, losses, failures, damages>>
  BY Constants DEF Complete, Publish, SyncDirectory, faults, TypeInv, FilesOK, FilesNow, FilesTyped,
                   ControlOK, Whole, Snapshot
<1>2. names[Primary] # NoFile /\ data[names[Primary]] = job
  BY <1>1 DEF RegisterInv, BackupReady, Exists, ReadFile
<1>3. Solid(names, Primary)
  BY <1>1, <1>2, SolidPrimary
<1>4. \A p : Solid(names, p) => Solid(names, p)'
  BY <1>1 DEF Solid
<1>5. pc \in Steps /\ pc' \notin Steps /\ pc' \notin Rewriting /\ pc \notin Rewriting
      /\ Interruptions' = Interruptions
  BY <1>1 DEF Steps, Rewriting, Interruptions
<1>6. Apart' /\ Calm' /\ BackupMade'
  BY <1>1, <1>5 DEF SpareInv, Apart, Calm, BackupMade
<1>7. saved'[1] # 0 /\ damages = 0 /\ (rotate \/ Interruptions = 0) => Solid(names, Backup)
  <2>1. CASE rotate
    <3>1. saved'[1] = value
      BY <2>1 DEF Complete, value
    <3> QED BY <1>1, <2>1, <3>1 DEF SpareInv, BackupMade
  <2>2. CASE ~rotate
    <3>1. saved' = saved
      BY <2>2 DEF Complete
    <3> QED BY <1>1, <1>5, <2>2, <3>1 DEF SpareInv, Spare, SpareName
  <2> QED BY <2>1, <2>2
<1>8. Resting' => rotate
  BY <1>1, <1>5 DEF Resting, SpareInv, Calm
<1>9. SpareName' = Backup
  BY <1>5 DEF SpareName
<1>10. Spare'
  BY <1>1, <1>4, <1>5, <1>7, <1>8, <1>9 DEF Spare
<1>11. Left'
  BY <1>1, <1>3, <1>4 DEF Left
<1> QED BY <1>6, <1>10, <1>11 DEF SpareInv

(* and load(), which begins with the primary or with writing it anew,       *)
LEMMA SpareLoad ==
  ASSUME TypeInv, Loadable, RegisterInv, SpareInv, Load
  PROVE  SpareInv'
<1>1. /\ UNCHANGED files /\ UNCHANGED <<saved, checkpointed, kills, losses, failures, damages>>
      /\ pc = "stopped" /\ pc' \in {"ready", "open_tmp"} /\ names \in dirs /\ ~rotate
  BY DEF Load, faults, RegisterInv, JobRecent, Steps, TypeInv, FilesOK, FilesNow, FilesTyped
<1>2. rotate' = FALSE /\ Interruptions' = Interruptions /\ pc' \notin Rewriting
      /\ pc \notin Rewriting /\ ~Resting'
  BY <1>1 DEF Load, Interruptions, Rewriting, Resting, SpareInv, Calm, TypeInv, ControlOK
<1>3. \A d, p : Solid(d, p)' <=> Solid(d, p)
  BY <1>1 DEF Solid, files
<1>4. dirs' = dirs /\ names' = names
  BY <1>1 DEF files
<1>5. Apart' /\ Calm' /\ BackupMade'
  BY <1>1, <1>2, <1>4 DEF SpareInv, Apart, Calm, BackupMade
<1>6. Spare'
  BY <1>1, <1>2, <1>3, <1>4 DEF SpareInv, Spare, SpareName
<1>7. Left'
  <2> SUFFICES ASSUME saved[1] # 0, damages = 1, Interruptions = 0, NEW d \in dirs
               PROVE  Solid(d, Primary) \/ (Solid(d, Backup) /\ pc' # "ready")
    BY <1>1, <1>2, <1>3, <1>4 DEF Left, Resting
  <2>1. Solid(d, Primary) \/ Solid(d, Backup)
    BY DEF SpareInv, Left
  <2>2. d = names
    BY <1>1 DEF SpareInv, Calm
  <2>3. CASE pc' = "ready" /\ Valid # {} /\ ~NeedsHeal
    <3>1. Primary \in Valid
      BY <2>3, ChosenIsValid DEF NeedsHeal, TypeInv
    <3>2. names[Primary] # NoFile /\ data[names[Primary]] # Torn
      BY <3>1 DEF Valid, Candidates, Exists, ReadFile
    <3> QED BY <1>1, <2>2, <3>2, SolidPrimary
  <2>4. CASE Valid = {}
    <3>1. Primary \in Paths /\ Backup \in Paths
      BY Constants
    <3>2. Primary \in Valid \/ Backup \in Valid
      BY <2>1, <2>2, <3>1 DEF Valid, Candidates, Exists, ReadFile, Solid
    <3> QED BY <2>4, <3>2
  <2>5. CASE pc' = "open_tmp"
    BY <2>1, <2>5
  <2>6. CASE Candidates = {}
    BY <2>4, <2>6 DEF Valid
  <2> QED BY <2>3, <2>4, <2>5, <2>6 DEF Load
<1> QED BY <1>5, <1>6, <1>7 DEF SpareInv

(* the beginning of a save,                                                 *)
LEMMA SpareSave == ASSUME SpareInv, Save PROVE SpareInv'
<1>1. /\ UNCHANGED files /\ UNCHANGED <<saved, checkpointed, kills, losses, failures, damages>>
      /\ pc = "ready" /\ pc' = "open_tmp" /\ rotate' = TRUE
  BY DEF Save, faults
<1>2. Interruptions' = Interruptions /\ pc' \in Steps /\ pc' \notin Rewriting /\ pc \notin Rewriting
  BY <1>1 DEF Interruptions, Rewriting, Steps
<1>3. \A d, p : Solid(d, p)' <=> Solid(d, p)
  BY <1>1 DEF Solid, files
<1>4. dirs' = dirs /\ names' = names
  BY <1>1 DEF files
<1>5. Apart' /\ BackupMade'
  BY <1>1, <1>4 DEF SpareInv, Apart, BackupMade
<1>6. saved[1] # 0 /\ damages = 0 /\ Interruptions = 0 => \A d \in dirs' : Solid(d, SpareName)'
  BY <1>2, <1>3, <1>4 DEF SpareInv, Spare, SpareName
<1>7. saved[1] # 0 /\ damages = 1 /\ Interruptions = 0 => \A d \in dirs' : Solid(d, Primary)'
  BY <1>1, <1>3, <1>4 DEF SpareInv, Left
<1> QED BY <1>1, <1>2, <1>5, <1>6, <1>7, SpareUnderWay

(* a call that throws and a kill, which are the one interruption,           *)
LEMMA SpareInterrupted ==
  ASSUME TypeInv, SpareInv, Fail \/ Kill
  PROVE  SpareInv'
<1>1. /\ UNCHANGED files /\ UNCHANGED <<saved, damages>> /\ pc \in Steps
      /\ pc' \in {"ready", "stopped"} /\ rotate' = FALSE
      /\ pc' = "stopped" => checkpointed' = FALSE
      /\ pc' = "ready" => checkpointed' = checkpointed
  BY DEF Fail, Kill, Stopped
<1>2. Interruptions' = Interruptions + 1 /\ Interruptions \in Nat
  <2>1. kills \in Nat /\ losses \in Nat /\ failures \in Nat
    BY Constants DEF TypeInv, CountsOK
  <2> QED BY <2>1 DEF Fail, Kill, Stopped, Interruptions
<1>3. Interruptions' # 0 /\ (Interruptions' = 1 => Interruptions = 0)
  BY <1>2
<1>4. \A d, p : Solid(d, p)' <=> Solid(d, p)
  BY <1>1 DEF Solid, files
<1>5. dirs' = dirs /\ names' = names /\ pc' \notin Steps /\ pc' \notin Rewriting
  BY <1>1 DEF files, Steps, Rewriting
<1>6. Apart' /\ Calm' /\ BackupMade'
  BY <1>1, <1>3, <1>5 DEF SpareInv, Apart, Calm, BackupMade
<1>7. Spare'
  BY <1>1, <1>3, <1>4, <1>5 DEF SpareInv, Spare, SpareName
<1>8. Left'
  BY <1>1, <1>3, <1>4, <1>5, Constants DEF SpareInv, Calm, Left
<1> QED BY <1>6, <1>7, <1>8 DEF SpareInv

(* a power loss,                                                            *)
LEMMA SparePowerLoss ==
  ASSUME TypeInv, SpareInv, PowerLoss
  PROVE  SpareInv'
<1>1. /\ names' \in dirs /\ dirs' = {names'} /\ dirs \subseteq Entries
      /\ \A i \in Inodes : kept'[i] = {data'[i]}
      /\ \A i \in Inodes : kept[i] = {data[i]} => data'[i] = data[i]
  BY AfterPowerLoss DEF PowerLoss, TypeInv, FilesOK, FilesNow, FilesTyped
<1>2. /\ UNCHANGED <<saved, damages>> /\ pc' = "stopped" /\ rotate' = FALSE /\ ~checkpointed'
  BY DEF PowerLoss, Stopped
<1>3. Interruptions' # 0 /\ (Interruptions' = 1 => Interruptions = 0)
  <2>1. kills \in Nat /\ losses \in Nat /\ failures \in Nat
    BY Constants DEF TypeInv, CountsOK
  <2> QED BY <2>1 DEF PowerLoss, Stopped, Interruptions
<1>4. \A d \in dirs, p \in Paths : Solid(d, p) => Solid(d, p)'
  BY <1>1 DEF Solid, Entries
<1>5. pc' \notin Steps /\ pc' \notin Rewriting
  BY <1>2 DEF Steps, Rewriting
<1>6. Apart' /\ Calm' /\ BackupMade'
  BY <1>1, <1>2, <1>3, <1>5 DEF SpareInv, Apart, Calm, BackupMade
<1>7. Spare'
  BY <1>1, <1>2, <1>3, <1>4, <1>5, Constants DEF SpareInv, Spare, SpareName
<1>8. Left'
  BY <1>1, <1>2, <1>3, <1>4, <1>5, Constants DEF SpareInv, Left
<1> QED BY <1>6, <1>7, <1>8 DEF SpareInv

(* and the end of the process.                                              *)
LEMMA SpareQuit == ASSUME TypeInv, SpareInv, Quit PROVE SpareInv'
<1>1. /\ UNCHANGED files /\ UNCHANGED <<saved, damages, kills, losses, failures>>
      /\ pc = "ready" /\ checkpointed /\ pc' = "stopped" /\ rotate' = FALSE /\ ~checkpointed'
  BY DEF Quit, Stopped
<1>2. Interruptions' = Interruptions /\ pc' \notin Steps /\ pc' \notin Rewriting
      /\ pc \notin Rewriting
  BY <1>1 DEF Interruptions, Steps, Rewriting
<1>3. \A d, p : Solid(d, p)' <=> Solid(d, p)
  BY <1>1 DEF Solid, files
<1>4. dirs' = dirs /\ names' = names
  BY <1>1 DEF files
<1>5. Apart' /\ Calm' /\ BackupMade'
  BY <1>1, <1>2, <1>4 DEF SpareInv, Apart, Calm, BackupMade
<1>6. Spare' /\ Left'
  BY <1>1, <1>2, <1>3, <1>4, Constants DEF SpareInv, Spare, SpareName, Left, Resting
<1> QED BY <1>5, <1>6 DEF SpareInv

(* Damage takes one solid file of each directory, at most.                  *)
LEMMA SpareDamage ==
  ASSUME TypeInv, Loadable, RegisterInv, SpareInv, MaxDamages <= 1, NEW p \in Paths, DamageAtRest(p)
  PROVE  SpareInv'
<1>1. /\ names' = names /\ dirs' = dirs /\ damages = 0 /\ damages' = 1 /\ pc = "stopped"
      /\ UNCHANGED <<pc, rotate, saved, checkpointed, kills, losses, failures>>
      /\ data' = [data EXCEPT ![names[p]] = Torn] /\ kept' = [kept EXCEPT ![names[p]] = {Torn}]
      /\ DOMAIN data = Inodes /\ DOMAIN kept = Inodes /\ dirs \subseteq Entries
      /\ \A d \in dirs, q, r \in Paths : q # r /\ d[q] = d[r] => d[q] = NoFile
  BY Constants DEF DamageAtRest, Damage, history, TypeInv, CountsOK, FilesOK, FilesNow, FilesTyped
<1>2. Touches(names[p])
  BY <1>1 DEF Touches
<1>3. Interruptions' = Interruptions /\ pc \notin Rewriting /\ Resting /\ ~rotate
      /\ Primary \in Paths /\ Temporary \in Paths /\ Backup \in Paths
      /\ Primary # Temporary /\ Primary # Backup /\ Temporary # Backup
  BY <1>1, Constants DEF Interruptions, Rewriting, Resting, RegisterInv, JobRecent, Steps
<1>4. \A d \in dirs, q \in Paths : Solid(d, q) /\ d[q] # names[p] => Solid(d, q)'
  BY <1>1, <1>2 DEF Solid, Touches, Entries
<1>5. \A d \in dirs, q, r \in Paths :
        q # r /\ Solid(d, q) /\ Solid(d, r) => Solid(d, q)' \/ Solid(d, r)'
  BY <1>1, <1>4 DEF Solid
<1>6. saved[1] # 0 => \A d \in dirs : Solid(d, Primary)
  BY <1>1, PrimaryNamed, SolidPrimary DEF RegisterInv
<1>7. Apart' /\ Calm' /\ BackupMade' /\ Spare'
  BY <1>1, <1>3 DEF SpareInv, Apart, Calm, BackupMade, Spare
<1>8. Left'
  <2> SUFFICES ASSUME saved[1] # 0, NEW d \in dirs
               PROVE  /\ Interruptions = 0 => Solid(d, Primary)' \/ Solid(d, Backup)'
                      /\ Interruptions = 1 => \E q \in Paths : Solid(d, q)'
    BY <1>1, <1>3 DEF Left
  <2>1. Interruptions = 0 => Solid(d, Backup)
    BY <1>1, <1>3 DEF SpareInv, Spare, SpareName
  <2>2. Interruptions = 1 => Solid(d, Backup) \/ Solid(d, Temporary)
    BY <1>1, <1>3 DEF SpareInv, Spare
  <2> QED BY <1>3, <1>5, <1>6, <2>1, <2>2
<1> QED BY <1>7, <1>8 DEF SpareInv

(* So every step keeps it.                                                  *)
LEMMA SpareNext ==
  ASSUME Journaled = TRUE, MaxDamages <= 1, FullInv, SpareInv, [Next]_vars
  PROVE  SpareInv'
<1>1. TypeInv /\ Loadable /\ RegisterInv
  BY DEF FullInv
<1>2. CASE UNCHANGED vars
  <2>1. /\ UNCHANGED <<names, data, dirs, kept, pc, rotate, saved, checkpointed>>
        /\ UNCHANGED <<kills, losses, failures, damages>>
    BY <1>2 DEF vars, history, faults
  <2>2. \A d, p : Solid(d, p)' <=> Solid(d, p)
    BY <2>1 DEF Solid
  <2>3. Interruptions' = Interruptions /\ SpareName' = SpareName /\ (Resting' <=> Resting)
    BY <2>1 DEF Interruptions, SpareName, Resting
  <2>4. Apart' /\ Calm' /\ BackupMade'
    BY <2>1, <2>2, <2>3 DEF SpareInv, Apart, Calm, BackupMade, value
  <2>5. Spare' /\ Left'
    BY <2>1, <2>2, <2>3 DEF SpareInv, Spare, Left
  <2> QED BY <2>4, <2>5 DEF SpareInv
<1> QED BY <1>1, <1>2, SpareLoad, SpareSave, SpareCalls, SpareRename, SpareComplete,
           SpareInterrupted, SpareQuit, SparePowerLoss, SpareDamage DEF Next

(* What is left is found, and it is recent.                                 *)
LEMMA SpareIsFound ==
  ASSUME MaxDamages <= 1, FullInv, SpareInv
  PROVE  PreviousAtWorst
<1> SUFFICES ASSUME pc = "stopped", saved[1] # 0, Interruptions <= 1
             PROVE  Valid # {} /\ ReadFile(Chosen).id >= saved[1]
  BY DEF PreviousAtWorst
<1>1. TypeInv /\ Loadable /\ RegisterInv /\ names \in dirs
      /\ Primary \in Paths /\ Backup \in Paths
  BY Constants DEF FullInv, TypeInv, FilesOK, FilesNow, FilesTyped
<1>2. damages \in {0, 1} /\ Interruptions \in {0, 1}
  <2>1. /\ damages \in 0..MaxDamages /\ kills \in Nat /\ losses \in Nat /\ failures \in Nat
        /\ MaxDamages \in Nat
    BY <1>1, Constants DEF TypeInv, CountsOK
  <2>2. Interruptions \in Nat
    BY <2>1 DEF Interruptions
  <2> QED BY <2>1, <2>2
<1>3. \E p \in Paths : Solid(names, p)
  <2>1. CASE damages = 0
    BY <1>1, <2>1, PrimaryNamed, SolidPrimary DEF RegisterInv
  <2>2. CASE damages = 1
    BY <1>1, <1>2, <2>2 DEF SpareInv, Left
  <2> QED BY <1>2, <2>1, <2>2
<1>4. Valid # {}
  BY <1>3 DEF Solid, Valid, Candidates, Exists, ReadFile
<1>5. Recent(ReadFile(Chosen))
  BY <1>1, <1>4, ChosenIsRecent DEF RegisterInv
<1>6. ReadFile(Chosen).id >= saved[1]
  <2>1. CASE damages = 0
    BY <1>1, <1>5, <2>1, RecentIsNewer DEF RegisterInv
  <2>2. CASE damages # 0
    BY <1>5, <2>2 DEF Recent
  <2> QED BY <2>1, <2>2
<1> QED BY <1>4, <1>6

(* Where an fsync settles the directory too, one file damaged at rest costs *)
(* no more than the newest of the states whose save returned, if no more    *)
(* than one save or heal was cut short before.                              *)
THEOREM PreviousSurvives ==
  ASSUME Journaled = TRUE, MaxDamages <= 1
  PROVE  Spec => []PreviousAtWorst
<1>1. Init => FullInv /\ SpareInv
  BY TypeInvInit, LoadableInit, RegisterInit, SpareInit DEF FullInv
<1>2. FullInv /\ SpareInv /\ [Next]_vars => (FullInv /\ SpareInv)'
  BY FullInvNext, SpareNext
<1>3. FullInv /\ SpareInv => PreviousAtWorst
  BY SpareIsFound
<1> QED BY <1>1, <1>2, <1>3, PTL DEF Spec
=============================================================================
