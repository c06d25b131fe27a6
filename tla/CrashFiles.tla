------------------------------ MODULE CrashFiles ------------------------------
(***************************************************************************)
(* The files of one directory under process deaths and power losses, as    *)
(* Node's writeFile, copyFile, rename and fsync use them.  A name leads to *)
(* an inode.  What the running system reads is `names` and `data`; what a  *)
(* power loss may leave is any directory of `dirs` with, in each inode,    *)
(* any content of `kept`.  An fsync of a file settles its content; that it *)
(* also settles the directory changes made so far (Journaled) is the       *)
(* promise of journaling file systems and not of POSIX.                    *)
(***************************************************************************)
EXTENDS Integers, FiniteSets

CONSTANTS
  Paths,     \* the file names
  Inodes,    \* numbers for them; without a free one no file can be made
  Torn,      \* the content of a file that was not written to its end
  Journaled

NoFile == 0  \* the inode of a name that does not exist

ASSUME CrashFilesAssumption == Inodes \subseteq Nat \ {NoFile} /\ Journaled \in BOOLEAN

VARIABLES names, data, dirs, kept
files == <<names, data, dirs, kept>>

Exists(p) == names[p] # NoFile
ReadFile(p) == data[names[p]]
Free == Inodes \ {d[p] : d \in dirs, p \in Paths}

(* open(p, "w"): an existing file is emptied in place, a missing one made.  *)
Open(p) ==
  \E i \in Inodes :
    /\ IF Exists(p) THEN i = names[p] ELSE i \in Free /\ \A j \in Free : i <= j
    /\ names' = [names EXCEPT ![p] = i]
    /\ dirs' = dirs \cup {names'}
    /\ data' = [data EXCEPT ![i] = Torn]
    /\ kept' = [kept EXCEPT ![i] = IF Exists(p) THEN @ \cup {Torn} ELSE {Torn}]

Write(p, content) ==
  /\ data' = [data EXCEPT ![names[p]] = content]
  /\ kept' = [kept EXCEPT ![names[p]] = @ \cup {content}]
  /\ UNCHANGED <<names, dirs>>

SyncFile(p) ==
  /\ kept' = [kept EXCEPT ![names[p]] = {ReadFile(p)}]
  /\ dirs' = IF Journaled THEN {names} ELSE dirs
  /\ UNCHANGED <<names, data>>

Rename(p, q) ==
  /\ names' = [names EXCEPT ![q] = names[p], ![p] = NoFile]
  /\ dirs' = dirs \cup {names'}
  /\ UNCHANGED <<data, kept>>

SyncDirectory ==
  /\ dirs' = {names}
  /\ UNCHANGED <<names, data, kept>>

(* The machine stops; what was not settled is settled by chance.            *)
Unsettled == {i \in Inodes : kept[i] # {data[i]}}
LosePower ==
  \E d \in dirs : \E found \in [Unsettled -> UNION {kept[i] : i \in Unsettled}] :
    /\ \A i \in Unsettled : found[i] \in kept[i]
    /\ names' = d /\ dirs' = {d}
    /\ data' = [i \in Inodes |-> IF i \in Unsettled THEN found[i] ELSE data[i]]
    /\ kept' = [i \in Inodes |-> {data'[i]}]

(* A file at rest is found damaged.                                         *)
Damage(p) ==
  /\ Exists(p)
  /\ data' = [data EXCEPT ![names[p]] = Torn]
  /\ kept' = [kept EXCEPT ![names[p]] = {Torn}]
  /\ UNCHANGED <<names, dirs>>
=============================================================================
