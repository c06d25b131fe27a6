----------------------------- MODULE RecoveryProofs -----------------------------
(***************************************************************************)
(* What is kept comes back.  A node comes back on a chain as good as its   *)
(* last finished checkpoint, with all it acknowledged unless a power loss  *)
(* took it, and refuses with nothing saved or where a write just failed:   *)
(* for any number of saves, changes, stops, power losses and failing       *)
(* writes.  A wallet page keeps in the browser what it uses, sends change  *)
(* where its inputs came from, and says of the past only what is so of its *)
(* address.  An operator who runs a node, stops it and runs it again gets  *)
(* evidence that passes.                                                   *)
(***************************************************************************)
EXTENDS NodeRecovery, FiniteSetTheorems, SequenceTheorems, TLAPS

(* What the state is made of.                                               *)
Phases == {"down", "boot_raw", "boot_save", "start", "serving", "stopping", "closing", "stuck", "refused"}
Mains == {"startup", "sync", "timer", "over"}
RegisterTypes ==
  /\ value \in 0..latest /\ doubt \subseteq 1..latest /\ latest \in 0..MaxSaves
  /\ loaded \in {Nothing} \cup 0..latest /\ open \in BOOLEAN
  /\ contents \in Seq(State) /\ Len(contents) = latest
NodeTypes ==
  /\ raw \in State \cup {None, Torn} /\ rawKept \subseteq State \cup {None, Torn}
  /\ mem \in State /\ acked \in State /\ upset \in BOOLEAN /\ unhealed \in BOOLEAN
  /\ phase \in Phases /\ main \in Mains /\ last \in State \cup {None} /\ saving \in State \cup {None}
  /\ failures \in Nat

(* A node that has started, and one whose state was chosen.                 *)
Served == phase \in {"serving", "stopping", "closing", "stuck"}
Up == Served \/ phase \in {"boot_raw", "boot_save"}

(* The save under way is the last one begun, of a state the node went on    *)
(* from; only states that load are saved.                                   *)
SavingOk ==
  /\ phase \in {"down", "refused", "boot_raw", "start"} => saving = None
  /\ saving # None => latest # 0 /\ contents[latest] = saving /\ AtLeast(mem, saving)
  /\ \A n \in 1..latest : contents[n].loads

(* Saves begun since the last that returned, and the state in memory, are   *)
(* on chains as good as that one's, if no heal failed since.                *)
RanksOk ==
  value # 0 /\ ~unhealed =>
    /\ \A n \in doubt : contents[n].rank >= contents[value].rank
    /\ Up \/ phase = "start" => mem.rank >= contents[value].rank

(* What a boot is about: a raw file that does not count is replaced before  *)
(* the node reads it.                                                       *)
BootOk ==
  /\ phase = "boot_raw" => mem.loads /\ (Loads(raw) => mem.rank > raw.rank)
  /\ phase = "boot_save" => raw = mem /\ mem.loads
  /\ phase = "start" => \/ raw = None /\ mem = Empty /\ value = 0
                        \/ raw = mem /\ mem.loads

(* The raw file has what was acknowledged, or a better chain of the store;  *)
(* what was acknowledged and does not load may have given way to any.       *)
AckedOk ==
  ~upset => \/ raw = None /\ acked = Empty
            \/ raw \in State /\ raw = acked
            \/ raw \in State /\ raw.loads /\ (acked.loads => AtLeast(raw, acked))

(* Without failed writes the raw file is what is in memory; and nothing it  *)
(* may be after a power loss is behind the last finished save.              *)
PoolsOk ==
  failures = 0 =>
    /\ raw \in rawKept
    /\ Served => raw = mem \/ (raw = None /\ mem = Empty)
    /\ value # 0 => /\ \A n \in doubt : AtLeast(contents[n], contents[value])
                    /\ \A r \in rawKept : r \in State => AtLeast(r, contents[value])
                    /\ Up => AtLeast(mem, contents[value])

Inv == RegisterTypes /\ NodeTypes /\ SavingOk /\ RanksOk /\ BootOk /\ AckedOk
       /\ (SameDirectory => PoolsOk)

(* It implies the type invariant.                                           *)
LEMMA InvTypes == Inv => TypeOK
BY DEF Inv, RegisterTypes, NodeTypes, Phases, Mains, TypeOK
-----------------------------------------------------------------------------
(* States and their order.                                                  *)
LEMMA StateFields ==
  ASSUME NodeRecoveryAssumption, NEW s \in State
  PROVE  s.rank \in Nat /\ s.pool \in Nat /\ s.loads \in BOOLEAN /\ s # None /\ s # Torn
BY DEF NodeRecoveryAssumption, State

LEMMA StateOrder ==
  ASSUME NodeRecoveryAssumption, NEW s \in State, NEW t \in State
  PROVE  /\ AtLeast(s, s)
         /\ AtLeast(s, t) => s.rank >= t.rank
         /\ s.rank > t.rank => AtLeast(s, t)
         /\ AtLeast(s, Empty) /\ Empty \in State /\ Empty.rank = 0 /\ Empty.loads
         /\ \A u \in State : AtLeast(s, t) /\ AtLeast(t, u) => AtLeast(s, u)
<1>1. \A u \in State : u.rank \in Nat /\ u.pool \in Nat
  BY StateFields
<1>2. Empty \in State /\ Empty.rank = 0 /\ Empty.pool = 0 /\ Empty.loads
  BY DEF Empty, State, NodeRecoveryAssumption
<1> QED BY <1>1, <1>2 DEF AtLeast

LEMMA Contents ==
  ASSUME RegisterTypes
  PROVE  /\ latest \in Nat /\ \A n \in 1..latest : contents[n] \in State
         /\ value \in Nat /\ value <= latest /\ (value # 0 => contents[value] \in State)
         /\ \A n \in doubt : n \in 1..latest /\ contents[n] \in State
<1>1. latest \in Nat
  BY DEF RegisterTypes
<1>2. \A n \in 1..latest : contents[n] \in State
  BY ElementOfSeq DEF RegisterTypes
<1> QED BY <1>1, <1>2 DEF RegisterTypes

(* A save is begun, and a save returns.                                     *)
LEMMA BeginFacts ==
  ASSUME RegisterTypes, MaxSaves \in Nat, NEW s \in State, BeginSave(s)
  PROVE  /\ RegisterTypes' /\ value' = value /\ latest' = latest + 1 /\ saving' = s
         /\ doubt' = doubt \cup {latest + 1} /\ contents'[latest + 1] = s
         /\ \A n \in 1..latest : contents'[n] = contents[n]
<1>1. latest \in Nat /\ latest < MaxSaves /\ Len(contents) = latest /\ contents \in Seq(State)
  BY DEF RegisterTypes, BeginSave, Begin
<1>2. /\ contents' \in Seq(State) /\ Len(contents') = latest + 1 /\ contents'[latest + 1] = s
      /\ \A n \in 1..latest : contents'[n] = contents[n]
  BY <1>1, AppendProperties DEF BeginSave
<1>3. /\ value' = value /\ latest' = latest + 1 /\ saving' = s /\ doubt' = doubt \cup {latest + 1}
      /\ loaded' = loaded /\ open' = open
  BY DEF BeginSave, Begin
<1>4. RegisterTypes'
  BY <1>1, <1>2, <1>3 DEF RegisterTypes
<1> QED BY <1>2, <1>3, <1>4

LEMMA ReturnFacts ==
  ASSUME RegisterTypes, Return, UNCHANGED contents
  PROVE  /\ RegisterTypes' /\ latest' = latest /\ value' = latest /\ doubt' = {}
<1>1. latest \in Nat
  BY DEF RegisterTypes
<1> QED BY <1>1 DEF RegisterTypes, Return
-----------------------------------------------------------------------------
(* The state chosen at a boot: one of the store, if no heal failed.         *)
LEMMA PrepareKeeps == ASSUME NodeRecoveryAssumption, Inv, Prepare PROVE Inv'
<1>1. /\ phase = "down" /\ saving' = saving /\ last' = last /\ value' = value /\ doubt' = doubt /\ latest' = latest
      /\ contents' = contents /\ raw' = raw /\ rawKept' = rawKept /\ acked' = acked /\ upset' = upset /\ main' = main
      /\ saving = None
  BY DEF Prepare, Load, Forgo, Inv, SavingOk
<1>2. PICK d \in State \cup {None}, threw \in BOOLEAN :
        /\ Select(d, threw)
        /\ failures' \in Nat /\ (failures' = 0 => failures = 0 /\ unhealed' = unhealed)
        /\ unhealed' \in BOOLEAN /\ (~unhealed' => ~unhealed)
        /\ d = None => value = 0 \/ (unhealed' /\ failures' # 0) 
        /\ d = None /\ value # 0 => threw
        /\ d \in State => \E n \in doubt \cup {value} : n # 0 /\ d = contents[n]
        /\ d \in State => d.loads
  <2>0. failures \in Nat /\ unhealed \in BOOLEAN
    BY DEF Inv, NodeTypes
  <2>1. CASE Load /\ Select(Stored(loaded'), FALSE) /\ UNCHANGED <<failures, unhealed>>
    <3> DEFINE d0 == Stored(loaded')
    <3>1. PICK n \in doubt \cup {value} : loaded' = n
      BY <2>1 DEF Load
    <3>2. n \in Nat /\ n <= latest /\ (n = 0 => n = value) /\ latest' = latest /\ contents' = contents
      BY <1>1, Contents DEF Inv
    <3>3. CASE n = 0
      <4>1. Stored(loaded') = None
        BY <3>1, <3>2, <3>3, <1>1 DEF Stored
      <4>2. None \notin State
        BY DEF NodeRecoveryAssumption
      <4> QED BY <2>0, <2>1, <3>2, <3>3, <4>1, <4>2
    <3>4. CASE n # 0
      <4>1. Stored(loaded') = contents[n] /\ contents[n] \in State /\ contents[n].loads
        BY <3>1, <3>2, <3>4, <1>1, Contents DEF Stored, Inv, SavingOk
      <4>2. None \notin State
        BY DEF NodeRecoveryAssumption
      <4>3. d0 \in State /\ d0.loads /\ d0 # None /\ \E m \in doubt \cup {value} : m # 0 /\ d0 = contents[m]
        BY <3>1, <3>4, <4>1, <4>2
      <4>4. Select(d0, FALSE) /\ failures' = failures /\ unhealed' = unhealed
        BY <2>1
      <4> HIDE DEF d0
      <4>5. /\ failures' \in Nat /\ (failures' = 0 => failures = 0 /\ unhealed' = unhealed)
            /\ unhealed' \in BOOLEAN /\ (~unhealed' => ~unhealed)
        BY <2>0, <4>4, Zenon
      <4>6. FALSE \in BOOLEAN /\ d0 \in State \cup {None}
        BY <4>3
      <4> QED BY <4>3, <4>4, <4>5, <4>6, Zenon
    <3> QED BY <3>3, <3>4
  <2>2. CASE Select(None, TRUE) /\ value = 0 /\ UNCHANGED <<failures, unhealed>>
    <3>1. None \notin State
      BY DEF NodeRecoveryAssumption
    <3> QED BY <2>0, <2>2, <3>1
  <2>3. CASE Select(None, TRUE) /\ Unhealed
    <3>1. None \notin State /\ failures' = failures + 1 /\ unhealed' = TRUE
      BY <2>3 DEF NodeRecoveryAssumption, Unhealed
    <3>2. failures' \in Nat /\ failures' # 0
      BY <2>0, <3>1
    <3>3. TRUE \in BOOLEAN /\ None \in State \cup {None} /\ unhealed' \in BOOLEAN /\ Select(None, TRUE)
      BY <2>3, <3>1
    <3> QED BY <3>1, <3>2, <3>3, Zenon
  <2> QED BY <2>1, <2>2, <2>3 DEF Prepare
<1>3. RegisterTypes'
  <2>1. loaded' \in {Nothing} \cup 0..latest /\ open' \in BOOLEAN
    <3>1. value \in 0..latest /\ doubt \subseteq 1..latest /\ latest \in Nat
      BY DEF Inv, RegisterTypes
    <3>2. Load \/ Forgo
      BY DEF Prepare
    <3>3. loaded' = Nothing \/ loaded' \in doubt \cup {value}
      BY <3>2, Zenon DEF Load, Forgo
    <3>4. loaded' \in {Nothing} \cup 0..latest
      <4>1. \A n \in doubt \cup {value} : n \in 0..latest
        BY <3>1
      <4> QED BY <3>3, <4>1
    <3>5. open' = TRUE
      BY <3>2, Zenon DEF Load, Forgo
    <3> QED BY <3>4, <3>5
  <2> QED BY <1>1, <2>1 DEF Inv, RegisterTypes
<1>4. Empty \in State /\ Empty.loads /\ None \notin State /\ Torn \notin State
  <2>1. mem \in State
    BY DEF Inv, NodeTypes
  <2> QED BY <2>1, StateOrder DEF NodeRecoveryAssumption
<1>5. value # 0 /\ ~unhealed' => d \in State /\ d.rank >= contents[value].rank
  <2> SUFFICES ASSUME value # 0, ~unhealed' PROVE d \in State /\ d.rank >= contents[value].rank
    OBVIOUS
  <2>1. d \in State
    BY <1>2
  <2>2. PICK n \in doubt \cup {value} : n # 0 /\ d = contents[n]
    BY <1>2, <2>1
  <2>3. contents[value].rank \in Nat /\ contents[value] \in State
    BY Contents, StateFields DEF Inv
  <2> QED BY <1>2, <2>1, <2>2, <2>3 DEF Inv, RanksOk
<1>6. SameDirectory /\ failures' = 0 /\ value # 0 => d \in State /\ AtLeast(d, contents[value])
  <2> SUFFICES ASSUME SameDirectory, failures' = 0, value # 0 PROVE d \in State /\ AtLeast(d, contents[value])
    OBVIOUS
  <2>1. d \in State
    BY <1>2
  <2>2. PICK n \in doubt \cup {value} : n # 0 /\ d = contents[n]
    BY <1>2, <2>1
  <2>3. contents[value] \in State /\ AtLeast(contents[value], contents[value])
    BY Contents, StateOrder DEF Inv
  <2> QED BY <1>2, <2>1, <2>2, <2>3 DEF Inv, PoolsOk
<1>7. CASE ~Loads(raw) /\ d = None
  <2>1. mem' = Empty /\ phase' \in {"refused", "start"} /\ (phase' = "start" => raw = None /\ value = 0)
    BY <1>2, <1>7 DEF Select
  <2>2. NodeTypes' /\ ~Served' /\ ~Up'
    BY <1>1, <1>2, <1>4, <2>1 DEF Inv, NodeTypes, Phases, Served, Up
  <2>3. SavingOk' /\ BootOk' /\ AckedOk'
    BY <1>1, <2>1 DEF Inv, SavingOk, BootOk, AckedOk
  <2>4. RanksOk'
    <3>1. value # 0 => unhealed'
      BY <1>2, <1>7
    <3> QED BY <1>1, <3>1 DEF RanksOk
  <2>5. SameDirectory => PoolsOk'
    <3> SUFFICES ASSUME SameDirectory, failures' = 0 PROVE PoolsOk'
      BY DEF PoolsOk
    <3>1. value = 0
      BY <1>2, <1>7
    <3> QED BY <1>1, <1>2, <2>2, <3>1 DEF Inv, PoolsOk
  <2> QED BY <1>3, <2>2, <2>3, <2>4, <2>5 DEF Inv
<1>8. CASE Loads(raw) \/ d # None
  <2> DEFINE wins == DurableWins(d)
  <2>1. /\ mem' = IF wins THEN d ELSE raw
        /\ phase' \in {"boot_raw", "boot_save", "start"}
        /\ wins <=> phase' = "boot_raw"
    <3>1. mem' = IF wins THEN d ELSE raw
      BY <1>2, <1>8 DEF Select
    <3> DEFINE behind == StoreBehind(d, IF DurableWins(d) THEN d ELSE raw)
    <3>3. phase' = CASE wins -> "boot_raw" [] behind -> "boot_save" [] OTHER -> "start"
      BY <1>2, <1>8, Zenon DEF Select
    <3>4. wins => ~behind
      BY DEF StoreBehind, DurableWins
    <3> HIDE DEF behind, wins
    <3>5. CASE wins
      <4>1. phase' = "boot_raw"
        BY <3>5, <3>3, <3>4
      <4> QED BY <3>1, <3>5, <4>1
    <3>6. CASE ~wins
      <4>1. phase' \in {"boot_save", "start"}
        BY <3>6, <3>3
      <4> QED BY <3>1, <3>6, <4>1
    <3> QED BY <3>5, <3>6
  <2>2. ~wins => raw \in State /\ raw.loads /\ (d # None => raw.rank >= d.rank)
    <3> SUFFICES ASSUME ~wins PROVE raw \in State /\ raw.loads /\ (d # None => raw.rank >= d.rank)
      OBVIOUS
    <3>1. raw \in State /\ raw.loads
      BY <1>8 DEF DurableWins, Loads
    <3>2. d # None => ~(d.rank > raw.rank)
      BY DEF DurableWins
    <3>3. d # None => d.rank \in Nat /\ raw.rank \in Nat
      BY <3>1, StateFields
    <3> QED BY <3>1, <3>2, <3>3
  <2>3. wins => d \in State /\ d.loads /\ (Loads(raw) => d.rank > raw.rank)
    BY <1>2 DEF DurableWins
  <2> HIDE DEF wins
  <2>4. mem' \in State /\ mem'.loads
    BY <2>1, <2>2, <2>3
  <2>5. NodeTypes'
    BY <1>1, <1>2, <2>1, <2>4 DEF Inv, NodeTypes, Phases
  <2>6. RanksOk'
    <3> SUFFICES ASSUME value # 0, ~unhealed' PROVE mem'.rank >= contents[value].rank
      BY <1>1, <1>2 DEF Inv, RanksOk
    <3>1. contents[value].rank \in Nat /\ d \in State /\ d # None /\ d.rank \in Nat /\ d.rank >= contents[value].rank
      BY <1>5, Contents, StateFields DEF Inv
    <3>2. CASE wins
      BY <2>1, <3>1, <3>2
    <3>3. CASE ~wins
      <4>1. raw.rank >= d.rank /\ mem' = raw /\ raw.rank \in Nat
        BY <2>1, <2>2, <3>1, <3>3, StateFields
      <4> QED BY <3>1, <4>1
    <3> QED BY <3>2, <3>3
  <2>7. SavingOk'
    BY <1>1 DEF Inv, SavingOk
  <2>8. BootOk'
    <3>1. phase' = "boot_raw" => mem'.loads /\ (Loads(raw)' => mem'.rank > raw'.rank)
      BY <1>1, <2>1, <2>3, <2>4 DEF Loads
    <3>2. phase' # "boot_raw" => raw = mem' /\ mem'.loads
      BY <2>1, <2>2
    <3> QED BY <1>1, <2>1, <3>1, <3>2 DEF BootOk
  <2>9. AckedOk'
    BY <1>1 DEF Inv, AckedOk
  <2>10. SameDirectory => PoolsOk'
    <3> SUFFICES ASSUME SameDirectory, failures' = 0 PROVE PoolsOk'
      BY DEF PoolsOk
    <3>1. PoolsOk /\ failures = 0
      BY <1>2 DEF Inv
    <3>2. value # 0 => AtLeast(mem', contents[value])
      <4>1. CASE wins
        BY <1>6, <2>1, <4>1
      <4>2. CASE ~wins
        BY <2>1, <2>2, <3>1, <4>2 DEF PoolsOk
      <4> QED BY <4>1, <4>2
    <3>3. ~Served'
      BY <2>1 DEF Served
    <3> QED BY <1>1, <3>1, <3>2, <3>3 DEF PoolsOk
  <2> QED BY <1>3, <2>5, <2>6, <2>7, <2>8, <2>9, <2>10 DEF Inv
<1> QED BY <1>7, <1>8

LEMMA RecoverRawKeeps == ASSUME NodeRecoveryAssumption, Inv, RecoverRaw PROVE Inv'
<1>1. /\ phase = "boot_raw" /\ phase' = "start" /\ raw' = mem /\ rawKept' = rawKept \cup {mem, Torn}
      /\ value' = value /\ doubt' = doubt /\ latest' = latest /\ loaded' = loaded /\ open' = open
      /\ contents' = contents /\ mem' = mem /\ main' = main /\ last' = last /\ saving' = saving
      /\ acked' = acked /\ upset' = upset /\ unhealed' = unhealed /\ failures' = failures
  BY DEF RecoverRaw, PutRaw, vars, faults
<1>2. mem \in State /\ mem # Torn /\ Torn \notin State /\ mem.loads
  BY <1>1, StateFields DEF Inv, NodeTypes, NodeRecoveryAssumption, BootOk
<1>3. RegisterTypes' /\ NodeTypes'
  BY <1>1, <1>2 DEF Inv, RegisterTypes, NodeTypes, Phases
<1>4. SavingOk' /\ RanksOk' /\ BootOk'
  BY <1>1, <1>2 DEF Inv, SavingOk, RanksOk, BootOk, Up, Served
<1>5. AckedOk'
  <2> SUFFICES ASSUME ~upset, acked.loads PROVE AtLeast(mem, acked)
    BY <1>1, <1>2 DEF AckedOk
  <2>1. acked \in State
    BY DEF Inv, NodeTypes
  <2>2. CASE acked = Empty
    BY <1>2, <2>2, StateOrder
  <2>3. CASE raw \in State /\ raw.loads /\ AtLeast(raw, acked)
    <3>1. mem.rank > raw.rank
      BY <1>1, <2>3 DEF Inv, BootOk, Loads
    <3> QED BY <1>2, <2>1, <2>3, <3>1, StateOrder
  <2>4. raw \in State /\ raw = acked => AtLeast(raw, acked)
    BY StateOrder
  <2> QED BY <2>2, <2>3, <2>4 DEF Inv, AckedOk
<1>6. SameDirectory => PoolsOk'
  BY <1>1, <1>2 DEF Inv, PoolsOk, Served, Up
<1> QED BY <1>3, <1>4, <1>5, <1>6 DEF Inv

LEMMA StartKeeps == ASSUME NodeRecoveryAssumption, Inv, Start PROVE Inv'
<1>1. /\ phase = "start" /\ phase' = "serving" /\ main' = "startup"
      /\ acked' = mem' /\ upset' = FALSE /\ raw' = raw /\ rawKept' = rawKept
      /\ value' = value /\ doubt' = doubt /\ latest' = latest /\ loaded' = loaded /\ open' = open
      /\ contents' = contents /\ last' = last /\ saving' = saving /\ unhealed' = unhealed /\ failures' = failures
  BY DEF Start, vars, faults
<1>2. /\ mem' = mem /\ mem \in State /\ AtLeast(mem, mem)
      /\ \/ raw = None /\ mem = Empty /\ value = 0
         \/ raw = mem /\ mem.loads
  <2>1. mem \in State /\ AtLeast(mem, mem) /\ None \notin State
    BY StateOrder DEF Inv, NodeTypes, NodeRecoveryAssumption
  <2> QED BY <1>1, <2>1 DEF Start, Loads, Inv, BootOk
<1>4. RegisterTypes' /\ NodeTypes'
  BY <1>1, <1>2 DEF Inv, RegisterTypes, NodeTypes, Phases, Mains
<1>5. SavingOk' /\ BootOk'
  BY <1>1 DEF Inv, SavingOk, BootOk
<1>6. RanksOk'
  BY <1>1, <1>2 DEF Inv, RanksOk
<1>7. AckedOk'
  BY <1>1, <1>2 DEF AckedOk
<1>8. SameDirectory => PoolsOk'
  BY <1>1, <1>2 DEF Inv, PoolsOk
<1> QED BY <1>4, <1>5, <1>6, <1>7, <1>8 DEF Inv

(* A block, a chain or a payment is accepted.                               *)
LEMMA Grown ==
  ASSUME NodeRecoveryAssumption, mem \in State,
         \/ \E s \in State : s.rank > mem.rank /\ mem' = s
         \/ mem.pool < MaxPool /\ mem' = [mem EXCEPT !.pool = @ + 1]
  PROVE  mem' \in State /\ AtLeast(mem', mem)
<1>1. MaxRank \in Nat /\ MaxPool \in Nat
  BY DEF NodeRecoveryAssumption
<1>2. /\ mem.rank \in 0..MaxRank /\ mem.pool \in 0..MaxPool /\ mem.loads \in BOOLEAN
      /\ mem = [rank |-> mem.rank, pool |-> mem.pool, loads |-> mem.loads]
  BY DEF State
<1>3. CASE \E s \in State : s.rank > mem.rank /\ mem' = s
  BY <1>3 DEF AtLeast
<1>4. CASE mem.pool < MaxPool /\ mem' = [mem EXCEPT !.pool = @ + 1]
  <2>1. mem' = [rank |-> mem.rank, pool |-> mem.pool + 1, loads |-> mem.loads]
    BY <1>2, <1>4
  <2>2. mem'.rank = mem.rank /\ mem'.pool = mem.pool + 1
    BY <2>1
  <2>3. mem.pool + 1 \in 0..MaxPool
    BY <1>1, <1>2, <1>4
  <2>4. mem' \in State
    BY <1>2, <2>1, <2>3 DEF State
  <2>5. AtLeast(mem', mem)
    BY <1>1, <1>2, <2>2 DEF AtLeast
  <2> QED BY <2>4, <2>5
<1> QED BY <1>3, <1>4

LEMMA ChangeKeeps == ASSUME NodeRecoveryAssumption, Inv, Change PROVE Inv'
<1>1. /\ Served /\ Up /\ phase' = phase /\ main' = main /\ unhealed' = unhealed
      /\ value' = value /\ doubt' = doubt /\ latest' = latest /\ loaded' = loaded /\ open' = open
      /\ contents' = contents /\ last' = last /\ saving' = saving
  BY DEF Change, Running, Served, Up, vars
<1>2. mem \in State /\ mem' \in State /\ AtLeast(mem', mem)
  BY Grown DEF Change, Inv, NodeTypes
<1>3. \/ /\ raw' = mem' /\ rawKept' = rawKept \cup {mem', Torn} /\ acked' = mem' /\ upset' = FALSE
         /\ failures' = failures
      \/ /\ failures' = failures + 1 /\ raw' = raw /\ rawKept' = rawKept /\ acked' = acked /\ upset' = upset
  BY DEF Change, PutRaw
<1>4. failures \in Nat /\ Torn \notin State
  BY DEF Inv, NodeTypes, NodeRecoveryAssumption
<1>5. RegisterTypes'
  BY <1>1 DEF Inv, RegisterTypes
<1>6. NodeTypes'
  <2>1. upset \in BOOLEAN
    BY DEF Inv, NodeTypes
  <2>2. upset' \in BOOLEAN
    BY <1>3, <2>1, Zenon
  <2>3. raw' \in State \cup {None, Torn} /\ rawKept' \subseteq State \cup {None, Torn} /\ acked' \in State /\ failures' \in Nat
    BY <1>2, <1>3, <1>4 DEF Inv, NodeTypes
  <2> QED BY <1>1, <1>2, <2>2, <2>3 DEF Inv, NodeTypes
<1>7. SavingOk'
  <2>1. saving # None => saving \in State /\ AtLeast(mem, saving)
    BY DEF Inv, SavingOk, NodeTypes
  <2>2. saving # None => AtLeast(mem', saving)
    BY <1>2, <2>1, StateOrder
  <2> QED BY <1>1, <2>2 DEF Inv, SavingOk
<1>8. RanksOk'
  <2>1. mem'.rank >= mem.rank /\ mem'.rank \in Nat /\ mem.rank \in Nat
    BY <1>2, StateOrder, StateFields
  <2>2. value # 0 => contents[value].rank \in Nat
    BY Contents, StateFields DEF Inv
  <2> QED BY <1>1, <2>1, <2>2 DEF Inv, RanksOk
<1>9. BootOk'
  BY <1>1 DEF BootOk, Served
<1>10. AckedOk'
  BY <1>2, <1>3 DEF Inv, AckedOk
<1>11. SameDirectory => PoolsOk'
  <2> SUFFICES ASSUME SameDirectory, failures' = 0 PROVE PoolsOk'
    BY DEF PoolsOk
  <2>1. /\ raw' = mem' /\ rawKept' = rawKept \cup {mem', Torn} /\ failures = 0
    BY <1>3, <1>4
  <2>2. PoolsOk
    BY DEF Inv
  <2>3. value # 0 => AtLeast(mem', contents[value])
    BY <1>1, <1>2, <2>1, <2>2, Contents, StateOrder DEF PoolsOk, Inv
  <2> QED BY <1>1, <1>4, <2>1, <2>2, <2>3 DEF PoolsOk
<1> QED BY <1>5, <1>6, <1>7, <1>8, <1>9, <1>10, <1>11 DEF Inv

(* A save begins, of the state in memory: at a boot, by the main module, by *)
(* the timer, at a stop.                                                    *)
LEMMA SavesKeep ==
  ASSUME NodeRecoveryAssumption, Inv, Up, phase # "boot_raw", BeginSave(mem), mem.loads,
         phase' \in Phases, main' \in Mains, phase' = phase \/ (Served /\ phase' = "stopping"),
         UNCHANGED <<raw, rawKept, mem, last, acked, upset, unhealed, failures>>
  PROVE  Inv'
<1>1. mem \in State /\ MaxSaves \in Nat /\ RegisterTypes
  BY DEF Inv, NodeTypes, NodeRecoveryAssumption
<1>2. /\ RegisterTypes' /\ value' = value /\ latest' = latest + 1 /\ saving' = mem
      /\ doubt' = doubt \cup {latest + 1} /\ contents'[latest + 1] = mem
      /\ \A n \in 1..latest : contents'[n] = contents[n]
  BY <1>1, BeginFacts
<1>3. latest \in Nat /\ value \in Nat /\ value <= latest /\ \A n \in doubt : n \in 1..latest
  BY <1>1, Contents
<1>4. contents'[value'] = contents[value] \/ value = 0
  BY <1>2, <1>3
<1>5. phase' \in {"boot_save", "serving", "stopping", "closing", "stuck"} /\ (Served' <=> Served)
      /\ (phase' = "boot_save" <=> phase = "boot_save")
  BY DEF Up, Served
<1>6. NodeTypes'
  BY <1>1, <1>2 DEF Inv, NodeTypes
<1>7. SavingOk'
  <2>1. AtLeast(mem, mem)
    BY <1>1, StateOrder
  <2>2. \A n \in 1..latest' : n \in 1..latest \/ n = latest + 1
    BY <1>2, <1>3
  <2>3. \A n \in 1..latest' : contents'[n].loads
    BY <1>2, <2>2 DEF Inv, SavingOk
  <2> QED BY <1>1, <1>2, <1>3, <1>5, <2>1, <2>3 DEF SavingOk
<1>8. RanksOk'
  <2> SUFFICES ASSUME value # 0, ~unhealed PROVE RanksOk'
    BY <1>2 DEF RanksOk
  <2>1. mem.rank >= contents[value].rank /\ \A n \in doubt : contents[n].rank >= contents[value].rank
    BY DEF Inv, RanksOk
  <2>2. \A n \in doubt' : contents'[n].rank >= contents[value].rank
    BY <1>2, <1>3, <2>1
  <2> QED BY <1>2, <1>4, <1>5, <2>1, <2>2 DEF RanksOk
<1>9. BootOk'
  BY <1>5 DEF Inv, BootOk
<1>10. AckedOk'
  BY DEF Inv, AckedOk
<1>11. SameDirectory => PoolsOk'
  <2> SUFFICES ASSUME SameDirectory, failures = 0 PROVE PoolsOk'
    BY DEF PoolsOk
  <2>1. PoolsOk
    BY DEF Inv
  <2>2. value # 0 => \A n \in doubt' : AtLeast(contents'[n], contents[value])
    BY <1>2, <1>3, <2>1 DEF PoolsOk
  <2> QED BY <1>2, <1>4, <1>5, <2>1, <2>2 DEF PoolsOk
<1> QED BY <1>2, <1>6, <1>7, <1>8, <1>9, <1>10, <1>11 DEF Inv

(* A checkpoint that is skipped, or throws before it saves.                 *)
LEMMA IdleKeeps ==
  ASSUME NodeRecoveryAssumption, Inv, Served, Served', phase' \in Phases, main' \in Mains,
         UNCHANGED <<vars, contents, saving>>, UNCHANGED <<raw, rawKept, mem, last, acked, upset, unhealed, failures>>
  PROVE  Inv'
<1>1. /\ value' = value /\ doubt' = doubt /\ latest' = latest /\ loaded' = loaded /\ open' = open
      /\ contents' = contents /\ saving' = saving /\ Up /\ Up'
  BY DEF vars, Up
<1>2. RegisterTypes' /\ NodeTypes'
  BY <1>1 DEF Inv, RegisterTypes, NodeTypes
<1>3. SavingOk' /\ RanksOk' /\ BootOk' /\ AckedOk'
  BY <1>1 DEF Inv, SavingOk, RanksOk, BootOk, AckedOk, Served
<1>4. SameDirectory => PoolsOk'
  BY <1>1 DEF Inv, PoolsOk
<1> QED BY <1>2, <1>3, <1>4 DEF Inv

LEMMA RecoverStoreKeeps == ASSUME NodeRecoveryAssumption, Inv, RecoverStore PROVE Inv'
<1>1. /\ phase = "boot_save" /\ BeginSave(mem) /\ phase' = phase /\ main' = main /\ mem.loads
      /\ UNCHANGED <<raw, rawKept, mem, last, acked, upset, unhealed, failures>>
  BY DEF RecoverStore, faults, Inv, BootOk
<1>2. Up /\ phase' \in Phases /\ main' \in Mains
  BY <1>1 DEF Up, Phases, Inv, NodeTypes
<1> QED BY <1>1, <1>2, SavesKeep

LEMMA CheckpointKeeps == ASSUME NodeRecoveryAssumption, Inv, Checkpoint PROVE Inv'
<1>1. /\ Served /\ BeginSave(mem) /\ phase' = phase /\ main' = main /\ mem.loads
      /\ UNCHANGED <<raw, rawKept, mem, last, acked, upset, unhealed, failures>>
  BY DEF Checkpoint, Saves, Loads, Running, Served, faults
<1>2. Up /\ phase # "boot_raw" /\ phase' \in Phases /\ main' \in Mains
  BY <1>1 DEF Served, Up, Inv, NodeTypes
<1> QED BY <1>1, <1>2, SavesKeep

LEMMA MainCheckpointKeeps == ASSUME NodeRecoveryAssumption, Inv, MainCheckpoint PROVE Inv'
<1>1. /\ Served /\ phase' = phase /\ UNCHANGED <<raw, rawKept, mem, last, acked, upset, unhealed, failures>>
      /\ \/ BeginSave(mem) /\ mem.loads /\ main' = main
         \/ main' \in Mains /\ UNCHANGED <<vars, contents, saving>>
  BY DEF MainCheckpoint, Running, Served, Saves, Skips, Throws, Loads, Further, Mains, faults
<1>2. Up /\ Served' /\ phase # "boot_raw" /\ phase' \in Phases /\ main \in Mains
  BY <1>1 DEF Served, Up, Inv, NodeTypes
<1>3. CASE BeginSave(mem) /\ mem.loads /\ main' = main
  BY <1>1, <1>2, <1>3, SavesKeep
<1>4. CASE main' \in Mains /\ UNCHANGED <<vars, contents, saving>>
  BY <1>1, <1>2, <1>4, IdleKeeps
<1> QED BY <1>1, <1>3, <1>4

(* A save returns, at a boot or while the node serves.                      *)
LEMMA ReturnsKeep ==
  ASSUME NodeRecoveryAssumption, Inv, saving # None, SaveReturns,
         (Served /\ Served') \/ (phase = "boot_save" /\ phase' = "start"),
         last' \in State \cup {None}, main' \in Mains,
         UNCHANGED <<contents, raw, mem, acked, upset, failures>>
  PROVE  Inv'
<1>1. RegisterTypes' /\ latest' = latest /\ value' = latest /\ doubt' = {}
  BY ReturnFacts DEF Inv, SaveReturns
<1>2. saving \in State /\ saving = contents[latest] /\ AtLeast(mem, saving) /\ latest # 0 /\ mem \in State
  BY DEF Inv, NodeTypes, SavingOk
<1>3. mem.rank >= saving.rank
  BY <1>2, StateOrder
<1>4. saving' = None /\ unhealed' = FALSE /\ rawKept' = (IF SameDirectory THEN rawKept \cap {raw, Torn} ELSE rawKept)
  BY DEF SaveReturns
<1>5. phase' \in {"start", "serving", "stopping", "closing", "stuck"} /\ (phase' = "start" => raw = mem /\ mem.loads)
      /\ (Served' <=> Served) /\ (phase' # "start" => Served) /\ (Served' => phase' # "start")
  BY DEF Served, Inv, BootOk
<1>6. Torn \notin State /\ None \notin State /\ mem # Torn
  BY <1>2 DEF NodeRecoveryAssumption
<1>7. NodeTypes'
  BY <1>4, <1>5 DEF Inv, NodeTypes, Phases
<1>8. SavingOk' /\ RanksOk' /\ BootOk'
  BY <1>1, <1>2, <1>3, <1>4, <1>5, <1>6 DEF Inv, SavingOk, RanksOk, BootOk
<1>9. AckedOk'
  BY DEF Inv, AckedOk
<1>10. SameDirectory => PoolsOk'
  <2> SUFFICES ASSUME SameDirectory, failures = 0 PROVE PoolsOk'
    BY DEF PoolsOk
  <2>1. raw \in rawKept /\ (Served => raw = mem \/ (raw = None /\ mem = Empty))
    BY DEF Inv, PoolsOk
  <2>2. rawKept' \subseteq {raw, Torn} /\ raw \in rawKept'
    BY <1>4, <2>1
  <2>3. \A r \in rawKept' : r \in State => AtLeast(r, saving)
    BY <1>2, <1>5, <1>6, <2>1, <2>2
  <2> QED BY <1>1, <1>2, <1>5, <2>1, <2>2, <2>3 DEF PoolsOk
<1> QED BY <1>1, <1>7, <1>8, <1>9, <1>10 DEF Inv

LEMMA RecoverStoreReturnsKeeps == ASSUME NodeRecoveryAssumption, Inv, RecoverStoreReturns PROVE Inv'
<1>1. /\ phase = "boot_save" /\ phase' = "start" /\ saving # None /\ SaveReturns /\ last' = last /\ main' = main
      /\ UNCHANGED <<contents, raw, mem, acked, upset, failures>>
  BY DEF RecoverStoreReturns, faults
<1>2. last' \in State \cup {None} /\ main' \in Mains
  BY <1>1 DEF Inv, NodeTypes
<1> QED BY <1>1, <1>2, ReturnsKeep

LEMMA CheckpointReturnsKeeps == ASSUME NodeRecoveryAssumption, Inv, CheckpointReturns PROVE Inv'
<1>1. /\ Served /\ Served' /\ saving # None /\ SaveReturns /\ last' = saving
      /\ UNCHANGED <<contents, raw, mem, acked, upset, failures>>
  BY DEF CheckpointReturns, Running, Served, faults
<1>2. last' \in State \cup {None} /\ main' \in Mains
  BY <1>1 DEF Inv, NodeTypes, CheckpointReturns, Further, Mains
<1> QED BY <1>1, <1>2, ReturnsKeep

LEMMA CheckpointFailsKeeps == ASSUME NodeRecoveryAssumption, Inv, CheckpointFails PROVE Inv'
<1>1. /\ Running /\ saving # None /\ failures' = failures + 1 /\ saving' = None /\ last' = last
      /\ phase' = (IF phase = "stopping" THEN "stuck" ELSE phase) /\ main' \in {main, "over"}
      /\ value' = value /\ doubt' = doubt /\ latest' = latest /\ loaded' = loaded /\ open' = open
      /\ contents' = contents /\ raw' = raw /\ rawKept' = rawKept /\ mem' = mem /\ acked' = acked /\ upset' = upset
      /\ unhealed' = unhealed
  BY DEF CheckpointFails, MarkerAfterFailure, vars
<1>2. Served /\ Served' /\ phase' \in Phases /\ main' \in Mains /\ failures' # 0 /\ failures' \in Nat
  BY <1>1 DEF Inv, NodeTypes, Running, Phases, Mains, Served
<1>3. RegisterTypes' /\ NodeTypes'
  BY <1>1, <1>2 DEF Inv, RegisterTypes, NodeTypes
<1>4. SavingOk' /\ RanksOk' /\ BootOk' /\ AckedOk'
  BY <1>1, <1>2 DEF Inv, SavingOk, RanksOk, BootOk, AckedOk, Up, Served
<1>5. PoolsOk'
  BY <1>2 DEF PoolsOk
<1> QED BY <1>3, <1>4, <1>5 DEF Inv

LEMMA StopKeeps == ASSUME NodeRecoveryAssumption, Inv, Stop PROVE Inv'
<1>1. /\ phase = "serving" /\ UNCHANGED <<raw, rawKept, mem, last, acked, upset, unhealed, failures>>
      /\ main' \in {main, "over"}
      /\ \/ phase' = "stopping" /\ BeginSave(mem) /\ mem.loads
         \/ phase' \in {"stuck", "closing"} /\ UNCHANGED <<vars, contents, saving>>
  BY DEF Stop, Saves, Skips, Throws, Loads
<1>2. Served /\ Up /\ Served' /\ phase # "boot_raw" /\ phase' \in Phases /\ main' \in Mains
  BY <1>1 DEF Served, Up, Phases, Mains, Inv, NodeTypes
<1>3. CASE phase' = "stopping" /\ BeginSave(mem) /\ mem.loads
  BY <1>1, <1>2, <1>3, SavesKeep
<1>4. CASE phase' \in {"stuck", "closing"} /\ UNCHANGED <<vars, contents, saving>>
  BY <1>1, <1>2, <1>4, IdleKeeps
<1> QED BY <1>1, <1>3, <1>4
-----------------------------------------------------------------------------
(* The process ends, by a stop, a failed write at a boot, a kill or a power *)
(* loss.                                                                    *)
LEMMA DownKeeps ==
  ASSUME NodeRecoveryAssumption, Inv, Down, failures' \in {failures, failures + 1},
         \/ UNCHANGED <<raw, rawKept, upset>>
         \/ raw' \in rawKept /\ rawKept' = {raw'} /\ upset' = (upset \/ raw' # raw)
  PROVE  Inv'
<1>1. /\ phase' = "down" /\ main' = "over" /\ saving' = None /\ last' = None /\ mem' = Empty
      /\ value' = value /\ doubt' = doubt /\ latest' = latest /\ loaded' = loaded /\ open' = FALSE
      /\ contents' = contents /\ acked' = acked /\ unhealed' = unhealed
  BY DEF Down, Die
<1>2. mem' \in State /\ ~Served' /\ ~Up'
  <2>1. Empty \in State
    BY DEF Empty, State, NodeRecoveryAssumption
  <2> QED BY <1>1, <2>1 DEF Served, Up
<1>3. RegisterTypes'
  BY <1>1 DEF Inv, RegisterTypes
<1>4. NodeTypes'
  <2>1. failures' \in Nat
    BY DEF Inv, NodeTypes
  <2>2. upset \in BOOLEAN
    BY DEF Inv, NodeTypes
  <2>3. upset' \in BOOLEAN
    BY <2>2, Zenon
  <2>4. raw' \in State \cup {None, Torn} /\ rawKept' \subseteq State \cup {None, Torn}
    BY DEF Inv, NodeTypes
  <2> QED BY <1>1, <1>2, <2>1, <2>3, <2>4 DEF Inv, NodeTypes, Phases, Mains
<1>5. SavingOk' /\ RanksOk' /\ BootOk'
  BY <1>1, <1>2 DEF Inv, SavingOk, RanksOk, BootOk
<1>6. AckedOk'
  BY <1>1 DEF Inv, AckedOk
<1>7. SameDirectory => PoolsOk'
  <2> SUFFICES ASSUME SameDirectory, failures' = 0 PROVE PoolsOk'
    BY DEF PoolsOk
  <2>1. failures = 0
    BY DEF Inv, NodeTypes
  <2> QED BY <1>1, <1>2, <2>1 DEF Inv, PoolsOk
<1> QED BY <1>3, <1>4, <1>5, <1>6, <1>7 DEF Inv
-----------------------------------------------------------------------------
LEMMA InvInit == ASSUME NodeRecoveryAssumption, RecoveryInit PROVE Inv
<1>1. MaxSaves \in Nat /\ Empty \in State
  BY DEF Empty, State, NodeRecoveryAssumption
<1>2. /\ value = 0 /\ doubt = {} /\ latest = 0 /\ loaded = Nothing /\ open = FALSE
      /\ contents = <<>> /\ raw = None /\ rawKept = {None} /\ mem = Empty /\ main = "over"
      /\ phase = "down" /\ last = None /\ saving = None /\ acked = Empty /\ upset = FALSE /\ unhealed = FALSE
      /\ failures = 0
  BY DEF RecoveryInit, Init
<1>3. contents \in Seq(State) /\ Len(contents) = 0
  BY <1>2, EmptySeq
<1>4. RegisterTypes
  <2>1. value = 0 /\ doubt = {} /\ latest = 0 /\ loaded = Nothing /\ open = FALSE /\ MaxSaves \in Nat
    BY <1>1, <1>2
  <2>2. value \in 0..latest /\ doubt \subseteq 1..latest /\ latest \in 0..MaxSaves /\ Len(contents) = latest
    BY <1>3, <2>1
  <2>3. loaded \in {Nothing} \cup 0..latest /\ open \in BOOLEAN
    BY <2>1
  <2> QED BY <1>3, <2>2, <2>3 DEF RegisterTypes
<1>5. NodeTypes
  BY <1>1, <1>2 DEF NodeTypes, Phases, Mains
<1>6. SavingOk /\ RanksOk /\ BootOk /\ AckedOk
  <2>1. 1..latest = {}
    BY <1>2
  <2> QED BY <1>2, <2>1 DEF SavingOk, RanksOk, BootOk, AckedOk
<1>7. PoolsOk
  BY <1>2 DEF PoolsOk, Served
<1> QED BY <1>4, <1>5, <1>6, <1>7 DEF Inv

LEMMA InvNext == ASSUME NodeRecoveryAssumption, Inv, [RecoveryNext]_allVars PROVE Inv'
<1>1. CASE RecoveryNext
  <2>1. CASE Exit \/ Kill \/ BootFails
    BY <2>1, DownKeeps DEF Exit, Kill, BootFails, faults
  <2>2. CASE PowerLoss
    BY <2>2, DownKeeps DEF PowerLoss
  <2> QED BY <1>1, <2>1, <2>2, PrepareKeeps, RecoverRawKeeps, RecoverStoreKeeps, RecoverStoreReturnsKeeps, StartKeeps,
          ChangeKeeps, CheckpointKeeps, MainCheckpointKeeps, CheckpointReturnsKeeps, CheckpointFailsKeeps, StopKeeps
          DEF RecoveryNext
<1>2. CASE UNCHANGED allVars
  BY <1>2 DEF allVars, vars, node, faults, Inv, RegisterTypes, NodeTypes, SavingOk, RanksOk, BootOk, AckedOk, PoolsOk,
              Up, Served, Loads
<1> QED BY <1>1, <1>2

LEMMA InvHolds == ASSUME NodeRecoveryAssumption PROVE RecoverySpec => []Inv
<1>1. RecoveryInit => Inv
  BY InvInit
<1>2. Inv /\ [RecoveryNext]_allVars => Inv'
  BY InvNext
<1> QED BY <1>1, <1>2, PTL DEF RecoverySpec
-----------------------------------------------------------------------------
(* Every variable keeps its type; memory and files hold states only.        *)
THEOREM RecoveryTypeOK == ASSUME NodeRecoveryAssumption PROVE RecoverySpec => []TypeOK
<1>1. Inv => TypeOK
  BY InvTypes
<1> QED BY <1>1, InvHolds, PTL

(* A node that finished a checkpoint refuses to start only when the heal of *)
(* its store fails in that very start (prepareIndependentNodeStorage).      *)
THEOREM RefusalsAreFirst == ASSUME NodeRecoveryAssumption PROVE RecoverySpec => [][RefusesOnlyUnsaved]_allVars
<1>1. Inv => RefusesOnlyUnsaved
  <2> SUFFICES ASSUME Inv, Prepare, phase' = "refused", value # 0 PROVE failures' > failures
    BY DEF RefusesOnlyUnsaved
  <2>1. CASE Load /\ Select(Stored(loaded'), FALSE)
    <3>1. PICK n \in doubt \cup {value} : loaded' = n /\ latest' = latest /\ contents' = contents
      BY <2>1 DEF Load, Prepare
    <3>2. n \in Nat /\ n <= latest /\ n # 0 /\ latest \in Nat
      BY <3>1, Contents DEF Inv
    <3>3. Stored(loaded') \in State
      BY <3>1, <3>2, Contents DEF Stored, Inv
    <3>4. Stored(loaded') # None
      BY <3>3, StateFields
    <3> HIDE DEF Stored
    <3>5. phase' \in {"boot_raw", "boot_save", "start"}
      <4> DEFINE d == Stored(loaded')
                 behind == StoreBehind(d, IF DurableWins(d) THEN d ELSE raw)
      <4>1. phase' = CASE DurableWins(d) -> "boot_raw" [] behind -> "boot_save" [] OTHER -> "start"
        BY <2>1, <3>4, Zenon DEF Select
      <4> HIDE DEF d, behind
      <4> QED BY <4>1
    <3> QED BY <3>5
  <2>2. CASE Unhealed
    <3>1. failures \in Nat
      BY DEF Inv, NodeTypes
    <3> QED BY <2>2, <3>1 DEF Unhealed
  <2> QED BY <2>1, <2>2 DEF Prepare
<1> QED BY <1>1, InvHolds, PTL

(* A node comes back on the state it selected, which loads: never one of a  *)
(* worse chain than its last finished checkpoint, whatever a power loss     *)
(* left of the raw file, whether or not that loads, whatever writes failed  *)
(* but a heal, and whichever of the unfinished saves the store gives back.  *)
THEOREM ChainsComeBack == ASSUME NodeRecoveryAssumption PROVE RecoverySpec => [][BootKeepsChain]_allVars
<1>1. Inv => BootKeepsChain
  <2> SUFFICES ASSUME Inv, Start
               PROVE  /\ mem' = mem /\ (raw = None \/ Loads(raw))
                      /\ value # 0 /\ ~unhealed => mem'.rank >= contents[value].rank
    BY DEF BootKeepsChain
  <2>1. mem \in State /\ None \notin State /\ phase = "start"
    BY DEF Start, Inv, NodeTypes, NodeRecoveryAssumption
  <2>2. mem' = mem /\ (raw = None \/ Loads(raw))
    BY <2>1 DEF Start, Inv, BootOk, Loads
  <2> QED BY <2>1, <2>2 DEF Inv, RanksOk
<1> QED BY <1>1, InvHolds, PTL

(* A node that was killed or stopped comes back with every block and        *)
(* payment it acknowledged, although its checkpoints may be far behind, if  *)
(* the state it acknowledged them in loads.                                 *)
THEOREM AcknowledgedComesBack ==
  ASSUME NodeRecoveryAssumption PROVE RecoverySpec => [][BootKeepsAcknowledged]_allVars
<1>1. Inv => BootKeepsAcknowledged
  <2> SUFFICES ASSUME Inv, Start, ~upset, acked.loads PROVE AtLeast(mem', acked)
    BY DEF BootKeepsAcknowledged
  <2>1. acked \in State /\ mem \in State /\ None \notin State /\ phase = "start"
    BY DEF Start, Inv, NodeTypes, NodeRecoveryAssumption
  <2>2. mem' = mem
    BY <2>1 DEF Start, Inv, BootOk, Loads
  <2>3. AtLeast(mem, Empty) /\ AtLeast(acked, acked)
    BY <2>1, StateOrder
  <2>4. CASE raw = mem
    BY <2>1, <2>2, <2>3, <2>4 DEF Inv, AckedOk
  <2>5. CASE raw = None
    BY <2>1, <2>2, <2>3, <2>5 DEF Inv, AckedOk
  <2> QED BY <2>1, <2>4, <2>5 DEF Inv, BootOk
<1> QED BY <1>1, InvHolds, PTL

(* With the two files in one directory and no failed write, a finished      *)
(* checkpoint survives power losses with its payments.                      *)
THEOREM CheckpointsComeBack ==
  ASSUME NodeRecoveryAssumption, SameDirectory
  PROVE  RecoverySpec => [][BootKeepsCheckpoint]_allVars
<1>1. Inv => BootKeepsCheckpoint
  <2> SUFFICES ASSUME Inv, Start, value # 0, failures = 0 PROVE AtLeast(mem', contents[value])
    BY DEF BootKeepsCheckpoint
  <2>1. raw = mem /\ mem.loads /\ mem \in State /\ raw \in rawKept
    BY DEF Start, Inv, NodeTypes, BootOk, PoolsOk
  <2>2. AtLeast(raw, contents[value])
    BY <2>1 DEF Inv, PoolsOk
  <2> QED BY <2>1, <2>2 DEF Start, Loads
<1> QED BY <1>1, InvHolds, PTL
-----------------------------------------------------------------------------
(* The wallet of the pages of one browser.                                  *)
CONSTANTS Tabs, Words, Ways, MaxOps
VARIABLES tab, store, shown, sent
Keys == INSTANCE WalletKeys

(* The wallet page.  What a handler that is under way holds.                *)
Accounts == Keys!Account \cup {Keys!Legacy}
Entries == [acc : Accounts, i : {0, 1}]
KeysConstants == MaxOps \in Nat /\ Ways \subseteq {"create", "insert", "import"} /\ None \notin Words \cup Accounts \cup Entries
LEMMA ConstantsOfKeys == Keys!KeysAssumption => KeysConstants
BY DEF Keys!KeysAssumption, KeysConstants, Accounts, Entries

OpOk(o) ==
  /\ o.kind \in {"create", "derive", "insert", "import", "words"} => o.acc \in Accounts /\ DOMAIN o = {"kind", "acc"}
  /\ o.kind = "submit" => o.key = o.change
TabOk(p) ==
  /\ p.acc \in Accounts \cup {None} /\ p.words \in Words \cup {None}
  /\ p.sel # None /\ p.sel.full => p.sel.acc = p.acc
  /\ IsFiniteSet(p.ops) /\ Cardinality(p.ops) <= MaxOps
  /\ \A o \in p.ops : OpOk(o)
  /\ DOMAIN p = {"open", "acc", "sel", "words", "ops"}
TabsOk == DOMAIN tab = Tabs /\ \A t \in Tabs : TabOk(tab[t])
StoreOk ==
  /\ DOMAIN store = {"keyring", "single", "watch"} /\ store.watch \in BOOLEAN
  /\ store.keyring \in Entries \cup {None}
  /\ store.single # None => store.single.acc \in Accounts
KeysInv == TabsOk /\ StoreOk /\ Keys!ChangeComesBack

LEMMA NoTabOk == ASSUME KeysConstants PROVE TabOk(Keys!NoTab)
<1>1. IsFiniteSet({}) /\ Cardinality({}) = 0
  BY FS_EmptySet
<1> QED BY <1>1 DEF KeysConstants, Keys!NoTab, TabOk

LEMMA SavedSays ==
  ASSUME KeysConstants, NEW s, DOMAIN s = {"keyring", "single", "watch"}, NEW acc \in Accounts, NEW i \in {0, 1},
         NEW r, r = Keys!Saved(s, acc, i)
  PROVE  /\ DOMAIN r = {"keyring", "single", "watch"} /\ r.watch = s.watch
         /\ r.keyring.acc = acc /\ r.keyring.i = i /\ r.keyring \in Entries /\ r.keyring # None
         /\ r.single.acc = acc
         /\ Keys!Loaded(r) # None /\ Keys!Loaded(r).acc = acc /\ Keys!Loaded(r).i = i
<1>1. /\ DOMAIN r = {"keyring", "single", "watch"} /\ r.watch = s.watch
      /\ r.keyring = [acc |-> acc, i |-> i] /\ r.single = Keys!Address(acc, i)
  BY DEF Keys!Saved
<1>2. r.keyring \in Entries
  BY <1>1 DEF Entries
<1>3. r.keyring # None
  BY <1>2 DEF KeysConstants
<1>4. r.single.acc = acc
  BY <1>1 DEF Keys!Address
<1>5. Keys!Loaded(r) = r.keyring
  BY <1>3 DEF Keys!Loaded
<1>6. r.keyring.acc = acc /\ r.keyring.i = i
  BY <1>1
<1> QED BY <1>1, <1>2, <1>3, <1>4, <1>5, <1>6

(* What is loaded from the browser is an account of its own, or nothing.    *)
LEMMA LoadedSays ==
  ASSUME KeysConstants, StoreOk
  PROVE  Keys!Loaded(store) # None => Keys!Loaded(store) \in Entries
<1>1. CASE store.keyring # None
  BY <1>1 DEF StoreOk, Keys!Loaded
<1>2. CASE store.keyring = None /\ store.single # None
  BY <1>2 DEF StoreOk, Keys!Loaded, Entries
<1>3. CASE store.keyring = None /\ store.single = None
  BY <1>3 DEF Keys!Loaded
<1> QED BY <1>1, <1>2, <1>3

LEMMA OpenedSays ==
  ASSUME KeysConstants, StoreOk
  PROVE  LET p == Keys!Opened(store) IN
         /\ TabOk(p) /\ p.open /\ p.words = None
         /\ p.acc = IF Keys!Loaded(store) = None THEN None ELSE Keys!Loaded(store).acc
         /\ p.sel = IF store.watch THEN Keys!Watched
                    ELSE IF Keys!Loaded(store) = None THEN None
                    ELSE Keys!Address(Keys!Loaded(store).acc, Keys!Loaded(store).i)
<1> DEFINE p == Keys!Opened(store)  old == Keys!Loaded(store)
<1>1. /\ DOMAIN p = {"open", "acc", "sel", "words", "ops"}
      /\ p.open = TRUE /\ p.words = None /\ p.ops = {}
      /\ p.acc = IF old = None THEN None ELSE old.acc
      /\ p.sel = IF store.watch THEN Keys!Watched
                 ELSE IF old = None THEN None ELSE Keys!Address(old.acc, old.i)
  BY DEF Keys!Opened, Keys!NoTab
<1>2. old # None => old.acc \in Accounts
  BY LoadedSays DEF Entries
<1>3. IsFiniteSet({}) /\ Cardinality({}) = 0
  BY FS_EmptySet
<1>4. p.sel # None /\ p.sel.full => p.sel.acc = p.acc
  <2>1. ~Keys!Watched.full
    BY DEF Keys!Watched
  <2>2. Keys!Address(old.acc, old.i).acc = old.acc
    BY DEF Keys!Address
  <2> HIDE DEF p, old
  <2> QED BY <1>1, <2>1, <2>2
<1> HIDE DEF p, old
<1>5. TabOk(p)
  BY <1>1, <1>2, <1>3, <1>4 DEF TabOk, KeysConstants
<1> QED BY <1>1, <1>5 DEF p, old

LEMMA WordsOfAccount ==
  ASSUME NEW acc \in Accounts
  PROVE  acc.words \in Words \cup {None}
BY DEF Accounts, Keys!Account, Keys!Legacy

(* Handlers begin, go on and end.                                           *)
LEMMA OpsKeep ==
  ASSUME KeysConstants, NEW ops, IsFiniteSet(ops), Cardinality(ops) <= MaxOps, NEW o, NEW x
  PROVE  /\ IsFiniteSet(ops \ {o}) /\ Cardinality(ops \ {o}) <= MaxOps
         /\ o \in ops => IsFiniteSet((ops \ {o}) \cup {x}) /\ Cardinality((ops \ {o}) \cup {x}) <= MaxOps
<1>0. MaxOps \in Nat /\ Cardinality(ops) \in Nat
  BY FS_CardinalityType DEF KeysConstants
<1>1. /\ IsFiniteSet(ops \ {o})
      /\ Cardinality(ops \ {o}) = IF o \in ops THEN Cardinality(ops) - 1 ELSE Cardinality(ops)
  BY FS_RemoveElement
<1>3. Cardinality(ops \ {o}) \in Nat
  BY <1>1, FS_CardinalityType
<1>4. IsFiniteSet((ops \ {o}) \cup {x}) /\ Cardinality((ops \ {o}) \cup {x}) <= Cardinality(ops \ {o}) + 1
  <2> DEFINE T == ops \ {o}
  <2>1. IsFiniteSet(T) /\ Cardinality(T) \in Nat
    BY <1>1, <1>3
  <2> HIDE DEF T
  <2>2. /\ IsFiniteSet(T \cup {x})
        /\ Cardinality(T \cup {x}) = IF x \in T THEN Cardinality(T) ELSE Cardinality(T) + 1
    BY <2>1, FS_AddElement
  <2>3. Cardinality(T \cup {x}) <= Cardinality(T) + 1
    BY <2>1, <2>2
  <2> QED BY <2>2, <2>3 DEF T
<1>5. Cardinality((ops \ {o}) \cup {x}) \in Nat
  BY <1>4, FS_CardinalityType
<1> QED BY <1>0, <1>1, <1>3, <1>4, <1>5

LEMMA OpsGrow ==
  ASSUME KeysConstants, NEW ops, IsFiniteSet(ops), Cardinality(ops) < MaxOps, NEW x
  PROVE  IsFiniteSet(ops \cup {x}) /\ Cardinality(ops \cup {x}) <= MaxOps
<1>1. MaxOps \in Nat /\ Cardinality(ops) \in Nat
  BY FS_CardinalityType DEF KeysConstants
<1>2. IsFiniteSet(ops \cup {x}) /\ Cardinality(ops \cup {x}) <= Cardinality(ops) + 1
  BY <1>1, FS_AddElement
<1>3. Cardinality(ops \cup {x}) \in Nat
  BY <1>2, FS_CardinalityType
<1> QED BY <1>1, <1>2, <1>3

(* An open page agrees with what the browser would load; one that is not    *)
(* open has nothing.                                                        *)
Agreed(t) ==
  IF tab[t].open THEN tab[t].acc = Keys!Opened(store).acc /\ tab[t].sel = Keys!Opened(store).sel
  ELSE tab[t].acc = None

LEMMA TabSteps ==
  ASSUME TabsOk, NEW t \in Tabs, NEW p, TabOk(p), tab' = [tab EXCEPT ![t] = p]
  PROVE  TabsOk' /\ tab'[t] = p
BY DEF TabsOk

(* A handler that leaves account, address and browser alone.                *)
LEMMA StaysWithAccount ==
  ASSUME KeysInv, NEW t \in Tabs, NEW ops, NEW words \in Words \cup {None},
         IsFiniteSet(ops), Cardinality(ops) <= MaxOps, \A o \in ops : OpOk(o),
         tab' = [tab EXCEPT ![t] = [@ EXCEPT !.ops = ops, !.words = words]],
         store' = store, Keys!ChangeComesBack'
  PROVE  KeysInv' /\ (Agreed(t) => Agreed(t)')
<1> DEFINE p == [tab[t] EXCEPT !.ops = ops, !.words = words]
<1>1. TabOk(tab[t])
  BY DEF KeysInv, TabsOk
<1>2. /\ p.open = tab[t].open /\ p.acc = tab[t].acc /\ p.sel = tab[t].sel
      /\ p.ops = ops /\ p.words = words /\ DOMAIN p = DOMAIN tab[t]
  BY <1>1 DEF TabOk
<1>3. tab' = [tab EXCEPT ![t] = p]
  OBVIOUS
<1> HIDE DEF p
<1>4. TabOk(p)
  BY <1>1, <1>2 DEF TabOk
<1>5. TabsOk' /\ tab'[t] = p
  BY <1>3, <1>4, TabSteps DEF KeysInv
<1>6. StoreOk' /\ Keys!Opened(store)' = Keys!Opened(store)
  BY DEF KeysInv, StoreOk
<1>7. Agreed(t) => Agreed(t)'
  BY <1>2, <1>5, <1>6 DEF Agreed
<1> QED BY <1>5, <1>6, <1>7 DEF KeysInv

(* A handler that takes an account into use, in the page and in the browser.*)
LEMMA TakesAccount ==
  ASSUME KeysConstants, KeysInv, NEW t \in Tabs, tab[t].open, NEW acc \in Accounts, NEW i \in {0, 1}, NEW p,
         TabOk(p), p.open, p.acc = acc, p.sel = Keys!Address(acc, i),
         tab' = [tab EXCEPT ![t] = p], store' = Keys!Adopted(store, acc, i), Keys!ChangeComesBack'
  PROVE  KeysInv' /\ Agreed(t)'
<1>1. TabsOk' /\ tab'[t] = p
  BY TabSteps DEF KeysInv
<1> DEFINE r == Keys!Saved(store, acc, i)
<1>2. /\ DOMAIN r = {"keyring", "single", "watch"} /\ r.keyring.acc = acc /\ r.keyring.i = i
      /\ r.keyring \in Entries /\ r.keyring # None /\ r.single.acc = acc
  <2>1. DOMAIN store = {"keyring", "single", "watch"}
    BY DEF KeysInv, StoreOk
  <2>2. r = Keys!Saved(store, acc, i)
    OBVIOUS
  <2> HIDE DEF r
  <2> QED BY <2>1, <2>2, SavedSays
<1>3. store' = [r EXCEPT !.watch = FALSE]
  BY DEF Keys!Adopted
<1> HIDE DEF r
<1>4. /\ DOMAIN store' = {"keyring", "single", "watch"} /\ store'.watch = FALSE
      /\ store'.keyring.acc = acc /\ store'.keyring.i = i /\ store'.keyring \in Entries /\ store'.keyring # None
      /\ store'.single.acc = acc
  BY <1>2, <1>3
<1>5. StoreOk'
  BY <1>4 DEF StoreOk
<1>6. Keys!Loaded(store') # None /\ Keys!Loaded(store').acc = acc /\ Keys!Loaded(store').i = i
  BY <1>4 DEF Keys!Loaded
<1>7. Keys!Opened(store').acc = acc /\ Keys!Opened(store').sel = Keys!Address(acc, i)
  BY <1>4, <1>6 DEF Keys!Opened, Keys!NoTab
<1>8. Agreed(t)'
  BY <1>1, <1>7 DEF Agreed
<1> QED BY <1>1, <1>5, <1>8 DEF KeysInv

LEMMA KeysOpen ==
  ASSUME KeysConstants, KeysInv, NEW t \in Tabs, Keys!Open(t)
  PROVE  KeysInv' /\ Agreed(t)'
<1> DEFINE p == Keys!Opened(store)
<1>1. /\ TabOk(p) /\ p.open /\ tab' = [tab EXCEPT ![t] = p]
  BY OpenedSays DEF Keys!Open, KeysInv
<1>2. p.acc = (IF Keys!Loaded(store) = None THEN None ELSE Keys!Loaded(store).acc)
  BY OpenedSays DEF KeysInv
<1>3. p.sel = IF store.watch THEN Keys!Watched
              ELSE IF Keys!Loaded(store) = None THEN None ELSE Keys!Address(Keys!Loaded(store).acc, Keys!Loaded(store).i)
  BY OpenedSays DEF KeysInv
<1>4. sent' = None
  BY DEF Keys!Open
<1> HIDE DEF p
<1>5. TabsOk' /\ tab'[t] = p
  BY <1>1, TabSteps DEF KeysInv
<1>6. CASE store' = store
  <2>1. StoreOk' /\ Keys!Opened(store)' = p
    BY <1>6 DEF KeysInv, StoreOk, p
  <2> QED BY <1>1, <1>4, <1>5, <2>1 DEF KeysInv, Agreed, Keys!ChangeComesBack
<1>7. CASE store.keyring = None /\ store.single # None /\ store' = Keys!Saved(store, store.single.acc, 0)
  <2> DEFINE acc == store.single.acc
  <2>1. acc \in Accounts /\ Keys!Loaded(store) = [acc |-> acc, i |-> 0]
    BY <1>7 DEF KeysInv, StoreOk, Keys!Loaded
  <2>2. Keys!Loaded(store) # None
    BY <2>1 DEF KeysConstants, Entries
  <2>3. Keys!Loaded(store).acc = acc /\ Keys!Loaded(store).i = 0
    BY <2>1
  <2> HIDE DEF acc
  <2>4. /\ DOMAIN store' = {"keyring", "single", "watch"} /\ store'.watch = store.watch
        /\ store'.keyring \in Entries /\ store'.keyring # None /\ store'.single.acc = acc
        /\ Keys!Loaded(store') # None /\ Keys!Loaded(store').acc = acc /\ Keys!Loaded(store').i = 0
    <3>1. DOMAIN store = {"keyring", "single", "watch"} /\ store' = Keys!Saved(store, acc, 0)
      BY <1>7 DEF KeysInv, StoreOk, acc
    <3>2. 0 \in {0, 1}
      OBVIOUS
    <3> QED BY <2>1, <3>1, <3>2, SavedSays
  <2>5. StoreOk'
    BY <2>1, <2>4 DEF KeysInv, StoreOk
  <2>6. /\ Keys!Opened(store').acc = p.acc
        /\ Keys!Opened(store').sel = p.sel
    BY <1>2, <1>3, <2>2, <2>3, <2>4 DEF Keys!Opened, Keys!NoTab
  <2> QED BY <1>1, <1>4, <1>5, <2>5, <2>6 DEF KeysInv, Agreed, Keys!ChangeComesBack
<1> QED BY <1>6, <1>7 DEF Keys!Open

LEMMA KeysHandler ==
  ASSUME KeysConstants, KeysInv, NEW t \in Tabs, tab[t].open, Keys!Handler(t)
  PROVE  KeysInv' /\ (Agreed(t) => Agreed(t)')
<1>0. /\ IsFiniteSet(tab[t].ops) /\ Cardinality(tab[t].ops) <= MaxOps
      /\ \A o \in tab[t].ops : OpOk(o)
      /\ tab[t].words \in Words \cup {None} /\ tab[t].acc \in Accounts \cup {None}
      /\ DOMAIN tab[t] = {"open", "acc", "sel", "words", "ops"} /\ TabOk(tab[t]) /\ DOMAIN tab = Tabs
  BY DEF KeysInv, TabsOk, TabOk
<1>a. \A o : IsFiniteSet(tab[t].ops \ {o}) /\ Cardinality(tab[t].ops \ {o}) <= MaxOps
  BY <1>0, OpsKeep
<1>b. \A o \in tab[t].ops : \A x : /\ IsFiniteSet((tab[t].ops \ {o}) \cup {x})
                                    /\ Cardinality((tab[t].ops \ {o}) \cup {x}) <= MaxOps
  BY <1>0, OpsKeep
<1>c. ASSUME NEW x, OpOk(x), Keys!Op(t, x), store' = store, sent' = None
      PROVE  KeysInv' /\ (Agreed(t) => Agreed(t)')
  <2>1. IsFiniteSet(tab[t].ops \cup {x}) /\ Cardinality(tab[t].ops \cup {x}) <= MaxOps
    <3>1. Cardinality(tab[t].ops) < MaxOps
      BY <1>c DEF Keys!Op, Keys!Cardinality, Cardinality
    <3> QED BY <1>0, <3>1, OpsGrow
  <2>2. tab' = [tab EXCEPT ![t] = [@ EXCEPT !.ops = tab[t].ops \cup {x}, !.words = tab[t].words]]
    BY <1>0, <1>c DEF Keys!Op
  <2>3. Keys!ChangeComesBack'
    BY <1>c DEF Keys!ChangeComesBack
  <2> QED BY <1>0, <1>c, <2>1, <2>2, <2>3, StaysWithAccount
<1>d. ASSUME NEW o \in tab[t].ops, NEW words \in Words \cup {None}, store' = store, Keys!ChangeComesBack',
             tab' = [tab EXCEPT ![t] = [@ EXCEPT !.ops = tab[t].ops \ {o}, !.words = words]]
      PROVE  KeysInv' /\ (Agreed(t) => Agreed(t)')
  BY <1>0, <1>a, <1>d, StaysWithAccount
<1>e. ASSUME NEW o \in tab[t].ops, NEW x, OpOk(x), NEW words \in Words \cup {None}, store' = store, sent' = None,
             tab' = [tab EXCEPT ![t] = [@ EXCEPT !.ops = (tab[t].ops \ {o}) \cup {x}, !.words = words]]
      PROVE  KeysInv' /\ (Agreed(t) => Agreed(t)')
  <2>1. \A y \in (tab[t].ops \ {o}) \cup {x} : OpOk(y)
    BY <1>0, <1>e
  <2>2. Keys!ChangeComesBack'
    BY <1>e DEF Keys!ChangeComesBack
  <2> QED BY <1>b, <1>e, <2>1, <2>2, StaysWithAccount
<1>f. ASSUME store' = store, tab' = tab, sent' = None
      PROVE  KeysInv' /\ (Agreed(t) => Agreed(t)')
  BY <1>f DEF KeysInv, TabsOk, StoreOk, Agreed, Keys!ChangeComesBack
<1>g. ASSUME NEW o \in tab[t].ops, o.acc \in Accounts, NEW i \in {0, 1}, Keys!Adopt(t, o, i), sent' = None,
             NEW words \in Words \cup {None},
             tab' = [tab EXCEPT ![t] = [@ EXCEPT !.acc = o.acc, !.sel = Keys!Address(o.acc, i),
                                                 !.ops = tab[t].ops \ {o}, !.words = words]]
      PROVE  KeysInv' /\ Agreed(t)'
  <2> DEFINE p == [tab[t] EXCEPT !.acc = o.acc, !.sel = Keys!Address(o.acc, i), !.ops = tab[t].ops \ {o}, !.words = words]
  <2>1. /\ p.open = tab[t].open /\ p.acc = o.acc /\ p.sel = Keys!Address(o.acc, i)
        /\ p.ops = tab[t].ops \ {o} /\ p.words = words /\ DOMAIN p = {"open", "acc", "sel", "words", "ops"}
    BY <1>0
  <2>2. tab' = [tab EXCEPT ![t] = p]
    BY <1>g
  <2>3. p.sel.acc = o.acc
    BY <2>1 DEF Keys!Address
  <2> HIDE DEF p
  <2>4. TabOk(p)
    BY <1>0, <1>a, <1>g, <2>1, <2>3 DEF TabOk
  <2>5. Keys!ChangeComesBack' /\ store' = Keys!Adopted(store, o.acc, i)
    BY <1>g DEF Keys!ChangeComesBack, Keys!Adopt
  <2> QED BY <1>g, <2>1, <2>2, <2>4, <2>5, TakesAccount
<1>1. ASSUME NEW k \in {"create", "insert", "import"}, NEW acc \in Accounts, Keys!Begin(t, k, acc)
      PROVE  KeysInv' /\ (Agreed(t) => Agreed(t)')
  <2> DEFINE x == [kind |-> k, acc |-> acc]
  <2>1. OpOk(x)
    BY DEF OpOk
  <2>2. Keys!Op(t, x) /\ store' = store /\ sent' = None
    BY <1>1 DEF Keys!Begin
  <2> HIDE DEF x
  <2> QED BY <1>c, <2>1, <2>2
<1>2. CASE Keys!CreateWords(t)
  <2>1. PICK o \in tab[t].ops : /\ o.kind = "create" /\ sent' = None /\ UNCHANGED <<store, shown>>
           /\ tab' = [tab EXCEPT ![t].words = o.acc.words, ![t].ops = (@ \ {o}) \cup {[o EXCEPT !.kind = "derive"]}]
    BY <1>2 DEF Keys!CreateWords
  <2> DEFINE x == [o EXCEPT !.kind = "derive"]
  <2>2. o.acc \in Accounts /\ DOMAIN o = {"kind", "acc"}
    BY <1>0, <2>1 DEF OpOk
  <2>3. OpOk(x)
    BY <2>2 DEF OpOk
  <2>4. o.acc.words \in Words \cup {None}
    BY <2>2, WordsOfAccount
  <2>5. tab' = [tab EXCEPT ![t] = [@ EXCEPT !.ops = (tab[t].ops \ {o}) \cup {x}, !.words = o.acc.words]]
    BY <1>0, <2>1
  <2> HIDE DEF x
  <2> QED BY <1>e, <2>1, <2>3, <2>4, <2>5
<1>3. CASE Keys!CreateEnds(t)
  <2>1. PICK o \in tab[t].ops : /\ o.kind = "derive" /\ Keys!Adopt(t, o, 0) /\ sent' = None
                               /\ tab' = [tab EXCEPT ![t] = Keys!InUse(@, o, 0)]
    BY <1>3 DEF Keys!CreateEnds
  <2>2. tab' = [tab EXCEPT ![t] = [@ EXCEPT !.acc = o.acc, !.sel = Keys!Address(o.acc, 0),
                                            !.ops = tab[t].ops \ {o}, !.words = tab[t].words]]
    BY <1>0, <2>1 DEF Keys!InUse
  <2>3. o.acc \in Accounts /\ 0 \in {0, 1}
    BY <1>0, <2>1 DEF OpOk
  <2> QED BY <1>0, <1>g, <2>1, <2>2, <2>3
<1>4. CASE Keys!Throws(t)
  <2>1. PICK o \in tab[t].ops : tab' = [tab EXCEPT ![t].ops = @ \ {o}] /\ sent' = None /\ store' = store
    BY <1>4 DEF Keys!Throws
  <2>2. tab' = [tab EXCEPT ![t] = [@ EXCEPT !.ops = tab[t].ops \ {o}, !.words = tab[t].words]]
    BY <1>0, <2>1
  <2>3. Keys!ChangeComesBack'
    BY <2>1 DEF Keys!ChangeComesBack
  <2> QED BY <1>0, <1>d, <2>1, <2>2, <2>3
<1>5. ASSUME NEW i \in {0, 1}, Keys!ReplaceEnds(t, i)
      PROVE  KeysInv' /\ (Agreed(t) => Agreed(t)')
  <2>1. PICK o \in tab[t].ops : /\ o.kind \in {"insert", "import"} /\ Keys!Adopt(t, o, i) /\ sent' = None
                               /\ tab' = [tab EXCEPT ![t] = [Keys!InUse(@, o, i) EXCEPT !.words = o.acc.words]]
    BY <1>5 DEF Keys!ReplaceEnds
  <2>2. tab' = [tab EXCEPT ![t] = [@ EXCEPT !.acc = o.acc, !.sel = Keys!Address(o.acc, i),
                                            !.ops = tab[t].ops \ {o}, !.words = o.acc.words]]
    BY <1>0, <2>1 DEF Keys!InUse
  <2>3. o.acc \in Accounts
    BY <1>0, <2>1 DEF OpOk
  <2>4. o.acc.words \in Words \cup {None}
    BY <2>3, WordsOfAccount
  <2>5. KeysInv' /\ Agreed(t)'
    BY <1>g, <2>1, <2>2, <2>3, <2>4, ZenonT(30)
  <2> QED BY <2>5
<1>6. ASSUME NEW i \in {0, 1}, Keys!ActivateAccountAddress(t, i)
      PROVE  KeysInv' /\ (Agreed(t) => Agreed(t)')
  <2> DEFINE acc == tab[t].acc  p == [tab[t] EXCEPT !.sel = Keys!Address(acc, i)]
  <2>1. /\ acc \in Accounts /\ tab' = [tab EXCEPT ![t] = p]
        /\ store' = Keys!Adopted(store, acc, i) /\ sent' = None
    BY <1>0, <1>6 DEF Keys!ActivateAccountAddress
  <2>2. /\ p.open = tab[t].open /\ p.acc = acc /\ p.sel = Keys!Address(acc, i)
        /\ p.ops = tab[t].ops /\ p.words = tab[t].words /\ DOMAIN p = {"open", "acc", "sel", "words", "ops"}
    BY <1>0
  <2>3. p.sel.acc = acc
    BY <2>2 DEF Keys!Address
  <2>4. Keys!ChangeComesBack'
    BY <2>1 DEF Keys!ChangeComesBack
  <2> HIDE DEF acc, p
  <2>5. TabOk(p)
    BY <1>0, <2>1, <2>2, <2>3 DEF TabOk
  <2> QED BY <2>1, <2>2, <2>4, <2>5, TakesAccount
<1>7. CASE Keys!UseExistingAddress(t)
  <2> DEFINE p == [tab[t] EXCEPT !.sel = Keys!Watched]
  <2>1. tab' = [tab EXCEPT ![t] = p] /\ store' = [store EXCEPT !.watch = TRUE] /\ sent' = None
    BY <1>7 DEF Keys!UseExistingAddress
  <2>2. /\ p.open = tab[t].open /\ p.acc = tab[t].acc /\ p.sel = Keys!Watched
        /\ p.ops = tab[t].ops /\ p.words = tab[t].words /\ DOMAIN p = {"open", "acc", "sel", "words", "ops"}
    BY <1>0
  <2>3. ~p.sel.full
    BY <2>2 DEF Keys!Watched
  <2> HIDE DEF p
  <2>4. TabOk(p)
    BY <1>0, <2>2, <2>3 DEF TabOk
  <2>5. TabsOk' /\ tab'[t] = p
    BY <2>1, <2>4, TabSteps DEF KeysInv
  <2>6. /\ DOMAIN store' = DOMAIN store /\ store'.watch = TRUE
        /\ store'.keyring = store.keyring /\ store'.single = store.single
    BY <2>1 DEF KeysInv, StoreOk
  <2>7. StoreOk'
    BY <2>6 DEF KeysInv, StoreOk
  <2>8. Keys!Loaded(store') = Keys!Loaded(store)
    BY <2>6 DEF Keys!Loaded
  <2>9. Keys!Opened(store').acc = Keys!Opened(store).acc /\ Keys!Opened(store').sel = Keys!Watched
    BY <2>6, <2>8 DEF Keys!Opened, Keys!NoTab
  <2>10. Agreed(t) => Agreed(t)'
    BY <2>2, <2>5, <2>9 DEF Agreed
  <2> QED BY <2>1, <2>5, <2>7, <2>10 DEF KeysInv, Keys!ChangeComesBack
<1>8. CASE Keys!ShowBackup(t)
  <2>1. CASE tab[t].words # None
    BY <1>f, <1>8, <2>1 DEF Keys!ShowBackup
  <2>2. CASE tab[t].words = None
    <3> DEFINE x == [kind |-> "words", acc |-> tab[t].acc]
    <3>1. Keys!Op(t, x) /\ store' = store /\ sent' = None /\ tab[t].acc \in Accounts
      BY <1>0, <1>8, <2>2 DEF Keys!ShowBackup
    <3>2. OpOk(x)
      BY <3>1 DEF OpOk
    <3> HIDE DEF x
    <3> QED BY <1>c, <3>1, <3>2
  <2> QED BY <2>1, <2>2
<1>9. CASE Keys!WordsDerived(t)
  <2>1. PICK o \in tab[t].ops : /\ o.kind = "words" /\ sent' = None /\ store' = store
                               /\ tab' = [tab EXCEPT ![t].words = o.acc.words, ![t].ops = @ \ {o}]
    BY <1>9 DEF Keys!WordsDerived
  <2>2. tab' = [tab EXCEPT ![t] = [@ EXCEPT !.ops = tab[t].ops \ {o}, !.words = o.acc.words]]
    BY <1>0, <2>1
  <2>3. o.acc.words \in Words \cup {None}
    BY <1>0, <2>1, WordsOfAccount DEF OpOk
  <2>4. Keys!ChangeComesBack'
    BY <2>1 DEF Keys!ChangeComesBack
  <2> QED BY <1>d, <2>1, <2>2, <2>3, <2>4
<1>10. CASE Keys!SendFAE(t)
  <2> DEFINE x == [kind |-> "spendable", of |-> tab[t].sel]
  <2>1. Keys!Op(t, x) /\ store' = store /\ sent' = None
    BY <1>10 DEF Keys!SendFAE
  <2>2. OpOk(x)
    BY DEF OpOk
  <2> HIDE DEF x
  <2> QED BY <1>c, <2>1, <2>2
<1>11. CASE Keys!Sign(t)
  <2>1. PICK o \in tab[t].ops : /\ sent' = None /\ store' = store
                               /\ tab' = [tab EXCEPT ![t].ops = (@ \ {o}) \cup {Keys!Transaction(t, o)}]
    BY <1>11 DEF Keys!Sign
  <2> DEFINE x == Keys!Transaction(t, o)
  <2>2. OpOk(x)
    BY DEF OpOk, Keys!Transaction
  <2>3. tab' = [tab EXCEPT ![t] = [@ EXCEPT !.ops = (tab[t].ops \ {o}) \cup {x}, !.words = tab[t].words]]
    BY <1>0, <2>1
  <2>4. tab[t].words \in Words \cup {None} /\ store' = store /\ sent' = None
    BY <1>0, <2>1
  <2> HIDE DEF x
  <2> QED BY <1>e, <2>2, <2>3, <2>4, ZenonT(30)
<1>12. CASE Keys!Accepted(t)
  <2>1. PICK o \in tab[t].ops : /\ o.kind = "submit" /\ Keys!NodeAccepts(o) /\ store' = store
                               /\ sent' = [of |-> o.of, change |-> o.change]
                               /\ tab' = [tab EXCEPT ![t].ops = @ \ {o}]
    BY <1>12 DEF Keys!Accepted
  <2>2. tab' = [tab EXCEPT ![t] = [@ EXCEPT !.ops = tab[t].ops \ {o}, !.words = tab[t].words]]
    BY <1>0, <2>1
  <2>3. o.change = o.of
    BY <1>0, <2>1 DEF OpOk, Keys!NodeAccepts
  <2>4. Keys!ChangeComesBack'
    BY <2>1, <2>3 DEF Keys!ChangeComesBack
  <2> QED BY <1>0, <1>d, <2>1, <2>2, <2>4
<1> QED BY <1>1, <1>2, <1>3, <1>4, <1>5, <1>6, <1>7, <1>8, <1>9, <1>10, <1>11, <1>12 DEF Keys!Handler, Accounts, KeysConstants

LEMMA KeysInit ==
  ASSUME KeysConstants, Keys!Init
  PROVE  KeysInv /\ \A t \in Tabs : Agreed(t)
<1>1. TabsOk
  BY NoTabOk DEF Keys!Init, TabsOk
<1>2. StoreOk
  <2>1. PICK o \in {None, Keys!Address(Keys!Legacy, 0)} : store = [keyring |-> None, single |-> o, watch |-> FALSE]
    BY DEF Keys!Init
  <2> QED BY <2>1 DEF StoreOk, Keys!Address, Accounts
<1>3. \A t \in Tabs : Agreed(t)
  BY DEF Keys!Init, Agreed, Keys!NoTab
<1> QED BY <1>1, <1>2, <1>3 DEF KeysInv, Keys!Init, Keys!ChangeComesBack

LEMMA KeysHold ==
  ASSUME KeysConstants PROVE Keys!Spec => []KeysInv
<1>1. KeysInv /\ [Keys!Next]_Keys!vars => KeysInv'
  <2> SUFFICES ASSUME KeysInv, [Keys!Next]_Keys!vars PROVE KeysInv'
    OBVIOUS
  <2>1. CASE UNCHANGED Keys!vars
    BY <2>1 DEF KeysInv, TabsOk, StoreOk, Keys!ChangeComesBack, Keys!vars
  <2>2. CASE Keys!Next
    BY <2>2, KeysOpen, KeysHandler DEF Keys!Next
  <2> QED BY <2>1, <2>2
<1> QED BY <1>1, KeysInit, PTL DEF Keys!Spec

(* A transaction the node takes returns its change to the address whose     *)
(* outputs it spends, whatever is selected while the payment is under way   *)
(* (sendFAE): for any number of pages of one browser, accounts and handlers.*)
THEOREM ChangeReturns == ASSUME Keys!KeysAssumption PROVE Keys!Spec => [](Keys!TypeOK /\ Keys!ChangeComesBack)
<1>0. KeysConstants
  BY ConstantsOfKeys
<1>1. KeysInv => Keys!TypeOK /\ Keys!ChangeComesBack
  <2> SUFFICES ASSUME KeysInv PROVE Keys!TypeOK
    BY DEF KeysInv
  <2>1. \A t \in Tabs : Keys!Cardinality(tab[t].ops) <= MaxOps
    BY DEF KeysInv, TabsOk, TabOk, Keys!Cardinality, Cardinality
  <2>2. store.keyring # None => store.keyring.acc \in Keys!Account \cup {Keys!Legacy}
    BY DEF KeysInv, StoreOk, Entries, Accounts
  <2> QED BY <2>1, <2>2 DEF KeysInv, TabsOk, TabOk, StoreOk, Accounts, Keys!TypeOK
<1> QED BY <1>0, <1>1, KeysHold, PTL

(* A handler changes nothing but its own page, and does not close it.       *)
LEMMA OwnPage ==
  ASSUME KeysConstants, KeysInv, NEW u \in Tabs, Keys!Open(u) \/ (tab[u].open /\ Keys!Handler(u))
  PROVE  tab'[u].open /\ \A t \in Tabs \ {u} : tab'[t] = tab[t]
<1>1. DOMAIN tab = Tabs /\ DOMAIN tab[u] = {"open", "acc", "sel", "words", "ops"}
  BY DEF KeysInv, TabsOk, TabOk
<1>2. CASE Keys!Open(u)
  <2>1. Keys!Opened(store).open
    BY OpenedSays DEF KeysInv
  <2> QED BY <1>1, <1>2, <2>1 DEF Keys!Open
<1>3. CASE tab[u].open /\ Keys!Handler(u)
  <2>1. ASSUME NEW x, Keys!Op(u, x) PROVE tab'[u].open /\ \A t \in Tabs \ {u} : tab'[t] = tab[t]
    BY <1>1, <1>3, <2>1 DEF Keys!Op
  <2>2. ASSUME NEW k, NEW acc, Keys!Begin(u, k, acc) PROVE tab'[u].open /\ \A t \in Tabs \ {u} : tab'[t] = tab[t]
    BY <2>1, <2>2 DEF Keys!Begin
  <2>3. CASE Keys!CreateWords(u) \/ Keys!Throws(u) \/ Keys!WordsDerived(u) \/ Keys!Sign(u) \/ Keys!Accepted(u)
    <3>1. CASE Keys!CreateWords(u) \/ Keys!WordsDerived(u)
      <4>1. PICK w, ops : tab' = [tab EXCEPT ![u].words = w, ![u].ops = ops]
        BY <3>1 DEF Keys!CreateWords, Keys!WordsDerived
      <4> QED BY <1>1, <1>3, <4>1
    <3>2. CASE Keys!Throws(u) \/ Keys!Sign(u) \/ Keys!Accepted(u)
      <4>1. PICK ops : tab' = [tab EXCEPT ![u].ops = ops]
        BY <3>2 DEF Keys!Throws, Keys!Sign, Keys!Accepted
      <4> QED BY <1>1, <1>3, <4>1
    <3> QED BY <2>3, <3>1, <3>2
  <2>4. CASE Keys!CreateEnds(u)
    BY <1>1, <1>3, <2>4 DEF Keys!CreateEnds, Keys!InUse
  <2>5. ASSUME NEW i \in {0, 1}, Keys!ReplaceEnds(u, i) PROVE tab'[u].open /\ \A t \in Tabs \ {u} : tab'[t] = tab[t]
    BY <1>1, <1>3, <2>5 DEF Keys!ReplaceEnds, Keys!InUse
  <2>6. ASSUME NEW i \in {0, 1}, Keys!ActivateAccountAddress(u, i) PROVE tab'[u].open /\ \A t \in Tabs \ {u} : tab'[t] = tab[t]
    BY <1>1, <1>3, <2>6 DEF Keys!ActivateAccountAddress
  <2>7. CASE Keys!UseExistingAddress(u)
    BY <1>1, <1>3, <2>7 DEF Keys!UseExistingAddress
  <2>8. CASE Keys!ShowBackup(u)
    <3>1. tab' = tab \/ \E x : Keys!Op(u, x)
      BY <2>8 DEF Keys!ShowBackup
    <3> QED BY <1>3, <2>1, <3>1
  <2>9. CASE Keys!SendFAE(u)
    <3>1. \E x : Keys!Op(u, x)
      BY <2>9 DEF Keys!SendFAE
    <3> QED BY <2>1, <3>1
  <2> QED BY <1>3, <2>2, <2>3, <2>4, <2>5, <2>6, <2>7, <2>8, <2>9 DEF Keys!Handler
<1> QED BY <1>2, <1>3

(* Nothing a page does itself takes the keys, the account or the address it *)
(* uses away from what the browser keeps (saveAccount, activateAccount and  *)
(* the import and create handlers of wallet.js): for any number of pages,   *)
(* whose handlers overlap.  A page opens on what is kept.                   *)
THEOREM PagesKeepTheirOwn == ASSUME Keys!KeysAssumption PROVE Keys!Spec => [][Keys!KeepsItsOwn]_Keys!vars
<1>0. KeysConstants
  BY ConstantsOfKeys
<1>1. KeysInv /\ [Keys!Next]_Keys!vars => [Keys!KeepsItsOwn]_Keys!vars
  <2> SUFFICES ASSUME KeysInv, NEW u \in Tabs, Keys!Open(u) \/ (tab[u].open /\ Keys!Handler(u)),
                      NEW t \in Tabs, tab'[t] # tab[t], tab[t].open => Keys!Reloads(t)
               PROVE  Keys!Reloads(t)'
    BY DEF Keys!KeepsItsOwn, Keys!Next
  <2>1. u = t /\ tab'[t].open
    BY <1>0, OwnPage
  <2>2. CASE Keys!Open(t)
    <3>1. Agreed(t)'
      BY <1>0, <2>2, KeysOpen
    <3> QED BY <2>1, <3>1 DEF Agreed, Keys!Reloads
  <2>3. CASE tab[t].open /\ Keys!Handler(t)
    <3>1. Agreed(t)
      BY <2>3 DEF Agreed, Keys!Reloads
    <3>2. Agreed(t)'
      BY <1>0, <2>3, <3>1, KeysHandler
    <3> QED BY <2>1, <3>2 DEF Agreed, Keys!Reloads
  <2> QED BY <2>1, <2>2, <2>3
<1> QED BY <1>0, <1>1, KeysHold, PTL DEF Keys!Spec
-----------------------------------------------------------------------------
(* The history panel of a page.                                             *)
CONSTANTS Addresses, Payloads, Garbage, MaxSeq
VARIABLES wallet, seq, asking, shared, hist, box, life, net
History == INSTANCE WalletHistory WITH open <- asking

(* The history panel.  A shared refresh is of the active address and the    *)
(* last one; without an address there is one refresh at most, since then    *)
(* the page was never on any.                                               *)
Alike(q, s) == q.id = s.id /\ q.addr = s.addr
Run == [id : Nat, addr : Addresses \cup {None}, at : {"network", "account"}]
RefreshOk ==
  /\ seq \in Nat
  /\ \A q \in asking : q \in Run /\ q.id <= seq
  /\ shared # None => shared.id = seq /\ shared.addr = wallet
  /\ shared # None => \E q \in asking : Alike(q, shared)
OnlyOne == (asking = {} /\ shared = None) \/ (shared # None /\ \E q : asking = {q} /\ q.id = seq)
PanelOk ==
  /\ hist.id \in Nat /\ hist.id <= seq
  /\ box.kind \in {"rows", "empty_within_available_coverage"} => box.addr = wallet /\ hist.addr = wallet
  /\ History!ClaimsAreTrue
  /\ wallet \in Addresses \cup {None}
Lives == {"idle", "loading", "ready_recent", "empty_within_available_coverage", "invalid_payload", "stale", "unavailable"}
LooksOk == life \in Lives /\ net \in {"connecting", "online", "offline"}
HistoryInv == RefreshOk /\ (wallet = None => OnlyOne) /\ PanelOk /\ LooksOk

LEMMA HistoryInit == ASSUME History!Init PROVE HistoryInv
BY DEF History!Init, HistoryInv, RefreshOk, OnlyOne, PanelOk, LooksOk, Lives, History!ClaimsAreTrue

(* What an answer makes of the panel: rows are shown for whom they concern. *)
LEMMA NormalSays ==
  ASSUME NEW r, NEW a, History!Normal(r, a)
  PROVE  a \in r.to \cup {r.from} /\ (r.status = "confirmed" => r.height > 0) /\ (r.status = "pending" => r.height = 0)
<1>1. a \in r.to \cup {r.from}
  BY DEF History!Normal, History!Direction
<1>2. (r.status = "confirmed" => r.height > 0) /\ (r.status = "pending" => r.height = 0)
  BY DEF History!Normal, History!StatusKind
<1> QED BY <1>1, <1>2

LEMMA PayloadSays ==
  ASSUME NEW p, NEW a
  PROVE  LET n == History!NormalizeHistoryPayload(p, a) IN
         /\ n.state \in {"invalid_payload", "ready_recent", "empty_within_available_coverage"}
         /\ n.state = "ready_recent" => n.txs # {}
         /\ n.state = "empty_within_available_coverage" => n.txs = {}
         /\ \A r \in n.txs : History!Normal(r, a)
<1>1. CASE p = Garbage
  BY <1>1 DEF History!NormalizeHistoryPayload
<1>2. CASE p # Garbage
  BY <1>2 DEF History!NormalizeHistoryPayload
<1> QED BY <1>1, <1>2

(* An answer or a failure of the present request keeps the panel right.     *)
LEMMA AnswerKeeps ==
  ASSUME HistoryInv, NEW q \in asking, History!HistoryRequestIsCurrent(q), wallet' = wallet, seq' = seq,
         History!FailHistoryRequest(q) \/ \E p \in Payloads : History!ApplyHistoryPayload(q, p)
  PROVE  PanelOk' /\ life' \in Lives /\ hist'.id >= hist.id
<1>0. /\ q.id = seq /\ q.addr = wallet /\ seq \in Nat /\ hist.id <= seq /\ hist.id \in Nat
      /\ wallet \in Addresses \cup {None}
  BY DEF HistoryInv, RefreshOk, PanelOk, History!HistoryRequestIsCurrent
<1>1. CASE History!FailHistoryRequest(q)
  <2>1. hist'.id = q.id /\ life' \in {"stale", "unavailable"}
    BY <1>1 DEF History!FailHistoryRequest
  <2>2. box'.kind \in {"rows", "empty_within_available_coverage"} => box'.addr = wallet /\ hist'.addr = wallet
    BY <1>0, <1>1 DEF History!FailHistoryRequest, HistoryInv, PanelOk
  <2> QED BY <1>0, <2>1, <2>2 DEF PanelOk, Lives, History!ClaimsAreTrue
<1>2. CASE \E p \in Payloads : History!ApplyHistoryPayload(q, p)
  <2>1. PICK p \in Payloads : History!ApplyHistoryPayload(q, p)
    BY <1>2
  <2> DEFINE n == History!NormalizeHistoryPayload(p, q.addr)
  <2>2. /\ n.state \in {"invalid_payload", "ready_recent", "empty_within_available_coverage"}
        /\ n.state = "ready_recent" => n.txs # {}
        /\ n.state = "empty_within_available_coverage" => n.txs = {}
        /\ \A r \in n.txs : History!Normal(r, q.addr)
    BY PayloadSays
  <2>3. /\ hist'.id = q.id /\ hist'.addr = q.addr /\ hist'.txs = n.txs /\ life' = n.state
        /\ box'.addr = q.addr
    BY <2>1 DEF History!ApplyHistoryPayload
  <2> HIDE DEF n
  <2>4. \A r \in hist'.txs : /\ wallet \in r.to \cup {r.from} /\ (r.status = "confirmed" => r.height > 0)
                             /\ (r.status = "pending" => r.height = 0)
    BY <1>0, <2>2, <2>3, NormalSays
  <2>5. History!ClaimsAreTrue'
    BY <1>0, <2>2, <2>3, <2>4 DEF History!ClaimsAreTrue
  <2> QED BY <1>0, <2>2, <2>3, <2>5 DEF PanelOk, Lives
<1> QED BY <1>1, <1>2, <1>2

(* A run that ends leaves the others and what they share.                   *)
LEMMA FinishKeeps ==
  ASSUME HistoryInv, NEW q \in asking, History!Finish(q), wallet' = wallet, seq' = seq
  PROVE  RefreshOk' /\ (wallet' = None => OnlyOne')
<1>1. asking' = asking \ {q} /\ shared' = IF shared # None /\ shared.id = q.id THEN None ELSE shared
  BY DEF History!Finish
<1>2. shared' # None => shared' = shared /\ shared.id # q.id
  BY <1>1
<1>3. shared' # None => \E r \in asking' : Alike(r, shared')
  BY <1>1, <1>2 DEF HistoryInv, RefreshOk, Alike
<1>4. RefreshOk'
  BY <1>1, <1>2, <1>3 DEF HistoryInv, RefreshOk
<1>5. wallet' = None => OnlyOne'
  BY <1>1, <1>2 DEF HistoryInv, RefreshOk, OnlyOne
<1> QED BY <1>4, <1>5

LEMMA HistoryNext ==
  ASSUME History!HistoryAssumption, HistoryInv, [History!Next]_History!vars
  PROVE  HistoryInv' /\ (hist' # hist => hist'.id >= hist.id)
<1>1. CASE UNCHANGED History!vars
  BY <1>1 DEF HistoryInv, RefreshOk, OnlyOne, PanelOk, LooksOk, History!ClaimsAreTrue, History!vars
<1>2. ASSUME NEW a, History!Refresh(a), a \in Addresses \cup {None}, a = wallet \/ a \in Addresses
      PROVE  HistoryInv' /\ hist' = hist
  <2>1. wallet' = a /\ hist' = hist
    BY <1>2 DEF History!Refresh
  <2>2. CASE shared # None /\ shared.addr = a
    <3>1. UNCHANGED <<seq, asking, shared, box, life, net>> /\ a = wallet
      BY <1>2, <2>2 DEF History!Refresh, HistoryInv, RefreshOk
    <3> QED BY <2>1, <3>1 DEF HistoryInv, RefreshOk, OnlyOne, PanelOk, LooksOk, History!ClaimsAreTrue
  <2>3. CASE ~(shared # None /\ shared.addr = a)
    <3> DEFINE q == [id |-> seq + 1, addr |-> a, at |-> "network"]
    <3>1. /\ seq' = seq + 1 /\ asking' = asking \cup {q}
          /\ shared' = [id |-> seq', addr |-> a]
          /\ net' = IF net = "online" THEN net ELSE "connecting"
          /\ IF a = None THEN UNCHANGED <<box, life>> ELSE History!BeginHistoryRequest(a)
      BY <1>2, <2>3 DEF History!Refresh
    <3>2. q \in Run /\ q.id = seq' /\ q.addr = a /\ shared'.id = seq' /\ shared'.addr = a
      <4>1. seq \in Nat /\ a \in Addresses \cup {None}
        BY <1>2 DEF HistoryInv, RefreshOk
      <4> QED BY <3>1, <4>1 DEF Run
    <3> HIDE DEF q
    <3>3. RefreshOk'
      <4>1. seq \in Nat /\ seq' \in Nat
        BY <3>1 DEF HistoryInv, RefreshOk
      <4>2. ASSUME NEW p \in asking' PROVE p \in Run /\ p.id <= seq'
        <5>1. CASE p = q
          BY <3>2, <4>1, <5>1
        <5>2. CASE p \in asking
          <6>1. p \in Run /\ p.id <= seq /\ p.id \in Nat
            BY <5>2 DEF HistoryInv, RefreshOk, Run
          <6> QED BY <3>1, <4>1, <6>1
        <5> QED BY <3>1, <5>1, <5>2
      <4>3. q \in asking' /\ Alike(q, shared')
        BY <3>1, <3>2 DEF Alike
      <4> QED BY <2>1, <3>2, <4>1, <4>2, <4>3 DEF RefreshOk
    <3>4. wallet' = None => OnlyOne'
      <4> SUFFICES ASSUME a = None PROVE OnlyOne'
        BY <2>1
      <4>1. wallet = None /\ OnlyOne
        BY <1>2 DEF History!HistoryAssumption, HistoryInv
      <4>2. shared = None
        BY <2>3, <4>1 DEF HistoryInv, RefreshOk
      <4>3. asking = {}
        BY <4>1, <4>2 DEF OnlyOne
      <4>4. asking' = {q} /\ shared' # None
        <5>1. shared' \in [id : Nat, addr : Addresses \cup {None}]
          BY <1>2, <3>1 DEF HistoryInv, RefreshOk
        <5> QED BY <3>1, <4>3, <5>1 DEF History!HistoryAssumption
      <4> QED BY <3>2, <4>4 DEF OnlyOne
    <3>5. PanelOk' /\ LooksOk'
      <4>0. hist'.id \in Nat /\ hist'.id <= seq'
        BY <2>1, <3>1 DEF HistoryInv, RefreshOk, PanelOk
      <4>1. CASE a = None
        <5>1. wallet' = wallet
          BY <1>2, <2>1, <4>1 DEF History!HistoryAssumption
        <5> QED BY <2>1, <3>1, <4>0, <4>1, <5>1 DEF HistoryInv, PanelOk, LooksOk, Lives, History!ClaimsAreTrue
      <4>2. CASE a # None
        <5>1. History!BeginHistoryRequest(a)
          BY <3>1, <4>2
        <5>2. life' = "loading" /\ (box'.kind \in {"rows", "empty_within_available_coverage"} => box' = box /\ hist.addr = a)
          BY <5>1 DEF History!BeginHistoryRequest
        <5>3. box'.kind \in {"rows", "empty_within_available_coverage"} => box'.addr = wallet' /\ hist'.addr = wallet'
          BY <2>1, <5>2 DEF HistoryInv, PanelOk
        <5>4. net' \in {"connecting", "online", "offline"}
          BY <3>1 DEF HistoryInv, LooksOk
        <5> QED BY <1>2, <2>1, <4>0, <5>2, <5>3, <5>4 DEF PanelOk, LooksOk, Lives, History!ClaimsAreTrue
      <4> QED BY <4>1, <4>2
    <3> QED BY <2>1, <3>3, <3>4, <3>5 DEF HistoryInv
  <2> QED BY <2>2, <2>3
<1>3. ASSUME NEW q \in asking, History!Settle(q)
      PROVE  HistoryInv' /\ (hist' # hist => hist'.id >= hist.id)
  <2>0. wallet' = wallet /\ seq' = seq
    BY <1>3 DEF History!Settle, History!NetworkFails, History!NetworkAnswers, History!AccountSettles
  <2>1. ASSUME UNCHANGED <<hist, box, life>> PROVE PanelOk' /\ life' \in Lives
    BY <2>0, <2>1 DEF HistoryInv, PanelOk, LooksOk, History!ClaimsAreTrue
  <2>2. CASE History!NetworkFails(q)
    <3>1. RefreshOk' /\ (wallet' = None => OnlyOne')
      BY <2>0, <2>2, FinishKeeps DEF History!NetworkFails
    <3>2. net' \in {"connecting", "online", "offline"}
      BY <2>2 DEF History!NetworkFails, HistoryInv, LooksOk
    <3>3. PanelOk' /\ life' \in Lives /\ (hist' # hist => hist'.id >= hist.id)
      BY <2>0, <2>1, <2>2, AnswerKeeps DEF History!NetworkFails
    <3> QED BY <3>1, <3>2, <3>3 DEF HistoryInv, LooksOk
  <2>3. CASE History!NetworkAnswers(q)
    <3>2. net' \in {"connecting", "online", "offline"}
      BY <2>3 DEF History!NetworkAnswers, HistoryInv, LooksOk
    <3>3. CASE q.addr # None
      <4> DEFINE r == [q EXCEPT !.at = "account"]
      <4>1. asking' = (asking \ {q}) \cup {r} /\ UNCHANGED <<shared, hist, box, life>>
        BY <2>3, <3>3 DEF History!NetworkAnswers
      <4>2. r \in Run /\ r.id = q.id /\ r.addr = q.addr
        BY DEF HistoryInv, RefreshOk, Run
      <4> HIDE DEF r
      <4>3. RefreshOk'
        <5>1. \A p \in asking' : p \in Run /\ p.id <= seq
          BY <4>1, <4>2 DEF HistoryInv, RefreshOk
        <5>2. shared # None => \E p \in asking' : Alike(p, shared)
          BY <4>1, <4>2 DEF HistoryInv, RefreshOk, Alike
        <5> QED BY <2>0, <4>1, <5>1, <5>2 DEF HistoryInv, RefreshOk
      <4>4. wallet' = None => OnlyOne'
        <5> SUFFICES ASSUME wallet = None PROVE OnlyOne'
          BY <2>0
        <5>1. asking = {q} /\ q.id = seq /\ shared # None
          BY DEF HistoryInv, OnlyOne
        <5>2. asking' = {r}
          BY <4>1, <5>1
        <5> QED BY <2>0, <4>1, <4>2, <5>1, <5>2 DEF OnlyOne
      <4> QED BY <2>1, <3>2, <4>1, <4>3, <4>4 DEF HistoryInv, LooksOk
    <3>4. CASE q.addr = None
      <4>1. RefreshOk' /\ (wallet' = None => OnlyOne')
        BY <2>0, <2>3, <3>4, FinishKeeps DEF History!NetworkAnswers
      <4>2. CASE wallet # None
        BY <2>1, <2>3, <3>2, <3>4, <4>1, <4>2 DEF History!NetworkAnswers, HistoryInv, LooksOk
      <4>3. CASE wallet = None
        <5>1. q.id = seq
          BY <4>3 DEF HistoryInv, OnlyOne
        <5>2. /\ hist'.id = q.id /\ box'.kind = "message" /\ life' = "idle"
          BY <2>3, <3>4, <4>3 DEF History!NetworkAnswers
        <5> QED BY <2>0, <3>2, <4>1, <5>1, <5>2 DEF HistoryInv, RefreshOk, PanelOk, LooksOk, Lives, History!ClaimsAreTrue
      <4> QED BY <4>2, <4>3
    <3> QED BY <3>3, <3>4
  <2>4. CASE History!AccountSettles(q)
    <3>1. RefreshOk' /\ (wallet' = None => OnlyOne')
      BY <2>0, <2>4, FinishKeeps DEF History!AccountSettles
    <3>3. PanelOk' /\ life' \in Lives /\ (hist' # hist => hist'.id >= hist.id)
      BY <2>0, <2>1, <2>4, AnswerKeeps DEF History!AccountSettles
    <3> QED BY <2>4, <3>1, <3>3 DEF HistoryInv, LooksOk, History!AccountSettles
  <2> QED BY <1>3, <2>2, <2>3, <2>4 DEF History!Settle
<1>4. wallet \in Addresses \cup {None}
  BY DEF HistoryInv, PanelOk
<1> QED BY <1>1, <1>2, <1>3, <1>4 DEF History!Next, History!RefreshAgain, History!Select

(* The invariant in every behaviour.                                        *)
LEMMA HistoryHolds == ASSUME History!HistoryAssumption PROVE History!Spec => []HistoryInv
<1>1. HistoryInv /\ [History!Next]_History!vars => HistoryInv'
  BY HistoryNext
<1> QED BY <1>1, HistoryInit, PTL DEF History!Spec

(* Rows on the page are those of the active address, and a panel that       *)
(* claims transfers, or none, had an answer that says so of that address:   *)
(* for any addresses, answers and number of requests under way, in whatever *)
(* order they are settled (refresh and refreshNow).                         *)
THEOREM RowsAreOfTheActive ==
  ASSUME History!HistoryAssumption PROVE History!Spec => [](History!TypeOK /\ History!RowsBelong /\ History!ClaimsAreTrue)
<1>1. HistoryInv => History!TypeOK /\ History!RowsBelong /\ History!ClaimsAreTrue
  BY DEF HistoryInv, RefreshOk, PanelOk, LooksOk, Lives, Alike, History!TypeOK, History!RowsBelong
<1> QED BY <1>1, HistoryHolds, PTL

(* An answer to an older request never takes the place of a newer one.      *)
THEOREM NoOlderAnswer == ASSUME History!HistoryAssumption PROVE History!Spec => [][History!NeverOlder]_History!vars
<1>1. HistoryInv /\ [History!Next]_History!vars => [History!NeverOlder]_History!vars
  BY HistoryNext DEF History!NeverOlder
<1> QED BY <1>1, HistoryHolds, PTL DEF History!Spec

CONSTANTS MaxHeight, MaxWork, MaxTicks, MaxSetBacks
VARIABLES peer, process, dir, clock, op, bundle
Operator == INSTANCE OperatorRun WITH node <- process

(* The runner of an independent operator.  Where it is tells how much it    *)
(* has recorded.                                                            *)
Stations == {"idle", "ready", "hello", "delay", "confirm", "progress", "stop", "stopping", "write",
             "done", "failed", "killed"}
Gone == {"idle", "done", "failed", "killed"}
Records == [pc : Stations, round : {1, 2}, since : Nat, until : Nat, rows : Seq([at : Nat, tip : Operator!Tip]),
            signed : Seq([id : {1}, tip : Operator!Tip]), pre : Operator!Tip, peers : Seq({TRUE})]
RunTypes ==
  /\ peer \in [tip : Operator!Tip, fell : BOOLEAN]
  /\ process \in [up : BOOLEAN, code : {0, 1}, auth : BOOLEAN, tip : Operator!Tip]
  /\ dir \in [id : {None, 1}, tip : Operator!Tip]
  /\ clock \in [now : Nat, ticks : 0..MaxTicks, back : Nat]
  /\ op \in Records
  /\ bundle \in {"none", "documents", "whole", "altered", "unreadable"}

At(pcs, round, rows, signed, peers) ==
  op.pc \in pcs /\ op.round = round /\ Len(op.rows) = rows /\ Len(op.signed) = signed /\ Len(op.peers) = peers
Counted ==
  \/ At({"idle", "failed", "killed"}, 1, 0, 0, 0)
  \/ At({"ready"}, 1, 0, 0, 0) \/ At({"hello"}, 1, 0, 0, 1)
  \/ At({"delay", "confirm"}, 1, 1, 1, 1) \/ At({"progress"}, 1, 2, 1, 1) \/ At({"stop", "stopping"}, 1, 3, 1, 1)
  \/ At({"ready"}, 2, 3, 1, 1) \/ At({"hello"}, 2, 3, 1, 2)
  \/ At({"stop", "stopping", "write", "done"}, 2, 4, 2, 2)

(* A process is there only while the runner is; the directory has what the  *)
(* process has; and a bundle is whole only when the run is over.            *)
Housed ==
  /\ op.pc \in {"idle", "done", "failed"} => ~process.up
  /\ process.up => process.tip = dir.tip
  /\ op.pc \notin Gone => dir.id = 1
  /\ bundle = "documents" => op.pc \in {"write", "killed"}
  /\ bundle \in {"whole", "altered", "unreadable"} <=> op.pc = "done"

(* What the runner signed is what it recorded.                              *)
Faithful ==
  /\ Len(op.signed) >= 1 => Len(op.rows) >= 1 /\ op.rows[1].tip = op.signed[1].tip
  /\ Len(op.signed) = 2 => Len(op.rows) = 4 /\ op.rows[4].tip = op.signed[2].tip
  /\ Len(op.rows) >= 3 => op.rows[3].tip = op.pre /\ op.rows[3].tip.h > op.rows[1].tip.h

(* While the peer never fell, heights only rise.                            *)
Rising ==
  ~peer.fell =>
    /\ dir.tip.h <= peer.tip.h
    /\ op.pc # "done" => \A i \in 1..Len(op.rows) : op.rows[i].tip.h <= dir.tip.h
    /\ \A i, j \in 1..Len(op.rows) : i < j => op.rows[i].tip.h <= op.rows[j].tip.h

(* While the clock is never set back, so does the time; a delay and a start *)
(* of a process take time.                                                  *)
Passing ==
  clock.back = 0 =>
    /\ op.pc \notin Gone => op.since < clock.now
    /\ \A i \in 1..Len(op.rows) : op.since <= op.rows[i].at /\ op.rows[i].at <= clock.now
    /\ op.pc = "confirm" => op.rows[1].at < clock.now
    /\ Len(op.rows) >= 2 => op.rows[1].at < op.rows[2].at
    /\ Len(op.rows) >= 3 => op.rows[2].at <= op.rows[3].at
    /\ op.round = 2 /\ Len(op.rows) = 3 => op.rows[3].at < clock.now
    /\ Len(op.rows) = 4 => op.rows[3].at < op.rows[4].at
    /\ op.pc \in {"write", "done"} =>
         op.since < op.until /\ \A i \in 1..Len(op.rows) : op.rows[i].at <= op.until

(* The clock passes the bound on its ticks by the two starts and the delay. *)
Spent ==
  /\ op.pc = "idle" => clock.now <= clock.ticks
  /\ op.round = 1 /\ op.pc \in {"ready", "hello", "delay"} => clock.now <= clock.ticks + 1
  /\ op.round = 1 /\ op.pc \notin Gone => clock.now <= clock.ticks + 2
  /\ clock.now <= clock.ticks + 3

RunInv == RunTypes /\ Counted /\ Housed /\ Faithful /\ Rising /\ Passing /\ Spent

RunAssumption == Operator!OperatorAssumption

LEMMA RunFacts ==
  ASSUME RunAssumption, RunTypes
  PROVE  /\ MaxHeight \in Nat /\ MaxWork \in Nat /\ MaxTicks \in Nat
         /\ peer.tip \in Operator!Tip /\ dir.tip \in Operator!Tip /\ process.tip \in Operator!Tip
         /\ peer.tip.h \in Nat /\ dir.tip.h \in Nat /\ process.tip.h \in Nat /\ peer.tip.w \in Nat
         /\ clock.now \in Nat /\ clock.ticks \in 0..MaxTicks /\ clock.ticks \in Nat /\ clock.back \in Nat
         /\ op.round \in {1, 2} /\ op.since \in Nat /\ op.until \in Nat
         /\ op.rows \in Seq([at : Nat, tip : Operator!Tip]) /\ op.signed \in Seq([id : {1}, tip : Operator!Tip])
         /\ op.peers \in Seq({TRUE}) /\ Len(op.rows) \in Nat /\ Len(op.signed) \in Nat /\ Len(op.peers) \in Nat
         /\ \A i \in 1..Len(op.rows) : op.rows[i].at \in Nat /\ op.rows[i].tip \in Operator!Tip /\ op.rows[i].tip.h \in Nat
<1>1. MaxHeight \in Nat /\ MaxWork \in Nat /\ MaxTicks \in Nat
  BY DEF RunAssumption, Operator!OperatorAssumption
<1>2. \A t \in Operator!Tip : t.h \in Nat /\ t.w \in Nat
  BY <1>1 DEF Operator!Tip
<1>3. peer.tip \in Operator!Tip /\ dir.tip \in Operator!Tip /\ process.tip \in Operator!Tip
  BY DEF RunTypes
<1>4. clock.now \in Nat /\ clock.ticks \in 0..MaxTicks /\ clock.ticks \in Nat /\ clock.back \in Nat
  BY <1>1 DEF RunTypes
<1>5. /\ op.round \in {1, 2} /\ op.since \in Nat /\ op.until \in Nat
      /\ op.rows \in Seq([at : Nat, tip : Operator!Tip]) /\ op.signed \in Seq([id : {1}, tip : Operator!Tip])
      /\ op.peers \in Seq({TRUE})
  BY DEF RunTypes, Records
<1>6. Len(op.rows) \in Nat /\ Len(op.signed) \in Nat /\ Len(op.peers) \in Nat
  BY <1>5, LenProperties
<1>7. ASSUME NEW i \in 1..Len(op.rows) PROVE op.rows[i].at \in Nat /\ op.rows[i].tip \in Operator!Tip
  <2>1. op.rows[i] \in [at : Nat, tip : Operator!Tip]
    BY <1>5, ElementOfSeq
  <2> QED BY <2>1
<1> QED BY <1>1, <1>2, <1>3, <1>4, <1>5, <1>6, <1>7

LEMMA RunInitially ==
  ASSUME RunAssumption, Operator!Init
  PROVE  RunInv
<1> USE DEF RunAssumption, Operator!OperatorAssumption, Operator!Init, Operator!NoNode, Operator!EmptyDir, Operator!Genesis, Operator!Locals
<1>1. op = [pc |-> "idle", round |-> 1, since |-> 0, until |-> 0, rows |-> <<>>, signed |-> <<>>, pre |-> [h |-> 0, w |-> 0], peers |-> <<>>]
  OBVIOUS
<1>2. RunTypes
  <2>1. {MaxHeight, MaxWork} \subseteq Nat \ {0} /\ MaxTicks \in Nat
    OBVIOUS
  <2>2. [h |-> 0, w |-> 0] \in Operator!Tip /\ [h |-> 1, w |-> 1] \in Operator!Tip
    BY <2>1 DEF Operator!Tip
  <2>3. op \in Records
    BY <1>1, <2>2 DEF Records, Stations
  <2> QED BY <2>1, <2>2, <2>3 DEF RunTypes
<1>3. Len(op.rows) = 0 /\ Len(op.signed) = 0 /\ Len(op.peers) = 0
  BY <1>1
<1>4. Counted /\ Housed /\ Faithful
  BY <1>1, <1>3 DEF Counted, At, Housed, Faithful, Gone
<1>5. Rising /\ Passing /\ Spent
  BY <1>1, <1>3 DEF Rising, Passing, Spent, Gone
<1> QED BY <1>2, <1>4, <1>5 DEF RunInv

(* What the node, the peer and the clock do meanwhile.                      *)
LEMMA RunNode ==
  ASSUME RunAssumption, RunInv, Operator!Authenticates \/ Operator!Syncs \/ Operator!NodeExits
  PROVE  RunInv'
<1> USE DEF RunInv
<1>0. op' = op /\ bundle' = bundle /\ clock' = clock /\ peer' = peer
  BY DEF Operator!Authenticates, Operator!Syncs, Operator!NodeExits
<1>1. process.up /\ op.pc \notin Gone
  BY DEF Operator!Authenticates, Operator!Syncs, Operator!NodeExits, Operator!Watching, Gone
<1>2. Counted' /\ Faithful' /\ Passing' /\ Spent'
  BY <1>0 DEF Counted, At, Faithful, Passing, Spent
<1>3. CASE Operator!Authenticates
  <2>1. process' = [process EXCEPT !.auth = TRUE] /\ dir' = dir
    BY <1>3 DEF Operator!Authenticates
  <2>2. RunTypes' /\ process'.up = process.up /\ process'.tip = process.tip
    BY <1>0, <2>1 DEF RunTypes
  <2> QED BY <1>0, <1>2, <2>1, <2>2 DEF Housed, Rising
<1>4. CASE Operator!NodeExits
  <2>1. PICK code \in {0, 1} : process' = [process EXCEPT !.up = FALSE, !.code = code]
    BY <1>4 DEF Operator!NodeExits
  <2>2. dir' = dir
    BY <1>4 DEF Operator!NodeExits
  <2>3. RunTypes' /\ ~process'.up
    BY <1>0, <2>1, <2>2 DEF RunTypes
  <2> QED BY <1>0, <1>2, <2>2, <2>3 DEF Housed, Rising
<1>5. CASE Operator!Syncs
  <2>1. process' = [process EXCEPT !.tip = peer.tip] /\ dir' = [dir EXCEPT !.tip = peer.tip]
    BY <1>5 DEF Operator!Syncs
  <2>2. RunTypes' /\ process'.up = process.up /\ process'.tip = peer.tip /\ dir'.tip = peer.tip /\ dir'.id = dir.id
    BY <1>0, <2>1 DEF RunTypes
  <2>3. Rising'
    <3> SUFFICES ASSUME ~peer.fell PROVE /\ dir'.tip.h <= peer.tip.h
                                         /\ \A i \in 1..Len(op.rows) : op.rows[i].tip.h <= dir'.tip.h
      BY <1>0, <1>1 DEF Rising, Gone
    <3>1. dir.tip.h <= peer.tip.h /\ \A i \in 1..Len(op.rows) : op.rows[i].tip.h <= dir.tip.h
      BY <1>1 DEF Rising, Gone
    <3>2. dir.tip.h \in Nat /\ peer.tip.h \in Nat /\ \A i \in 1..Len(op.rows) : op.rows[i].tip.h \in Nat
      BY RunFacts
    <3> QED BY <2>2, <3>1, <3>2
  <2> QED BY <1>0, <1>2, <2>2, <2>3 DEF Housed
<1> QED BY <1>3, <1>4, <1>5

LEMMA RunPeerMines ==
  ASSUME RunAssumption, RunInv, Operator!PeerMines
  PROVE  RunInv'
<1> USE DEF RunInv
<1>1. PICK h \in 1..MaxHeight :
        /\ h <= peer.tip.h + 1
        /\ peer' = [tip |-> [h |-> h, w |-> peer.tip.w + 1], fell |-> peer.fell \/ h < peer.tip.h]
  BY DEF Operator!PeerMines
<1>2. op' = op /\ bundle' = bundle /\ clock' = clock /\ process' = process /\ dir' = dir /\ peer.tip.w < MaxWork
  BY DEF Operator!PeerMines
<1>3. RunTypes'
  <2>1. peer.tip.w + 1 \in 0..MaxWork
    BY <1>2 DEF RunTypes, Operator!Tip, RunAssumption, Operator!OperatorAssumption
  <2>2. peer'.tip \in Operator!Tip /\ peer'.fell \in BOOLEAN /\ peer' = [tip |-> peer'.tip, fell |-> peer'.fell]
    BY <1>1, <2>1 DEF Operator!Tip, RunAssumption, Operator!OperatorAssumption
  <2> QED BY <1>2, <2>2 DEF RunTypes
<1>4. Rising'
  <2>1. ~peer'.fell => ~peer.fell /\ peer.tip.h <= peer'.tip.h
    <3>1. ASSUME ~(peer.fell \/ h < peer.tip.h) PROVE ~peer.fell /\ peer.tip.h <= h
      BY <3>1, RunFacts
    <3>2. peer'.fell = (peer.fell \/ h < peer.tip.h) /\ peer'.tip.h = h
      BY <1>1
    <3> QED BY <3>1, <3>2
  <2>2. dir.tip.h \in Nat /\ peer.tip.h \in Nat /\ peer'.tip.h \in Nat
    BY <1>1, RunFacts
  <2> QED BY <1>2, <2>1, <2>2 DEF Rising
<1> QED BY <1>2, <1>3, <1>4 DEF Counted, At, Faithful, Passing, Spent, Housed

LEMMA RunClock ==
  ASSUME RunAssumption, RunInv, Operator!Tick \/ Operator!SetBack
  PROVE  RunInv'
<1> USE DEF RunInv
<1>1. op' = op /\ bundle' = bundle /\ peer' = peer /\ process' = process /\ dir' = dir
  BY DEF Operator!Tick, Operator!SetBack
<1>2. op.pc \in {"ready", "hello", "delay", "confirm", "progress"}
  BY DEF Operator!Tick, Operator!SetBack, Operator!Watching
<1>3. Counted' /\ Housed' /\ Faithful' /\ Rising'
  BY <1>1 DEF Counted, At, Housed, Faithful, Rising
<1>4. \A i \in 1..Len(op.rows) : op.rows[i].at \in Nat
  BY RunFacts
<1>5. op.since \in Nat /\ clock.now \in Nat /\ clock.ticks \in Nat /\ clock.back \in Nat /\ MaxTicks \in Nat
  BY DEF RunTypes, Records, RunAssumption, Operator!OperatorAssumption
<1>6. CASE Operator!Tick
  <2>1. clock' = [clock EXCEPT !.now = @ + 1, !.ticks = @ + 1] /\ clock.ticks < MaxTicks
    BY <1>6 DEF Operator!Tick
  <2>2. clock'.now = clock.now + 1 /\ clock'.ticks = clock.ticks + 1 /\ clock'.back = clock.back /\ RunTypes'
    <3>1. clock \in [now : Nat, ticks : 0..MaxTicks, back : Nat] /\ clock.ticks + 1 \in 0..MaxTicks
      BY <1>5, <2>1 DEF RunTypes
    <3>2. clock' = [now |-> clock.now + 1, ticks |-> clock.ticks + 1, back |-> clock.back]
      BY <2>1, <3>1
    <3> QED BY <1>1, <1>5, <3>1, <3>2 DEF RunTypes
  <2>3. Spent'
    BY <1>1, <1>2, <1>5, <2>2 DEF Spent, Gone
  <2>4. Passing'
    <3> SUFFICES ASSUME clock.back = 0 PROVE Passing'
      BY <2>2 DEF Passing
    <3>1. op.since < clock'.now
      BY <1>2, <1>5, <2>2 DEF Passing, Gone
    <3>2. \A i \in 1..Len(op.rows) : op.since <= op.rows[i].at /\ op.rows[i].at <= clock'.now
      BY <1>4, <1>5, <2>2 DEF Passing
    <3>3. op.pc = "confirm" => op.rows[1].at < clock'.now
      <4>1. op.pc = "confirm" => Len(op.rows) = 1
        BY DEF Counted, At
      <4> QED BY <4>1, <1>4, <1>5, <2>2 DEF Passing
    <3>4. op.round = 2 /\ Len(op.rows) = 3 => op.rows[3].at < clock'.now
      BY <1>4, <1>5, <2>2 DEF Passing
    <3> QED BY <1>1, <1>2, <3>1, <3>2, <3>3, <3>4 DEF Passing
  <2> QED BY <1>3, <2>2, <2>3, <2>4
<1>7. CASE Operator!SetBack
  <2>1. clock' = [clock EXCEPT !.now = @ - 1, !.back = @ + 1] /\ clock.now > 0
    BY <1>7 DEF Operator!SetBack
  <2>2. clock'.now = clock.now - 1 /\ clock'.ticks = clock.ticks /\ clock'.back # 0 /\ RunTypes'
    <3>1. clock \in [now : Nat, ticks : 0..MaxTicks, back : Nat] /\ clock.now - 1 \in Nat /\ clock.back + 1 \in Nat /\ clock.back + 1 # 0
      BY <1>5, <2>1 DEF RunTypes
    <3>2. clock' = [now |-> clock.now - 1, ticks |-> clock.ticks, back |-> clock.back + 1]
      BY <2>1, <3>1
    <3> QED BY <1>1, <1>5, <3>1, <3>2 DEF RunTypes
  <2>3. Spent'
    BY <1>1, <1>2, <1>5, <2>2 DEF Spent, Gone
  <2> QED BY <1>3, <2>2, <2>3 DEF Passing
<1> QED BY <1>6, <1>7
(* The first process makes the directory its own; the second finds it.      *)
LEMMA RunStarts ==
  ASSUME RunAssumption, RunTypes, NEW round \in {1, 2}, Operator!StartNode(round), round = 2 => dir.id = 1
  PROVE  /\ process' \in [up : BOOLEAN, code : {0, 1}, auth : BOOLEAN, tip : Operator!Tip]
         /\ dir' \in [id : {None, 1}, tip : Operator!Tip] /\ dir'.id = 1
         /\ clock' \in [now : Nat, ticks : 0..MaxTicks, back : Nat]
         /\ clock'.now = clock.now + 1 /\ clock'.ticks = clock.ticks /\ clock'.back = clock.back
         /\ process'.tip = dir'.tip
         /\ dir'.tip = IF round = 1 THEN [h |-> 0, w |-> 0] ELSE dir.tip
<1> DEFINE found == IF round = 1 THEN [id |-> None, tip |-> [h |-> 0, w |-> 0]] ELSE dir
<1>1. /\ dir' = [found EXCEPT !.id = IF @ = None THEN round ELSE @]
      /\ process' = [up |-> TRUE, code |-> 0, auth |-> FALSE, tip |-> found.tip]
      /\ clock' = [clock EXCEPT !.now = @ + 1]
  BY DEF Operator!StartNode, Operator!Kept, Operator!EmptyDir, Operator!Genesis
<1>2. [h |-> 0, w |-> 0] \in Operator!Tip
  BY RunFacts DEF Operator!Tip
<1>3. found \in [id : {None, 1}, tip : Operator!Tip] /\ (round = 2 => found.id = 1) /\ (round = 1 => found.id = None)
  BY <1>2 DEF RunTypes
<1>4. found.tip = IF round = 1 THEN [h |-> 0, w |-> 0] ELSE dir.tip
  OBVIOUS
<1> HIDE DEF found
<1>5. dir' = [id |-> 1, tip |-> found.tip]
  <2>1. None # 1
    BY DEF RunAssumption, Operator!OperatorAssumption
  <2>2. CASE round = 1
    BY <1>1, <1>3, <2>2
  <2>3. CASE round = 2
    BY <1>1, <1>3, <2>1, <2>3
  <2> QED BY <2>2, <2>3
<1>6. clock' = [now |-> clock.now + 1, ticks |-> clock.ticks, back |-> clock.back] /\ clock.now \in Nat /\ clock.back \in Nat
      /\ clock.ticks \in 0..MaxTicks
  BY <1>1, RunFacts DEF RunTypes
<1>7. found.tip \in Operator!Tip
  BY <1>3
<1>8. dir' \in [id : {None, 1}, tip : Operator!Tip] /\ dir'.id = 1 /\ dir'.tip = found.tip
  BY <1>5, <1>7
<1>9. process' \in [up : BOOLEAN, code : {0, 1}, auth : BOOLEAN, tip : Operator!Tip] /\ process'.tip = found.tip
  BY <1>1, <1>7
<1>10. /\ clock' \in [now : Nat, ticks : 0..MaxTicks, back : Nat]
       /\ clock'.now = clock.now + 1 /\ clock'.ticks = clock.ticks /\ clock'.back = clock.back
  BY <1>6
<1> QED BY <1>4, <1>8, <1>9, <1>10

LEMMA RunBegin ==
  ASSUME RunAssumption, RunInv, Operator!Begin
  PROVE  RunInv'
<1> USE DEF RunInv
<1>1. op.pc = "idle" /\ op' = [op EXCEPT !.pc = "ready", !.since = clock.now] /\ peer' = peer /\ bundle' = bundle
  BY DEF Operator!Begin
<1>2. op' \in Records /\ op'.pc = "ready" /\ op'.since = clock.now /\ op'.round = op.round /\ op'.rows = op.rows
      /\ op'.signed = op.signed /\ op'.peers = op.peers /\ op'.pre = op.pre
  <2>1. op' = [pc |-> "ready", round |-> op.round, since |-> clock.now, until |-> op.until, rows |-> op.rows, signed |-> op.signed, pre |-> op.pre, peers |-> op.peers]
    BY <1>1 DEF RunTypes, Records
  <2>2. op \in Records
    BY DEF RunTypes
  <2> QED BY <2>1, <2>2, RunFacts DEF Records, Stations
<1>3. op.round = 1 /\ Len(op.rows) = 0 /\ Len(op.signed) = 0 /\ Len(op.peers) = 0
  BY <1>1 DEF Counted, At
<1>4. /\ process' \in [up : BOOLEAN, code : {0, 1}, auth : BOOLEAN, tip : Operator!Tip]
      /\ dir' \in [id : {None, 1}, tip : Operator!Tip] /\ dir'.id = 1
      /\ clock' \in [now : Nat, ticks : 0..MaxTicks, back : Nat]
      /\ clock'.now = clock.now + 1 /\ clock'.ticks = clock.ticks /\ clock'.back = clock.back
      /\ process'.tip = dir'.tip
      /\ dir'.tip.h = 0
  <2>1. Operator!StartNode(1) /\ 1 \in {1, 2} /\ 1 # 2
    BY DEF Operator!Begin
  <2>2. dir'.tip = [h |-> 0, w |-> 0]
    BY <2>1, RunStarts
  <2>3. dir'.tip.h = 0
    BY <2>2
  <2> QED BY <2>1, <2>3, RunStarts
<1>5. RunTypes'
  BY <1>1, <1>2, <1>4 DEF RunTypes
<1>6. Counted' /\ Faithful' /\ Housed'
  BY <1>1, <1>2, <1>3, <1>4 DEF Counted, At, Faithful, Housed, Gone
<1>7. clock.now \in Nat /\ clock.ticks \in Nat /\ peer.tip.h \in Nat
  BY RunFacts
<1>8. Rising'
  BY <1>1, <1>2, <1>3, <1>4, <1>7 DEF Rising
<1>9. Spent'
  BY <1>1, <1>2, <1>3, <1>4, <1>7 DEF Spent, Gone
<1>10. Passing'
  <2>1. \A i \in 1..Len(op'.rows) : FALSE
    BY <1>2, <1>3
  <2> QED BY <1>2, <1>3, <1>4, <1>7, <2>1 DEF Passing
<1> QED BY <1>5, <1>6, <1>8, <1>9, <1>10

LEMMA RunReady ==
  ASSUME RunAssumption, RunInv, Operator!Ready
  PROVE  RunInv'
<1> USE DEF RunInv
<1>1. op.pc = "ready" /\ process.auth = TRUE /\ op' = [op EXCEPT !.pc = "hello", !.peers = Append(@, process.auth)]
  BY DEF Operator!Ready, RunTypes
<1>2. peer' = peer /\ process' = process /\ dir' = dir /\ clock' = clock /\ bundle' = bundle
  BY DEF Operator!Ready
<1>3. Append(op.peers, TRUE) \in Seq({TRUE}) /\ Len(Append(op.peers, TRUE)) = Len(op.peers) + 1
  BY RunFacts, AppendProperties
<1>4. op' \in Records /\ op'.pc = "hello" /\ op'.since = op.since /\ op'.until = op.until /\ op'.round = op.round /\ op'.rows = op.rows
      /\ op'.signed = op.signed /\ Len(op'.peers) = Len(op.peers) + 1 /\ op'.pre = op.pre
  <2>1. op' = [pc |-> "hello", round |-> op.round, since |-> op.since, until |-> op.until, rows |-> op.rows, signed |-> op.signed, pre |-> op.pre, peers |-> Append(op.peers, TRUE)]
    BY <1>1 DEF RunTypes, Records
  <2>2. op \in Records
    BY DEF RunTypes
  <2> QED BY <1>3, <2>1, <2>2, RunFacts DEF Records, Stations
<1>5. RunTypes'
  BY <1>2, <1>4 DEF RunTypes
<1>0. At({"ready"}, 1, 0, 0, 0) \/ At({"ready"}, 2, 3, 1, 1)
  BY <1>1 DEF Counted, At
<1>6. Counted' /\ Faithful' /\ Housed'
  <2>2. Counted'
    <3>1. CASE At({"ready"}, 1, 0, 0, 0)
      BY <1>4, <3>1 DEF At, Counted
    <3>2. CASE At({"ready"}, 2, 3, 1, 1)
      BY <1>4, <3>2 DEF At, Counted
    <3> QED BY <1>0, <3>1, <3>2
  <2>3. Faithful'
    BY <1>4 DEF Faithful
  <2>4. Housed'
    BY <1>1, <1>2, <1>4 DEF Housed, Gone
  <2> QED BY <2>2, <2>3, <2>4
<1>7. Rising' /\ Spent' /\ Passing'
  BY <1>1, <1>2, <1>4 DEF Rising, Spent, Passing, Gone
<1> QED BY <1>5, <1>6, <1>7

LEMMA RunDelay ==
  ASSUME RunAssumption, RunInv, Operator!Delay
  PROVE  RunInv'
<1> USE DEF RunInv
<1>1. op.pc = "delay" /\ op' = [op EXCEPT !.pc = "confirm"] /\ clock' = [clock EXCEPT !.now = @ + 1]
  BY DEF Operator!Delay
<1>2. peer' = peer /\ process' = process /\ dir' = dir /\ bundle' = bundle
  BY DEF Operator!Delay
<1>3. op' \in Records /\ op'.pc = "confirm" /\ op'.since = op.since /\ op'.until = op.until /\ op'.round = op.round /\ op'.rows = op.rows
      /\ op'.signed = op.signed /\ op'.peers = op.peers /\ op'.pre = op.pre
  <2>1. op' = [pc |-> "confirm", round |-> op.round, since |-> op.since, until |-> op.until, rows |-> op.rows, signed |-> op.signed, pre |-> op.pre, peers |-> op.peers]
    BY <1>1 DEF RunTypes, Records
  <2>2. op \in Records
    BY DEF RunTypes
  <2> QED BY <2>1, <2>2, RunFacts DEF Records, Stations
<1>4. /\ clock' \in [now : Nat, ticks : 0..MaxTicks, back : Nat]
      /\ clock'.now = clock.now + 1 /\ clock'.ticks = clock.ticks /\ clock'.back = clock.back
  <2>1. clock' = [now |-> clock.now + 1, ticks |-> clock.ticks, back |-> clock.back]
    BY <1>1 DEF RunTypes
  <2> QED BY <2>1, RunFacts
<1>5. RunTypes'
  BY <1>2, <1>3, <1>4 DEF RunTypes
<1>6. Counted' /\ Faithful' /\ Housed' /\ Rising'
  BY <1>1, <1>2, <1>3 DEF Counted, At, Faithful, Housed, Gone, Rising
<1>7. op.round = 1 /\ Len(op.rows) = 1
  BY <1>1 DEF Counted, At
<1>0. clock.now \in Nat /\ clock.ticks \in Nat /\ op.since \in Nat
  BY RunFacts
<1>8. Spent'
  <2>1. clock.now <= clock.ticks + 1
    BY <1>1, <1>7 DEF Spent
  <2> QED BY <1>0, <1>3, <1>4, <2>1 DEF Spent
<1>9. Passing'
  <2> SUFFICES ASSUME clock.back = 0 PROVE Passing'
    BY <1>4 DEF Passing
  <2>1. op.since < clock.now /\ op.since <= op.rows[1].at /\ op.rows[1].at <= clock.now
    BY <1>1, <1>7 DEF Passing, Gone
  <2>2. op.rows[1].at \in Nat
    BY <1>7, RunFacts
  <2>3. op.since < clock'.now /\ op.rows[1].at < clock'.now
    BY <1>0, <1>4, <2>1, <2>2
  <2>4. \A i \in 1..Len(op.rows) : i = 1
    BY <1>7
  <2>5. op'.since < clock'.now /\ op'.rows[1].at < clock'.now /\ Len(op'.rows) = 1 /\ op'.round = 1 /\ op'.pc = "confirm"
    BY <1>3, <1>7, <2>3
  <2>6. \A i \in 1..Len(op'.rows) : op'.since <= op'.rows[i].at /\ op'.rows[i].at <= clock'.now
    BY <1>0, <1>3, <1>4, <2>1, <2>2, <2>3, <2>4
  <2> QED BY <2>5, <2>6 DEF Passing
<1> QED BY <1>5, <1>6, <1>8, <1>9
(* What is recorded is of the process, and at the time it is recorded.      *)
LEMMA RunRecords ==
  ASSUME RunAssumption, RunTypes, NEW rows, rows = Append(op.rows, Operator!Row(process.tip))
  PROVE  /\ rows \in Seq([at : Nat, tip : Operator!Tip]) /\ Len(rows) = Len(op.rows) + 1
         /\ \A i \in 1..Len(op.rows) : rows[i] = op.rows[i]
         /\ rows[Len(op.rows) + 1] = [at |-> clock.now, tip |-> process.tip]
         /\ \A i \in 1..Len(rows) : i \in 1..Len(op.rows) \/ i = Len(op.rows) + 1
<1>1. Operator!Row(process.tip) = [at |-> clock.now, tip |-> process.tip]
  BY DEF Operator!Row
<1>2. [at |-> clock.now, tip |-> process.tip] \in [at : Nat, tip : Operator!Tip]
  BY RunFacts
<1>3. op.rows \in Seq([at : Nat, tip : Operator!Tip]) /\ Len(op.rows) \in Nat
  BY RunFacts
<1>4. /\ rows \in Seq([at : Nat, tip : Operator!Tip]) /\ Len(rows) = Len(op.rows) + 1
      /\ \A i \in 1..Len(op.rows) : rows[i] = op.rows[i]
      /\ rows[Len(op.rows) + 1] = [at |-> clock.now, tip |-> process.tip]
  BY <1>1, <1>2, <1>3, AppendProperties
<1> QED BY <1>3, <1>4

LEMMA RowsRise ==
  ASSUME RunAssumption, RunTypes, Rising, process.tip = dir.tip, op.pc # "done", dir' = dir, peer' = peer,
         op'.rows = Append(op.rows, Operator!Row(process.tip))
  PROVE  Rising'
<1> DEFINE rows == op'.rows
           n == Len(op.rows)
<1>1. /\ Len(rows) = n + 1 /\ n \in Nat /\ \A i \in 1..n : rows[i] = op.rows[i]
      /\ rows[n + 1].tip = dir.tip
      /\ \A i \in 1..Len(rows) : i \in 1..n \/ i = n + 1
  <2>1. rows = Append(op.rows, Operator!Row(process.tip))
    OBVIOUS
  <2> HIDE DEF rows
  <2>2. /\ Len(rows) = n + 1 /\ \A i \in 1..n : rows[i] = op.rows[i]
        /\ rows[n + 1] = [at |-> clock.now, tip |-> process.tip]
        /\ \A i \in 1..Len(rows) : i \in 1..n \/ i = n + 1
    BY <2>1, RunRecords
  <2> QED BY <2>2, RunFacts
<1> HIDE DEF rows, n
<1> SUFFICES ASSUME ~peer.fell
             PROVE  /\ \A i \in 1..Len(rows) : rows[i].tip.h <= dir.tip.h
                    /\ \A i, j \in 1..Len(rows) : i < j => rows[i].tip.h <= rows[j].tip.h
  BY DEF Rising, rows
<1>2. dir.tip.h \in Nat
  BY RunFacts
<1>3. \A i \in 1..n : op.rows[i].tip.h <= dir.tip.h
  BY DEF Rising, n
<1>4. \A i, j \in 1..n : i < j => op.rows[i].tip.h <= op.rows[j].tip.h
  BY DEF Rising, n
<1>5. \A i \in 1..Len(rows) : rows[i].tip.h <= dir.tip.h
  BY <1>1, <1>2, <1>3
<1>6. ASSUME NEW i \in 1..Len(rows), NEW j \in 1..Len(rows), i < j PROVE rows[i].tip.h <= rows[j].tip.h
  <2>1. i \in 1..n
    BY <1>1, <1>6
  <2>2. CASE j \in 1..n
    BY <1>1, <1>4, <1>6, <2>1, <2>2
  <2>3. CASE j = n + 1
    BY <1>1, <1>3, <2>1, <2>3
  <2> QED BY <1>1, <2>2, <2>3
<1> QED BY <1>5, <1>6

LEMMA RowsPass ==
  ASSUME RunAssumption, RunTypes, Passing, op.pc \notin Gone, clock' = clock, clock.back = 0, op'.since = op.since,
         op'.rows = Append(op.rows, Operator!Row(process.tip))
  PROVE  \A i \in 1..Len(op'.rows) : op'.since <= op'.rows[i].at /\ op'.rows[i].at <= clock'.now
<1> DEFINE rows == op'.rows
           n == Len(op.rows)
<1>1. /\ Len(rows) = n + 1 /\ n \in Nat /\ \A i \in 1..n : rows[i] = op.rows[i]
      /\ rows[n + 1].at = clock.now
      /\ \A i \in 1..Len(rows) : i \in 1..n \/ i = n + 1
  <2>1. rows = Append(op.rows, Operator!Row(process.tip))
    OBVIOUS
  <2> HIDE DEF rows
  <2>2. /\ Len(rows) = n + 1 /\ \A i \in 1..n : rows[i] = op.rows[i]
        /\ rows[n + 1] = [at |-> clock.now, tip |-> process.tip]
        /\ \A i \in 1..Len(rows) : i \in 1..n \/ i = n + 1
    BY <2>1, RunRecords
  <2> QED BY <2>2, RunFacts
<1>2. \A i \in 1..n : op.since <= op.rows[i].at /\ op.rows[i].at <= clock.now
  BY DEF Passing
<1>3. op.since < clock.now /\ op.since \in Nat /\ clock.now \in Nat
  BY RunFacts DEF Passing
<1> HIDE DEF rows, n
<1>4. \A i \in 1..Len(rows) : op.since <= rows[i].at /\ rows[i].at <= clock.now
  BY <1>1, <1>2, <1>3
<1> QED BY <1>4 DEF rows

LEMMA RunHello ==
  ASSUME RunAssumption, RunInv, Operator!Hello
  PROVE  RunInv'
<1> USE DEF RunInv
<1> DEFINE rows == Append(op.rows, Operator!Row(process.tip))
           claim == [id |-> dir.id, tip |-> process.tip]
           signed == Append(op.signed, claim)
           pc == IF op.round = 1 THEN "delay" ELSE "stop"
<1>1. op.pc = "hello" /\ process.up /\ op' = [op EXCEPT !.rows = rows, !.signed = signed, !.pc = pc]
  BY DEF Operator!Hello
<1>2. peer' = peer /\ process' = process /\ dir' = dir /\ clock' = clock /\ bundle' = bundle
  BY DEF Operator!Hello
<1>3. At({"hello"}, 1, 0, 0, 1) \/ At({"hello"}, 2, 3, 1, 2)
  BY <1>1 DEF Counted, At
<1>4. process.tip = dir.tip /\ dir.id = 1
  BY <1>1 DEF Housed, Gone
<1>5. /\ rows \in Seq([at : Nat, tip : Operator!Tip]) /\ Len(rows) = Len(op.rows) + 1
      /\ \A i \in 1..Len(op.rows) : rows[i] = op.rows[i]
      /\ rows[Len(op.rows) + 1] = [at |-> clock.now, tip |-> process.tip]
  BY RunRecords
<1>6. /\ signed \in Seq([id : {1}, tip : Operator!Tip]) /\ Len(signed) = Len(op.signed) + 1
      /\ \A i \in 1..Len(op.signed) : signed[i] = op.signed[i]
      /\ signed[Len(op.signed) + 1] = claim
  <2>1. claim \in [id : {1}, tip : Operator!Tip]
    BY <1>4, RunFacts
  <2>2. op.signed \in Seq([id : {1}, tip : Operator!Tip])
    BY RunFacts
  <2> HIDE DEF claim
  <2> QED BY <2>1, <2>2, AppendProperties
<1>7. claim.tip = process.tip
  OBVIOUS
<1>8. pc \in {"delay", "stop"} /\ (op.round = 1 => pc = "delay") /\ (op.round = 2 => pc = "stop")
  OBVIOUS
<1> HIDE DEF rows, claim, signed, pc
<1>9. /\ op' \in Records /\ op'.pc = pc /\ op'.since = op.since /\ op'.round = op.round /\ op'.rows = rows
      /\ op'.signed = signed /\ op'.peers = op.peers /\ op'.pre = op.pre
  <2>1. op' = [pc |-> pc, round |-> op.round, since |-> op.since, until |-> op.until, rows |-> rows, signed |-> signed, pre |-> op.pre, peers |-> op.peers]
    BY <1>1 DEF RunTypes, Records
  <2>2. op \in Records /\ pc \in Stations
    BY <1>8 DEF RunTypes, Stations
  <2> QED BY <1>5, <1>6, <2>1, <2>2, RunFacts DEF Records
<1>10. RunTypes'
  BY <1>2, <1>9 DEF RunTypes
<1>11. Counted'
  <2>1. CASE At({"hello"}, 1, 0, 0, 1)
    BY <1>5, <1>6, <1>8, <1>9, <2>1 DEF Counted, At
  <2>2. CASE At({"hello"}, 2, 3, 1, 2)
    BY <1>5, <1>6, <1>8, <1>9, <2>2 DEF Counted, At
  <2> QED BY <1>3, <2>1, <2>2
<1>12. Housed'
  BY <1>1, <1>2, <1>4, <1>8, <1>9 DEF Housed, Gone
<1>13. Faithful'
  <2>1. CASE At({"hello"}, 1, 0, 0, 1)
    <3>1. Len(rows) = 1 /\ Len(signed) = 1 /\ rows[1].tip = signed[1].tip
      BY <1>5, <1>6, <1>7, <2>1 DEF At
    <3> QED BY <1>9, <3>1 DEF Faithful
  <2>2. CASE At({"hello"}, 2, 3, 1, 2)
    <3>1. Len(rows) = 4 /\ Len(signed) = 2 /\ rows[4].tip = signed[2].tip
      BY <1>5, <1>6, <1>7, <2>2 DEF At
    <3>2. rows[1] = op.rows[1] /\ rows[3] = op.rows[3] /\ signed[1] = op.signed[1]
      BY <1>5, <1>6, <2>2 DEF At
    <3>3. op.rows[1].tip = op.signed[1].tip /\ op.rows[3].tip = op.pre /\ op.rows[3].tip.h > op.rows[1].tip.h
      BY <2>2 DEF At, Faithful
    <3> QED BY <1>9, <3>1, <3>2, <3>3 DEF Faithful
  <2> QED BY <1>3, <2>1, <2>2
<1>14. op'.rows = Append(op.rows, Operator!Row(process.tip))
  BY <1>9 DEF rows
<1>15. Rising'
  BY <1>1, <1>2, <1>4, <1>14, RowsRise
<1>16. Spent'
  <2>1. CASE At({"hello"}, 1, 0, 0, 1)
    BY <1>1, <1>2, <1>8, <1>9, <2>1 DEF At, Spent, Gone
  <2>2. CASE At({"hello"}, 2, 3, 1, 2)
    BY <1>2, <1>8, <1>9, <2>2 DEF At, Spent, Gone
  <2> QED BY <1>3, <2>1, <2>2
<1>17. Passing'
  <2> SUFFICES ASSUME clock.back = 0 PROVE Passing'
    BY <1>2 DEF Passing
  <2>1. \A i \in 1..Len(op'.rows) : op'.since <= op'.rows[i].at /\ op'.rows[i].at <= clock'.now
    BY <1>1, <1>2, <1>9, <1>14, RowsPass DEF Gone
  <2>2. op.since < clock.now
    BY <1>1 DEF Passing, Gone
  <2>3. CASE At({"hello"}, 1, 0, 0, 1)
    <3>1. Len(rows) = 1 /\ pc = "delay" /\ op.round = 1
      BY <1>5, <1>8, <2>3 DEF At
    <3> QED BY <1>2, <1>9, <2>1, <2>2, <3>1 DEF Passing
  <2>4. CASE At({"hello"}, 2, 3, 1, 2)
    <3>1. Len(rows) = 4 /\ pc = "stop" /\ op.round = 2 /\ Len(op.rows) = 3
      BY <1>5, <1>8, <2>4 DEF At
    <3>2. rows[1] = op.rows[1] /\ rows[2] = op.rows[2] /\ rows[3] = op.rows[3] /\ rows[4].at = clock.now
      BY <1>5, <2>4 DEF At
    <3>3. op.rows[1].at < op.rows[2].at /\ op.rows[2].at <= op.rows[3].at /\ op.rows[3].at < clock.now
      BY <3>1 DEF Passing
    <3> QED BY <1>2, <1>9, <2>1, <2>2, <3>1, <3>2, <3>3 DEF Passing
  <2> QED BY <1>3, <2>3, <2>4
<1> QED BY <1>10, <1>11, <1>12, <1>13, <1>15, <1>16, <1>17
LEMMA RunConfirm ==
  ASSUME RunAssumption, RunInv, Operator!Confirm
  PROVE  RunInv'
<1> USE DEF RunInv
<1> DEFINE rows == Append(op.rows, Operator!Row(process.tip))
<1>1. op.pc = "confirm" /\ process.up /\ op' = [op EXCEPT !.pc = "progress", !.rows = rows]
  BY DEF Operator!Confirm
<1>2. peer' = peer /\ process' = process /\ dir' = dir /\ clock' = clock /\ bundle' = bundle
  BY DEF Operator!Confirm
<1>3. op.round = 1 /\ Len(op.rows) = 1 /\ Len(op.signed) = 1 /\ Len(op.peers) = 1
  BY <1>1 DEF Counted, At
<1>4. process.tip = dir.tip
  BY <1>1 DEF Housed
<1>5. /\ rows \in Seq([at : Nat, tip : Operator!Tip]) /\ Len(rows) = 2
      /\ rows[1] = op.rows[1] /\ rows[2] = [at |-> clock.now, tip |-> process.tip]
  <2>1. /\ rows \in Seq([at : Nat, tip : Operator!Tip]) /\ Len(rows) = Len(op.rows) + 1
        /\ \A i \in 1..Len(op.rows) : rows[i] = op.rows[i]
        /\ rows[Len(op.rows) + 1] = [at |-> clock.now, tip |-> process.tip]
    BY RunRecords
  <2> HIDE DEF rows
  <2> QED BY <1>3, <2>1
<1> HIDE DEF rows
<1>6. /\ op' \in Records /\ op'.pc = "progress" /\ op'.since = op.since /\ op'.round = 1 /\ op'.rows = rows
      /\ op'.signed = op.signed /\ op'.peers = op.peers /\ op'.pre = op.pre
  <2>1. op' = [pc |-> "progress", round |-> op.round, since |-> op.since, until |-> op.until, rows |-> rows, signed |-> op.signed, pre |-> op.pre, peers |-> op.peers]
    BY <1>1 DEF RunTypes, Records
  <2>2. op \in Records
    BY DEF RunTypes
  <2> QED BY <1>3, <1>5, <2>1, <2>2, RunFacts DEF Records, Stations
<1>0. /\ Len(op'.rows) = 2 /\ Len(op'.signed) = 1 /\ Len(op'.peers) = 1
      /\ op'.rows[1] = op.rows[1] /\ op'.rows[2].at = clock.now /\ op'.signed[1] = op.signed[1]
  BY <1>3, <1>5, <1>6
<1>7. RunTypes'
  BY <1>2, <1>6 DEF RunTypes
<1>8. Counted'
  BY <1>3, <1>5, <1>6 DEF Counted, At
<1>9. Housed'
  BY <1>1, <1>2, <1>6 DEF Housed, Gone
<1>10. Faithful'
  <2>1. op.rows[1].tip = op.signed[1].tip
    BY <1>3 DEF Faithful
  <2> QED BY <1>0, <2>1 DEF Faithful
<1>11. op'.rows = Append(op.rows, Operator!Row(process.tip))
  BY <1>6 DEF rows
<1>12. Rising'
  BY <1>1, <1>2, <1>4, <1>11, RowsRise
<1>13. Spent'
  BY <1>1, <1>2, <1>3, <1>6 DEF Spent, Gone
<1>14. Passing'
  <2> SUFFICES ASSUME clock.back = 0 PROVE Passing'
    BY <1>2 DEF Passing
  <2>1. \A i \in 1..Len(op'.rows) : op'.since <= op'.rows[i].at /\ op'.rows[i].at <= clock'.now
    BY <1>1, <1>2, <1>6, <1>11, RowsPass DEF Gone
  <2>2. op.since < clock.now /\ op.rows[1].at < clock.now
    BY <1>1 DEF Passing, Gone
  <2>3. op'.rows[1].at < op'.rows[2].at /\ op'.pc = "progress" /\ op'.round = 1
    BY <1>0, <1>6, <2>2
  <2> QED BY <1>0, <2>1, <2>2, <2>3, <1>2, <1>6 DEF Passing
<1> QED BY <1>7, <1>8, <1>9, <1>10, <1>12, <1>13, <1>14

LEMMA RunProgress ==
  ASSUME RunAssumption, RunInv, Operator!Progress
  PROVE  RunInv'
<1> USE DEF RunInv
<1> DEFINE rows == Append(op.rows, Operator!Row(process.tip))
<1>1. /\ op.pc = "progress" /\ process.up /\ process.tip.h > op.signed[1].tip.h
      /\ op' = [op EXCEPT !.pc = "stop", !.rows = rows, !.pre = process.tip]
  BY DEF Operator!Progress
<1>2. peer' = peer /\ process' = process /\ dir' = dir /\ clock' = clock /\ bundle' = bundle
  BY DEF Operator!Progress
<1>3. op.round = 1 /\ Len(op.rows) = 2 /\ Len(op.signed) = 1 /\ Len(op.peers) = 1
  BY <1>1 DEF Counted, At
<1>4. process.tip = dir.tip
  BY <1>1 DEF Housed
<1>5. /\ rows \in Seq([at : Nat, tip : Operator!Tip]) /\ Len(rows) = 3
      /\ rows[1] = op.rows[1] /\ rows[2] = op.rows[2] /\ rows[3] = [at |-> clock.now, tip |-> process.tip]
  <2>1. /\ rows \in Seq([at : Nat, tip : Operator!Tip]) /\ Len(rows) = Len(op.rows) + 1
        /\ \A i \in 1..Len(op.rows) : rows[i] = op.rows[i]
        /\ rows[Len(op.rows) + 1] = [at |-> clock.now, tip |-> process.tip]
    BY RunRecords
  <2> HIDE DEF rows
  <2> QED BY <1>3, <2>1
<1> HIDE DEF rows
<1>6. /\ op' \in Records /\ op'.pc = "stop" /\ op'.since = op.since /\ op'.round = 1 /\ op'.rows = rows
      /\ op'.signed = op.signed /\ op'.peers = op.peers /\ op'.pre = process.tip
  <2>1. op' = [pc |-> "stop", round |-> op.round, since |-> op.since, until |-> op.until, rows |-> rows, signed |-> op.signed, pre |-> process.tip, peers |-> op.peers]
    BY <1>1 DEF RunTypes, Records
  <2>2. op \in Records
    BY DEF RunTypes
  <2> QED BY <1>3, <1>5, <2>1, <2>2, RunFacts DEF Records, Stations
<1>0. /\ Len(op'.rows) = 3 /\ Len(op'.signed) = 1 /\ Len(op'.peers) = 1
      /\ op'.rows[1] = op.rows[1] /\ op'.rows[2] = op.rows[2] /\ op'.rows[3].at = clock.now /\ op'.rows[3].tip = process.tip
      /\ op'.signed[1] = op.signed[1] /\ op'.pre = process.tip
  BY <1>3, <1>5, <1>6
<1>7. RunTypes'
  BY <1>2, <1>6 DEF RunTypes
<1>8. Counted'
  BY <1>3, <1>5, <1>6 DEF Counted, At
<1>9. Housed'
  BY <1>1, <1>2, <1>6 DEF Housed, Gone
<1>10. Faithful'
  <2>1. op.rows[1].tip = op.signed[1].tip
    BY <1>3 DEF Faithful
  <2>2. op'.rows[3].tip.h > op'.rows[1].tip.h
    BY <1>0, <1>1, <2>1
  <2> QED BY <1>0, <2>1, <2>2 DEF Faithful
<1>11. op'.rows = Append(op.rows, Operator!Row(process.tip))
  BY <1>6 DEF rows
<1>12. Rising'
  BY <1>1, <1>2, <1>4, <1>11, RowsRise
<1>13. Spent'
  BY <1>1, <1>2, <1>3, <1>6 DEF Spent, Gone
<1>14. Passing'
  <2> SUFFICES ASSUME clock.back = 0 PROVE Passing'
    BY <1>2 DEF Passing
  <2>1. \A i \in 1..Len(op'.rows) : op'.since <= op'.rows[i].at /\ op'.rows[i].at <= clock'.now
    BY <1>1, <1>2, <1>6, <1>11, RowsPass DEF Gone
  <2>2. op.since < clock.now /\ op.rows[1].at < op.rows[2].at
    BY <1>1, <1>3 DEF Passing, Gone
  <2>3. op.rows[2].at <= clock.now
    BY <1>3 DEF Passing
  <2>4. op'.rows[1].at < op'.rows[2].at /\ op'.rows[2].at <= op'.rows[3].at /\ op'.pc = "stop" /\ op'.round = 1
    BY <1>0, <1>6, <2>2, <2>3
  <2> QED BY <1>0, <2>1, <2>2, <2>4, <1>2, <1>6 DEF Passing
<1> QED BY <1>7, <1>8, <1>9, <1>10, <1>12, <1>13, <1>14

LEMMA RunBlank ==
  ASSUME NEW pc \in Stations, NEW tip \in Operator!Tip
  PROVE  [pc |-> pc, round |-> 1, since |-> 0, until |-> 0, rows |-> <<>>, signed |-> <<>>, pre |-> tip, peers |-> <<>>] \in Records
<1>1. <<>> \in Seq([at : Nat, tip : Operator!Tip]) /\ <<>> \in Seq([id : {1}, tip : Operator!Tip]) /\ <<>> \in Seq({TRUE})
  OBVIOUS
<1> QED BY <1>1 DEF Records

(* A run that is over, but for the one that ends with its bundle, has       *)
(* nothing left.                                                            *)
LEMMA RunOver ==
  ASSUME RunAssumption, RunInv, op.pc \notin Gone, NEW pc \in {"failed", "killed"},
         op' = [Operator!Locals EXCEPT !.pc = pc], peer' = peer, clock' = clock, bundle' = bundle,
         \/ process' = process /\ dir' = dir /\ pc = "killed"
         \/ process' = Operator!NoNode /\ dir' = Operator!EmptyDir /\ bundle # "documents"
  PROVE  RunInv'
<1> USE DEF RunInv
<1>1. /\ op' = [pc |-> pc, round |-> 1, since |-> 0, until |-> 0, rows |-> <<>>, signed |-> <<>>, pre |-> [h |-> 0, w |-> 0], peers |-> <<>>]
      /\ Len(op'.rows) = 0 /\ Len(op'.signed) = 0 /\ Len(op'.peers) = 0
  BY DEF Operator!Locals, Operator!Genesis
<1>2. [h |-> 0, w |-> 0] \in Operator!Tip /\ [h |-> 0, w |-> 0].h = 0
  BY RunFacts DEF Operator!Tip
<1>3. op' \in Records
  <2>1. pc \in Stations
    BY DEF Stations
  <2> QED BY <1>1, <1>2, <2>1, RunBlank
<1>4. CASE process' = process /\ dir' = dir /\ pc = "killed"
  <2>1. RunTypes'
    BY <1>3, <1>4 DEF RunTypes
  <2>2. Counted' /\ Faithful' /\ Passing' /\ Rising' /\ Spent'
    BY <1>1, <1>4 DEF Counted, At, Faithful, Passing, Rising, Spent, Gone
  <2>3. Housed'
    BY <1>1, <1>4 DEF Housed, Gone
  <2> QED BY <2>1, <2>2, <2>3
<1>5. CASE process' = Operator!NoNode /\ dir' = Operator!EmptyDir /\ bundle # "documents"
  <2>1. process' = [up |-> FALSE, code |-> 0, auth |-> FALSE, tip |-> [h |-> 0, w |-> 0]] /\ dir' = [id |-> None, tip |-> [h |-> 0, w |-> 0]]
    BY <1>5 DEF Operator!NoNode, Operator!EmptyDir, Operator!Genesis
  <2>2. RunTypes'
    BY <1>2, <1>3, <2>1 DEF RunTypes
  <2>3. Counted' /\ Faithful' /\ Passing' /\ Spent'
    BY <1>1 DEF Counted, At, Faithful, Passing, Spent, Gone
  <2>4. dir'.tip.h = 0 /\ peer.tip.h \in Nat
    BY <2>1, RunFacts
  <2>5. Rising'
    BY <1>1, <2>4 DEF Rising
  <2>6. Housed'
    <3>1. bundle = "none"
      BY <1>5 DEF Housed, RunTypes, Gone
    <3>2. ~process'.up
      BY <2>1
    <3> QED BY <1>1, <3>1, <3>2 DEF Housed, Gone
  <2> QED BY <2>2, <2>3, <2>5, <2>6
<1> QED BY <1>4, <1>5
LEMMA RunFails ==
  ASSUME RunAssumption, RunInv, Operator!Fails \/ Operator!StopThrows \/ Operator!Killed
  PROVE  RunInv'
<1> USE DEF RunInv
<1>1. CASE Operator!Fails \/ Operator!StopThrows
  <2>1. Operator!Finally("failed") /\ bundle' = bundle /\ op.pc \in {"ready", "hello", "confirm", "progress", "stopping"}
    BY <1>1 DEF Operator!Fails, Operator!StopThrows
  <2>2. /\ op' = [Operator!Locals EXCEPT !.pc = "failed"] /\ process' = Operator!NoNode /\ dir' = Operator!EmptyDir
        /\ peer' = peer /\ clock' = clock
    BY <2>1 DEF Operator!Finally
  <2>3. bundle # "documents" /\ op.pc \notin Gone
    BY <2>1 DEF Housed, Gone
  <2> QED BY <2>1, <2>2, <2>3, RunOver
<1>2. CASE Operator!Killed
  <2>1. op.pc \notin Gone /\ op' = [Operator!Locals EXCEPT !.pc = "killed"]
    BY <1>2 DEF Operator!Killed, Operator!Running, Operator!Ended, Gone
  <2>2. peer' = peer /\ process' = process /\ dir' = dir /\ clock' = clock /\ bundle' = bundle
    BY <1>2 DEF Operator!Killed
  <2> QED BY <2>1, <2>2, RunOver
<1> QED BY <1>1, <1>2

LEMMA RunStopped ==
  ASSUME RunAssumption, RunInv, op.pc \in {"stop", "stopping"}, Operator!Stopped, peer' = peer, bundle' = bundle
  PROVE  RunInv'
<1> USE DEF RunInv
<1>1. At({"stop", "stopping"}, 1, 3, 1, 1) \/ At({"stop", "stopping"}, 2, 4, 2, 2)
  BY DEF Counted, At
<1>2. bundle \notin {"documents", "whole", "altered", "unreadable"} /\ dir.id = 1 /\ op.pc \notin Gone
  BY DEF Housed, Gone
<1>3. CASE op.round = 1
  <2>1. Operator!StartNode(2) /\ op' = [op EXCEPT !.pc = "ready", !.round = 2]
    BY <1>3 DEF Operator!Stopped
  <2>2. Len(op.rows) = 3 /\ Len(op.signed) = 1 /\ Len(op.peers) = 1
    BY <1>1, <1>3 DEF At
  <2>3. /\ op' \in Records /\ op'.pc = "ready" /\ op'.since = op.since /\ op'.round = 2 /\ op'.rows = op.rows
        /\ op'.signed = op.signed /\ op'.peers = op.peers /\ op'.pre = op.pre
    <3>1. op' = [pc |-> "ready", round |-> 2, since |-> op.since, until |-> op.until, rows |-> op.rows, signed |-> op.signed, pre |-> op.pre, peers |-> op.peers]
      BY <2>1 DEF RunTypes, Records
    <3>2. op \in Records
      BY DEF RunTypes
    <3> QED BY <3>1, <3>2, RunFacts DEF Records, Stations
  <2>4. /\ process' \in [up : BOOLEAN, code : {0, 1}, auth : BOOLEAN, tip : Operator!Tip]
        /\ dir' \in [id : {None, 1}, tip : Operator!Tip] /\ dir'.id = 1
        /\ clock' \in [now : Nat, ticks : 0..MaxTicks, back : Nat]
        /\ clock'.now = clock.now + 1 /\ clock'.ticks = clock.ticks /\ clock'.back = clock.back
        /\ process'.tip = dir'.tip /\ dir'.tip = dir.tip
    <3>1. 2 \in {1, 2} /\ 2 # 1
      OBVIOUS
    <3> QED BY <1>2, <2>1, <3>1, RunStarts
  <2>5. RunTypes'
    BY <2>3, <2>4 DEF RunTypes
  <2>6. Counted'
    BY <2>2, <2>3 DEF Counted, At
  <2>7. Faithful'
    BY <2>2, <2>3 DEF Faithful
  <2>8. Housed'
    BY <1>2, <2>3, <2>4 DEF Housed, Gone
  <2>9. Rising'
    BY <1>2, <2>3, <2>4 DEF Rising, Gone
  <2>10. clock.now \in Nat /\ clock.ticks \in Nat /\ op.since \in Nat /\ \A i \in 1..Len(op.rows) : op.rows[i].at \in Nat
    BY RunFacts
  <2>11. Spent'
    <3>1. clock.now <= clock.ticks + 2
      BY <1>2, <1>3 DEF Spent
    <3> QED BY <2>3, <2>4, <2>10, <3>1 DEF Spent
  <2>12. Passing'
    <3> SUFFICES ASSUME clock.back = 0 PROVE Passing'
      BY <2>4 DEF Passing
    <3>1. op.since < clock.now /\ \A i \in 1..Len(op.rows) : op.since <= op.rows[i].at /\ op.rows[i].at <= clock.now
      BY <1>2 DEF Passing
    <3>2. \A i \in 1..Len(op.rows) : op.rows[i].at < clock'.now
      BY <2>4, <2>10, <3>1
    <3>3. op.since < clock'.now /\ op.rows[3].at < clock'.now /\ \A i \in 1..Len(op.rows) : op.since <= op.rows[i].at /\ op.rows[i].at <= clock'.now
      BY <2>2, <2>4, <2>10, <3>1, <3>2
    <3>4. op.rows[1].at < op.rows[2].at /\ op.rows[2].at <= op.rows[3].at
      BY <2>2 DEF Passing
    <3> QED BY <2>2, <2>3, <3>3, <3>4 DEF Passing
  <2> QED BY <2>5, <2>6, <2>7, <2>8, <2>9, <2>11, <2>12
<1>4. CASE op.round = 2
  <2>1. op' = [op EXCEPT !.pc = "write", !.until = clock.now] /\ process' = process /\ dir' = dir /\ clock' = clock
    BY <1>4 DEF Operator!Stopped
  <2>2. Len(op.rows) = 4 /\ Len(op.signed) = 2 /\ Len(op.peers) = 2
    BY <1>1, <1>4 DEF At
  <2>3. /\ op' \in Records /\ op'.pc = "write" /\ op'.since = op.since /\ op'.until = clock.now /\ op'.round = 2 /\ op'.rows = op.rows
        /\ op'.signed = op.signed /\ op'.peers = op.peers /\ op'.pre = op.pre
    <3>1. op' = [pc |-> "write", round |-> op.round, since |-> op.since, until |-> clock.now, rows |-> op.rows, signed |-> op.signed, pre |-> op.pre, peers |-> op.peers]
      BY <2>1 DEF RunTypes, Records
    <3>2. op \in Records
      BY DEF RunTypes
    <3> QED BY <1>4, <3>1, <3>2, RunFacts DEF Records, Stations
  <2>4. RunTypes'
    BY <2>1, <2>3 DEF RunTypes
  <2>5. Counted'
    BY <2>2, <2>3 DEF Counted, At
  <2>6. Faithful'
    BY <2>2, <2>3 DEF Faithful
  <2>7. Housed'
    BY <1>2, <2>1, <2>3 DEF Housed, Gone
  <2>8. Rising'
    BY <1>2, <2>1, <2>3 DEF Rising, Gone
  <2>9. Spent'
    BY <2>1, <2>3 DEF Spent, Gone
  <2>10. Passing'
    <3> SUFFICES ASSUME clock.back = 0 PROVE Passing'
      BY <2>1 DEF Passing
    <3>1. op.since < clock.now /\ \A i \in 1..Len(op.rows) : op.since <= op.rows[i].at /\ op.rows[i].at <= clock.now
      BY <1>2 DEF Passing
    <3>2. op.rows[1].at < op.rows[2].at /\ op.rows[2].at <= op.rows[3].at /\ op.rows[3].at < op.rows[4].at
      BY <2>2 DEF Passing
    <3>3. \A i \in 1..Len(op'.rows) : op'.rows[i].at <= op'.until /\ op'.since <= op'.rows[i].at /\ op'.rows[i].at <= clock'.now
      BY <2>1, <2>3, <3>1
    <3>4. op'.since < op'.until /\ op'.since < clock'.now /\ op'.pc = "write" /\ Len(op'.rows) = 4
      BY <2>1, <2>2, <2>3, <3>1
    <3>5. op'.rows[1].at < op'.rows[2].at /\ op'.rows[2].at <= op'.rows[3].at /\ op'.rows[3].at < op'.rows[4].at
      BY <2>3, <3>2
    <3> QED BY <3>3, <3>4, <3>5 DEF Passing
  <2> QED BY <2>4, <2>5, <2>6, <2>7, <2>8, <2>9, <2>10
<1> QED BY <1>3, <1>4, RunFacts

LEMMA RunStop ==
  ASSUME RunAssumption, RunInv, Operator!Stop \/ Operator!StopReturns
  PROVE  RunInv'
<1> USE DEF RunInv
<1>1. op.pc \in {"stop", "stopping"} /\ peer' = peer /\ bundle' = bundle
  BY DEF Operator!Stop, Operator!StopReturns
<1>2. CASE Operator!Stopped
  BY <1>1, <1>2, RunStopped
<1>3. CASE ~Operator!Stopped
  <2>1. op.pc = "stop" /\ op' = [op EXCEPT !.pc = "stopping"] /\ process' = process /\ dir' = dir /\ clock' = clock
    BY <1>3 DEF Operator!Stop, Operator!StopReturns
  <2>2. /\ op' \in Records /\ op'.pc = "stopping" /\ op'.since = op.since /\ op'.until = op.until /\ op'.round = op.round /\ op'.rows = op.rows
        /\ op'.signed = op.signed /\ op'.peers = op.peers /\ op'.pre = op.pre
    <3>1. op' = [pc |-> "stopping", round |-> op.round, since |-> op.since, until |-> op.until, rows |-> op.rows, signed |-> op.signed, pre |-> op.pre, peers |-> op.peers]
      BY <2>1 DEF RunTypes, Records
    <3>2. op \in Records
      BY DEF RunTypes
    <3> QED BY <3>1, <3>2, RunFacts DEF Records, Stations
  <2>3. RunTypes'
    BY <1>1, <2>1, <2>2 DEF RunTypes
  <2>4. At({"stop", "stopping"}, 1, 3, 1, 1) \/ At({"stop", "stopping"}, 2, 4, 2, 2)
    BY <2>1 DEF Counted, At
  <2>5. Counted'
    BY <2>2, <2>4 DEF Counted, At
  <2>6. Faithful'
    BY <2>2 DEF Faithful
  <2>7. Housed'
    BY <1>1, <2>1, <2>2 DEF Housed, Gone
  <2>8. Rising'
    BY <1>1, <2>1, <2>2 DEF Rising, Gone
  <2>9. Spent'
    BY <2>1, <2>2 DEF Spent, Gone
  <2>10. Passing'
    BY <2>1, <2>2 DEF Passing, Gone
  <2> QED BY <2>3, <2>5, <2>6, <2>7, <2>8, <2>9, <2>10
<1> QED BY <1>2, <1>3

LEMMA RunWrites ==
  ASSUME RunAssumption, RunInv, Operator!WriteDocuments \/ Operator!WriteManifest \/ Operator!Damage
  PROVE  RunInv'
<1> USE DEF RunInv
<1>1. CASE Operator!WriteDocuments \/ Operator!Damage
  <2>1. peer' = peer /\ process' = process /\ dir' = dir /\ clock' = clock /\ op' = op
    BY <1>1 DEF Operator!WriteDocuments, Operator!Damage
  <2>2. \/ bundle' = "documents" /\ op.pc = "write"
        \/ bundle = "whole" /\ bundle' \in {"altered", "unreadable"}
    BY <1>1 DEF Operator!WriteDocuments, Operator!Damage
  <2>3. Housed' /\ RunTypes'
    BY <2>1, <2>2 DEF Housed, RunTypes
  <2> QED BY <2>1, <2>3 DEF Counted, At, Faithful, Rising, Passing, Spent
<1>2. CASE Operator!WriteManifest
  <2>1. op.pc = "write" /\ bundle' = "whole" /\ Operator!Finally("done")
    BY <1>2 DEF Operator!WriteManifest
  <2>2. /\ op' = [op EXCEPT !.pc = "done"] /\ peer' = peer /\ clock' = clock
        /\ process' = [up |-> FALSE, code |-> 0, auth |-> FALSE, tip |-> [h |-> 0, w |-> 0]] /\ dir' = [id |-> None, tip |-> [h |-> 0, w |-> 0]]
    BY <2>1 DEF Operator!Finally, Operator!NoNode, Operator!EmptyDir, Operator!Genesis
  <2>3. /\ op' \in Records /\ op'.pc = "done" /\ op'.since = op.since /\ op'.until = op.until /\ op'.round = op.round /\ op'.rows = op.rows
        /\ op'.signed = op.signed /\ op'.peers = op.peers /\ op'.pre = op.pre
    <3>1. op' = [pc |-> "done", round |-> op.round, since |-> op.since, until |-> op.until, rows |-> op.rows, signed |-> op.signed, pre |-> op.pre, peers |-> op.peers]
      BY <2>2 DEF RunTypes, Records
    <3>2. op \in Records
      BY DEF RunTypes
    <3> QED BY <3>1, <3>2, RunFacts DEF Records, Stations
  <2>4. [h |-> 0, w |-> 0] \in Operator!Tip /\ peer.tip.h \in Nat
    BY RunFacts DEF Operator!Tip
  <2>5. RunTypes'
    BY <2>1, <2>2, <2>3, <2>4 DEF RunTypes
  <2>6. At({"stop", "stopping", "write", "done"}, 2, 4, 2, 2)
    BY <2>1 DEF Counted, At
  <2>7. Counted'
    BY <2>3, <2>6 DEF Counted, At
  <2>8. Faithful'
    BY <2>3 DEF Faithful
  <2>9. Housed'
    BY <2>1, <2>2, <2>3 DEF Housed, Gone
  <2>10. dir'.tip.h = 0
    BY <2>2
  <2>11. Rising'
    BY <2>2, <2>3, <2>4, <2>10 DEF Rising
  <2>12. Spent'
    BY <2>1, <2>2, <2>3 DEF Spent, Gone
  <2>13. Passing'
    BY <2>1, <2>2, <2>3 DEF Passing, Gone
  <2> QED BY <2>5, <2>7, <2>8, <2>9, <2>11, <2>12, <2>13
<1> QED BY <1>1, <1>2

LEMMA RunSteps ==
  ASSUME RunAssumption, RunInv, [Operator!Next]_(Operator!vars)
  PROVE  RunInv'
<1>1. CASE UNCHANGED Operator!vars
  BY <1>1 DEF Operator!vars, RunInv, RunTypes, Counted, At, Housed, Faithful, Rising, Passing, Spent
<1>2. CASE Operator!Next
  BY <1>2, RunNode, RunPeerMines, RunClock, RunBegin, RunReady, RunHello, RunDelay, RunConfirm, RunProgress, RunFails,
     RunStop, RunWrites DEF Operator!Next, Operator!Runner
<1> QED BY <1>1, <1>2

(* What the verifier says of a bundle that is whole.                        *)
LEMMA HonestRuns ==
  ASSUME RunAssumption, RunInv, bundle = "whole"
  PROVE  /\ Operator!Verdict(TRUE) \in {"PASS", "FAIL"}
         /\ Operator!Verdict(TRUE) = "FAIL" => peer.fell \/ clock.back > 0 \/ op.rows[2].at = op.rows[3].at
<1> USE DEF RunInv
<1>1. op.pc = "done"
  BY DEF Housed
<1>2. Len(op.rows) = 4 /\ Len(op.signed) = 2 /\ Len(op.peers) = 2
  BY <1>1 DEF Counted, At
<1>3. Operator!RowsOf(1) = op.rows[1] /\ Operator!RowsOf(2) = op.rows[4]
  BY <1>2 DEF Operator!RowsOf
<1>4. op.rows[1].tip = op.signed[1].tip /\ op.rows[4].tip = op.signed[2].tip
  BY <1>2 DEF Faithful
<1>5. op.signed[1].id = op.signed[2].id
  <2>1. op.signed \in Seq([id : {1}, tip : Operator!Tip]) /\ 1 \in 1..Len(op.signed) /\ 2 \in 1..Len(op.signed)
    BY <1>2, RunFacts
  <2>2. op.signed[1] \in [id : {1}, tip : Operator!Tip] /\ op.signed[2] \in [id : {1}, tip : Operator!Tip]
    BY <2>1, ElementOfSeq
  <2> QED BY <2>2
<1>6. ~Operator!Provenance(TRUE)
  <2>1. \A i \in 1..2 : Operator!RowsOf(i).tip = op.signed[i].tip
    BY <1>3, <1>4
  <2> QED BY <1>5, <2>1 DEF Operator!Provenance
<1>7. Operator!Verdict(TRUE) = IF Operator!Admissible THEN "PASS" ELSE "FAIL"
  BY <1>6 DEF Operator!Verdict
<1>8. ASSUME ~peer.fell, ~(clock.back > 0), op.rows[2].at # op.rows[3].at PROVE Operator!Admissible
  <2>1. clock.back = 0
    BY <1>8, RunFacts
  <2>2. \A i \in 1..4 : op.rows[i].at \in Nat /\ op.rows[i].tip.h \in Nat
    BY <1>2, RunFacts
  <2>3. /\ op.rows[1].at < op.rows[2].at /\ op.rows[2].at < op.rows[3].at /\ op.rows[3].at < op.rows[4].at
        /\ op.since < op.until
        /\ \A i \in 1..4 : op.since <= op.rows[i].at /\ op.rows[i].at <= op.until
    BY <1>1, <1>2, <1>8, <2>1, <2>2 DEF Passing
  <2>4. \A i, j \in 1..4 : i < j => op.rows[i].tip.h <= op.rows[j].tip.h
    BY <1>2, <1>8 DEF Rising
  <2>5. op.rows[3].tip = op.pre /\ op.rows[3].tip.h > op.rows[1].tip.h
    BY <1>2 DEF Faithful
  <2>6. Operator!TipsOrdered
    <3>1. ASSUME NEW i \in 2..4 PROVE op.rows[i].at > op.rows[i - 1].at /\ op.rows[i].tip.h >= op.rows[i - 1].tip.h
      <4>1. i = 2 \/ i = 3 \/ i = 4
        OBVIOUS
      <4>2. i - 1 \in 1..4 /\ i \in 1..4 /\ i - 1 < i
        OBVIOUS
      <4>3. op.rows[i].tip.h >= op.rows[i - 1].tip.h
        BY <2>2, <2>4, <4>2
      <4>4. op.rows[i].at > op.rows[i - 1].at
        BY <2>2, <2>3, <4>1
      <4> QED BY <4>3, <4>4
    <3>2. Operator!Rows \ {1} = 2..4
      BY <1>2 DEF Operator!Rows
    <3> QED BY <3>1, <3>2 DEF Operator!TipsOrdered
  <2>7. Operator!RowsOf(2).tip.h > Operator!RowsOf(1).tip.h /\ op.signed[2].tip.h >= op.pre.h
    <3>1. op.rows[3].tip.h <= op.rows[4].tip.h
      BY <2>4
    <3>2. op.rows[4].tip.h > op.rows[1].tip.h
      BY <2>2, <2>5, <3>1
    <3> QED BY <1>3, <1>4, <2>2, <2>5, <3>1, <3>2
  <2>8. op.peers = <<TRUE, TRUE>>
    <3>1. op.peers \in Seq({TRUE}) /\ <<TRUE, TRUE>> \in Seq({TRUE}) /\ Len(<<TRUE, TRUE>>) = 2
      BY RunFacts
    <3>2. \A i \in 1..2 : op.peers[i] = <<TRUE, TRUE>>[i]
      <4>1. \A i \in 1..2 : op.peers[i] \in {TRUE}
        BY <1>2, <3>1, ElementOfSeq
      <4>0. 1 \in 1..2 /\ 2 \in 1..2
        OBVIOUS
      <4>2. op.peers[1] \in {TRUE} /\ op.peers[2] \in {TRUE}
        BY <4>0, <4>1
      <4>3. <<TRUE, TRUE>>[1] = TRUE /\ <<TRUE, TRUE>>[2] = TRUE
        OBVIOUS
      <4>4. \A i \in 1..2 : i = 1 \/ i = 2
        OBVIOUS
      <4> QED BY <4>2, <4>3, <4>4
    <3> QED BY <1>2, <3>1, <3>2, SeqEqual
  <2>9. \A i \in Operator!Rows : op.rows[i].at \in op.since..op.until
    <3>1. Operator!Rows = 1..4 /\ op.since \in Nat /\ op.until \in Nat
      BY <1>2, RunFacts DEF Operator!Rows
    <3> QED BY <2>2, <2>3, <3>1
  <2> QED BY <2>3, <2>6, <2>7, <2>8, <2>9 DEF Operator!Admissible
<1> QED BY <1>7, <1>8

LEMMA RunImplies ==
  ASSUME RunAssumption, RunInv
  PROVE  Operator!TypeOK /\ Operator!EvidenceSound
<1> USE DEF RunInv
<1>1. Operator!TypeOK
  <2>1. clock.now \in 0..(MaxTicks + 3)
    <3>1. clock.now <= clock.ticks + 3
      BY DEF Spent
    <3>2. clock.now \in Nat /\ clock.ticks \in 0..MaxTicks /\ MaxTicks \in Nat
      BY RunFacts
    <3> QED BY <3>1, <3>2
  <2>2. Len(op.rows) <= 4 /\ Len(op.signed) <= 2
    <3>1. Len(op.rows) \in {0, 1, 2, 3, 4} /\ Len(op.signed) \in {0, 1, 2}
      BY DEF Counted, At
    <3>2. \A n \in {0, 1, 2, 3, 4} : n <= 4
      OBVIOUS
    <3>3. \A n \in {0, 1, 2} : n <= 2
      OBVIOUS
    <3> QED BY <3>1, <3>2, <3>3, Zenon
  <2>3. op.pre \in Operator!Tip /\ process.up \in BOOLEAN /\ dir.id \in {None, 1, 2}
    BY DEF RunTypes, Records
  <2>4. bundle = "whole" => op.pc = "done"
    BY DEF Housed
  <2> QED BY <2>1, <2>2, <2>3, <2>4, RunFacts DEF Operator!TypeOK
<1>2. Operator!HonestRunPasses
  BY HonestRuns DEF Operator!HonestRunPasses
<1>3. Operator!OnlyWholePasses
  <2> SUFFICES ASSUME NEW ours \in BOOLEAN, Operator!Verdict(ours) = "PASS"
               PROVE  ours /\ op.pc = "done" /\ bundle = "whole"
    BY DEF Operator!OnlyWholePasses
  <2>1. bundle \notin {"none", "documents", "unreadable"} /\ ~Operator!Provenance(ours)
    BY DEF Operator!Verdict
  <2>2. ours /\ bundle # "altered"
    BY <2>1 DEF Operator!Provenance
  <2> QED BY <2>1, <2>2 DEF RunTypes, Housed
<1>4. Operator!NoNodeLeft
  BY DEF Operator!NoNodeLeft, Housed
<1> QED BY <1>1, <1>2, <1>3, <1>4 DEF Operator!EvidenceSound

(* Evidence of a run that came to its end is never refused for its          *)
(* provenance, and fails only if the peer fell, the clock was set back or   *)
(* the tip moved in the millisecond of its confirmation; only what was      *)
(* written whole passes, for who asks for this run; and no run but a killed *)
(* one leaves its node behind: whatever the node and its peer do.           *)
THEOREM RunsSound == Operator!OperatorAssumption /\ Operator!FairSpec => [](Operator!TypeOK /\ Operator!EvidenceSound)
<1> SUFFICES ASSUME RunAssumption PROVE Operator!FairSpec => [](Operator!TypeOK /\ Operator!EvidenceSound)
  BY DEF RunAssumption
<1>1. Operator!Init => RunInv
  BY RunInitially
<1>2. RunInv /\ [Operator!Next]_(Operator!vars) => RunInv'
  BY RunSteps
<1>3. RunInv => Operator!TypeOK /\ Operator!EvidenceSound
  BY RunImplies
<1> QED BY <1>1, <1>2, <1>3, PTL DEF Operator!FairSpec
=============================================================================
