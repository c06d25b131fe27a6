--------------------------- MODULE DurableRegister ---------------------------
(***************************************************************************)
(* What a durable store promises to its owner.  A save that returned is    *)
(* never forgotten: each later load gives that state, or one whose save    *)
(* was begun after it.  Which of these it is becomes final with the next   *)
(* save that returns.  DurableStore implements this with three files.      *)
(***************************************************************************)
EXTENDS Integers

CONSTANT MaxSaves  \* a number, which DurableStore assumes

Nothing == -1

VARIABLES
  value,   \* the state last saved with success
  doubt,   \* the states whose save was begun since then
  latest,  \* how many saves were begun; the number names the state saved
  loaded,  \* what the last load gave the owner, or Nothing
  open     \* whether the owner may save
vars == <<value, doubt, latest, loaded, open>>

Init == value = 0 /\ doubt = {} /\ latest = 0 /\ loaded = Nothing /\ open = FALSE

Begin ==
  /\ open /\ latest < MaxSaves
  /\ latest' = latest + 1
  /\ doubt' = doubt \cup {latest'}
  /\ UNCHANGED <<value, loaded, open>>

(* The save under way returns; one that throws is a stuttering step.        *)
Return ==
  /\ open /\ doubt # {}
  /\ value' = latest /\ doubt' = {}
  /\ UNCHANGED <<latest, loaded, open>>

Load ==
  /\ ~open /\ open' = TRUE
  /\ loaded' \in doubt \cup {value}
  /\ UNCHANGED <<value, doubt, latest>>

(* load() throws, and the owner goes on with the state it has.              *)
Forgo == ~open /\ open' = TRUE /\ loaded' = Nothing /\ UNCHANGED <<value, doubt, latest>>

Die == open /\ open' = FALSE /\ UNCHANGED <<value, doubt, latest, loaded>>

Next == Begin \/ Return \/ Load \/ Forgo \/ Die
Spec == Init /\ [][Next]_vars
=============================================================================
