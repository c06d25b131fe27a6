---------------------------- MODULE MCDurableStore ----------------------------
(* The three files of DurableStore.                                         *)
EXTENDS DurableStore
Names == {"path", "path.tmp", "path.bak"}
=============================================================================
