----------------------------- MODULE MCForkChoice -----------------------------
(* Three nodes; the hashes are numbers, and their order decides between     *)
(* chains of equal work.                                                    *)
EXTENDS ForkChoice
=============================================================================
