--------------------------------- MODULE Sums ---------------------------------
(* Sums over sequences, as a recursive function of the position reached,    *)
(* and over finite sets, as one of the subset left, so that module          *)
(* SumsProofs can reason about them.                                        *)
EXTENDS Integers, Sequences

SumSeq(q) ==
  LET sum[i \in 0..Len(q)] == IF i = 0 THEN 0 ELSE sum[i - 1] + q[i]
  IN  sum[Len(q)]

(* The sum of f[x] over the members x of S.                                 *)
SumOver(f, S) ==
  LET sum[T \in SUBSET S] ==
        IF T = {} THEN 0 ELSE LET x == CHOOSE y \in T : TRUE IN f[x] + sum[T \ {x}]
  IN  sum[S]
=============================================================================
