--------------------------- MODULE MCUpdateRound ---------------------------
(* UpdateRound for TLC: interchangeable nodes that a round may order.  Two *)
(* rounds, or one round with a broken link, or with a node that is newer   *)
(* or too old to be ordered.                                               *)
EXTENDS UpdateRound, TLC

Symmetry == Permutations(Nodes)

Odd == legacy \cup {n \in Nodes : nodeVersion[n] > Release}
Bounded == round.id + breaks + Cardinality(Odd) <= 2
=============================================================================
