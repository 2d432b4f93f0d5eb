--------------------------- MODULE MCHistoryStore ---------------------------
(* HistoryStore for TLC: rounds, senders and clears are interchangeable.   *)
EXTENDS HistoryStore, TLC

Symmetry == Permutations(Rounds) \cup Permutations(Senders) \cup Permutations(Clears)

(* At most three commands in one behaviour, in any combination. *)
ThreeCommands == Cardinality({t \in Threads : pc[t] # "idle"}) <= 3
=============================================================================
