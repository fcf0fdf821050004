--------------------------- MODULE MCMultiIsland ---------------------------
(***************************************************************************)
(* Two islands with different grids: on one all programs compete for a     *)
(* cell, on the other each has its own and the size limit decides.         *)
(***************************************************************************)
EXTENDS MultiIsland, TLC

CONSTANTS p1, c1, c2, i1

Grids == [i \in Islands |-> [p \in Programs |->
             IF i = i1 \/ p = p1 THEN c1 ELSE c2]]
P1Worst == [p \in Programs |-> IF p = p1 THEN 1 ELSE 2]

Symmetry == Permutations(Programs \ {p1}) \cup Permutations(Migrators)

=============================================================================
