--------------------------- MODULE MCDagAutomata ---------------------------
(***************************************************************************)
(* Instances of DagAutomata: every graph over a few numbered stages whose  *)
(* arcs lead from lower to higher numbers. Up to renaming these are all    *)
(* the graphs that the validator's cycle check lets through.               *)
(***************************************************************************)
EXTENDS DagAutomata

CONSTANT ArcChoices  \* what may stand between two stages: subsets of Kinds

ForwardGraphs ==
    LET pairs == {<<i, j>> \in Stages \X Stages : i < j}
    IN  {[a \in Stages \X Stages |-> IF a \in pairs THEN f[a] ELSE {}] :
            f \in [pairs -> ArcChoices]}

=============================================================================
