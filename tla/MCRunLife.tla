----------------------------- MODULE MCRunLife -----------------------------
(***************************************************************************)
(* RunLife for TLC: process lives and producer tasks are interchangeable.  *)
(* Nothing is claimed once two processes have shared the storage, so such  *)
(* states are not explored further.                                        *)
(***************************************************************************)
EXTENDS RunLife, TLC

Symmetry == Permutations(Instances) \cup Permutations(Producers)

NotShared == ~shared

=============================================================================
