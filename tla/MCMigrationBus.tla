-------------------------- MODULE MCMigrationBus --------------------------
(***************************************************************************)
(* Three runs, fully connected (BusTopology) or in a ring (RingTopology).  *)
(***************************************************************************)
EXTENDS MigrationBus

CONSTANTS r1, r2, r3

Bus  == [r \in Runs |-> Runs]
Ring == [r \in Runs |-> {IF r = r1 THEN r3 ELSE IF r = r2 THEN r1 ELSE r2}]
Both == {Bus, Ring}

\* One run may come back.
Lives == [r \in Runs |-> IF r = r2 THEN 2 ELSE 1]

=============================================================================
