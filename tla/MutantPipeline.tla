--------------------------- MODULE MutantPipeline ---------------------------
(***************************************************************************)
(* What the producer/ingestor machinery of the engine promises, without    *)
(* tasks, locks, polls or cancellations: a persisted child waits for a     *)
(* place in a bounded buffer, and leaves the buffer once, settled.         *)
(***************************************************************************)
EXTENDS Integers, FiniteSets

CONSTANTS Child, Capacity

VARIABLES waiting, buffered, settled

pipeVars == <<waiting, buffered, settled>>

Empty == waiting = {} /\ buffered = {} /\ settled = {}

Produce(c) ==
    /\ c \notin waiting \cup buffered \cup settled
    /\ waiting' = waiting \cup {c}
    /\ UNCHANGED <<buffered, settled>>

Admit(c) ==
    /\ c \in waiting /\ Cardinality(buffered) < Capacity
    /\ waiting' = waiting \ {c}
    /\ buffered' = buffered \cup {c}
    /\ UNCHANGED settled

Settle ==
    \E S \in SUBSET buffered :
        /\ S # {}
        /\ buffered' = buffered \ S
        /\ settled' = settled \cup S
        /\ UNCHANGED waiting

Step == (\E c \in Child : Produce(c) \/ Admit(c)) \/ Settle

Pipe == Empty /\ [][Step]_pipeVars

=============================================================================
