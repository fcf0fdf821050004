---------------------------- MODULE ProgramStore ----------------------------
(***************************************************************************)
(* RedisProgramStorage as a state machine over two kinds of keys: the blob *)
(* of a program, which carries its state, and one status set per state.    *)
(* The engine reads blobs, the DAG scheduler reads the sets; every         *)
(* transition writes both in one pipeline, without looking at what it      *)
(* overwrites.                                                             *)
(***************************************************************************)
EXTENDS Naturals, FiniteSets

CONSTANT Programs

VARIABLES
    blob,   \* the state field of each stored program, or ABSENT
    inset   \* the members of each status set

Status == {"QUEUED", "RUNNING", "DONE", "DISCARDED"}

StoreTypeOK ==
    /\ blob \in [Programs -> Status \cup {"ABSENT"}]
    /\ inset \in [Status -> SUBSET Programs]

StoreInit ==
    /\ blob = [p \in Programs |-> "ABSENT"]
    /\ inset = [st \in Status |-> {}]

\* Mutated form: the program is added to the new set and not removed from the old.
TransitionKeepsOld(P, old, new) ==
    /\ blob' = [p \in Programs |-> IF p \in P THEN new ELSE blob[p]]
    /\ inset' = [st \in Status |-> inset[st] \cup (IF st = new THEN P ELSE {})]

\* SET of every blob, SREM from the set of the state the CALLER believes the
\* program to be in, SADD to the set of the new one. This is the effect of
\* fast_state_transition, batch_transition_state and the write half of
\* batch_transition_by_ids.
Transition(P, old, new) ==
    /\ blob' = [p \in Programs |-> IF p \in P THEN new ELSE blob[p]]
    /\ inset' = [st \in Status |->
                   (inset[st] \ {p \in P : old[p] = st}) \cup (IF st = new THEN P ELSE {})]

From(s) == [p \in Programs |-> s]

\* ProgramStateManager.set_program_state(prog, DISCARDED), with prog in the
\* state seen: nothing is written when prog is DISCARDED already.
SetDiscarded(P, seen) == Transition({p \in P : seen[p] # "DISCARDED"}, seen, "DISCARDED")

\* write_exclusive: the blob alone.
WriteExclusive(p, s) ==
    /\ blob' = [blob EXCEPT ![p] = s]
    /\ UNCHANGED inset

=============================================================================
