-------------------------- MODULE ProgramLifecycle --------------------------
(***************************************************************************)
(* What programs/program_state.py promises of the state of a program: it   *)
(* moves along VALID_TRANSITIONS only, and DISCARDED is the end. Back from *)
(* RUNNING leads only a restart, which requeues every program the dead     *)
(* process was evaluating before the new one begins to work.               *)
(***************************************************************************)
CONSTANT Programs

VARIABLES
    state,  \* of each program; ABSENT before it is stored
    up      \* a process is at work

vars == <<state, up>>

\* VALID_TRANSITIONS.
ValidTransitions ==
    [QUEUED    |-> {"RUNNING", "DISCARDED"},
     RUNNING   |-> {"DONE", "DISCARDED"},
     DONE      |-> {"QUEUED", "DISCARDED"},
     DISCARDED |-> {}]

Init == state = [p \in Programs |-> "ABSENT"] /\ up = TRUE

\* A new program is stored QUEUED.
Add(p) ==
    /\ up /\ state[p] = "ABSENT"
    /\ state' = [state EXCEPT ![p] = "QUEUED"]
    /\ UNCHANGED up

\* A batch of programs moves to one new state, each by a valid transition.
Move(P, new) ==
    /\ up
    /\ \A p \in P : state[p] # "ABSENT" /\ new \in ValidTransitions[state[p]]
    /\ state' = [p \in Programs |-> IF p \in P THEN new ELSE state[p]]
    /\ UNCHANGED up

\* The process dies.
Die == up /\ up' = FALSE /\ UNCHANGED state

\* recover_stranded_programs takes a program back.
Requeue(p) ==
    /\ ~up /\ state[p] = "RUNNING"
    /\ state' = [state EXCEPT ![p] = "QUEUED"]
    /\ UNCHANGED up

\* The next process begins to work; no program is left RUNNING.
Restart ==
    /\ ~up /\ \A p \in Programs : state[p] # "RUNNING"
    /\ up' = TRUE
    /\ UNCHANGED state

Next ==
    \/ \E p \in Programs : Add(p) \/ Requeue(p)
    \/ \E P \in SUBSET Programs, new \in DOMAIN ValidTransitions : Move(P, new)
    \/ Die \/ Restart

Spec == Init /\ [][Next]_vars

=============================================================================
