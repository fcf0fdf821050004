---------------------------- MODULE EngineState ----------------------------
(***************************************************************************)
(* The state shared by the coroutines of the steady-state engine           *)
(* (gigaevo/evolution/engine): the producer tasks spawned by the           *)
(* dispatcher, the ingestor, and SteadyStateEvolutionEngine.run itself.    *)
(* All of them run on one asyncio event loop, so an action of the model is *)
(* the code between two awaits of one coroutine, and the effect of an      *)
(* awaited storage call is an action of its own.                           *)
(*                                                                         *)
(* A producer task t creates at most one child program, so the child is    *)
(* named by its task: program t is the child of task t.                    *)
(***************************************************************************)
EXTENDS Integers, FiniteSets

CONSTANTS
    Seeds,              \* programs in the archive when the dispatcher starts
    Tasks,              \* task ids the dispatcher may hand out (bounds the model)
    MaxInFlight,        \* SteadyStateEngineConfig.max_in_flight
    MaxMutants,         \* MaxMutantsStopper.max_mutants
    MaxEmpty,           \* max_consecutive_mutation_failures
    NumParents,         \* parent_selector.num_parents
    Coalesce,           \* SteadyStateEngineConfig.coalesce_refresh
    MaxOutcomeFailures, \* causal_outcome_max_consecutive_failures
    Faults              \* the things that may go wrong in this instance

FaultKinds == {"llm", "timeout", "dag", "evict", "outcome", "discard",
               "snapshot", "clock", "grace", "drain", "stop"}

ASSUME EngineAssumption ==
    /\ Seeds \subseteq Nat /\ IsFiniteSet(Seeds)
    /\ Tasks \subseteq Nat /\ IsFiniteSet(Tasks)
    /\ Seeds \cap Tasks = {}
    /\ MaxInFlight \in Nat \ {0}
    /\ MaxMutants \in Nat
    /\ MaxEmpty \in Nat \ {0}
    /\ NumParents \in Nat \ {0}
    /\ Coalesce \in BOOLEAN
    /\ MaxOutcomeFailures \in Nat \ {0}
    /\ Faults \subseteq FaultKinds

Program == Seeds \cup Tasks

VARIABLES
    state,              \* ProgramState of every program in storage
    evaluating,         \* programs some DAG task is evaluating
    archive,            \* ids held by the evolution strategy
    pc,                 \* where each producer task is
    parents,            \* the parents each task selected
    targets,            \* the parents its refresh has to flip
    flip,               \* the targets its batch transition found DONE
    held,               \* per-parent locks a task, or the ticket of its child, holds
    cancelled,          \* tasks with a cancellation request pending or delivered
    fresh,              \* ParentRefresher._fresh
    producer_free,      \* free slots of _producer_sema
    buffer_free,        \* free slots of _buffer_sema
    in_flight,          \* engine._in_flight
    settled,            \* children the ingestor took out of in_flight (history)
    mutations_created,  \* metrics.mutations_created
    programs_processed, \* metrics.programs_processed
    d_pc,               \* where the dispatcher is
    active,             \* the dispatcher's set of unreaped tasks
    consecutive_empty,  \* its count of tasks in a row that produced no child
    failed,             \* its failures list is not empty
    terminal,           \* engine._terminal_stop_decision is set
    i_pc,               \* where poll_and_ingest is
    cand, todo, handled, rejects, leaked,   \* the locals of one poll
    outcome_failures,   \* engine._outcome_failure_counts
    m_pc,               \* where run() is
    running,            \* engine._running
    drained             \* run()'s terminally_drained

storeVars == <<state, evaluating, archive>>
taskVars  == <<pc, parents, targets, flip, held, cancelled, fresh>>
slotVars  == <<producer_free, buffer_free, in_flight, settled,
               mutations_created, programs_processed>>
dispVars  == <<d_pc, active, consecutive_empty, failed, terminal>>
ingVars   == <<i_pc, cand, todo, handled, rejects, leaked, outcome_failures>>
mainVars  == <<m_pc, running, drained>>
vars      == <<storeVars, taskVars, slotVars, dispVars, ingVars, mainVars>>

ProgramState == {"ABSENT", "QUEUED", "RUNNING", "DONE", "DISCARDED"}

\* The pcs of run_one_mutant. A task that holds a producer slot is Live; a
\* Finished one has run its finally clause and waits to be reaped.
Refreshing == {"locking", "quiesce", "flip", "flip_write", "await", "reading"}
Live       == Refreshing \cup {"selecting", "llm", "adding", "persisted",
                               "handoff", "snapshot"}
Finished   == {"child", "none", "raised", "cancelled", "cancelled_add"}
TaskPC     == {"unborn"} \cup Live \cup Finished

DispatcherPC == {"loop", "wait", "acquire", "gather", "cancelling", "done", "failed"}
IngestorPC   == {"idle", "fetch", "batch", "ingest", "discard", "release",
                 "snapshot", "exited", "dead"}
MainPC       == {"wait", "drain", "join", "cancel_dispatcher",
                 "cancel_ingestor", "sweep", "final", "stopped"}

TypeOK ==
    /\ state \in [Program -> ProgramState]
    /\ evaluating \subseteq Program
    /\ archive \subseteq Program
    /\ pc \in [Tasks -> TaskPC]
    /\ parents \in [Tasks -> SUBSET Program]
    /\ targets \in [Tasks -> SUBSET Program]
    /\ flip \in [Tasks -> SUBSET Program]
    /\ held \in [Tasks -> SUBSET Program]
    /\ cancelled \subseteq Tasks
    /\ fresh \subseteq Program
    /\ producer_free \in Nat
    /\ buffer_free \in Nat
    /\ in_flight \subseteq Tasks
    /\ settled \subseteq Tasks
    /\ mutations_created \in Nat
    /\ programs_processed \in Nat
    /\ d_pc \in DispatcherPC
    /\ active \subseteq Tasks
    /\ consecutive_empty \in Nat
    /\ failed \in BOOLEAN
    /\ terminal \in BOOLEAN
    /\ i_pc \in IngestorPC
    /\ cand \subseteq Tasks
    /\ todo \subseteq Tasks
    /\ handled \subseteq Tasks
    /\ rejects \subseteq Tasks
    /\ leaked \subseteq Tasks
    /\ outcome_failures \in [Tasks -> Nat]
    /\ m_pc \in MainPC
    /\ running \in BOOLEAN
    /\ drained \in BOOLEAN

\* The engine after run() has drained and ingested the seed population and
\* created the dispatcher and ingestor tasks.
Init ==
    /\ state = [p \in Program |-> IF p \in Seeds THEN "DONE" ELSE "ABSENT"]
    /\ evaluating = {}
    /\ archive = Seeds
    /\ pc = [t \in Tasks |-> "unborn"]
    /\ parents = [t \in Tasks |-> {}]
    /\ targets = [t \in Tasks |-> {}]
    /\ flip = [t \in Tasks |-> {}]
    /\ held = [t \in Tasks |-> {}]
    /\ cancelled = {}
    /\ fresh = {}
    /\ producer_free = MaxInFlight
    /\ buffer_free = MaxInFlight
    /\ in_flight = {}
    /\ settled = {}
    /\ mutations_created = 0
    /\ programs_processed = 0
    /\ d_pc = "loop"
    /\ active = {}
    /\ consecutive_empty = 0
    /\ failed = FALSE
    /\ terminal = FALSE
    /\ i_pc = "idle"
    /\ cand = {} /\ todo = {} /\ handled = {} /\ rejects = {} /\ leaked = {}
    /\ outcome_failures = [t \in Tasks |-> 0]
    /\ m_pc = "wait"
    /\ running = TRUE
    /\ drained = FALSE

\* The DAG runner as the engine sees it through storage. The write of DONE
\* is blind (batch_transition_state): it does not look at the stored state.
\* (DagRunner.tla has the runner itself.)
DagStart(p) ==
    /\ state[p] = "QUEUED"
    /\ p \notin evaluating
    /\ state' = [state EXCEPT ![p] = "RUNNING"]
    /\ evaluating' = evaluating \cup {p}
    /\ UNCHANGED <<archive, taskVars, slotVars, dispVars, ingVars, mainVars>>

DagFinish(p) ==
    /\ p \in evaluating
    /\ \/ state' = [state EXCEPT ![p] = "DONE"]
       \/ "dag" \in Faults /\ state' = [state EXCEPT ![p] = "DISCARDED"]
    /\ evaluating' = evaluating \ {p}
    /\ UNCHANGED <<archive, taskVars, slotVars, dispVars, ingVars, mainVars>>

=============================================================================
