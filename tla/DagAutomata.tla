---------------------------- MODULE DagAutomata ----------------------------
(***************************************************************************)
(* One program's stage graph executed by DAG (programs/dag/dag.py) under   *)
(* the decisions of DAGAutomata (programs/dag/automata.py), over several   *)
(* runs: the stage results of a run stay on the program, and the next run  *)
(* may reuse them through the stages' cache handlers.                      *)
(*                                                                         *)
(* The loop of DAG._run_internal suspends only in asyncio.wait, so one     *)
(* pass over skips, ready set, cache hits and launches is one step. Stage  *)
(* tasks run concurrently; their outcomes enter the program's results only *)
(* when the loop collects them.                                            *)
(***************************************************************************)
EXTENDS Naturals, FiniteSets

CONSTANTS
    Stages,       \* the nodes of the graph
    Values,       \* what a stage may output
    NoInput,      \* None, for an input without a COMPLETED producer
    NoHash,       \* None, for a result without an input_hash
    Graphs,       \* the graphs of this instance: [Stages \X Stages -> SUBSET Kinds]
    Volatile,     \* the stages whose handler is NeverCached; InputHashCache elsewhere
    MaxParallel,  \* max_parallel_stages
    MaxRuns,      \* runs of the DAG in a behaviour (bounds the model)
    Faults        \* subset of {"crash", "timeout"}

\* An arc into a stage is a mandatory or an optional input (DataFlowEdge) or
\* an execution-order dependency with its condition.
DataKinds == {"required", "optional"}
Kinds     == DataKinds \cup {"always", "success", "failure"}

FINAL_STATES == {"COMPLETED", "FAILED", "CANCELLED", "SKIPPED"}
StageState   == FINAL_STATES \cup {"PENDING", "RUNNING"}

\* DAGValidator._validate_cycles: a graph is built only when every set of
\* stages has one that depends on none of the others (and not on itself).
Acyclic(g) ==
    \A T \in SUBSET Stages \ {{}} : \E s \in T : \A p \in T : g[<<p, s>>] = {}

ASSUME DagAssumption ==
    /\ IsFiniteSet(Stages)
    /\ NoInput \notin Values /\ NoHash \notin [Stages -> Values \cup {NoInput}]
    /\ Graphs \subseteq [Stages \X Stages -> SUBSET Kinds]
    /\ \A g \in Graphs : Acyclic(g)
    /\ Volatile \subseteq Stages
    /\ MaxParallel \in Nat \ {0} /\ MaxRuns \in Nat
    /\ Faults \subseteq {"crash", "timeout"}

VARIABLES
    graph,          \* the topology: the kinds of the arcs between two stages
    res,            \* program.stage_results, in memory
    saved,          \* program.stage_results, in storage
    launched,       \* launched_this_run
    finished,       \* finished_this_run
    task,           \* the stage tasks: none, queued at _stage_sema, exec, done
    given,          \* the named inputs computed for a launched stage
    phase,          \* of the loop
    runs

loopVars  == <<launched, finished>>
taskVars  == <<task, given>>
vars      == <<graph, res, saved, loopVars, taskVars, phase, runs>>

Inputs == [Stages -> Values \cup {NoInput}]

Results ==
    [status : StageState, output : Values \cup {NoInput},
     input_hash : Inputs \cup {NoHash}, auto : BOOLEAN]

Result(status, output, hash) ==
    [status |-> status, output |-> output, input_hash |-> hash, auto |-> FALSE]

Pending  == Result("PENDING", NoInput, NoHash)
AutoSkip == [status |-> "SKIPPED", output |-> NoInput, input_hash |-> NoHash, auto |-> TRUE]

Phases == {"idle", "loop", "wait", "ended", "error", "discarded"}

\* Both running and pending_tasks: launched and not collected.
running == {s \in Stages : task[s] # "none"}

Init ==
    /\ graph \in Graphs
    /\ res = [s \in Stages |-> Pending]
    /\ saved = res
    /\ launched = {} /\ finished = {}
    /\ task = [s \in Stages |-> "none"]
    /\ given = [s \in Stages |-> [p \in Stages |-> NoInput]]
    /\ phase = "idle"
    /\ runs = 0

----------------------------------------------------------------------------
(* The decisions of DAGAutomata, as functions of the results r and of the  *)
(* stages fin finished in this run.                                        *)

FinalizedThisRun(r, fin, s) == s \in fin /\ r[s].status \in FINAL_STATES

\* What a finalized stage in the given status means to an arc of kind k.
Satisfied(k, status) ==
    \/ k \in {"always", "optional"}
    \/ k \in {"success", "required"} /\ status = "COMPLETED"
    \/ k = "failure" /\ status \in {"FAILED", "CANCELLED", "SKIPPED"}

\* Mutated form: a result of an earlier run opens or closes the gate.
GateHistorical(r, fin, p, k) ==
    IF r[p].status \notin FINAL_STATES THEN "WAIT"
    ELSE IF Satisfied(k, r[p].status) THEN "READY" ELSE "IMPOSSIBLE"

\* Mutated form: an optional input is waited for until it is COMPLETED.
GateOptionalWaits(r, fin, p, k) ==
    IF ~FinalizedThisRun(r, fin, p) \/ (k = "optional" /\ r[p].status # "COMPLETED")
    THEN "WAIT"
    ELSE IF Satisfied(k, r[p].status) THEN "READY" ELSE "IMPOSSIBLE"

\* _check_dependency_gate, and one input of _check_dataflow_gate.
Gate(r, fin, p, k) ==
    IF ~FinalizedThisRun(r, fin, p) THEN "WAIT"
    ELSE IF Satisfied(k, r[p].status) THEN "READY" ELSE "IMPOSSIBLE"

\* _diagnose_stage: an impossible arc decides at once, then a waiting one.
Diagnose(r, fin, s) ==
    LET gates == UNION {{Gate(r, fin, p, k) : k \in graph[<<p, s>>]} : p \in Stages}
    IN  IF "IMPOSSIBLE" \in gates THEN "IMPOSSIBLE"
        ELSE IF "WAIT" \in gates THEN "WAIT" ELSE "READY"

\* build_named_inputs, normalized: the outputs of the COMPLETED producers and
\* None where there is none.
NamedInputs(r, s) ==
    [p \in Stages |->
       IF graph[<<p, s>>] \cap DataKinds # {} /\ r[p].status = "COMPLETED"
       THEN r[p].output ELSE NoInput]

\* get_stages_to_skip
StagesToSkip(r, fin, lau) ==
    {s \in Stages \ (running \cup lau \cup fin) : Diagnose(r, fin, s) = "IMPOSSIBLE"}

\* Mutated form: only what was launched is excluded, not what finished.
ReadyStagesAgain(r, fin, lau) ==
    {s \in Stages \ (running \cup lau) : Diagnose(r, fin, s) = "READY"}

\* The candidates of get_ready_stages, before their caches are asked.
ReadyStages(r, fin, lau) ==
    {s \in Stages \ (running \cup lau \cup fin) : Diagnose(r, fin, s) = "READY"}

\* Mutated form: the module docstring's AlwaysCached, any final result is kept.
ReusesFinal(r, s) == s \notin Volatile /\ r[s].status \in FINAL_STATES

\* A final result is kept when the handler does not ask for a rerun: NeverCached
\* always does, InputHashCache unless the hash stored with the result is the
\* hash of the present inputs.
Reuses(r, s) ==
    /\ r[s].status \in FINAL_STATES
    /\ s \notin Volatile
    /\ r[s].input_hash # NoHash
    /\ r[s].input_hash = NamedInputs(r, s)

----------------------------------------------------------------------------
\* mark_stage_running: the previous output is dropped, its hash kept.
Launch(r, L) ==
    [s \in Stages |-> IF s \in L THEN Result("RUNNING", NoInput, r[s].input_hash) ELSE r[s]]

\* One pass of the loop up to asyncio.wait: auto-skips, the ready set, cache
\* hits, launches, and the termination check. A skip is not applied to a
\* stage that is final in this run; skips none of which could be applied, with
\* nothing running, are the DEADLOCK error.
Schedule ==
    LET toSkip == StagesToSkip(res, finished, launched)
        skips  == {s \in toSkip : s \notin finished \/ res[s].status = "PENDING"}
        r1     == [s \in Stages |-> IF s \in skips THEN AutoSkip ELSE res[s]]
        fin1   == finished \cup skips
        lau1   == launched \cup skips
        ready  == ReadyStages(r1, fin1, lau1)
        cached == {s \in ready : Reuses(r1, s)}
        new    == ready \ cached
        stuck  == toSkip # {} /\ skips = {} /\ running = {}
    IN  /\ phase = "loop"
        /\ res' = IF stuck THEN r1 ELSE Launch(r1, new)
        /\ finished' = IF stuck THEN fin1 ELSE fin1 \cup cached
        /\ launched' = IF stuck THEN lau1 ELSE lau1 \cup new
        /\ task' = IF stuck THEN task
                   ELSE [s \in Stages |-> IF s \in new THEN "queued" ELSE task[s]]
        /\ given' = IF stuck THEN given
                    ELSE [s \in Stages |-> IF s \in new THEN NamedInputs(r1, s) ELSE given[s]]
        /\ phase' = IF stuck THEN "error"
                    ELSE IF running \cup new # {} THEN "wait"
                    ELSE IF toSkip \cup cached = {} THEN "ended" ELSE "loop"
        /\ UNCHANGED <<graph, saved, runs>>

\* A task gets a slot of _stage_sema and attaches its inputs.
TaskStart(s) ==
    /\ task[s] = "queued" /\ phase = "wait"
    /\ Cardinality({t \in Stages : task[t] = "exec"}) < MaxParallel
    /\ task' = [task EXCEPT ![s] = "exec"]
    /\ UNCHANGED <<graph, res, saved, loopVars, given, phase, runs>>

\* Stage.execute returns, at the latest when its timeout expires.
TaskEnd(s) ==
    /\ task[s] = "exec" /\ phase = "wait"
    /\ task' = [task EXCEPT ![s] = "done"]
    /\ UNCHANGED <<graph, res, saved, loopVars, given, phase, runs>>

\* What the task of s may have returned: success or a salvaged partial result,
\* a failure, or a skip the stage itself decided, each with the hash its
\* handler stores. A cancellation raised inside the stage becomes a result
\* without a hash.
Outcomes(s) ==
    LET hash == IF s \notin Volatile THEN given[s] ELSE NoHash
    IN  {Result("COMPLETED", v, hash) : v \in Values}
          \cup {Result("FAILED", NoInput, hash), Result("SKIPPED", NoInput, hash),
                Result("CANCELLED", NoInput, NoHash)}

doneTasks == {s \in Stages : task[s] = "done"}

\* Mutated form: a collected stage is not noted as finished.
CollectForgets ==
    /\ phase = "wait" /\ doneTasks # {}
    /\ \E outcome \in [doneTasks -> UNION {Outcomes(s) : s \in doneTasks}] :
         /\ \A s \in doneTasks : outcome[s] \in Outcomes(s)
         /\ res' = [s \in Stages |-> IF s \in doneTasks THEN outcome[s] ELSE res[s]]
    /\ task' = [s \in Stages |-> IF s \in doneTasks THEN "none" ELSE task[s]]
    /\ given' = [s \in Stages |->
                   IF s \in doneTasks THEN [p \in Stages |-> NoInput] ELSE given[s]]
    /\ phase' = "loop"
    /\ UNCHANGED <<graph, saved, launched, finished, runs>>

\* asyncio.wait returns every task that is done; _process_finished_task looks
\* at what each returned. A wait that times out after a second repeats the
\* pass, which then changes nothing.
Collect ==
    /\ phase = "wait" /\ doneTasks # {}
    /\ \E outcome \in [doneTasks -> UNION {Outcomes(s) : s \in doneTasks}] :
         /\ \A s \in doneTasks : outcome[s] \in Outcomes(s)
         /\ res' = [s \in Stages |-> IF s \in doneTasks THEN outcome[s] ELSE res[s]]
    /\ finished' = finished \cup doneTasks
    /\ task' = [s \in Stages |-> IF s \in doneTasks THEN "none" ELSE task[s]]
    /\ given' = [s \in Stages |->
                   IF s \in doneTasks THEN [p \in Stages |-> NoInput] ELSE given[s]]
    /\ phase' = "loop"
    /\ UNCHANGED <<graph, saved, launched, runs>>

----------------------------------------------------------------------------
\* The locals of the loop and its tasks are gone.
Forget ==
    /\ launched' = {} /\ finished' = {}
    /\ task' = [s \in Stages |-> "none"]
    /\ given' = [s \in Stages |-> [p \in Stages |-> NoInput]]

\* DAG.run on a program taken from storage: the results of earlier runs stay.
StartRun ==
    /\ phase = "idle" /\ runs < MaxRuns
    /\ phase' = "loop" /\ runs' = runs + 1
    /\ UNCHANGED <<graph, res, saved, loopVars, taskVars>>

\* The DagRunner's write of the whole program with its DONE transition.
Save ==
    /\ phase = "ended"
    /\ saved' = res
    /\ phase' = "idle"
    /\ Forget
    /\ UNCHANGED <<graph, res, runs>>

\* wait_for gives up on the loop: what there is gets flushed and the program
\* is discarded. The stage tasks are not cancelled; nobody reads what they
\* return.
Timeout ==
    /\ "timeout" \in Faults /\ phase = "wait"
    /\ saved' = res
    /\ phase' = "discarded"
    /\ UNCHANGED <<graph, res, loopVars, taskVars, runs>>

\* The process dies before the results of the run reach storage.
Crash ==
    /\ "crash" \in Faults /\ phase \in {"loop", "wait", "ended"}
    /\ phase' = "idle"
    /\ res' = saved
    /\ Forget
    /\ UNCHANGED <<graph, saved, runs>>

\* The program is discarded, or this behaviour has used up its runs.
Over ==
    /\ phase = "discarded" \/ (phase = "idle" /\ runs = MaxRuns)
    /\ UNCHANGED vars

Next ==
    \/ StartRun \/ Schedule \/ Collect \/ Save \/ Timeout \/ Crash \/ Over
    \/ \E s \in Stages : TaskStart(s) \/ TaskEnd(s)

Spec == Init /\ [][Next]_vars

----------------------------------------------------------------------------
\* Type invariant.
TypeOK ==
    /\ graph \in Graphs
    /\ res \in [Stages -> Results] /\ saved \in [Stages -> Results]
    /\ launched \subseteq Stages /\ finished \subseteq Stages
    /\ task \in [Stages -> {"none", "queued", "exec", "done"}]
    /\ given \in [Stages -> Inputs]
    /\ phase \in Phases
    /\ runs \in 0 .. MaxRuns

\* DAG._run_internal (dag.py 247-272): when nothing is running, ready, cached
\* or to be skipped, no stage is left unresolved, whatever mix of failures,
\* skips, cache hits and contradictory dependencies led there; and the DEADLOCK
\* error (dag.py 177-186) is never raised.
AllResolved == phase # "error" /\ (phase = "ended" => finished = Stages)

\* DAGAutomata._diagnose_stage: what became of a stage agrees with what became
\* of its predecessors IN THIS RUN. A stage that is running, ran or was served
\* from the cache had every arc satisfied by final results; one that was
\* auto-skipped has an arc that those results contradict. Later results never
\* take a decision back.
Justified ==
    phase \notin {"idle", "discarded"} =>
    \A s \in running \cup finished :
        IF s \in finished /\ res[s].auto
        THEN \E p \in finished : \E k \in graph[<<p, s>>] : ~Satisfied(k, res[p].status)
        ELSE \A p \in Stages : \A k \in graph[<<p, s>>] :
                 p \in finished /\ Satisfied(k, res[p].status)

\* InputHashCache (cache_handler.py 113-140): the results a run ends with were
\* computed from each other. A result that carries an input hash, whether it
\* was computed in this run or kept from an earlier one, belongs to the outputs
\* that its producers now have; also after crashes between runs.
Coherent ==
    phase = "ended" =>
    \A s \in Stages :
        res[s].input_hash # NoHash => res[s].input_hash = NamedInputs(res, s)

\* DAG._run_internal (dag.py 137-332): the loop never spins and never waits for
\* nobody. A pass that neither ends the run nor goes to wait resolves some
\* stage (it does not go round on the same skips or cache hits), and a wait
\* has a task to wait for.
NeverSpins ==
    /\ phase = "loop" => ENABLED <<Schedule>>_vars
    /\ phase = "wait" => running # {}

\* How far a run has come.
Rank ==
    LET at(t) == Cardinality({s \in Stages : task[s] = t})
    IN  2 * (at("queued") + 2 * at("exec") + 3 * at("done") + 4 * Cardinality(finished))
          + (IF phase = "wait" THEN 1 ELSE 0)

\* Every step of a run takes it further: no stage goes back or is launched
\* twice. The rank is at most 8 * |Stages| + 1, so with NeverSpins every run
\* ends, whatever its stages return.
RunAdvances == [][{phase, phase'} \subseteq {"loop", "wait"} => Rank' > Rank]_vars

=============================================================================
