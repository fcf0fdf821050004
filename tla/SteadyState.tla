---------------------------- MODULE SteadyState ----------------------------
(***************************************************************************)
(* SteadyStateEvolutionEngine (engine/steady_state.py): run() supervises   *)
(* the dispatcher and the ingestor, drains at the end of production and    *)
(* tears everything down on an error or a cancellation.                    *)
(***************************************************************************)
EXTENDS MutantTask, Dispatcher, Ingestor

mainFrame == <<storeVars, parents, targets, flip, held, fresh, pc, slotVars>>

DispatcherOver == d_pc \in {"done", "failed"}
IngestorOver   == i_pc \in {"exited", "dead"}

\* Cancel the dispatcher task: its finally clause cancels the active tasks.
CancelDispatcher ==
    IF DispatcherOver
    THEN UNCHANGED <<d_pc, cancelled>>
    ELSE d_pc' = "cancelling" /\ cancelled' = cancelled \cup active

\* Enter the finally clause of run(): producers first, ingestor afterwards.
Teardown ==
    /\ m_pc' = "cancel_dispatcher"
    /\ CancelDispatcher
    /\ UNCHANGED <<active, consecutive_empty, failed, terminal>>

\* asyncio.wait returned: one of the two loops is over.
LoopEnded ==
    /\ m_pc = "wait"
    /\ \/ IngestorOver /\ Teardown
       \/ ~IngestorOver /\ d_pc = "failed" /\ Teardown
       \/ ~IngestorOver /\ d_pc = "done" /\ m_pc' = "drain" /\ UNCHANGED <<dispVars, cancelled>>
    /\ UNCHANGED <<mainFrame, ingVars, running, drained>>

\* _await_terminal_drain returns: nothing is pending, or the grace is over.
Drain ==
    /\ m_pc = "drain"
    /\ in_flight = {} \/ (~IngestorOver /\ "grace" \in Faults)
    /\ m_pc' = "join"
    /\ drained' = TRUE
    /\ running' = FALSE
    /\ UNCHANGED <<mainFrame, cancelled, dispVars, ingVars>>

\* _await_terminal_drain raises: the ingestor is gone, or the safety cap hit.
DrainFails ==
    /\ m_pc = "drain" /\ in_flight # {}
    /\ IngestorOver \/ "drain" \in Faults
    /\ Teardown
    /\ UNCHANGED <<mainFrame, ingVars, running, drained>>

\* await self._ingestor_task after a drain.
Join ==
    /\ m_pc = "join" /\ IngestorOver
    /\ m_pc' = "final"
    /\ UNCHANGED <<mainFrame, cancelled, dispVars, ingVars, running, drained>>

\* The run() task is cancelled from outside (serve_until_signal); awaiting
\* the ingestor task directly passes the cancellation on to it.
ExternalCancel ==
    /\ m_pc \in {"wait", "drain", "join"} /\ "stop" \in Faults
    /\ Teardown
    /\ IF m_pc = "join" /\ ~IngestorOver
       THEN i_pc' = "exited" /\ ForgetPoll
       ELSE UNCHANGED <<i_pc, cand, todo, handled, rejects, leaked>>
    /\ UNCHANGED <<mainFrame, outcome_failures, running, drained>>

\* EvolutionEngine.stop() clears _running; serve_until_signal calls it right
\* after it has cancelled the run() task.
StopClearsRunning ==
    /\ "stop" \in Faults /\ running
    /\ m_pc \in {"cancel_dispatcher", "cancel_ingestor"}
    /\ running' = FALSE
    /\ UNCHANGED <<mainFrame, cancelled, dispVars, ingVars, m_pc, drained>>

\* Mutated form: the ingestor is cancelled without waiting for the producers.
DispatcherNotAwaited ==
    /\ m_pc = "cancel_dispatcher"
    /\ running' = FALSE
    /\ m_pc' = "cancel_ingestor"
    /\ UNCHANGED <<mainFrame, cancelled, dispVars, ingVars, drained>>

\* await self._dispatcher_task in the finally clause of run().
DispatcherJoined ==
    /\ m_pc = "cancel_dispatcher" /\ DispatcherOver
    /\ running' = FALSE
    /\ m_pc' = "cancel_ingestor"
    /\ UNCHANGED <<mainFrame, cancelled, dispVars, ingVars, drained>>

\* The ingestor is cancelled at whatever await it is in; what this poll has
\* decided so far is forgotten, what it has written stays.
IngestorJoined ==
    /\ m_pc = "cancel_ingestor"
    /\ i_pc' = "exited" /\ ForgetPoll
    /\ m_pc' = IF drained THEN "final" ELSE "sweep"
    /\ UNCHANGED <<storeVars, taskVars, slotVars, dispVars, outcome_failures,
                   running, drained>>

\* _final_ingestion_sweep: further polls until in_flight is empty, the
\* deadline passes or a poll raises.
SweepPoll ==
    /\ m_pc = "sweep" /\ i_pc = "exited" /\ in_flight # {}
    /\ cand' = in_flight
    /\ i_pc' = "fetch"
    /\ UNCHANGED <<storeVars, taskVars, slotVars, dispVars, todo, handled, rejects,
                   leaked, outcome_failures, mainVars>>

SweepEnds ==
    /\ m_pc = "sweep" /\ IngestorOver
    /\ m_pc' = "final"
    /\ UNCHANGED <<mainFrame, cancelled, dispVars, ingVars, running, drained>>

\* The last snapshot write and the post-run hook.
Finalize ==
    /\ m_pc = "final"
    /\ m_pc' = "stopped"
    /\ UNCHANGED <<mainFrame, cancelled, dispVars, ingVars, running, drained>>

MainStep ==
    \/ LoopEnded \/ Drain \/ DrainFails \/ Join \/ ExternalCancel
    \/ StopClearsRunning \/ DispatcherJoined \/ IngestorJoined
    \/ SweepPoll \/ SweepEnds \/ Finalize

\* run() has returned; the DAG runner may still be working.
Stopped == m_pc = "stopped" /\ UNCHANGED vars

Next ==
    \/ \E t \in Tasks : TaskStep(t)
    \/ DispatcherStep
    \/ IngestorStep
    \/ MainStep
    \/ \E p \in Program : DagStart(p) \/ DagFinish(p)
    \/ Stopped

Spec == Init /\ [][Next]_vars

-----------------------------------------------------------------------------
(***************************************************************************)
(* Properties                                                              *)
(***************************************************************************)

\* Every producer slot is either free or held by exactly one task that has
\* not left run_one_mutant; every buffer slot is either free or held by one
\* child in flight. No path (failure, cancellation, sweep) leaks or doubles
\* a slot.
LiveTasks == {t \in Tasks : pc[t] \in Live}

SlotConservation ==
    /\ producer_free + Cardinality(LiveTasks) = MaxInFlight
    /\ buffer_free + Cardinality(in_flight) = MaxInFlight

\* Concurrent dispatch never creates more mutants than max_mutants allows,
\* counting the tasks that may still hand a child over.
Pending == {t \in active : pc[t] \in Live \ {"snapshot"}}

CapRespected == mutations_created + Cardinality(Pending) <= MaxMutants

\* When the dispatcher returns normally and no other stopper fired, the run
\* has produced exactly max_mutants children.
CapReached ==
    d_pc = "done" /\ "clock" \notin Faults => mutations_created = MaxMutants

\* A child whose storage.add returned is never lost: it is on its way to the
\* ingestor, registered with it, or settled by it. (A cancellation that hits
\* storage.add itself is the one case in which the engine cannot know.)
NoGhostChild ==
    \A t \in Tasks : state[t] # "ABSENT" =>
        \/ pc[t] \in {"persisted", "handoff", "cancelled_add"}
        \/ t \in in_flight \cup settled

\* metrics.mutations_created counts each handed-over child once, and
\* metrics.programs_processed never counts a child twice.
Accounting ==
    /\ in_flight \cap settled = {}
    /\ mutations_created = Cardinality(in_flight) + Cardinality(settled)
    /\ programs_processed <= Cardinality(settled)

\* A per-parent lock has one owner, and only a task in its refresh or (ticket
\* mode) a task or child that carries the ticket owns one: no failure or
\* cancellation strands a parent behind a lock nobody will release.
LocksOwned ==
    /\ \A t, u \in Tasks : t # u => held[t] \cap held[u] = {}
    /\ \A t \in Tasks : held[t] # {} =>
          \/ pc[t] \in Refreshing
          \/ ~Coalesce /\ pc[t] \in Live
          \/ ~Coalesce /\ t \in in_flight

\* Ticket mode: from the LLM call until its child is settled, the parents of
\* a child are pinned; nobody flips them back to QUEUED or re-evaluates them.
ParentsPinned ==
    ~Coalesce =>
        \A t \in Tasks :
            pc[t] \in {"llm", "adding", "persisted", "handoff"} \/ t \in in_flight =>
                \A p \in parents[t] : p \in held[t] /\ state[p] \notin {"QUEUED", "RUNNING"}

\* No set of refreshes waits for locks within itself: the sorted order of
\* acquisition rules a circle of any length out, also with locks that tickets
\* keep.
Wanted(t) == IF pc[t] = "locking" THEN parents[t] \ held[t] ELSE {}

NoLockCycle ==
    \A S \in (SUBSET Tasks) \ {{}} :
        \E t \in S : \A u \in S : Wanted(t) \cap held[u] = {}

\* Coalesced mode: however many tasks share a parent, it is sent back to
\* evaluation only while it is not in _fresh; one flip per stale cycle.
FlipOnlyStale ==
    [][Coalesce => \A p \in Program :
          state[p] = "DONE" /\ state'[p] = "QUEUED" => p \notin fresh]_vars

\* The teardown stops the producers first: once run() goes on to the ingestor
\* no task is left that could still persist or hand over a child.
ProducersFirst ==
    m_pc \in {"cancel_ingestor", "sweep", "final", "stopped"} => LiveTasks = {}

\* The engine implements the bounded pipeline of MutantPipeline: a child waits
\* from storage.add to its registration, occupies one of max_in_flight buffer
\* slots until it is released, and is neither lost, duplicated nor revived.
Waiting == {t \in Tasks : pc[t] \in {"persisted", "handoff"}}

Pipeline == INSTANCE MutantPipeline
                WITH Child <- Tasks, Capacity <- MaxInFlight,
                     waiting <- Waiting, buffered <- in_flight

ImplementsPipeline == Pipeline!Pipe

\* The comment on the handoff says that the dispatcher waits for its producer
\* tasks while the ingestor is alive, so that buffer capacity keeps draining.
HandoffCanDrain ==
    (\E t \in active : pc[t] = "handoff" /\ t \in cancelled) /\ buffer_free = 0
        => ~IngestorOver

(***************************************************************************)
(* The strengthening that makes the invariants above inductive.            *)
(***************************************************************************)

\* A child is registered with the ingestor by the handoff of its task and by
\* nothing else: the tasks past their registration are those whose children
\* are in flight or settled.
HandedOver ==
    /\ \A t \in in_flight \cup settled :
          pc[t] \in {"snapshot", "child", "raised", "cancelled"}
    /\ \A t \in Tasks : pc[t] = "snapshot" => t \in in_flight \cup settled

\* The dispatcher knows every task that may still hand a child over.
LiveActive == \A t \in Tasks : pc[t] \in Live => t \in active

\* A poll works on children in flight; only the ingestor takes them out.
PollWithin == cand \cup todo \cup handled \cup leaked \subseteq in_flight

\* Programs that are evaluated, archived, ingested or flipped are in storage.
Present == {p \in Program : state[p] # "ABSENT"}

KnownPrograms ==
    /\ evaluating \cup archive \cup todo \subseteq Present
    /\ \A t \in Tasks : flip[t] \subseteq Present

\* A settled child has given its parents' locks back.
SettledReleased == \A t \in settled : held[t] = {}

\* asyncio resumes every coroutine whose await is over, and its locks and
\* semaphores serve waiters in FIFO order; the DAG runner polls for ever.
Fairness ==
    /\ \A t \in Tasks : WF_vars(TaskStep(t)) /\ SF_vars(AcquireLock(t)) /\ SF_vars(Handoff(t))
    /\ WF_vars(DispatcherStep)
    /\ WF_vars(IngestorStep)
    /\ WF_vars(MainStep)
    /\ \A p \in Program : WF_vars(DagStart(p)) /\ WF_vars(DagFinish(p))

FairSpec == Spec /\ Fairness

\* Once started, the run comes to an end: the cap is reached, the dispatcher
\* returns, in_flight drains and run() finishes.
RunCompletes == <>(m_pc = "stopped")

\* A persisted child is settled by the ingestor, unless production fails and
\* the run ends in the sweep, which has a deadline.
ChildSettles ==
    \A t \in Tasks : (pc[t] = "persisted") ~> (t \in settled \/ failed)

=============================================================================
