----------------------------- MODULE DagRunner -----------------------------
(***************************************************************************)
(* DagRunner (runner/dag_runner.py): one scheduler coroutine that polls    *)
(* the status sets and one task per launched program, on one event loop    *)
(* with the engine. Finished tasks leave their program in a queue that     *)
(* whoever fills it, or the scheduler, writes DONE in a batch. A process   *)
(* crash forgets everything but storage; recover_stranded_programs runs    *)
(* before the scheduler starts again.                                      *)
(*                                                                         *)
(* A step is the code between two awaits; an awaited storage write is a    *)
(* step of its own, so other coroutines run between reading and writing.   *)
(***************************************************************************)
EXTENDS ProgramStore

CONSTANTS
    Slots,           \* DagRunnerConfig.max_concurrent_dags
    Prefetch,        \* DagRunnerConfig.prefetch_factor
    DagsOutlastMark, \* TRUE: no DAG ends before its program is marked RUNNING
    TimeoutsAtOnce,  \* tasks that may expire between two ticks of the scheduler
    MaxRefreshes,    \* parent refreshes in a behaviour (bounds the model)
    MaxCrashes,      \* crashes in a behaviour (bounds the model)
    MaxLost,         \* writes that raise in a behaviour (bounds the model)
    Faults           \* the things that may go wrong in this instance

FaultKinds == {"fail", "timeout", "build", "read", "mark", "evict"}

ASSUME RunnerAssumption ==
    /\ IsFiniteSet(Programs)
    /\ Slots \in Nat \ {0} /\ Prefetch \in Nat \ {0}
    /\ DagsOutlastMark \in BOOLEAN
    /\ TimeoutsAtOnce \in Nat
    /\ MaxRefreshes \in Nat /\ MaxCrashes \in Nat /\ MaxLost \in Nat
    /\ Faults \subseteq FaultKinds
    /\ "mark" \in Faults => DagsOutlastMark

VARIABLES
    active,     \* the keys of _active
    task,       \* where the task of each program is
    mem,        \* the state field of the Program object a task works on
    done_queue, \* _done_queue
    batch,      \* the batch a task is flushing
    dying,      \* blob writes of cancelled tasks nobody waits for
    s,          \* the scheduler: where it is, and the locals of _maintain and _launch
    archived,   \* programs the engine holds in its archive
    flip,       \* parents read DONE by a refresh that will write them QUEUED
    evict,      \* programs an eviction will discard, with the states it read
    refreshes, crashes,
    lost,       \* writes that raised so far
    orphaned    \* orphaned_programs_discarded, as the set of programs

storeVars  == <<blob, inset, lost>>
taskVars   == <<active, task, mem, done_queue, batch, dying>>
engineVars == <<archived, flip, evict, refreshes>>
vars       == <<storeVars, taskVars, s, engineVars, crashes, orphaned>>

\* A task holds a slot of _sema in the states of Holding; "failing" and
\* "stopping" are the awaits of its exception paths.
Holding == {"running", "flushing", "failing", "stopping"}
TaskPC  == {"none", "waiting", "done"} \cup Holding
SchedPC == {"maintain", "cancelling", "timed_write", "timed", "flush", "ids",
            "orphans_read", "orphans", "launch", "mark_read", "mark_write",
            "recover", "recover_move"}
Stored  == Status \cup {"ABSENT"}

Sched == [pc : SchedPC,
          fin : SUBSET Programs, timed : SUBSET Programs, cur : SUBSET Programs,
          batch : SUBSET Programs, queued : SUBSET Programs, orphans : SUBSET Programs,
          launch : SUBSET Programs, mark : SUBSET Programs,
          seen : [Programs -> Stored]]

\* The variables have their types, and neither the semaphore nor the prefetch
\* window is ever exceeded.
TypeOK ==
    /\ StoreTypeOK
    /\ active \subseteq Programs
    /\ task \in [Programs -> TaskPC]
    /\ mem \in [Programs -> Stored]
    /\ done_queue \subseteq Programs
    /\ batch \in [Programs -> SUBSET Programs]
    /\ dying \subseteq Programs \X Stored
    /\ s \in Sched
    /\ archived \subseteq Programs
    /\ flip \subseteq Programs
    /\ evict \subseteq Programs \X Stored
    /\ refreshes \in 0..MaxRefreshes /\ crashes \in 0..MaxCrashes /\ lost \in 0..MaxLost
    /\ orphaned \subseteq Programs
    /\ Cardinality({p \in Programs : task[p] \in Holding}) + Cardinality(dying) <= Slots
    /\ Cardinality(active) <= Slots * Prefetch

SchedAt(pc) == [pc |-> pc, fin |-> {}, timed |-> {}, cur |-> {}, batch |-> {},
                queued |-> {}, orphans |-> {}, launch |-> {}, mark |-> {},
                seen |-> From("ABSENT")]

Idle == [p \in Programs |-> "none"]
NoBatch == [p \in Programs |-> {}]

Init ==
    /\ StoreInit
    /\ active = {} /\ task = Idle /\ mem = From("ABSENT")
    /\ done_queue = {} /\ batch = NoBatch /\ dying = {}
    /\ s = SchedAt("maintain")
    /\ archived = {} /\ flip = {} /\ evict = {}
    /\ refreshes = 0 /\ crashes = 0 /\ lost = 0 /\ orphaned = {}

\* A write that raises leaves storage as it was.
Raises ==
    /\ lost < MaxLost
    /\ lost' = lost + 1
    /\ UNCHANGED <<blob, inset>>

\* An awaited write that may raise; the callers log the exception and go on.
Attempt(Write) == (Write /\ UNCHANGED lost) \/ Raises

-----------------------------------------------------------------------------
(***************************************************************************)
(* The tasks.                                                              *)
(***************************************************************************)
MayEnd(p) == task[p] = "running" /\ (DagsOutlastMark => p \notin s.launch)

\* Mutated form: _run_one does not take the semaphore.
TaskStartUnguarded(p) ==
    /\ task[p] = "waiting"
    /\ task' = [task EXCEPT ![p] = "running"]
    /\ UNCHANGED <<storeVars, active, mem, done_queue, batch, dying, s, engineVars,
                   crashes, orphaned>>

\* _run_one gets the semaphore; a dying task has not left it yet.
TaskStart(p) ==
    /\ task[p] = "waiting"
    /\ Cardinality({q \in Programs : task[q] \in Holding}) + Cardinality(dying) < Slots
    /\ task' = [task EXCEPT ![p] = "running"]
    /\ UNCHANGED <<storeVars, active, mem, done_queue, batch, dying, s, engineVars,
                   crashes, orphaned>>

\* dag.run returns: queue the program, and flush the queue once it is full.
TaskOk(p) ==
    /\ MayEnd(p)
    /\ IF Cardinality(done_queue \cup {p}) >= Slots
       THEN /\ task' = [task EXCEPT ![p] = "flushing"]
            /\ batch' = [batch EXCEPT ![p] = done_queue \cup {p}]
            /\ done_queue' = {}
       ELSE /\ task' = [task EXCEPT ![p] = "done"]
            /\ done_queue' = done_queue \cup {p}
            /\ UNCHANGED batch
    /\ UNCHANGED <<storeVars, active, mem, dying, s, engineVars, crashes, orphaned>>

\* batch_transition_state RUNNING -> DONE.
WriteDone(B) == Transition(B, From("RUNNING"), "DONE")

TaskFlush(p) ==
    /\ task[p] = "flushing"
    /\ Attempt(WriteDone(batch[p]))
    /\ batch' = [batch EXCEPT ![p] = {}]
    /\ task' = [task EXCEPT ![p] = "done"]
    /\ UNCHANGED <<active, mem, done_queue, dying, s, engineVars, crashes, orphaned>>

\* dag.run raises: its finally clause writes the partial results ...
TaskFail(p) ==
    /\ "fail" \in Faults
    /\ MayEnd(p)
    /\ Attempt(WriteExclusive(p, mem[p]))
    /\ task' = [task EXCEPT ![p] = "failing"]
    /\ UNCHANGED <<active, mem, done_queue, batch, dying, s, engineVars, crashes, orphaned>>

\* Mutated form: the failed program is queued for DONE as well.
TaskDiscardAndQueue(p) ==
    /\ task[p] = "failing"
    /\ Attempt(SetDiscarded({p}, mem))
    /\ task' = [task EXCEPT ![p] = "done"]
    /\ done_queue' = done_queue \cup {p}
    /\ UNCHANGED <<active, mem, batch, dying, s, engineVars, crashes, orphaned>>

\* ... and _execute_dag discards the program.
TaskDiscard(p) ==
    /\ task[p] = "failing"
    /\ Attempt(SetDiscarded({p}, mem))
    /\ task' = [task EXCEPT ![p] = "done"]
    /\ UNCHANGED <<active, mem, done_queue, batch, dying, s, engineVars, crashes, orphaned>>

\* A cancelled dag.run writes its partial results before the task ends; when
\* that takes more than two seconds wait_for cuts it short.
TaskStopped(p) ==
    /\ task[p] = "stopping"
    /\ WriteExclusive(p, mem[p]) \/ UNCHANGED <<blob, inset>>
    /\ UNCHANGED lost
    /\ task' = [task EXCEPT ![p] = "done"]
    /\ UNCHANGED <<active, mem, done_queue, batch, dying, s, engineVars, crashes, orphaned>>

\* The same write by a task that was cancelled and not waited for.
DyingWrite(d) ==
    /\ Attempt(WriteExclusive(d[1], d[2]))
    /\ dying' = dying \ {d}
    /\ UNCHANGED <<active, task, mem, done_queue, batch, s, engineVars, crashes, orphaned>>

TaskStep(p) ==
    \/ TaskStart(p) \/ TaskOk(p) \/ TaskFlush(p) \/ TaskFail(p) \/ TaskDiscard(p)
    \/ TaskStopped(p)

-----------------------------------------------------------------------------
(***************************************************************************)
(* The scheduler: _maintain, then _launch, then wait_for_activity.         *)
(***************************************************************************)

\* Mutated form: the queue is left for a later tick.
HarvestUnflushed(finished) ==
    /\ active' = active \ finished
    /\ task' = [p \in Programs |-> IF p \in finished THEN "none" ELSE task[p]]
    /\ s' = [s EXCEPT !.pc = "ids", !.fin = {}, !.cur = {}]
    /\ UNCHANGED done_queue

\* Mutated form: a harvested task is not taken out of _active.
HarvestKeepsActive(finished) ==
    /\ UNCHANGED <<active, task>>
    /\ s' = [s EXCEPT !.pc = IF done_queue = {} THEN "ids" ELSE "flush",
                      !.fin = {}, !.cur = {}, !.batch = done_queue]
    /\ done_queue' = {}

\* Mutated form: the queue is not cleared when its batch is taken.
HarvestKeepsQueue(finished) ==
    /\ active' = active \ finished
    /\ task' = [p \in Programs |-> IF p \in finished THEN "none" ELSE task[p]]
    /\ s' = [s EXCEPT !.pc = IF done_queue = {} THEN "ids" ELSE "flush",
                      !.fin = {}, !.cur = {}, !.batch = done_queue]
    /\ UNCHANGED done_queue

\* The end of _maintain: harvest the tasks found finished, flush the queue.
Harvest(finished) ==
    /\ active' = active \ finished
    /\ task' = [p \in Programs |-> IF p \in finished THEN "none" ELSE task[p]]
    /\ s' = [s EXCEPT !.pc = IF done_queue = {} THEN "ids" ELSE "flush",
                      !.fin = {}, !.cur = {}, !.batch = done_queue]
    /\ done_queue' = {}

\* task.cancel() and the wait for the task: a DAG still has to write its
\* partial results; an awaited write is cut short, applied or not.
CancelTask(p) ==
    \/ task[p] \in {"done", "stopping"} /\ UNCHANGED <<storeVars, task, batch>>
    \/ /\ task[p] = "running"
       /\ task' = [task EXCEPT ![p] = "stopping"]
       /\ UNCHANGED <<storeVars, batch>>
    \/ /\ task[p] \in {"flushing", "failing"}
       /\ task' = [task EXCEPT ![p] = "done"]
       /\ batch' = [batch EXCEPT ![p] = {}]
       /\ \/ task[p] = "flushing" /\ WriteDone(batch[p])
          \/ task[p] = "failing" /\ SetDiscarded({p}, mem)
          \/ UNCHANGED <<blob, inset>>
       /\ UNCHANGED lost

\* Classify the tasks. Without a timeout the harvest follows at once; with
\* one, the first cancellation does.
Maintain ==
    /\ s.pc = "maintain"
    /\ LET finished == {p \in active : task[p] = "done"} IN
       \/ /\ Harvest(finished)
          /\ UNCHANGED <<storeVars, batch>>
       \/ /\ "timeout" \in Faults
          /\ \E T \in SUBSET {p \in active : task[p] \in Holding} : \E p \in T :
                /\ Cardinality(T) <= TimeoutsAtOnce
                /\ CancelTask(p)
                /\ s' = [s EXCEPT !.pc = "cancelling", !.fin = finished,
                                  !.timed = T \ {p}, !.cur = {p}]
          /\ UNCHANGED <<active, done_queue>>
    /\ UNCHANGED <<mem, dying, engineVars, crashes, orphaned>>

\* The cancelled task is over: look at the stored state, discard unless DONE.
TimedRead ==
    /\ s.pc = "cancelling"
    /\ \A p \in s.cur : task[p] = "done"
    /\ active' = active \ s.cur
    /\ task' = [p \in Programs |-> IF p \in s.cur THEN "none" ELSE task[p]]
    /\ \/ s' = [s EXCEPT !.pc = IF \A p \in s.cur : blob[p] = "DONE"
                                THEN "timed" ELSE "timed_write",
                         !.seen = blob]
       \/ "read" \in Faults /\ s' = [s EXCEPT !.pc = "timed"]
    /\ UNCHANGED <<storeVars, mem, done_queue, batch, dying, engineVars, crashes, orphaned>>

TimedWrite ==
    /\ s.pc = "timed_write"
    /\ Attempt(SetDiscarded(s.cur, s.seen))
    /\ s' = [s EXCEPT !.pc = "timed"]
    /\ UNCHANGED <<taskVars, engineVars, crashes, orphaned>>

TimedNext ==
    /\ s.pc = "timed"
    /\ \/ /\ s.timed = {}
          /\ Harvest(s.fin)
          /\ UNCHANGED <<storeVars, batch>>
       \/ \E p \in s.timed :
             /\ CancelTask(p)
             /\ s' = [s EXCEPT !.pc = "cancelling", !.timed = @ \ {p}, !.cur = {p}]
             /\ UNCHANGED <<active, done_queue>>
    /\ UNCHANGED <<mem, dying, engineVars, crashes, orphaned>>

Flush ==
    /\ s.pc = "flush"
    /\ Attempt(WriteDone(s.batch))
    /\ s' = [s EXCEPT !.pc = "ids", !.batch = {}]
    /\ UNCHANGED <<taskVars, engineVars, crashes, orphaned>>

\* Read the members of the QUEUED and RUNNING sets. RUNNING programs without
\* a task are orphans.
FetchIds ==
    /\ s.pc = "ids"
    /\ LET found == inset["RUNNING"] \ active IN
       \/ s' = [s EXCEPT !.pc = IF found = {} THEN "launch" ELSE "orphans_read",
                         !.queued = inset["QUEUED"], !.orphans = found]
       \/ "read" \in Faults /\ s' = [s EXCEPT !.pc = "maintain"]
    /\ UNCHANGED <<storeVars, taskVars, engineVars, crashes, orphaned>>

OrphansRead ==
    /\ s.pc = "orphans_read"
    /\ \/ s' = [s EXCEPT !.pc = "orphans", !.seen = blob]
       \/ "read" \in Faults /\ s' = [s EXCEPT !.pc = "launch", !.orphans = {}]
    /\ UNCHANGED <<storeVars, taskVars, engineVars, crashes, orphaned>>

OrphanDiscard(p) ==
    /\ s.pc = "orphans" /\ p \in s.orphans
    /\ \/ SetDiscarded({p}, s.seen) /\ orphaned' = orphaned \cup {p} /\ UNCHANGED lost
       \/ Raises /\ UNCHANGED orphaned
    /\ s' = [s EXCEPT !.pc = IF s.orphans = {p} THEN "launch" ELSE "orphans",
                      !.orphans = @ \ {p}]
    /\ UNCHANGED <<taskVars, engineVars, crashes>>

Smaller(m, n) == IF m < n THEN m ELSE n

Capacity == Slots * Prefetch - Smaller(Slots * Prefetch, Cardinality(active))

\* Fetch as many queued programs as there is capacity for and create their
\* tasks; a program whose DAG cannot be built is discarded instead.
Launch ==
    /\ s.pc = "launch"
    /\ LET ready == s.queued \ active IN
       \E L \in SUBSET ready :
          /\ \/ Cardinality(L) = Smaller(Cardinality(ready), Capacity)
             \/ "read" \in Faults /\ L = {}
          /\ \E B \in SUBSET L :
                /\ B # {} => "build" \in Faults
                /\ Attempt(SetDiscarded(B, blob))
                /\ active' = active \cup (L \ B)
                /\ task' = [p \in Programs |-> IF p \in L \ B THEN "waiting" ELSE task[p]]
                /\ mem' = [p \in Programs |-> IF p \in L \ B THEN blob[p] ELSE mem[p]]
                /\ s' = [SchedAt(IF L = B THEN "maintain" ELSE "mark_read")
                            EXCEPT !.launch = L \ B]
    /\ UNCHANGED <<done_queue, batch, dying, engineVars, crashes, orphaned>>

\* Mutated form: the filter compares with the new state.
MarkReadNone ==
    /\ s.pc = "mark_read"
    /\ s' = [s EXCEPT !.pc = "mark_write", !.mark = {p \in s.launch : blob[p] = "RUNNING"}]
    /\ UNCHANGED <<storeVars, taskVars, engineVars, crashes, orphaned>>

\* batch_transition_by_ids QUEUED -> RUNNING for the launched programs.
MarkRead ==
    /\ s.pc = "mark_read"
    /\ s' = [s EXCEPT !.pc = "mark_write", !.mark = {p \in s.launch : blob[p] = "QUEUED"}]
    /\ UNCHANGED <<storeVars, taskVars, engineVars, crashes, orphaned>>

MarkWrite ==
    /\ s.pc = "mark_write"
    /\ Transition(s.mark, From("QUEUED"), "RUNNING")
    /\ mem' = [p \in Programs |-> IF p \in s.launch THEN "RUNNING" ELSE mem[p]]
    /\ s' = SchedAt("maintain")
    /\ UNCHANGED <<active, task, done_queue, batch, dying, engineVars, crashes, lost, orphaned>>

\* The write raises: the tasks are dropped and cancelled but not awaited.
MarkFails ==
    /\ s.pc = "mark_write" /\ "mark" \in Faults
    /\ active' = active \ s.launch
    /\ task' = [p \in Programs |-> IF p \in s.launch THEN "none" ELSE task[p]]
    /\ dying' = dying \cup {<<p, mem[p]>> : p \in {q \in s.launch : task[q] = "running"}}
    /\ batch' = [p \in Programs |-> IF p \in s.launch THEN {} ELSE batch[p]]
    /\ s' = SchedAt("maintain")
    /\ UNCHANGED <<storeVars, mem, done_queue, engineVars, crashes, orphaned>>

SchedulerStep ==
    \/ Maintain \/ TimedRead \/ TimedWrite \/ TimedNext \/ Flush
    \/ FetchIds \/ OrphansRead \/ (\E p \in Programs : OrphanDiscard(p))
    \/ Launch \/ MarkRead \/ MarkWrite \/ MarkFails

-----------------------------------------------------------------------------
(***************************************************************************)
(* The engine, as far as it touches the status of a program.               *)
(***************************************************************************)
Recovering == s.pc \in {"recover", "recover_move"}

\* storage.add of a new child.
Submit(p) ==
    /\ ~Recovering /\ blob[p] = "ABSENT"
    /\ Transition({p}, blob, "QUEUED")
    /\ UNCHANGED <<taskVars, s, engineVars, crashes, lost, orphaned>>

\* The ingestor accepts a program it has read DONE.
Archive(p) ==
    /\ ~Recovering /\ blob[p] = "DONE" /\ p \notin archived
    /\ archived' = archived \cup {p}
    /\ UNCHANGED <<storeVars, taskVars, s, flip, evict, refreshes, crashes, orphaned>>

\* A parent refresh: batch_transition_by_ids DONE -> QUEUED.
RefreshRead(p) ==
    /\ ~Recovering /\ refreshes < MaxRefreshes /\ flip = {}
    /\ p \in archived /\ blob[p] = "DONE"
    /\ flip' = {p}
    /\ refreshes' = refreshes + 1
    /\ UNCHANGED <<storeVars, taskVars, s, archived, evict, crashes, orphaned>>

RefreshWrite ==
    /\ flip # {}
    /\ Transition(flip, From("DONE"), "QUEUED")
    /\ flip' = {}
    /\ UNCHANGED <<taskVars, s, archived, evict, refreshes, crashes, lost, orphaned>>

\* _enforce_size_limit_locked: read the elites, drop one from the archive,
\* then set it DISCARDED from the state that was read.
EvictRead(p) ==
    /\ ~Recovering /\ "evict" \in Faults /\ evict = {}
    /\ p \in archived
    /\ archived' = archived \ {p}
    /\ evict' = {<<p, blob[p]>>}
    /\ UNCHANGED <<storeVars, taskVars, s, flip, refreshes, crashes, orphaned>>

EvictWrite ==
    /\ \E e \in evict : SetDiscarded({e[1]}, From(e[2]))
    /\ evict' = {}
    /\ UNCHANGED <<taskVars, s, archived, flip, refreshes, crashes, lost, orphaned>>

EngineStep ==
    \/ \E p \in Programs : Submit(p) \/ Archive(p) \/ RefreshRead(p) \/ EvictRead(p)
    \/ RefreshWrite \/ EvictWrite

-----------------------------------------------------------------------------
(***************************************************************************)
(* Crash and recovery.                                                     *)
(***************************************************************************)
\* The process dies: what it knew is gone, what it wrote stays.
Crash ==
    /\ crashes < MaxCrashes
    /\ crashes' = crashes + 1
    /\ active' = {} /\ task' = Idle /\ mem' = From("ABSENT")
    /\ done_queue' = {} /\ batch' = NoBatch /\ dying' = {}
    /\ flip' = {} /\ evict' = {}
    /\ s' = SchedAt("recover")
    /\ UNCHANGED <<storeVars, archived, refreshes, orphaned>>

\* recover_stranded_programs: for each member of the RUNNING set, the blob
\* first and the move between the sets afterwards.
RecoverBlob(p) ==
    /\ s.pc = "recover" /\ p \in inset["RUNNING"]
    /\ WriteExclusive(p, "QUEUED")
    /\ s' = [s EXCEPT !.pc = "recover_move", !.cur = {p}]
    /\ UNCHANGED <<taskVars, engineVars, crashes, lost, orphaned>>

RecoverMove ==
    /\ s.pc = "recover_move"
    /\ Transition(s.cur, From("RUNNING"), "QUEUED")
    /\ s' = SchedAt("recover")
    /\ UNCHANGED <<taskVars, engineVars, crashes, lost, orphaned>>

Recovered ==
    /\ s.pc = "recover" /\ inset["RUNNING"] = {}
    /\ s' = SchedAt("maintain")
    /\ UNCHANGED <<storeVars, taskVars, engineVars, crashes, orphaned>>

RecoveryStep == (\E p \in Programs : RecoverBlob(p)) \/ RecoverMove \/ Recovered

Next ==
    \/ \E p \in Programs : TaskStep(p)
    \/ \E d \in dying : DyingWrite(d)
    \/ SchedulerStep \/ EngineStep \/ Crash \/ RecoveryStep

Spec == Init /\ [][Next]_vars

-----------------------------------------------------------------------------
(***************************************************************************)
(* Properties                                                              *)
(***************************************************************************)

\* Every stored program is in exactly one status set, whatever fails and
\* whenever the process dies.
OneStatusSet ==
    \A p \in Programs : blob[p] # "ABSENT" =>
        \E st \in Status : \A u \in Status : p \in inset[u] <=> u = st

\* The engine, which reads blobs, and the scheduler, which reads status sets,
\* see the same state of a program, unless a recovery is moving it.
BlobAgrees ==
    ~Recovering => \A p \in Programs, st \in Status : p \in inset[st] <=> blob[p] = st

\* test_dag_runner_no_orphans asserts that a run in which nothing fails
\* discards no program as an orphan.
NoOrphans == orphaned = {}

\* A program in the RUNNING set belongs to somebody: to a task in _active, to
\* the batch the scheduler is writing, or to a recovery that has not ended.
RunningOwned ==
    \A p \in inset["RUNNING"] : p \in active \cup s.batch \/ Recovering

\* A discarded program stays discarded: no late write of a task, a batch or a
\* recovery brings it back. ("terminal programs are never transitioned again",
\* database/state_manager.py)
DiscardedIsFinal ==
    [][\A p \in Programs : blob[p] = "DISCARDED" => blob'[p] = "DISCARDED"]_vars

\* A program that waits for a task has no earlier result on its way to storage
\* that would overwrite what the next evaluation finds.
ResultsAwaited ==
    \A p \in Programs : blob[p] = "QUEUED" /\ ~Recovering /\ p \notin active =>
        p \notin done_queue \cup s.batch \cup UNION {batch[q] : q \in Programs}

\* The state a program has in storage follows its life cycle, although every
\* writer is blind: validate_transition compares with the state the caller
\* believes the program to be in, not with the one in storage.
Lifecycle == INSTANCE ProgramLifecycle WITH state <- blob, up <- ~Recovering

\* Every write of a task, of the scheduler, of the engine and of a recovery
\* moves stored programs along VALID_TRANSITIONS, and no process works before
\* what its predecessor was evaluating is queued again.
ImplementsLifecycle == Lifecycle!Spec

\* The circumstances in which the status of programs can be relied on. In
\* each excluded one a write is based on a state that somebody else may have
\* changed, and the life cycle is violated (README, section 4): a task that
\* flushes the programs of others (one slot, or so many that the queue never
\* fills, excludes it), a DAG that flushes or fails while its program is being
\* marked RUNNING, two tasks that expire in one tick, an eviction that meets a
\* refresh, and a failed mark batch that meets an eviction, a timeout or
\* another failing write.
Wide == Slots > Cardinality(Programs)

Tame ==
    /\ Slots = 1 \/ Wide
    /\ DagsOutlastMark \/ (Wide /\ "fail" \notin Faults)
    /\ "timeout" \in Faults => TimeoutsAtOnce <= 1
    /\ "evict" \in Faults => MaxRefreshes = 0
    /\ "mark" \in Faults => MaxLost = 0 /\ Faults \cap {"timeout", "evict"} = {}

\* The event loop resumes every coroutine whose await is over; the semaphore
\* serves its waiters in FIFO order; the scheduler polls for ever.
Fairness ==
    /\ \A p \in Programs : WF_vars(TaskStep(p)) /\ SF_vars(TaskStart(p))
    /\ WF_vars(SchedulerStep)
    /\ WF_vars(RefreshWrite) /\ WF_vars(EvictWrite)
    /\ WF_vars(RecoveryStep)

FairSpec == Spec /\ Fairness

\* Every queued program is evaluated: DONE or DISCARDED in the end, across
\* crashes and refreshes.
Evaluated ==
    \A p \in Programs :
        blob[p] = "QUEUED" ~> blob[p] \in {"DONE", "DISCARDED"}

=============================================================================
