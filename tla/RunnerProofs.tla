---------------------------- MODULE RunnerProofs ----------------------------
(***************************************************************************)
(* Proofs about DagRunner, for every set of programs, every number of      *)
(* slots, every prefetch factor and any number of refreshes and crashes.   *)
(***************************************************************************)
EXTENDS DagRunner, TLAPS, FiniteSetTheorems

(***************************************************************************)
(* Types and capacity.                                                     *)
(***************************************************************************)
Busy == {p \in Programs : task[p] \in Holding}

\* The parts of TypeOK: what is stored, what the tasks are, what the scheduler
\* and the engine know, and the two capacities.
TasksTypeOK ==
    /\ active \subseteq Programs
    /\ task \in [Programs -> TaskPC]
    /\ mem \in [Programs -> Stored]
    /\ done_queue \subseteq Programs
    /\ batch \in [Programs -> SUBSET Programs]
    /\ dying \subseteq Programs \X Stored

EngineTypeOK ==
    /\ archived \subseteq Programs
    /\ flip \subseteq Programs
    /\ evict \subseteq Programs \X Stored
    /\ refreshes \in 0..MaxRefreshes /\ crashes \in 0..MaxCrashes /\ lost \in 0..MaxLost
    /\ orphaned \subseteq Programs

WithinCapacity ==
    /\ Cardinality(Busy) + Cardinality(dying) <= Slots
    /\ Cardinality(active) <= Slots * Prefetch

\* TypeOK is the conjunction of its parts, in each state ...
LEMMA TypeParts ==
    TypeOK <=> StoreTypeOK /\ TasksTypeOK /\ s \in Sched /\ EngineTypeOK /\ WithinCapacity
BY DEF TypeOK, TasksTypeOK, EngineTypeOK, WithinCapacity, Busy

\* ... and in the next one.
LEMMA TypePartsNext ==
    ASSUME StoreTypeOK', TasksTypeOK', s' \in Sched, EngineTypeOK', WithinCapacity'
    PROVE  TypeOK'
BY DEF TypeOK, TasksTypeOK, EngineTypeOK, WithinCapacity, Busy

\* A write of storage writes states.
LEMMA TransitionTypes ==
    ASSUME StoreTypeOK, NEW P \in SUBSET Programs, NEW old, NEW new \in Status,
           Transition(P, old, new)
    PROVE  StoreTypeOK'
BY DEF StoreTypeOK, Transition

\* set_program_state writes DISCARDED.
LEMMA SetDiscardedTypes ==
    ASSUME StoreTypeOK, NEW P \in SUBSET Programs, NEW seen, SetDiscarded(P, seen)
    PROVE  StoreTypeOK'
<1>1. {p \in P : seen[p] # "DISCARDED"} \in SUBSET Programs /\ "DISCARDED" \in Status
  BY DEF Status
<1> QED BY <1>1, TransitionTypes DEF SetDiscarded

\* write_exclusive writes the state it is given.
LEMMA WriteExclusiveTypes ==
    ASSUME StoreTypeOK, NEW p \in Programs, NEW x \in Stored, WriteExclusive(p, x)
    PROVE  StoreTypeOK'
BY DEF StoreTypeOK, WriteExclusive, Stored

\* A batch is written DONE.
LEMMA WriteDoneTypes ==
    ASSUME StoreTypeOK, NEW P \in SUBSET Programs, WriteDone(P)
    PROVE  StoreTypeOK'
<1>1. "DONE" \in Status
  BY DEF Status
<1> QED BY <1>1, TransitionTypes DEF WriteDone

\* Storage is left alone when a write raises, and the number of lost writes
\* is bounded.
LEMMA RaisesTypes ==
    ASSUME StoreTypeOK, EngineTypeOK, Raises
    PROVE  StoreTypeOK' /\ lost' \in 0..MaxLost
BY RunnerAssumption DEF StoreTypeOK, EngineTypeOK, Raises

\* A step without a write.
LEMMA StoreUnchanged ==
    ASSUME StoreTypeOK, UNCHANGED <<blob, inset>>
    PROVE  StoreTypeOK'
BY DEF StoreTypeOK

\* The scheduler's locals with everything reset.
LEMMA SchedAtTypes ==
    ASSUME NEW x \in SchedPC
    PROVE  SchedAt(x) \in Sched
BY DEF SchedAt, Sched, From, Stored

\* Sets that are counted are finite.
LEMMA CountedSets ==
    ASSUME TasksTypeOK
    PROVE  /\ IsFiniteSet(Busy) /\ Cardinality(Busy) \in Nat
           /\ IsFiniteSet(active) /\ Cardinality(active) \in Nat
           /\ IsFiniteSet(dying) /\ Cardinality(dying) \in Nat
<1>1. IsFiniteSet(Busy) /\ IsFiniteSet(active)
  BY RunnerAssumption, FS_Subset DEF Busy, TasksTypeOK
<1>2. IsFiniteSet(Stored)
  <2>1. Stored = {"QUEUED", "RUNNING", "DONE", "DISCARDED", "ABSENT"}
    BY DEF Stored, Status
  <2>2. IsFiniteSet({"QUEUED", "RUNNING", "DONE", "DISCARDED", "ABSENT"})
    <3>1. IsFiniteSet({"QUEUED"})
      BY FS_Singleton
    <3>2. IsFiniteSet({"QUEUED"} \cup {"RUNNING"})
      BY <3>1, FS_AddElement
    <3>3. IsFiniteSet(({"QUEUED"} \cup {"RUNNING"}) \cup {"DONE"})
      BY <3>2, FS_AddElement
    <3>4. IsFiniteSet((({"QUEUED"} \cup {"RUNNING"}) \cup {"DONE"}) \cup {"DISCARDED"})
      BY <3>3, FS_AddElement
    <3>5. IsFiniteSet(((({"QUEUED"} \cup {"RUNNING"}) \cup {"DONE"}) \cup {"DISCARDED"})
                      \cup {"ABSENT"})
      BY <3>4, FS_AddElement
    <3>6. {"QUEUED", "RUNNING", "DONE", "DISCARDED", "ABSENT"}
          = ((({"QUEUED"} \cup {"RUNNING"}) \cup {"DONE"}) \cup {"DISCARDED"}) \cup {"ABSENT"}
      OBVIOUS
    <3> QED BY <3>5, <3>6
  <2> QED BY <2>1, <2>2
<1>3. IsFiniteSet(Programs \X Stored)
  BY <1>2, RunnerAssumption, FS_Product
<1>4. IsFiniteSet(dying)
  BY <1>3, FS_Subset DEF TasksTypeOK
<1> QED BY <1>1, <1>4, FS_CardinalityType

\* A step in which no task takes a slot and no task is launched.
LEMMA LessCapacity ==
    ASSUME TasksTypeOK, WithinCapacity, Busy' \subseteq Busy, dying' \subseteq dying,
           active' \subseteq active
    PROVE  WithinCapacity'
<1>1. /\ Cardinality(Busy') <= Cardinality(Busy) /\ Cardinality(Busy') \in Nat
      /\ Cardinality(dying') <= Cardinality(dying) /\ Cardinality(dying') \in Nat
      /\ Cardinality(active') <= Cardinality(active) /\ Cardinality(active') \in Nat
  BY CountedSets, FS_Subset, FS_CardinalityType
<1>2. /\ Cardinality(Busy) + Cardinality(dying) <= Slots
      /\ Cardinality(active) <= Slots * Prefetch
      /\ Slots \in Nat /\ Slots * Prefetch \in Nat
  BY RunnerAssumption DEF WithinCapacity
<1>3. Cardinality(Busy') + Cardinality(dying') <= Slots
  BY <1>1, <1>2, CountedSets
<1>4. Cardinality(active') <= Slots * Prefetch
  BY <1>1, <1>2, CountedSets
<1> QED BY <1>3, <1>4 DEF WithinCapacity

\* A write that may raise.
LEMMA AttemptTypes ==
    ASSUME StoreTypeOK, EngineTypeOK, NEW P \in SUBSET Programs, NEW seen,
           Attempt(SetDiscarded(P, seen)) \/ Attempt(WriteDone(P))
    PROVE  StoreTypeOK' /\ lost' \in 0..MaxLost
BY SetDiscardedTypes, WriteDoneTypes, RaisesTypes DEF Attempt, EngineTypeOK

\* The same for write_exclusive.
LEMMA AttemptExclusiveTypes ==
    ASSUME StoreTypeOK, EngineTypeOK, NEW p \in Programs, NEW x \in Stored,
           Attempt(WriteExclusive(p, x))
    PROVE  StoreTypeOK' /\ lost' \in 0..MaxLost
BY WriteExclusiveTypes, RaisesTypes DEF Attempt, EngineTypeOK

\* A step of a task keeps the types; it takes a slot only when one is free.
LEMMA TaskStepTypes ==
    ASSUME TypeOK, NEW p \in Programs, TaskStep(p)
    PROVE  TypeOK'
<1>0. StoreTypeOK /\ TasksTypeOK /\ s \in Sched /\ EngineTypeOK /\ WithinCapacity
  BY TypeParts
<1>p. {"running", "flushing", "failing", "stopping", "done", "none", "waiting"} = TaskPC
      /\ {"running", "flushing", "failing", "stopping"} = Holding
  BY DEF TaskPC, Holding
<1>m. mem[p] \in Stored /\ batch[p] \in SUBSET Programs /\ {p} \in SUBSET Programs
      /\ task[p] \in TaskPC
  BY <1>0 DEF TasksTypeOK
<1>w. StoreTypeOK' /\ lost' \in 0..MaxLost
  BY <1>0, <1>m, StoreUnchanged, AttemptTypes, AttemptExclusiveTypes, WriteExclusiveTypes
     DEF TaskStep, TaskStart, TaskOk, TaskFlush, TaskFail, TaskDiscard, TaskStopped,
         storeVars, EngineTypeOK
<1>s. s' \in Sched /\ EngineTypeOK' /\ active' = active /\ dying' = dying
  BY <1>0, <1>w DEF TaskStep, TaskStart, TaskOk, TaskFlush, TaskFail, TaskDiscard, TaskStopped,
         engineVars, EngineTypeOK
<1>t. TasksTypeOK'
  BY <1>0, <1>m, <1>p, <1>s DEF TaskStep, TaskStart, TaskOk, TaskFlush, TaskFail, TaskDiscard,
     TaskStopped, TasksTypeOK
<1>c. WithinCapacity'
  <2>1. CASE TaskStart(p)
    <3>1. Busy' = Busy \cup {p} /\ p \notin Busy
      BY <1>0, <1>p, <2>1 DEF TaskStart, Busy, TasksTypeOK
    <3>a. IsFiniteSet(Busy) /\ Cardinality(Busy) \in Nat
      BY <1>0, CountedSets
    <3>b. Cardinality(Busy \cup {p}) = Cardinality(Busy) + 1
      BY <3>1, <3>a, FS_AddElement
    <3>2. Cardinality(Busy') = Cardinality(Busy) + 1
      BY <3>1, <3>b
    <3>3. Cardinality(Busy) + Cardinality(dying) < Slots
      BY <2>1 DEF TaskStart, Busy
    <3>4. Cardinality(Busy') + Cardinality(dying') <= Slots
      BY <1>0, <1>s, <3>a, <3>2, <3>3, CountedSets, RunnerAssumption
    <3> QED BY <1>0, <1>s, <3>4 DEF WithinCapacity
  <2>2. CASE ~TaskStart(p)
    <3>1. Busy' \subseteq Busy
      BY <1>0, <1>p, <1>m, <2>2 DEF TaskStep, TaskOk, MayEnd, TaskFlush, TaskFail, TaskDiscard,
         TaskStopped, Busy, TasksTypeOK
    <3> QED BY <1>0, <1>s, <3>1, LessCapacity
  <2> QED BY <2>1, <2>2
<1> QED BY <1>w, <1>s, <1>t, <1>c, TypePartsNext

\* A write of a dying task frees its slot.
LEMMA DyingTypes ==
    ASSUME TypeOK, NEW d \in dying, DyingWrite(d)
    PROVE  TypeOK'
<1>0. StoreTypeOK /\ TasksTypeOK /\ s \in Sched /\ EngineTypeOK /\ WithinCapacity
  BY TypeParts
<1>1. d[1] \in Programs /\ d[2] \in Stored
  BY <1>0 DEF TasksTypeOK
<1>2. StoreTypeOK' /\ lost' \in 0..MaxLost
  BY <1>0, <1>1, AttemptExclusiveTypes DEF DyingWrite
<1>3. TasksTypeOK' /\ s' \in Sched /\ EngineTypeOK'
  BY <1>0, <1>2 DEF DyingWrite, TasksTypeOK, EngineTypeOK, engineVars
<1>4. WithinCapacity'
  <2>1. Busy' \subseteq Busy /\ dying' \subseteq dying /\ active' \subseteq active
    BY DEF DyingWrite, Busy
  <2> QED BY <1>0, <2>1, LessCapacity
<1> QED BY <1>2, <1>3, <1>4, TypePartsNext

\* The end of _maintain only takes tasks away.
LEMMA HarvestTypes ==
    ASSUME TypeOK, NEW F \in SUBSET Programs, Harvest(F), UNCHANGED <<mem, batch, dying>>
    PROVE  /\ TasksTypeOK' /\ s' \in Sched
           /\ Busy' \subseteq Busy /\ dying' \subseteq dying /\ active' \subseteq active
<1>0. TasksTypeOK /\ s \in Sched
  BY TypeParts
<1>1. TasksTypeOK'
  BY <1>0 DEF TasksTypeOK, Harvest, TaskPC
<1>2. s' \in Sched
  BY <1>0 DEF TasksTypeOK, Harvest, Sched, SchedPC
<1>3. Busy' \subseteq Busy /\ dying' \subseteq dying /\ active' \subseteq active
  BY <1>0 DEF TasksTypeOK, Harvest, Busy, Holding
<1> QED BY <1>1, <1>2, <1>3

\* A cancelled task may keep its slot until it is over.
LEMMA CancelTypes ==
    ASSUME TypeOK, NEW p \in Programs, CancelTask(p), UNCHANGED <<active, mem, done_queue, dying>>
    PROVE  /\ StoreTypeOK' /\ lost' = lost
           /\ TasksTypeOK'
           /\ Busy' \subseteq Busy /\ dying' \subseteq dying /\ active' \subseteq active
<1>0. StoreTypeOK /\ TasksTypeOK
  BY TypeParts
<1>1. StoreTypeOK' /\ lost' = lost
  <2>1. batch[p] \in SUBSET Programs /\ {p} \in SUBSET Programs
    BY <1>0 DEF TasksTypeOK
  <2> QED BY <1>0, <2>1, StoreUnchanged, WriteDoneTypes, SetDiscardedTypes
          DEF CancelTask, storeVars
<1>2. TasksTypeOK'
  BY <1>0 DEF TasksTypeOK, CancelTask, TaskPC, Holding
<1>3. Busy' \subseteq Busy
  BY <1>0 DEF TasksTypeOK, CancelTask, Busy, Holding
<1> QED BY <1>1, <1>2, <1>3

\* _maintain harvests, or cancels the first task that expired.
LEMMA MaintainTypes ==
    ASSUME TypeOK, Maintain
    PROVE  TypeOK'
<1>0. StoreTypeOK /\ TasksTypeOK /\ s \in Sched /\ EngineTypeOK /\ WithinCapacity
  BY TypeParts
<1> DEFINE finished == {p \in active : task[p] = "done"}
<1>f. finished \in SUBSET Programs
  BY <1>0 DEF TasksTypeOK
<1>1. CASE Harvest(finished) /\ UNCHANGED <<storeVars, batch>>
  <2>1. StoreTypeOK' /\ EngineTypeOK'
    BY <1>0, <1>1, StoreUnchanged DEF Maintain, storeVars, engineVars, EngineTypeOK
  <2>2. UNCHANGED <<mem, batch, dying>>
    BY <1>1 DEF Maintain
  <2>3. TasksTypeOK' /\ s' \in Sched /\ WithinCapacity'
    BY <1>0, <1>1, <1>f, <2>2, HarvestTypes, LessCapacity
  <2> QED BY <2>1, <2>3, TypePartsNext
<1>2. ASSUME NEW T \in SUBSET {p \in active : task[p] \in Holding}, NEW p \in T, CancelTask(p),
             s' = [s EXCEPT !.pc = "cancelling", !.fin = finished,
                            !.timed = T \ {p}, !.cur = {p}],
             UNCHANGED <<active, done_queue>>
      PROVE  TypeOK'
  <2>1. p \in Programs /\ T \subseteq Programs
    BY <1>0 DEF TasksTypeOK
  <2>2. s' \in Sched
    BY <1>0, <1>2, <1>f, <2>1 DEF Sched, SchedPC
  <2>3. UNCHANGED <<active, mem, done_queue, dying>>
    BY <1>2 DEF Maintain
  <2>4. StoreTypeOK' /\ TasksTypeOK' /\ WithinCapacity' /\ lost' = lost
    BY <1>0, <1>2, <2>1, <2>3, CancelTypes, LessCapacity
  <2>5. EngineTypeOK'
    BY <1>0, <2>4 DEF Maintain, engineVars, EngineTypeOK
  <2> QED BY <2>2, <2>4, <2>5, TypePartsNext
<1> QED BY <1>1, <1>2 DEF Maintain

\* The expired task is taken out of _active.
LEMMA TimedReadTypes ==
    ASSUME TypeOK, TimedRead
    PROVE  TypeOK'
<1>0. StoreTypeOK /\ TasksTypeOK /\ s \in Sched /\ EngineTypeOK /\ WithinCapacity
  BY TypeParts
<1>1. StoreTypeOK' /\ EngineTypeOK'
  BY <1>0, StoreUnchanged DEF TimedRead, storeVars, engineVars, EngineTypeOK
<1>2. TasksTypeOK'
  BY <1>0 DEF TimedRead, TasksTypeOK, TaskPC
<1>3. s' \in Sched
  <2>1. blob \in [Programs -> Stored]
    BY <1>0 DEF StoreTypeOK, Stored
  <2>2. "timed" \in SchedPC /\ "timed_write" \in SchedPC
    BY DEF SchedPC
  <2>3. \E x \in {"timed", "timed_write"} :
            s' = [s EXCEPT !.pc = x, !.seen = blob] \/ s' = [s EXCEPT !.pc = x]
    BY DEF TimedRead
  <2> QED BY <1>0, <2>1, <2>2, <2>3 DEF Sched
<1>4. WithinCapacity'
  <2>1. Busy' \subseteq Busy /\ dying' \subseteq dying /\ active' \subseteq active
    BY <1>0 DEF TimedRead, TasksTypeOK, Busy, Holding
  <2> QED BY <1>0, <2>1, LessCapacity
<1> QED BY <1>1, <1>2, <1>3, <1>4, TypePartsNext

\* The next expired task, or the harvest after the last one.
LEMMA TimedNextTypes ==
    ASSUME TypeOK, TimedNext
    PROVE  TypeOK'
<1>0. StoreTypeOK /\ TasksTypeOK /\ s \in Sched /\ EngineTypeOK /\ WithinCapacity
  BY TypeParts
<1>1. CASE Harvest(s.fin) /\ UNCHANGED <<storeVars, batch>>
  <2>1. StoreTypeOK' /\ EngineTypeOK'
    BY <1>0, <1>1, StoreUnchanged DEF TimedNext, storeVars, engineVars, EngineTypeOK
  <2>2. UNCHANGED <<mem, batch, dying>> /\ s.fin \in SUBSET Programs
    BY <1>0, <1>1 DEF TimedNext, Sched
  <2>3. TasksTypeOK' /\ s' \in Sched /\ WithinCapacity'
    BY <1>0, <1>1, <2>2, HarvestTypes, LessCapacity
  <2> QED BY <2>1, <2>3, TypePartsNext
<1>2. ASSUME NEW p \in s.timed, CancelTask(p),
             s' = [s EXCEPT !.pc = "cancelling", !.timed = @ \ {p}, !.cur = {p}],
             UNCHANGED <<active, done_queue>>
      PROVE  TypeOK'
  <2>1. p \in Programs
    BY <1>0 DEF Sched
  <2>2. s' \in Sched
    BY <1>0, <1>2, <2>1 DEF Sched, SchedPC
  <2>3. UNCHANGED <<active, mem, done_queue, dying>>
    BY <1>2 DEF TimedNext
  <2>4. StoreTypeOK' /\ TasksTypeOK' /\ WithinCapacity' /\ lost' = lost
    BY <1>0, <1>2, <2>1, <2>3, CancelTypes, LessCapacity
  <2>5. EngineTypeOK'
    BY <1>0, <2>4 DEF TimedNext, engineVars, EngineTypeOK
  <2> QED BY <2>2, <2>4, <2>5, TypePartsNext
<1> QED BY <1>1, <1>2 DEF TimedNext

\* A step that leaves the tasks alone leaves the slots alone.
LEMMA TasksUnchanged ==
    ASSUME TasksTypeOK, WithinCapacity, UNCHANGED taskVars
    PROVE  TasksTypeOK' /\ WithinCapacity'
<1>1. TasksTypeOK'
  BY DEF taskVars, TasksTypeOK
<1>2. Busy' \subseteq Busy /\ dying' \subseteq dying /\ active' \subseteq active
  BY DEF taskVars, Busy
<1> QED BY <1>1, <1>2, LessCapacity

\* The steps of the scheduler that only read and write storage.
LEMMA SchedulerWriteTypes ==
    ASSUME TypeOK,
           \/ TimedWrite \/ Flush \/ FetchIds \/ OrphansRead \/ MarkRead
           \/ \E p \in Programs : OrphanDiscard(p)
    PROVE  TypeOK'
<1>0. StoreTypeOK /\ TasksTypeOK /\ s \in Sched /\ EngineTypeOK /\ WithinCapacity
  BY TypeParts
<1>b. s.batch \in SUBSET Programs /\ s.cur \in SUBSET Programs
  BY <1>0 DEF Sched
<1>t. TasksTypeOK' /\ WithinCapacity'
  BY <1>0, TasksUnchanged DEF TimedWrite, Flush, FetchIds, OrphansRead, MarkRead, OrphanDiscard
<1>1. CASE TimedWrite \/ Flush
  <2>1. StoreTypeOK' /\ lost' \in 0..MaxLost
    BY <1>0, <1>1, <1>b, AttemptTypes DEF TimedWrite, Flush
  <2>2. EngineTypeOK'
    BY <1>0, <1>1, <2>1 DEF TimedWrite, Flush, EngineTypeOK, engineVars
  <2>3. s' \in Sched
    BY <1>0, <1>1 DEF TimedWrite, Flush, Sched, SchedPC
  <2> QED BY <1>t, <2>1, <2>2, <2>3, TypePartsNext
<1>2. CASE FetchIds \/ OrphansRead \/ MarkRead
  <2>1. StoreTypeOK' /\ EngineTypeOK'
    BY <1>0, <1>2, StoreUnchanged DEF FetchIds, OrphansRead, MarkRead, storeVars, EngineTypeOK,
       engineVars
  <2>2. inset["RUNNING"] \in SUBSET Programs /\ inset["QUEUED"] \in SUBSET Programs
        /\ blob \in [Programs -> Stored]
    BY <1>0 DEF StoreTypeOK, Status, Stored
  <2>3. CASE FetchIds
    <3>1. inset["RUNNING"] \ active \in SUBSET Programs
      BY <2>2
    <3>2. s' \in Sched
      BY <1>0, <2>2, <2>3, <3>1 DEF FetchIds, Sched, SchedPC
    <3> QED BY <1>t, <2>1, <3>2, TypePartsNext
  <2>4. CASE OrphansRead
    BY <1>0, <1>t, <2>1, <2>2, <2>4, TypePartsNext DEF OrphansRead, Sched, SchedPC
  <2>5. CASE MarkRead
    BY <1>0, <1>t, <2>1, <2>2, <2>5, TypePartsNext DEF MarkRead, Sched, SchedPC
  <2> QED BY <1>2, <2>3, <2>4, <2>5
<1>3. ASSUME NEW p \in Programs, OrphanDiscard(p)
      PROVE  TypeOK'
  <2>1. StoreTypeOK' /\ lost' \in 0..MaxLost
    BY <1>0, <1>3, RaisesTypes, SetDiscardedTypes DEF OrphanDiscard, EngineTypeOK
  <2>2. EngineTypeOK'
    BY <1>0, <1>3, <2>1 DEF OrphanDiscard, EngineTypeOK, engineVars
  <2>3. s' \in Sched
    BY <1>0, <1>3 DEF OrphanDiscard, Sched, SchedPC
  <2> QED BY <1>t, <2>1, <2>2, <2>3, TypePartsNext
<1> QED BY <1>1, <1>2, <1>3

\* No more programs are launched than the prefetch window has room for.
LEMMA LaunchTypes ==
    ASSUME TypeOK, Launch
    PROVE  TypeOK'
<1>0. StoreTypeOK /\ TasksTypeOK /\ s \in Sched /\ EngineTypeOK /\ WithinCapacity
  BY TypeParts
<1> DEFINE ready == s.queued \ active
<1>1. PICK L \in SUBSET ready, B \in SUBSET ready :
          /\ B \subseteq L
          /\ \/ Cardinality(L) = Smaller(Cardinality(ready), Capacity)
             \/ "read" \in Faults /\ L = {}
          /\ Attempt(SetDiscarded(B, blob))
          /\ active' = active \cup (L \ B)
          /\ task' = [p \in Programs |-> IF p \in L \ B THEN "waiting" ELSE task[p]]
          /\ mem' = [p \in Programs |-> IF p \in L \ B THEN blob[p] ELSE mem[p]]
          /\ s' = [SchedAt(IF L = B THEN "maintain" ELSE "mark_read") EXCEPT !.launch = L \ B]
  BY DEF Launch
<1>2. ready \subseteq Programs /\ L \subseteq Programs /\ B \subseteq Programs
  BY <1>0 DEF Sched
<1>3. StoreTypeOK' /\ lost' \in 0..MaxLost
  BY <1>0, <1>1, <1>2, AttemptTypes
<1>4. EngineTypeOK'
  BY <1>0, <1>3 DEF Launch, EngineTypeOK, engineVars
<1>5. TasksTypeOK'
  <2>1. task' \in [Programs -> TaskPC]
    BY <1>0, <1>1 DEF TasksTypeOK, TaskPC
  <2>2. mem' \in [Programs -> Stored]
    BY <1>0, <1>1 DEF TasksTypeOK, StoreTypeOK, Stored
  <2> QED BY <1>0, <1>1, <1>2, <2>1, <2>2 DEF TasksTypeOK, Launch
<1>6. s' \in Sched
  <2>1. SchedAt(IF L = B THEN "maintain" ELSE "mark_read") \in Sched
    BY SchedAtTypes DEF SchedPC
  <2> QED BY <1>1, <1>2, <2>1 DEF Sched
<1>7. WithinCapacity'
  <2>1. Busy' \subseteq Busy /\ dying' = dying
    BY <1>0, <1>1 DEF Busy, TasksTypeOK, Holding, Launch
  <2>2. IsFiniteSet(ready) /\ IsFiniteSet(L) /\ IsFiniteSet(L \ B)
    BY <1>2, RunnerAssumption, FS_Subset
  <2>3. /\ Cardinality(L) \in Nat /\ Cardinality(L \ B) <= Cardinality(L)
        /\ Cardinality(L \ B) \in Nat /\ Cardinality(ready) \in Nat
    BY <2>2, FS_Subset, FS_CardinalityType
  <2>4. PICK N \in Nat : N = Slots * Prefetch
    BY RunnerAssumption
  <2>5. Cardinality(active) <= N /\ Cardinality(active) \in Nat /\ IsFiniteSet(active)
    BY <1>0, <2>4, CountedSets DEF WithinCapacity
  <2>6. Cardinality(L) <= N - Cardinality(active)
    <3>1. CASE L = {}
      BY <3>1, <2>4, <2>5, FS_EmptySet
    <3>2. CASE Cardinality(L) = Smaller(Cardinality(ready), Capacity)
      BY <3>2, <2>3, <2>4, <2>5 DEF Smaller, Capacity
    <3> QED BY <1>1, <3>1, <3>2
  <2>7. active \cap (L \ B) = {}
    OBVIOUS
  <2>8. Cardinality(active \cup (L \ B)) = Cardinality(active) + Cardinality(L \ B)
    <3>1. Cardinality(active \cup (L \ B))
          = Cardinality(active) + Cardinality(L \ B) - Cardinality(active \cap (L \ B))
      BY <2>2, <2>5, FS_Union
    <3>2. Cardinality(active \cap (L \ B)) = 0
      BY <2>7, FS_EmptySet
    <3> QED BY <2>3, <2>5, <3>1, <3>2
  <2>9. Cardinality(active') <= Slots * Prefetch
    BY <1>1, <2>3, <2>4, <2>5, <2>6, <2>8
  <2>10. Cardinality(Busy') + Cardinality(dying') <= Slots
    <3>1. Cardinality(Busy') <= Cardinality(Busy) /\ Cardinality(Busy') \in Nat
      BY <1>0, <2>1, CountedSets, FS_Subset, FS_CardinalityType
    <3> QED BY <1>0, <2>1, <3>1, CountedSets, RunnerAssumption DEF WithinCapacity
  <2> QED BY <2>9, <2>10 DEF WithinCapacity
<1> QED BY <1>3, <1>4, <1>5, <1>6, <1>7, TypePartsNext

\* The write of the mark batch, and its failure: the tasks that held a slot
\* keep it as dying ones.
LEMMA MarkTypes ==
    ASSUME TypeOK, MarkWrite \/ MarkFails
    PROVE  TypeOK'
<1>0. StoreTypeOK /\ TasksTypeOK /\ s \in Sched /\ EngineTypeOK /\ WithinCapacity
  BY TypeParts
<1>1. s' \in Sched
  BY SchedAtTypes DEF MarkWrite, MarkFails, SchedPC
<1>2. CASE MarkWrite
  <2>1. s.mark \in SUBSET Programs /\ "RUNNING" \in Status
    BY <1>0 DEF Sched, Status
  <2>2. StoreTypeOK'
    BY <1>0, <1>2, <2>1, TransitionTypes DEF MarkWrite
  <2>3. TasksTypeOK' /\ EngineTypeOK'
    BY <1>0, <1>2 DEF MarkWrite, TasksTypeOK, EngineTypeOK, engineVars, Stored, Status
  <2>4. Busy' \subseteq Busy /\ dying' \subseteq dying /\ active' \subseteq active
    BY <1>2 DEF MarkWrite, Busy
  <2> QED BY <1>0, <1>1, <2>2, <2>3, <2>4, LessCapacity, TypePartsNext
<1>3. CASE MarkFails
  <2> DEFINE Left == {q \in s.launch : task[q] = "running"}
             Late == {<<p, mem[p]>> : p \in Left}
  <2>1. StoreTypeOK' /\ EngineTypeOK'
    BY <1>0, <1>3, StoreUnchanged DEF MarkFails, storeVars, EngineTypeOK, engineVars
  <2>2. Left \subseteq Programs /\ Late \subseteq Programs \X Stored
    BY <1>0 DEF Sched, TasksTypeOK
  <2>3. TasksTypeOK'
    <3>1. task' \in [Programs -> TaskPC] /\ batch' \in [Programs -> SUBSET Programs]
      BY <1>0, <1>3 DEF MarkFails, TasksTypeOK, TaskPC
    <3>2. dying' \subseteq Programs \X Stored
      BY <1>0, <1>3, <2>2 DEF MarkFails, TasksTypeOK
    <3> QED BY <1>0, <1>3, <3>1, <3>2 DEF MarkFails, TasksTypeOK
  <2>4. Left \subseteq Busy /\ Busy' \subseteq Busy \ Left /\ active' \subseteq active
        /\ dying' = dying \cup Late
    BY <1>0, <1>3, <2>2 DEF MarkFails, Busy, Holding, TasksTypeOK
  <2>5. IsFiniteSet(Busy) /\ IsFiniteSet(dying) /\ IsFiniteSet(Left) /\ IsFiniteSet(Busy \ Left)
    BY <1>0, <2>4, CountedSets, FS_Subset
  <2>6. IsFiniteSet(Late) /\ Cardinality(Late) <= Cardinality(Left)
    <3> DEFINE f == [p \in Left |-> <<p, mem[p]>>]
    <3>1. f \in Surjection(Left, Late)
      BY DEF Surjection
    <3> HIDE DEF f
    <3> QED BY <3>1, <2>5, FS_Surjection
  <2>7. Cardinality(Busy \ Left) = Cardinality(Busy) - Cardinality(Left)
    <3>1. Busy \cap Left = Left
      BY <2>4
    <3> QED BY <2>5, <3>1, FS_Difference
  <2>8. /\ Cardinality(Busy) \in Nat /\ Cardinality(dying) \in Nat /\ Cardinality(Left) \in Nat
        /\ Cardinality(Late) \in Nat /\ Cardinality(dying \cup Late) \in Nat
        /\ Cardinality(dying \cap Late) \in Nat
    BY <2>5, <2>6, FS_CardinalityType, FS_Union, FS_Intersection
  <2>9. Cardinality(Busy') <= Cardinality(Busy) - Cardinality(Left) /\ Cardinality(Busy') \in Nat
    BY <2>4, <2>5, <2>7, FS_Subset, FS_CardinalityType
  <2>10. Cardinality(dying \cup Late) <= Cardinality(dying) + Cardinality(Late)
    <3> HIDE DEF Left, Late
    <3>1. Cardinality(dying \cup Late)
          = Cardinality(dying) + Cardinality(Late) - Cardinality(dying \cap Late)
      BY <2>5, <2>6, FS_Union
    <3> QED BY <2>8, <3>1
  <2>11. Cardinality(Busy') + Cardinality(dying') <= Slots
    <3>1. Cardinality(dying') = Cardinality(dying \cup Late)
      BY <2>4
    <3> HIDE DEF Left, Late
    <3> QED BY <1>0, <2>6, <2>8, <2>9, <2>10, <3>1, RunnerAssumption DEF WithinCapacity
  <2>12. Cardinality(active') <= Slots * Prefetch
    <3>1. PICK N \in Nat : N = Slots * Prefetch
      BY RunnerAssumption
    <3>2. Cardinality(active') <= Cardinality(active) /\ Cardinality(active') \in Nat
      BY <1>0, <2>4, CountedSets, FS_Subset, FS_CardinalityType
    <3> QED BY <1>0, <3>1, <3>2, CountedSets DEF WithinCapacity
  <2> QED BY <1>1, <2>1, <2>3, <2>11, <2>12, TypePartsNext DEF WithinCapacity
<1> QED BY <1>2, <1>3

\* The engine's writes, and what it remembers.
LEMMA EngineStepTypes ==
    ASSUME TypeOK, EngineStep
    PROVE  TypeOK'
<1>0. StoreTypeOK /\ TasksTypeOK /\ s \in Sched /\ EngineTypeOK /\ WithinCapacity
  BY TypeParts
<1>1. TasksTypeOK' /\ WithinCapacity' /\ s' \in Sched
  BY <1>0, TasksUnchanged DEF EngineStep, Submit, Archive, RefreshRead, EvictRead, RefreshWrite,
     EvictWrite
<1>2. StoreTypeOK'
  <2>1. "QUEUED" \in Status /\ flip \in SUBSET Programs
    BY <1>0 DEF Status, EngineTypeOK
  <2>2. \A e \in evict : {e[1]} \in SUBSET Programs
    BY <1>0 DEF EngineTypeOK
  <2>3. \A p \in Programs : {p} \in SUBSET Programs
    OBVIOUS
  <2> QED BY <1>0, <2>1, <2>2, <2>3, TransitionTypes, SetDiscardedTypes, StoreUnchanged
          DEF EngineStep, Submit, Archive, RefreshRead, EvictRead, RefreshWrite, EvictWrite,
              storeVars
<1>3. EngineTypeOK'
  <2> USE <1>0 DEF storeVars, engineVars, EngineTypeOK
  <2>1. ASSUME NEW p \in Programs, Submit(p) \/ Archive(p) PROVE EngineTypeOK'
    BY <2>1 DEF Submit, Archive
  <2>2. ASSUME NEW p \in Programs, RefreshRead(p) PROVE EngineTypeOK'
    BY <2>2, RunnerAssumption DEF RefreshRead
  <2>3. ASSUME NEW p \in Programs, EvictRead(p) PROVE EngineTypeOK'
    BY <2>3 DEF EvictRead, StoreTypeOK, Stored
  <2>4. CASE RefreshWrite \/ EvictWrite
    BY <2>4 DEF RefreshWrite, EvictWrite
  <2> QED BY <2>1, <2>2, <2>3, <2>4 DEF EngineStep
<1> QED BY <1>1, <1>2, <1>3, TypePartsNext

\* After a crash there is no task.
LEMMA CrashTypes ==
    ASSUME TypeOK, Crash
    PROVE  TypeOK'
<1>0. StoreTypeOK /\ TasksTypeOK /\ s \in Sched /\ EngineTypeOK /\ WithinCapacity
  BY TypeParts
<1>1. StoreTypeOK' /\ EngineTypeOK'
  BY <1>0, StoreUnchanged, RunnerAssumption DEF Crash, storeVars, EngineTypeOK
<1>2. TasksTypeOK'
  BY DEF Crash, TasksTypeOK, Idle, NoBatch, From, TaskPC, Stored
<1>3. s' \in Sched
  BY SchedAtTypes DEF Crash, SchedPC
<1>4. Busy' \subseteq Busy /\ dying' \subseteq dying /\ active' \subseteq active
  BY DEF Crash, Busy, Idle, Holding
<1> QED BY <1>0, <1>1, <1>2, <1>3, <1>4, LessCapacity, TypePartsNext

\* A recovery writes QUEUED and touches no task.
LEMMA RecoveryTypes ==
    ASSUME TypeOK, RecoveryStep
    PROVE  TypeOK'
<1>0. StoreTypeOK /\ TasksTypeOK /\ s \in Sched /\ EngineTypeOK /\ WithinCapacity
  BY TypeParts
<1>1. TasksTypeOK' /\ WithinCapacity'
  BY <1>0, TasksUnchanged DEF RecoveryStep, RecoverBlob, RecoverMove, Recovered
<1>2. StoreTypeOK'
  <2>1. "QUEUED" \in Status /\ "QUEUED" \in Stored /\ s.cur \in SUBSET Programs
    BY <1>0 DEF Status, Stored, Sched
  <2> QED BY <1>0, <2>1, WriteExclusiveTypes, TransitionTypes, StoreUnchanged
          DEF RecoveryStep, RecoverBlob, RecoverMove, Recovered, storeVars
<1>3. EngineTypeOK'
  BY <1>0 DEF RecoveryStep, RecoverBlob, RecoverMove, Recovered, storeVars, engineVars,
     EngineTypeOK
<1>4. s' \in Sched
  <2>1. ASSUME NEW p \in Programs, RecoverBlob(p) PROVE s' \in Sched
    BY <1>0, <2>1 DEF RecoverBlob, Sched, SchedPC
  <2>2. CASE RecoverMove \/ Recovered
    BY <2>2, SchedAtTypes DEF RecoverMove, Recovered, SchedPC
  <2> QED BY <2>1, <2>2 DEF RecoveryStep
<1> QED BY <1>1, <1>2, <1>3, <1>4, TypePartsNext

\* The types hold at the start ...
LEMMA RunnerInitTypes == Init => TypeOK
<1> SUFFICES ASSUME Init PROVE TypeOK
  OBVIOUS
<1>1. StoreTypeOK
  BY DEF Init, StoreInit, StoreTypeOK
<1>2. TasksTypeOK /\ EngineTypeOK
  BY RunnerAssumption DEF Init, TasksTypeOK, EngineTypeOK, Idle, NoBatch, From, TaskPC, Stored
<1>3. s \in Sched
  BY SchedAtTypes DEF Init, SchedPC
<1>4. WithinCapacity
  <2>1. Busy = {} /\ dying = {} /\ active = {}
    BY DEF Init, Busy, Idle, Holding
  <2>2. PICK N \in Nat : N = Slots * Prefetch
    BY RunnerAssumption
  <2> QED BY <2>1, <2>2, FS_EmptySet, RunnerAssumption DEF WithinCapacity
<1> QED BY <1>1, <1>2, <1>3, <1>4, TypeParts

\* ... and every step preserves them.
LEMMA RunnerNextTypes == TypeOK /\ [Next]_vars => TypeOK'
<1> SUFFICES ASSUME TypeOK, [Next]_vars PROVE TypeOK'
  OBVIOUS
<1>1. CASE UNCHANGED vars
  BY <1>1 DEF vars, storeVars, taskVars, engineVars, TypeOK, StoreTypeOK
<1> QED
  BY <1>1, TaskStepTypes, DyingTypes, MaintainTypes, TimedReadTypes, TimedNextTypes,
     SchedulerWriteTypes, LaunchTypes, MarkTypes, EngineStepTypes, CrashTypes, RecoveryTypes
     DEF Next, SchedulerStep

\* Whatever fails and whenever the process dies, tasks never hold more slots
\* than max_concurrent_dags, counting those that were cancelled and are not
\* over, and no more programs are active than the prefetch window admits.
THEOREM RunnerTypes == Spec => []TypeOK
BY RunnerInitTypes, RunnerNextTypes, PTL DEF Spec

-----------------------------------------------------------------------------
(***************************************************************************)
(* Where a program is. A program is in one status set or, before it is     *)
(* stored, in none; At(p) is that set. Every step leaves a program where   *)
(* it is or moves it, with its blob, to a new status.                      *)
(***************************************************************************)
In(p, x) == \A u \in Status : p \in inset[u] <=> u = x

InOneSet(p) == \E x \in Stored : In(p, x)

At(p) == CHOOSE x \in Stored : In(p, x)

Kept(q) == blob'[q] = blob[q] /\ InOneSet(q)' /\ At(q)' = At(q)

Moved(q, new) == blob'[q] = new /\ InOneSet(q)' /\ At(q)' = new

\* At is the set a program is found in, in each state ...
LEMMA AtIn ==
    ASSUME NEW p, NEW x \in Stored, In(p, x)
    PROVE  InOneSet(p) /\ At(p) = x
<1>1. \A y \in Stored : In(p, y) => y = x
  BY DEF In, Stored, Status
<1> QED BY <1>1 DEF At, InOneSet

\* ... and in the next one.
LEMMA AtInNext ==
    ASSUME NEW p, NEW x \in Stored, In(p, x)'
    PROVE  InOneSet(p)' /\ At(p)' = x
<1>1. \A y \in Stored : In(p, y)' => y = x
  BY DEF In, Stored, Status
<1> QED BY <1>1 DEF At, InOneSet

\* A program that is in one set is in At(p).
LEMMA AtStored ==
    ASSUME NEW p, InOneSet(p)
    PROVE  At(p) \in Stored /\ In(p, At(p))
BY DEF At, InOneSet

\* Membership in a status set in terms of At.
LEMMA AtSet ==
    ASSUME NEW p, InOneSet(p), NEW u \in Status
    PROVE  p \in inset[u] <=> At(p) = u
BY AtStored DEF In

\* A program whose blob and sets are not written.
LEMMA NotWritten ==
    ASSUME NEW q, InOneSet(q), blob'[q] = blob[q],
           \A u \in Status : q \in inset'[u] <=> q \in inset[u]
    PROVE  Kept(q)
<1>1. PICK x \in Stored : In(q, x)
  BY DEF InOneSet
<1>2. In(q, x)'
  BY <1>1 DEF In
<1> QED BY <1>1, <1>2, AtIn, AtInNext DEF Kept

\* A step that writes nothing keeps every program.
LEMMA NoWrite ==
    ASSUME NEW q, InOneSet(q), UNCHANGED <<blob, inset>>
    PROVE  Kept(q)
BY NotWritten

\* A transition moves the programs whose place the caller knows.
LEMMA TransitionEffect ==
    ASSUME StoreTypeOK, NEW P \in SUBSET Programs, NEW old, NEW new \in Status,
           Transition(P, old, new), NEW q \in Programs, InOneSet(q),
           q \in P => At(q) = old[q]
    PROVE  IF q \in P THEN Moved(q, new) ELSE Kept(q)
<1>1. CASE q \in P
  <2>1. \A u \in Status : q \in inset[u] <=> old[q] = u
    BY <1>1, AtSet
  <2>2. \A u \in Status : q \in inset'[u] <=> u = new
    BY <1>1, <2>1 DEF Transition
  <2>3. In(q, new)' /\ new \in Stored
    BY <2>2 DEF In, Stored
  <2> QED BY <1>1, <2>3, AtInNext DEF Moved, Transition
<1>2. CASE q \notin P
  <2>1. \A u \in Status : q \in inset'[u] <=> q \in inset[u]
    BY <1>2 DEF Transition
  <2> QED BY <1>2, <2>1, NotWritten DEF Transition
<1> QED BY <1>1, <1>2

\* A batch of RUNNING programs becomes DONE.
LEMMA DoneEffect ==
    ASSUME StoreTypeOK, NEW P \in SUBSET Programs, WriteDone(P), NEW q \in Programs,
           InOneSet(q), q \in P => At(q) = "RUNNING"
    PROVE  IF q \in P THEN Moved(q, "DONE") ELSE Kept(q)
<1>1. "DONE" \in Status /\ From("RUNNING")[q] = "RUNNING"
  BY DEF Status, From
<1> QED BY <1>1, TransitionEffect DEF WriteDone

\* set_program_state with the state the program is in.
LEMMA DiscardEffect ==
    ASSUME StoreTypeOK, NEW P \in SUBSET Programs, NEW seen, SetDiscarded(P, seen),
           NEW q \in Programs, InOneSet(q), q \in P => At(q) = seen[q]
    PROVE  IF q \in P /\ seen[q] # "DISCARDED" THEN Moved(q, "DISCARDED") ELSE Kept(q)
<1> DEFINE W == {p \in P : seen[p] # "DISCARDED"}
<1>1. "DISCARDED" \in Status /\ W \in SUBSET Programs
  BY DEF Status
<1>2. IF q \in W THEN Moved(q, "DISCARDED") ELSE Kept(q)
  BY <1>1, TransitionEffect DEF SetDiscarded
<1> QED BY <1>2

\* A write of the blob alone.
LEMMA ExclusiveEffect ==
    ASSUME StoreTypeOK, NEW p \in Programs, NEW x, WriteExclusive(p, x), NEW q \in Programs,
           InOneSet(q)
    PROVE  /\ InOneSet(q)' /\ At(q)' = At(q)
           /\ blob'[q] = IF q = p THEN x ELSE blob[q]
<1>1. blob'[q] = IF q = p THEN x ELSE blob[q]
  BY DEF WriteExclusive, StoreTypeOK
<1>2. PICK y \in Stored : In(q, y)
  BY DEF InOneSet
<1>3. In(q, y)'
  BY <1>2 DEF In, WriteExclusive
<1> QED BY <1>1, <1>2, <1>3, AtIn, AtInNext

-----------------------------------------------------------------------------
(***************************************************************************)
(* The invariant. For each program it says what storage has of it, what    *)
(* its task may still write, and that what the scheduler and the engine    *)
(* have read of it still holds.                                            *)
(***************************************************************************)

\* Blob and status set agree, but for a program that a recovery is moving, and
\* one whose blob a dying task has written back to QUEUED.
Filed(p) ==
    /\ InOneSet(p)
    /\ \/ At(p) = blob[p]
       \/ /\ blob[p] = "QUEUED" /\ At(p) # "ABSENT"
          /\ "mark" \in Faults \/ (Recovering /\ At(p) = "RUNNING")

\* A task that may still write works on a program that is RUNNING, in storage
\* and in memory; until the launch is over its program is QUEUED.
Tasked(p) ==
    /\ task[p] = "none" <=> p \notin active
    /\ p \in active => At(p) # "ABSENT"
    /\ p \in s.launch =>
          /\ s.pc \in {"mark_read", "mark_write"} /\ p \in active
          /\ At(p) = "QUEUED" /\ mem[p] = "QUEUED"
          /\ task[p] \in {"waiting", "running", "done"}
          /\ task[p] = "done" => ~DagsOutlastMark /\ p \in done_queue
    /\ p \in active /\ p \notin s.launch =>
          /\ mem[p] = "RUNNING"
          /\ task[p] = "done" \/ At(p) = "RUNNING"
    /\ task[p] = "stopping" => "timeout" \in Faults
    /\ batch[p] = IF task[p] = "flushing" THEN {p} ELSE {}

\* A program in the queue or in the scheduler's batch is over, is still
\* RUNNING in storage, and is written DONE once.
Batched(p) ==
    /\ p \in done_queue =>
          /\ task[p] = "done"
          /\ p \in s.launch \/ At(p) = "RUNNING"
    /\ p \in s.batch =>
          /\ s.pc = "flush" /\ At(p) = "RUNNING"
          /\ p \notin done_queue /\ task[p] \in {"none", "done"}

\* What the scheduler has read is still so when it acts on it.
ReadHolds(p) ==
    /\ s.pc \in {"orphans_read", "orphans", "launch"} /\ p \in s.queued => At(p) = "QUEUED"
    /\ s.pc \in {"orphans_read", "orphans"} /\ p \in s.orphans =>
          At(p) = "RUNNING" /\ p \notin active
    /\ s.pc = "orphans" /\ p \in s.orphans => s.seen[p] = "RUNNING"
    /\ s.pc \in {"cancelling", "timed_write", "timed"} /\ p \in s.fin => task[p] = "done"
    /\ s.pc \in {"cancelling", "timed_write"} /\ p \in s.fin => p \notin s.cur
    /\ s.pc = "cancelling" /\ p \in s.cur =>
          task[p] \in {"stopping", "done"} /\ p \notin done_queue
    /\ s.pc = "timed_write" /\ p \in s.cur =>
          p \notin active /\ s.seen[p] = At(p) /\ At(p) \notin {"DONE", "ABSENT"}
    /\ s.pc = "recover_move" /\ p \in s.cur => At(p) = "RUNNING" /\ blob[p] = "QUEUED"
    /\ s.pc = "mark_write" => (p \in s.mark <=> p \in s.launch)

\* So is what the engine has read; with evictions no archived program is
\* evaluated again.
EngineHolds(p) ==
    /\ p \in flip => At(p) = "DONE"
    /\ "evict" \in Faults /\ p \in archived => blob[p] \in {"DONE", "DISCARDED"}

\* When no write is lost and no task cut short, a program that is RUNNING has
\* a task in _active or is in the scheduler's batch, and a task that is over
\* has left its program in the queue or in another state.
NothingLost == MaxLost = 0 /\ "timeout" \notin Faults

Owned(p) ==
    NothingLost /\ ~Recovering =>
       /\ At(p) = "RUNNING" => p \in active \/ p \in s.batch
       /\ /\ p \in active /\ p \notin s.launch /\ task[p] = "done"
          /\ p \notin done_queue /\ p \notin s.batch
          => At(p) # "RUNNING"

ProgramInv(p) ==
    Filed(p) /\ Tasked(p) /\ Batched(p) /\ ReadHolds(p) /\ EngineHolds(p) /\ Owned(p)

\* What concerns no single program.
SharedInv ==
    /\ Slots = 1 => done_queue = {}
    /\ \A d \in dying : d[2] = "QUEUED" /\ blob[d[1]] # "ABSENT"
    /\ "mark" \notin Faults => dying = {}
    /\ "evict" \notin Faults => evict = {}
    /\ "evict" \in Faults => flip = {}
    /\ \A e \in evict : e[2] = blob[e[1]] /\ e[2] \in {"DONE", "DISCARDED"}
    /\ s.pc \in {"cancelling", "timed_write", "timed"} => s.timed = {} /\ "timeout" \in Faults
    /\ s.pc = "cancelling" => \A p, q \in s.cur : p = q
    /\ Recovering => /\ active = {} /\ done_queue = {} /\ dying = {}
                     /\ flip = {} /\ evict = {}

RunnerInv == SharedInv /\ \A p \in Programs : ProgramInv(p)

\* A program that a step does not touch.
Untouched(q) ==
    /\ Kept(q)
    /\ task'[q] = task[q] /\ mem'[q] = mem[q] /\ batch'[q] = batch[q]
    /\ q \in active' <=> q \in active
    /\ q \in done_queue' <=> q \in done_queue
    /\ q \in flip' <=> q \in flip
    /\ q \in archived' <=> q \in archived

\* It keeps its part of the invariant.
LEMMA UntouchedInv ==
    ASSUME NEW q \in Programs, ProgramInv(q), Untouched(q), s' = s
    PROVE  ProgramInv(q)'
<1> USE DEF ProgramInv, Untouched, Kept
<1>1. Filed(q)'
  BY DEF Filed, Recovering
<1>2. Tasked(q)'
  BY DEF Tasked
<1>3. Batched(q)'
  BY DEF Batched
<1>4. ReadHolds(q)'
  BY DEF ReadHolds
<1>5. EngineHolds(q)'
  BY DEF EngineHolds
<1>6. Owned(q)'
  BY DEF Owned, Recovering
<1> QED BY <1>1, <1>2, <1>3, <1>4, <1>5, <1>6

\* Every program has its part of the invariant.
LEMMA InvOf ==
    ASSUME RunnerInv, NEW q \in Programs
    PROVE  /\ ProgramInv(q) /\ InOneSet(q)
           /\ Filed(q) /\ Tasked(q) /\ Batched(q) /\ ReadHolds(q) /\ EngineHolds(q) /\ Owned(q)
BY DEF RunnerInv, ProgramInv, Filed

\* A task that holds a slot and whose program is not being launched: the
\* program is RUNNING and nobody else is about to write it.
LEMMA WriterAlone ==
    ASSUME RunnerInv, NEW p \in Programs, task[p] \in Holding, p \notin s.launch
    PROVE  /\ p \in active /\ ~Recovering
           /\ mem[p] = "RUNNING" /\ At(p) = "RUNNING"
           /\ blob[p] = "RUNNING" \/ ("mark" \in Faults /\ blob[p] = "QUEUED")
           /\ p \notin flip /\ p \notin done_queue /\ p \notin s.batch
           /\ \A e \in evict : e[1] # p
<1>0. Tasked(p) /\ Filed(p) /\ EngineHolds(p) /\ Batched(p) /\ SharedInv
  BY InvOf DEF RunnerInv
<1>1. task[p] # "none" /\ task[p] # "done"
  BY DEF Holding
<1>2. p \in active /\ mem[p] = "RUNNING" /\ At(p) = "RUNNING"
  BY <1>0, <1>1 DEF Tasked
<1>3. ~Recovering
  BY <1>0, <1>2 DEF SharedInv
<1>4. blob[p] = "RUNNING" \/ ("mark" \in Faults /\ blob[p] = "QUEUED")
  BY <1>0, <1>2, <1>3 DEF Filed
<1>5. p \notin flip /\ p \notin done_queue /\ p \notin s.batch
  BY <1>0, <1>1, <1>2 DEF EngineHolds, Batched
<1>6. \A e \in evict : e[1] # p
  BY <1>0, <1>4 DEF SharedInv
<1> QED BY <1>2, <1>3, <1>4, <1>5, <1>6

\* Where the queue never fills there is more than one slot.
LEMMA WideSlots ==
    ASSUME Wide, NEW p \in Programs
    PROVE  Slots # 1
<1>1. Cardinality(Programs) \in Nat /\ Cardinality(Programs) # 0
  BY RunnerAssumption, FS_CardinalityType, FS_EmptySet
<1> QED BY <1>1, RunnerAssumption DEF Wide

\* A task fills the queue only where there is one slot, and alone: it never
\* writes the result of another task.
LEMMA FlushesOwn ==
    ASSUME Tame, TypeOK, SharedInv, NEW p \in Programs
    PROVE  IF Cardinality(done_queue \cup {p}) >= Slots
           THEN Slots = 1 /\ done_queue = {}
           ELSE Slots # 1
<1>1. done_queue \cup {p} \in SUBSET Programs
  BY DEF TypeOK
<1>2. /\ IsFiniteSet(done_queue \cup {p})
      /\ Cardinality(done_queue \cup {p}) <= Cardinality(Programs)
  BY <1>1, RunnerAssumption, FS_Subset
<1>3. Cardinality(done_queue \cup {p}) \in Nat /\ Cardinality(Programs) \in Nat
  BY <1>2, RunnerAssumption, FS_CardinalityType
<1>4. CASE Slots = 1
  <2>1. done_queue \cup {p} = {p}
    BY <1>4 DEF SharedInv
  <2>2. Cardinality({p}) = 1
    BY FS_Singleton
  <2> QED BY <1>4, <2>1, <2>2 DEF SharedInv
<1>5. CASE Wide
  BY <1>2, <1>3, <1>5, WideSlots, RunnerAssumption DEF Wide
<1> QED BY <1>4, <1>5 DEF Tame

\* A task that gets a slot does not change what it may write.
LEMMA TaskStartInv ==
    ASSUME Tame, TypeOK, RunnerInv, NEW p \in Programs, TaskStart(p)
    PROVE  RunnerInv'
<1>0. task \in [Programs -> TaskPC]
  BY DEF TypeOK
<1>1. /\ task[p] = "waiting" /\ task' = [task EXCEPT ![p] = "running"]
      /\ UNCHANGED <<blob, inset, active, mem, done_queue, batch, dying, s, flip, archived, evict>>
  BY DEF TaskStart, storeVars, engineVars
<1>2. ASSUME NEW q \in Programs PROVE ProgramInv(q)'
  <2>0. ProgramInv(q) /\ Kept(q)
    BY <1>1, InvOf, NoWrite
  <2>1. CASE q # p
    <3>1. Untouched(q)
      BY <1>0, <1>1, <2>0, <2>1 DEF Untouched
    <3> QED BY <1>1, <2>0, <3>1, UntouchedInv
  <2>2. CASE q = p
    <3>0. task'[q] = "running"
      BY <1>0, <1>1, <2>2
    <3> USE <1>1, <2>0, <2>2, <3>0 DEF ProgramInv, Kept
    <3>1. Filed(q)'
      BY DEF Filed, Recovering
    <3>2. Tasked(q)'
      BY DEF Tasked
    <3>3. Batched(q)'
      BY DEF Batched
    <3>4. ReadHolds(q)'
      BY DEF ReadHolds
    <3>5. EngineHolds(q)'
      BY DEF EngineHolds
    <3>6. Owned(q)'
      BY DEF Owned, Recovering
    <3> QED BY <3>1, <3>2, <3>3, <3>4, <3>5, <3>6
  <2> QED BY <2>1, <2>2
<1>3. SharedInv'
  BY <1>1 DEF RunnerInv, SharedInv, Recovering
<1> QED BY <1>2, <1>3 DEF RunnerInv

\* A DAG that ends leaves its program RUNNING and in the queue, or, with one
\* slot, in the batch of its own task.
LEMMA TaskOkInv ==
    ASSUME Tame, TypeOK, RunnerInv, NEW p \in Programs, TaskOk(p)
    PROVE  RunnerInv'
<1>0. task \in [Programs -> TaskPC] /\ batch \in [Programs -> SUBSET Programs]
  BY DEF TypeOK
<1>1. /\ task[p] = "running" /\ (DagsOutlastMark => p \notin s.launch)
      /\ UNCHANGED <<blob, inset, active, mem, dying, s, flip, archived, evict>>
  BY DEF TaskOk, MayEnd, storeVars, engineVars
<1>t. ProgramInv(p) /\ SharedInv
  BY InvOf DEF RunnerInv
<1>2. \/ /\ Slots = 1 /\ done_queue = {} /\ done_queue' = {}
         /\ task' = [task EXCEPT ![p] = "flushing"]
         /\ batch' = [batch EXCEPT ![p] = {p}]
      \/ /\ Slots # 1 /\ done_queue' = done_queue \cup {p}
         /\ task' = [task EXCEPT ![p] = "done"]
         /\ batch' = batch
  <2>1. CASE Cardinality(done_queue \cup {p}) >= Slots
    <3>1. Slots = 1 /\ done_queue = {}
      BY <2>1, <1>t, FlushesOwn
    <3>2. done_queue \cup {p} = {p}
      BY <3>1
    <3> QED BY <2>1, <3>1, <3>2 DEF TaskOk
  <2>2. CASE ~(Cardinality(done_queue \cup {p}) >= Slots)
    BY <2>2, <1>t, FlushesOwn DEF TaskOk
  <2> QED BY <2>1, <2>2
<1>l. p \in s.launch => Slots # 1
  BY <1>1, WideSlots DEF Tame
<1>3. ASSUME NEW q \in Programs PROVE ProgramInv(q)'
  <2>0. ProgramInv(q) /\ Kept(q)
    BY <1>1, InvOf, NoWrite
  <2>1. CASE q # p
    <3>1. Untouched(q)
      BY <1>0, <1>1, <1>2, <2>0, <2>1 DEF Untouched
    <3> QED BY <1>1, <2>0, <3>1, UntouchedInv
  <2>2. CASE q = p
    <3>0. \/ q \notin done_queue' /\ task'[q] = "flushing" /\ batch'[q] = {q} /\ q \notin s.launch
          \/ q \in done_queue' /\ task'[q] = "done" /\ batch'[q] = batch[q]
      BY <1>0, <1>2, <1>l, <2>2
    <3> USE <1>1, <2>0, <2>2, <3>0 DEF ProgramInv, Kept
    <3>1. Filed(q)'
      BY DEF Filed, Recovering
    <3>2. Tasked(q)'
      BY DEF Tasked
    <3>3. Batched(q)'
      BY DEF Batched, Tasked
    <3>4. ReadHolds(q)'
      BY DEF ReadHolds
    <3>5. EngineHolds(q)'
      BY DEF EngineHolds
    <3>6. Owned(q)'
      BY DEF Owned, Recovering
    <3> QED BY <3>1, <3>2, <3>3, <3>4, <3>5, <3>6
  <2> QED BY <2>1, <2>2
<1>4. SharedInv'
  <2>1. p \in active
    BY <1>t, <1>1 DEF ProgramInv, Tasked
  <2> QED BY <1>1, <1>2, <1>t, <2>1 DEF SharedInv, Recovering
<1> QED BY <1>3, <1>4 DEF RunnerInv

\* What a task that holds a slot does to its program: it leaves it RUNNING or
\* takes it, with its blob, to DONE or DISCARDED. A task that is over has done
\* the latter unless its write was lost or cut short.
LeftRunning(p) == InOneSet(p)' /\ At(p)' = At(p) /\ blob'[p] \in {blob[p], "RUNNING"}

Ended(p) == Moved(p, "DONE") \/ Moved(p, "DISCARDED")

Worked(p) ==
    /\ \/ task'[p] = "failing" /\ LeftRunning(p)
       \/ task'[p] = "stopping" /\ LeftRunning(p) /\ "timeout" \in Faults
       \/ task'[p] = "done" /\ (Ended(p) \/ (~NothingLost /\ LeftRunning(p)))
    /\ batch'[p] = {}

\* A task that works on its program alone preserves the invariant.
LEMMA WorkedInv ==
    ASSUME TypeOK, RunnerInv, NEW p \in Programs, task[p] \in Holding, p \notin s.launch,
           Worked(p),
           \A q \in Programs : q # p => Untouched(q),
           p \in s.cur => s.pc # "cancelling" \/ task'[p] \in {"stopping", "done"},
           UNCHANGED <<active, mem, done_queue, dying, s, flip, archived, evict>>
    PROVE  RunnerInv'
<1>0. /\ p \in active /\ ~Recovering
      /\ mem[p] = "RUNNING" /\ At(p) = "RUNNING"
      /\ blob[p] = "RUNNING" \/ ("mark" \in Faults /\ blob[p] = "QUEUED")
      /\ p \notin flip /\ p \notin done_queue /\ p \notin s.batch
      /\ \A e \in evict : e[1] # p
  BY WriterAlone
<1>r. ~Recovering'
  BY <1>0 DEF Recovering
<1>1. ASSUME NEW q \in Programs PROVE ProgramInv(q)'
  <2>0. ProgramInv(q)
    BY InvOf
  <2>1. CASE q # p
    BY <2>0, <2>1, UntouchedInv
  <2>2. CASE q = p
    <3> USE <1>0, <1>r, <2>0, <2>2
    <3>0. task[p] # "none" /\ task[p] # "done" /\ task'[p] \in {"failing", "stopping", "done"}
      BY DEF Holding, Worked
    <3>1. Filed(q)'
      BY DEF Worked, LeftRunning, Ended, Moved, Filed
    <3>2. Tasked(q)'
      BY <3>0 DEF Worked, LeftRunning, Ended, Moved, ProgramInv, Tasked
    <3>3. Batched(q)'
      BY DEF Batched
    <3>4. ReadHolds(q)'
      BY <3>0 DEF ProgramInv, ReadHolds, Recovering
    <3>5. EngineHolds(q)'
      BY DEF Worked, LeftRunning, Ended, Moved, ProgramInv, EngineHolds
    <3>6. Owned(q)'
      BY <3>0 DEF Worked, LeftRunning, Ended, Moved, Owned
    <3> QED BY <3>1, <3>2, <3>3, <3>4, <3>5, <3>6 DEF ProgramInv
  <2> QED BY <2>1, <2>2
<1>2. SharedInv'
  <2>1. blob'[p] # "ABSENT"
    BY <1>0 DEF Worked, LeftRunning, Ended, Moved
  <2>2. \A d \in dying : blob'[d[1]] # "ABSENT"
    <3> SUFFICES ASSUME NEW d \in dying PROVE blob'[d[1]] # "ABSENT"
      OBVIOUS
    <3>1. d[1] \in Programs /\ blob[d[1]] # "ABSENT"
      BY DEF TypeOK, RunnerInv, SharedInv
    <3> QED BY <2>1, <3>1 DEF Untouched, Kept
  <2>3. \A e \in evict : blob'[e[1]] = blob[e[1]]
    BY <1>0 DEF TypeOK, Untouched, Kept
  <2> QED BY <1>r, <2>2, <2>3 DEF RunnerInv, SharedInv
<1> QED BY <1>1, <1>2 DEF RunnerInv

\* Where writes can be lost, NothingLost is false.
LEMMA RaisesLoses ==
    ASSUME TypeOK, Raises
    PROVE  ~NothingLost /\ UNCHANGED <<blob, inset>>
BY RunnerAssumption DEF TypeOK, Raises, NothingLost

\* The effect of the write of one task on its program and on the others.
LEMMA FlushWrites ==
    ASSUME TypeOK, RunnerInv, NEW p \in Programs, task[p] = "flushing", p \notin s.launch,
           WriteDone(batch[p]), NEW q \in Programs
    PROVE  IF q = p THEN Moved(q, "DONE") ELSE Kept(q)
<1>1. batch[p] = {p} /\ {p} \in SUBSET Programs
  BY InvOf DEF Tasked
<1>2. At(p) = "RUNNING"
  BY WriterAlone DEF Holding
<1>3. InOneSet(q) /\ StoreTypeOK
  BY InvOf DEF TypeOK
<1> QED BY <1>1, <1>2, <1>3, DoneEffect

\* The discard after a failed DAG.
LEMMA DiscardWrites ==
    ASSUME TypeOK, RunnerInv, NEW p \in Programs, task[p] = "failing", p \notin s.launch,
           SetDiscarded({p}, mem), NEW q \in Programs
    PROVE  IF q = p THEN Moved(q, "DISCARDED") ELSE Kept(q)
<1>1. At(p) = "RUNNING" /\ mem[p] = "RUNNING"
  BY WriterAlone DEF Holding
<1>2. InOneSet(q) /\ StoreTypeOK /\ {p} \in SUBSET Programs
  BY InvOf DEF TypeOK
<1>3. IF q \in {p} /\ mem[q] # "DISCARDED" THEN Moved(q, "DISCARDED") ELSE Kept(q)
  BY <1>1, <1>2, DiscardEffect
<1> QED BY <1>1, <1>3

\* The partial results are written over a blob that says RUNNING.
LEMMA ResultsWrites ==
    ASSUME TypeOK, RunnerInv, NEW p \in Programs, task[p] \in Holding, p \notin s.launch,
           WriteExclusive(p, mem[p]), NEW q \in Programs
    PROVE  IF q = p THEN LeftRunning(q) ELSE Kept(q)
<1>1. mem[p] = "RUNNING"
  BY WriterAlone
<1>2. InOneSet(q) /\ StoreTypeOK
  BY InvOf DEF TypeOK
<1>3. /\ InOneSet(q)' /\ At(q)' = At(q)
      /\ blob'[q] = IF q = p THEN mem[p] ELSE blob[q]
  BY <1>2, ExclusiveEffect
<1> QED BY <1>1, <1>3 DEF LeftRunning, Kept

\* A task that writes nothing leaves its program RUNNING.
LEMMA KeptRunning ==
    ASSUME NEW p, Kept(p)
    PROVE  LeftRunning(p)
BY DEF Kept, LeftRunning

\* A program that is being launched has a task that has not written yet.
LEMMA LaunchedWaits ==
    ASSUME RunnerInv, NEW p \in Programs,
           task[p] \in {"flushing", "failing", "stopping"} \/ (MayEnd(p) /\ "fail" \in Faults),
           Tame
    PROVE  p \notin s.launch
<1>1. task[p] \in {"flushing", "failing", "stopping"} => p \notin s.launch
  BY InvOf DEF Tasked
<1>2. "fail" \in Faults => DagsOutlastMark
  BY DEF Tame
<1> QED BY <1>1, <1>2 DEF MayEnd

\* The four steps in which a task writes.
LEMMA TaskWritesInv ==
    ASSUME Tame, TypeOK, RunnerInv, NEW p \in Programs,
           TaskFlush(p) \/ TaskFail(p) \/ TaskDiscard(p) \/ TaskStopped(p)
    PROVE  RunnerInv'
<1>0. task \in [Programs -> TaskPC] /\ batch \in [Programs -> SUBSET Programs]
  BY DEF TypeOK
<1>1. UNCHANGED <<active, mem, done_queue, dying, s, flip, archived, evict>>
  BY DEF TaskFlush, TaskFail, TaskDiscard, TaskStopped, engineVars
<1>2. p \notin s.launch
  <2>1. task[p] \in {"flushing", "failing", "stopping"} \/ (MayEnd(p) /\ "fail" \in Faults)
    BY DEF TaskFlush, TaskFail, TaskDiscard, TaskStopped
  <2> QED BY <2>1, LaunchedWaits
<1>3. task[p] \in Holding
  BY DEF TaskFlush, TaskFail, MayEnd, TaskDiscard, TaskStopped, Holding
<1>4. \A q \in Programs : q # p => task'[q] = task[q] /\ batch'[q] = batch[q]
  BY <1>0 DEF TaskFlush, TaskFail, TaskDiscard, TaskStopped
<1>5. batch'[p] = {}
  <2>1. Tasked(p)
    BY InvOf
  <2> QED BY <1>0, <2>1 DEF Tasked, TaskFlush, TaskFail, MayEnd, TaskDiscard, TaskStopped
<1>6. ASSUME NEW q \in Programs
      PROVE  IF q = p
             THEN \/ task'[p] = "failing" /\ LeftRunning(p)
                  \/ task'[p] = "done" /\ (Ended(p) \/ (~NothingLost /\ LeftRunning(p)))
             ELSE Kept(q)
  <2>1. UNCHANGED <<blob, inset>> => Kept(q)
    BY InvOf, NoWrite
  <2>2. CASE TaskFlush(p)
    <3>1. task[p] = "flushing" /\ task'[p] = "done" /\ (WriteDone(batch[p]) \/ Raises)
      BY <1>0, <2>2 DEF TaskFlush, Attempt
    <3> QED BY <1>2, <2>1, <3>1, FlushWrites, RaisesLoses, KeptRunning DEF Ended
  <2>3. CASE TaskFail(p)
    <3>1. task'[p] = "failing" /\ (WriteExclusive(p, mem[p]) \/ Raises)
      BY <1>0, <2>3 DEF TaskFail, Attempt
    <3> QED BY <1>2, <1>3, <2>1, <3>1, ResultsWrites, RaisesLoses, KeptRunning
  <2>4. CASE TaskDiscard(p)
    <3>1. task[p] = "failing" /\ task'[p] = "done" /\ (SetDiscarded({p}, mem) \/ Raises)
      BY <1>0, <2>4 DEF TaskDiscard, Attempt
    <3> QED BY <1>2, <2>1, <3>1, DiscardWrites, RaisesLoses, KeptRunning DEF Ended
  <2>5. CASE TaskStopped(p)
    <3>1. task[p] = "stopping" /\ task'[p] = "done"
          /\ (WriteExclusive(p, mem[p]) \/ UNCHANGED <<blob, inset>>)
      BY <1>0, <2>5 DEF TaskStopped
    <3>2. ~NothingLost
      BY <3>1, InvOf DEF Tasked, NothingLost
    <3> QED BY <1>2, <1>3, <2>1, <3>1, <3>2, ResultsWrites, KeptRunning
  <2> QED BY <2>2, <2>3, <2>4, <2>5
<1>7. Worked(p)
  BY <1>5, <1>6 DEF Worked
<1>8. \A q \in Programs : q # p => Untouched(q)
  BY <1>1, <1>4, <1>6 DEF Untouched
<1>9. p \in s.cur => s.pc # "cancelling" \/ task'[p] \in {"stopping", "done"}
  <2>1. ReadHolds(p)
    BY InvOf
  <2> QED BY <1>0, <2>1 DEF ReadHolds, TaskFlush, TaskFail, MayEnd, TaskDiscard, TaskStopped
<1> QED BY <1>1, <1>2, <1>3, <1>7, <1>8, <1>9, WorkedInv

\* The write of a dying task puts a blob back to QUEUED. The status sets do
\* not change, and nobody is about to act on that blob.
LEMMA DyingInv ==
    ASSUME Tame, TypeOK, RunnerInv, NEW d \in dying, DyingWrite(d)
    PROVE  RunnerInv'
<1>0. d[1] \in Programs /\ StoreTypeOK /\ SharedInv
  BY DEF TypeOK, RunnerInv
<1>1. /\ dying' = dying \ {d}
      /\ UNCHANGED <<active, task, mem, done_queue, batch, s, flip, archived, evict>>
  BY DEF DyingWrite, engineVars
<1>2. /\ "mark" \in Faults /\ MaxLost = 0 /\ NothingLost /\ "evict" \notin Faults
      /\ evict = {} /\ ~Recovering /\ d[2] = "QUEUED" /\ blob[d[1]] # "ABSENT"
      /\ s.pc \notin {"cancelling", "timed_write", "timed"}
  BY <1>0 DEF SharedInv, Tame, NothingLost
<1>3. WriteExclusive(d[1], "QUEUED")
  BY <1>2, RaisesLoses DEF DyingWrite, Attempt
<1>4. ASSUME NEW q \in Programs PROVE ProgramInv(q)'
  <2>0. ProgramInv(q) /\ InOneSet(q)
    BY InvOf
  <2>1. /\ InOneSet(q)' /\ At(q)' = At(q)
        /\ blob'[q] = IF q = d[1] THEN "QUEUED" ELSE blob[q]
    BY <1>0, <1>3, <2>0, ExclusiveEffect
  <2> USE <1>1, <1>2, <2>0, <2>1 DEF ProgramInv
  <2>2. Filed(q)'
    BY DEF Filed, Recovering
  <2>3. Tasked(q)' /\ Batched(q)'
    BY DEF Tasked, Batched
  <2>4. ReadHolds(q)'
    BY DEF ReadHolds, Recovering
  <2>5. EngineHolds(q)' /\ Owned(q)'
    BY DEF EngineHolds, Owned, Recovering
  <2> QED BY <2>2, <2>3, <2>4, <2>5
<1>5. SharedInv'
  <2>1. \A c \in dying' : blob'[c[1]] # "ABSENT"
    BY <1>0, <1>1, <1>3 DEF SharedInv, WriteExclusive, StoreTypeOK
  <2> QED BY <1>0, <1>1, <1>2, <2>1 DEF SharedInv, Recovering
<1> QED BY <1>4, <1>5 DEF RunnerInv

\* The end of _maintain: what is harvested is over, and what is in the queue
\* becomes the scheduler's batch.
LEMMA HarvestInv ==
    ASSUME TypeOK, RunnerInv, s.pc \in {"maintain", "timed"}, NEW F \in SUBSET Programs,
           \A p \in F : task[p] = "done", Harvest(F),
           UNCHANGED <<blob, inset, mem, batch, dying, flip, archived, evict>>
    PROVE  RunnerInv'
<1>0. s \in Sched /\ task \in [Programs -> TaskPC] /\ SharedInv
  BY DEF TypeOK, RunnerInv
<1>1. /\ s'.pc = IF done_queue = {} THEN "ids" ELSE "flush"
      /\ s'.batch = done_queue /\ s'.launch = s.launch
      /\ done_queue' = {} /\ active' = active \ F
  BY <1>0 DEF Harvest, Sched
<1>2. s.pc \notin {"recover", "recover_move"} /\ ~Recovering /\ ~Recovering'
  BY <1>1 DEF Recovering
<1>3. ASSUME NEW q \in Programs PROVE ProgramInv(q)'
  <2>0. ProgramInv(q) /\ Kept(q)
    BY InvOf, NoWrite
  <2>1. task'[q] = IF q \in F THEN "none" ELSE task[q]
    BY <1>0 DEF Harvest
  <2>2. q \notin s.launch /\ q \notin s.batch
    BY <2>0 DEF ProgramInv, Tasked, Batched
  <2> USE <1>1, <1>2, <2>0, <2>1, <2>2 DEF ProgramInv, Kept
  <2>3. Filed(q)'
    BY DEF Filed
  <2>4. Tasked(q)'
    BY DEF Tasked
  <2>5. Batched(q)'
    BY DEF Batched
  <2>6. ReadHolds(q)'
    BY DEF ReadHolds
  <2>7. EngineHolds(q)'
    BY DEF EngineHolds
  <2>8. Owned(q)'
    BY DEF Owned
  <2> QED BY <2>3, <2>4, <2>5, <2>6, <2>7, <2>8
<1>4. SharedInv'
  BY <1>0, <1>1, <1>2 DEF SharedInv
<1> QED BY <1>3, <1>4 DEF RunnerInv

\* A task that is cut short: it has to write its partial results, or its last
\* write has happened or not.
LEMMA CancelWorks ==
    ASSUME TypeOK, RunnerInv, NEW p \in Programs, CancelTask(p), "timeout" \in Faults,
           task[p] \in Holding, p \notin s.launch
    PROVE  /\ Worked(p) /\ task'[p] \in {"stopping", "done"}
           /\ \A q \in Programs : q # p =>
                 Kept(q) /\ task'[q] = task[q] /\ batch'[q] = batch[q]
<1>0. task \in [Programs -> TaskPC] /\ batch \in [Programs -> SUBSET Programs]
  BY DEF TypeOK
<1>1. ~NothingLost /\ Tasked(p)
  BY InvOf DEF NothingLost
<1>2. ASSUME NEW q \in Programs, UNCHANGED <<blob, inset>>
      PROVE  Kept(q) /\ LeftRunning(q)
  BY <1>2, InvOf, NoWrite, KeptRunning
<1>3. CASE task[p] = "stopping" /\ UNCHANGED <<storeVars, task, batch>>
  BY <1>1, <1>2, <1>3 DEF storeVars, Worked, Tasked
<1>4. CASE /\ task[p] = "running" /\ task' = [task EXCEPT ![p] = "stopping"]
           /\ UNCHANGED <<storeVars, batch>>
  BY <1>0, <1>1, <1>2, <1>4 DEF storeVars, Worked, Tasked
<1>5. CASE /\ task[p] \in {"flushing", "failing"}
           /\ task' = [task EXCEPT ![p] = "done"]
           /\ batch' = [batch EXCEPT ![p] = {}]
  <2>1. task'[p] = "done" /\ batch'[p] = {}
    BY <1>0, <1>5
  <2>2. \A q \in Programs : q # p => task'[q] = task[q] /\ batch'[q] = batch[q]
    BY <1>0, <1>5
  <2>3. \/ task[p] = "flushing" /\ WriteDone(batch[p])
        \/ task[p] = "failing" /\ SetDiscarded({p}, mem)
        \/ UNCHANGED <<blob, inset>>
    BY <1>5 DEF CancelTask, storeVars
  <2>4. ASSUME NEW q \in Programs
        PROVE  IF q = p THEN Ended(q) \/ LeftRunning(q) ELSE Kept(q)
    BY <1>2, <2>3, FlushWrites, DiscardWrites DEF Ended
  <2> QED BY <1>1, <2>1, <2>2, <2>4 DEF Worked
<1> QED BY <1>3, <1>4, <1>5 DEF CancelTask, Holding

\* _maintain: the harvest, or the cancellation of the one task that expired.
LEMMA MaintainInv ==
    ASSUME Tame, TypeOK, RunnerInv, Maintain
    PROVE  RunnerInv'
<1>0. s \in Sched /\ active \subseteq Programs /\ s.pc = "maintain" /\ SharedInv
  BY DEF TypeOK, Maintain, RunnerInv
<1>1. UNCHANGED <<mem, dying, flip, archived, evict>>
  BY DEF Maintain, engineVars
<1> DEFINE finished == {p \in active : task[p] = "done"}
<1>2. CASE Harvest(finished) /\ UNCHANGED <<storeVars, batch>>
  <2>1. finished \in SUBSET Programs /\ \A p \in finished : task[p] = "done"
    BY <1>0
  <2> HIDE DEF finished
  <2> QED BY <1>0, <1>1, <1>2, <2>1, HarvestInv DEF storeVars
<1>3. ASSUME NEW T \in SUBSET {p \in active : task[p] \in Holding}, NEW p \in T, CancelTask(p),
             "timeout" \in Faults, Cardinality(T) <= TimeoutsAtOnce,
             s' = [s EXCEPT !.pc = "cancelling", !.fin = finished,
                            !.timed = T \ {p}, !.cur = {p}],
             UNCHANGED <<active, done_queue>>
      PROVE  RunnerInv'
  <2>1. T = {p}
    <3>1. T \in SUBSET Programs /\ TimeoutsAtOnce <= 1
      BY <1>0, <1>3 DEF Tame
    <3>2. IsFiniteSet(T) /\ Cardinality(T) \in Nat
      BY <3>1, RunnerAssumption, FS_Subset, FS_CardinalityType
    <3>3. Cardinality({p}) = 1 /\ {p} \in SUBSET T
      BY FS_Singleton
    <3>4. Cardinality({p}) <= Cardinality(T) /\ (Cardinality(T) = Cardinality({p}) => T = {p})
      BY <3>2, <3>3, FS_Subset
    <3> QED BY <1>3, <3>1, <3>2, <3>3, <3>4, RunnerAssumption
  <2>2. /\ s'.pc = "cancelling" /\ s'.fin = finished /\ s'.timed = {} /\ s'.cur = {p}
        /\ s'.launch = s.launch /\ s'.batch = s.batch
    BY <1>0, <1>3, <2>1 DEF Sched
  <2>3. ~Recovering /\ ~Recovering' /\ ~NothingLost
    BY <1>0, <1>3, <2>2 DEF Recovering, NothingLost
  <2>4. p \in Programs /\ task[p] \in Holding /\ p \notin s.launch
    BY <1>0, InvOf DEF Tasked
  <2>5. /\ Worked(p) /\ task'[p] \in {"stopping", "done"}
        /\ \A q \in Programs : q # p =>
              Kept(q) /\ task'[q] = task[q] /\ batch'[q] = batch[q]
    BY <1>3, <2>4, CancelWorks
  <2>6. /\ p \in active /\ mem[p] = "RUNNING" /\ At(p) = "RUNNING"
        /\ blob[p] = "RUNNING" \/ ("mark" \in Faults /\ blob[p] = "QUEUED")
        /\ p \notin flip /\ p \notin done_queue /\ p \notin s.batch
        /\ \A e \in evict : e[1] # p
    BY <2>4, WriterAlone
  <2>7. ASSUME NEW q \in Programs PROVE ProgramInv(q)'
    <3>0. ProgramInv(q) /\ q \notin s.launch /\ q \notin s.batch
      BY <1>0, InvOf DEF Tasked, Batched
    <3>1. CASE q # p
      <4> USE <1>1, <1>3, <2>2, <2>3, <2>5, <3>0, <3>1 DEF ProgramInv, Kept
      <4>1. Filed(q)'
        BY DEF Filed
      <4>2. Tasked(q)' /\ Batched(q)'
        BY DEF Tasked, Batched
      <4>3. ReadHolds(q)' /\ EngineHolds(q)' /\ Owned(q)'
        BY DEF ReadHolds, EngineHolds, Owned
      <4> QED BY <4>1, <4>2, <4>3
    <3>2. CASE q = p
      <4> USE <1>1, <1>3, <2>2, <2>3, <2>5, <2>6, <3>0, <3>2
          DEF Worked, LeftRunning, Ended, Moved
      <4>1. Filed(q)'
        BY DEF Filed
      <4>2. Tasked(q)'
        BY DEF Tasked, ProgramInv
      <4>3. Batched(q)' /\ Owned(q)'
        BY DEF Batched, Owned
      <4>4. ReadHolds(q)'
        BY <2>4 DEF ReadHolds, Holding
      <4>5. EngineHolds(q)'
        BY DEF EngineHolds, ProgramInv
      <4> QED BY <4>1, <4>2, <4>3, <4>4, <4>5 DEF ProgramInv
    <3> QED BY <3>1, <3>2
  <2>8. SharedInv'
    <3>1. blob'[p] # "ABSENT"
      BY <2>5, <2>6 DEF Worked, LeftRunning, Ended, Moved
    <3>2. \A d \in dying : blob'[d[1]] # "ABSENT"
      BY <1>0, <2>5, <3>1 DEF TypeOK, SharedInv, Kept
    <3>3. \A e \in evict : blob'[e[1]] = blob[e[1]]
      BY <2>5, <2>6 DEF TypeOK, Kept
    <3> QED BY <1>0, <1>1, <1>3, <2>2, <2>3, <3>2, <3>3 DEF SharedInv
  <2> QED BY <2>7, <2>8 DEF RunnerInv
<1> QED BY <1>2, <1>3 DEF Maintain

\* While the scheduler deals with a task that expired, timeouts can happen; so
\* no mark batch fails, and blobs and status sets agree.
LEMMA TimedContext ==
    ASSUME Tame, RunnerInv, s.pc \in {"cancelling", "timed_write", "timed"}
    PROVE  /\ "timeout" \in Faults /\ "mark" \notin Faults /\ ~NothingLost /\ ~Recovering
           /\ s.timed = {}
           /\ \A q \in Programs : blob[q] = At(q) /\ q \notin s.launch /\ q \notin s.batch
<1>1. "timeout" \in Faults /\ s.timed = {} /\ ~Recovering
  BY DEF RunnerInv, SharedInv, Recovering
<1>2. "mark" \notin Faults /\ ~NothingLost
  BY <1>1 DEF Tame, NothingLost
<1>3. \A q \in Programs : blob[q] = At(q) /\ q \notin s.launch /\ q \notin s.batch
  BY <1>1, <1>2, InvOf DEF Filed, Tasked, Batched
<1> QED BY <1>1, <1>2, <1>3

\* The scheduler reads the state of the program whose task it has cancelled;
\* nobody else will write it before the scheduler does.
LEMMA TimedReadInv ==
    ASSUME Tame, TypeOK, RunnerInv, TimedRead
    PROVE  RunnerInv'
<1>0. s \in Sched /\ SharedInv /\ s.pc = "cancelling" /\ s.cur \subseteq Programs
      /\ task \in [Programs -> TaskPC]
  BY DEF TypeOK, TimedRead, RunnerInv, Sched
<1>1. /\ \A p \in s.cur : task[p] = "done"
      /\ active' = active \ s.cur
      /\ UNCHANGED <<blob, inset, mem, done_queue, batch, dying, flip, archived, evict>>
  BY DEF TimedRead, storeVars, engineVars
<1>2. /\ s'.launch = s.launch /\ s'.batch = s.batch /\ s'.fin = s.fin /\ s'.timed = s.timed
      /\ s'.cur = s.cur
      /\ \/ s'.pc = "timed"
         \/ /\ s'.pc = "timed_write" /\ s'.seen = blob
            /\ \E p \in s.cur : blob[p] # "DONE"
  BY <1>0 DEF TimedRead, Sched
<1>3. /\ "timeout" \in Faults /\ ~NothingLost /\ ~Recovering /\ s.timed = {}
      /\ \A q \in Programs : blob[q] = At(q) /\ q \notin s.launch /\ q \notin s.batch
  BY <1>0, TimedContext
<1>4. ~Recovering'
  BY <1>2 DEF Recovering
<1>5. s'.pc = "timed_write" => \A p \in s.cur : blob[p] # "DONE"
  BY <1>0, <1>2 DEF SharedInv
<1>6. ASSUME NEW q \in Programs PROVE ProgramInv(q)'
  <2>0. ProgramInv(q) /\ Kept(q)
    BY <1>1, InvOf, NoWrite
  <2>1. task'[q] = IF q \in s.cur THEN "none" ELSE task[q]
    BY <1>0 DEF TimedRead
  <2>2. q \in s.cur => q \in active /\ q \notin done_queue /\ At(q) # "ABSENT"
    BY <1>0, <1>1, <2>0 DEF ProgramInv, ReadHolds, Tasked
  <2> USE <1>1, <1>2, <1>3, <1>4, <1>5, <2>0, <2>1, <2>2 DEF ProgramInv, Kept
  <2>3. Filed(q)'
    BY DEF Filed
  <2>4. Tasked(q)'
    BY DEF Tasked
  <2>5. Batched(q)'
    BY DEF Batched
  <2>6. ReadHolds(q)'
    BY <1>0 DEF ReadHolds
  <2>7. EngineHolds(q)' /\ Owned(q)'
    BY DEF EngineHolds, Owned
  <2> QED BY <2>3, <2>4, <2>5, <2>6, <2>7
<1>7. SharedInv'
  BY <1>0, <1>1, <1>2, <1>3, <1>4 DEF SharedInv
<1> QED BY <1>6, <1>7 DEF RunnerInv

\* It discards the program from the state it has read.
LEMMA TimedWriteInv ==
    ASSUME Tame, TypeOK, RunnerInv, TimedWrite
    PROVE  RunnerInv'
<1>0. s \in Sched /\ SharedInv /\ s.pc = "timed_write" /\ s.cur \in SUBSET Programs
      /\ StoreTypeOK
  BY DEF TypeOK, TimedWrite, RunnerInv, Sched
<1>1. UNCHANGED <<active, task, mem, done_queue, batch, dying, flip, archived, evict>>
  BY DEF TimedWrite, taskVars, engineVars
<1>2. /\ s'.launch = s.launch /\ s'.batch = s.batch /\ s'.fin = s.fin /\ s'.timed = s.timed
      /\ s'.pc = "timed"
  BY <1>0 DEF TimedWrite, Sched
<1>3. /\ "timeout" \in Faults /\ "mark" \notin Faults /\ ~NothingLost /\ ~Recovering
      /\ s.timed = {}
      /\ \A q \in Programs : blob[q] = At(q) /\ q \notin s.launch /\ q \notin s.batch
  BY <1>0, TimedContext
<1>4. ~Recovering'
  BY <1>2 DEF Recovering
<1>5. ASSUME NEW q \in Programs
      PROVE  Kept(q) \/ (q \in s.cur /\ At(q) # "DISCARDED" /\ Moved(q, "DISCARDED"))
  <2>1. InOneSet(q) /\ ReadHolds(q)
    BY InvOf
  <2>2. q \in s.cur => At(q) = s.seen[q]
    BY <1>0, <2>1 DEF ReadHolds
  <2>3. CASE SetDiscarded(s.cur, s.seen)
    BY <1>0, <2>1, <2>2, <2>3, DiscardEffect
  <2>4. CASE Raises
    BY <2>1, <2>4, NoWrite DEF Raises
  <2> QED BY <2>3, <2>4 DEF TimedWrite, Attempt
<1>6. \A q \in s.cur : q \notin active /\ blob[q] \notin {"DONE", "ABSENT"}
  BY <1>0, <1>3, InvOf DEF ReadHolds
<1>7. ASSUME NEW q \in Programs PROVE ProgramInv(q)'
  <2>0. ProgramInv(q)
    BY InvOf
  <2> USE <1>1, <1>2, <1>3, <1>4, <1>5, <1>6, <2>0 DEF ProgramInv, Kept, Moved
  <2>1. Filed(q)'
    BY DEF Filed
  <2>2. Tasked(q)'
    BY DEF Tasked
  <2>3. Batched(q)'
    BY DEF Batched, Tasked
  <2>4. ReadHolds(q)' /\ Owned(q)'
    BY <1>0 DEF ReadHolds, Owned
  <2>5. EngineHolds(q)'
    BY DEF EngineHolds
  <2> QED BY <2>1, <2>2, <2>3, <2>4, <2>5
<1>8. SharedInv'
  <2>1. \A e \in evict : blob'[e[1]] = blob[e[1]]
    BY <1>0, <1>3, <1>5, <1>6 DEF SharedInv, Kept, Moved, TypeOK
  <2>2. dying = {}
    BY <1>0, <1>3 DEF SharedInv
  <2> QED BY <1>0, <1>1, <1>2, <1>3, <1>4, <2>1, <2>2 DEF SharedInv
<1> QED BY <1>7, <1>8 DEF RunnerInv

\* The harvest after the timeout: what was found finished before is still so.
LEMMA TimedNextInv ==
    ASSUME Tame, TypeOK, RunnerInv, TimedNext
    PROVE  RunnerInv'
<1>0. s \in Sched /\ s.pc = "timed" /\ s.fin \in SUBSET Programs
  BY DEF TypeOK, TimedNext, Sched
<1>1. s.timed = {}
  BY <1>0, TimedContext
<1>2. Harvest(s.fin) /\ UNCHANGED <<blob, inset, mem, batch, dying, flip, archived, evict>>
  BY <1>1 DEF TimedNext, storeVars, engineVars
<1>3. \A p \in s.fin : task[p] = "done"
  BY <1>0, InvOf DEF ReadHolds
<1> QED BY <1>0, <1>2, <1>3, HarvestInv

\* The scheduler writes its batch DONE; all of it is still RUNNING.
LEMMA FlushInv ==
    ASSUME Tame, TypeOK, RunnerInv, Flush
    PROVE  RunnerInv'
<1>0. s \in Sched /\ SharedInv /\ s.pc = "flush" /\ s.batch \in SUBSET Programs
      /\ StoreTypeOK
  BY DEF TypeOK, Flush, RunnerInv, Sched
<1>1. UNCHANGED <<active, task, mem, done_queue, batch, dying, flip, archived, evict>>
  BY DEF Flush, taskVars, engineVars
<1>2. s'.launch = s.launch /\ s'.batch = {} /\ s'.pc = "ids"
  BY <1>0 DEF Flush, Sched
<1>3. ~Recovering /\ ~Recovering'
  BY <1>0, <1>2 DEF Recovering
<1>4. ASSUME NEW q \in Programs
      PROVE  IF q \in s.batch THEN Moved(q, "DONE") \/ (Kept(q) /\ ~NothingLost) ELSE Kept(q)
  <2>1. InOneSet(q) /\ Batched(q)
    BY InvOf
  <2>2. q \in s.batch => At(q) = "RUNNING"
    BY <2>1 DEF Batched
  <2>3. CASE WriteDone(s.batch)
    BY <1>0, <2>1, <2>2, <2>3, DoneEffect
  <2>4. CASE Raises
    BY <2>1, <2>4, NoWrite, RaisesLoses
  <2> QED BY <2>3, <2>4 DEF Flush, Attempt
<1>5. ASSUME NEW q \in Programs PROVE ProgramInv(q)'
  <2>0. ProgramInv(q) /\ q \notin s.launch
    BY <1>0, InvOf DEF Tasked
  <2> USE <1>0, <1>1, <1>2, <1>3, <1>4, <2>0 DEF ProgramInv, Kept, Moved
  <2>1. Filed(q)'
    BY DEF Filed
  <2>2. Tasked(q)'
    BY DEF Tasked, Batched
  <2>3. Batched(q)'
    BY DEF Batched
  <2>4. ReadHolds(q)'
    BY DEF ReadHolds
  <2>5. EngineHolds(q)'
    BY DEF EngineHolds, Batched
  <2>6. Owned(q)'
    BY DEF Owned
  <2> QED BY <2>1, <2>2, <2>3, <2>4, <2>5, <2>6
<1>6. SharedInv'
  <2>1. \A q \in s.batch : At(q) = "RUNNING"
    BY InvOf, <1>0 DEF Batched
  <2>2. \A e \in evict : blob'[e[1]] = blob[e[1]]
    <3> SUFFICES ASSUME NEW e \in evict PROVE blob'[e[1]] = blob[e[1]]
      OBVIOUS
    <3>1. e[1] \in Programs /\ blob[e[1]] \in {"DONE", "DISCARDED"}
      BY <1>0 DEF SharedInv, TypeOK
    <3>2. e[1] \notin s.batch
      BY <1>3, <2>1, <3>1, InvOf DEF Filed
    <3> QED BY <1>4, <3>1, <3>2 DEF Kept
  <2>3. \A d \in dying : blob'[d[1]] # "ABSENT"
    BY <1>0, <1>4 DEF SharedInv, TypeOK, Kept, Moved
  <2> QED BY <1>0, <1>1, <1>2, <1>3, <2>2, <2>3 DEF SharedInv
<1> QED BY <1>5, <1>6 DEF RunnerInv

\* Reading the members of the status sets.
LEMMA FetchIdsInv ==
    ASSUME Tame, TypeOK, RunnerInv, FetchIds
    PROVE  RunnerInv'
<1>0. s \in Sched /\ SharedInv /\ s.pc = "ids"
  BY DEF TypeOK, FetchIds, RunnerInv
<1>1. UNCHANGED <<blob, inset, active, task, mem, done_queue, batch, dying, flip, archived, evict>>
  BY DEF FetchIds, storeVars, taskVars, engineVars
<1>2. /\ s'.launch = s.launch /\ s'.batch = s.batch
      /\ \/ s'.pc = "maintain"
         \/ /\ s'.pc \in {"launch", "orphans_read"}
            /\ s'.queued = inset["QUEUED"] /\ s'.orphans = inset["RUNNING"] \ active
  BY <1>0 DEF FetchIds, Sched
<1>3. ~Recovering /\ ~Recovering'
  BY <1>0, <1>2 DEF Recovering
<1>4. ASSUME NEW q \in Programs PROVE ProgramInv(q)'
  <2>0. ProgramInv(q) /\ Kept(q) /\ q \notin s.launch /\ q \notin s.batch
    BY <1>0, <1>1, InvOf, NoWrite DEF Tasked, Batched
  <2>1. /\ q \in inset["QUEUED"] <=> At(q) = "QUEUED"
        /\ q \in inset["RUNNING"] <=> At(q) = "RUNNING"
    BY InvOf, AtSet DEF Status
  <2> USE <1>0, <1>1, <1>2, <1>3, <2>0, <2>1 DEF ProgramInv, Kept
  <2>2. Filed(q)'
    BY DEF Filed
  <2>3. Tasked(q)' /\ Batched(q)'
    BY DEF Tasked, Batched
  <2>4. ReadHolds(q)'
    BY DEF ReadHolds
  <2>5. EngineHolds(q)' /\ Owned(q)'
    BY DEF EngineHolds, Owned
  <2> QED BY <2>2, <2>3, <2>4, <2>5
<1>5. SharedInv'
  BY <1>0, <1>1, <1>2, <1>3 DEF SharedInv
<1> QED BY <1>4, <1>5 DEF RunnerInv

\* A program taken for an orphan is RUNNING in its blob too: where a dying
\* task can write it back, there are no orphans.
LEMMA OrphanRunning ==
    ASSUME Tame, RunnerInv, s.pc \in {"orphans_read", "orphans"}, NEW q \in Programs,
           q \in s.orphans
    PROVE  blob[q] = "RUNNING" /\ At(q) = "RUNNING" /\ q \notin active /\ "mark" \notin Faults
<1>1. At(q) = "RUNNING" /\ q \notin active /\ ~Recovering
  BY InvOf DEF ReadHolds, Recovering
<1>2. q \notin s.batch
  BY InvOf DEF Batched
<1>3. "mark" \notin Faults
  BY <1>1, <1>2, InvOf DEF Owned, Tame, NothingLost
<1> QED BY <1>1, <1>3, InvOf DEF Filed

\* The scheduler reads the blobs of the orphans.
LEMMA OrphansReadInv ==
    ASSUME Tame, TypeOK, RunnerInv, OrphansRead
    PROVE  RunnerInv'
<1>0. s \in Sched /\ SharedInv /\ s.pc = "orphans_read"
  BY DEF TypeOK, OrphansRead, RunnerInv
<1>1. UNCHANGED <<blob, inset, active, task, mem, done_queue, batch, dying, flip, archived, evict>>
  BY DEF OrphansRead, storeVars, taskVars, engineVars
<1>2. /\ s'.launch = s.launch /\ s'.batch = s.batch /\ s'.queued = s.queued
      /\ \/ s'.pc = "launch"
         \/ s'.pc = "orphans" /\ s'.orphans = s.orphans /\ s'.seen = blob
  BY <1>0 DEF OrphansRead, Sched
<1>3. ~Recovering /\ ~Recovering'
  BY <1>0, <1>2 DEF Recovering
<1>4. ASSUME NEW q \in Programs PROVE ProgramInv(q)'
  <2>0. ProgramInv(q) /\ Kept(q) /\ q \notin s.launch /\ q \notin s.batch
    BY <1>0, <1>1, InvOf, NoWrite DEF Tasked, Batched
  <2>1. q \in s.orphans => blob[q] = "RUNNING"
    BY <1>0, OrphanRunning
  <2> USE <1>0, <1>1, <1>2, <1>3, <2>0, <2>1 DEF ProgramInv, Kept
  <2>2. Filed(q)'
    BY DEF Filed
  <2>3. Tasked(q)' /\ Batched(q)'
    BY DEF Tasked, Batched
  <2>4. ReadHolds(q)'
    BY DEF ReadHolds
  <2>5. EngineHolds(q)' /\ Owned(q)'
    BY DEF EngineHolds, Owned
  <2> QED BY <2>2, <2>3, <2>4, <2>5
<1>5. SharedInv'
  BY <1>0, <1>1, <1>2, <1>3 DEF SharedInv
<1> QED BY <1>4, <1>5 DEF RunnerInv

\* It discards an orphan, which is RUNNING and has no task.
LEMMA OrphanDiscardInv ==
    ASSUME Tame, TypeOK, RunnerInv, NEW p \in Programs, OrphanDiscard(p)
    PROVE  RunnerInv'
<1>0. s \in Sched /\ SharedInv /\ s.pc = "orphans" /\ p \in s.orphans /\ StoreTypeOK
  BY DEF TypeOK, OrphanDiscard, RunnerInv
<1>1. UNCHANGED <<active, task, mem, done_queue, batch, dying, flip, archived, evict>>
  BY DEF OrphanDiscard, taskVars, engineVars
<1>2. /\ s'.launch = s.launch /\ s'.batch = s.batch /\ s'.queued = s.queued
      /\ s'.seen = s.seen /\ s'.orphans = s.orphans \ {p}
      /\ s'.pc \in {"launch", "orphans"}
  BY <1>0 DEF OrphanDiscard, Sched
<1>3. ~Recovering /\ ~Recovering'
  BY <1>0, <1>2 DEF Recovering
<1>4. blob[p] = "RUNNING" /\ At(p) = "RUNNING" /\ p \notin active /\ "mark" \notin Faults
  BY <1>0, OrphanRunning
<1>5. ASSUME NEW q \in Programs
      PROVE  Kept(q) \/ (q = p /\ Moved(q, "DISCARDED"))
  <2>1. InOneSet(q)
    BY InvOf
  <2>2. CASE SetDiscarded({p}, s.seen)
    <3>1. s.seen[p] = "RUNNING" /\ {p} \in SUBSET Programs
      BY <1>0, InvOf DEF ReadHolds
    <3>2. q \in {p} => At(q) = s.seen[q]
      BY <1>4, <3>1
    <3> QED BY <1>0, <2>1, <2>2, <3>1, <3>2, DiscardEffect
  <2>3. CASE Raises
    BY <2>1, <2>3, NoWrite DEF Raises
  <2> QED BY <2>2, <2>3 DEF OrphanDiscard
<1>6. ASSUME NEW q \in Programs PROVE ProgramInv(q)'
  <2>0. ProgramInv(q) /\ q \notin s.launch /\ q \notin s.batch
    BY <1>0, InvOf DEF Tasked, Batched
  <2>1. CASE Kept(q)
    <3> USE <1>0, <1>1, <1>2, <1>3, <2>0, <2>1 DEF ProgramInv, Kept
    <3>1. Filed(q)'
      BY DEF Filed
    <3>2. Tasked(q)' /\ Batched(q)'
      BY DEF Tasked, Batched
    <3>3. ReadHolds(q)'
      BY DEF ReadHolds
    <3>4. EngineHolds(q)' /\ Owned(q)'
      BY DEF EngineHolds, Owned
    <3> QED BY <3>1, <3>2, <3>3, <3>4
  <2>2. CASE q = p /\ Moved(q, "DISCARDED")
    <3> USE <1>0, <1>1, <1>2, <1>3, <1>4, <2>0, <2>2 DEF ProgramInv, Moved
    <3>1. Filed(q)'
      BY DEF Filed
    <3>2. Tasked(q)' /\ Batched(q)'
      BY DEF Tasked, Batched
    <3>3. ReadHolds(q)'
      BY DEF ReadHolds
    <3>4. EngineHolds(q)' /\ Owned(q)'
      BY DEF EngineHolds, Owned
    <3> QED BY <3>1, <3>2, <3>3, <3>4
  <2> QED BY <1>5, <2>1, <2>2
<1>7. SharedInv'
  <2>1. \A e \in evict : blob'[e[1]] = blob[e[1]]
    BY <1>0, <1>4, <1>5 DEF SharedInv, Kept, TypeOK
  <2>2. dying = {}
    BY <1>0, <1>4 DEF SharedInv
  <2> QED BY <1>0, <1>1, <1>2, <1>3, <2>1, <2>2 DEF SharedInv
<1> QED BY <1>6, <1>7 DEF RunnerInv

\* A launch works on programs that are QUEUED and have no task.
LEMMA LaunchInv ==
    ASSUME Tame, TypeOK, RunnerInv, Launch
    PROVE  RunnerInv'
<1>0. s \in Sched /\ SharedInv /\ s.pc = "launch" /\ StoreTypeOK /\ s.queued \subseteq Programs
      /\ task \in [Programs -> TaskPC] /\ mem \in [Programs -> Stored]
  BY DEF TypeOK, Launch, RunnerInv, Sched
<1>1. UNCHANGED <<done_queue, batch, dying, flip, archived, evict>>
  BY DEF Launch, engineVars
<1>2. PICK L \in SUBSET (s.queued \ active), B \in SUBSET (s.queued \ active) :
          /\ B \subseteq L
          /\ Attempt(SetDiscarded(B, blob))
          /\ active' = active \cup (L \ B)
          /\ task' = [p \in Programs |-> IF p \in L \ B THEN "waiting" ELSE task[p]]
          /\ mem' = [p \in Programs |-> IF p \in L \ B THEN blob[p] ELSE mem[p]]
          /\ s' = [SchedAt(IF L = B THEN "maintain" ELSE "mark_read") EXCEPT !.launch = L \ B]
  BY DEF Launch
<1>3. /\ s'.launch = L \ B /\ s'.batch = {}
      /\ s'.pc \in {"maintain", "mark_read"}
      /\ L \ B # {} => s'.pc = "mark_read"
  BY <1>2 DEF SchedAt
<1>4. ~Recovering /\ ~Recovering'
  BY <1>0, <1>3 DEF Recovering
<1>5. \A q \in s.queued : At(q) = "QUEUED" /\ blob[q] = "QUEUED"
  BY <1>0, <1>4, InvOf DEF ReadHolds, Filed
<1>6. ASSUME NEW q \in Programs
      PROVE  Kept(q) \/ (q \in B /\ Moved(q, "DISCARDED"))
  <2>1. InOneSet(q) /\ B \in SUBSET Programs
    BY <1>0, InvOf
  <2>2. CASE SetDiscarded(B, blob)
    <3>1. q \in B => At(q) = blob[q]
      BY <1>5
    <3> QED BY <1>0, <2>1, <2>2, <3>1, DiscardEffect
  <2>3. CASE Raises
    BY <2>1, <2>3, NoWrite DEF Raises
  <2> QED BY <1>2, <2>2, <2>3 DEF Attempt
<1>7. ASSUME NEW q \in Programs PROVE ProgramInv(q)'
  <2>0. ProgramInv(q) /\ q \notin s.launch /\ q \notin s.batch
    BY <1>0, InvOf DEF Tasked, Batched
  <2>1. CASE q \in L \ B
    <3>1. /\ Kept(q) /\ At(q) = "QUEUED" /\ blob[q] = "QUEUED" /\ q \notin active
          /\ task'[q] = "waiting" /\ mem'[q] = "QUEUED" /\ q \in active' /\ q \in s'.launch
          /\ s'.pc = "mark_read"
      BY <1>2, <1>3, <1>5, <1>6, <2>1
    <3>2. task[q] = "none"
      BY <2>0, <3>1 DEF ProgramInv, Tasked
    <3> USE <1>1, <1>3, <1>4, <2>0, <3>1, <3>2 DEF ProgramInv, Kept
    <3>3. Filed(q)'
      BY DEF Filed
    <3>4. Tasked(q)'
      BY DEF Tasked
    <3>5. Batched(q)'
      BY DEF Batched
    <3>6. ReadHolds(q)' /\ EngineHolds(q)' /\ Owned(q)'
      BY DEF ReadHolds, EngineHolds, Owned
    <3> QED BY <3>3, <3>4, <3>5, <3>6
  <2>2. CASE q \notin L \ B
    <3>1. /\ task'[q] = task[q] /\ mem'[q] = mem[q] /\ (q \in active' <=> q \in active)
          /\ q \notin s'.launch
          /\ Kept(q) \/ (At(q) = "QUEUED" /\ q \notin active /\ Moved(q, "DISCARDED"))
      BY <1>2, <1>3, <1>5, <1>6, <2>2
    <3> USE <1>1, <1>3, <1>4, <2>0, <3>1 DEF ProgramInv, Kept, Moved
    <3>3. Filed(q)'
      BY DEF Filed
    <3>4. Tasked(q)'
      BY DEF Tasked
    <3>5. Batched(q)'
      BY DEF Batched
    <3>6. ReadHolds(q)' /\ EngineHolds(q)' /\ Owned(q)'
      BY DEF ReadHolds, EngineHolds, Owned
    <3> QED BY <3>3, <3>4, <3>5, <3>6
  <2> QED BY <2>1, <2>2
<1>8. SharedInv'
  <2>1. \A e \in evict : blob'[e[1]] = blob[e[1]]
    BY <1>0, <1>5, <1>6 DEF SharedInv, Kept, TypeOK
  <2>2. \A d \in dying : blob'[d[1]] # "ABSENT"
    BY <1>0, <1>6 DEF SharedInv, TypeOK, Kept, Moved
  <2> QED BY <1>0, <1>1, <1>3, <1>4, <2>1, <2>2 DEF SharedInv
<1> QED BY <1>7, <1>8 DEF RunnerInv

\* Every launched program is still QUEUED when the mark batch reads it.
LEMMA MarkReadInv ==
    ASSUME Tame, TypeOK, RunnerInv, MarkRead
    PROVE  RunnerInv'
<1>0. s \in Sched /\ SharedInv /\ s.pc = "mark_read"
  BY DEF TypeOK, MarkRead, RunnerInv
<1>1. UNCHANGED <<blob, inset, active, task, mem, done_queue, batch, dying, flip, archived, evict>>
  BY DEF MarkRead, storeVars, taskVars, engineVars
<1>2. /\ s'.launch = s.launch /\ s'.batch = s.batch /\ s'.pc = "mark_write"
      /\ s'.mark = {p \in s.launch : blob[p] = "QUEUED"}
  BY <1>0 DEF MarkRead, Sched
<1>3. ~Recovering /\ ~Recovering'
  BY <1>0, <1>2 DEF Recovering
<1>4. ASSUME NEW q \in Programs PROVE ProgramInv(q)'
  <2>0. ProgramInv(q) /\ Kept(q)
    BY <1>1, InvOf, NoWrite
  <2>1. q \in s.launch => blob[q] = "QUEUED"
    BY <1>3, <2>0 DEF ProgramInv, Tasked, Filed
  <2> USE <1>0, <1>1, <1>2, <1>3, <2>0, <2>1 DEF ProgramInv, Kept
  <2>2. Filed(q)'
    BY DEF Filed
  <2>3. Tasked(q)' /\ Batched(q)'
    BY DEF Tasked, Batched
  <2>4. ReadHolds(q)'
    BY DEF ReadHolds
  <2>5. EngineHolds(q)' /\ Owned(q)'
    BY DEF EngineHolds, Owned
  <2> QED BY <2>2, <2>3, <2>4, <2>5
<1>5. SharedInv'
  BY <1>0, <1>1, <1>2, <1>3 DEF SharedInv
<1> QED BY <1>4, <1>5 DEF RunnerInv

\* The launched programs become RUNNING, in storage and in memory.
LEMMA MarkWriteInv ==
    ASSUME Tame, TypeOK, RunnerInv, MarkWrite
    PROVE  RunnerInv'
<1>0. s \in Sched /\ SharedInv /\ s.pc = "mark_write" /\ s.mark \in SUBSET Programs
      /\ StoreTypeOK /\ s.launch \subseteq Programs
  BY DEF TypeOK, MarkWrite, RunnerInv, Sched
<1>1. UNCHANGED <<active, task, done_queue, batch, dying, flip, archived, evict>>
  BY DEF MarkWrite, engineVars
<1>2. s'.launch = {} /\ s'.batch = {} /\ s'.pc = "maintain"
  BY DEF MarkWrite, SchedAt
<1>3. ~Recovering /\ ~Recovering'
  BY <1>0, <1>2 DEF Recovering
<1>4. ASSUME NEW q \in Programs
      PROVE  IF q \in s.launch THEN Moved(q, "RUNNING") /\ At(q) = "QUEUED" ELSE Kept(q)
  <2>1. InOneSet(q) /\ (q \in s.mark <=> q \in s.launch) /\ (q \in s.launch => At(q) = "QUEUED")
    BY <1>0, InvOf DEF ReadHolds, Tasked
  <2>2. "RUNNING" \in Status /\ From("QUEUED")[q] = "QUEUED"
    BY DEF Status, From
  <2>3. Transition(s.mark, From("QUEUED"), "RUNNING")
    BY DEF MarkWrite
  <2> QED BY <1>0, <2>1, <2>2, <2>3, TransitionEffect
<1>5. ASSUME NEW q \in Programs PROVE ProgramInv(q)'
  <2>0. ProgramInv(q) /\ q \notin s.batch
    BY <1>0, InvOf DEF Batched
  <2>1. mem'[q] = IF q \in s.launch THEN "RUNNING" ELSE mem[q]
    BY DEF MarkWrite
  <2> USE <1>0, <1>1, <1>2, <1>3, <1>4, <2>0, <2>1 DEF ProgramInv, Kept, Moved
  <2>2. Filed(q)'
    BY DEF Filed
  <2>3. Tasked(q)'
    BY DEF Tasked
  <2>4. Batched(q)'
    BY DEF Batched
  <2>5. ReadHolds(q)'
    BY DEF ReadHolds
  <2>6. EngineHolds(q)'
    BY DEF EngineHolds, Filed
  <2>7. Owned(q)'
    BY DEF Owned, Tasked
  <2> QED BY <2>2, <2>3, <2>4, <2>5, <2>6, <2>7
<1>6. SharedInv'
  <2>1. \A q \in s.launch : blob[q] = "QUEUED"
    BY <1>0, <1>3, InvOf DEF Tasked, Filed
  <2>2. \A e \in evict : blob'[e[1]] = blob[e[1]]
    BY <1>0, <1>4, <2>1 DEF SharedInv, Kept, TypeOK
  <2>3. \A d \in dying : blob'[d[1]] # "ABSENT"
    BY <1>0, <1>4 DEF SharedInv, TypeOK, Kept, Moved
  <2> QED BY <1>0, <1>1, <1>2, <1>3, <2>2, <2>3 DEF SharedInv
<1> QED BY <1>5, <1>6 DEF RunnerInv

\* A failed mark batch: the programs stay QUEUED, and the tasks that ran leave
\* a late write of QUEUED behind.
LEMMA MarkFailsInv ==
    ASSUME Tame, TypeOK, RunnerInv, MarkFails
    PROVE  RunnerInv'
<1>0. s \in Sched /\ SharedInv /\ s.pc = "mark_write" /\ "mark" \in Faults
      /\ s.launch \subseteq Programs /\ DagsOutlastMark
  BY RunnerAssumption DEF TypeOK, MarkFails, RunnerInv, Sched
<1>1. UNCHANGED <<blob, inset, mem, done_queue, flip, archived, evict>>
  BY DEF MarkFails, storeVars, engineVars
<1>2. s'.launch = {} /\ s'.batch = {} /\ s'.pc = "maintain" /\ active' = active \ s.launch
  BY DEF MarkFails, SchedAt
<1>3. ~Recovering /\ ~Recovering'
  BY <1>0, <1>2 DEF Recovering
<1>4. \A q \in s.launch : mem[q] = "QUEUED" /\ blob[q] = "QUEUED" /\ At(q) = "QUEUED"
                          /\ task[q] # "done"
  BY <1>0, <1>3, InvOf DEF Tasked, Filed
<1>5. ASSUME NEW q \in Programs PROVE ProgramInv(q)'
  <2>0. ProgramInv(q) /\ Kept(q) /\ q \notin s.batch
    BY <1>0, <1>1, InvOf, NoWrite DEF Batched
  <2>1. /\ task'[q] = IF q \in s.launch THEN "none" ELSE task[q]
        /\ batch'[q] = IF q \in s.launch THEN {} ELSE batch[q]
    BY DEF MarkFails
  <2> USE <1>0, <1>1, <1>2, <1>3, <1>4, <2>0, <2>1 DEF ProgramInv, Kept
  <2>2. Filed(q)'
    BY DEF Filed
  <2>3. Tasked(q)'
    BY DEF Tasked
  <2>4. Batched(q)'
    BY DEF Batched
  <2>5. ReadHolds(q)'
    BY DEF ReadHolds
  <2>6. EngineHolds(q)' /\ Owned(q)'
    BY DEF EngineHolds, Owned
  <2> QED BY <2>2, <2>3, <2>4, <2>5, <2>6
<1>6. SharedInv'
  <2>1. \A d \in dying' : d \in dying \/ \E q \in s.launch : d = <<q, mem[q]>>
    BY DEF MarkFails
  <2>2. \A d \in dying' : d[2] = "QUEUED" /\ blob[d[1]] # "ABSENT"
    BY <1>0, <1>4, <2>1 DEF SharedInv
  <2> QED BY <1>0, <1>1, <1>2, <1>3, <2>2 DEF SharedInv
<1> QED BY <1>5, <1>6 DEF RunnerInv

\* A new program has no task and nobody has read it.
LEMMA SubmitInv ==
    ASSUME Tame, TypeOK, RunnerInv, NEW p \in Programs, Submit(p)
    PROVE  RunnerInv'
<1>0. SharedInv /\ StoreTypeOK /\ ~Recovering /\ blob[p] = "ABSENT"
  BY DEF TypeOK, RunnerInv, Submit
<1>1. UNCHANGED <<active, task, mem, done_queue, batch, dying, s, flip, archived, evict>>
  BY DEF Submit, taskVars, engineVars
<1>2. At(p) = "ABSENT" /\ ~Recovering'
  BY <1>0, <1>1, InvOf DEF Filed, Recovering
<1>3. ASSUME NEW q \in Programs
      PROVE  IF q = p THEN Moved(q, "QUEUED") ELSE Kept(q)
  <2>1. InOneSet(q) /\ "QUEUED" \in Status /\ {p} \in SUBSET Programs
    BY InvOf DEF Status
  <2>2. Transition({p}, blob, "QUEUED")
    BY DEF Submit
  <2>3. q \in {p} => At(q) = blob[q]
    BY <1>0, <1>2
  <2>4. IF q \in {p} THEN Moved(q, "QUEUED") ELSE Kept(q)
    BY <1>0, <2>1, <2>2, <2>3, TransitionEffect
  <2> QED BY <2>4
<1>4. ASSUME NEW q \in Programs PROVE ProgramInv(q)'
  <2>0. ProgramInv(q)
    BY InvOf
  <2>1. CASE q # p
    <3>1. Untouched(q)
      BY <1>1, <1>3, <2>1 DEF Untouched
    <3> QED BY <1>1, <2>0, <3>1, UntouchedInv
  <2>2. CASE q = p
    <3> USE <1>0, <1>1, <1>2, <1>3, <2>0, <2>2 DEF ProgramInv, Moved
    <3>1. Filed(q)'
      BY DEF Filed
    <3>2. Tasked(q)' /\ Batched(q)'
      BY DEF Tasked, Batched
    <3>3. ReadHolds(q)'
      BY DEF ReadHolds
    <3>4. EngineHolds(q)' /\ Owned(q)'
      BY DEF EngineHolds, Owned, Tasked
    <3> QED BY <3>1, <3>2, <3>3, <3>4
  <2> QED BY <2>1, <2>2
<1>5. SharedInv'
  <2>1. \A e \in evict : blob'[e[1]] = blob[e[1]]
    BY <1>0, <1>3 DEF SharedInv, Kept, TypeOK
  <2>2. \A d \in dying : blob'[d[1]] # "ABSENT"
    BY <1>0, <1>3 DEF SharedInv, TypeOK, Kept, Moved
  <2> QED BY <1>0, <1>1, <1>2, <2>1, <2>2 DEF SharedInv
<1> QED BY <1>4, <1>5 DEF RunnerInv

\* What the engine only reads or remembers.
LEMMA EngineReadInv ==
    ASSUME Tame, TypeOK, RunnerInv, NEW p \in Programs,
           Archive(p) \/ RefreshRead(p) \/ EvictRead(p)
    PROVE  RunnerInv'
<1>0. SharedInv /\ ~Recovering
  BY DEF RunnerInv, Archive, RefreshRead, EvictRead
<1>1. UNCHANGED <<blob, inset, active, task, mem, done_queue, batch, dying, s>>
  BY DEF Archive, RefreshRead, EvictRead, storeVars, taskVars
<1>2. ~Recovering'
  BY <1>0, <1>1 DEF Recovering
<1>3. \/ /\ blob[p] = "DONE" /\ archived' = archived \cup {p} /\ UNCHANGED <<flip, evict>>
      \/ /\ blob[p] = "DONE" /\ flip' = {p} /\ "evict" \notin Faults
         /\ UNCHANGED <<archived, evict>>
      \/ /\ "evict" \in Faults /\ p \in archived
         /\ archived' = archived \ {p} /\ evict' = {<<p, blob[p]>>} /\ UNCHANGED flip
  BY RunnerAssumption DEF Archive, RefreshRead, EvictRead, Tame, TypeOK
<1>4. ASSUME NEW q \in Programs PROVE ProgramInv(q)'
  <2>0. ProgramInv(q) /\ Kept(q)
    BY <1>1, InvOf, NoWrite
  <2>1. blob[q] = "DONE" => At(q) = "DONE"
    BY <2>0 DEF ProgramInv, Filed
  <2> USE <1>0, <1>1, <1>2, <1>3, <2>0, <2>1 DEF ProgramInv, Kept
  <2>2. Filed(q)'
    BY DEF Filed
  <2>3. Tasked(q)' /\ Batched(q)'
    BY DEF Tasked, Batched
  <2>4. ReadHolds(q)' /\ Owned(q)'
    BY DEF ReadHolds, Owned
  <2>5. EngineHolds(q)'
    BY DEF EngineHolds
  <2> QED BY <2>2, <2>3, <2>4, <2>5
<1>5. SharedInv'
  <2>1. "evict" \in Faults /\ p \in archived => blob[p] \in {"DONE", "DISCARDED"}
    BY InvOf DEF EngineHolds
  <2> QED BY <1>0, <1>1, <1>2, <1>3, <2>1 DEF SharedInv
<1> QED BY <1>4, <1>5 DEF RunnerInv

\* A refresh takes programs that are still DONE back to QUEUED.
LEMMA RefreshWriteInv ==
    ASSUME Tame, TypeOK, RunnerInv, RefreshWrite
    PROVE  RunnerInv'
<1>0. SharedInv /\ StoreTypeOK /\ flip # {} /\ flip \in SUBSET Programs
  BY DEF TypeOK, RunnerInv, RefreshWrite
<1>1. UNCHANGED <<active, task, mem, done_queue, batch, dying, s, archived, evict>> /\ flip' = {}
  BY DEF RefreshWrite, taskVars
<1>2. ~Recovering /\ ~Recovering' /\ "evict" \notin Faults /\ evict = {}
  BY <1>0, <1>1 DEF SharedInv, Recovering
<1>3. ASSUME NEW q \in Programs
      PROVE  IF q \in flip THEN Moved(q, "QUEUED") /\ At(q) = "DONE" ELSE Kept(q)
  <2>1. InOneSet(q) /\ "QUEUED" \in Status /\ From("DONE")[q] = "DONE"
        /\ (q \in flip => At(q) = "DONE")
    BY InvOf DEF Status, From, EngineHolds
  <2>2. Transition(flip, From("DONE"), "QUEUED")
    BY DEF RefreshWrite
  <2> QED BY <1>0, <2>1, <2>2, TransitionEffect
<1>4. ASSUME NEW q \in Programs PROVE ProgramInv(q)'
  <2>0. ProgramInv(q)
    BY InvOf
  <2> USE <1>1, <1>2, <1>3, <2>0 DEF ProgramInv, Kept, Moved
  <2>1. Filed(q)'
    BY DEF Filed
  <2>2. Tasked(q)'
    BY DEF Tasked
  <2>3. Batched(q)'
    BY DEF Batched, Tasked
  <2>4. ReadHolds(q)'
    BY DEF ReadHolds, Recovering
  <2>5. EngineHolds(q)' /\ Owned(q)'
    BY DEF EngineHolds, Owned
  <2> QED BY <2>1, <2>2, <2>3, <2>4, <2>5
<1>5. SharedInv'
  <2>1. \A d \in dying : blob'[d[1]] # "ABSENT"
    BY <1>0, <1>3 DEF SharedInv, TypeOK, Kept, Moved
  <2> QED BY <1>0, <1>1, <1>2, <2>1 DEF SharedInv
<1> QED BY <1>4, <1>5 DEF RunnerInv

\* An eviction discards a program that is still DONE, or already DISCARDED.
LEMMA EvictWriteInv ==
    ASSUME Tame, TypeOK, RunnerInv, EvictWrite
    PROVE  RunnerInv'
<1>0. SharedInv /\ StoreTypeOK
  BY DEF TypeOK, RunnerInv
<1>1. UNCHANGED <<active, task, mem, done_queue, batch, dying, s, archived, flip>> /\ evict' = {}
  BY DEF EvictWrite, taskVars
<1>2. PICK e \in evict : SetDiscarded({e[1]}, From(e[2]))
  BY DEF EvictWrite
<1>3. /\ ~Recovering /\ ~Recovering' /\ "evict" \in Faults /\ "mark" \notin Faults
      /\ flip = {} /\ dying = {}
      /\ e[1] \in Programs /\ e[2] = blob[e[1]] /\ e[2] \in {"DONE", "DISCARDED"}
  BY <1>0, <1>1, <1>2 DEF SharedInv, Recovering, Tame, TypeOK
<1>4. At(e[1]) = blob[e[1]]
  BY <1>3, InvOf DEF Filed
<1>5. ASSUME NEW q \in Programs
      PROVE  IF q = e[1] /\ blob[q] = "DONE" THEN Moved(q, "DISCARDED") ELSE Kept(q)
  <2>1. InOneSet(q) /\ From(e[2])[q] = e[2] /\ {e[1]} \in SUBSET Programs
    BY <1>3, InvOf DEF From
  <2>2. q \in {e[1]} => At(q) = From(e[2])[q]
    BY <1>3, <1>4, <2>1
  <2>3. IF q \in {e[1]} /\ From(e[2])[q] # "DISCARDED" THEN Moved(q, "DISCARDED") ELSE Kept(q)
    BY <1>0, <1>2, <2>1, <2>2, DiscardEffect
  <2> QED BY <1>3, <2>1, <2>3
<1>6. ASSUME NEW q \in Programs PROVE ProgramInv(q)'
  <2>0. ProgramInv(q)
    BY InvOf
  <2>1. CASE ~(q = e[1] /\ blob[q] = "DONE")
    <3>1. Untouched(q)
      BY <1>1, <1>5, <2>1 DEF Untouched
    <3> QED BY <1>1, <2>0, <3>1, UntouchedInv
  <2>2. CASE q = e[1] /\ blob[q] = "DONE"
    <3> USE <1>1, <1>3, <1>4, <1>5, <2>0, <2>2 DEF ProgramInv, Moved
    <3>1. Filed(q)'
      BY DEF Filed
    <3>2. Tasked(q)'
      BY DEF Tasked
    <3>3. Batched(q)'
      BY DEF Batched, Tasked
    <3>4. ReadHolds(q)'
      BY DEF ReadHolds, Recovering
    <3>5. EngineHolds(q)' /\ Owned(q)'
      BY DEF EngineHolds, Owned
    <3> QED BY <3>1, <3>2, <3>3, <3>4, <3>5
  <2> QED BY <2>1, <2>2
<1>7. SharedInv'
  BY <1>0, <1>1, <1>3 DEF SharedInv
<1> QED BY <1>6, <1>7 DEF RunnerInv

\* A crash forgets everything but storage.
LEMMA CrashInv ==
    ASSUME Tame, TypeOK, RunnerInv, Crash
    PROVE  RunnerInv'
<1>0. SharedInv
  BY DEF RunnerInv
<1>1. /\ UNCHANGED <<blob, inset, archived>>
      /\ active' = {} /\ done_queue' = {} /\ dying' = {} /\ flip' = {} /\ evict' = {}
  BY DEF Crash, storeVars
<1>2. /\ s'.pc = "recover" /\ s'.launch = {} /\ s'.batch = {} /\ s'.cur = {}
  BY DEF Crash, SchedAt
<1>3. Recovering'
  BY <1>2 DEF Recovering
<1>4. ASSUME NEW q \in Programs PROVE ProgramInv(q)'
  <2>0. ProgramInv(q) /\ Kept(q)
    BY <1>1, InvOf, NoWrite
  <2>1. task'[q] = "none" /\ batch'[q] = {}
    BY DEF Crash, Idle, NoBatch
  <2> USE <1>1, <1>2, <1>3, <2>0, <2>1 DEF ProgramInv, Kept
  <2>2. Filed(q)'
    BY DEF Filed
  <2>3. Tasked(q)' /\ Batched(q)'
    BY DEF Tasked, Batched
  <2>4. ReadHolds(q)' /\ EngineHolds(q)' /\ Owned(q)'
    BY DEF ReadHolds, EngineHolds, Owned
  <2> QED BY <2>2, <2>3, <2>4
<1>5. SharedInv'
  BY <1>1, <1>2, <1>3 DEF SharedInv
<1> QED BY <1>4, <1>5 DEF RunnerInv

\* The recovery of one program, blob first and status sets afterwards. A second
\* crash in between leaves a program that the next recovery finds RUNNING.
LEMMA RecoverBlobInv ==
    ASSUME Tame, TypeOK, RunnerInv, NEW p \in Programs, RecoverBlob(p)
    PROVE  RunnerInv'
<1>0. s \in Sched /\ SharedInv /\ StoreTypeOK /\ s.pc = "recover" /\ Recovering
  BY DEF TypeOK, RunnerInv, RecoverBlob, Recovering
<1>1. UNCHANGED <<active, task, mem, done_queue, batch, dying, flip, archived, evict>>
  BY DEF RecoverBlob, taskVars, engineVars
<1>2. /\ s'.pc = "recover_move" /\ s'.cur = {p} /\ s'.launch = s.launch /\ s'.batch = s.batch
  BY <1>0 DEF RecoverBlob, Sched
<1>3. Recovering' /\ active = {} /\ done_queue = {} /\ dying = {} /\ flip = {} /\ evict = {}
  BY <1>0, <1>2 DEF Recovering, SharedInv
<1>4. At(p) = "RUNNING" /\ blob[p] \in {"RUNNING", "QUEUED"}
  <2>1. InOneSet(p) /\ "RUNNING" \in Status /\ p \in inset["RUNNING"]
    BY InvOf DEF Status, RecoverBlob
  <2>2. At(p) = "RUNNING"
    BY <2>1, AtSet
  <2> QED BY <2>2, InvOf DEF Filed
<1>5. ASSUME NEW q \in Programs PROVE ProgramInv(q)'
  <2>0. ProgramInv(q) /\ InOneSet(q)
    BY InvOf
  <2>1. /\ InOneSet(q)' /\ At(q)' = At(q)
        /\ blob'[q] = IF q = p THEN "QUEUED" ELSE blob[q]
    BY <1>0, <2>0, ExclusiveEffect DEF RecoverBlob
  <2> USE <1>0, <1>1, <1>2, <1>3, <1>4, <2>0, <2>1 DEF ProgramInv
  <2>2. Filed(q)'
    BY DEF Filed
  <2>3. Tasked(q)' /\ Batched(q)'
    BY DEF Tasked, Batched
  <2>4. ReadHolds(q)' /\ EngineHolds(q)' /\ Owned(q)'
    BY DEF ReadHolds, EngineHolds, Owned
  <2> QED BY <2>2, <2>3, <2>4
<1>6. SharedInv'
  BY <1>0, <1>1, <1>2, <1>3 DEF SharedInv
<1> QED BY <1>5, <1>6 DEF RunnerInv

\* The move between the sets completes the recovery of one program.
LEMMA RecoverMoveInv ==
    ASSUME Tame, TypeOK, RunnerInv, RecoverMove
    PROVE  RunnerInv'
<1>0. /\ s \in Sched /\ SharedInv /\ StoreTypeOK /\ s.pc = "recover_move" /\ Recovering
      /\ s.cur \in SUBSET Programs
  BY DEF TypeOK, RunnerInv, RecoverMove, Recovering, Sched
<1>1. UNCHANGED <<active, task, mem, done_queue, batch, dying, flip, archived, evict>>
  BY DEF RecoverMove, taskVars, engineVars
<1>2. s'.pc = "recover" /\ s'.cur = {} /\ s'.launch = {} /\ s'.batch = {}
  BY DEF RecoverMove, SchedAt
<1>3. Recovering' /\ active = {} /\ done_queue = {} /\ dying = {} /\ flip = {} /\ evict = {}
  BY <1>0, <1>2 DEF Recovering, SharedInv
<1>4. ASSUME NEW q \in Programs
      PROVE  IF q \in s.cur THEN Moved(q, "QUEUED") /\ blob[q] = "QUEUED" ELSE Kept(q)
  <2>1. /\ InOneSet(q) /\ "QUEUED" \in Status /\ From("RUNNING")[q] = "RUNNING"
        /\ q \in s.cur => At(q) = "RUNNING" /\ blob[q] = "QUEUED"
    BY <1>0, InvOf DEF Status, From, ReadHolds
  <2>2. Transition(s.cur, From("RUNNING"), "QUEUED")
    BY DEF RecoverMove
  <2> QED BY <1>0, <2>1, <2>2, TransitionEffect
<1>5. ASSUME NEW q \in Programs PROVE ProgramInv(q)'
  <2>0. ProgramInv(q)
    BY InvOf
  <2> USE <1>0, <1>1, <1>2, <1>3, <1>4, <2>0 DEF ProgramInv, Kept, Moved
  <2>2. Filed(q)'
    BY DEF Filed
  <2>3. Tasked(q)' /\ Batched(q)'
    BY DEF Tasked, Batched
  <2>4. ReadHolds(q)' /\ EngineHolds(q)' /\ Owned(q)'
    BY DEF ReadHolds, EngineHolds, Owned
  <2> QED BY <2>2, <2>3, <2>4
<1>6. SharedInv'
  BY <1>0, <1>1, <1>2, <1>3 DEF SharedInv
<1> QED BY <1>5, <1>6 DEF RunnerInv

\* The recovery ends when no program is left in the RUNNING set.
LEMMA RecoveredInv ==
    ASSUME Tame, TypeOK, RunnerInv, Recovered
    PROVE  RunnerInv'
<1>0. SharedInv /\ s.pc = "recover" /\ Recovering /\ inset["RUNNING"] = {}
  BY DEF RunnerInv, Recovered, Recovering
<1>1. UNCHANGED <<blob, inset, active, task, mem, done_queue, batch, dying, flip, archived, evict>>
  BY DEF Recovered, storeVars, taskVars, engineVars
<1>2. s'.pc = "maintain" /\ s'.launch = {} /\ s'.batch = {}
  BY DEF Recovered, SchedAt
<1>3. ~Recovering' /\ active = {} /\ done_queue = {} /\ dying = {} /\ flip = {} /\ evict = {}
  BY <1>0, <1>2 DEF Recovering, SharedInv
<1>4. ASSUME NEW q \in Programs PROVE ProgramInv(q)'
  <2>0. ProgramInv(q) /\ InOneSet(q) /\ Kept(q) /\ "RUNNING" \in Status
    BY <1>1, InvOf, NoWrite DEF Status
  <2>1. At(q) # "RUNNING"
    BY <1>0, <2>0, AtSet
  <2> USE <1>0, <1>1, <1>2, <1>3, <2>0, <2>1 DEF ProgramInv, Kept
  <2>2. Filed(q)'
    BY DEF Filed
  <2>3. Tasked(q)' /\ Batched(q)'
    BY DEF Tasked, Batched
  <2>4. ReadHolds(q)' /\ EngineHolds(q)' /\ Owned(q)'
    BY DEF ReadHolds, EngineHolds, Owned
  <2> QED BY <2>2, <2>3, <2>4
<1>5. SharedInv'
  BY <1>0, <1>1, <1>2, <1>3 DEF SharedInv
<1> QED BY <1>4, <1>5 DEF RunnerInv

\* Nothing is stored at the start.
LEMMA RunnerInitInv ==
    ASSUME Init
    PROVE  RunnerInv
<1>1. /\ active = {} /\ done_queue = {} /\ dying = {} /\ flip = {} /\ evict = {} /\ archived = {}
      /\ s.pc = "maintain" /\ s.launch = {} /\ s.batch = {}
  BY DEF Init, SchedAt
<1>2. ~Recovering
  BY <1>1 DEF Recovering
<1>3. ASSUME NEW q \in Programs PROVE ProgramInv(q)
  <2>1. blob[q] = "ABSENT" /\ In(q, "ABSENT") /\ "ABSENT" \in Stored
    BY DEF Init, StoreInit, In, Stored, Status
  <2>2. InOneSet(q) /\ At(q) = "ABSENT"
    BY <2>1, AtIn
  <2>3. task[q] = "none" /\ batch[q] = {}
    BY DEF Init, Idle, NoBatch
  <2> QED BY <1>1, <1>2, <2>1, <2>2, <2>3
          DEF ProgramInv, Filed, Tasked, Batched, ReadHolds, EngineHolds, Owned
<1>4. SharedInv
  BY <1>1, <1>2 DEF SharedInv
<1> QED BY <1>3, <1>4 DEF RunnerInv

\* Every step preserves the invariant.
LEMMA RunnerNextInv ==
    ASSUME Tame, TypeOK, RunnerInv, [Next]_vars
    PROVE  RunnerInv'
<1>1. CASE UNCHANGED vars
  <2>1. /\ UNCHANGED <<blob, inset, active, task, mem, done_queue, batch, dying, s>>
        /\ UNCHANGED <<flip, archived, evict>>
    BY <1>1 DEF vars, storeVars, taskVars, engineVars
  <2>2. ASSUME NEW q \in Programs PROVE ProgramInv(q)'
    BY <2>1, InvOf, NoWrite, UntouchedInv DEF Untouched
  <2>3. SharedInv'
    BY <2>1 DEF RunnerInv, SharedInv, Recovering
  <2> QED BY <2>2, <2>3 DEF RunnerInv
<1>2. ASSUME NEW p \in Programs, TaskStep(p) PROVE RunnerInv'
  BY <1>2, TaskStartInv, TaskOkInv, TaskWritesInv DEF TaskStep
<1>3. CASE SchedulerStep
  BY <1>3, MaintainInv, TimedReadInv, TimedWriteInv, TimedNextInv, FlushInv, FetchIdsInv,
     OrphansReadInv, OrphanDiscardInv, LaunchInv, MarkReadInv, MarkWriteInv, MarkFailsInv
     DEF SchedulerStep
<1>4. CASE EngineStep
  BY <1>4, SubmitInv, EngineReadInv, RefreshWriteInv, EvictWriteInv DEF EngineStep
<1>5. CASE RecoveryStep
  BY <1>5, RecoverBlobInv, RecoverMoveInv, RecoveredInv DEF RecoveryStep
<1> QED BY <1>1, <1>2, <1>3, <1>4, <1>5, DyingInv, CrashInv DEF Next

\* The invariant, for every instance that is tame.
LEMMA RunnerInvariant == ASSUME Tame PROVE Spec => [](TypeOK /\ RunnerInv)
<1>1. Init => TypeOK /\ RunnerInv
  BY RunnerInitTypes, RunnerInitInv
<1>2. TypeOK /\ RunnerInv /\ [Next]_vars => (TypeOK /\ RunnerInv)'
  BY RunnerNextTypes, RunnerNextInv
<1> QED BY <1>1, <1>2, PTL DEF Spec

\* Every stored program is in exactly one status set, whatever the number of
\* programs, slots and crashes, and also when mark batches fail.
THEOREM StatusSetsPartition == ASSUME Tame PROVE Spec => []OneStatusSet
<1>1. TypeOK /\ RunnerInv => OneStatusSet
  <2> SUFFICES ASSUME RunnerInv, NEW p \in Programs, blob[p] # "ABSENT"
               PROVE  \E st \in Status : \A u \in Status : p \in inset[u] <=> u = st
    BY DEF OneStatusSet
  <2>1. InOneSet(p) /\ At(p) # "ABSENT"
    BY InvOf DEF Filed
  <2>2. At(p) \in Status /\ In(p, At(p))
    BY <2>1, AtStored DEF Stored
  <2> QED BY <2>2 DEF In
<1> QED BY <1>1, RunnerInvariant, PTL

\* As long as no mark batch fails, engine and scheduler see the same state of
\* every program, except while a recovery moves it.
THEOREM StoresAgree == ASSUME Tame, "mark" \notin Faults PROVE Spec => []BlobAgrees
<1>1. TypeOK /\ RunnerInv => BlobAgrees
  <2> SUFFICES ASSUME RunnerInv, ~Recovering, NEW p \in Programs, NEW st \in Status
               PROVE  p \in inset[st] <=> blob[p] = st
    BY DEF BlobAgrees
  <2>1. InOneSet(p) /\ At(p) = blob[p]
    BY InvOf DEF Filed
  <2> QED BY <2>1, AtSet
<1> QED BY <1>1, RunnerInvariant, PTL

\* A program that waits for a task has no earlier result in the queue or in a
\* batch, which would overwrite what the next evaluation finds.
THEOREM NoLateResults == ASSUME Tame, "mark" \notin Faults PROVE Spec => []ResultsAwaited
<1>1. TypeOK /\ RunnerInv => ResultsAwaited
  <2> SUFFICES ASSUME RunnerInv, NEW p \in Programs, blob[p] = "QUEUED", ~Recovering,
                      p \notin active
               PROVE  p \notin done_queue \cup s.batch \cup UNION {batch[q] : q \in Programs}
    BY DEF ResultsAwaited
  <2>1. At(p) = "QUEUED" /\ task[p] = "none"
    BY InvOf DEF Filed, Tasked
  <2>2. p \notin done_queue /\ p \notin s.batch
    BY <2>1, InvOf DEF Batched
  <2>3. ASSUME NEW q \in Programs PROVE p \notin batch[q]
    BY <2>1, InvOf DEF Tasked
  <2> QED BY <2>2, <2>3
<1> QED BY <1>1, RunnerInvariant, PTL

\* When no write is lost and no task times out, a RUNNING program always has
\* an owner; so the orphan sweep finds nothing to discard.
THEOREM RunningHasOwner ==
    ASSUME Tame, MaxLost = 0, "timeout" \notin Faults PROVE Spec => []RunningOwned
<1>1. TypeOK /\ RunnerInv => RunningOwned
  <2> SUFFICES ASSUME TypeOK, RunnerInv, NEW p \in inset["RUNNING"], ~Recovering
               PROVE  p \in active \cup s.batch
    BY DEF RunningOwned
  <2>1. p \in Programs /\ "RUNNING" \in Status
    BY DEF TypeOK, StoreTypeOK, Status
  <2>2. At(p) = "RUNNING"
    BY <2>1, InvOf, AtSet
  <2> QED BY <2>1, <2>2, InvOf DEF Owned, NothingLost
<1> QED BY <1>1, RunnerInvariant, PTL

\* Under the same conditions the sweep discards no program as an orphan, what
\* test_dag_runner_no_orphans asserts. (With several slots and more programs
\* than slots it does: run false_orphan.)
THEOREM NoFalseOrphans ==
    ASSUME Tame, MaxLost = 0, "timeout" \notin Faults PROVE Spec => []NoOrphans
<1>1. Init => NoOrphans
  BY DEF Init, NoOrphans
<1>2. TypeOK /\ RunnerInv /\ NoOrphans /\ [Next]_vars => NoOrphans'
  <2> SUFFICES ASSUME RunnerInv, NoOrphans, [Next]_vars PROVE NoOrphans'
    OBVIOUS
  <2>1. ASSUME NEW p \in Programs, OrphanDiscard(p) PROVE FALSE
    <3>1. s.pc = "orphans" /\ p \in s.orphans /\ ~Recovering
      BY <2>1 DEF OrphanDiscard, Recovering
    <3>2. At(p) = "RUNNING" /\ p \notin active /\ p \notin s.batch
      BY <3>1, InvOf DEF ReadHolds, Batched
    <3> QED BY <3>1, <3>2, InvOf DEF Owned, NothingLost
  <2>2. CASE UNCHANGED orphaned
    BY <2>2 DEF NoOrphans
  <2>3. ASSUME NEW p \in Programs, TaskStep(p) PROVE UNCHANGED orphaned
    BY <2>3 DEF TaskStep, TaskStart, TaskOk, TaskFlush, TaskFail, TaskDiscard, TaskStopped
  <2>4. ASSUME NEW d \in dying, DyingWrite(d) PROVE UNCHANGED orphaned
    BY <2>4 DEF DyingWrite
  <2>5. CASE SchedulerStep
    BY <2>1, <2>2, <2>5 DEF SchedulerStep, Maintain, TimedRead, TimedWrite, TimedNext, Flush,
       FetchIds, OrphansRead, Launch, MarkRead, MarkWrite, MarkFails
  <2>6. CASE EngineStep \/ Crash \/ RecoveryStep \/ UNCHANGED vars
    BY <2>2, <2>6 DEF EngineStep, Submit, Archive, RefreshRead, EvictRead, RefreshWrite,
       EvictWrite, Crash, RecoveryStep, RecoverBlob, RecoverMove, Recovered, vars
  <2> QED BY <2>2, <2>3, <2>4, <2>5, <2>6 DEF Next
<1> QED BY <1>1, <1>2, RunnerInvariant, PTL DEF Spec

-----------------------------------------------------------------------------
(***************************************************************************)
(* DagRunner implements ProgramLifecycle. A write that does not change the *)
(* blob, and every step without one, is a stutter; the others are moves    *)
(* along VALID_TRANSITIONS because the state the writer started from is    *)
(* still the stored one, which is what RunnerInv says.                     *)
(***************************************************************************)
LifeStep == Lifecycle!Next \/ UNCHANGED Lifecycle!vars

\* A step that changes no blob and neither ends nor begins a process.
LEMMA LifeStays ==
    ASSUME UNCHANGED blob, Recovering' <=> Recovering
    PROVE  LifeStep
<1>1. (~Recovering)' = ~Recovering
  BY DEF Recovering
<1> QED BY <1>1 DEF LifeStep, Lifecycle!vars

\* A batch of programs moves to one new state.
LEMMA LifeMoves ==
    ASSUME ~Recovering, ~Recovering', NEW P \in SUBSET Programs, NEW old, NEW new \in Status,
           Transition(P, old, new),
           \A p \in P : blob[p] # "ABSENT" /\ new \in Lifecycle!ValidTransitions[blob[p]]
    PROVE  LifeStep
<1>1. new \in DOMAIN Lifecycle!ValidTransitions
  BY DEF Status, Lifecycle!ValidTransitions
<1>2. (~Recovering)' = ~Recovering
  BY DEF Recovering
<1>3. Lifecycle!Move(P, new)
  BY <1>2 DEF Lifecycle!Move, Transition
<1> QED BY <1>1, <1>3 DEF LifeStep, Lifecycle!Next

\* Programs are discarded by somebody who knows their state.
LEMMA LifeDiscards ==
    ASSUME StoreTypeOK, ~Recovering, ~Recovering', NEW P \in SUBSET Programs, NEW seen,
           SetDiscarded(P, seen), \A p \in P : seen[p] = blob[p] /\ blob[p] # "ABSENT"
    PROVE  LifeStep
<1> DEFINE W == {p \in P : seen[p] # "DISCARDED"}
<1>1. W \in SUBSET Programs /\ "DISCARDED" \in Status /\ Transition(W, seen, "DISCARDED")
  BY DEF Status, SetDiscarded
<1>2. \A p \in W : blob[p] \in {"QUEUED", "RUNNING", "DONE"}
  BY DEF StoreTypeOK, Status
<1>3. \A p \in W : "DISCARDED" \in Lifecycle!ValidTransitions[blob[p]]
  BY <1>2 DEF Lifecycle!ValidTransitions
<1> QED BY <1>1, <1>2, <1>3, LifeMoves

\* A batch of RUNNING programs becomes DONE.
LEMMA LifeDone ==
    ASSUME ~Recovering, ~Recovering', NEW P \in SUBSET Programs, WriteDone(P),
           \A p \in P : blob[p] = "RUNNING"
    PROVE  LifeStep
<1>1. "DONE" \in Status /\ "DONE" \in Lifecycle!ValidTransitions["RUNNING"]
  BY DEF Status, Lifecycle!ValidTransitions
<1> QED BY <1>1, LifeMoves DEF WriteDone

\* While a process is at work and no mark batch fails, blobs are in their sets.
LEMMA StoredAt ==
    ASSUME RunnerInv, "mark" \notin Faults, ~Recovering, NEW q \in Programs
    PROVE  blob[q] = At(q)
BY InvOf DEF Filed

\* The writes of one task.
LEMMA WriterLives ==
    ASSUME TypeOK, RunnerInv, "mark" \notin Faults, NEW p \in Programs, task[p] \in Holding,
           p \notin s.launch, ~Recovering',
           \/ task[p] = "flushing" /\ WriteDone(batch[p])
           \/ task[p] = "failing" /\ SetDiscarded({p}, mem)
           \/ WriteExclusive(p, mem[p]) \/ UNCHANGED blob
    PROVE  LifeStep
<1>0. ~Recovering /\ blob[p] = "RUNNING" /\ mem[p] = "RUNNING" /\ StoreTypeOK
      /\ {p} \in SUBSET Programs
  BY WriterAlone DEF TypeOK
<1>1. CASE task[p] = "flushing" /\ WriteDone(batch[p])
  <2>1. batch[p] = {p}
    BY <1>1, InvOf DEF Tasked
  <2> QED BY <1>0, <1>1, <2>1, LifeDone
<1>2. CASE task[p] = "failing" /\ SetDiscarded({p}, mem)
  BY <1>0, <1>2, LifeDiscards
<1>3. CASE WriteExclusive(p, mem[p]) \/ UNCHANGED blob
  <2>1. UNCHANGED blob
    BY <1>0, <1>3 DEF WriteExclusive, StoreTypeOK
  <2> QED BY <1>0, <2>1, LifeStays
<1> QED BY <1>1, <1>2, <1>3

\* The steps of a task.
LEMMA TaskLives ==
    ASSUME Tame, TypeOK, RunnerInv, "mark" \notin Faults, NEW p \in Programs, TaskStep(p)
    PROVE  LifeStep
<1>0. Recovering' <=> Recovering
  BY DEF TaskStep, TaskStart, TaskOk, TaskFlush, TaskFail, TaskDiscard, TaskStopped, Recovering
<1>1. CASE TaskStart(p) \/ TaskOk(p)
  BY <1>0, <1>1, LifeStays DEF TaskStart, TaskOk, storeVars
<1>2. CASE TaskFlush(p) \/ TaskFail(p) \/ TaskDiscard(p) \/ TaskStopped(p)
  <2>1. task[p] \in {"flushing", "failing", "stopping"} \/ (MayEnd(p) /\ "fail" \in Faults)
    BY <1>2 DEF TaskFlush, TaskFail, TaskDiscard, TaskStopped
  <2>2. p \notin s.launch /\ task[p] \in Holding
    BY <2>1, LaunchedWaits DEF MayEnd, Holding
  <2>3. ~Recovering'
    BY <1>0, <2>2, WriterAlone
  <2>4. \/ task[p] = "flushing" /\ WriteDone(batch[p])
        \/ task[p] = "failing" /\ SetDiscarded({p}, mem)
        \/ WriteExclusive(p, mem[p]) \/ UNCHANGED blob
    BY <1>2 DEF TaskFlush, TaskFail, TaskDiscard, TaskStopped, Attempt, Raises
  <2> QED BY <2>2, <2>3, <2>4, WriterLives
<1> QED BY <1>1, <1>2 DEF TaskStep

\* The steps of the scheduler.
LEMMA SchedulerLives ==
    ASSUME Tame, TypeOK, RunnerInv, "mark" \notin Faults, SchedulerStep
    PROVE  LifeStep
<1>0. s \in Sched /\ StoreTypeOK /\ active \subseteq Programs /\ SharedInv
  BY DEF TypeOK, RunnerInv
<1>1. ~Recovering
  BY DEF SchedulerStep, Maintain, TimedRead, TimedWrite, TimedNext, Flush, FetchIds, OrphansRead,
     OrphanDiscard, Launch, MarkRead, MarkWrite, MarkFails, Recovering
<1>2. CASE Maintain
  <2>1. CASE Harvest({p \in active : task[p] = "done"}) /\ UNCHANGED <<storeVars, batch>>
    <3>1. ~Recovering'
      BY <1>0, <2>1 DEF Harvest, Recovering, Sched
    <3> QED BY <1>1, <2>1, <3>1, LifeStays DEF storeVars
  <2>2. ASSUME NEW p \in active, task[p] \in Holding, CancelTask(p), s'.pc = "cancelling"
        PROVE  LifeStep
    <3>1. p \in Programs /\ p \notin s.launch
      BY <1>0, <1>2, InvOf DEF Tasked, Maintain
    <3>2. ~Recovering'
      BY <2>2 DEF Recovering
    <3>3. \/ task[p] = "flushing" /\ WriteDone(batch[p])
          \/ task[p] = "failing" /\ SetDiscarded({p}, mem)
          \/ UNCHANGED blob
      BY <2>2 DEF CancelTask, storeVars
    <3> QED BY <2>2, <3>1, <3>2, <3>3, WriterLives
  <2>3. ASSUME NEW T \in SUBSET {p \in active : task[p] \in Holding}, NEW p \in T, CancelTask(p),
               s' = [s EXCEPT !.pc = "cancelling", !.fin = {r \in active : task[r] = "done"},
                              !.timed = T \ {p}, !.cur = {p}]
        PROVE  LifeStep
    <3>1. s'.pc = "cancelling"
      BY <1>0, <2>3 DEF Sched
    <3> QED BY <2>2, <2>3, <3>1
  <2> QED BY <1>2, <2>1, <2>3 DEF Maintain
<1>3. CASE TimedRead \/ FetchIds \/ OrphansRead \/ MarkRead \/ MarkFails
  <2>1. UNCHANGED blob
    BY <1>3 DEF TimedRead, FetchIds, OrphansRead, MarkRead, MarkFails, storeVars
  <2>2. s'.pc \in {"timed", "timed_write", "launch", "orphans_read", "maintain", "orphans",
                   "mark_write"}
    BY <1>0, <1>3 DEF TimedRead, FetchIds, OrphansRead, MarkRead, MarkFails, SchedAt, Sched
  <2>3. ~Recovering'
    BY <2>2 DEF Recovering
  <2> QED BY <1>1, <2>1, <2>3, LifeStays
<1>4. CASE TimedWrite
  <2>1. ~Recovering'
    BY <1>0, <1>4 DEF TimedWrite, Sched, Recovering
  <2>2. CASE SetDiscarded(s.cur, s.seen)
    <3>1. s.pc = "timed_write" /\ s.cur \in SUBSET Programs
      BY <1>0, <1>4 DEF TimedWrite, Sched
    <3>2. \A p \in s.cur : s.seen[p] = blob[p] /\ blob[p] # "ABSENT"
      BY <1>1, <3>1, StoredAt, InvOf DEF ReadHolds
    <3> QED BY <1>0, <1>1, <2>1, <2>2, <3>1, <3>2, LifeDiscards
  <2>3. CASE UNCHANGED blob
    BY <1>1, <2>1, <2>3, LifeStays
  <2> QED BY <1>4, <2>2, <2>3 DEF TimedWrite, Attempt, Raises
<1>5. CASE TimedNext
  <2>1. s.timed = {}
    BY <1>5, TimedContext DEF TimedNext
  <2>2. Harvest(s.fin) /\ UNCHANGED blob
    BY <1>5, <2>1 DEF TimedNext, storeVars
  <2>3. ~Recovering'
    BY <1>0, <2>2 DEF Harvest, Recovering, Sched
  <2> QED BY <1>1, <2>2, <2>3, LifeStays
<1>6. CASE Flush
  <2>1. ~Recovering'
    BY <1>0, <1>6 DEF Flush, Sched, Recovering
  <2>2. CASE WriteDone(s.batch)
    <3>1. s.batch \in SUBSET Programs
      BY <1>0 DEF Sched
    <3>2. \A p \in s.batch : blob[p] = "RUNNING"
      BY <1>1, <3>1, StoredAt, InvOf DEF Batched
    <3> QED BY <1>1, <2>1, <2>2, <3>1, <3>2, LifeDone
  <2>3. CASE UNCHANGED blob
    BY <1>1, <2>1, <2>3, LifeStays
  <2> QED BY <1>6, <2>2, <2>3 DEF Flush, Attempt, Raises
<1>7. ASSUME NEW p \in Programs, OrphanDiscard(p) PROVE LifeStep
  <2>1. ~Recovering'
    BY <1>0, <1>7 DEF OrphanDiscard, Sched, Recovering
  <2>2. CASE SetDiscarded({p}, s.seen)
    <3>1. s.seen[p] = "RUNNING" /\ blob[p] = "RUNNING" /\ {p} \in SUBSET Programs
      BY <1>7, OrphanRunning, InvOf DEF OrphanDiscard, ReadHolds
    <3> QED BY <1>0, <1>1, <2>1, <2>2, <3>1, LifeDiscards
  <2>3. CASE UNCHANGED blob
    BY <1>1, <2>1, <2>3, LifeStays
  <2> QED BY <1>7, <2>2, <2>3 DEF OrphanDiscard, Raises
<1>8. CASE Launch
  <2>1. ~Recovering'
    BY <1>8 DEF Launch, SchedAt, Recovering
  <2>2. ASSUME NEW B \in SUBSET (s.queued \ active), SetDiscarded(B, blob) PROVE LifeStep
    <3>1. s.pc = "launch" /\ s.queued \in SUBSET Programs
      BY <1>0, <1>8 DEF Launch, Sched
    <3>2. \A p \in B : blob[p] = "QUEUED"
      BY <1>1, <2>2, <3>1, StoredAt, InvOf DEF ReadHolds
    <3>3. B \in SUBSET Programs
      BY <2>2, <3>1
    <3> QED BY <1>0, <1>1, <2>1, <2>2, <3>2, <3>3, LifeDiscards
  <2>3. CASE UNCHANGED blob
    BY <1>1, <2>1, <2>3, LifeStays
  <2> QED BY <1>8, <2>2, <2>3 DEF Launch, Attempt, Raises
<1>9. CASE MarkWrite
  <2>1. ~Recovering'
    BY <1>9 DEF MarkWrite, SchedAt, Recovering
  <2>2. s.mark \in SUBSET Programs /\ s.pc = "mark_write"
    BY <1>0, <1>9 DEF Sched, MarkWrite
  <2>3. \A p \in s.mark : blob[p] = "QUEUED"
    BY <1>1, <2>2, StoredAt, InvOf DEF ReadHolds, Tasked
  <2>4. "RUNNING" \in Status /\ "RUNNING" \in Lifecycle!ValidTransitions["QUEUED"]
    BY DEF Status, Lifecycle!ValidTransitions
  <2>5. Transition(s.mark, From("QUEUED"), "RUNNING")
    BY <1>9 DEF MarkWrite
  <2> QED BY <1>1, <2>1, <2>2, <2>3, <2>4, <2>5, LifeMoves
<1> QED BY <1>2, <1>3, <1>4, <1>5, <1>6, <1>7, <1>8, <1>9 DEF SchedulerStep

\* The steps of the engine.
LEMMA EngineLives ==
    ASSUME Tame, TypeOK, RunnerInv, "mark" \notin Faults, EngineStep
    PROVE  LifeStep
<1>0. StoreTypeOK /\ SharedInv /\ evict \subseteq Programs \X Stored /\ flip \in SUBSET Programs
  BY DEF TypeOK, RunnerInv
<1>s. s' = s
  BY DEF EngineStep, Submit, Archive, RefreshRead, EvictRead, RefreshWrite, EvictWrite
<1>r. Recovering' <=> Recovering
  BY <1>s DEF Recovering
<1>1. ASSUME NEW p \in Programs, Submit(p) PROVE LifeStep
  <2>1. ~Recovering /\ (~Recovering)' = ~Recovering
    BY <1>1, <1>s DEF Submit, Recovering
  <2>2. blob[p] = "ABSENT" /\ blob' = [blob EXCEPT ![p] = "QUEUED"]
    BY <1>0, <1>1 DEF Submit, Transition, StoreTypeOK
  <2>3. Lifecycle!Add(p)
    BY <2>1, <2>2 DEF Lifecycle!Add
  <2> QED BY <2>3 DEF LifeStep, Lifecycle!Next
<1>2. ASSUME NEW p \in Programs, Archive(p) \/ RefreshRead(p) \/ EvictRead(p) PROVE LifeStep
  BY <1>2, <1>r, LifeStays DEF Archive, RefreshRead, EvictRead, storeVars
<1>3. CASE RefreshWrite
  <2>1. ~Recovering /\ ~Recovering'
    BY <1>0, <1>3, <1>r DEF RefreshWrite, SharedInv
  <2>2. \A p \in flip : blob[p] = "DONE"
    BY <1>0, <2>1, StoredAt, InvOf DEF EngineHolds
  <2>3. "QUEUED" \in Status /\ "QUEUED" \in Lifecycle!ValidTransitions["DONE"]
    BY DEF Status, Lifecycle!ValidTransitions
  <2>4. Transition(flip, From("DONE"), "QUEUED")
    BY <1>3 DEF RefreshWrite
  <2> QED BY <1>0, <2>1, <2>2, <2>3, <2>4, LifeMoves
<1>4. CASE EvictWrite
  <2>1. PICK e \in evict : SetDiscarded({e[1]}, From(e[2]))
    BY <1>4 DEF EvictWrite
  <2>2. ~Recovering /\ ~Recovering'
    BY <1>0, <1>r, <2>1 DEF SharedInv
  <2>3. e[1] \in Programs /\ e[2] = blob[e[1]] /\ e[2] # "ABSENT" /\ From(e[2])[e[1]] = e[2]
    BY <1>0, <2>1 DEF SharedInv, From
  <2>4. {e[1]} \in SUBSET Programs
    BY <2>3
  <2> QED BY <1>0, <2>1, <2>2, <2>3, <2>4, LifeDiscards
<1> QED BY <1>1, <1>2, <1>3, <1>4 DEF EngineStep

\* A crash ends the process, if one was at work.
LEMMA CrashLives ==
    ASSUME TypeOK, Crash
    PROVE  LifeStep
<1>1. Recovering' /\ UNCHANGED blob
  BY DEF Crash, SchedAt, Recovering, storeVars
<1>2. CASE Recovering
  BY <1>1, <1>2, LifeStays
<1>3. CASE ~Recovering
  <2>1. (~Recovering)' = FALSE
    BY <1>1 DEF Recovering
  <2>2. Lifecycle!Die
    BY <1>1, <1>3, <2>1 DEF Lifecycle!Die
  <2> QED BY <2>2 DEF LifeStep, Lifecycle!Next
<1> QED BY <1>2, <1>3

\* A recovery requeues what is RUNNING, or finds what an interrupted one has
\* written, and ends when nothing is RUNNING.
LEMMA RecoveryLives ==
    ASSUME TypeOK, RunnerInv, "mark" \notin Faults, RecoveryStep
    PROVE  LifeStep
<1>0. s \in Sched /\ StoreTypeOK
  BY DEF TypeOK
<1>1. ASSUME NEW p \in Programs, RecoverBlob(p) PROVE LifeStep
  <2>1. Recovering /\ Recovering' /\ (~Recovering)' = ~Recovering
    BY <1>0, <1>1 DEF RecoverBlob, Recovering, Sched
  <2>2. At(p) = "RUNNING"
    BY <1>1, InvOf, AtSet DEF RecoverBlob, Status
  <2>3. blob' = [blob EXCEPT ![p] = "QUEUED"]
    BY <1>1 DEF RecoverBlob, WriteExclusive
  <2>4. CASE blob[p] = "RUNNING"
    <3>1. Lifecycle!Requeue(p)
      BY <2>1, <2>3, <2>4 DEF Lifecycle!Requeue
    <3> QED BY <3>1 DEF LifeStep, Lifecycle!Next
  <2>5. CASE blob[p] = "QUEUED"
    <3>1. UNCHANGED blob
      BY <1>0, <2>3, <2>5 DEF StoreTypeOK
    <3> QED BY <2>1, <3>1, LifeStays
  <2> QED BY <2>2, <2>4, <2>5, InvOf DEF Filed
<1>2. CASE RecoverMove
  <2>1. s.pc = "recover_move" /\ Recovering /\ Recovering'
    BY <1>2 DEF RecoverMove, Recovering, SchedAt
  <2>2. \A p \in s.cur : p \in Programs /\ blob[p] = "QUEUED"
    BY <1>0, <2>1, InvOf DEF Sched, ReadHolds
  <2>3. UNCHANGED blob
    BY <1>0, <1>2, <2>2 DEF RecoverMove, Transition, StoreTypeOK
  <2> QED BY <2>1, <2>3, LifeStays
<1>3. CASE Recovered
  <2>1. Recovering /\ (~Recovering)' = TRUE /\ UNCHANGED blob /\ inset["RUNNING"] = {}
    BY <1>3 DEF Recovered, Recovering, SchedAt, storeVars
  <2>2. ASSUME NEW p \in Programs PROVE blob[p] # "RUNNING"
    BY <2>1, InvOf, AtSet DEF Filed, Status
  <2>3. Lifecycle!Restart
    BY <2>1, <2>2 DEF Lifecycle!Restart
  <2> QED BY <2>3 DEF LifeStep, Lifecycle!Next
<1> QED BY <1>1, <1>2, <1>3 DEF RecoveryStep

\* Every step is a step of the life cycle or leaves it alone.
LEMMA NextLives ==
    ASSUME Tame, TypeOK, RunnerInv, "mark" \notin Faults, [Next]_vars
    PROVE  LifeStep
<1>1. CASE UNCHANGED vars
  <2>1. UNCHANGED blob /\ (Recovering' <=> Recovering)
    BY <1>1 DEF vars, storeVars, Recovering
  <2> QED BY <2>1, LifeStays
<1>2. dying = {}
  BY DEF RunnerInv, SharedInv
<1> QED
  BY <1>1, <1>2, TaskLives, SchedulerLives, EngineLives, CrashLives, RecoveryLives DEF Next

\* As long as no mark batch fails, every write moves stored programs along
\* VALID_TRANSITIONS, and a restarted process begins with none RUNNING.
THEOREM LifecycleImplemented ==
    ASSUME Tame, "mark" \notin Faults PROVE Spec => ImplementsLifecycle
<1>1. Init => Lifecycle!Init
  <2> SUFFICES ASSUME Init PROVE Lifecycle!Init
    OBVIOUS
  <2>1. (~Recovering) = TRUE
    BY DEF Init, SchedAt, Recovering
  <2> QED BY <2>1 DEF Init, StoreInit, Lifecycle!Init
<1>2. TypeOK /\ RunnerInv /\ [Next]_vars => [Lifecycle!Next]_(Lifecycle!vars)
  BY NextLives DEF LifeStep
<1> QED BY <1>1, <1>2, RunnerInvariant, PTL DEF Spec, ImplementsLifecycle, Lifecycle!Spec

\* From the life cycle: nothing leads back from DISCARDED, so no late write of a
\* task, a batch, an eviction or a recovery revives a discarded program.
THEOREM DiscardedStaysSo ==
    ASSUME Tame, "mark" \notin Faults PROVE Spec => DiscardedIsFinal
<1>1. TypeOK /\ RunnerInv /\ [Next]_vars =>
        [\A p \in Programs : blob[p] = "DISCARDED" => blob'[p] = "DISCARDED"]_vars
  <2> SUFFICES ASSUME TypeOK, RunnerInv, [Next]_vars, NEW p \in Programs, blob[p] = "DISCARDED"
               PROVE  blob'[p] = "DISCARDED"
    OBVIOUS
  <2>1. LifeStep
    BY NextLives
  <2>2. CASE UNCHANGED Lifecycle!vars
    BY <2>2 DEF Lifecycle!vars
  <2>3. ASSUME NEW q \in Programs, Lifecycle!Add(q) \/ Lifecycle!Requeue(q)
        PROVE  blob'[p] = "DISCARDED"
    BY <2>3 DEF Lifecycle!Add, Lifecycle!Requeue, TypeOK, StoreTypeOK
  <2>4. ASSUME NEW P \in SUBSET Programs, NEW new, Lifecycle!Move(P, new)
        PROVE  blob'[p] = "DISCARDED"
    <3>1. Lifecycle!ValidTransitions["DISCARDED"] = {}
      BY DEF Lifecycle!ValidTransitions
    <3> QED BY <2>4, <3>1 DEF Lifecycle!Move
  <2>5. CASE Lifecycle!Die \/ Lifecycle!Restart
    BY <2>5 DEF Lifecycle!Die, Lifecycle!Restart
  <2> QED BY <2>1, <2>2, <2>3, <2>4, <2>5 DEF LifeStep, Lifecycle!Next
<1> QED BY <1>1, RunnerInvariant, PTL DEF Spec, DiscardedIsFinal

=============================================================================
