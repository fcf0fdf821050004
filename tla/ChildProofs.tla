---------------------------- MODULE ChildProofs ----------------------------
(***************************************************************************)
(* Every child is counted once and none is lost, production ends before    *)
(* ingestion and at the cap, for every instance of SteadyState.            *)
(***************************************************************************)
EXTENDS SteadyStateProofs

-----------------------------------------------------------------------------
(***************************************************************************)
(* Accounting. A poll works on children in flight, so what it counts as    *)
(* processed it also settles.                                              *)
(***************************************************************************)
CountInvariant == PollWithin /\ Accounting

counters == <<in_flight, settled, mutations_created, programs_processed>>
pollVars == <<cand, todo, handled, leaked>>

\* The handoff of a child counts it.
LEMMA HandoffCounts ==
    ASSUME TypeOK, SlotInvariant, CountInvariant, NEW t \in Tasks, Handoff(t)
    PROVE  CountInvariant'
<1>1. t \notin in_flight \cup settled
  BY DEF Handoff, SlotInvariant, HandedOver
<1>2. /\ in_flight' = in_flight \cup {t} /\ settled' = settled
      /\ mutations_created' = mutations_created + 1
      /\ programs_processed' = programs_processed /\ UNCHANGED pollVars
  BY DEF Handoff, ingVars, pollVars
<1>3. PollWithin'
  BY <1>2 DEF CountInvariant, PollWithin, pollVars
<1>4. /\ IsFiniteSet(in_flight) /\ Cardinality(in_flight) \in Nat
      /\ Cardinality(settled) \in Nat
  BY TaskSets DEF TypeOK
<1>5. Cardinality(in_flight') = Cardinality(in_flight) + 1
  BY <1>1, <1>2, <1>4, FS_AddElement
<1>6. Accounting'
  BY <1>1, <1>2, <1>4, <1>5 DEF CountInvariant, Accounting, TypeOK
<1> QED BY <1>3, <1>6 DEF CountInvariant

\* The release at the end of a poll settles what it counted.
LEMMA ReleaseCounts ==
    ASSUME TypeOK, CountInvariant, Release
    PROVE  CountInvariant'
<1>1. /\ Released = handled \cup leaked /\ Released \subseteq in_flight
      /\ Released \subseteq Tasks /\ handled \subseteq Tasks
  BY DEF CountInvariant, PollWithin, Released, TypeOK
<1>2. /\ in_flight' = in_flight \ Released /\ settled' = settled \cup Released
      /\ mutations_created' = mutations_created
      /\ programs_processed' = programs_processed + Cardinality(handled)
      /\ cand' = {} /\ todo' = {} /\ handled' = {} /\ leaked' = {}
  BY DEF Release, ForgetPoll
<1>3. PollWithin'
  BY <1>2 DEF PollWithin
<1>4. /\ IsFiniteSet(in_flight) /\ IsFiniteSet(settled) /\ IsFiniteSet(Released)
      /\ Cardinality(in_flight) \in Nat /\ Cardinality(settled) \in Nat
      /\ Cardinality(Released) \in Nat /\ Cardinality(handled) \in Nat
  BY <1>1, TaskSets DEF TypeOK
<1>5. Cardinality(in_flight') = Cardinality(in_flight) - Cardinality(Released)
  <2>1. in_flight \cap Released = Released
    BY <1>1
  <2>2. Cardinality(in_flight \ Released)
          = Cardinality(in_flight) - Cardinality(in_flight \cap Released)
    BY <1>4, FS_Difference, Zenon
  <2> QED BY <1>2, <2>1, <2>2
<1>6. Cardinality(settled') = Cardinality(settled) + Cardinality(Released)
  <2>1. settled \cap Released = {}
    BY <1>1 DEF CountInvariant, Accounting
  <2>2. Cardinality(settled \cup Released)
          = Cardinality(settled) + Cardinality(Released) - Cardinality(settled \cap Released)
    BY <1>4, FS_Union, Zenon
  <2>3. Cardinality(settled \cap Released) = 0
    BY <2>1, FS_EmptySet
  <2> QED BY <1>2, <1>4, <2>2, <2>3
<1>7. Cardinality(handled) <= Cardinality(Released)
  BY <1>1, <1>4, FS_Subset
<1>8. Accounting'
  BY <1>1, <1>2, <1>4, <1>5, <1>6, <1>7 DEF CountInvariant, Accounting, TypeOK
<1> QED BY <1>3, <1>8 DEF CountInvariant

\* Any other step leaves the counters alone and keeps the poll within in_flight.
LEMMA OthersCount ==
    ASSUME CountInvariant, UNCHANGED counters,
           (cand \cup todo \cup handled \cup leaked)'
              \subseteq cand \cup todo \cup handled \cup leaked \cup in_flight
    PROVE  CountInvariant'
BY DEF CountInvariant, PollWithin, Accounting, counters

\* A step of a producer task preserves the accounting.
LEMMA TaskCounts ==
    ASSUME TypeOK, SlotInvariant, CountInvariant, NEW t \in Tasks, TaskStep(t)
    PROVE  CountInvariant'
<1>1. CASE Handoff(t)
  BY <1>1, HandoffCounts
<1>2. CASE ~Handoff(t)
  <2>1. UNCHANGED counters /\ UNCHANGED pollVars
    BY <1>2 DEF TaskStep, SelectParents, AcquireLock, Quiesced, FlipRead, FlipWrite,
       Refreshed, ReadFresh, RefreshFails, LLMReturns, Persist, ReturnChild,
       HandoffDone, HandoffWriteFails, CancelDelivered, Quit, ReturnRefreshed,
       counters, pollVars, slotVars, ingVars
  <2> QED BY <2>1, OthersCount DEF pollVars
<1> QED BY <1>1, <1>2

\* A step of the ingestor preserves the accounting.
LEMMA IngestorCounts ==
    ASSUME TypeOK, CountInvariant, IngestorStep
    PROVE  CountInvariant'
<1>1. CASE Release
  BY <1>1, ReleaseCounts
<1>2. CASE Fetch
  <2>1. UNCHANGED counters
    BY <1>2 DEF Fetch, counters, slotVars
  <2>2. CASE ForgetPoll
    BY <2>1, <2>2, OthersCount DEF ForgetPoll
  <2>3. CASE leaked' \subseteq cand /\ todo' \subseteq cand /\ cand' = {} /\ handled' = handled
    BY <2>1, <2>3, OthersCount
  <2>4. ForgetPoll \/ (leaked' \subseteq cand /\ todo' \subseteq cand /\ cand' = {} /\ handled' = handled)
    BY <1>2 DEF Fetch
  <2> QED BY <2>2, <2>3, <2>4
<1>3. CASE Poll \/ IngestorExits \/ Batch \/ BatchDone \/ DiscardRejects \/ PollSnapshot
           \/ \E c \in Tasks : IngestOne(c) \/ OutcomeRaises(c)
  <2>1. UNCHANGED counters
    BY <1>3 DEF Poll, IngestorExits, Batch, BatchDone, DiscardRejects, PollSnapshot,
       IngestOne, OutcomeRaises, counters, slotVars
  <2>2. (cand \cup todo \cup handled \cup leaked)'
           \subseteq cand \cup todo \cup handled \cup leaked \cup in_flight
    BY <1>3 DEF Poll, IngestorExits, Batch, BatchDone, DiscardRejects, PollSnapshot,
       IngestOne, OutcomeRaises, ForgetPoll
  <2> QED BY <2>1, <2>2, OthersCount
<1> QED BY <1>1, <1>2, <1>3 DEF IngestorStep

\* The dispatcher, run() and the DAG runner preserve the accounting.
LEMMA RestCounts ==
    ASSUME CountInvariant,
           DispatcherStep \/ MainStep \/ Stopped \/ UNCHANGED vars
           \/ \E p \in Program : DagStart(p) \/ DagFinish(p)
    PROVE  CountInvariant'
<1>1. UNCHANGED counters
  BY DEF DispatcherStep, Check, Spawn, GiveSlotBack, Gathered, Reap, dispFrame,
     Stopped, vars, mainFrame, slotVars, MainStep, LoopEnded, Teardown, Drain, DrainFails,
     Join, ExternalCancel, StopClearsRunning, DispatcherJoined, IngestorJoined, SweepPoll,
     SweepEnds, Finalize, DagStart, DagFinish, counters
<1>2. (cand \cup todo \cup handled \cup leaked)'
         \subseteq cand \cup todo \cup handled \cup leaked \cup in_flight
  BY DEF DispatcherStep, Check, Spawn, GiveSlotBack, Gathered, Reap, dispFrame,
     Stopped, vars, ingVars, MainStep, LoopEnded, Teardown, Drain, DrainFails,
     Join, ExternalCancel, StopClearsRunning, DispatcherJoined, IngestorJoined, SweepPoll,
     SweepEnds, Finalize, DagStart, DagFinish, ForgetPoll
<1> QED BY <1>1, <1>2, OthersCount

\* Nothing is counted at the start.
LEMMA InitCounts == Init => CountInvariant
<1> SUFFICES ASSUME Init PROVE CountInvariant
  OBVIOUS
<1>1. Cardinality({}) = 0
  BY FS_EmptySet
<1> QED BY <1>1 DEF Init, CountInvariant, PollWithin, Accounting

\* Each handed-over child is counted once in mutations_created, never both in
\* flight and settled, and at most once in programs_processed.
THEOREM ChildrenCounted == Spec => []Accounting
<1> DEFINE Inv == TypeOK /\ SlotInvariant /\ CountInvariant
<1>1. Init => Inv
  BY InitTypes, InitSlots, InitCounts
<1>2. Inv /\ [Next]_vars => Inv'
  BY NextTypes, NextSlots, TaskCounts, IngestorCounts, RestCounts DEF Next
<1>3. Inv => Accounting
  BY DEF CountInvariant
<1> QED BY <1>1, <1>2, <1>3, PTL DEF Spec

-----------------------------------------------------------------------------
(***************************************************************************)
(* No lost child. A program becomes present only when its task adds it;    *)
(* everybody else writes programs that are present already.                *)
(***************************************************************************)
ChildInvariant == KnownPrograms /\ NoGhostChild

Tracked(t) == \/ pc[t] \in {"persisted", "handoff", "cancelled_add"}
              \/ t \in in_flight \cup settled

\* A step after which nothing is newly present, and no tracked child is lost.
LEMMA NothingNew ==
    ASSUME ChildInvariant, Present' = Present,
           \A t \in Tasks : Tracked(t) => Tracked(t)',
           (evaluating \cup archive \cup todo)' \subseteq Present,
           \A t \in Tasks : flip'[t] \subseteq Present
    PROVE  ChildInvariant'
BY DEF ChildInvariant, KnownPrograms, NoGhostChild, Present, Tracked, Program

\* A step of task t that leaves storage alone, or writes present programs.
LEMMA TaskQuiet ==
    ASSUME TypeOK, ChildInvariant, NEW t \in Tasks, NEW x,
           pc' = [pc EXCEPT ![t] = x],
           pc[t] \in {"persisted", "handoff"} => x \in {"persisted", "handoff"} \/ t \in in_flight',
           pc[t] # "cancelled_add",
           Present' = Present, in_flight \subseteq in_flight', settled' = settled,
           evaluating' = evaluating, archive' = archive, todo' = todo,
           \A u \in Tasks : flip'[u] \subseteq Present
    PROVE  ChildInvariant'
<1>1. \A u \in Tasks : Tracked(u) => Tracked(u)'
  BY DEF Tracked, TypeOK
<1>2. (evaluating \cup archive \cup todo)' \subseteq Present
  BY DEF ChildInvariant, KnownPrograms
<1> QED BY <1>1, <1>2, NothingNew

\* The task adds its child: it is tracked from that step on.
LEMMA TaskAdds ==
    ASSUME TypeOK, ChildInvariant, NEW t \in Tasks,
           NEW x \in {"persisted", "cancelled_add"}, pc' = [pc EXCEPT ![t] = x],
           pc[t] = "adding", state' = [state EXCEPT ![t] = "QUEUED"],
           in_flight' = in_flight, settled' = settled,
           evaluating' = evaluating, archive' = archive, todo' = todo,
           \A u \in Tasks : flip'[u] \subseteq flip[u]
    PROVE  ChildInvariant'
<1>1. Present' = Present \cup {t}
  BY DEF Present, TypeOK, Program
<1>2. KnownPrograms'
  BY <1>1 DEF ChildInvariant, KnownPrograms
<1>3. NoGhostChild'
  BY DEF ChildInvariant, NoGhostChild, TypeOK, Program
<1> QED BY <1>2, <1>3 DEF ChildInvariant

\* A batch transition writes the programs it has read, which are present.
LEMMA FlipKeepsPresent ==
    ASSUME TypeOK, ChildInvariant, NEW t \in Tasks,
           state' = [p \in Program |-> IF p \in flip[t] THEN "QUEUED" ELSE state[p]]
    PROVE  Present' = Present
BY DEF Present, ChildInvariant, KnownPrograms, TypeOK

\* A step of a producer task loses no child.
LEMMA TaskChildren ==
    ASSUME TypeOK, ChildInvariant, NEW t \in Tasks, TaskStep(t)
    PROVE  ChildInvariant'
<1> USE DEF storeVars, taskVars, slotVars, dispVars, ingVars, mainVars
<1>f. \A u \in Tasks : flip[u] \subseteq Present
  BY DEF ChildInvariant, KnownPrograms
<1>s. ASSUME state' = state PROVE Present' = Present
  BY <1>s DEF Present
<1>q. ASSUME NEW how, Quit(t, how), pc[t] \in Live \ {"persisted", "handoff"},
             Present' = Present, UNCHANGED <<in_flight, settled, evaluating, archive, todo>>
      PROVE  ChildInvariant'
  <2>1. \A u \in Tasks : flip'[u] \subseteq Present
    BY <1>f, <1>q DEF Quit, TypeOK
  <2> QED BY <1>q, <2>1, TaskQuiet, PhaseFacts DEF Quit, Finished
<1>1. CASE SelectParents(t)
  <2>1. CASE archive = {}
    BY <1>1, <2>1, <1>q, <1>s DEF SelectParents, Live
  <2>2. CASE archive # {}
    BY <1>1, <2>2, <1>f, <1>s, TaskQuiet DEF SelectParents
  <2> QED BY <2>1, <2>2
<1>2. CASE AcquireLock(t)
  <2>1. \E x : pc' = [pc EXCEPT ![t] = x]
    BY <1>2 DEF AcquireLock, TypeOK
  <2> QED BY <1>2, <2>1, <1>f, <1>s, TaskQuiet DEF AcquireLock
<1>3. CASE Quiesced(t)
  BY <1>3, <1>f, <1>s, TaskQuiet DEF Quiesced
<1>4. CASE FlipRead(t)
  <2>1. \A u \in Tasks : flip'[u] \subseteq Present
    BY <1>4, <1>f DEF FlipRead, TypeOK, Present
  <2> QED BY <1>4, <2>1, <1>s, TaskQuiet DEF FlipRead
<1>5. CASE FlipWrite(t)
  <2>1. Present' = Present
    BY <1>5, FlipKeepsPresent DEF FlipWrite
  <2>2. CASE flip[t] = targets[t]
    <3>1. \A u \in Tasks : flip'[u] \subseteq Present
      BY <1>5, <1>f, <2>2 DEF FlipWrite, TypeOK
    <3> QED BY <1>5, <2>1, <2>2, <3>1, TaskQuiet DEF FlipWrite
  <2>3. CASE flip[t] # targets[t]
    BY <1>5, <2>1, <2>3, <1>q DEF FlipWrite, Live, Refreshing
  <2> QED BY <2>2, <2>3
<1>6. CASE Refreshed(t) \/ ReadFresh(t)
  BY <1>6, <1>f, <1>s, TaskQuiet DEF Refreshed, ReadFresh, ReturnRefreshed
<1>7. CASE RefreshFails(t)
  BY <1>7, <1>q, <1>s DEF RefreshFails, Live, Refreshing
<1>8. CASE LLMReturns(t)
  <2>1. CASE Quit(t, "none")
    BY <1>8, <2>1, <1>q, <1>s DEF LLMReturns, Live
  <2>2. CASE ~Quit(t, "none")
    BY <1>8, <2>2, <1>f, <1>s, TaskQuiet DEF LLMReturns
  <2> QED BY <2>1, <2>2
<1>9. CASE Persist(t)
  BY <1>9, TaskAdds DEF Persist
<1>10. CASE ReturnChild(t)
  BY <1>10, <1>f, <1>s, TaskQuiet DEF ReturnChild
<1>11. CASE Handoff(t)
  BY <1>11, <1>f, <1>s, TaskQuiet DEF Handoff
<1>12. CASE HandoffDone(t) \/ HandoffWriteFails(t)
  <2>1. \E x : pc' = [pc EXCEPT ![t] = x]
    BY <1>12 DEF HandoffDone, HandoffWriteFails
  <2> QED BY <1>12, <2>1, <1>f, <1>s, TaskQuiet DEF HandoffDone, HandoffWriteFails
<1>13. CASE CancelDelivered(t)
  <2>1. CASE pc[t] = "adding"
    <3>1. CASE state' = state
      BY <1>13, <2>1, <3>1, <1>q, <1>s DEF CancelDelivered, Live
    <3>2. CASE state' = [state EXCEPT ![t] = "QUEUED"]
      <4>1. \A u \in Tasks : flip'[u] \subseteq flip[u]
        BY <1>13 DEF CancelDelivered, Quit, TypeOK
      <4>2. pc' = [pc EXCEPT ![t] = "cancelled_add"]
        BY <1>13, <2>1 DEF CancelDelivered, Quit
      <4> QED BY <1>13, <2>1, <3>2, <4>1, <4>2, TaskAdds DEF CancelDelivered
    <3> QED BY <1>13, <2>1, <3>1, <3>2 DEF CancelDelivered
  <2>2. CASE pc[t] # "adding"
    <3>1. Present' = Present
      BY <1>13, <2>2, <1>s, FlipKeepsPresent DEF CancelDelivered
    <3> QED BY <1>13, <2>2, <3>1, <1>q DEF CancelDelivered, Live, Refreshing
  <2> QED BY <2>1, <2>2
<1> QED
  BY <1>1, <1>2, <1>3, <1>4, <1>5, <1>6, <1>7, <1>8, <1>9, <1>10, <1>11,
     <1>12, <1>13 DEF TaskStep

\* The dispatcher starts tasks that have no child yet.
LEMMA DispatcherChildren ==
    ASSUME TypeOK, ChildInvariant, DispatcherStep
    PROVE  ChildInvariant'
<1> USE DEF storeVars, taskVars, ingVars
<1>1. UNCHANGED <<state, evaluating, archive, todo, flip, in_flight, settled>>
  BY DEF DispatcherStep, Check, Spawn, GiveSlotBack, Gathered, Reap, dispFrame
<1>2. \A t \in Tasks : pc'[t] = pc[t] \/ pc[t] = "unborn"
  BY DEF DispatcherStep, Check, Spawn, GiveSlotBack, Gathered, Reap, TypeOK
<1>3. \A t \in Tasks : Tracked(t) => Tracked(t)'
  BY <1>1, <1>2 DEF Tracked
<1>4. Present' = Present
  BY <1>1 DEF Present
<1> QED BY <1>1, <1>3, <1>4, NothingNew DEF ChildInvariant, KnownPrograms

\* Writes of the archive and the discard of rejects touch present programs.
LEMMA IngestKeepsPresent ==
    ASSUME TypeOK, ChildInvariant, NEW c \in Tasks, IngestOne(c)
    PROVE  /\ Present' = Present
           /\ (archive \cup todo)' \subseteq Present
<1>1. c \in Present /\ archive \subseteq Present /\ todo \subseteq Present
  BY DEF IngestOne, ChildInvariant, KnownPrograms
<1>2. todo' \subseteq Present
  BY <1>1 DEF IngestOne
<1>3. CASE state' = state /\ archive' = archive
  BY <1>1, <1>2, <1>3 DEF Present
<1>4. CASE Accept(c)
  <2>1. archive' \subseteq archive \cup {c}
    BY <1>4 DEF Accept, Evict
  <2>2. CASE state' = state
    BY <1>1, <1>2, <2>1, <2>2 DEF Present
  <2>3. CASE Evict(c)
    <3>1. PICK e \in archive \cup {c} : state' = [state EXCEPT ![e] = "DISCARDED"]
      BY <2>3 DEF Evict
    <3>2. Present' = Present
      BY <1>1, <3>1 DEF Present, TypeOK
    <3> QED BY <1>1, <1>2, <2>1, <3>2
  <2> QED BY <1>4, <2>2, <2>3 DEF Accept
<1> QED BY <1>3, <1>4 DEF IngestOne

\* A step of the ingestor loses no child: a release settles what it removes.
LEMMA IngestorChildren ==
    ASSUME TypeOK, ChildInvariant, IngestorStep
    PROVE  ChildInvariant'
<1> USE DEF storeVars, taskVars, slotVars
<1>0. /\ evaluating \cup archive \cup todo \subseteq Present
      /\ \A t \in Tasks : flip[t] \subseteq Present
  BY DEF ChildInvariant, KnownPrograms
<1>1. pc' = pc /\ flip' = flip /\ evaluating' = evaluating
  BY DEF IngestorStep, Poll, IngestorExits, Fetch, Batch, IngestOne, OutcomeRaises,
     BatchDone, DiscardRejects, Release, PollSnapshot
<1>2. in_flight \cup settled \subseteq (in_flight \cup settled)'
  BY DEF IngestorStep, Poll, IngestorExits, Fetch, Batch, IngestOne, OutcomeRaises,
     BatchDone, DiscardRejects, Release, PollSnapshot
<1>3. \A t \in Tasks : Tracked(t) => Tracked(t)'
  BY <1>1, <1>2 DEF Tracked
<1>4. Present' = Present /\ (archive \cup todo)' \subseteq Present
  <2>1. CASE \E c \in Tasks : IngestOne(c)
    BY <2>1, IngestKeepsPresent
  <2>2. CASE DiscardRejects
    <3>1. Present' = Present
      BY <2>2 DEF DiscardRejects, Present, TypeOK
    <3> QED BY <1>0, <2>2, <3>1 DEF DiscardRejects
  <2>3. CASE Fetch
    <3>1. todo' \subseteq Present
      BY <2>3 DEF Fetch, ForgetPoll, Present, TypeOK, Program
    <3> QED BY <1>0, <2>3, <3>1 DEF Fetch, Present
  <2>4. CASE Poll \/ IngestorExits \/ Batch \/ BatchDone \/ Release \/ PollSnapshot
             \/ \E c \in Tasks : OutcomeRaises(c)
    <3>1. state' = state /\ archive' = archive /\ todo' \subseteq todo
      BY <2>4 DEF Poll, IngestorExits, Batch, BatchDone, Release, PollSnapshot,
         OutcomeRaises, ForgetPoll
    <3> QED BY <1>0, <3>1 DEF Present
  <2> QED BY <2>1, <2>2, <2>3, <2>4 DEF IngestorStep
<1> QED BY <1>0, <1>1, <1>3, <1>4, NothingNew

\* run() writes no program, and a terminated poll only forgets what it read.
LEMMA MainChildren ==
    ASSUME ChildInvariant, MainStep \/ Stopped \/ UNCHANGED vars
    PROVE  ChildInvariant'
<1>1. UNCHANGED <<state, evaluating, archive, pc, flip, in_flight, settled>>
  BY DEF Stopped, vars, storeVars, taskVars, slotVars, mainFrame, MainStep, LoopEnded, Drain,
     DrainFails, Join, ExternalCancel, StopClearsRunning, DispatcherJoined, IngestorJoined,
     SweepPoll, SweepEnds, Finalize
<1>2. todo' \subseteq todo
  BY DEF Stopped, vars, ingVars, MainStep, LoopEnded, Drain, DrainFails, Join,
     ExternalCancel, StopClearsRunning, DispatcherJoined, IngestorJoined, SweepPoll,
     SweepEnds, Finalize, ForgetPoll
<1>3. Present' = Present /\ \A t \in Tasks : Tracked(t) => Tracked(t)'
  BY <1>1 DEF Present, Tracked
<1> QED BY <1>1, <1>2, <1>3, NothingNew DEF ChildInvariant, KnownPrograms

\* The DAG runner writes programs it found in storage.
LEMMA DagChildren ==
    ASSUME TypeOK, ChildInvariant, NEW p \in Program, DagStart(p) \/ DagFinish(p)
    PROVE  ChildInvariant'
<1>1. p \in Present
  BY DEF DagStart, DagFinish, Present, ChildInvariant, KnownPrograms
<1>2. PICK x \in {"RUNNING", "DONE", "DISCARDED"} : state' = [state EXCEPT ![p] = x]
  BY DEF DagStart, DagFinish
<1>3. Present' = Present
  BY <1>1, <1>2 DEF Present, TypeOK
<1>4. UNCHANGED <<archive, todo, flip, pc, in_flight, settled>>
      /\ evaluating' \subseteq evaluating \cup {p}
  BY DEF DagStart, DagFinish, taskVars, slotVars, ingVars
<1>5. \A t \in Tasks : Tracked(t) => Tracked(t)'
  BY <1>4 DEF Tracked
<1> QED BY <1>1, <1>3, <1>4, <1>5, NothingNew DEF ChildInvariant, KnownPrograms

\* At the start only the seeds are present.
LEMMA InitChildren == Init => ChildInvariant
BY EngineAssumption DEF Init, ChildInvariant, KnownPrograms, NoGhostChild, Present, Program

\* A child whose storage.add returned is on its way to the ingestor, in flight
\* or settled, whatever fails, is cancelled or is evicted.
THEOREM NoChildLost == Spec => []NoGhostChild
<1> DEFINE Inv == TypeOK /\ ChildInvariant
<1>1. Init => Inv
  BY InitTypes, InitChildren
<1>2. Inv /\ [Next]_vars => Inv'
  BY NextTypes, TaskChildren, DispatcherChildren, IngestorChildren, MainChildren,
     DagChildren DEF Next
<1>3. Inv => NoGhostChild
  BY DEF ChildInvariant
<1> QED BY <1>1, <1>2, <1>3, PTL DEF Spec

-----------------------------------------------------------------------------
(***************************************************************************)
(* The end of production. Once the dispatcher is over it stays so, with no *)
(* task left; run() passes it only when it is over; nothing but a teardown *)
(* that cancels the dispatcher clears _running before that; and without    *)
(* another stopper only the cap ends production.                           *)
(***************************************************************************)
Ending == {"cancelling", "done", "failed"}

StopInvariant ==
    /\ DispatcherOver => active = {}
    /\ m_pc \in {"drain", "join"} => d_pc = "done"
    /\ m_pc = "cancel_dispatcher" => d_pc \in Ending
    /\ m_pc \in {"cancel_ingestor", "sweep", "final", "stopped"} => DispatcherOver
    /\ ~running => d_pc \in Ending
    /\ "clock" \notin Faults /\ (terminal \/ d_pc \in {"gather", "done"}) =>
          mutations_created >= MaxMutants

\* A step that only adds to the count of children keeps the invariant.
LEMMA StopKept ==
    ASSUME TypeOK, StopInvariant, UNCHANGED <<d_pc, active, terminal, m_pc, running>>,
           mutations_created' \in {mutations_created, mutations_created + 1}
    PROVE  StopInvariant'
BY EngineAssumption DEF TypeOK, StopInvariant, DispatcherOver

\* The dispatcher starts to gather at the cap only, unless another stopper
\* fired; when it returns, every task has been reaped.
LEMMA DispatcherStops ==
    ASSUME TypeOK, StopInvariant, DispatcherStep
    PROVE  StopInvariant'
<1>1. UNCHANGED <<m_pc, running, mutations_created>>
  BY DEF DispatcherStep, Check, Spawn, GiveSlotBack, Gathered, Reap, dispFrame, mainVars
<1>2. CASE Check
  <2>1. d_pc = "loop" /\ active' = active /\ running /\ m_pc = "wait"
    BY <1>2 DEF Check, StopInvariant, DispatcherOver, Ending, TypeOK, MainPC
  <2>2. d_pc' \in {"cancelling", "acquire", "wait", "gather"}
    BY <1>2 DEF Check, Abort
  <2>3. ASSUME "clock" \notin Faults, terminal' PROVE mutations_created >= MaxMutants
    BY <1>2, <2>3 DEF Check, MayDecideStop, StopInvariant
  <2>4. ASSUME ~terminal', d_pc' = "gather" PROVE mutations_created >= MaxMutants
    <3>1. ~WithinCap /\ active = {}
      BY <1>2, <2>1, <2>4 DEF Check, Abort
    <3> QED BY <3>1, FS_EmptySet, EngineAssumption DEF WithinCap, TypeOK
  <2> QED BY <1>1, <2>1, <2>2, <2>3, <2>4 DEF StopInvariant, DispatcherOver, Ending
<1>3. CASE Spawn
  BY <1>1, <1>3 DEF Spawn, StopInvariant, DispatcherOver, Ending
<1>4. CASE GiveSlotBack
  <2>1. d_pc = "acquire" /\ active' = active /\ running /\ m_pc = "wait"
    BY <1>4 DEF GiveSlotBack, StopInvariant, DispatcherOver, Ending, TypeOK, MainPC
  <2>2. d_pc' \in {"cancelling", "gather", "loop"} /\ (d_pc' = "gather" => terminal')
    BY <1>4, <2>1 DEF GiveSlotBack, Abort
  <2>3. ASSUME "clock" \notin Faults, terminal' PROVE mutations_created >= MaxMutants
    BY <1>4, <2>3 DEF GiveSlotBack, MayDecideStop, StopInvariant
  <2> QED BY <1>1, <2>1, <2>2, <2>3 DEF StopInvariant, DispatcherOver, Ending
<1>5. CASE Gathered
  BY <1>1, <1>5 DEF Gathered, StopInvariant, DispatcherOver, Ending
<1>6. ASSUME NEW t \in Tasks, Reap(t) PROVE StopInvariant'
  BY <1>1, <1>6 DEF Reap, StopInvariant, DispatcherOver, Ending
<1> QED BY <1>2, <1>3, <1>4, <1>5, <1>6 DEF DispatcherStep

\* run() goes past the dispatcher only when it is over.
LEMMA MainStops ==
    ASSUME TypeOK, StopInvariant, MainStep
    PROVE  StopInvariant'
<1>1. UNCHANGED <<active, terminal, mutations_created>>
  BY DEF MainStep, mainFrame, slotVars, dispVars, LoopEnded, Teardown, Drain, DrainFails, Join,
     ExternalCancel, StopClearsRunning, DispatcherJoined, IngestorJoined, SweepPoll, SweepEnds,
     Finalize
<1>2. ASSUME Teardown, running' = running PROVE StopInvariant'
  BY <1>1, <1>2 DEF Teardown, CancelDispatcher, StopInvariant, DispatcherOver, Ending
<1>3. ASSUME d_pc' = d_pc,
             \/ running' = running
             \/ m_pc \in {"drain", "cancel_dispatcher", "cancel_ingestor"},
             \/ m_pc' = m_pc
             \/ m_pc' \in {"drain", "join"} /\ d_pc = "done"
             \/ m_pc' \in {"cancel_ingestor", "sweep", "final", "stopped"} /\ DispatcherOver
      PROVE  StopInvariant'
  <2>1. ~running' => d_pc \in Ending
    BY <1>3 DEF StopInvariant, Ending, DispatcherOver
  <2> QED BY <1>1, <1>3, <2>1 DEF StopInvariant, DispatcherOver, Ending
<1>4. CASE LoopEnded \/ DrainFails \/ ExternalCancel
  BY <1>2, <1>3, <1>4 DEF LoopEnded, DrainFails, ExternalCancel, dispVars
<1>5. CASE Drain \/ Join \/ StopClearsRunning \/ DispatcherJoined
  BY <1>3, <1>5 DEF Drain, Join, StopClearsRunning, DispatcherJoined, dispVars, StopInvariant,
     DispatcherOver
<1>6. CASE IngestorJoined \/ SweepPoll \/ SweepEnds \/ Finalize
  BY <1>3, <1>6 DEF IngestorJoined, SweepPoll, SweepEnds, Finalize, dispVars, mainVars,
     StopInvariant
<1> QED BY <1>4, <1>5, <1>6 DEF MainStep

\* The steps of the tasks, the ingestor and the DAG runner.
LEMMA RestStops ==
    ASSUME TypeOK, StopInvariant,
           \/ \E t \in Tasks : TaskStep(t)
           \/ IngestorStep \/ Stopped \/ UNCHANGED vars
           \/ \E p \in Program : DagStart(p) \/ DagFinish(p)
    PROVE  StopInvariant'
<1> USE DEF vars, slotVars, dispVars, mainVars
<1>1. CASE \E t \in Tasks : TaskStep(t)
  BY <1>1, StopKept DEF TaskStep, SelectParents, AcquireLock, Quiesced, FlipRead, FlipWrite,
     Refreshed, ReadFresh, RefreshFails, LLMReturns, Persist, ReturnChild, Handoff, HandoffDone,
     HandoffWriteFails, CancelDelivered
<1>2. CASE IngestorStep
  BY <1>2, StopKept DEF IngestorStep, Poll, IngestorExits, Fetch, Batch, IngestOne,
     OutcomeRaises, BatchDone, DiscardRejects, Release, PollSnapshot
<1>3. CASE Stopped \/ UNCHANGED vars \/ \E p \in Program : DagStart(p) \/ DagFinish(p)
  BY <1>3, StopKept DEF Stopped, DagStart, DagFinish
<1> QED BY <1>1, <1>2, <1>3

LEMMA NextStops == TypeOK /\ StopInvariant /\ [Next]_vars => StopInvariant'
BY DispatcherStops, MainStops, RestStops DEF Next

LEMMA InitStops == Init => StopInvariant
BY DEF Init, StopInvariant, DispatcherOver, Ending

\* run() cancels and joins the producers before it touches the ingestor: from
\* then on no task can persist or hand over a child.
THEOREM ProducersStopFirst == Spec => []ProducersFirst
<1> DEFINE Inv == TypeOK /\ SlotInvariant /\ StopInvariant
<1>1. Init => Inv
  BY InitTypes, InitSlots, InitStops
<1>2. Inv /\ [Next]_vars => Inv'
  BY NextTypes, NextSlots, NextStops
<1>3. Inv => ProducersFirst
  BY DEF StopInvariant, SlotInvariant, LiveActive, LiveTasks, ProducersFirst
<1> QED BY <1>1, <1>2, <1>3, PTL DEF Spec

-----------------------------------------------------------------------------
(***************************************************************************)
(* The cap. A reservation is a task that may still hand a child over; the  *)
(* dispatcher makes one only below the cap, a handoff turns one into a     *)
(* child, and nothing else adds to either.                                 *)
(***************************************************************************)
LEMMA PendingWithin ==
    ASSUME TypeOK
    PROVE  /\ Pending \subseteq active /\ Pending \subseteq Tasks
           /\ IsFiniteSet(Pending) /\ Cardinality(Pending) \in Nat
           /\ Cardinality(Pending) <= Cardinality(active) /\ Cardinality(active) \in Nat
<1>1. Pending \subseteq active /\ Pending \subseteq Tasks
  BY DEF TypeOK, Pending
<1>2. IsFiniteSet(active) /\ Cardinality(active) \in Nat
  BY TaskSets DEF TypeOK
<1> QED BY <1>1, <1>2, TaskSets, FS_Subset

\* Reservations that end, or stay as they are, make no child.
LEMMA CapKept ==
    ASSUME TypeOK, CapRespected, Pending' \subseteq Pending, UNCHANGED mutations_created
    PROVE  CapRespected'
<1>1. IsFiniteSet(Pending) /\ Cardinality(Pending) \in Nat
  BY PendingWithin
<1>2. Cardinality(Pending') <= Cardinality(Pending) /\ Cardinality(Pending') \in Nat
  BY <1>1, FS_Subset, FS_CardinalityType
<1> QED BY <1>1, <1>2, EngineAssumption DEF CapRespected, TypeOK

\* A task that moves has been pending, or is not from now on.
LEMMA CapMove ==
    ASSUME TypeOK, CapRespected, NEW t \in Tasks, NEW x, pc' = [pc EXCEPT ![t] = x],
           pc[t] \in Before \/ x \notin Before, UNCHANGED <<active, mutations_created>>
    PROVE  CapRespected'
<1>1. Pending' \subseteq Pending
  BY DEF Pending, Before, TypeOK
<1> QED BY <1>1, CapKept

LEMMA TaskCaps ==
    ASSUME TypeOK, SlotInvariant, CapRespected, NEW t \in Tasks, TaskStep(t)
    PROVE  CapRespected'
<1> USE DEF slotVars, dispVars
<1>1. CASE Handoff(t)
  <2>1. t \in Pending /\ Pending' = Pending \ {t}
    BY <1>1 DEF Handoff, Pending, TypeOK, SlotInvariant, LiveActive, Live
  <2>2. IsFiniteSet(Pending) /\ Cardinality(Pending) \in Nat
    BY PendingWithin
  <2>3. Cardinality(Pending') = Cardinality(Pending) - 1
    BY <2>1, <2>2, FS_RemoveElement
  <2> QED BY <1>1, <2>2, <2>3, EngineAssumption DEF Handoff, CapRespected, TypeOK
<1>2. CASE AcquireLock(t)
  <2>1. \E x : pc' = [pc EXCEPT ![t] = x]
    BY <1>2 DEF AcquireLock, TypeOK
  <2> QED BY <1>2, <2>1, CapMove, PhaseFacts DEF AcquireLock, Refreshing
<1>3. CASE SelectParents(t) \/ Quiesced(t) \/ FlipRead(t) \/ FlipWrite(t)
  BY <1>3, CapMove, PhaseFacts DEF SelectParents, Quiesced, FlipRead, FlipWrite, Quit, Refreshing
<1>4. CASE Refreshed(t) \/ ReadFresh(t) \/ RefreshFails(t)
  BY <1>4, CapMove, PhaseFacts DEF Refreshed, ReadFresh, RefreshFails, ReturnRefreshed, Quit,
     Refreshing
<1>5. CASE LLMReturns(t) \/ Persist(t) \/ ReturnChild(t)
  BY <1>5, CapMove, PhaseFacts DEF LLMReturns, Persist, ReturnChild, Quit
<1>6. CASE HandoffDone(t) \/ HandoffWriteFails(t)
  BY <1>6, CapMove, PhaseFacts DEF HandoffDone, HandoffWriteFails
<1>7. CASE CancelDelivered(t)
  BY <1>7, CapMove, PhaseFacts DEF CancelDelivered, Quit
<1> QED BY <1>1, <1>2, <1>3, <1>4, <1>5, <1>6, <1>7 DEF TaskStep

\* The dispatcher looks at the cap again after it has waited for a slot.
LEMMA DispatcherCaps ==
    ASSUME TypeOK, CapRespected, DispatcherStep
    PROVE  CapRespected'
<1>1. UNCHANGED mutations_created
  BY DEF DispatcherStep, Check, Spawn, GiveSlotBack, Gathered, Reap, dispFrame
<1>2. CASE Spawn
  <2>1. PICK t \in Tasks : /\ pc[t] = "unborn"
                           /\ pc' = [pc EXCEPT ![t] = "selecting"]
                           /\ active' = active \cup {t}
    BY <1>2 DEF Spawn
  <2>2. Pending' \subseteq Pending \cup {t} /\ t \notin Pending
    BY <2>1, PhaseFacts DEF Pending, TypeOK
  <2>3. IsFiniteSet(Pending) /\ Cardinality(Pending) \in Nat
    BY PendingWithin
  <2>4. /\ IsFiniteSet(Pending \cup {t})
        /\ Cardinality(Pending \cup {t}) = Cardinality(Pending) + 1
    BY <2>2, <2>3, FS_AddElement
  <2>5. Cardinality(Pending') <= Cardinality(Pending) + 1 /\ Cardinality(Pending') \in Nat
    BY <2>2, <2>4, FS_Subset, FS_CardinalityType
  <2>6. Cardinality(Pending) < MaxMutants - mutations_created
    BY <1>2, PendingWithin, EngineAssumption DEF Spawn, WithinCap, TypeOK
  <2> QED BY <1>1, <2>3, <2>5, <2>6, EngineAssumption DEF CapRespected, TypeOK
<1>3. CASE UNCHANGED pc /\ active' \subseteq active
  BY <1>1, <1>3, CapKept DEF Pending
<1> QED
  BY <1>2, <1>3 DEF DispatcherStep, Check, GiveSlotBack, Gathered, Reap, taskVars

LEMMA RestCaps ==
    ASSUME TypeOK, CapRespected,
           \/ IngestorStep \/ MainStep \/ Stopped \/ UNCHANGED vars
           \/ \E p \in Program : DagStart(p) \/ DagFinish(p)
    PROVE  CapRespected'
<1> USE DEF vars, taskVars, slotVars, dispVars
<1>1. UNCHANGED <<pc, active, mutations_created>>
  <2>1. CASE IngestorStep
    BY <2>1 DEF IngestorStep, Poll, IngestorExits, Fetch, Batch, IngestOne, OutcomeRaises,
       BatchDone, DiscardRejects, Release, PollSnapshot
  <2>2. CASE MainStep
    BY <2>2 DEF MainStep, mainFrame, LoopEnded, Teardown, Drain, DrainFails, Join,
       ExternalCancel, StopClearsRunning, DispatcherJoined, IngestorJoined, SweepPoll,
       SweepEnds, Finalize
  <2> QED BY <2>1, <2>2 DEF Stopped, DagStart, DagFinish
<1> QED BY <1>1 DEF CapRespected, Pending

LEMMA NextCaps == TypeOK /\ SlotInvariant /\ CapRespected /\ [Next]_vars => CapRespected'
BY TaskCaps, DispatcherCaps, RestCaps DEF Next

LEMMA InitCaps == Init => CapRespected
<1> SUFFICES ASSUME Init PROVE CapRespected
  OBVIOUS
<1>1. Pending = {} /\ mutations_created = 0
  BY DEF Init, Pending
<1> QED BY <1>1, FS_EmptySet, EngineAssumption DEF CapRespected

\* However many tasks run at once, and whichever of them fail or are cancelled,
\* the dispatcher's reservations keep the run within max_mutants.
THEOREM CapHolds == Spec => []CapRespected
<1> DEFINE Inv == TypeOK /\ SlotInvariant /\ CapRespected
<1>1. Init => Inv
  BY InitTypes, InitSlots, InitCaps
<1>2. Inv /\ [Next]_vars => Inv'
  BY NextTypes, NextSlots, NextCaps
<1>3. Inv => CapRespected
  OBVIOUS
<1> QED BY <1>1, <1>2, <1>3, PTL DEF Spec

\* A dispatcher that returns without a failure and without another stopper has
\* produced max_mutants children, not fewer: cancelled and failed tasks have
\* been replaced, and no decision was taken on a stale count.
THEOREM CapIsReached == Spec => []CapReached
<1> DEFINE Inv == TypeOK /\ SlotInvariant /\ CapRespected /\ StopInvariant
<1>1. Init => Inv
  BY InitTypes, InitSlots, InitCaps, InitStops
<1>2. Inv /\ [Next]_vars => Inv'
  BY NextTypes, NextSlots, NextCaps, NextStops
<1>3. Inv => CapReached
  <2> SUFFICES ASSUME Inv, d_pc = "done", "clock" \notin Faults
               PROVE  mutations_created = MaxMutants
    BY DEF CapReached
  <2>1. mutations_created >= MaxMutants
    BY DEF StopInvariant
  <2>2. mutations_created <= MaxMutants
    BY PendingWithin, EngineAssumption DEF CapRespected, TypeOK
  <2> QED BY <2>1, <2>2, EngineAssumption DEF TypeOK
<1> QED BY <1>1, <1>2, <1>3, PTL DEF Spec

=============================================================================
