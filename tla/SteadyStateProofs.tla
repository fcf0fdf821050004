------------------------- MODULE SteadyStateProofs -------------------------
(***************************************************************************)
(* Proofs about SteadyState, for every set of tasks, every number of slots *)
(* and every combination of faults.                                        *)
(***************************************************************************)
EXTENDS SteadyState, TLAPS, FiniteSetTheorems

\* What the finally clause of run_one_mutant (Quit) writes has its type.
LEMMA QuitTypes ==
    ASSUME TypeOK, NEW t \in Tasks, NEW how \in TaskPC, Quit(t, how)
    PROVE  /\ pc' \in [Tasks -> TaskPC]
           /\ producer_free' \in Nat
           /\ held' \in [Tasks -> SUBSET Program]
           /\ targets' \in [Tasks -> SUBSET Program]
           /\ flip' \in [Tasks -> SUBSET Program]
BY DEF TypeOK, Quit

\* A step of a producer task keeps every variable in its type.
LEMMA TaskTypes ==
    ASSUME TypeOK, NEW t \in Tasks, TaskStep(t)
    PROVE  TypeOK'
<1> USE DEF TypeOK, storeVars, taskVars, slotVars, dispVars, ingVars, mainVars
<1>0. /\ "none" \in TaskPC /\ "cancelled" \in TaskPC /\ "cancelled_add" \in TaskPC
      /\ "llm" \in TaskPC
  BY DEF TaskPC, Finished, Live
<1>1. CASE SelectParents(t)
  BY <1>0, <1>1, QuitTypes DEF SelectParents, TaskPC, Live, Refreshing
<1>2. CASE AcquireLock(t)
  BY <1>2 DEF AcquireLock, Stale, TaskPC, Live, Refreshing
<1>3. CASE Quiesced(t)
  BY <1>3 DEF Quiesced, TaskPC, Live, Refreshing
<1>4. CASE FlipRead(t)
  BY <1>4 DEF FlipRead, TaskPC, Live, Refreshing
<1>5. CASE FlipWrite(t)
  <2>1. state' \in [Program -> ProgramState]
    BY <1>5 DEF FlipWrite, ProgramState
  <2>2. CASE flip[t] = targets[t]
    BY <1>5, <2>1, <2>2 DEF FlipWrite, TaskPC, Live, Refreshing
  <2>3. CASE flip[t] # targets[t]
    BY <1>0, <1>5, <2>1, <2>3, QuitTypes DEF FlipWrite
  <2> QED BY <2>2, <2>3
<1>6. CASE Refreshed(t)
  BY <1>0, <1>6 DEF Refreshed, ReturnRefreshed, TaskPC, Live, Refreshing
<1>7. CASE ReadFresh(t)
  BY <1>0, <1>7 DEF ReadFresh, ReturnRefreshed
<1>8. CASE RefreshFails(t)
  BY <1>0, <1>8, QuitTypes DEF RefreshFails
<1>9. CASE LLMReturns(t)
  BY <1>0, <1>9, QuitTypes DEF LLMReturns, TaskPC, Live
<1>10. CASE Persist(t)
  BY <1>10 DEF Persist, TaskPC, Live, ProgramState, Program
<1>11. CASE ReturnChild(t)
  BY <1>11 DEF ReturnChild, TaskPC, Live
<1>12. CASE Handoff(t)
  BY <1>12 DEF Handoff, TaskPC, Live
<1>13. CASE HandoffDone(t)
  BY <1>0, <1>13 DEF HandoffDone, TaskPC, Finished
<1>14. CASE HandoffWriteFails(t)
  BY <1>14 DEF HandoffWriteFails, TaskPC, Finished
<1>15. CASE CancelDelivered(t)
  <2>1. state' \in [Program -> ProgramState]
    BY <1>15 DEF CancelDelivered, ProgramState, Program
  <2>2. \E how \in TaskPC : Quit(t, how)
    BY <1>0, <1>15 DEF CancelDelivered
  <2>3. fresh' \subseteq Program
    BY <1>15 DEF CancelDelivered
  <2> QED BY <1>15, <2>1, <2>2, <2>3, QuitTypes DEF CancelDelivered
<1> QED
  BY <1>1, <1>2, <1>3, <1>4, <1>5, <1>6, <1>7, <1>8, <1>9, <1>10, <1>11,
     <1>12, <1>13, <1>14, <1>15 DEF TaskStep

\* A step of the dispatcher keeps every variable in its type.
LEMMA DispatcherTypes ==
    ASSUME TypeOK, DispatcherStep
    PROVE  TypeOK'
<1> USE DEF TypeOK, dispFrame, storeVars, taskVars, slotVars, dispVars, ingVars, mainVars
<1>1. CASE Check
  BY <1>1 DEF Check, Abort, DispatcherPC
<1>2. CASE Spawn
  BY <1>2 DEF Spawn, DispatcherPC, TaskPC, Live
<1>3. CASE GiveSlotBack
  BY <1>3 DEF GiveSlotBack, Abort, DispatcherPC
<1>4. CASE Gathered
  BY <1>4 DEF Gathered, DispatcherPC
<1>5. CASE \E t \in Tasks : Reap(t)
  BY <1>5 DEF Reap, DispatcherPC
<1> QED BY <1>1, <1>2, <1>3, <1>4, <1>5 DEF DispatcherStep

\* Sets of tasks are finite and their cardinalities are natural numbers.
LEMMA TaskSets ==
    ASSUME NEW S, S \subseteq Tasks
    PROVE  IsFiniteSet(S) /\ Cardinality(S) \in Nat
BY EngineAssumption, FS_Subset, FS_CardinalityType

\* A step of the ingestor keeps every variable in its type.
LEMMA IngestorTypes ==
    ASSUME TypeOK, IngestorStep
    PROVE  TypeOK'
<1> USE DEF TypeOK, storeVars, taskVars, slotVars, dispVars, ingVars, mainVars
<1>1. CASE Poll
  BY <1>1 DEF Poll, IngestorPC
<1>2. CASE IngestorExits
  BY <1>2 DEF IngestorExits, IngestorPC
<1>3. CASE Fetch
  BY <1>3 DEF Fetch, ForgetPoll, IngestorPC
<1>4. CASE Batch
  BY <1>4 DEF Batch, IngestorPC
<1>5. ASSUME NEW c \in Tasks, IngestOne(c)
      PROVE  TypeOK'
  <2>1. state' \in [Program -> ProgramState] /\ archive' \subseteq Program
    BY <1>5 DEF IngestOne, Accept, Evict, ProgramState, Program
  <2>2. /\ handled' \subseteq Tasks /\ rejects' \subseteq Tasks /\ todo' \subseteq Tasks
        /\ outcome_failures' \in [Tasks -> Nat]
        /\ i_pc' = i_pc
    BY <1>5 DEF IngestOne
  <2> QED BY <1>5, <2>1, <2>2 DEF IngestOne
<1>6. ASSUME NEW c \in Tasks, OutcomeRaises(c)
      PROVE  TypeOK'
  BY <1>6 DEF OutcomeRaises, ForgetPoll, IngestorPC
<1>7. CASE BatchDone
  BY <1>7 DEF BatchDone, IngestorPC
<1>8. CASE DiscardRejects
  BY <1>8 DEF DiscardRejects, IngestorPC, ProgramState
<1>9. CASE Release
  <2>1. Cardinality(handled) \in Nat /\ Cardinality(Released) \in Nat
    BY TaskSets DEF Released
  <2>2. i_pc' \in IngestorPC
    BY <1>9 DEF Release, PollEnds, IngestorPC
  <2>3. /\ programs_processed' \in Nat /\ buffer_free' \in Nat
        /\ held' \in [Tasks -> SUBSET Program]
        /\ in_flight' \subseteq Tasks /\ settled' \subseteq Tasks /\ fresh' \subseteq Program
    BY <1>9, <2>1 DEF Release, Released
  <2> QED BY <1>9, <2>2, <2>3 DEF Release, ForgetPoll
<1>10. CASE PollSnapshot
  BY <1>10 DEF PollSnapshot, PollEnds, IngestorPC
<1> QED
  BY <1>1, <1>2, <1>3, <1>4, <1>5, <1>6, <1>7, <1>8, <1>9, <1>10 DEF IngestorStep

\* A step of run() keeps every variable in its type.
LEMMA MainTypes ==
    ASSUME TypeOK, MainStep
    PROVE  TypeOK'
<1> USE DEF TypeOK, mainFrame, storeVars, taskVars, slotVars, dispVars, ingVars, mainVars
<1>1. CASE LoopEnded
  BY <1>1 DEF LoopEnded, Teardown, CancelDispatcher, DispatcherPC, MainPC
<1>2. CASE Drain
  BY <1>2 DEF Drain, MainPC
<1>3. CASE DrainFails
  BY <1>3 DEF DrainFails, Teardown, CancelDispatcher, DispatcherPC, MainPC
<1>4. CASE Join
  BY <1>4 DEF Join, MainPC
<1>5. CASE ExternalCancel
  BY <1>5 DEF ExternalCancel, Teardown, CancelDispatcher, ForgetPoll,
              DispatcherPC, MainPC, IngestorPC
<1>6. CASE StopClearsRunning
  BY <1>6 DEF StopClearsRunning
<1>7. CASE DispatcherJoined
  BY <1>7 DEF DispatcherJoined, MainPC
<1>8. CASE IngestorJoined
  BY <1>8 DEF IngestorJoined, ForgetPoll, MainPC, IngestorPC
<1>9. CASE SweepPoll
  BY <1>9 DEF SweepPoll, IngestorPC
<1>10. CASE SweepEnds
  BY <1>10 DEF SweepEnds, MainPC
<1>11. CASE Finalize
  BY <1>11 DEF Finalize, MainPC
<1> QED
  BY <1>1, <1>2, <1>3, <1>4, <1>5, <1>6, <1>7, <1>8, <1>9, <1>10, <1>11 DEF MainStep

\* A step of the DAG runner, as the engine sees it, keeps the types.
LEMMA DagTypes ==
    ASSUME TypeOK, NEW p \in Program, DagStart(p) \/ DagFinish(p)
    PROVE  TypeOK'
BY DEF TypeOK, storeVars, taskVars, slotVars, dispVars, ingVars, mainVars,
       DagStart, DagFinish, ProgramState

\* The initial state of the engine is type correct.
LEMMA InitTypes == Init => TypeOK
<1> SUFFICES ASSUME Init PROVE TypeOK
  OBVIOUS
<1>1. state \in [Program -> ProgramState] /\ archive \subseteq Program
  BY DEF Init, Program, ProgramState
<1>2. /\ pc \in [Tasks -> TaskPC]
      /\ parents \in [Tasks -> SUBSET Program]
      /\ targets \in [Tasks -> SUBSET Program]
      /\ flip \in [Tasks -> SUBSET Program]
      /\ held \in [Tasks -> SUBSET Program]
      /\ outcome_failures \in [Tasks -> Nat]
  BY DEF Init, TaskPC
<1>3. /\ producer_free \in Nat /\ buffer_free \in Nat
      /\ d_pc \in DispatcherPC /\ i_pc \in IngestorPC /\ m_pc \in MainPC
  BY EngineAssumption DEF Init, DispatcherPC, IngestorPC, MainPC
<1> QED BY <1>1, <1>2, <1>3 DEF Init, TypeOK

\* Every step of the engine keeps every variable in its type.
LEMMA NextTypes == TypeOK /\ [Next]_vars => TypeOK'
<1> SUFFICES ASSUME TypeOK, [Next]_vars PROVE TypeOK'
  OBVIOUS
<1>1. CASE UNCHANGED vars
  BY <1>1 DEF TypeOK, vars, storeVars, taskVars, slotVars, dispVars, ingVars, mainVars
<1>2. CASE Stopped
  BY <1>1, <1>2 DEF Stopped
<1> QED
  BY <1>1, <1>2, TaskTypes, DispatcherTypes, IngestorTypes, MainTypes, DagTypes DEF Next

\* TypeOK is an invariant of the engine for every instance.
THEOREM TypeCorrect == Spec => []TypeOK
BY InitTypes, NextTypes, PTL DEF Spec

-----------------------------------------------------------------------------
(***************************************************************************)
(* Slots. The moves a task can make, by what they do to the slots: stay    *)
(* Live, leave without a child, register a child, leave after that.        *)
(***************************************************************************)

SlotInvariant == HandedOver /\ LiveActive /\ SlotConservation

Before == Live \ {"snapshot"}

otherSlots == <<buffer_free, in_flight, settled, active>>

\* The phases of run_one_mutant, as sets of program counters.
LEMMA PhaseFacts ==
    /\ Before \cap {"snapshot", "child", "raised", "cancelled"} = {}
    /\ Live \cap Finished = {}
    /\ "unborn" \notin Live \cup Finished
    /\ {"snapshot"} \cup Before = Live
    /\ {"child", "raised", "cancelled", "none", "cancelled_add"} = Finished
    /\ Refreshing \cup {"selecting", "llm", "adding", "persisted", "handoff"} = Before
BY DEF Before, Live, Finished, Refreshing

\* A task that goes on before its registration moves no slot.
LEMMA StaysLive ==
    ASSUME TypeOK, SlotInvariant, NEW t \in Tasks, pc[t] \in Before,
           NEW x \in Before, pc' = [pc EXCEPT ![t] = x],
           producer_free' = producer_free, UNCHANGED otherSlots
    PROVE  SlotInvariant'
<1>1. LiveTasks' = LiveTasks
  BY PhaseFacts DEF TypeOK, LiveTasks, Before
<1>2. HandedOver' /\ LiveActive'
  BY PhaseFacts DEF TypeOK, SlotInvariant, HandedOver, LiveActive, otherSlots, Before
<1> QED BY <1>1, <1>2 DEF SlotInvariant, SlotConservation, otherSlots

\* A task that ends gives exactly its own producer slot back.
LEMMA LiveLeaves ==
    ASSUME TypeOK, NEW t \in Tasks, pc[t] \in Live, NEW x \in Finished,
           pc' = [pc EXCEPT ![t] = x]
    PROVE  Cardinality(LiveTasks') = Cardinality(LiveTasks) - 1
<1>1. LiveTasks' = LiveTasks \ {t} /\ t \in LiveTasks /\ LiveTasks \subseteq Tasks
  BY PhaseFacts DEF TypeOK, LiveTasks
<1> QED BY <1>1, TaskSets, FS_RemoveElement

\* A task that ends before it registered a child (an abort, a failure, a
\* cancellation) conserves the slots.
LEMMA LeavesEarly ==
    ASSUME TypeOK, SlotInvariant, NEW t \in Tasks, pc[t] \in Before,
           NEW x \in Finished, pc' = [pc EXCEPT ![t] = x],
           producer_free' = producer_free + 1, UNCHANGED otherSlots
    PROVE  SlotInvariant'
<1>1. Cardinality(LiveTasks') = Cardinality(LiveTasks) - 1
  BY LiveLeaves, PhaseFacts
<1>2. HandedOver' /\ LiveActive'
  BY PhaseFacts DEF TypeOK, SlotInvariant, HandedOver, LiveActive, otherSlots
<1>3. Cardinality(LiveTasks) \in Nat
  BY TaskSets DEF LiveTasks
<1>4. SlotConservation'
  BY <1>1, <1>3 DEF SlotInvariant, SlotConservation, otherSlots, TypeOK
<1> QED BY <1>2, <1>4 DEF SlotInvariant

\* A task that ends after it registered its child leaves the buffer slot to
\* the ingestor and gives only its producer slot back.
LEMMA LeavesLate ==
    ASSUME TypeOK, SlotInvariant, NEW t \in Tasks, pc[t] = "snapshot",
           NEW x \in {"child", "raised", "cancelled"}, pc' = [pc EXCEPT ![t] = x],
           producer_free' = producer_free + 1, UNCHANGED otherSlots
    PROVE  SlotInvariant'
<1>1. Cardinality(LiveTasks') = Cardinality(LiveTasks) - 1
  BY LiveLeaves, PhaseFacts
<1>2. HandedOver' /\ LiveActive'
  BY PhaseFacts DEF TypeOK, SlotInvariant, HandedOver, LiveActive, otherSlots
<1>3. Cardinality(LiveTasks) \in Nat
  BY TaskSets DEF LiveTasks
<1>4. SlotConservation'
  BY <1>1, <1>3 DEF SlotInvariant, SlotConservation, otherSlots, TypeOK
<1> QED BY <1>2, <1>4 DEF SlotInvariant

\* A step of a producer task, whatever interrupts it, conserves the slots.
LEMMA TaskSlots ==
    ASSUME TypeOK, SlotInvariant, NEW t \in Tasks, TaskStep(t)
    PROVE  SlotInvariant'
<1> USE DEF storeVars, taskVars, slotVars, dispVars, ingVars, mainVars, otherSlots
<1> USE PhaseFacts
<1>q. ASSUME NEW how \in Finished, Quit(t, how), pc[t] \in Before, UNCHANGED otherSlots
      PROVE  SlotInvariant'
  BY <1>q, LeavesEarly DEF Quit
<1>1. CASE SelectParents(t)
  <2>1. CASE archive = {}
    BY <1>1, <2>1, <1>q DEF SelectParents
  <2>2. CASE archive # {}
    BY <1>1, <2>2, StaysLive DEF SelectParents, Refreshing
  <2> QED BY <2>1, <2>2
<1>2. CASE AcquireLock(t)
  <2>1. CASE pc' = pc
    BY <1>2, <2>1 DEF AcquireLock, SlotInvariant, HandedOver, LiveActive,
                      SlotConservation, LiveTasks
  <2>2. ASSUME NEW x \in {"reading", "quiesce"}, pc' = [pc EXCEPT ![t] = x]
        PROVE  SlotInvariant'
    BY <1>2, <2>2, StaysLive DEF AcquireLock, Refreshing
  <2> QED BY <1>2, <2>1, <2>2 DEF AcquireLock
<1>3. CASE Quiesced(t)
  BY <1>3, StaysLive DEF Quiesced, Refreshing
<1>4. CASE FlipRead(t)
  BY <1>4, StaysLive DEF FlipRead, Refreshing
<1>5. CASE FlipWrite(t)
  <2>1. CASE flip[t] = targets[t]
    BY <1>5, <2>1, StaysLive DEF FlipWrite, Refreshing
  <2>2. CASE flip[t] # targets[t]
    BY <1>5, <2>2, <1>q DEF FlipWrite, Refreshing
  <2> QED BY <2>1, <2>2
<1>6. CASE Refreshed(t)
  <2>1. \E x \in {"reading", "llm"} : pc' = [pc EXCEPT ![t] = x]
    BY <1>6 DEF Refreshed, ReturnRefreshed
  <2> QED BY <1>6, <2>1, StaysLive DEF Refreshed, Refreshing
<1>7. CASE ReadFresh(t)
  BY <1>7, StaysLive DEF ReadFresh, ReturnRefreshed, Refreshing
<1>8. CASE RefreshFails(t)
  BY <1>8, <1>q DEF RefreshFails, Refreshing
<1>9. CASE LLMReturns(t)
  <2>1. CASE Quit(t, "none")
    BY <1>9, <2>1, <1>q DEF LLMReturns
  <2>2. CASE pc' = [pc EXCEPT ![t] = "adding"] /\ producer_free' = producer_free
    BY <1>9, <2>2, StaysLive DEF LLMReturns
  <2> QED BY <1>9, <2>1, <2>2 DEF LLMReturns
<1>10. CASE Persist(t)
  BY <1>10, StaysLive DEF Persist
<1>11. CASE ReturnChild(t)
  BY <1>11, StaysLive DEF ReturnChild
<1>12. CASE Handoff(t)
  <2>1. LiveTasks' = LiveTasks
    BY <1>12 DEF Handoff, LiveTasks, TypeOK
  <2>2. t \notin in_flight \cup settled
    BY <1>12 DEF Handoff, SlotInvariant, HandedOver, Before
  <2>3. Cardinality(in_flight') = Cardinality(in_flight) + 1
    BY <1>12, <2>2, TaskSets, FS_AddElement DEF Handoff, TypeOK
  <2>4. HandedOver' /\ LiveActive'
    BY <1>12 DEF Handoff, SlotInvariant, HandedOver, LiveActive, TypeOK
  <2>5. Cardinality(in_flight) \in Nat
    BY TaskSets DEF TypeOK
  <2> QED
    BY <1>12, <2>1, <2>3, <2>4, <2>5, EngineAssumption
    DEF Handoff, SlotInvariant, SlotConservation, TypeOK
<1>13. CASE HandoffDone(t)
  BY <1>13, LeavesLate DEF HandoffDone
<1>14. CASE HandoffWriteFails(t)
  BY <1>14, LeavesLate DEF HandoffWriteFails
<1>15. CASE CancelDelivered(t)
  <2>1. pc[t] \in Before
    BY <1>15 DEF CancelDelivered, Refreshing
  <2>2. \E how \in Finished : Quit(t, how)
    BY <1>15 DEF CancelDelivered
  <2> QED BY <1>15, <2>1, <2>2, <1>q DEF CancelDelivered
<1> QED
  BY <1>1, <1>2, <1>3, <1>4, <1>5, <1>6, <1>7, <1>8, <1>9, <1>10, <1>11,
     <1>12, <1>13, <1>14, <1>15 DEF TaskStep

\* The dispatcher takes one producer slot for the task it spawns and no other.
LEMMA DispatcherSlots ==
    ASSUME TypeOK, SlotInvariant, DispatcherStep
    PROVE  SlotInvariant'
<1> USE DEF dispFrame, storeVars, taskVars, slotVars, dispVars, ingVars, mainVars
<1> USE PhaseFacts
<1>1. CASE UNCHANGED <<pc, producer_free, active, buffer_free, in_flight, settled>>
  BY <1>1 DEF SlotInvariant, HandedOver, LiveActive, SlotConservation, LiveTasks
<1>2. CASE Spawn
  <2>1. PICK t \in Tasks : /\ pc[t] = "unborn"
                           /\ pc' = [pc EXCEPT ![t] = "selecting"]
                           /\ active' = active \cup {t}
    BY <1>2 DEF Spawn
  <2>2. HandedOver' /\ LiveActive'
    BY <1>2, <2>1 DEF Spawn, SlotInvariant, HandedOver, LiveActive, TypeOK
  <2>3. LiveTasks' = LiveTasks \cup {t} /\ t \notin LiveTasks /\ LiveTasks \subseteq Tasks
    BY <2>1 DEF LiveTasks, TypeOK
  <2>4. /\ Cardinality(LiveTasks') = Cardinality(LiveTasks) + 1
        /\ Cardinality(LiveTasks) \in Nat
    BY <2>3, TaskSets, FS_AddElement
  <2>5. SlotConservation'
    BY <1>2, <2>4 DEF Spawn, SlotInvariant, SlotConservation, TypeOK
  <2> QED BY <2>2, <2>5 DEF SlotInvariant
<1>3. ASSUME NEW t \in Tasks, Reap(t)
      PROVE  SlotInvariant'
  BY <1>3 DEF Reap, SlotInvariant, HandedOver, LiveActive, SlotConservation, LiveTasks
<1> QED
  BY <1>1, <1>2, <1>3 DEF DispatcherStep, Check, GiveSlotBack, Gathered

\* The ingestor gives back one buffer slot for each child it takes out.
LEMMA IngestorSlots ==
    ASSUME TypeOK, SlotInvariant, IngestorStep
    PROVE  SlotInvariant'
<1> USE DEF storeVars, taskVars, slotVars, dispVars, ingVars, mainVars
<1>1. CASE UNCHANGED <<pc, producer_free, active, buffer_free, in_flight, settled>>
  BY <1>1 DEF SlotInvariant, HandedOver, LiveActive, SlotConservation, LiveTasks
<1>2. CASE Release
  <2>1. HandedOver' /\ LiveActive'
    BY <1>2 DEF Release, Released, SlotInvariant, HandedOver, LiveActive, TypeOK
  <2>2. /\ Cardinality(in_flight') = Cardinality(in_flight) - Cardinality(Released)
        /\ Cardinality(in_flight) \in Nat /\ Cardinality(Released) \in Nat
    <3>1. in_flight \cap Released = Released /\ in_flight' = in_flight \ Released
      BY <1>2 DEF Release, Released
    <3>2. IsFiniteSet(in_flight) /\ Cardinality(in_flight) \in Nat
      BY TaskSets DEF TypeOK
    <3>3. Cardinality(Released) \in Nat
      BY TaskSets DEF TypeOK, Released
    <3>4. Cardinality(in_flight \ Released)
            = Cardinality(in_flight) - Cardinality(in_flight \cap Released)
      BY <3>2, FS_Difference, Zenon
    <3> QED BY <3>1, <3>2, <3>3, <3>4
  <2>3. SlotConservation'
    BY <1>2, <2>2 DEF Release, SlotInvariant, SlotConservation, LiveTasks, TypeOK
  <2> QED BY <2>1, <2>3 DEF SlotInvariant
<1> QED
  BY <1>1, <1>2 DEF IngestorStep, Poll, IngestorExits, Fetch, Batch, IngestOne,
     OutcomeRaises, BatchDone, DiscardRejects, PollSnapshot

\* run() itself moves no slot, whichever way it ends.
LEMMA MainSlots ==
    ASSUME TypeOK, SlotInvariant, MainStep
    PROVE  SlotInvariant'
<1>1. UNCHANGED <<pc, producer_free, active, buffer_free, in_flight, settled>>
  BY DEF mainFrame, storeVars, taskVars, slotVars, dispVars, ingVars, mainVars, MainStep,
     LoopEnded, Teardown, Drain, DrainFails, Join, ExternalCancel, StopClearsRunning,
     DispatcherJoined, IngestorJoined, SweepPoll, SweepEnds, Finalize
<1> QED BY <1>1 DEF SlotInvariant, HandedOver, LiveActive, SlotConservation, LiveTasks

\* The DAG runner moves no slot.
LEMMA DagSlots ==
    ASSUME SlotInvariant, NEW p \in Program, DagStart(p) \/ DagFinish(p)
    PROVE  SlotInvariant'
BY DEF DagStart, DagFinish, taskVars, slotVars, dispVars, SlotInvariant, HandedOver,
       LiveActive, SlotConservation, LiveTasks

\* The engine starts with every slot free.
LEMMA InitSlots == Init => SlotInvariant
<1> SUFFICES ASSUME Init PROVE SlotInvariant
  OBVIOUS
<1>1. LiveTasks = {} /\ in_flight = {}
  BY PhaseFacts DEF Init, LiveTasks
<1>2. SlotConservation
  BY <1>1, FS_EmptySet, EngineAssumption DEF Init, SlotConservation
<1>3. HandedOver /\ LiveActive
  BY PhaseFacts DEF Init, HandedOver, LiveActive
<1> QED BY <1>2, <1>3 DEF SlotInvariant

\* Every step of the engine preserves the slot invariant.
LEMMA NextSlots == TypeOK /\ SlotInvariant /\ [Next]_vars => SlotInvariant'
<1> SUFFICES ASSUME TypeOK, SlotInvariant, [Next]_vars PROVE SlotInvariant'
  OBVIOUS
<1>1. CASE UNCHANGED vars
  BY <1>1 DEF vars, taskVars, slotVars, dispVars, SlotInvariant, HandedOver,
              LiveActive, SlotConservation, LiveTasks
<1>2. CASE Stopped
  BY <1>1, <1>2 DEF Stopped
<1> QED
  BY <1>1, <1>2, TaskSlots, DispatcherSlots, IngestorSlots, MainSlots, DagSlots DEF Next

\* No failure, timeout, cancellation or sweep leaks or doubles a producer or a
\* buffer slot, whatever the number of tasks and slots.
THEOREM SlotsConserved == Spec => []SlotConservation
<1>1. Init => TypeOK /\ SlotInvariant
  BY InitTypes, InitSlots
<1>2. TypeOK /\ SlotInvariant /\ [Next]_vars => (TypeOK /\ SlotInvariant)'
  BY NextTypes, NextSlots
<1>3. TypeOK /\ SlotInvariant => SlotConservation
  BY DEF SlotInvariant
<1> QED BY <1>1, <1>2, <1>3, PTL DEF Spec

-----------------------------------------------------------------------------
(***************************************************************************)
(* SteadyState implements MutantPipeline: each step of the engine          *)
(* produces, admits or settles children, or leaves the pipeline alone.     *)
(***************************************************************************)
PipeStep == Pipeline!Step \/ UNCHANGED <<Waiting, in_flight, settled>>

\* A move of one task between phases in which no child of it waits does not
\* touch the pipeline.
LEMMA QuietMove ==
    ASSUME TypeOK, NEW t \in Tasks, NEW x,
           pc[t] \in {"persisted", "handoff"} <=> x \in {"persisted", "handoff"},
           pc' = [pc EXCEPT ![t] = x], UNCHANGED <<in_flight, settled>>
    PROVE  PipeStep
<1>1. Waiting' = Waiting
  BY DEF TypeOK, Waiting
<1> QED BY <1>1 DEF PipeStep

\* storage.add of a child produces it.
LEMMA PersistProduces ==
    ASSUME TypeOK, SlotInvariant, NEW t \in Tasks, Persist(t)
    PROVE  PipeStep
<1>1. Waiting' = Waiting \cup {t} /\ UNCHANGED <<in_flight, settled>>
  BY DEF Persist, slotVars, TypeOK, Waiting
<1>2. t \notin Waiting \cup in_flight \cup settled
  BY DEF Persist, Waiting, SlotInvariant, HandedOver
<1> QED BY <1>1, <1>2 DEF PipeStep, Pipeline!Step, Pipeline!Produce

\* The handoff admits a waiting child to a buffer that has a free place.
LEMMA HandoffAdmits ==
    ASSUME TypeOK, SlotInvariant, NEW t \in Tasks, Handoff(t)
    PROVE  PipeStep
<1>1. /\ Waiting' = Waiting \ {t} /\ t \in Waiting
      /\ in_flight' = in_flight \cup {t} /\ settled' = settled
  BY DEF Handoff, TypeOK, Waiting
<1>2. Cardinality(in_flight) \in Nat
  BY TaskSets DEF TypeOK
<1>3. Cardinality(in_flight) < MaxInFlight
  BY <1>2, EngineAssumption DEF Handoff, SlotInvariant, SlotConservation, TypeOK
<1>4. Pipeline!Cardinality(in_flight) = Cardinality(in_flight)
  BY Zenon DEF Pipeline!Cardinality, Cardinality
<1> QED BY <1>1, <1>3, <1>4 DEF PipeStep, Pipeline!Step, Pipeline!Admit

\* Every step of a producer task is a step of the pipeline or leaves it alone.
LEMMA TaskPipes ==
    ASSUME TypeOK, SlotInvariant, NEW t \in Tasks, TaskStep(t)
    PROVE  PipeStep
<1> USE DEF storeVars, taskVars, slotVars, dispVars, ingVars, mainVars
<1>q. ASSUME NEW how \in Finished, Quit(t, how), UNCHANGED <<in_flight, settled>>,
             pc[t] \notin {"persisted", "handoff"}
      PROVE  PipeStep
  BY <1>q, QuietMove DEF Quit, Finished
<1>1. CASE SelectParents(t)
  BY <1>1, <1>q, QuietMove DEF SelectParents, Finished
<1>2. CASE AcquireLock(t)
  <2>1. CASE pc' = pc
    BY <1>2, <2>1 DEF AcquireLock, Waiting, PipeStep
  <2>2. CASE \E x \in {"reading", "quiesce"} : pc' = [pc EXCEPT ![t] = x]
    BY <1>2, <2>2, QuietMove DEF AcquireLock
  <2> QED BY <1>2, <2>1, <2>2 DEF AcquireLock
<1>3. CASE Quiesced(t) \/ FlipRead(t)
  BY <1>3, QuietMove DEF Quiesced, FlipRead
<1>4. CASE FlipWrite(t)
  BY <1>4, <1>q, QuietMove DEF FlipWrite, Finished
<1>5. CASE Refreshed(t) \/ ReadFresh(t)
  BY <1>5, QuietMove DEF Refreshed, ReadFresh, ReturnRefreshed
<1>6. CASE RefreshFails(t)
  BY <1>6, <1>q DEF RefreshFails, Finished
<1>7. CASE LLMReturns(t)
  BY <1>7, <1>q, QuietMove DEF LLMReturns, Finished
<1>8. CASE ReturnChild(t)
  BY <1>8, QuietMove DEF ReturnChild
<1>9. CASE HandoffDone(t)
  <2>1. CASE Uninterrupted(t)
    BY <1>9, <2>1, QuietMove DEF HandoffDone
  <2>2. CASE ~Uninterrupted(t)
    BY <1>9, <2>2, QuietMove DEF HandoffDone
  <2> QED BY <2>1, <2>2
<1>10. CASE HandoffWriteFails(t)
  BY <1>10, QuietMove DEF HandoffWriteFails
<1>11. CASE CancelDelivered(t)
  BY <1>11, <1>q DEF CancelDelivered, Finished
<1> QED
  BY <1>1, <1>2, <1>3, <1>4, <1>5, <1>6, <1>7, <1>8, <1>9, <1>10, <1>11,
     PersistProduces, HandoffAdmits DEF TaskStep

\* The dispatcher starts and reaps tasks whose children do not wait.
LEMMA DispatcherPipes ==
    ASSUME TypeOK, DispatcherStep
    PROVE  PipeStep
<1> USE DEF dispFrame, taskVars
<1>1. CASE Spawn
  BY <1>1, QuietMove DEF Spawn
<1>2. CASE UNCHANGED <<pc, in_flight, settled>>
  BY <1>2 DEF PipeStep, Waiting
<1> QED
  BY <1>1, <1>2 DEF DispatcherStep, Check, GiveSlotBack, Gathered, Reap

\* A poll settles the children it releases, and does nothing else.
LEMMA IngestorPipes ==
    ASSUME TypeOK, IngestorStep
    PROVE  PipeStep
<1> USE DEF storeVars, taskVars, slotVars, dispVars, ingVars, mainVars
<1>1. CASE Release
  <2>1. /\ Released \in SUBSET in_flight
        /\ in_flight' = in_flight \ Released /\ settled' = settled \cup Released
        /\ Waiting' = Waiting
    BY <1>1 DEF Release, Released, Waiting
  <2>2. CASE Released = {}
    BY <2>1, <2>2 DEF PipeStep
  <2>3. CASE Released # {}
    BY <2>1, <2>3 DEF PipeStep, Pipeline!Step, Pipeline!Settle
  <2> QED BY <2>2, <2>3
<1>2. CASE UNCHANGED <<pc, in_flight, settled>>
  BY <1>2 DEF PipeStep, Waiting
<1> QED
  BY <1>1, <1>2 DEF IngestorStep, Poll, IngestorExits, Fetch, Batch, IngestOne,
     OutcomeRaises, BatchDone, DiscardRejects, PollSnapshot

\* run() and the DAG runner leave the pipeline alone.
LEMMA OthersPipe ==
    ASSUME MainStep \/ Stopped \/ UNCHANGED vars
           \/ \E p \in Program : DagStart(p) \/ DagFinish(p)
    PROVE  PipeStep
<1>1. UNCHANGED <<pc, in_flight, settled>>
  BY DEF Stopped, vars, mainFrame, storeVars, taskVars, slotVars, dispVars, ingVars,
     mainVars, MainStep, LoopEnded, Teardown, Drain, DrainFails, Join, ExternalCancel,
     StopClearsRunning, DispatcherJoined, IngestorJoined, SweepPoll, SweepEnds, Finalize,
     DagStart, DagFinish
<1> QED BY <1>1 DEF PipeStep, Waiting

\* The engine implements the pipeline: a persisted child is neither lost,
\* duplicated nor revived and never occupies more than max_in_flight places,
\* for every number of producers, slots and faults.
THEOREM PipelineImplemented == Spec => ImplementsPipeline
<1>1. Init => Pipeline!Empty
  BY DEF Init, Pipeline!Empty, Waiting
<1>2. Init => TypeOK /\ SlotInvariant
  BY InitTypes, InitSlots
<1>3. TypeOK /\ SlotInvariant /\ [Next]_vars => (TypeOK /\ SlotInvariant)'
  BY NextTypes, NextSlots
<1>4. TypeOK /\ SlotInvariant /\ [Next]_vars => [Pipeline!Step]_(Pipeline!pipeVars)
  <2> SUFFICES ASSUME TypeOK, SlotInvariant, [Next]_vars
               PROVE  [Pipeline!Step]_(Pipeline!pipeVars)
    OBVIOUS
  <2>1. PipeStep
    BY TaskPipes, DispatcherPipes, IngestorPipes, OthersPipe DEF Next
  <2> QED BY <2>1 DEF PipeStep, Pipeline!pipeVars
<1> QED BY <1>1, <1>2, <1>3, <1>4, PTL DEF Spec, ImplementsPipeline, Pipeline!Pipe

=============================================================================
