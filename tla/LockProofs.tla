----------------------------- MODULE LockProofs -----------------------------
(***************************************************************************)
(* The per-parent locks of ParentRefresher, for every instance of          *)
(* SteadyState: who owns them, that waiting for them ends, and what they   *)
(* protect.                                                                *)
(***************************************************************************)
EXTENDS ChildProofs, WellFoundedInduction

-----------------------------------------------------------------------------
(***************************************************************************)
(* Ownership. What a task holds agrees with where it is in its refresh: it *)
(* starts with nothing, takes its locks in sorted order, and covers with   *)
(* them what it flips.                                                     *)
(***************************************************************************)
Flipping == {"quiesce", "flip", "flip_write", "await"}

Owner(t) ==
    held[t] # {} => \/ pc[t] \in Refreshing
                    \/ ~Coalesce /\ pc[t] \in Live
                    \/ ~Coalesce /\ t \in in_flight

Sorted(t) == \A p \in held[t], q \in parents[t] \ held[t] : p <= q

LockPhase(t) ==
    /\ pc[t] \in {"unborn", "selecting"} => held[t] = {}
    /\ pc[t] = "locking" => parents[t] # {} /\ held[t] \subseteq parents[t] /\ Sorted(t)
    /\ pc[t] \in Flipping => targets[t] \subseteq held[t]
    /\ pc[t] = "flip_write" => flip[t] \subseteq targets[t]
    /\ ~Coalesce => /\ pc[t] # "reading"
                    /\ pc[t] \in Flipping => targets[t] = parents[t]

LockInvariant == LocksOwned /\ SettledReleased /\ \A t \in Tasks : LockPhase(t)

\* A step in which only task t moves: it takes only locks that are free, and
\* ends in a phase that agrees with what it holds.
LEMMA OneMoves ==
    ASSUME TypeOK, LockInvariant, NEW t \in Tasks,
           \A u \in Tasks \ {t} :
              /\ pc'[u] = pc[u] /\ held'[u] = held[u] /\ parents'[u] = parents[u]
              /\ targets'[u] = targets[u] /\ flip'[u] = flip[u],
           in_flight \subseteq in_flight', settled' = settled,
           \A p \in held'[t] : p \in held[t] \/ LockFree(p),
           LockPhase(t)', Owner(t)', t \in settled => held'[t] = {}
    PROVE  LockInvariant'
<1>1. \A u \in Tasks \ {t} : held'[u] \cap held'[t] = {}
  BY DEF LockInvariant, LocksOwned, LockFree
<1>2. \A u, v \in Tasks : u # v => held'[u] \cap held'[v] = {}
  BY <1>1 DEF LockInvariant, LocksOwned
<1>3. \A u \in Tasks : Owner(u)'
  BY DEF LockInvariant, LocksOwned, Owner
<1>4. \A u \in Tasks : LockPhase(u)'
  BY DEF LockInvariant, LockPhase, Sorted
<1>5. SettledReleased'
  BY DEF LockInvariant, SettledReleased, TypeOK
<1>6. LocksOwned'
  BY <1>2, <1>3 DEF LocksOwned, Owner
<1> QED BY <1>4, <1>5, <1>6 DEF LockInvariant

\* A task that quits gives every lock back.
LEMMA QuitLocks ==
    ASSUME TypeOK, LockInvariant, NEW t \in Tasks, NEW how \in Finished, Quit(t, how),
           UNCHANGED <<parents, in_flight, settled>>
    PROVE  LockInvariant'
<1>1. /\ held'[t] = {} /\ pc'[t] = how
      /\ \A u \in Tasks \ {t} :
              /\ pc'[u] = pc[u] /\ held'[u] = held[u] /\ parents'[u] = parents[u]
              /\ targets'[u] = targets[u] /\ flip'[u] = flip[u]
  BY DEF Quit, TypeOK
<1>2. LockPhase(t)' /\ Owner(t)'
  BY <1>1 DEF LockPhase, Owner, Finished, Flipping
<1> QED BY <1>1, <1>2, OneMoves

\* A lock is taken when it is free, and it is the least that is still wanted.
LEMMA AcquireLocks ==
    ASSUME TypeOK, SlotInvariant, LockInvariant, NEW t \in Tasks, AcquireLock(t)
    PROVE  LockInvariant'
<1>1. PICK p \in parents[t] \ held[t] :
          /\ \A q \in parents[t] \ held[t] : p <= q
          /\ LockFree(p)
          /\ held' = [held EXCEPT ![t] = @ \cup {p}]
          /\ IF parents[t] \ held[t] = {p}
             THEN /\ targets' = [targets EXCEPT ![t] = Stale(t)]
                  /\ pc' = [pc EXCEPT ![t] = IF Stale(t) = {} THEN "reading" ELSE "quiesce"]
             ELSE UNCHANGED <<targets, pc>>
  BY DEF AcquireLock
<1>2. /\ pc[t] = "locking" /\ UNCHANGED <<parents, flip, in_flight, settled>>
      /\ parents[t] # {} /\ held[t] \subseteq parents[t] /\ Sorted(t)
      /\ held'[t] = held[t] \cup {p}
  BY <1>1 DEF AcquireLock, slotVars, LockInvariant, LockPhase, TypeOK
<1>3. \A u \in Tasks \ {t} :
              /\ pc'[u] = pc[u] /\ held'[u] = held[u] /\ parents'[u] = parents[u]
              /\ targets'[u] = targets[u] /\ flip'[u] = flip[u]
  BY <1>1, <1>2 DEF TypeOK
<1>4. t \notin settled
  BY <1>2 DEF SlotInvariant, HandedOver
<1>5. CASE parents[t] \ held[t] = {p}
  <2>1. held'[t] = parents[t] /\ targets'[t] = Stale(t) /\ Stale(t) \subseteq parents[t]
    BY <1>1, <1>2, <1>5 DEF Stale, TypeOK
  <2>2. pc'[t] = IF Stale(t) = {} THEN "reading" ELSE "quiesce"
    BY <1>1, <1>5 DEF TypeOK
  <2>3. ~Coalesce => Stale(t) = parents[t] /\ pc'[t] = "quiesce"
    BY <1>2, <2>2 DEF Stale
  <2>4. LockPhase(t)'
    BY <1>2, <2>1, <2>2, <2>3 DEF LockPhase, Flipping
  <2>5. Owner(t)'
    BY <2>2 DEF Owner, Refreshing
  <2> QED BY <1>1, <1>2, <1>3, <1>4, <2>4, <2>5, OneMoves
<1>6. CASE parents[t] \ held[t] # {p}
  <2>1. pc'[t] = "locking" /\ parents'[t] = parents[t]
    BY <1>1, <1>2, <1>6
  <2>2. Sorted(t)'
    BY <1>1, <1>2 DEF Sorted
  <2>3. LockPhase(t)' /\ Owner(t)'
    BY <1>2, <2>1, <2>2 DEF LockPhase, Flipping, Owner, Refreshing
  <2> QED BY <1>1, <1>2, <1>3, <1>4, <2>3, OneMoves
<1> QED BY <1>5, <1>6

\* A move that takes no lock and keeps the locks it is entitled to.
LEMMA MoveLocks ==
    ASSUME TypeOK, SlotInvariant, LockInvariant, NEW t \in Tasks, NEW x \in TaskPC,
           pc' = [pc EXCEPT ![t] = x], UNCHANGED <<held, parents, targets, flip>>,
           in_flight \subseteq in_flight', settled' = settled,
           LockPhase(t)', Owner(t)'
    PROVE  LockInvariant'
<1>1. t \in settled => held'[t] = {}
  BY DEF LockInvariant, SettledReleased
<1> QED BY <1>1, OneMoves DEF TypeOK

\* The refresh returns: a coalesced one releases its locks, a ticket keeps
\* them, and they cover all parents.
LEMMA ReturnLocks ==
    ASSUME TypeOK, SlotInvariant, LockInvariant, NEW t \in Tasks, ReturnRefreshed(t),
           pc[t] \in Refreshing, UNCHANGED <<parents, flip, in_flight, settled>>
    PROVE  LockInvariant'
<1>1. /\ pc'[t] = "llm" /\ held'[t] \subseteq held[t] /\ (Coalesce => held'[t] = {})
      /\ \A u \in Tasks \ {t} :
              /\ pc'[u] = pc[u] /\ held'[u] = held[u] /\ parents'[u] = parents[u]
              /\ targets'[u] = targets[u] /\ flip'[u] = flip[u]
  BY DEF ReturnRefreshed, TypeOK
<1>2. t \notin settled
  BY DEF SlotInvariant, HandedOver, Refreshing
<1>3. LockPhase(t)' /\ Owner(t)'
  BY <1>1 DEF LockPhase, Owner, Flipping, Live
<1> QED BY <1>1, <1>2, <1>3, OneMoves

LEMMA TaskLocks ==
    ASSUME TypeOK, SlotInvariant, LockInvariant, NEW t \in Tasks, TaskStep(t)
    PROVE  LockInvariant'
<1> USE DEF slotVars
<1>0. LockPhase(t) /\ Owner(t)
  BY DEF LockInvariant, LocksOwned, Owner
<1>1. CASE SelectParents(t)
  <2>1. CASE archive = {}
    BY <1>1, <2>1, QuitLocks DEF SelectParents, Finished
  <2>2. CASE archive # {}
    <3>1. /\ pc' = [pc EXCEPT ![t] = "locking"] /\ UNCHANGED <<targets, flip, held>>
          /\ \E P \in SUBSET archive : P # {} /\ parents' = [parents EXCEPT ![t] = P]
      BY <1>1, <2>2 DEF SelectParents
    <3>2. /\ pc'[t] = "locking" /\ parents'[t] # {} /\ held[t] = {}
          /\ \A u \in Tasks \ {t} : pc'[u] = pc[u] /\ parents'[u] = parents[u]
      BY <1>0, <1>1, <3>1 DEF SelectParents, TypeOK, LockPhase
    <3>3. LockPhase(t)' /\ Owner(t)'
      BY <3>1, <3>2 DEF LockPhase, Owner, Sorted, Flipping
    <3> QED BY <1>1, <3>1, <3>2, <3>3, OneMoves DEF SelectParents
  <2> QED BY <2>1, <2>2
<1>2. CASE AcquireLock(t)
  BY <1>2, AcquireLocks
<1>3. CASE Quiesced(t)
  <2>1. pc'[t] = "flip"
    BY <1>3 DEF Quiesced, TypeOK
  <2>2. LockPhase(t)' /\ Owner(t)'
    BY <1>0, <1>3, <2>1 DEF Quiesced, LockPhase, Owner, Flipping, Refreshing
  <2> QED BY <1>3, <2>2, MoveLocks DEF Quiesced, TaskPC, Live, Refreshing
<1>4. CASE FlipRead(t)
  <2>1. /\ pc'[t] = "flip_write" /\ flip'[t] \subseteq targets[t]
        /\ UNCHANGED <<held, parents, targets, in_flight, settled>>
        /\ \A u \in Tasks \ {t} : pc'[u] = pc[u] /\ flip'[u] = flip[u]
    BY <1>4 DEF FlipRead, TypeOK
  <2>2. LockPhase(t)' /\ Owner(t)'
    BY <1>0, <1>4, <2>1 DEF FlipRead, LockPhase, Owner, Flipping, Refreshing
  <2>3. t \notin settled
    BY <1>4 DEF FlipRead, SlotInvariant, HandedOver
  <2> QED BY <2>1, <2>2, <2>3, OneMoves
<1>5. CASE FlipWrite(t)
  <2>1. CASE flip[t] # targets[t]
    BY <1>5, <2>1, QuitLocks DEF FlipWrite, Finished
  <2>2. CASE flip[t] = targets[t]
    <3>1. /\ pc'[t] = "await" /\ UNCHANGED <<held, parents, targets, in_flight, settled>>
          /\ \A u \in Tasks \ {t} : pc'[u] = pc[u] /\ flip'[u] = flip[u]
      BY <1>5, <2>2 DEF FlipWrite, TypeOK
    <3>2. LockPhase(t)' /\ Owner(t)'
      BY <1>0, <1>5, <3>1 DEF FlipWrite, LockPhase, Owner, Flipping, Refreshing
    <3>3. t \notin settled
      BY <1>5 DEF FlipWrite, SlotInvariant, HandedOver
    <3> QED BY <3>1, <3>2, <3>3, OneMoves
  <2> QED BY <2>1, <2>2
<1>6. CASE Refreshed(t)
  <2>1. CASE ReturnRefreshed(t)
    BY <1>6, <2>1, ReturnLocks DEF Refreshed, Refreshing
  <2>2. CASE ~ReturnRefreshed(t)
    <3>1. /\ Coalesce /\ pc' = [pc EXCEPT ![t] = "reading"]
          /\ UNCHANGED <<targets, held, parents, flip, in_flight, settled>>
      BY <1>6, <2>2 DEF Refreshed
    <3>2. pc'[t] = "reading" /\ "reading" \in TaskPC
      BY <3>1 DEF TypeOK, TaskPC, Live, Refreshing
    <3>3. LockPhase(t)' /\ Owner(t)'
      BY <3>1, <3>2 DEF LockPhase, Owner, Flipping, Refreshing
    <3> QED BY <3>1, <3>2, <3>3, MoveLocks
  <2> QED BY <2>1, <2>2
<1>7. CASE ReadFresh(t)
  BY <1>7, ReturnLocks DEF ReadFresh, Refreshing
<1>8. CASE RefreshFails(t)
  BY <1>8, QuitLocks DEF RefreshFails, Finished
<1>9. CASE LLMReturns(t)
  <2>1. CASE Quit(t, "none")
    BY <1>9, <2>1, QuitLocks DEF LLMReturns, Finished
  <2>2. CASE ~Quit(t, "none")
    <3>1. /\ pc[t] = "llm" /\ pc' = [pc EXCEPT ![t] = "adding"]
          /\ UNCHANGED <<targets, held, parents, flip, in_flight, settled>>
      BY <1>9, <2>2 DEF LLMReturns
    <3>2. pc'[t] = "adding" /\ "adding" \in TaskPC
      BY <3>1 DEF TypeOK, TaskPC, Live
    <3>3. LockPhase(t)' /\ Owner(t)'
      BY <1>0, <3>1, <3>2 DEF LockPhase, Owner, Flipping, Refreshing, Live
    <3> QED BY <3>1, <3>2, <3>3, MoveLocks
  <2> QED BY <2>1, <2>2
<1>10. CASE Persist(t) \/ ReturnChild(t) \/ Handoff(t)
  <2>1. /\ pc[t] \in {"adding", "persisted", "handoff"}
        /\ \E x \in {"persisted", "handoff", "snapshot"} : pc' = [pc EXCEPT ![t] = x]
        /\ UNCHANGED <<targets, held, parents, flip, settled>> /\ in_flight \subseteq in_flight'
    BY <1>10 DEF Persist, ReturnChild, Handoff
  <2>2. /\ pc'[t] \in {"persisted", "handoff", "snapshot"}
        /\ {"persisted", "handoff", "snapshot"} \subseteq TaskPC
    BY <2>1 DEF TypeOK, TaskPC, Live
  <2>3. LockPhase(t)' /\ Owner(t)'
    BY <1>0, <2>1, <2>2 DEF LockPhase, Owner, Flipping, Refreshing, Live
  <2> QED BY <2>1, <2>2, <2>3, MoveLocks
<1>11. CASE HandoffDone(t) \/ HandoffWriteFails(t)
  <2>1. /\ pc[t] = "snapshot"
        /\ \E x \in {"child", "cancelled", "raised"} : pc' = [pc EXCEPT ![t] = x]
        /\ UNCHANGED <<targets, held, parents, flip, settled, in_flight>>
    BY <1>11 DEF HandoffDone, HandoffWriteFails
  <2>2. /\ pc'[t] \in {"child", "cancelled", "raised"}
        /\ {"child", "cancelled", "raised"} \subseteq TaskPC
    BY <2>1 DEF TypeOK, TaskPC, Finished
  <2>3. held[t] # {} => ~Coalesce /\ t \in in_flight
    BY <1>0, <2>1 DEF LockInvariant, SettledReleased, SlotInvariant, HandedOver, Owner, Refreshing
  <2>4. LockPhase(t)' /\ Owner(t)'
    BY <2>1, <2>2, <2>3 DEF LockPhase, Owner, Flipping
  <2> QED BY <2>1, <2>2, <2>4, MoveLocks
<1>12. CASE CancelDelivered(t)
  <2>1. \E how \in Finished : Quit(t, how)
    BY <1>12 DEF CancelDelivered, Finished
  <2> QED BY <1>12, <2>1, QuitLocks DEF CancelDelivered
<1> QED
  BY <1>1, <1>2, <1>3, <1>4, <1>5, <1>6, <1>7, <1>8, <1>9, <1>10, <1>11, <1>12 DEF TaskStep

\* A new task holds nothing; the dispatcher takes no lock.
LEMMA DispatcherLocks ==
    ASSUME TypeOK, LockInvariant, DispatcherStep
    PROVE  LockInvariant'
<1>1. UNCHANGED <<held, parents, targets, flip, in_flight, settled>>
  BY DEF DispatcherStep, Check, Spawn, GiveSlotBack, Gathered, Reap, dispFrame, taskVars
<1>2. \A t \in Tasks : pc'[t] = pc[t] \/ (pc[t] = "unborn" /\ pc'[t] = "selecting")
  BY DEF DispatcherStep, Check, Spawn, GiveSlotBack, Gathered, Reap, taskVars, TypeOK
<1>3. \A t \in Tasks : Owner(t)' /\ LockPhase(t)'
  BY <1>1, <1>2 DEF LockInvariant, LocksOwned, Owner, LockPhase, Sorted, Flipping, Live, Refreshing
<1> QED BY <1>1, <1>3 DEF LockInvariant, LocksOwned, Owner, SettledReleased

\* The ingestor releases the ticket of every child it settles.
LEMMA IngestorLocks ==
    ASSUME TypeOK, SlotInvariant, LockInvariant, IngestorStep
    PROVE  LockInvariant'
<1> USE DEF taskVars, slotVars
<1>1. CASE Release
  <2>1. /\ UNCHANGED <<pc, parents, targets, flip>>
        /\ in_flight' = in_flight \ Released /\ settled' = settled \cup Released
        /\ \A t \in Tasks : held'[t] = IF t \in Released THEN {} ELSE held[t]
    BY <1>1 DEF Release
  <2>2. \A t \in Tasks : Owner(t)'
    BY <2>1 DEF LockInvariant, LocksOwned, Owner
  <2>3. \A t \in Tasks : pc[t] \in {"locking"} \cup Flipping => t \notin Released
    BY DEF SlotInvariant, HandedOver, Released, Flipping
  <2>4. \A t \in Tasks : LockPhase(t)'
    BY <2>1, <2>3 DEF LockInvariant, LockPhase, Sorted, Flipping
  <2>5. \A t, u \in Tasks : t # u => held'[t] \cap held'[u] = {}
    BY <2>1 DEF LockInvariant, LocksOwned
  <2>6. LocksOwned'
    BY <2>2, <2>5 DEF LocksOwned, Owner
  <2>7. SettledReleased'
    BY <2>1 DEF LockInvariant, SettledReleased, TypeOK, Released
  <2> QED BY <2>4, <2>6, <2>7 DEF LockInvariant
<1>2. CASE UNCHANGED <<pc, held, parents, targets, flip, in_flight, settled>>
  BY <1>2 DEF LockInvariant, LocksOwned, LockPhase, Sorted, SettledReleased
<1> QED
  BY <1>1, <1>2 DEF IngestorStep, Poll, IngestorExits, Fetch, Batch, IngestOne, OutcomeRaises,
     BatchDone, DiscardRejects, PollSnapshot

lockVars == <<pc, held, parents, targets, flip, in_flight, settled>>

\* run() and the DAG runner touch no lock.
LEMMA RestQuiet ==
    ASSUME MainStep \/ Stopped \/ UNCHANGED vars
             \/ \E p \in Program : DagStart(p) \/ DagFinish(p)
    PROVE  UNCHANGED lockVars
<1> USE DEF vars, lockVars, taskVars, slotVars, mainFrame
<1>1. CASE MainStep
  BY <1>1 DEF MainStep, LoopEnded, Teardown, Drain, DrainFails, Join, ExternalCancel,
     StopClearsRunning, DispatcherJoined, IngestorJoined, SweepPoll, SweepEnds, Finalize
<1> QED BY <1>1 DEF Stopped, DagStart, DagFinish

LEMMA NextLocks == TypeOK /\ SlotInvariant /\ LockInvariant /\ [Next]_vars => LockInvariant'
<1> SUFFICES ASSUME TypeOK, SlotInvariant, LockInvariant, [Next]_vars PROVE LockInvariant'
  OBVIOUS
<1>1. CASE UNCHANGED lockVars
  BY <1>1 DEF lockVars, LockInvariant, LocksOwned, LockPhase, Sorted, SettledReleased
<1> QED BY <1>1, TaskLocks, DispatcherLocks, IngestorLocks, RestQuiet DEF Next

LEMMA InitLocks == Init => LockInvariant
BY DEF Init, LockInvariant, LocksOwned, LockPhase, Flipping, SettledReleased

\* Everything the lock theorems build on holds always.
EngineInv == TypeOK /\ SlotInvariant /\ ChildInvariant /\ LockInvariant

LEMMA EngineStep == EngineInv /\ [Next]_vars => EngineInv'
BY NextTypes, NextSlots, NextLocks, TaskChildren, DispatcherChildren, IngestorChildren,
   MainChildren, DagChildren DEF Next, EngineInv

LEMMA EngineBegin == Init => EngineInv
BY InitTypes, InitSlots, InitChildren, InitLocks DEF EngineInv

\* No failure, timeout or cancellation strands a parent behind a lock nobody
\* will release, and no lock has two owners.
THEOREM LocksAreOwned == Spec => []LocksOwned
<1>1. EngineInv => LocksOwned
  BY DEF EngineInv, LockInvariant
<1> QED BY <1>1, EngineBegin, EngineStep, PTL DEF Spec

-----------------------------------------------------------------------------
(***************************************************************************)
(* Waiting for locks ends. Every task that waits wants only locks above    *)
(* those it holds, so along a chain of waiting tasks the wanted locks      *)
(* rise; among finitely many tasks no chain closes.                        *)
(***************************************************************************)

\* A finite nonempty set of naturals has a greatest element: a smallest finite
\* set without one cannot be.
LEMMA Greatest ==
    ASSUME NEW S \in SUBSET Nat, IsFiniteSet(S), S # {}
    PROVE  \E m \in S : \A n \in S : n <= m
<1> DEFINE Topless == {A \in FiniteSubsetsOf(Nat) :
                         A # {} /\ \A m \in A : \E n \in A : ~(n <= m)}
<1> SUFFICES ASSUME S \in Topless PROVE FALSE
  BY DEF FiniteSubsetsOf
<1>1. PICK A \in Topless : \A B \in Topless : <<B, A>> \notin StrictSubsetOrdering(Nat)
  <2>1. Topless \subseteq FiniteSubsetsOf(Nat) /\ Topless # {}
    OBVIOUS
  <2> HIDE DEF Topless
  <2> QED BY <2>1, FS_StrictSubsetOrderingWellFounded, WFMin
<1>2. PICK a \in A : TRUE
  OBVIOUS
<1>3. A \subseteq Nat /\ IsFiniteSet(A) /\ IsFiniteSet(A \ {a})
  BY FS_RemoveElement DEF FiniteSubsetsOf
<1>4. A \ {a} \notin Topless
  <2>1. <<A \ {a}, A>> \in StrictSubsetOrdering(Nat)
    BY <1>2, <1>3 DEF StrictSubsetOrdering
  <2> QED BY <1>1, <2>1
<1>5. CASE A \ {a} = {}
  BY <1>2, <1>3, <1>5
<1>6. CASE A \ {a} # {}
  <2>1. PICK m \in A \ {a} : \A n \in A \ {a} : n <= m
    BY <1>3, <1>4, <1>6 DEF FiniteSubsetsOf
  <2>2. m \in Nat /\ a \in Nat /\ \A n \in A : n = a \/ n <= m
    BY <1>2, <1>3, <2>1
  <2>3. (\A n \in A : n <= m) \/ (\A n \in A : n <= a)
    BY <1>3, <2>2
  <2> QED BY <1>2, <2>1, <2>3
<1> QED BY <1>5, <1>6

\* Within a set of tasks that all wait for one another there would be a lock,
\* held by one and wanted by another, above all such locks; but its owner waits
\* for a higher one.
LEMMA SortedNoCycle == TypeOK /\ LockInvariant => NoLockCycle
<1> SUFFICES ASSUME TypeOK, LockInvariant, NEW S \in (SUBSET Tasks) \ {{}}
             PROVE  \E t \in S : \A u \in S : Wanted(t) \cap held[u] = {}
  BY Zenon DEF NoLockCycle
<1> SUFFICES ASSUME \A t \in S : \E u \in S : Wanted(t) \cap held[u] # {}
             PROVE  FALSE
  BY Zenon
<1>0. S \subseteq Tasks /\ S # {}
  OBVIOUS
<1> DEFINE Contended == {p \in Program : \E t, u \in S : p \in Wanted(t) \cap held[u]}
<1>1. \A t \in S : Wanted(t) \subseteq Program
  BY <1>0 DEF TypeOK, Wanted
<1>2. \A t \in S : \E q \in Contended : q \in Wanted(t)
  BY <1>1
<1>3. Program \in SUBSET Nat /\ IsFiniteSet(Program)
  BY EngineAssumption, FS_Union DEF Program
<1>4. Contended \in SUBSET Nat /\ IsFiniteSet(Contended) /\ Contended # {}
  <2>1. Contended \subseteq Program
    OBVIOUS
  <2> HIDE DEF Contended
  <2> QED BY <1>0, <1>2, <1>3, <2>1, FS_Subset
<1>5. PICK p \in Contended : \A q \in Contended : q <= p
  <2> HIDE DEF Contended
  <2> QED BY <1>4, Greatest
<1>6. PICK u \in S : p \in held[u]
  OBVIOUS
<1>7. PICK q \in Contended : q \in Wanted(u)
  BY <1>2
<1>8. p <= q /\ p # q
  BY <1>0, <1>6, <1>7 DEF LockInvariant, LockPhase, Sorted, Wanted
<1>9. q <= p /\ p \in Nat /\ q \in Nat
  BY <1>4, <1>5
<1> QED BY <1>8, <1>9

\* However many tasks share parents, and whichever locks tickets keep, the
\* sorted acquisition admits no circle of refreshes waiting for one another.
THEOREM NoDeadlock == Spec => []NoLockCycle
<1>1. EngineInv => NoLockCycle
  BY SortedNoCycle DEF EngineInv
<1> QED BY <1>1, EngineBegin, EngineStep, PTL DEF Spec

-----------------------------------------------------------------------------
(***************************************************************************)
(* What the locks protect. A program is sent to evaluation by the task     *)
(* that adds it, by a flip under its lock, or by the DAG runner once it is *)
(* QUEUED; the others write DONE or DISCARDED.                             *)
(***************************************************************************)
\* A task that is about to add its child has not added it yet.
LEMMA NotYetAdded ==
    ASSUME SlotInvariant, ChildInvariant, NEW t \in Tasks, pc[t] = "adding"
    PROVE  state[t] = "ABSENT"
BY DEF SlotInvariant, HandedOver, ChildInvariant, NoGhostChild

\* A step of a task sends to evaluation what it flips under its locks, and its
\* own new child.
LEMMA TaskWrites ==
    ASSUME EngineInv, NEW t \in Tasks, TaskStep(t), NEW p \in Program, state'[p] # state[p]
    PROVE  \/ pc[t] = "flip_write" /\ p \in flip[t] /\ state'[p] = "QUEUED"
           \/ pc[t] = "adding" /\ p = t /\ state[p] = "ABSENT"
<1> USE DEF storeVars
<1>1. CASE FlipWrite(t)
  BY <1>1 DEF FlipWrite
<1>2. CASE Persist(t)
  <2>1. pc[t] = "adding" /\ state' = [state EXCEPT ![t] = "QUEUED"]
    BY <1>2 DEF Persist
  <2> QED BY <2>1, NotYetAdded DEF EngineInv, TypeOK
<1>3. CASE CancelDelivered(t)
  <2>1. CASE pc[t] = "adding"
    BY <1>3, <2>1, NotYetAdded DEF CancelDelivered, EngineInv, TypeOK
  <2>2. CASE pc[t] = "flip_write"
    BY <1>3, <2>2 DEF CancelDelivered
  <2> QED BY <1>3, <2>1, <2>2 DEF CancelDelivered
<1>4. CASE SelectParents(t) \/ AcquireLock(t) \/ Quiesced(t) \/ FlipRead(t) \/ Refreshed(t)
             \/ ReadFresh(t) \/ RefreshFails(t) \/ LLMReturns(t) \/ ReturnChild(t) \/ Handoff(t)
             \/ HandoffDone(t) \/ HandoffWriteFails(t)
  <2>1. state' = state
    BY <1>4 DEF SelectParents, AcquireLock, Quiesced, FlipRead, Refreshed, ReadFresh,
       RefreshFails, LLMReturns, ReturnChild, Handoff, HandoffDone, HandoffWriteFails
  <2> QED BY <2>1
<1> QED BY <1>1, <1>2, <1>3, <1>4 DEF TaskStep

\* Nobody else sends a program to evaluation that is not there already.
LEMMA OtherWrites ==
    ASSUME TypeOK, NEW p \in Program, state'[p] # state[p],
           \/ DispatcherStep \/ IngestorStep \/ MainStep \/ Stopped \/ UNCHANGED vars
           \/ \E q \in Program : DagStart(q) \/ DagFinish(q)
    PROVE  \/ state[p] = "QUEUED" /\ state'[p] = "RUNNING"
           \/ state'[p] \in {"DONE", "DISCARDED"}
<1> USE DEF storeVars
<1>1. CASE DispatcherStep
  BY <1>1 DEF DispatcherStep, Check, Spawn, GiveSlotBack, Gathered, Reap, dispFrame
<1>2. CASE IngestorStep
  <2>1. ASSUME NEW c \in Tasks, IngestOne(c) PROVE state'[p] = "DISCARDED"
    <3>1. CASE state' = state
      BY <3>1
    <3>2. CASE Evict(c)
      <4>1. PICK e \in archive \cup {c} : state' = [state EXCEPT ![e] = "DISCARDED"]
        BY <3>2 DEF Evict
      <4> QED BY <4>1 DEF TypeOK
    <3> QED BY <2>1, <3>1, <3>2 DEF IngestOne, Accept
  <2>2. CASE DiscardRejects
    BY <2>2 DEF DiscardRejects
  <2> QED BY <1>2, <2>1, <2>2 DEF IngestorStep, Poll, IngestorExits, Fetch, Batch,
         OutcomeRaises, BatchDone, Release, PollSnapshot
<1>3. CASE MainStep
  BY <1>3 DEF MainStep, mainFrame, LoopEnded, Drain, DrainFails, Join, ExternalCancel,
     StopClearsRunning, DispatcherJoined, IngestorJoined, SweepPoll, SweepEnds, Finalize
<1>4. CASE Stopped \/ UNCHANGED vars
  BY <1>4 DEF Stopped, vars
<1>5. ASSUME NEW q \in Program, DagStart(q) \/ DagFinish(q)
      PROVE  \/ state[p] = "QUEUED" /\ state'[p] = "RUNNING"
             \/ state'[p] \in {"DONE", "DISCARDED"}
  BY <1>5 DEF DagStart, DagFinish, TypeOK
<1> QED BY <1>1, <1>2, <1>3, <1>4, <1>5

\* Parents come from the archive, so they are in storage, and stay there.
ParentsKnown == \A t \in Tasks : parents[t] \subseteq Present

LEMMA KnownStep == EngineInv /\ ParentsKnown /\ [Next]_vars => ParentsKnown'
<1> SUFFICES ASSUME EngineInv, ParentsKnown, [Next]_vars PROVE ParentsKnown'
  OBVIOUS
<1>1. Present \subseteq Present'
  <2> SUFFICES ASSUME NEW p \in Program, state[p] # "ABSENT" PROVE state'[p] # "ABSENT"
    BY DEF Present
  <2>1. ASSUME NEW t \in Tasks, TaskStep(t) PROVE state'[p] # "ABSENT"
    BY <2>1, TaskWrites
  <2> QED BY <2>1, OtherWrites DEF EngineInv, Next
<1>2. ASSUME NEW t \in Tasks, SelectParents(t) PROVE ParentsKnown'
  <2>1. archive \subseteq Present
    BY DEF EngineInv, ChildInvariant, KnownPrograms
  <2>2. parents' = parents \/ \E P \in SUBSET archive : parents' = [parents EXCEPT ![t] = P]
    BY <1>2 DEF SelectParents
  <2>3. \A u \in Tasks : parents'[u] \subseteq Present
    BY <2>1, <2>2 DEF EngineInv, TypeOK, ParentsKnown
  <2> QED BY <1>1, <2>3 DEF ParentsKnown
<1>3. ASSUME parents' = parents PROVE ParentsKnown'
  BY <1>1, <1>3 DEF ParentsKnown
<1>4. ASSUME NEW t \in Tasks, TaskStep(t) PROVE SelectParents(t) \/ parents' = parents
  BY <1>4 DEF TaskStep, AcquireLock, Quiesced, FlipRead, FlipWrite, Refreshed, ReadFresh,
     RefreshFails, LLMReturns, Persist, ReturnChild, Handoff, HandoffDone, HandoffWriteFails,
     CancelDelivered
<1>5. ASSUME DispatcherStep \/ IngestorStep PROVE parents' = parents
  BY <1>5 DEF taskVars, DispatcherStep, Check, Spawn, GiveSlotBack, Gathered, Reap, dispFrame,
     IngestorStep, Poll, IngestorExits, Fetch, Batch, IngestOne, OutcomeRaises, BatchDone,
     DiscardRejects, Release, PollSnapshot
<1> QED BY <1>2, <1>3, <1>4, <1>5, RestQuiet DEF Next, lockVars

\* Where the parents of a child are pinned, and by what.
Pinning(t) == pc[t] \in {"llm", "adding", "persisted", "handoff"} \/ t \in in_flight

Pinned == \A t \in Tasks : Pinning(t) =>
             \A p \in parents[t] : p \in held[t] /\ state[p] \notin {"QUEUED", "RUNNING"}

\* A step of one task leaves the others where they are.
LEMMA OtherTask ==
    ASSUME TypeOK, NEW u \in Tasks, NEW t \in Tasks \ {u}, TaskStep(u)
    PROVE  /\ pc'[t] = pc[t] /\ held'[t] = held[t] /\ parents'[t] = parents[t]
           /\ targets'[t] = targets[t] /\ (t \in in_flight' => t \in in_flight)
<1> USE DEF slotVars, TypeOK
<1>q. ASSUME NEW how, Quit(u, how), UNCHANGED <<parents, in_flight>>
      PROVE  /\ pc'[t] = pc[t] /\ held'[t] = held[t] /\ parents'[t] = parents[t]
             /\ targets'[t] = targets[t] /\ (t \in in_flight' => t \in in_flight)
  BY <1>q DEF Quit
<1>1. CASE SelectParents(u) \/ LLMReturns(u)
  BY <1>1, <1>q DEF SelectParents, LLMReturns
<1>2. CASE AcquireLock(u)
  BY <1>2 DEF AcquireLock
<1>3. CASE Quiesced(u) \/ FlipRead(u) \/ RefreshFails(u)
  BY <1>3, <1>q DEF Quiesced, FlipRead, RefreshFails
<1>4. CASE FlipWrite(u)
  BY <1>4, <1>q DEF FlipWrite
<1>5. CASE Refreshed(u) \/ ReadFresh(u)
  BY <1>5 DEF Refreshed, ReadFresh, ReturnRefreshed
<1>6. CASE Persist(u) \/ ReturnChild(u) \/ Handoff(u)
  BY <1>6 DEF Persist, ReturnChild, Handoff
<1>7. CASE HandoffDone(u) \/ HandoffWriteFails(u)
  BY <1>7 DEF HandoffDone, HandoffWriteFails
<1>8. CASE CancelDelivered(u)
  BY <1>8, <1>q DEF CancelDelivered
<1> QED BY <1>1, <1>2, <1>3, <1>4, <1>5, <1>6, <1>7, <1>8 DEF TaskStep

\* A task that enters the pinned phase comes from its own refresh, with all
\* parents DONE and all locks kept; afterwards it keeps them.
LEMMA OwnPinning ==
    ASSUME ~Coalesce, EngineInv, NEW t \in Tasks, TaskStep(t), Pinning(t)'
    PROVE  /\ pc[t] # "flip_write" /\ parents' = parents /\ held' = held
           /\ Pinning(t) \/ (pc[t] = "await" /\ AllDone(targets[t]))
<1> USE DEF slotVars, Pinning
<1>0. /\ TypeOK /\ pc[t] # "reading"
      /\ t \in in_flight => pc[t] \notin Before
  BY PhaseFacts DEF EngineInv, LockInvariant, LockPhase, SlotInvariant, HandedOver
<1>q. ASSUME NEW how \in Finished, Quit(t, how), in_flight' = in_flight, pc[t] \in Before
      PROVE  FALSE
  BY <1>0, <1>q DEF Quit, TypeOK, Finished
<1>p. ASSUME NEW x \in Refreshing, pc' = [pc EXCEPT ![t] = x], in_flight' = in_flight,
             pc[t] \in Before
      PROVE  FALSE
  BY <1>0, <1>p DEF TypeOK, Refreshing
<1>f. {"none", "cancelled", "cancelled_add"} \subseteq Finished
  BY DEF Finished
<1>b. Refreshing \cup {"selecting", "llm", "adding", "persisted", "handoff"} = Before
  BY PhaseFacts
<1>1. CASE SelectParents(t)
  BY <1>1, <1>q, <1>p, <1>f, <1>b DEF SelectParents, Refreshing
<1>2. CASE AcquireLock(t)
  <2>1. \E x \in Refreshing : pc' = [pc EXCEPT ![t] = x]
    BY <1>0, <1>2 DEF AcquireLock, TypeOK, Refreshing
  <2> QED BY <1>2, <2>1, <1>p, <1>b DEF AcquireLock, Refreshing
<1>3. CASE Quiesced(t) \/ FlipRead(t)
  BY <1>3, <1>p, <1>b DEF Quiesced, FlipRead, Refreshing
<1>4. CASE FlipWrite(t) \/ RefreshFails(t)
  BY <1>4, <1>q, <1>p, <1>f, <1>b DEF FlipWrite, RefreshFails, Refreshing
<1>5. CASE Refreshed(t)
  BY <1>5 DEF Refreshed, ReturnRefreshed
<1>6. CASE ReadFresh(t)
  BY <1>0, <1>6 DEF ReadFresh
<1>7. CASE LLMReturns(t)
  BY <1>7, <1>q, <1>f, <1>b DEF LLMReturns
<1>8. CASE Persist(t) \/ ReturnChild(t) \/ Handoff(t)
  BY <1>8 DEF Persist, ReturnChild, Handoff
<1>9. CASE HandoffDone(t) \/ HandoffWriteFails(t)
  BY <1>0, <1>9 DEF HandoffDone, HandoffWriteFails, TypeOK
<1>10. CASE CancelDelivered(t)
  BY <1>10, <1>q, <1>f, <1>b DEF CancelDelivered, Refreshing
<1> QED
  BY <1>1, <1>2, <1>3, <1>4, <1>5, <1>6, <1>7, <1>8, <1>9, <1>10 DEF TaskStep

\* The other actors leave the locks of a pinned child alone.
LEMMA OtherPinning ==
    ASSUME EngineInv, NEW t \in Tasks, Pinning(t)',
           \/ DispatcherStep \/ IngestorStep \/ MainStep \/ Stopped \/ UNCHANGED vars
           \/ \E p \in Program : DagStart(p) \/ DagFinish(p)
    PROVE  Pinning(t) /\ parents' = parents /\ held'[t] = held[t]
<1> USE DEF slotVars, taskVars, Pinning
<1>1. CASE DispatcherStep
  BY <1>1 DEF DispatcherStep, Check, Spawn, GiveSlotBack, Gathered, Reap, dispFrame, EngineInv,
     TypeOK
<1>2. CASE Release
  BY <1>2 DEF Release, Released, EngineInv, SlotInvariant, HandedOver
<1>3. CASE IngestorStep /\ ~Release
  BY <1>3 DEF IngestorStep, Poll, IngestorExits, Fetch, Batch, IngestOne, OutcomeRaises,
     BatchDone, DiscardRejects, PollSnapshot
<1>4. CASE UNCHANGED lockVars
  BY <1>4 DEF lockVars
<1> QED BY <1>1, <1>2, <1>3, <1>4, RestQuiet DEF IngestorStep

\* While the parents of a child are pinned only the task that holds their locks
\* could send them to evaluation, and it is past its refresh.
LEMMA PinnedStep ==
    ~Coalesce /\ EngineInv /\ ParentsKnown /\ Pinned /\ [Next]_vars => Pinned'
<1> SUFFICES ASSUME ~Coalesce, EngineInv, ParentsKnown, Pinned, [Next]_vars,
                    NEW t \in Tasks, Pinning(t)', NEW p \in parents'[t]
             PROVE  p \in held'[t] /\ state'[p] \notin {"QUEUED", "RUNNING"}
  BY DEF Pinned
<1>1. /\ parents'[t] = parents[t] /\ held'[t] = held[t]
      /\ \/ Pinning(t)
         \/ pc[t] = "await" /\ AllDone(targets[t])
      /\ TaskStep(t) => pc[t] # "flip_write"
  <2>1. CASE TaskStep(t)
    BY <2>1, OwnPinning
  <2>2. ASSUME ~TaskStep(t), NEW u \in Tasks \ {t}, TaskStep(u)
        PROVE  parents'[t] = parents[t] /\ held'[t] = held[t] /\ Pinning(t)
    BY <2>2, OtherTask DEF EngineInv, Pinning
  <2>3. ASSUME DispatcherStep \/ IngestorStep \/ MainStep \/ Stopped \/ UNCHANGED vars
                 \/ \E q \in Program : DagStart(q) \/ DagFinish(q),
               ~TaskStep(t)
        PROVE  parents'[t] = parents[t] /\ held'[t] = held[t] /\ Pinning(t)
    BY <2>3, OtherPinning
  <2> QED BY <2>1, <2>2, <2>3 DEF Next
<1>2. p \in held[t] /\ state[p] \notin {"QUEUED", "RUNNING"} /\ p \in Program
      /\ state[p] # "ABSENT"
  <2>1. p \in Program /\ state[p] # "ABSENT"
    BY <1>1 DEF ParentsKnown, Present
  <2>2. CASE Pinning(t)
    BY <1>1, <2>1, <2>2 DEF Pinned
  <2>3. CASE pc[t] = "await" /\ AllDone(targets[t])
    BY <1>1, <2>1, <2>3 DEF AllDone, EngineInv, LockInvariant, LockPhase, Flipping
  <2> QED BY <1>1, <2>2, <2>3
<1>3. ASSUME NEW u \in Tasks, TaskStep(u) PROVE state'[p] = state[p]
  <2>1. ASSUME pc[u] = "flip_write", p \in flip[u] PROVE FALSE
    <3>1. p \in held[u]
      BY <2>1 DEF EngineInv, LockInvariant, LockPhase, Flipping
    <3>2. u = t
      BY <1>2, <3>1 DEF EngineInv, LockInvariant, LocksOwned
    <3> QED BY <1>1, <1>3, <2>1, <3>2
  <2> QED BY <1>2, <1>3, <2>1, TaskWrites
<1> QED BY <1>1, <1>2, <1>3, OtherWrites DEF Next, EngineInv

\* From its refresh to the release of its child by the ingestor, a ticket keeps
\* its parents out of evaluation, whatever the other tasks, the archive, the
\* DAG runner or a cancellation do.
THEOREM TicketsPin == Spec => []ParentsPinned
<1> DEFINE Inv == EngineInv /\ ParentsKnown /\ (~Coalesce => Pinned)
<1>1. Init => Inv
  <2> SUFFICES ASSUME Init PROVE ParentsKnown /\ Pinned
    BY EngineBegin
  <2> QED BY DEF Init, ParentsKnown, Pinned, Pinning
<1>2. Inv /\ [Next]_vars => Inv'
  BY EngineStep, KnownStep, PinnedStep
<1>3. Inv => ParentsPinned
  BY DEF ParentsPinned, Pinned, Pinning
<1> QED BY <1>1, <1>2, <1>3, PTL DEF Spec

-----------------------------------------------------------------------------
(***************************************************************************)
(* Coalesced refreshes. While a task holds the lock of a stale parent      *)
(* nobody else can record that parent as fresh.                            *)
(***************************************************************************)
StaleTargets == Coalesce => \A t \in Tasks : pc[t] \in Flipping => targets[t] \cap fresh = {}

LEMMA StaleStep == EngineInv /\ StaleTargets /\ [Next]_vars => StaleTargets'
<1> SUFFICES ASSUME EngineInv, StaleTargets, [Next]_vars, Coalesce,
                    NEW t \in Tasks, pc'[t] \in Flipping, NEW p \in targets'[t], p \in fresh'
             PROVE  FALSE
  BY DEF StaleTargets
<1>1. ASSUME pc[t] \in Flipping, targets'[t] = targets[t], fresh' \subseteq fresh PROVE FALSE
  BY <1>1 DEF StaleTargets
<1>2. ASSUME NEW u \in Tasks, Refreshed(u) PROVE FALSE
  <2>1. pc[u] = "await" /\ fresh' = fresh \cup targets[u]
    BY <1>2 DEF Refreshed
  <2>2. u # t
    BY <1>2 DEF Refreshed, ReturnRefreshed, EngineInv, TypeOK, Flipping
  <2>3. pc[t] \in Flipping /\ targets'[t] = targets[t]
    BY <1>2, <2>2, OtherTask DEF TaskStep, EngineInv
  <2>4. p \in targets[u] /\ p \in targets[t]
    BY <2>1, <2>3 DEF StaleTargets
  <2>5. p \in held[u] /\ p \in held[t]
    BY <2>1, <2>3, <2>4 DEF EngineInv, LockInvariant, LockPhase, Flipping
  <2> QED BY <2>2, <2>5 DEF EngineInv, LockInvariant, LocksOwned
<1>3. ASSUME NEW u \in Tasks, TaskStep(u), ~Refreshed(u), u # t PROVE FALSE
  <2>1. fresh' \subseteq fresh
    BY <1>3 DEF TaskStep, SelectParents, AcquireLock, Quiesced, FlipRead, FlipWrite, ReadFresh,
       RefreshFails, LLMReturns, Persist, ReturnChild, Handoff, HandoffDone, HandoffWriteFails,
       CancelDelivered
  <2> QED BY <1>1, <1>3, <2>1, OtherTask DEF EngineInv
<1>4. CASE AcquireLock(t)
  <2>1. fresh' = fresh
    BY <1>4 DEF AcquireLock
  <2>2. CASE pc'[t] = "quiesce"
    <3>1. targets'[t] = Stale(t)
      BY <1>4, <2>2 DEF AcquireLock, EngineInv, TypeOK
    <3> QED BY <2>1, <3>1 DEF Stale
  <2>3. CASE pc'[t] # "quiesce"
    BY <1>4, <2>3 DEF AcquireLock, EngineInv, TypeOK, Flipping
  <2> QED BY <2>2, <2>3
<1>5. CASE Quiesced(t) \/ FlipRead(t)
  BY <1>1, <1>5 DEF Quiesced, FlipRead, Flipping
<1>6. CASE FlipWrite(t)
  <2>1. CASE flip[t] = targets[t]
    BY <1>1, <1>6, <2>1 DEF FlipWrite, Flipping
  <2>2. CASE flip[t] # targets[t]
    BY <1>6, <2>2 DEF FlipWrite, Quit, Flipping, EngineInv, TypeOK
  <2> QED BY <2>1, <2>2
<1>7. ASSUME TaskStep(t), ~Refreshed(t), ~AcquireLock(t), ~Quiesced(t), ~FlipRead(t), ~FlipWrite(t)
      PROVE  FALSE
  BY <1>7 DEF TaskStep, SelectParents, ReadFresh, ReturnRefreshed, RefreshFails, LLMReturns,
     Persist, ReturnChild, Handoff, HandoffDone, HandoffWriteFails, CancelDelivered, Quit,
     Flipping, EngineInv, TypeOK
<1>8. CASE DispatcherStep
  BY <1>1, <1>8 DEF DispatcherStep, Check, Spawn, GiveSlotBack, Gathered, Reap, dispFrame,
     taskVars, EngineInv, TypeOK, Flipping
<1>9. CASE IngestorStep
  BY <1>1, <1>9 DEF taskVars, IngestorStep, Poll, IngestorExits, Fetch, Batch, IngestOne,
     OutcomeRaises, BatchDone, DiscardRejects, Release, PollSnapshot
<1>10. ASSUME MainStep \/ Stopped \/ UNCHANGED vars
                \/ \E q \in Program : DagStart(q) \/ DagFinish(q)
       PROVE  FALSE
  <2>1. fresh' = fresh
    BY <1>10 DEF Stopped, vars, taskVars, DagStart, DagFinish, MainStep, mainFrame, LoopEnded,
       Drain, DrainFails, Join, ExternalCancel, StopClearsRunning, DispatcherJoined,
       IngestorJoined, SweepPoll, SweepEnds, Finalize
  <2> QED BY <1>1, <1>10, <2>1, RestQuiet DEF lockVars
<1> QED BY <1>2, <1>3, <1>4, <1>5, <1>6, <1>7, <1>8, <1>9, <1>10 DEF Next

\* However many tasks share a parent, it is flipped only while it is not in
\* _fresh: a refresh that waited for the lock sees what the one before it
\* recorded, and nobody records anything while a flip is under way.
THEOREM FlipsAreStale == Spec => FlipOnlyStale
<1> DEFINE A == Coalesce => \A p \in Program :
                  state[p] = "DONE" /\ state'[p] = "QUEUED" => p \notin fresh
<1>1. Init => EngineInv /\ StaleTargets
  <2>1. Init => StaleTargets
    BY DEF Init, StaleTargets
  <2> QED BY <2>1, EngineBegin
<1>2. EngineInv /\ StaleTargets /\ [Next]_vars => (EngineInv /\ StaleTargets)'
  BY EngineStep, StaleStep
<1>3. EngineInv /\ StaleTargets /\ [Next]_vars => [A]_vars
  <2> SUFFICES ASSUME EngineInv, StaleTargets, [Next]_vars, Coalesce,
                      NEW p \in Program, state[p] = "DONE", state'[p] = "QUEUED"
               PROVE  p \notin fresh
    OBVIOUS
  <2>1. PICK u \in Tasks : TaskStep(u)
    BY OtherWrites DEF Next, EngineInv
  <2>2. pc[u] = "flip_write" /\ p \in flip[u]
    BY <2>1, TaskWrites
  <2> QED BY <2>2 DEF StaleTargets, EngineInv, LockInvariant, LockPhase, Flipping
<1> QED BY <1>1, <1>2, <1>3, PTL DEF Spec, FlipOnlyStale

=============================================================================
