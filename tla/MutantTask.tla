----------------------------- MODULE MutantTask -----------------------------
(***************************************************************************)
(* run_one_mutant (engine/mutant_task.py) with generate_one_mutation       *)
(* (engine/mutation.py): one producer task, from the selection of its      *)
(* parents to the handoff of its persisted child to the ingestor.          *)
(***************************************************************************)
EXTENDS ParentRefresher

\* select_elites returns at most num_parents archive members; with an empty
\* archive the task sleeps and ends without a child.
SelectParents(t) ==
    /\ pc[t] = "selecting" /\ Uninterrupted(t)
    /\ \/ /\ archive # {}
          /\ \E P \in SUBSET archive :
                /\ P # {} /\ Cardinality(P) <= NumParents
                /\ parents' = [parents EXCEPT ![t] = P]
          /\ pc' = [pc EXCEPT ![t] = "locking"]
          /\ UNCHANGED <<targets, flip, held, producer_free>>
       \/ /\ archive = {}
          /\ Quit(t, "none")
          /\ UNCHANGED parents
    /\ UNCHANGED <<storeVars, cancelled, fresh, buffer_free, in_flight, settled,
                   mutations_created, programs_processed, dispVars, ingVars, mainVars>>

\* The mutation operator answers; without a usable answer, or when the
\* program cannot be built, generate_one_mutation returns None.
LLMReturns(t) ==
    /\ pc[t] = "llm" /\ Uninterrupted(t)
    /\ \/ pc' = [pc EXCEPT ![t] = "adding"] /\ UNCHANGED <<targets, flip, held, producer_free>>
       \/ "llm" \in Faults /\ Quit(t, "none")
    /\ UNCHANGED <<storeVars, parents, cancelled, fresh, buffer_free, in_flight,
                   settled, mutations_created, programs_processed, dispVars,
                   ingVars, mainVars>>

\* storage.add returns: the child exists, QUEUED, and its id must from now
\* on reach the ingestor whatever happens to the task.
Persist(t) ==
    /\ pc[t] = "adding" /\ Uninterrupted(t)
    /\ state' = [state EXCEPT ![t] = "QUEUED"]
    /\ pc' = [pc EXCEPT ![t] = "persisted"]
    /\ UNCHANGED <<evaluating, archive, parents, targets, flip, held, cancelled,
                   fresh, slotVars, dispVars, ingVars, mainVars>>

\* Mutated form: a cancellation during the lineage update ends the task.
ReturnChildAborts(t) ==
    /\ pc[t] = "persisted"
    /\ IF Uninterrupted(t)
       THEN pc' = [pc EXCEPT ![t] = "handoff"] /\ UNCHANGED <<targets, flip, held, producer_free>>
       ELSE Quit(t, "cancelled")
    /\ UNCHANGED <<storeVars, parents, cancelled, fresh, buffer_free, in_flight, settled,
                   mutations_created, programs_processed, dispVars, ingVars, mainVars>>

\* The lineage of the parents is updated (their state is kept); a failure,
\* and a cancellation too, is swallowed and the id is returned. The
\* cancellation is consumed.
ReturnChild(t) ==
    /\ pc[t] = "persisted"
    /\ pc' = [pc EXCEPT ![t] = "handoff"]
    /\ cancelled' = cancelled \ {t}
    /\ UNCHANGED <<storeVars, parents, targets, flip, held, fresh, slotVars,
                   dispVars, ingVars, mainVars>>

\* Mutated form: the ticket is released instead of moving with the child.
HandoffDropsTicket(t) ==
    /\ pc[t] = "handoff"
    /\ buffer_free > 0
    /\ buffer_free' = buffer_free - 1
    /\ in_flight' = in_flight \cup {t}
    /\ held' = [held EXCEPT ![t] = {}]
    /\ mutations_created' = mutations_created + 1
    /\ pc' = [pc EXCEPT ![t] = "snapshot"]
    /\ UNCHANGED <<storeVars, parents, targets, flip, cancelled, fresh,
                   producer_free, settled, programs_processed, dispVars, ingVars,
                   mainVars>>

\* handoff_persisted_child: wait for a buffer slot, then register the child
\* and its ticket under _in_flight_lock. It is shielded from cancellation.
\* (The lock's critical sections contain no await, so they are atomic.)
Handoff(t) ==
    /\ pc[t] = "handoff"
    /\ buffer_free > 0
    /\ buffer_free' = buffer_free - 1
    /\ in_flight' = in_flight \cup {t}
    /\ mutations_created' = mutations_created + 1
    /\ pc' = [pc EXCEPT ![t] = "snapshot"]
    /\ UNCHANGED <<storeVars, parents, targets, flip, held, cancelled, fresh,
                   producer_free, settled, programs_processed, dispVars, ingVars,
                   mainVars>>

\* The snapshot write at the end of the handoff, and the finally clause: the
\* producer slot is released, the buffer slot and the ticket belong to the
\* ingestor now. A failed write, or a deferred cancellation, surfaces here.
HandoffDone(t) ==
    /\ pc[t] = "snapshot"
    /\ pc' = [pc EXCEPT ![t] = IF Uninterrupted(t) THEN "child" ELSE "cancelled"]
    /\ producer_free' = producer_free + 1
    /\ UNCHANGED <<storeVars, parents, targets, flip, held, cancelled, fresh,
                   buffer_free, in_flight, settled, mutations_created,
                   programs_processed, dispVars, ingVars, mainVars>>

HandoffWriteFails(t) ==
    /\ pc[t] = "snapshot" /\ "snapshot" \in Faults
    /\ pc' = [pc EXCEPT ![t] = "raised"]
    /\ producer_free' = producer_free + 1
    /\ UNCHANGED <<storeVars, parents, targets, flip, held, cancelled, fresh,
                   buffer_free, in_flight, settled, mutations_created,
                   programs_processed, dispVars, ingVars, mainVars>>

\* CancelledError is raised at an await before the child is persisted. A
\* storage write the task was waiting for may have been applied or not; a
\* coalesced refresh takes back the freshness it has just recorded.
CancelDelivered(t) ==
    /\ t \in cancelled
    /\ \/ pc[t] \in {"selecting", "llm", "locking", "quiesce", "flip", "await", "reading"}
          /\ Quit(t, "cancelled") /\ UNCHANGED state
       \/ pc[t] = "flip_write"
          /\ Quit(t, "cancelled")
          /\ \/ UNCHANGED state
             \/ state' = [p \in Program |-> IF p \in flip[t] THEN "QUEUED" ELSE state[p]]
       \/ pc[t] = "adding"
          /\ Quit(t, "cancelled_add")
          /\ state' \in {state, [state EXCEPT ![t] = "QUEUED"]}
    /\ fresh' = IF pc[t] = "reading" THEN fresh \ targets[t] ELSE fresh
    /\ UNCHANGED <<evaluating, archive, parents, cancelled, buffer_free, in_flight,
                   settled, mutations_created, programs_processed, dispVars,
                   ingVars, mainVars>>

TaskStep(t) ==
    \/ SelectParents(t) \/ AcquireLock(t) \/ Quiesced(t) \/ FlipRead(t)
    \/ FlipWrite(t) \/ Refreshed(t) \/ ReadFresh(t) \/ RefreshFails(t)
    \/ LLMReturns(t) \/ Persist(t) \/ ReturnChild(t) \/ Handoff(t)
    \/ HandoffDone(t) \/ HandoffWriteFails(t) \/ CancelDelivered(t)

=============================================================================
