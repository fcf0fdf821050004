----------------------------- MODULE Dispatcher -----------------------------
(***************************************************************************)
(* dispatcher_loop (engine/dispatcher.py): hands out producer slots, reaps *)
(* finished tasks and stops at the stopper's decision.                     *)
(***************************************************************************)
EXTENDS EngineState

dispFrame == <<storeVars, buffer_free, in_flight, settled, mutations_created,
               programs_processed, ingVars, mainVars>>

\* The loop inspects the task objects themselves before it decides: a
\* decision is only taken when no finished task is left in active.
AllReaped == \A t \in active : pc[t] \notin Finished

\* task_finished, from the done callback or from the loop: they are the same
\* function and the loop's inspection may reap in any order.
Reap(t) ==
    /\ t \in active /\ pc[t] \in Finished
    /\ active' = active \ {t}
    /\ consecutive_empty' = CASE pc[t] = "child" -> 0
                              [] pc[t] = "none"  -> consecutive_empty + 1
                              [] OTHER           -> consecutive_empty
    /\ failed' = \/ failed
                 \/ pc[t] = "raised"
                 \/ pc[t] = "none" /\ consecutive_empty + 1 >= MaxEmpty
    /\ d_pc' = IF d_pc = "wait" THEN "loop" ELSE d_pc
    /\ UNCHANGED <<dispFrame, taskVars, producer_free, terminal>>

\* The stopper's decision: the mutant cap, or another stopper of a composite
\* (wall clock, plateau), which the model lets fire at any consultation.
MayDecideStop(stop) ==
    \/ stop = (mutations_created >= MaxMutants)
    \/ "clock" \in Faults /\ stop = TRUE

\* Mutated form: concurrent reservations are not counted.
WithinCapUnreserved == 0 < MaxMutants - mutations_created

\* Mutated form: the last reservation is refused.
WithinCapShort == Cardinality(active) + 1 < MaxMutants - mutations_created

WithinCap == Cardinality(active) < MaxMutants - mutations_created

\* raise failures[0]: the finally clause cancels what is still active.
Abort ==
    /\ d_pc' = "cancelling"
    /\ cancelled' = cancelled \cup active

\* One pass of the loop up to its first await. The latched decision is
\* consulted before the stopper, and taking it is a side effect.
Check ==
    /\ d_pc = "loop" /\ AllReaped
    /\ \/ running /\ failed /\ Abort /\ UNCHANGED terminal
       \/ ~running /\ d_pc' = "gather" /\ UNCHANGED <<terminal, cancelled>>
       \/ /\ running /\ ~failed
          /\ \E stop \in BOOLEAN :
                /\ terminal \/ MayDecideStop(stop)
                /\ terminal' = (terminal \/ stop)
          /\ d_pc' = IF ~terminal' /\ WithinCap THEN "acquire"
                     ELSE IF ~terminal' /\ active # {} THEN "wait" ELSE "gather"
          /\ UNCHANGED cancelled
    /\ UNCHANGED <<dispFrame, pc, parents, targets, flip, held, fresh,
                   producer_free, active, consecutive_empty, failed>>

\* A slot of _producer_sema is available: look again at everything that may
\* have changed while waiting, then spawn or give the slot back.
Spawn ==
    /\ d_pc = "acquire" /\ producer_free > 0 /\ AllReaped
    /\ running /\ ~failed /\ ~terminal
    /\ MayDecideStop(FALSE)
    /\ WithinCap
    /\ \E t \in Tasks :
          /\ pc[t] = "unborn"
          /\ \A u \in Tasks : pc[u] = "unborn" => t <= u
          /\ pc' = [pc EXCEPT ![t] = "selecting"]
          /\ active' = active \cup {t}
    /\ producer_free' = producer_free - 1
    /\ d_pc' = "loop"
    /\ UNCHANGED <<dispFrame, parents, targets, flip, held, cancelled, fresh,
                   consecutive_empty, failed, terminal>>

GiveSlotBack ==
    /\ d_pc = "acquire" /\ producer_free > 0 /\ AllReaped
    /\ \/ failed /\ Abort /\ UNCHANGED terminal
       \/ ~failed /\ ~running /\ d_pc' = "gather" /\ UNCHANGED <<terminal, cancelled>>
       \/ /\ ~failed /\ running
          /\ \/ MayDecideStop(TRUE) /\ terminal' = TRUE /\ d_pc' = "gather"
             \/ MayDecideStop(FALSE) /\ ~WithinCap /\ d_pc' = "loop" /\ UNCHANGED terminal
          /\ UNCHANGED cancelled
    /\ UNCHANGED <<dispFrame, pc, parents, targets, flip, held, fresh,
                   producer_free, active, consecutive_empty, failed>>

\* After the loop: gather what is still active, then raise or return.
Gathered ==
    /\ d_pc \in {"gather", "cancelling"} /\ active = {}
    /\ d_pc' = IF d_pc = "gather" /\ ~failed THEN "done" ELSE "failed"
    /\ UNCHANGED <<dispFrame, taskVars, producer_free, active, consecutive_empty,
                   failed, terminal>>

DispatcherStep == Check \/ Spawn \/ GiveSlotBack \/ Gathered \/ \E t \in Tasks : Reap(t)

=============================================================================
