-------------------------- MODULE ParentRefresher --------------------------
(***************************************************************************)
(* ParentRefresher (engine/refresh.py): before a producer mutates its      *)
(* parents it has them re-evaluated, DONE -> QUEUED -> DONE, under one     *)
(* lock per parent taken in sorted order.  With Coalesce the locks cover   *)
(* only the refresh (refresh_if_stale, which skips parents in _fresh);     *)
(* without it they stay with the ticket until the child is ingested        *)
(* (refresh_with_ticket).                                                  *)
(***************************************************************************)
EXTENDS EngineState

\* The finally clause of run_one_mutant, for a task that hands nothing on:
\* the producer slot and every lock it holds are given back.
Quit(t, how) ==
    /\ pc' = [pc EXCEPT ![t] = how]
    /\ producer_free' = producer_free + 1
    /\ held' = [held EXCEPT ![t] = {}]
    /\ targets' = [targets EXCEPT ![t] = {}]
    /\ flip' = [flip EXCEPT ![t] = {}]

Uninterrupted(t) == t \notin cancelled

\* Mutated form: the freshness table is not consulted.
StaleAll(t) == parents[t]

\* The parents a refresh of t has to flip, decided once all locks are held.
Stale(t) == IF Coalesce THEN parents[t] \ fresh ELSE parents[t]

LockFree(p) == \A u \in Tasks : p \notin held[u]

\* Mutated form: each task takes its locks in an order of its own.
AcquireLockUnsorted(t) ==
    /\ pc[t] = "locking" /\ Uninterrupted(t)
    /\ \E p \in parents[t] \ held[t] :
          /\ LockFree(p)
          /\ held' = [held EXCEPT ![t] = @ \cup {p}]
          /\ IF parents[t] \ held[t] = {p}
             THEN /\ targets' = [targets EXCEPT ![t] = Stale(t)]
                  /\ pc' = [pc EXCEPT ![t] = IF Stale(t) = {} THEN "reading" ELSE "quiesce"]
             ELSE UNCHANGED <<targets, pc>>
    /\ UNCHANGED <<storeVars, parents, flip, cancelled, fresh, slotVars,
                   dispVars, ingVars, mainVars>>

AcquireLock(t) ==
    /\ pc[t] = "locking" /\ Uninterrupted(t)
    /\ \E p \in parents[t] \ held[t] :
          /\ \A q \in parents[t] \ held[t] : p <= q
          /\ LockFree(p)
          /\ held' = [held EXCEPT ![t] = @ \cup {p}]
          /\ IF parents[t] \ held[t] = {p}
             THEN /\ targets' = [targets EXCEPT ![t] = Stale(t)]
                  /\ pc' = [pc EXCEPT ![t] = IF Stale(t) = {} THEN "reading" ELSE "quiesce"]
             ELSE UNCHANGED <<targets, pc>>
    /\ UNCHANGED <<storeVars, parents, flip, cancelled, fresh, slotVars,
                   dispVars, ingVars, mainVars>>

AllDone(S) == \A p \in S : state[p] = "DONE"
SomeGone(S) == \E p \in S : state[p] \in {"DISCARDED", "ABSENT"}

\* The first _await_done of _do_refresh: quiesce any older evaluation.
Quiesced(t) ==
    /\ pc[t] = "quiesce" /\ Uninterrupted(t)
    /\ AllDone(targets[t])
    /\ pc' = [pc EXCEPT ![t] = "flip"]
    /\ UNCHANGED <<storeVars, parents, targets, flip, held, cancelled, fresh,
                   slotVars, dispVars, ingVars, mainVars>>

\* batch_transition_by_ids reads the blobs, keeps those that are DONE, ...
FlipRead(t) ==
    /\ pc[t] = "flip" /\ Uninterrupted(t)
    /\ flip' = [flip EXCEPT ![t] = {p \in targets[t] : state[p] = "DONE"}]
    /\ pc' = [pc EXCEPT ![t] = "flip_write"]
    /\ UNCHANGED <<storeVars, parents, targets, held, cancelled, fresh,
                   slotVars, dispVars, ingVars, mainVars>>

\* ... and writes them back QUEUED; fewer than asked for is a ValueError.
FlipWrite(t) ==
    /\ pc[t] = "flip_write" /\ Uninterrupted(t)
    /\ state' = [p \in Program |-> IF p \in flip[t] THEN "QUEUED" ELSE state[p]]
    /\ IF flip[t] = targets[t]
       THEN /\ pc' = [pc EXCEPT ![t] = "await"]
            /\ flip' = [flip EXCEPT ![t] = {}]
            /\ UNCHANGED <<targets, held, producer_free>>
       ELSE Quit(t, "none")
    /\ UNCHANGED <<evaluating, archive, parents, cancelled, fresh, buffer_free,
                   in_flight, settled, mutations_created, programs_processed,
                   dispVars, ingVars, mainVars>>

\* Return from the refresh: coalesced callers release their locks here.
\* run_one_mutant goes on to the LLM call without another await.
ReturnRefreshed(t) ==
    /\ pc' = [pc EXCEPT ![t] = "llm"]
    /\ held' = IF Coalesce THEN [held EXCEPT ![t] = {}] ELSE held
    /\ targets' = [targets EXCEPT ![t] = {}]

\* The second _await_done succeeds: every flipped parent is DONE again.
Refreshed(t) ==
    /\ pc[t] = "await" /\ Uninterrupted(t)
    /\ AllDone(targets[t])
    /\ fresh' = IF Coalesce THEN fresh \cup targets[t] ELSE fresh
    /\ IF Coalesce /\ parents[t] # targets[t]
       THEN pc' = [pc EXCEPT ![t] = "reading"] /\ UNCHANGED <<targets, held>>
       ELSE ReturnRefreshed(t)
    /\ UNCHANGED <<storeVars, parents, flip, cancelled, slotVars, dispVars,
                   ingVars, mainVars>>

\* refresh_if_stale re-reads the parents that were fresh already. Storage
\* never deletes a program during a run, so none of them is missing; their
\* state is not looked at.
ReadFresh(t) ==
    /\ pc[t] = "reading" /\ Uninterrupted(t)
    /\ ReturnRefreshed(t)
    /\ UNCHANGED <<storeVars, parents, flip, cancelled, fresh, slotVars,
                   dispVars, ingVars, mainVars>>

\* _await_done raises: a target is gone, or the deadline has passed. The
\* locks are released and the task aborts without a child.
RefreshFails(t) ==
    /\ pc[t] \in {"quiesce", "await"} /\ Uninterrupted(t)
    /\ SomeGone(targets[t]) \/ ("timeout" \in Faults /\ ~ AllDone(targets[t]))
    /\ Quit(t, "none")
    /\ UNCHANGED <<storeVars, parents, cancelled, fresh, buffer_free, in_flight,
                   settled, mutations_created, programs_processed, dispVars,
                   ingVars, mainVars>>

=============================================================================
