------------------------------ MODULE Ingestor ------------------------------
(***************************************************************************)
(* ingestor_loop and poll_and_ingest (engine/ingestor.py): take terminal   *)
(* children out of in_flight, offer the DONE ones to the archive, discard  *)
(* the rejected ones and give back the buffer slot and the parent ticket   *)
(* of each.  The final sweep of run() calls the same poll_and_ingest.      *)
(***************************************************************************)
EXTENDS EngineState

Sweeping == m_pc = "sweep"

\* Where a poll ends: back in the loop, or back in _final_ingestion_sweep.
PollEnds == IF Sweeping THEN "exited" ELSE "idle"

\* An exception out of poll_and_ingest ends the ingestor task (or the sweep).
ForgetPoll ==
    /\ cand' = {} /\ todo' = {} /\ handled' = {} /\ rejects' = {} /\ leaked' = {}

\* The loop condition and the copy of in_flight taken under its lock.
Poll ==
    /\ i_pc = "idle" /\ running /\ in_flight # {}
    /\ cand' = in_flight
    /\ i_pc' = "fetch"
    /\ UNCHANGED <<storeVars, taskVars, slotVars, dispVars, todo, handled, rejects,
                   leaked, outcome_failures, mainVars>>

IngestorExits ==
    /\ i_pc = "idle" /\ ~running
    /\ i_pc' = "exited"
    /\ UNCHANGED <<storeVars, taskVars, slotVars, dispVars, cand, todo, handled,
                   rejects, leaked, outcome_failures, mainVars>>

\* Mutated form: the DONE children are left for a later poll that never takes them.
FetchSkipsDone ==
    /\ i_pc = "fetch"
    /\ LET gone == {c \in cand : state[c] \in {"DISCARDED", "ABSENT"}} IN
       \E lost \in SUBSET gone :
          /\ lost # {} => "outcome" \in Faults
          /\ LET counts == [c \in Tasks |-> CASE c \in lost -> outcome_failures[c] + 1
                                              [] c \in gone \ lost -> 0
                                              [] OTHER -> outcome_failures[c]]
             IN /\ outcome_failures' = counts
                /\ IF \E c \in lost : counts[c] >= MaxOutcomeFailures
                   THEN i_pc' = "dead" /\ ForgetPoll
                   ELSE /\ leaked' = gone \ lost
                        /\ todo' = {}
                        /\ cand' = {}
                        /\ i_pc' = IF todo' # {} THEN "batch" ELSE "release"
                        /\ UNCHANGED <<handled, rejects>>
    /\ UNCHANGED <<storeVars, taskVars, slotVars, dispVars, mainVars>>

\* The first mget: sort the candidates into DONE and gone. The outcome of a
\* gone child must be recorded before it is released; a failing sink keeps
\* the child for the next poll, too many failures in a row raise.
Fetch ==
    /\ i_pc = "fetch"
    /\ LET gone == {c \in cand : state[c] \in {"DISCARDED", "ABSENT"}} IN
       \E lost \in SUBSET gone :
          /\ lost # {} => "outcome" \in Faults
          /\ LET counts == [c \in Tasks |-> CASE c \in lost -> outcome_failures[c] + 1
                                              [] c \in gone \ lost -> 0
                                              [] OTHER -> outcome_failures[c]]
             IN /\ outcome_failures' = counts
                /\ IF \E c \in lost : counts[c] >= MaxOutcomeFailures
                   THEN i_pc' = "dead" /\ ForgetPoll
                   ELSE /\ leaked' = gone \ lost
                        /\ todo' = {c \in cand : state[c] = "DONE"}
                        /\ cand' = {}
                        /\ i_pc' = IF todo' # {} THEN "batch" ELSE "release"
                        /\ UNCHANGED <<handled, rejects>>
    /\ UNCHANGED <<storeVars, taskVars, slotVars, dispVars, mainVars>>

\* _ingest_batch reads the programs again and keeps those still DONE.
Batch ==
    /\ i_pc = "batch"
    /\ todo' = {c \in todo : state[c] = "DONE"}
    /\ i_pc' = "ingest"
    /\ UNCHANGED <<storeVars, taskVars, slotVars, dispVars, cand, handled, rejects,
                   leaked, outcome_failures, mainVars>>

\* A full island drops elites and writes them DISCARDED, whatever their
\* stored state.
Evict(c) ==
    /\ "evict" \in Faults
    /\ \E e \in archive \cup {c} :
          /\ archive' = (archive \cup {c}) \ {e}
          /\ state' = [state EXCEPT ![e] = "DISCARDED"]

\* strategy.add accepts c. An elite it displaces from its cell stays DONE.
Accept(c) ==
    \/ archive' = archive \cup {c} /\ UNCHANGED state
    \/ \E e \in archive : archive' = (archive \cup {c}) \ {e} /\ UNCHANGED state
    \/ Evict(c)

\* One program of the batch: record its outcome, then accept or reject it.
IngestOne(c) ==
    /\ i_pc = "ingest" /\ c \in todo
    /\ todo' = todo \ {c}
    /\ \/ /\ Accept(c)
          /\ handled' = handled \cup {c}
          /\ outcome_failures' = [outcome_failures EXCEPT ![c] = 0]
          /\ UNCHANGED <<i_pc, rejects>>
       \/ /\ rejects' = rejects \cup {c}
          /\ handled' = handled \cup {c}
          /\ outcome_failures' = [outcome_failures EXCEPT ![c] = 0]
          /\ UNCHANGED <<i_pc, state, archive>>
       \/ /\ "outcome" \in Faults
          /\ outcome_failures[c] + 1 < MaxOutcomeFailures
          /\ outcome_failures' = [outcome_failures EXCEPT ![c] = @ + 1]
          /\ UNCHANGED <<i_pc, handled, rejects, state, archive>>
    /\ UNCHANGED <<evaluating, taskVars, slotVars, dispVars, cand, leaked, mainVars>>

\* The outcome of c failed once too often: poll_and_ingest raises.
OutcomeRaises(c) ==
    /\ i_pc = "ingest" /\ c \in todo
    /\ "outcome" \in Faults /\ outcome_failures[c] + 1 >= MaxOutcomeFailures
    /\ outcome_failures' = [outcome_failures EXCEPT ![c] = @ + 1]
    /\ i_pc' = "dead" /\ ForgetPoll
    /\ UNCHANGED <<storeVars, taskVars, slotVars, dispVars, mainVars>>

BatchDone ==
    /\ i_pc = "ingest" /\ todo = {}
    /\ i_pc' = IF rejects = {} THEN "release" ELSE "discard"
    /\ UNCHANGED <<storeVars, taskVars, slotVars, dispVars, cand, todo, handled,
                   rejects, leaked, outcome_failures, mainVars>>

\* The rejected programs go DONE -> DISCARDED in one batch; a failure of the
\* write is only logged.
DiscardRejects ==
    /\ i_pc = "discard"
    /\ \/ state' = [p \in Program |-> IF p \in rejects /\ state[p] = "DONE"
                                      THEN "DISCARDED" ELSE state[p]]
       \/ "discard" \in Faults /\ UNCHANGED state
    /\ i_pc' = "release"
    /\ rejects' = {}
    /\ UNCHANGED <<evaluating, archive, taskVars, slotVars, dispVars, cand, todo,
                   handled, leaked, outcome_failures, mainVars>>

Released == (handled \cup leaked) \cap in_flight

\* Mutated form: buffer slots of swept (DISCARDED or missing) children leak.
ReleaseHandledOnly ==
    /\ i_pc = "release"
    /\ programs_processed' = programs_processed + Cardinality(handled)
    /\ fresh' = fresh \ UNION {parents[c] : c \in handled \cup leaked}
    /\ in_flight' = in_flight \ Released
    /\ settled' = settled \cup Released
    /\ buffer_free' = buffer_free + Cardinality(handled \cap in_flight)
    /\ held' = [t \in Tasks |-> IF t \in Released THEN {} ELSE held[t]]
    /\ i_pc' = IF handled \cup leaked = {} THEN PollEnds ELSE "snapshot"
    /\ ForgetPoll
    /\ UNCHANGED <<storeVars, pc, parents, targets, flip, cancelled, producer_free,
                   mutations_created, dispVars, outcome_failures, mainVars>>

\* Mutated form: the tickets of released children are not released.
ReleaseKeepsTickets ==
    /\ i_pc = "release"
    /\ programs_processed' = programs_processed + Cardinality(handled)
    /\ fresh' = fresh \ UNION {parents[c] : c \in handled \cup leaked}
    /\ in_flight' = in_flight \ Released
    /\ settled' = settled \cup Released
    /\ buffer_free' = buffer_free + Cardinality(Released)
    /\ i_pc' = IF handled \cup leaked = {} THEN PollEnds ELSE "snapshot"
    /\ ForgetPoll
    /\ UNCHANGED <<storeVars, pc, parents, targets, flip, held, cancelled,
                   producer_free, mutations_created, dispVars, outcome_failures,
                   mainVars>>

\* Mutated form: the handled list survives into the next poll.
ReleaseKeepsHandled ==
    /\ i_pc = "release"
    /\ programs_processed' = programs_processed + Cardinality(handled)
    /\ fresh' = fresh \ UNION {parents[c] : c \in handled \cup leaked}
    /\ in_flight' = in_flight \ Released
    /\ settled' = settled \cup Released
    /\ buffer_free' = buffer_free + Cardinality(Released)
    /\ held' = [t \in Tasks |-> IF t \in Released THEN {} ELSE held[t]]
    /\ i_pc' = IF handled \cup leaked = {} THEN PollEnds ELSE "snapshot"
    /\ cand' = {} /\ todo' = {} /\ rejects' = {} /\ leaked' = {} /\ UNCHANGED handled
    /\ UNCHANGED <<storeVars, pc, parents, targets, flip, cancelled, producer_free,
                   mutations_created, dispVars, outcome_failures, mainVars>>

\* From the return of _ingest_batch to the snapshot write there is no await:
\* the handled children are counted, the parents of every released child
\* become stale, and each child leaves in_flight with its slot and ticket.
Release ==
    /\ i_pc = "release"
    /\ programs_processed' = programs_processed + Cardinality(handled)
    /\ fresh' = fresh \ UNION {parents[c] : c \in handled \cup leaked}
    /\ in_flight' = in_flight \ Released
    /\ settled' = settled \cup Released
    /\ buffer_free' = buffer_free + Cardinality(Released)
    /\ held' = [t \in Tasks |-> IF t \in Released THEN {} ELSE held[t]]
    /\ i_pc' = IF handled \cup leaked = {} THEN PollEnds ELSE "snapshot"
    /\ ForgetPoll
    /\ UNCHANGED <<storeVars, pc, parents, targets, flip, cancelled, producer_free,
                   mutations_created, dispVars, outcome_failures, mainVars>>

\* The snapshot write (and the bounded, fault-isolated post-step hook).
PollSnapshot ==
    /\ i_pc = "snapshot"
    /\ i_pc' \in {PollEnds} \cup (IF "snapshot" \in Faults THEN {"dead"} ELSE {})
    /\ UNCHANGED <<storeVars, taskVars, slotVars, dispVars, cand, todo, handled,
                   rejects, leaked, outcome_failures, mainVars>>

IngestorStep ==
    \/ Poll \/ IngestorExits \/ Fetch \/ Batch
    \/ \E c \in Tasks : IngestOne(c) \/ OutcomeRaises(c)
    \/ BatchDone \/ DiscardRejects \/ Release \/ PollSnapshot

=============================================================================
