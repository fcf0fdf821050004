--------------------------- MODULE EngineSnapshot ---------------------------
(***************************************************************************)
(* The counters of the engine and their snapshot in Redis                  *)
(* (EvolutionEngine._write_snapshot, restore_state). Producers reserve an  *)
(* ordinal, store a child under it and write a snapshot when they hand the *)
(* child over; the ingestor writes one for what it processed. Writers wait *)
(* for _snapshot_lock with the values they read when they called.          *)
(***************************************************************************)
EXTENDS InstanceLock, Sequences

CONSTANTS
    Producers,   \* concurrent producer tasks of one process
    Seeds,       \* initial programs, with ordinals 0 .. Seeds - 1
    MaxOrdinal   \* ordinals in a behaviour (bounds the model)

Ordinals == 0 .. MaxOrdinal
Fields   == {"next_iteration", "total_mutants", "programs_processed"}

VARIABLES
    snap,       \* ENGINE_SNAPSHOT_KEY in the run-state hash
    mirror,     \* self._snapshot of each process
    metrics,    \* next_iteration is metrics.iteration, total_mutants mutations_created
    waiting,    \* the writers at _snapshot_lock, first come first served
    producer,   \* idle, or a task with its ordinal
    copies,     \* how many stored programs carry each ordinal
    confirmed   \* ordinals of children whose handoff write was acknowledged

snapVars == <<snap, mirror, metrics, waiting, producer, copies, confirmed>>

Default == [f \in Fields \cup {"version"} |-> 0]
Idle    == [at |-> "idle", ordinal |-> 0]

\* A call of _write_snapshot: the caller and the counters it updates.
Requests ==
    [who : {"run"}, updates : [Fields -> Nat]]
      \cup [who : {"ingestor"}, updates : [{"programs_processed"} -> Nat]]
      \cup [who : Producers, updates : [{"total_mutants", "next_iteration"} -> Nat]]

SnapTypeOK ==
    /\ snap \in [Fields \cup {"version"} -> Nat]
    /\ mirror \in [Instances -> [Fields \cup {"version"} -> Nat]]
    /\ metrics \in [Instances -> [Fields -> Nat]]
    /\ waiting \in [Instances -> Seq(Requests)]
    /\ producer \in [Instances -> [Producers ->
          [at : {"idle", "llm", "stored", "saving"}, ordinal : Ordinals]]]
    /\ copies \in [Ordinals -> Nat]
    /\ confirmed \subseteq Ordinals

SnapInit ==
    /\ snap = Default
    /\ mirror = [i \in Instances |-> Default]
    /\ metrics = [i \in Instances |-> [f \in Fields |-> 0]]
    /\ waiting = [i \in Instances |-> <<>>]
    /\ producer = [i \in Instances |-> [t \in Producers |-> Idle]]
    /\ copies = [o \in Ordinals |-> 0]
    /\ confirmed = {}

\* The call of _write_snapshot: the values are read now, for the fields named.
Call(i, who, fields, m) ==
    waiting' = [waiting EXCEPT ![i] =
                  Append(@, [who |-> who, updates |-> [f \in fields |-> m[f]]])]

\* The snapshot the holder of the lock builds: counters never below the mirror's.
NextSnapshot(i, updates) ==
    [f \in Fields \cup {"version"} |->
       CASE f = "version" -> mirror[i].version + 1
         [] f \in DOMAIN updates -> IF updates[f] > mirror[i][f] THEN updates[f] ELSE mirror[i][f]
         [] OTHER -> mirror[i][f]]

----------------------------------------------------------------------------
\* Mutated form: the ordinal is read and stepped with an await in between.
ReserveRacy(i, t) ==
    /\ pc[i] = "up" /\ producer[i][t] = Idle
    /\ metrics[i].next_iteration < MaxOrdinal
    /\ producer' = [producer EXCEPT ![i][t] =
                      [at |-> "llm", ordinal |-> metrics[i].next_iteration]]
    /\ metrics' = [metrics EXCEPT ![i].next_iteration =
                     IF \E u \in Producers \ {t} : producer[i][u].at = "llm" THEN @ ELSE @ + 1]
    /\ UNCHANGED <<pc, snap, mirror, waiting, copies, confirmed>>

\* run_one_mutant: the atomic reservation of an ordinal.
Reserve(i, t) ==
    /\ pc[i] = "up" /\ producer[i][t] = Idle
    /\ metrics[i].next_iteration < MaxOrdinal
    /\ producer' = [producer EXCEPT ![i][t] =
                      [at |-> "llm", ordinal |-> metrics[i].next_iteration]]
    /\ metrics' = [metrics EXCEPT ![i].next_iteration = @ + 1]
    /\ UNCHANGED <<pc, snap, mirror, waiting, copies, confirmed>>

\* The mutation fails or is cancelled before the child is stored: the ordinal
\* is burned.
NoChild(i, t) ==
    /\ pc[i] \in {"up", "draining"} /\ producer[i][t].at = "llm"
    /\ producer' = [producer EXCEPT ![i][t] = Idle]
    /\ UNCHANGED <<pc, snap, mirror, metrics, waiting, copies, confirmed>>

\* generate_one_mutation: storage.add of the child with its ordinal.
StoreChild(i, t) ==
    /\ pc[i] \in {"up", "draining"} /\ producer[i][t].at = "llm"
    /\ producer' = [producer EXCEPT ![i][t].at = "stored"]
    /\ copies' = [copies EXCEPT ![producer[i][t].ordinal] = @ + 1]
    /\ UNCHANGED <<pc, snap, mirror, metrics, waiting, confirmed>>

\* Mutated form: the producer writes its own ordinal, not the next free one.
HandoverOwn(i, t) ==
    /\ pc[i] \in {"up", "draining"} /\ producer[i][t].at = "stored"
    /\ LET m == [metrics[i] EXCEPT !.total_mutants = @ + 1]
       IN  /\ metrics' = [metrics EXCEPT ![i] = m]
           /\ Call(i, t, {"total_mutants", "next_iteration"},
                   [m EXCEPT !.next_iteration = producer[i][t].ordinal])
    /\ producer' = [producer EXCEPT ![i][t].at = "saving"]
    /\ UNCHANGED <<pc, snap, mirror, copies, confirmed>>

\* handoff_persisted_child: the child is counted and the snapshot requested.
Handover(i, t) ==
    /\ pc[i] \in {"up", "draining"} /\ producer[i][t].at = "stored"
    /\ LET m == [metrics[i] EXCEPT !.total_mutants = @ + 1]
       IN  /\ metrics' = [metrics EXCEPT ![i] = m]
           /\ Call(i, t, {"total_mutants", "next_iteration"}, m)
    /\ producer' = [producer EXCEPT ![i][t].at = "saving"]
    /\ UNCHANGED <<pc, snap, mirror, copies, confirmed>>

\* poll_and_ingest, and the drain of the seeds: programs_processed is written.
Ingest(i) ==
    /\ pc[i] \in {"up", "draining"}
    /\ \A n \in 1 .. Len(waiting[i]) : waiting[i][n].who # "ingestor"
    /\ metrics[i].programs_processed < metrics[i].total_mutants
    /\ LET m == [metrics[i] EXCEPT !.programs_processed = @ + 1]
       IN  metrics' = [metrics EXCEPT ![i] = m] /\ Call(i, "ingestor", {"programs_processed"}, m)
    /\ UNCHANGED <<pc, snap, mirror, producer, copies, confirmed>>

\* What the caller does once its write has returned (ok) or raised. The first
\* write of run() must succeed before anything is dispatched; the last is
\* followed by the shutdown of the process whether it succeeds or not.
Resumed(i, who, ok) ==
    /\ pc' = [pc EXCEPT ![i] =
                CASE who = "run" /\ @ = "starting" -> IF ok THEN "up" ELSE "closing"
                  [] who = "run" /\ @ = "final" -> "closing"
                  [] OTHER -> @]
    /\ IF who \in Producers
       THEN /\ producer' = [producer EXCEPT ![i][who] = Idle]
            /\ confirmed' = IF ok THEN confirmed \cup {producer[i][who].ordinal} ELSE confirmed
       ELSE UNCHANGED <<producer, confirmed>>

\* The first waiter holds the lock; its write reaches Redis and is mirrored.
Save(i) ==
    /\ pc[i] \in Live /\ waiting[i] # <<>>
    /\ snap' = NextSnapshot(i, Head(waiting[i]).updates)
    /\ mirror' = [mirror EXCEPT ![i] = snap']
    /\ waiting' = [waiting EXCEPT ![i] = Tail(@)]
    /\ Resumed(i, Head(waiting[i]).who, TRUE)
    /\ UNCHANGED <<metrics, copies>>

\* Mutated form: mirror first, then persist.
SaveFailsMirrored(i) ==
    /\ "net" \in Faults /\ pc[i] \in Live /\ waiting[i] # <<>>
    /\ snap' \in {snap, NextSnapshot(i, Head(waiting[i]).updates)}
    /\ mirror' = [mirror EXCEPT ![i] = NextSnapshot(i, Head(waiting[i]).updates)]
    /\ waiting' = [waiting EXCEPT ![i] = Tail(@)]
    /\ Resumed(i, Head(waiting[i]).who, FALSE)
    /\ UNCHANGED <<metrics, copies>>

\* The write raises, and may have been applied all the same: the mirror keeps
\* the version it had.
SaveFails(i) ==
    /\ "net" \in Faults /\ pc[i] \in Live /\ waiting[i] # <<>>
    /\ snap' \in {snap, NextSnapshot(i, Head(waiting[i]).updates)}
    /\ waiting' = [waiting EXCEPT ![i] = Tail(@)]
    /\ Resumed(i, Head(waiting[i]).who, FALSE)
    /\ UNCHANGED <<mirror, metrics, copies>>

\* The process is gone: its counters, its mirror and its tasks with it.
Forget(i) ==
    /\ mirror' = [mirror EXCEPT ![i] = Default]
    /\ metrics' = [metrics EXCEPT ![i] = [f \in Fields |-> 0]]
    /\ waiting' = [waiting EXCEPT ![i] = <<>>]
    /\ producer' = [producer EXCEPT ![i] = [t \in Producers |-> Idle]]
    /\ UNCHANGED <<snap, copies, confirmed>>

=============================================================================
