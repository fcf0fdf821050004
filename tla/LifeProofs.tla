---------------------------- MODULE LifeProofs ----------------------------
(***************************************************************************)
(* Proofs about RunLife: what the instance lock and the engine snapshot    *)
(* guarantee over any number of process lives, producers and ordinals.     *)
(***************************************************************************)
EXTENDS RunLife, TLAPS, SequenceTheorems

Working == Live \ {"resuming"}

\* One process at a time, until two have shared the storage; and the one that
\* is alive owns the key, unless its renewal is lost.
Alone == ~shared => \A i, j \in Instances : pc[i] \in Live /\ pc[j] \in Live => i = j

KeyHeld ==
    ~shared /\ "late" \notin Faults =>
        \A i \in Instances : pc[i] \in Live => key = i \/ renewal[i] = "lost"

\* A process that is not at work yet, or not any more, has no task and no
\* write under way; the first and the last write of run() have no company.
Resting(i) ==
    /\ pc[i] \in {"new", "down", "resuming"} =>
          /\ waiting[i] = <<>> /\ mirror[i] = Default
          /\ \A t \in Producers : producer[i][t] = Idle
    /\ pc[i] \in {"starting", "final"} =>
          Len(waiting[i]) = 1 /\ waiting[i][1].who = "run"
    /\ pc[i] \in {"closing", "releasing"} => waiting[i] = <<>>

\* The write that a producer waits for covers its ordinal, and is its only one.
Covered(i) ==
    /\ \A n \in 1 .. Len(waiting[i]) :
          waiting[i][n].who \in Producers =>
             LET t == waiting[i][n].who
             IN  /\ producer[i][t].at = "saving"
                 /\ producer[i][t].ordinal < waiting[i][n].updates["next_iteration"]
    /\ \A m, n \in 1 .. Len(waiting[i]) :
          waiting[i][m].who = waiting[i][n].who /\ waiting[i][m].who \in Producers => m = n

\* The producers of a process work on ordinals of their own, below the next.
Reserved(i) ==
    /\ \A t \in Producers : producer[i][t].at # "idle" =>
          producer[i][t].ordinal < metrics[i].next_iteration
    /\ \A t, u \in Producers :
          t # u /\ producer[i][t].at # "idle" /\ producer[i][u].at # "idle" =>
             producer[i][t].ordinal # producer[i][u].ordinal

\* Storage is empty only before the first process has started.
Populated ==
    /\ \A i \in Instances : pc[i] \in Working => HasData
    /\ ~HasData => snap = Default /\ confirmed = {}

InOrder(i) == Resting(i) /\ Covered(i) /\ Reserved(i)

TaskInvariant == Populated /\ \A i \in Instances : InOrder(i)

\* Nothing confirmed is ahead of the snapshot, of a mirror, or of the counter a
\* process reserves from; no producer works on it.
Behind ==
    ~shared =>
        /\ \A o \in confirmed : o < snap.next_iteration
        /\ \A i \in Instances : pc[i] \in Working => \A o \in confirmed :
              /\ o < mirror[i].next_iteration /\ o < metrics[i].next_iteration
              /\ \A t \in Producers : producer[i][t].at \in {"llm", "stored", "saving"} =>
                    producer[i][t].ordinal # o

\* The ordinals in storage are below the counter of the process at work, or
\* below the snapshot that the next one resumes from.
Counting == {"starting", "up", "draining", "final"}

Unique ==
    clean /\ ~shared =>
        /\ \A o \in Ordinals : copies[o] <= 1
        /\ \A i \in Instances : pc[i] \in Counting =>
              /\ \A o \in Ordinals : copies[o] > 0 => o < metrics[i].next_iteration
              /\ \A t \in Producers : producer[i][t].at = "llm" => copies[producer[i][t].ordinal] = 0
              /\ pc[i] = "final" =>
                    waiting[i][1].updates["next_iteration"] = metrics[i].next_iteration
        /\ (\A i \in Instances : pc[i] \notin Counting) =>
              \A o \in Ordinals : copies[o] > 0 => o < snap.next_iteration

----------------------------------------------------------------------------
Cells == Fields \cup {"version"}

LEMMA CellsAre == Fields = {"next_iteration", "total_mutants", "programs_processed"}
                    /\ Cells = Fields \cup {"version"} /\ "version" \notin Fields
  BY DEF Cells, Fields

\* A request names some of the counters, and a value for each.
LEMMA RequestShape ==
    ASSUME NEW q \in Requests
    PROVE  /\ q.who \in Producers \cup {"run", "ingestor"}
           /\ DOMAIN q.updates \subseteq Fields
           /\ \A f \in DOMAIN q.updates : q.updates[f] \in Nat
           /\ q.who \in Producers \cup {"run"} => "next_iteration" \in DOMAIN q.updates
<1>1. CASE q \in [who : {"run"}, updates : [Fields -> Nat]]
  BY <1>1, LifeAssumption DEF Fields
<1>2. CASE q \in [who : {"ingestor"}, updates : [{"programs_processed"} -> Nat]]
  BY <1>2, LifeAssumption DEF Fields
<1>3. CASE q \in [who : Producers, updates : [{"total_mutants", "next_iteration"} -> Nat]]
  BY <1>3, LifeAssumption DEF Fields
<1> QED
  BY <1>1, <1>2, <1>3 DEF Requests

LEMMA RequestsMade ==
    /\ \A u \in [Fields -> Nat] : [who |-> "run", updates |-> u] \in Requests
    /\ \A u \in [{"programs_processed"} -> Nat] : [who |-> "ingestor", updates |-> u] \in Requests
    /\ \A t \in Producers : \A u \in [{"total_mutants", "next_iteration"} -> Nat] :
          [who |-> t, updates |-> u] \in Requests
  BY DEF Requests

\* The snapshot that the holder of the lock builds: one version on, no counter
\* below the mirror's or below what was asked for.
LEMMA NextSnapshotIs ==
    ASSUME TypeOK, NEW i \in Instances, NEW q \in Requests
    PROVE  /\ NextSnapshot(i, q.updates) \in [Cells -> Nat]
           /\ NextSnapshot(i, q.updates)["version"] = mirror[i]["version"] + 1
           /\ \A f \in Fields : mirror[i][f] <= NextSnapshot(i, q.updates)[f]
           /\ \A f \in DOMAIN q.updates : q.updates[f] <= NextSnapshot(i, q.updates)[f]
<1> DEFINE u == q.updates
<1>1. mirror[i] \in [Cells -> Nat]
  BY DEF TypeOK, SnapTypeOK, Cells
<1>2. /\ DOMAIN u \subseteq Fields
      /\ \A f \in DOMAIN u : u[f] \in Nat
  BY RequestShape
<1>3. NextSnapshot(i, u) =
        [f \in Cells |->
           CASE f = "version" -> mirror[i].version + 1
             [] f \in DOMAIN u -> IF u[f] > mirror[i][f] THEN u[f] ELSE mirror[i][f]
             [] OTHER -> mirror[i][f]]
  BY DEF NextSnapshot, Cells
<1> HIDE DEF u
<1>4. NextSnapshot(i, u)["version"] = mirror[i]["version"] + 1 /\ mirror[i]["version"] \in Nat
  <2>1. "version" \in Cells
    BY CellsAre
  <2>2. ~("version" \in DOMAIN u)
    BY <1>2, CellsAre
  <2> QED
    BY <1>1, <1>3, <2>1, <2>2
<1>5. ASSUME NEW f \in Fields
      PROVE  /\ NextSnapshot(i, u)[f] \in Nat
             /\ mirror[i][f] <= NextSnapshot(i, u)[f]
             /\ f \in DOMAIN u => u[f] <= NextSnapshot(i, u)[f]
  <2>1. f \in Cells /\ f # "version" /\ mirror[i][f] \in Nat
    BY <1>1, CellsAre
  <2>2. NextSnapshot(i, u)[f] =
          IF f \in DOMAIN u THEN IF u[f] > mirror[i][f] THEN u[f] ELSE mirror[i][f]
          ELSE mirror[i][f]
    BY <1>3, <2>1
  <2> QED
    BY <1>2, <2>1, <2>2
<1>6. NextSnapshot(i, u) \in [Cells -> Nat]
  <2>1. ASSUME NEW f \in Cells PROVE NextSnapshot(i, u)[f] \in Nat
    BY <1>4, <1>5, CellsAre
  <2> QED
    BY <1>3, <2>1
<1> QED
  BY <1>2, <1>4, <1>5, <1>6 DEF u

\* The first of the writers, and those behind it.
LEMMA FirstWriter ==
    ASSUME TypeOK, NEW i \in Instances, waiting[i] # <<>>
    PROVE  /\ waiting[i] \in Seq(Requests)
           /\ Head(waiting[i]) \in Requests /\ Head(waiting[i]) = waiting[i][1]
           /\ Tail(waiting[i]) \in Seq(Requests)
           /\ Len(waiting[i]) \in Nat /\ Len(waiting[i]) >= 1
           /\ Len(Tail(waiting[i])) = Len(waiting[i]) - 1
           /\ \A n \in 1 .. Len(waiting[i]) - 1 : Tail(waiting[i])[n] = waiting[i][n + 1]
<1>1. waiting[i] \in Seq(Requests)
  BY DEF TypeOK, SnapTypeOK
<1> QED
  BY <1>1

\* A call adds one writer at the end.
LEMMA CallAdds ==
    ASSUME TypeOK, NEW i \in Instances, NEW q \in Requests,
           waiting' = [waiting EXCEPT ![i] = Append(@, q)]
    PROVE  /\ waiting' \in [Instances -> Seq(Requests)]
           /\ \A j \in Instances : j # i => waiting'[j] = waiting[j]
           /\ Len(waiting[i]) \in Nat /\ Len(waiting'[i]) = Len(waiting[i]) + 1
           /\ waiting'[i][Len(waiting[i]) + 1] = q
           /\ \A n \in 1 .. Len(waiting[i]) : waiting'[i][n] = waiting[i][n]
<1>1. waiting \in [Instances -> Seq(Requests)] /\ waiting[i] \in Seq(Requests)
  BY DEF TypeOK, SnapTypeOK
<1>2. waiting'[i] = Append(waiting[i], q) /\ \A j \in Instances : j # i => waiting'[j] = waiting[j]
  BY <1>1
<1>3. Append(waiting[i], q) \in Seq(Requests)
  BY <1>1
<1>4. waiting' \in [Instances -> Seq(Requests)]
  BY <1>1, <1>3
<1> QED
  BY <1>1, <1>2, <1>4

\* What the return of a write changes: the writer leaves the queue, a producer
\* is idle again, and run() moves on.
WriteEnds(i, q, ok) ==
    /\ \A j \in Instances : j # i =>
          pc'[j] = pc[j] /\ waiting'[j] = waiting[j] /\ producer'[j] = producer[j]
    /\ waiting'[i] = Tail(waiting[i])
    /\ pc'[i] = IF q.who = "run" /\ pc[i] = "starting" THEN IF ok THEN "up" ELSE "closing"
                ELSE IF q.who = "run" /\ pc[i] = "final" THEN "closing" ELSE pc[i]
    /\ \A t \in Producers : producer'[i][t] = IF t = q.who THEN Idle ELSE producer[i][t]
    /\ confirmed' = IF ok /\ q.who \in Producers THEN confirmed \cup {producer[i][q.who].ordinal}
                    ELSE confirmed

LEMMA IdleTyped == Idle \in [at : {"idle", "llm", "stored", "saving"}, ordinal : Ordinals]
                      /\ Idle.at = "idle"
  BY LifeAssumption DEF Idle, Ordinals

LEMMA WriteReturns ==
    ASSUME TypeOK, NEW i \in Instances, NEW ok \in BOOLEAN, waiting[i] # <<>>,
           waiting' = [waiting EXCEPT ![i] = Tail(@)],
           Resumed(i, Head(waiting[i]).who, ok)
    PROVE  /\ WriteEnds(i, Head(waiting[i]), ok)
           /\ pc' \in [Instances -> Live \cup {"new", "down"}]
           /\ waiting' \in [Instances -> Seq(Requests)]
           /\ producer' \in [Instances -> [Producers ->
                 [at : {"idle", "llm", "stored", "saving"}, ordinal : Ordinals]]]
           /\ confirmed' \subseteq Ordinals
<1> DEFINE q == Head(waiting[i])
           P == [at : {"idle", "llm", "stored", "saving"}, ordinal : Ordinals]
<1>1. /\ pc \in [Instances -> Live \cup {"new", "down"}]
      /\ waiting \in [Instances -> Seq(Requests)]
      /\ producer \in [Instances -> [Producers -> P]]
      /\ confirmed \subseteq Ordinals
  BY DEF TypeOK, LockTypeOK, SnapTypeOK
<1>2. q \in Requests /\ Tail(waiting[i]) \in Seq(Requests)
  BY FirstWriter
<1> HIDE DEF q, P
<1>3. /\ waiting' \in [Instances -> Seq(Requests)]
      /\ waiting'[i] = Tail(waiting[i])
      /\ \A j \in Instances : j # i => waiting'[j] = waiting[j]
  BY <1>1, <1>2
<1>4. PICK p : /\ pc' = [pc EXCEPT ![i] = p]
               /\ p = IF q.who = "run" /\ pc[i] = "starting" THEN IF ok THEN "up" ELSE "closing"
                      ELSE IF q.who = "run" /\ pc[i] = "final" THEN "closing" ELSE pc[i]
  <2>1. pc' = [pc EXCEPT ![i] =
                CASE q.who = "run" /\ pc[i] = "starting" -> IF ok THEN "up" ELSE "closing"
                  [] q.who = "run" /\ pc[i] = "final" -> "closing"
                  [] OTHER -> pc[i]]
    BY DEF Resumed, q
  <2>2. (CASE q.who = "run" /\ pc[i] = "starting" -> IF ok THEN "up" ELSE "closing"
           [] q.who = "run" /\ pc[i] = "final" -> "closing"
           [] OTHER -> pc[i])
         = IF q.who = "run" /\ pc[i] = "starting" THEN IF ok THEN "up" ELSE "closing"
           ELSE IF q.who = "run" /\ pc[i] = "final" THEN "closing" ELSE pc[i]
    OBVIOUS
  <2> QED
    BY <2>1, <2>2
<1>5. pc[i] \in Live \cup {"new", "down"} /\ p \in Live \cup {"new", "down"}
  BY <1>1, <1>4 DEF Live
<1>6. pc' \in [Instances -> Live \cup {"new", "down"}]
      /\ pc'[i] = p /\ \A j \in Instances : j # i => pc'[j] = pc[j]
  BY <1>1, <1>4, <1>5
<1>7. /\ producer' \in [Instances -> [Producers -> P]]
      /\ \A j \in Instances : j # i => producer'[j] = producer[j]
      /\ \A t \in Producers : producer'[i][t] = IF t = q.who THEN Idle ELSE producer[i][t]
      /\ confirmed' = IF ok /\ q.who \in Producers THEN confirmed \cup {producer[i][q.who].ordinal}
                      ELSE confirmed
  <2>1. CASE q.who \in Producers
    <3>1. /\ producer' = [producer EXCEPT ![i][q.who] = Idle]
          /\ confirmed' = IF ok THEN confirmed \cup {producer[i][q.who].ordinal} ELSE confirmed
      BY <2>1 DEF Resumed, q
    <3>2. Idle \in P
      BY IdleTyped DEF P
    <3> QED
      BY <1>1, <2>1, <3>1, <3>2
  <2>2. CASE q.who \notin Producers
    <3>1. producer' = producer /\ confirmed' = confirmed
      BY <2>2 DEF Resumed, q
    <3> QED
      BY <1>1, <2>2, <3>1
  <2> QED
    BY <2>1, <2>2
<1>8. confirmed' \subseteq Ordinals
  <2>1. q.who \in Producers => producer[i][q.who].ordinal \in Ordinals
    BY <1>1 DEF P
  <2> QED
    BY <1>1, <1>7, <2>1
<1>9. WriteEnds(i, q, ok)
  BY <1>3, <1>4, <1>6, <1>7 DEF WriteEnds
<1> QED
  BY <1>3, <1>6, <1>7, <1>8, <1>9 DEF q, P

\* The effect of each engine step on the counters, the queue and the tasks.
Tasks == [at : {"idle", "llm", "stored", "saving"}, ordinal : Ordinals]

LEMMA Types ==
    ASSUME TypeOK
    PROVE  /\ key \in Instances \cup {None}
           /\ renewal \in [Instances -> {"none", "sleep", "got", "lost"}]
           /\ pc \in [Instances -> Live \cup {"new", "down"}]
           /\ snap \in [Cells -> Nat] /\ mirror \in [Instances -> [Cells -> Nat]]
           /\ metrics \in [Instances -> [Fields -> Nat]]
           /\ waiting \in [Instances -> Seq(Requests)]
           /\ producer \in [Instances -> [Producers -> Tasks]]
           /\ copies \in [Ordinals -> Nat] /\ confirmed \subseteq Ordinals
           /\ clean \in BOOLEAN /\ shared \in BOOLEAN
  BY DEF TypeOK, LockTypeOK, SnapTypeOK, history, Cells, Tasks

LEMMA TypesMakeOK ==
    ASSUME /\ key' \in Instances \cup {None}
           /\ renewal' \in [Instances -> {"none", "sleep", "got", "lost"}]
           /\ pc' \in [Instances -> Live \cup {"new", "down"}],
           /\ snap' \in [Cells -> Nat] /\ mirror' \in [Instances -> [Cells -> Nat]]
           /\ metrics' \in [Instances -> [Fields -> Nat]]
           /\ waiting' \in [Instances -> Seq(Requests)]
           /\ producer' \in [Instances -> [Producers -> Tasks]]
           /\ copies' \in [Ordinals -> Nat] /\ confirmed' \subseteq Ordinals,
           clean' \in BOOLEAN /\ shared' \in BOOLEAN
    PROVE  TypeOK'
  BY DEF TypeOK, LockTypeOK, SnapTypeOK, history, Cells, Tasks

\* run() calls with every counter.
LEMMA RunCalls ==
    ASSUME TypeOK, NEW i \in Instances, NEW m \in [Fields -> Nat], Call(i, "run", Fields, m)
    PROVE  \E q \in Requests :
              /\ q.who = "run" /\ q.updates["next_iteration"] = m["next_iteration"]
              /\ waiting' = [waiting EXCEPT ![i] = Append(@, q)]
<1> DEFINE q == [who |-> "run", updates |-> [f \in Fields |-> m[f]]]
<1>1. q \in Requests
  BY RequestsMade
<1>2. q.who = "run" /\ q.updates["next_iteration"] = m["next_iteration"]
  BY CellsAre
<1>3. waiting' = [waiting EXCEPT ![i] = Append(@, q)]
  BY DEF Call
<1> QED
  BY <1>1, <1>2, <1>3

LEMMA HandoverEffect ==
    ASSUME TypeOK, NEW i \in Instances, NEW t \in Producers, Handover(i, t)
    PROVE  /\ pc[i] \in {"up", "draining"} /\ producer[i][t].at = "stored"
           /\ metrics' \in [Instances -> [Fields -> Nat]]
           /\ \A j \in Instances : metrics'[j]["next_iteration"] = metrics[j]["next_iteration"]
           /\ producer' = [producer EXCEPT ![i][t].at = "saving"]
           /\ UNCHANGED <<pc, snap, mirror, copies, confirmed>>
           /\ \E q \in Requests :
                 /\ q.who = t /\ q.updates["next_iteration"] = metrics[i]["next_iteration"]
                 /\ waiting' = [waiting EXCEPT ![i] = Append(@, q)]
<1> DEFINE m == [metrics[i] EXCEPT !.total_mutants = @ + 1]
           q == [who |-> t, updates |-> [f \in {"total_mutants", "next_iteration"} |-> m[f]]]
<1>1. metrics \in [Instances -> [Fields -> Nat]]
  BY Types
<1>2. /\ metrics' = [metrics EXCEPT ![i] = m]
      /\ waiting' = [waiting EXCEPT ![i] = Append(@, q)]
  BY DEF Handover, Call
<1>3. m \in [Fields -> Nat] /\ m["next_iteration"] = metrics[i]["next_iteration"]
  BY <1>1, CellsAre
<1> HIDE DEF m
<1>4. /\ metrics' \in [Instances -> [Fields -> Nat]]
      /\ \A j \in Instances : metrics'[j]["next_iteration"] = metrics[j]["next_iteration"]
  BY <1>1, <1>2, <1>3
<1>5. [f \in {"total_mutants", "next_iteration"} |-> m[f]] \in [{"total_mutants", "next_iteration"} -> Nat]
  BY <1>3, CellsAre
<1>6. q \in Requests
  BY <1>5, RequestsMade
<1>7. q.who = t /\ q.updates["next_iteration"] = metrics[i]["next_iteration"]
  BY <1>3
<1>8. /\ pc[i] \in {"up", "draining"} /\ producer[i][t].at = "stored"
      /\ producer' = [producer EXCEPT ![i][t].at = "saving"]
      /\ UNCHANGED <<pc, snap, mirror, copies, confirmed>>
  BY DEF Handover
<1> QED
  BY <1>2, <1>4, <1>6, <1>7, <1>8

LEMMA IngestEffect ==
    ASSUME TypeOK, NEW i \in Instances, Ingest(i)
    PROVE  /\ pc[i] \in {"up", "draining"}
           /\ metrics' \in [Instances -> [Fields -> Nat]]
           /\ \A j \in Instances : metrics'[j]["next_iteration"] = metrics[j]["next_iteration"]
           /\ UNCHANGED <<pc, snap, mirror, producer, copies, confirmed>>
           /\ \E q \in Requests :
                 /\ q.who = "ingestor"
                 /\ waiting' = [waiting EXCEPT ![i] = Append(@, q)]
<1> DEFINE m == [metrics[i] EXCEPT !.programs_processed = @ + 1]
           q == [who |-> "ingestor", updates |-> [f \in {"programs_processed"} |-> m[f]]]
<1>1. metrics \in [Instances -> [Fields -> Nat]]
  BY Types
<1>2. /\ metrics' = [metrics EXCEPT ![i] = m]
      /\ waiting' = [waiting EXCEPT ![i] = Append(@, q)]
  BY DEF Ingest, Call
<1>3. m \in [Fields -> Nat] /\ m["next_iteration"] = metrics[i]["next_iteration"]
  BY <1>1, CellsAre
<1> HIDE DEF m
<1>4. /\ metrics' \in [Instances -> [Fields -> Nat]]
      /\ \A j \in Instances : metrics'[j]["next_iteration"] = metrics[j]["next_iteration"]
  BY <1>1, <1>2, <1>3
<1>5. [f \in {"programs_processed"} |-> m[f]] \in [{"programs_processed"} -> Nat]
  BY <1>3, CellsAre
<1>6. q \in Requests /\ q.who = "ingestor"
  BY <1>5, RequestsMade
<1>7. pc[i] \in {"up", "draining"} /\ UNCHANGED <<pc, snap, mirror, producer, copies, confirmed>>
  BY DEF Ingest
<1> QED
  BY <1>2, <1>4, <1>6, <1>7

LEMMA ReserveEffect ==
    ASSUME TypeOK, NEW i \in Instances, NEW t \in Producers, Reserve(i, t)
    PROVE  /\ pc[i] = "up" /\ producer[i][t] = Idle
           /\ metrics' \in [Instances -> [Fields -> Nat]]
           /\ metrics'[i]["next_iteration"] = metrics[i]["next_iteration"] + 1
           /\ \A j \in Instances : j # i => metrics'[j] = metrics[j]
           /\ metrics[i]["next_iteration"] \in Ordinals
           /\ producer' = [producer EXCEPT ![i][t] =
                             [at |-> "llm", ordinal |-> metrics[i]["next_iteration"]]]
           /\ UNCHANGED <<pc, snap, mirror, waiting, copies, confirmed>>
<1>1. metrics \in [Instances -> [Fields -> Nat]] /\ metrics[i]["next_iteration"] \in Nat
  <2>1. metrics \in [Instances -> [Fields -> Nat]]
    BY Types
  <2>2. "next_iteration" \in Fields
    BY CellsAre
  <2> QED
    BY <2>1, <2>2
<1>2. /\ metrics[i]["next_iteration"] < MaxOrdinal
      /\ metrics' = [metrics EXCEPT ![i].next_iteration = @ + 1]
      /\ pc[i] = "up" /\ producer[i][t] = Idle
      /\ producer' = [producer EXCEPT ![i][t] =
                        [at |-> "llm", ordinal |-> metrics[i]["next_iteration"]]]
      /\ UNCHANGED <<pc, snap, mirror, waiting, copies, confirmed>>
  BY DEF Reserve
<1>3. metrics[i]["next_iteration"] \in Ordinals
  BY <1>1, <1>2, LifeAssumption DEF Ordinals
<1>4. [metrics[i] EXCEPT !["next_iteration"] = @ + 1] \in [Fields -> Nat]
  BY <1>1, CellsAre
<1>5. metrics' = [metrics EXCEPT ![i] = [metrics[i] EXCEPT !["next_iteration"] = @ + 1]]
  BY <1>1, <1>2
<1>6. [metrics[i] EXCEPT !["next_iteration"] = @ + 1]["next_iteration"] = metrics[i]["next_iteration"] + 1
  BY <1>1, CellsAre
<1> QED
  BY <1>1, <1>2, <1>3, <1>4, <1>5, <1>6

LEMMA ForgetEffect ==
    ASSUME TypeOK, NEW i \in Instances, Forget(i)
    PROVE  /\ mirror' \in [Instances -> [Cells -> Nat]]
           /\ metrics' \in [Instances -> [Fields -> Nat]]
           /\ waiting' \in [Instances -> Seq(Requests)]
           /\ producer' \in [Instances -> [Producers -> Tasks]]
           /\ waiting'[i] = <<>> /\ mirror'[i] = Default
           /\ \A t \in Producers : producer'[i][t] = Idle
           /\ \A j \in Instances : j # i =>
                 /\ mirror'[j] = mirror[j] /\ metrics'[j] = metrics[j]
                 /\ waiting'[j] = waiting[j] /\ producer'[j] = producer[j]
           /\ UNCHANGED <<snap, copies, confirmed>>
<1>1. /\ mirror' = [mirror EXCEPT ![i] = Default]
      /\ metrics' = [metrics EXCEPT ![i] = [f \in Fields |-> 0]]
      /\ waiting' = [waiting EXCEPT ![i] = <<>>]
      /\ producer' = [producer EXCEPT ![i] = [t \in Producers |-> Idle]]
      /\ UNCHANGED <<snap, copies, confirmed>>
  BY DEF Forget
<1>2. /\ Default \in [Cells -> Nat] /\ [f \in Fields |-> 0] \in [Fields -> Nat]
      /\ <<>> \in Seq(Requests)
      /\ [t \in Producers |-> Idle] \in [Producers -> Tasks]
  BY IdleTyped DEF Default, Cells, Tasks
<1>3. /\ mirror \in [Instances -> [Cells -> Nat]]
      /\ metrics \in [Instances -> [Fields -> Nat]]
      /\ waiting \in [Instances -> Seq(Requests)]
      /\ producer \in [Instances -> [Producers -> Tasks]]
  BY Types
<1> QED
  BY <1>1, <1>2, <1>3

\* The steps that write the snapshot, with or without an answer.
LEMMA SaveEffect ==
    ASSUME TypeOK, NEW i \in Instances, Save(i)
    PROVE  /\ pc[i] \in Live /\ waiting[i] # <<>> /\ Head(waiting[i]) \in Requests
           /\ snap' = NextSnapshot(i, Head(waiting[i]).updates)
           /\ snap' \in [Cells -> Nat] /\ mirror' \in [Instances -> [Cells -> Nat]]
           /\ mirror'[i] = snap' /\ \A j \in Instances : j # i => mirror'[j] = mirror[j]
           /\ WriteEnds(i, Head(waiting[i]), TRUE)
           /\ pc' \in [Instances -> Live \cup {"new", "down"}]
           /\ waiting' \in [Instances -> Seq(Requests)]
           /\ producer' \in [Instances -> [Producers -> Tasks]]
           /\ confirmed' \subseteq Ordinals
           /\ UNCHANGED <<metrics, copies>>
<1>1. /\ pc[i] \in Live /\ waiting[i] # <<>>
      /\ snap' = NextSnapshot(i, Head(waiting[i]).updates)
      /\ mirror' = [mirror EXCEPT ![i] = snap']
      /\ waiting' = [waiting EXCEPT ![i] = Tail(@)]
      /\ Resumed(i, Head(waiting[i]).who, TRUE)
      /\ UNCHANGED <<metrics, copies>>
  BY DEF Save
<1>2. Head(waiting[i]) \in Requests
  BY <1>1, FirstWriter
<1>3. snap' \in [Cells -> Nat]
  BY <1>1, <1>2, NextSnapshotIs
<1>4. mirror \in [Instances -> [Cells -> Nat]]
  BY Types
<1>5. /\ mirror' \in [Instances -> [Cells -> Nat]]
      /\ mirror'[i] = snap' /\ \A j \in Instances : j # i => mirror'[j] = mirror[j]
  BY <1>1, <1>3, <1>4
<1>6. /\ WriteEnds(i, Head(waiting[i]), TRUE)
      /\ pc' \in [Instances -> Live \cup {"new", "down"}]
      /\ waiting' \in [Instances -> Seq(Requests)]
      /\ producer' \in [Instances -> [Producers -> Tasks]]
      /\ confirmed' \subseteq Ordinals
  BY <1>1, WriteReturns DEF Tasks
<1> QED
  BY <1>1, <1>2, <1>3, <1>5, <1>6

LEMMA SaveFailsEffect ==
    ASSUME TypeOK, NEW i \in Instances, SaveFails(i)
    PROVE  /\ pc[i] \in Live /\ waiting[i] # <<>> /\ Head(waiting[i]) \in Requests
           /\ snap' = snap \/ snap' = NextSnapshot(i, Head(waiting[i]).updates)
           /\ snap' \in [Cells -> Nat]
           /\ WriteEnds(i, Head(waiting[i]), FALSE)
           /\ pc' \in [Instances -> Live \cup {"new", "down"}]
           /\ waiting' \in [Instances -> Seq(Requests)]
           /\ producer' \in [Instances -> [Producers -> Tasks]]
           /\ UNCHANGED <<mirror, metrics, copies, confirmed>>
<1>1. /\ pc[i] \in Live /\ waiting[i] # <<>>
      /\ snap' = snap \/ snap' = NextSnapshot(i, Head(waiting[i]).updates)
      /\ waiting' = [waiting EXCEPT ![i] = Tail(@)]
      /\ Resumed(i, Head(waiting[i]).who, FALSE)
      /\ UNCHANGED <<mirror, metrics, copies>>
  BY DEF SaveFails
<1>2. Head(waiting[i]) \in Requests
  BY <1>1, FirstWriter
<1>3. snap' \in [Cells -> Nat]
  BY <1>1, <1>2, NextSnapshotIs, Types
<1>4. /\ WriteEnds(i, Head(waiting[i]), FALSE)
      /\ pc' \in [Instances -> Live \cup {"new", "down"}]
      /\ waiting' \in [Instances -> Seq(Requests)]
      /\ producer' \in [Instances -> [Producers -> Tasks]]
  BY <1>1, WriteReturns DEF Tasks
<1>5. confirmed' = confirmed
  BY <1>4 DEF WriteEnds
<1> QED
  BY <1>1, <1>2, <1>3, <1>4, <1>5

\* The first steps of a life.
LEMMA StartFreshEffect ==
    ASSUME TypeOK, NEW i \in Instances, StartFresh(i)
    PROVE  /\ pc[i] = "resuming" /\ ~HasData
           /\ pc' = [pc EXCEPT ![i] = "starting"]
           /\ copies' \in [Ordinals -> Nat]
           /\ \A o \in Ordinals : copies'[o] = IF o < Seeds THEN 1 ELSE 0
           /\ metrics' \in [Instances -> [Fields -> Nat]]
           /\ metrics'[i]["next_iteration"] = Seeds
           /\ \A j \in Instances : j # i => metrics'[j] = metrics[j]
           /\ \E q \in Requests :
                 /\ q.who = "run" /\ q.updates["next_iteration"] = Seeds
                 /\ waiting' = [waiting EXCEPT ![i] = Append(@, q)]
           /\ UNCHANGED <<lockVars, snap, mirror, producer, confirmed, history>>
<1>1. /\ pc[i] = "resuming" /\ ~HasData
      /\ pc' = [pc EXCEPT ![i] = "starting"]
      /\ copies' = [o \in Ordinals |-> IF o < Seeds THEN 1 ELSE 0]
      /\ metrics' = [metrics EXCEPT ![i].next_iteration = Seeds]
      /\ Call(i, "run", Fields, metrics'[i])
      /\ UNCHANGED <<lockVars, snap, mirror, producer, confirmed, history>>
  BY DEF StartFresh
<1>2. metrics \in [Instances -> [Fields -> Nat]]
  BY Types
<1>3. [metrics[i] EXCEPT !["next_iteration"] = Seeds] \in [Fields -> Nat]
      /\ [metrics[i] EXCEPT !["next_iteration"] = Seeds]["next_iteration"] = Seeds
  BY <1>2, CellsAre, LifeAssumption
<1>4. /\ metrics' \in [Instances -> [Fields -> Nat]]
      /\ metrics'[i]["next_iteration"] = Seeds /\ metrics'[i] \in [Fields -> Nat]
      /\ \A j \in Instances : j # i => metrics'[j] = metrics[j]
  BY <1>1, <1>2, <1>3
<1>5. PICK q \in Requests :
         /\ q.who = "run" /\ q.updates["next_iteration"] = metrics'[i]["next_iteration"]
         /\ waiting' = [waiting EXCEPT ![i] = Append(@, q)]
  BY <1>1, <1>4, RunCalls
<1>6. copies' \in [Ordinals -> Nat] /\ \A o \in Ordinals : copies'[o] = IF o < Seeds THEN 1 ELSE 0
  BY <1>1
<1> QED
  BY <1>1, <1>4, <1>5, <1>6

LEMMA ResumeEffect ==
    ASSUME TypeOK, NEW i \in Instances, Resume(i)
    PROVE  /\ pc[i] = "resuming" /\ HasData
           /\ pc' = [pc EXCEPT ![i] = "starting"]
           /\ mirror' = [mirror EXCEPT ![i] = snap]
           /\ metrics' \in [Instances -> [Fields -> Nat]]
           /\ metrics'[i]["next_iteration"] = snap["next_iteration"]
           /\ \A j \in Instances : j # i => metrics'[j] = metrics[j]
           /\ \E q \in Requests :
                 /\ q.who = "run" /\ q.updates["next_iteration"] = snap["next_iteration"]
                 /\ waiting' = [waiting EXCEPT ![i] = Append(@, q)]
           /\ UNCHANGED <<lockVars, snap, producer, copies, confirmed, history>>
<1>1. /\ pc[i] = "resuming" /\ HasData
      /\ pc' = [pc EXCEPT ![i] = "starting"]
      /\ mirror' = [mirror EXCEPT ![i] = snap]
      /\ metrics' = [metrics EXCEPT ![i] = [f \in Fields |-> snap[f]]]
      /\ Call(i, "run", Fields, metrics'[i])
      /\ UNCHANGED <<lockVars, snap, producer, copies, confirmed, history>>
  BY DEF Resume
<1>2. metrics \in [Instances -> [Fields -> Nat]] /\ snap \in [Cells -> Nat]
  BY Types
<1>3. [f \in Fields |-> snap[f]] \in [Fields -> Nat]
      /\ [f \in Fields |-> snap[f]]["next_iteration"] = snap["next_iteration"]
  BY <1>2, CellsAre
<1>4. /\ metrics' \in [Instances -> [Fields -> Nat]]
      /\ metrics'[i]["next_iteration"] = snap["next_iteration"] /\ metrics'[i] \in [Fields -> Nat]
      /\ \A j \in Instances : j # i => metrics'[j] = metrics[j]
  BY <1>1, <1>2, <1>3
<1>5. PICK q \in Requests :
         /\ q.who = "run" /\ q.updates["next_iteration"] = metrics'[i]["next_iteration"]
         /\ waiting' = [waiting EXCEPT ![i] = Append(@, q)]
  BY <1>1, <1>4, RunCalls
<1> QED
  BY <1>1, <1>4, <1>5

LEMMA FinalWriteEffect ==
    ASSUME TypeOK, NEW i \in Instances, FinalWrite(i)
    PROVE  /\ pc[i] = "draining" /\ waiting[i] = <<>>
           /\ \A t \in Producers : producer[i][t] = Idle
           /\ pc' = [pc EXCEPT ![i] = "final"]
           /\ \E q \in Requests :
                 /\ q.who = "run" /\ q.updates["next_iteration"] = metrics[i]["next_iteration"]
                 /\ waiting' = [waiting EXCEPT ![i] = Append(@, q)]
           /\ UNCHANGED <<lockVars, snap, mirror, metrics, producer, copies, confirmed, history>>
<1>1. metrics[i] \in [Fields -> Nat]
  BY Types
<1>2. Call(i, "run", Fields, metrics[i])
  BY DEF FinalWrite
<1> QED
  BY <1>1, <1>2, RunCalls DEF FinalWrite

LEMMA StoreChildEffect ==
    ASSUME TypeOK, NEW i \in Instances, NEW t \in Producers, StoreChild(i, t)
    PROVE  /\ pc[i] \in {"up", "draining"} /\ producer[i][t].at = "llm"
           /\ producer[i][t].ordinal \in Ordinals
           /\ producer' = [producer EXCEPT ![i][t].at = "stored"]
           /\ copies' \in [Ordinals -> Nat]
           /\ \A o \in Ordinals :
                 copies'[o] = IF o = producer[i][t].ordinal THEN copies[o] + 1 ELSE copies[o]
           /\ UNCHANGED <<pc, snap, mirror, metrics, waiting, confirmed>>
<1>1. producer \in [Instances -> [Producers -> Tasks]] /\ copies \in [Ordinals -> Nat]
  BY Types
<1>2. producer[i][t].ordinal \in Ordinals
  BY <1>1 DEF Tasks
<1> QED
  BY <1>1, <1>2 DEF StoreChild

\* A step on one task of a process changes nothing else of the tasks.
Moves(i, t, a)   == producer' = [producer EXCEPT ![i][t].at = a]
Becomes(i, t, x) == producer' = [producer EXCEPT ![i][t] = x]

LEMMA TaskMoves ==
    ASSUME TypeOK, NEW i \in Instances, NEW t \in Producers, NEW a \in {"stored", "saving"},
           Moves(i, t, a)
    PROVE  /\ producer' \in [Instances -> [Producers -> Tasks]]
           /\ producer'[i][t].at = a /\ producer'[i][t].ordinal = producer[i][t].ordinal
           /\ \A j \in Instances : \A u \in Producers :
                 j # i \/ u # t => producer'[j][u] = producer[j][u]
<1>1. producer \in [Instances -> [Producers -> Tasks]]
  BY Types
<1>2. producer[i][t] \in Tasks /\ [producer[i][t] EXCEPT !.at = a] \in Tasks
  BY <1>1 DEF Tasks
<1>3. producer' = [producer EXCEPT ![i][t] = [producer[i][t] EXCEPT !.at = a]]
  BY <1>1 DEF Moves
<1>4. [producer[i][t] EXCEPT !.at = a].at = a
      /\ [producer[i][t] EXCEPT !.at = a].ordinal = producer[i][t].ordinal
  BY <1>2 DEF Tasks
<1> QED
  BY <1>1, <1>2, <1>3, <1>4

LEMMA TaskSet ==
    ASSUME TypeOK, NEW i \in Instances, NEW t \in Producers, NEW x \in Tasks,
           Becomes(i, t, x)
    PROVE  /\ producer' \in [Instances -> [Producers -> Tasks]]
           /\ producer'[i][t] = x
           /\ \A j \in Instances : \A u \in Producers :
                 j # i \/ u # t => producer'[j][u] = producer[j][u]
<1>1. producer \in [Instances -> [Producers -> Tasks]]
  BY Types
<1> QED
  BY <1>1 DEF Becomes

----------------------------------------------------------------------------
\* Type correctness.

LEMMA TypeInit == ASSUME Init PROVE TypeOK
<1>1. /\ Default \in [Cells -> Nat] /\ [f \in Fields |-> 0] \in [Fields -> Nat]
      /\ <<>> \in Seq(Requests)
      /\ [t \in Producers |-> Idle] \in [Producers -> Tasks]
      /\ [o \in Ordinals |-> 0] \in [Ordinals -> Nat]
  BY IdleTyped DEF Default, Cells, Tasks
<1>2. LockTypeOK
  BY DEF Init, LockInit, LockTypeOK
<1>3. /\ snap \in [Cells -> Nat] /\ mirror \in [Instances -> [Cells -> Nat]]
      /\ metrics \in [Instances -> [Fields -> Nat]]
      /\ waiting \in [Instances -> Seq(Requests)]
      /\ producer \in [Instances -> [Producers -> Tasks]]
      /\ copies \in [Ordinals -> Nat] /\ confirmed \subseteq Ordinals
  BY <1>1 DEF Init, SnapInit
<1>4. clean \in BOOLEAN /\ shared \in BOOLEAN
  BY DEF Init
<1> QED
  BY <1>2, <1>3, <1>4 DEF TypeOK, SnapTypeOK, Cells, Tasks, history

\* The lock steps keep the types of the lock.
LEMMA LockStepTyped ==
    ASSUME TypeOK, NEW i \in Instances,
           Start(i) \/ LockStep(i) \/ Exit(i) \/ Crash(i)
    PROVE  LockTypeOK'
<1>1. /\ key \in Instances \cup {None}
      /\ renewal \in [Instances -> {"none", "sleep", "got", "lost"}]
      /\ pc \in [Instances -> Live \cup {"new", "down"}]
  BY Types
<1>2. "resuming" \in Live /\ "releasing" \in Live
  BY DEF Live
<1>3. CASE Start(i)
  BY <1>1, <1>2, <1>3 DEF Start, Acquire, LockTypeOK
<1>4. CASE LockStep(i)
  <2>1. CASE AcquireUnacked(i)
    BY <1>1, <2>1 DEF AcquireUnacked, LockTypeOK
  <2>2. CASE RenewRead(i)
    BY <1>1, <2>2 DEF RenewRead, LockTypeOK
  <2>3. CASE RenewWrite(i)
    BY <1>1, <2>3 DEF RenewWrite, LockTypeOK
  <2>4. CASE RenewFails(i)
    BY <1>1, <2>4 DEF RenewFails, LockTypeOK
  <2>5. CASE ReleaseRead(i)
    BY <1>1, <1>2, <2>5 DEF ReleaseRead, LockTypeOK
  <2> QED
    BY <1>4, <2>1, <2>2, <2>3, <2>4, <2>5 DEF LockStep
<1>5. CASE Exit(i)
  BY <1>1, <1>5 DEF Exit, ReleaseDelete, ReleaseNothing, LockTypeOK
<1>6. CASE Crash(i)
  BY <1>1, <1>6 DEF Crash, LockTypeOK
<1> QED
  BY <1>3, <1>4, <1>5, <1>6

LEMMA TypeStep == ASSUME TypeOK, [Next]_vars PROVE TypeOK'
<1> USE Types
<1>1. ASSUME UNCHANGED vars PROVE TypeOK'
  BY <1>1 DEF vars, lockVars, snapVars, history, TypeOK, LockTypeOK, SnapTypeOK
<1>2. ASSUME Expiry PROVE TypeOK'
  BY <1>2 DEF Expiry, Expire, snapVars, history, TypeOK, LockTypeOK, SnapTypeOK
<1>3. ASSUME NEW i \in Instances PROVE
         /\ Start(i) => TypeOK'
         /\ LockStep(i) => TypeOK'
  <2>1. ASSUME Start(i) PROVE TypeOK'
    <3>1. LockTypeOK'
      BY <2>1, LockStepTyped
    <3>2. UNCHANGED <<snapVars, clean>> /\ shared' \in BOOLEAN
      BY <2>1 DEF Start
    <3> QED
      BY <3>1, <3>2 DEF TypeOK, SnapTypeOK, snapVars, history
  <2>2. ASSUME LockStep(i) PROVE TypeOK'
    <3>1. LockTypeOK'
      BY <2>2, LockStepTyped
    <3>2. UNCHANGED <<snapVars, history>>
      BY <2>2 DEF LockStep
    <3> QED
      BY <3>1, <3>2 DEF TypeOK, SnapTypeOK, snapVars, history
  <2> QED
    BY <2>1, <2>2
<1>4. ASSUME NEW i \in Instances, Exit(i) \/ Crash(i) PROVE TypeOK'
  <2>1. LockTypeOK'
    BY <1>4, LockStepTyped
  <2>2. Forget(i)
    BY <1>4 DEF Exit, Crash
  <2>3. clean' \in BOOLEAN /\ shared' \in BOOLEAN
    BY <1>4 DEF Exit, Crash, history
  <2> QED
    BY <2>1, <2>2, <2>3, ForgetEffect, TypesMakeOK DEF LockTypeOK
<1>5. "starting" \in Live /\ "draining" \in Live /\ "final" \in Live
  BY DEF Live
<1>6. ASSUME NEW i \in Instances, StartFresh(i) PROVE TypeOK'
  <2>1. PICK q \in Requests : waiting' = [waiting EXCEPT ![i] = Append(@, q)]
    BY <1>6, StartFreshEffect
  <2>2. waiting' \in [Instances -> Seq(Requests)]
    BY <2>1, CallAdds
  <2>3. /\ pc' = [pc EXCEPT ![i] = "starting"] /\ copies' \in [Ordinals -> Nat]
        /\ metrics' \in [Instances -> [Fields -> Nat]]
        /\ UNCHANGED <<lockVars, snap, mirror, producer, confirmed, history>>
    BY <1>6, StartFreshEffect
  <2>4. pc' \in [Instances -> Live \cup {"new", "down"}]
    BY <1>5, <2>3
  <2> QED
    BY <2>2, <2>3, <2>4, TypesMakeOK DEF lockVars, history
<1>7. ASSUME NEW i \in Instances, Resume(i) PROVE TypeOK'
  <2>1. PICK q \in Requests : waiting' = [waiting EXCEPT ![i] = Append(@, q)]
    BY <1>7, ResumeEffect
  <2>2. waiting' \in [Instances -> Seq(Requests)]
    BY <2>1, CallAdds
  <2>3. /\ pc' = [pc EXCEPT ![i] = "starting"] /\ mirror' = [mirror EXCEPT ![i] = snap]
        /\ metrics' \in [Instances -> [Fields -> Nat]]
        /\ UNCHANGED <<lockVars, snap, producer, copies, confirmed, history>>
    BY <1>7, ResumeEffect
  <2>4. pc' \in [Instances -> Live \cup {"new", "down"}] /\ mirror' \in [Instances -> [Cells -> Nat]]
    BY <1>5, <2>3
  <2> QED
    BY <2>2, <2>3, <2>4, TypesMakeOK DEF lockVars, history
<1>8. ASSUME NEW i \in Instances, Stop(i) PROVE TypeOK'
  BY <1>5, <1>8 DEF Stop, lockVars, snapVars, history, TypeOK, LockTypeOK, SnapTypeOK
<1>9. ASSUME NEW i \in Instances, FinalWrite(i) PROVE TypeOK'
  <2>1. PICK q \in Requests : waiting' = [waiting EXCEPT ![i] = Append(@, q)]
    BY <1>9, FinalWriteEffect
  <2>2. waiting' \in [Instances -> Seq(Requests)]
    BY <2>1, CallAdds
  <2>3. /\ pc' = [pc EXCEPT ![i] = "final"]
        /\ UNCHANGED <<lockVars, snap, mirror, metrics, producer, copies, confirmed, history>>
    BY <1>9, FinalWriteEffect
  <2>4. pc' \in [Instances -> Live \cup {"new", "down"}]
    BY <1>5, <2>3
  <2> QED
    BY <2>2, <2>3, <2>4, TypesMakeOK DEF lockVars, history
<1>10. ASSUME NEW i \in Instances, SnapshotFails(i) PROVE TypeOK'
  <2>1. SaveFails(i) /\ clean' \in BOOLEAN /\ UNCHANGED <<lockVars, shared>>
    BY <1>10 DEF SnapshotFails
  <2> QED
    BY <2>1, SaveFailsEffect, TypesMakeOK DEF lockVars
<1>11. ASSUME NEW i \in Instances, Save(i), UNCHANGED <<lockVars, history>> PROVE TypeOK'
  BY <1>11, SaveEffect, TypesMakeOK DEF lockVars, history
<1>12. ASSUME NEW i \in Instances, Ingest(i), UNCHANGED <<lockVars, history>> PROVE TypeOK'
  <2>1. PICK q \in Requests : waiting' = [waiting EXCEPT ![i] = Append(@, q)]
    BY <1>12, IngestEffect
  <2>2. waiting' \in [Instances -> Seq(Requests)]
    BY <2>1, CallAdds
  <2> QED
    BY <1>12, <2>2, IngestEffect, TypesMakeOK DEF lockVars, history
<1>13. ASSUME NEW i \in Instances, NEW t \in Producers, UNCHANGED <<lockVars, history>>
       PROVE  /\ Reserve(i, t) => TypeOK'
              /\ NoChild(i, t) => TypeOK'
              /\ StoreChild(i, t) => TypeOK'
              /\ Handover(i, t) => TypeOK'
  <2>1. ASSUME Reserve(i, t) PROVE TypeOK'
    <3>1. [at |-> "llm", ordinal |-> metrics[i]["next_iteration"]] \in Tasks
      BY <2>1, ReserveEffect DEF Tasks
    <3>2. Becomes(i, t, [at |-> "llm", ordinal |-> metrics[i]["next_iteration"]])
      BY <2>1, ReserveEffect DEF Becomes
    <3>3. producer' \in [Instances -> [Producers -> Tasks]]
      BY <3>1, <3>2, TaskSet
    <3> QED
      BY <1>13, <2>1, <3>3, ReserveEffect, TypesMakeOK DEF lockVars, history
  <2>2. ASSUME NoChild(i, t) PROVE TypeOK'
    <3>1. producer' = [producer EXCEPT ![i][t] = Idle]
          /\ UNCHANGED <<pc, snap, mirror, metrics, waiting, copies, confirmed>>
      BY <2>2 DEF NoChild
    <3>2. Becomes(i, t, Idle) /\ Idle \in Tasks
      BY <3>1, IdleTyped DEF Becomes, Tasks
    <3>3. producer' \in [Instances -> [Producers -> Tasks]]
      BY <3>2, TaskSet
    <3> QED
      BY <1>13, <3>1, <3>3, TypesMakeOK DEF lockVars, history
  <2>3. ASSUME StoreChild(i, t) PROVE TypeOK'
    <3>1. Moves(i, t, "stored")
      BY <2>3, StoreChildEffect DEF Moves
    <3>2. producer' \in [Instances -> [Producers -> Tasks]]
      BY <3>1, TaskMoves
    <3> QED
      BY <1>13, <2>3, <3>2, StoreChildEffect, TypesMakeOK DEF lockVars, history
  <2>4. ASSUME Handover(i, t) PROVE TypeOK'
    <3>1. producer' \in [Instances -> [Producers -> Tasks]]
      <4>1. Moves(i, t, "saving")
        BY <2>4, HandoverEffect DEF Moves
      <4> QED
        BY <4>1, TaskMoves
    <3>2. PICK q \in Requests : waiting' = [waiting EXCEPT ![i] = Append(@, q)]
      BY <2>4, HandoverEffect
    <3>3. waiting' \in [Instances -> Seq(Requests)]
      BY <3>2, CallAdds
    <3> QED
      BY <1>13, <2>4, <3>1, <3>3, HandoverEffect, TypesMakeOK DEF lockVars, history
  <2> QED
    BY <2>1, <2>2, <2>3, <2>4
<1> QED
  BY <1>1, <1>2, <1>3, <1>4, <1>6, <1>7, <1>8, <1>9, <1>10, <1>11, <1>12, <1>13
     DEF Next, EngineStep, Over

\* EngineSnapshot, InstanceLock: every variable keeps its type; what the queue
\* of _snapshot_lock holds is a call of _write_snapshot with its counters.
THEOREM TypeCorrect == Spec => []TypeOK
<1>1. Init => TypeOK
  BY TypeInit
<1>2. TypeOK /\ [Next]_vars => TypeOK'
  BY TypeStep
<1> QED
  BY <1>1, <1>2, PTL DEF Spec

----------------------------------------------------------------------------
\* The instance lock.

\* No step but Start makes a process live, and no other shares the storage.
LEMMA LiveStep ==
    ASSUME TypeOK, [Next]_vars, ~ \E i \in Instances : Start(i)
    PROVE  /\ shared' = shared
           /\ \A j \in Instances : pc'[j] \in Live => pc[j] \in Live
<1> USE Types
<1> DEFINE Goal == /\ shared' = shared
                   /\ \A j \in Instances : pc'[j] \in Live => pc[j] \in Live
<1> SUFFICES Goal
  OBVIOUS
<1>1. ASSUME UNCHANGED <<pc, shared>> PROVE Goal
  BY <1>1
<1>2. ASSUME NEW i \in Instances, UNCHANGED shared, pc[i] \in Live, NEW p,
             pc' = [pc EXCEPT ![i] = p]
      PROVE  Goal
  BY <1>2
<1>3. ASSUME NEW i \in Instances, UNCHANGED shared,
             pc' = [pc EXCEPT ![i] = "down"]
      PROVE  Goal
  BY <1>3 DEF Live
<1> HIDE DEF Goal
<1>4. ASSUME NEW i \in Instances, SnapshotFails(i) \/ (Save(i) /\ UNCHANGED history) PROVE Goal
  <2>1. pc[i] \in Live /\ \A j \in Instances : j # i => pc'[j] = pc[j]
    BY <1>4, SaveEffect, SaveFailsEffect DEF SnapshotFails, WriteEnds
  <2>2. shared' = shared
    BY <1>4 DEF SnapshotFails, history
  <2> QED
    BY <2>1, <2>2 DEF Goal
<1>5. ASSUME NEW i \in Instances, LockStep(i) PROVE Goal
  <2>1. shared' = shared
    BY <1>5 DEF LockStep, history
  <2>2. CASE AcquireUnacked(i)
    BY <1>3, <2>1, <2>2 DEF AcquireUnacked
  <2>3. CASE ReleaseRead(i)
    BY <1>2, <2>1, <2>3 DEF ReleaseRead, Live
  <2>4. CASE RenewRead(i) \/ RenewWrite(i) \/ RenewFails(i)
    BY <1>1, <2>1, <2>4 DEF RenewRead, RenewWrite, RenewFails
  <2> QED
    BY <1>5, <2>2, <2>3, <2>4 DEF LockStep
<1>6. ASSUME NEW i \in Instances, Exit(i) \/ Crash(i) PROVE Goal
  BY <1>3, <1>6 DEF Exit, Crash, ReleaseDelete, ReleaseNothing, history
<1>7. ASSUME NEW i \in Instances, StartFresh(i) \/ Resume(i) \/ Stop(i) \/ FinalWrite(i) PROVE Goal
  BY <1>2, <1>7 DEF StartFresh, Resume, Stop, FinalWrite, history, Live
<1>8. ASSUME NEW i \in Instances, UNCHANGED history,
             Ingest(i) \/ \E t \in Producers : Reserve(i, t) \/ NoChild(i, t) \/ StoreChild(i, t) \/ Handover(i, t)
      PROVE  Goal
  BY <1>1, <1>8 DEF Ingest, Reserve, NoChild, StoreChild, Handover, history
<1>9. ASSUME Expiry \/ UNCHANGED vars PROVE Goal
  BY <1>1, <1>9 DEF Expiry, Expire, vars, history
<1> QED
  BY <1>4, <1>5, <1>6, <1>7, <1>8, <1>9 DEF Next, EngineStep, Over

\* What one step does to the key and to the renewal of a process that is live
\* before and after it.
LEMMA KeyStep ==
    ASSUME TypeOK, [Next]_vars, Alone, KeyHeld, ~shared', "late" \notin Faults,
           ~ \E i \in Instances : Start(i),
           NEW j \in Instances, pc[j] \in Live, pc'[j] \in Live
    PROVE  key' = j \/ renewal'[j] = "lost"
<1> USE Types
<1> DEFINE Goal == key' = j \/ renewal'[j] = "lost"
<1>1. ~shared
  BY LiveStep
<1>2. /\ key = j \/ renewal[j] = "lost"
      /\ \A i \in Instances : pc[i] \in Live => i = j
      /\ j # None
  BY <1>1, LifeAssumption DEF Alone, KeyHeld
<1>3. ASSUME UNCHANGED <<key, renewal>> PROVE Goal
  BY <1>2, <1>3
<1> HIDE DEF Goal
<1>4. ASSUME NEW i \in Instances, LockStep(i) PROVE Goal
  <2>1. CASE AcquireUnacked(i)
    BY <1>2, <2>1 DEF AcquireUnacked, Goal
  <2>2. CASE RenewRead(i)
    BY <1>2, <2>2 DEF RenewRead, Goal
  <2>3. CASE RenewWrite(i)
    BY <1>2, <2>3 DEF RenewWrite, Goal
  <2>4. CASE RenewFails(i)
    BY <1>2, <2>4 DEF RenewFails, Goal
  <2>5. CASE ReleaseRead(i)
    BY <1>2, <2>5 DEF ReleaseRead, Goal
  <2> QED
    BY <1>4, <2>1, <2>2, <2>3, <2>4, <2>5 DEF LockStep
<1>5. ASSUME NEW i \in Instances, Exit(i) \/ Crash(i) PROVE Goal
  <2>1. pc[i] \in Live /\ pc' = [pc EXCEPT ![i] = "down"]
    BY <1>5 DEF Exit, Crash, ReleaseDelete, ReleaseNothing, Live
  <2>2. i = j /\ pc'[j] = "down"
    BY <1>2, <2>1
  <2> QED
    BY <2>2 DEF Live
<1>6. ASSUME NEW i \in Instances, UNCHANGED lockVars PROVE Goal
  BY <1>3, <1>6 DEF lockVars
<1>7. ASSUME Expiry PROVE Goal
  <2>1. /\ key # None
        /\ pc[key] = "down" \/ renewal[key] = "lost"
        /\ renewal' = renewal
    BY <1>7 DEF Expiry, Expire
  <2>2. CASE key = j
    BY <2>1, <2>2 DEF Goal, Live
  <2>3. CASE key # j
    BY <1>2, <2>1, <2>3 DEF Goal
  <2> QED
    BY <2>2, <2>3
<1>8. ASSUME UNCHANGED vars PROVE Goal
  BY <1>3, <1>8 DEF vars, lockVars
<1>9. ASSUME NEW i \in Instances,
             StartFresh(i) \/ Resume(i) \/ Stop(i) \/ FinalWrite(i) \/ SnapshotFails(i) \/ EngineStep(i)
      PROVE  Goal
  BY <1>6, <1>9 DEF StartFresh, Resume, Stop, FinalWrite, SnapshotFails, EngineStep
<1>10. Goal
  BY <1>4, <1>5, <1>7, <1>8, <1>9 DEF Next, Over
<1> QED
  BY <1>10 DEF Goal

LEMMA LockInvariantStep ==
    ASSUME TypeOK, Alone, KeyHeld, [Next]_vars
    PROVE  Alone' /\ KeyHeld'
<1> USE Types
<1>1. ASSUME NEW i \in Instances, Start(i) PROVE Alone' /\ KeyHeld'
  <2>1. /\ pc[i] = "new" /\ key' = i /\ pc' = [pc EXCEPT ![i] = "resuming"]
        /\ shared' = (shared \/ \E j \in Instances : pc[j] \in Live)
    BY <1>1 DEF Start, Acquire
  <2>2. ASSUME NEW j \in Instances, ~shared', pc'[j] \in Live PROVE j = i
    BY <2>1, <2>2
  <2> QED
    BY <2>1, <2>2 DEF Alone, KeyHeld
<1>2. ASSUME ~ \E i \in Instances : Start(i) PROVE Alone' /\ KeyHeld'
  <2>1. /\ shared' = shared
        /\ \A j \in Instances : pc'[j] \in Live => pc[j] \in Live
    BY <1>2, LiveStep
  <2>2. Alone'
    BY <2>1 DEF Alone
  <2>3. KeyHeld'
    BY <1>2, <2>1, KeyStep DEF KeyHeld
  <2> QED
    BY <2>2, <2>3
<1> QED
  BY <1>1, <1>2

LEMMA LockInvariantHolds == Spec => [](TypeOK /\ Alone /\ KeyHeld)
<1>1. Init => TypeOK /\ Alone /\ KeyHeld
  <2>1. ASSUME Init PROVE Alone /\ KeyHeld
    BY <2>1 DEF Init, LockInit, Alone, KeyHeld, Live
  <2> QED
    BY <2>1, TypeInit
<1>2. TypeOK /\ Alone /\ KeyHeld /\ [Next]_vars => (TypeOK /\ Alone /\ KeyHeld)'
  BY TypeStep, LockInvariantStep
<1> QED
  BY <1>1, <1>2, PTL DEF Spec

\* RedisInstanceLock: for any number of processes, a second one begins to use
\* the storage next to another only when the renewal of that one has failed.
THEOREM LockIsExclusive == Spec => SharedOnlyAfterLoss
<1> DEFINE A == ~shared /\ shared' /\ "late" \notin Faults =>
                   \E i \in Instances : pc[i] \in Live /\ renewal[i] = "lost"
<1>1. TypeOK /\ Alone /\ KeyHeld /\ [Next]_vars => [A]_vars
  <2> SUFFICES ASSUME TypeOK, KeyHeld, [Next]_vars, ~shared, shared', "late" \notin Faults
               PROVE  \E i \in Instances : pc[i] \in Live /\ renewal[i] = "lost"
    OBVIOUS
  <2>1. PICK i \in Instances : Start(i)
    BY LiveStep
  <2>2. key = None /\ shared' = (shared \/ \E j \in Instances : pc[j] \in Live)
    BY <2>1 DEF Start, Acquire
  <2>3. PICK j \in Instances : pc[j] \in Live
    BY <2>2
  <2>4. j # None
    BY LifeAssumption
  <2>5. renewal[j] = "lost"
    BY <2>2, <2>3, <2>4 DEF KeyHeld
  <2> QED
    BY <2>3, <2>5
<1> QED
  BY <1>1, LockInvariantHolds, PTL DEF Spec, SharedOnlyAfterLoss

----------------------------------------------------------------------------
\* The tasks of a process and their writes.

Same(j) == /\ pc'[j] = pc[j] /\ waiting'[j] = waiting[j] /\ mirror'[j] = mirror[j]
           /\ producer'[j] = producer[j]
           /\ metrics'[j]["next_iteration"] = metrics[j]["next_iteration"]

LEMMA SameInOrder == ASSUME NEW j \in Instances, InOrder(j), Same(j) PROVE InOrder(j)'
  BY DEF InOrder, Resting, Covered, Reserved, Same

\* A process that works has its first write behind it or under way; the others
\* have nothing under way.
LEMMA NothingUnderWay ==
    ASSUME TypeOK, NEW i \in Instances, InOrder(i), waiting[i] # <<>>
    PROVE  pc[i] \in {"starting", "up", "draining", "final"}
<1>1. pc[i] \in Live \cup {"new", "down"}
  BY Types
<1> QED
  BY <1>1 DEF InOrder, Resting, Live

LEMMA EmptyLen == \A w \in Seq(Requests) : Len(w) = 0 => w = <<>>
  OBVIOUS

\* The steps in which a write returns.
LEMMA ReturnInOrder ==
    ASSUME TypeOK, TypeOK', NEW i \in Instances, NEW ok \in BOOLEAN, InOrder(i),
           waiting[i] # <<>>, WriteEnds(i, Head(waiting[i]), ok),
           mirror' = mirror \/ mirror'[i] = snap', UNCHANGED metrics
    PROVE  InOrder(i)'
<1> DEFINE q == Head(waiting[i])
<1>1. /\ q \in Requests /\ q = waiting[i][1]
      /\ Len(waiting[i]) \in Nat /\ Len(waiting[i]) >= 1
      /\ Tail(waiting[i]) \in Seq(Requests)
      /\ Len(Tail(waiting[i])) = Len(waiting[i]) - 1
      /\ \A n \in 1 .. Len(waiting[i]) - 1 : Tail(waiting[i])[n] = waiting[i][n + 1]
  BY FirstWriter
<1>2. /\ waiting'[i] = Tail(waiting[i])
      /\ pc'[i] = IF q.who = "run" /\ pc[i] = "starting" THEN IF ok THEN "up" ELSE "closing"
                  ELSE IF q.who = "run" /\ pc[i] = "final" THEN "closing" ELSE pc[i]
      /\ \A t \in Producers : producer'[i][t] = IF t = q.who THEN Idle ELSE producer[i][t]
  BY DEF WriteEnds
<1> HIDE DEF q
<1>3. pc[i] \in {"starting", "up", "draining", "final"}
  BY NothingUnderWay
<1>4. Resting(i)'
  <2>1. CASE pc[i] \in {"starting", "final"}
    <3>1. Len(waiting[i]) = 1 /\ q.who = "run"
      BY <1>1, <2>1 DEF InOrder, Resting
    <3>2. Tail(waiting[i]) = <<>>
      <4>1. Len(Tail(waiting[i])) = 0
        BY <1>1, <3>1
      <4>2. Tail(waiting[i]) \in Seq(Requests)
        BY <1>1
      <4> QED
        BY <4>1, <4>2, EmptyLen
    <3>3. waiting'[i] = <<>> /\ pc'[i] \in {"up", "closing"}
      BY <1>2, <2>1, <3>1, <3>2
    <3> QED
      BY <3>3 DEF Resting
  <2>2. CASE pc[i] \in {"up", "draining"}
    <3>1. pc'[i] \in {"up", "draining"}
      BY <1>2, <2>2
    <3> QED
      BY <3>1 DEF Resting
  <2> QED
    BY <1>3, <2>1, <2>2
<1>5. \A n \in 1 .. Len(waiting'[i]) : n + 1 \in 1 .. Len(waiting[i]) /\ waiting'[i][n] = waiting[i][n + 1]
  BY <1>1, <1>2
<1>6. \A n \in 2 .. Len(waiting[i]) : waiting[i][n].who \in Producers => waiting[i][n].who # q.who
  <2> SUFFICES ASSUME NEW n \in 2 .. Len(waiting[i]), waiting[i][n].who \in Producers,
                      waiting[i][n].who = q.who
               PROVE  FALSE
    OBVIOUS
  <2>1. n \in 1 .. Len(waiting[i]) /\ 1 \in 1 .. Len(waiting[i]) /\ n # 1
    BY <1>1
  <2>2. waiting[i][n].who = waiting[i][1].who
    BY <1>1
  <2> QED
    BY <2>1, <2>2 DEF InOrder, Covered
<1>7. Covered(i)'
  <2>1. ASSUME NEW n \in 1 .. Len(waiting'[i]), waiting'[i][n].who \in Producers
        PROVE  /\ producer'[i][waiting'[i][n].who].at = "saving"
               /\ producer'[i][waiting'[i][n].who].ordinal < waiting'[i][n].updates["next_iteration"]
    <3> DEFINE t == waiting[i][n + 1].who
    <3>1. n + 1 \in 1 .. Len(waiting[i]) /\ n + 1 \in 2 .. Len(waiting[i])
          /\ waiting'[i][n] = waiting[i][n + 1]
      BY <1>1, <1>5
    <3>2. t \in Producers /\ t # q.who
      BY <1>6, <2>1, <3>1
    <3>3. producer'[i][t] = producer[i][t]
      BY <1>2, <3>2
    <3>4. producer[i][t].at = "saving" /\ producer[i][t].ordinal < waiting[i][n + 1].updates["next_iteration"]
      BY <3>1, <3>2 DEF InOrder, Covered
    <3> QED
      BY <3>1, <3>3, <3>4
  <2>2. ASSUME NEW m \in 1 .. Len(waiting'[i]), NEW n \in 1 .. Len(waiting'[i]),
               waiting'[i][m].who = waiting'[i][n].who, waiting'[i][m].who \in Producers
        PROVE  m = n
    <3>1. /\ m + 1 \in 1 .. Len(waiting[i]) /\ waiting'[i][m] = waiting[i][m + 1]
          /\ n + 1 \in 1 .. Len(waiting[i]) /\ waiting'[i][n] = waiting[i][n + 1]
      BY <1>5
    <3>2. m + 1 = n + 1
      BY <2>2, <3>1 DEF InOrder, Covered
    <3> QED
      BY <3>2
  <2> QED
    BY <2>1, <2>2 DEF Covered
<1>8. Reserved(i)'
  <2>1. \A t \in Producers : producer'[i][t].at # "idle" => producer'[i][t] = producer[i][t]
    BY <1>2, IdleTyped
  <2> QED
    BY <2>1 DEF InOrder, Reserved
<1> QED
  BY <1>4, <1>7, <1>8 DEF InOrder

\* The steps in which a call of run() is queued: it is the only one.
LEMMA RunCallInOrder ==
    ASSUME TypeOK, TypeOK', NEW i \in Instances, waiting[i] = <<>>,
           \A t \in Producers : producer'[i][t] = Idle,
           NEW q \in Requests, q.who = "run", waiting' = [waiting EXCEPT ![i] = Append(@, q)],
           pc'[i] \in {"starting", "final"}
    PROVE  InOrder(i)' /\ Len(waiting'[i]) = 1 /\ waiting'[i][1] = q
<1>1. Len(waiting'[i]) = 1 /\ waiting'[i][1] = q
  <2>1. Len(waiting[i]) = 0
    OBVIOUS
  <2>2. /\ Len(waiting'[i]) = Len(waiting[i]) + 1
        /\ waiting'[i][Len(waiting[i]) + 1] = q
    BY CallAdds
  <2> QED
    BY <2>1, <2>2
<1>2. Resting(i)'
  BY <1>1 DEF Resting
<1>3. Covered(i)'
  BY <1>1, LifeAssumption DEF Covered
<1>4. Reserved(i)'
  BY IdleTyped DEF Reserved
<1> QED
  BY <1>1, <1>2, <1>3, <1>4 DEF InOrder

\* The steps of one task: what it did not call for stays as it was.
LEMMA NoWriteOf ==
    ASSUME NEW i \in Instances, InOrder(i), NEW t \in Producers, producer[i][t].at # "saving",
           NEW n \in 1 .. Len(waiting[i])
    PROVE  waiting[i][n].who # t
  BY DEF InOrder, Covered

LEMMA ReserveInOrder ==
    ASSUME TypeOK, TypeOK', NEW i \in Instances, NEW t \in Producers, Reserve(i, t), InOrder(i)
    PROVE  InOrder(i)'
<1> DEFINE next == metrics[i]["next_iteration"]
<1>1. /\ pc[i] = "up" /\ pc'[i] = "up" /\ producer[i][t] = Idle /\ next \in Nat
      /\ metrics'[i]["next_iteration"] = next + 1 /\ waiting' = waiting
      /\ producer' = [producer EXCEPT ![i][t] = [at |-> "llm", ordinal |-> next]]
  BY ReserveEffect, Types, LifeAssumption DEF Ordinals
<1>2. [at |-> "llm", ordinal |-> next] \in Tasks
  BY ReserveEffect DEF Tasks
<1> HIDE DEF next
<1>3. /\ producer'[i][t] = [at |-> "llm", ordinal |-> next]
      /\ \A u \in Producers : u # t => producer'[i][u] = producer[i][u]
  <2>1. Becomes(i, t, [at |-> "llm", ordinal |-> next])
    BY <1>1 DEF Becomes
  <2>2. /\ producer'[i][t] = [at |-> "llm", ordinal |-> next]
        /\ \A j \in Instances : \A u \in Producers :
              j # i \/ u # t => producer'[j][u] = producer[j][u]
    BY <1>2, <2>1, TaskSet
  <2> QED
    BY <2>2
<1>4. producer[i][t].at = "idle"
  BY <1>1, IdleTyped
<1>5. Resting(i)'
  BY <1>1 DEF Resting
<1>6. Covered(i)'
  <2>1. \A n \in 1 .. Len(waiting[i]) : waiting[i][n].who # t
    BY <1>4, NoWriteOf
  <2> QED
    BY <1>1, <1>3, <2>1 DEF InOrder, Covered
<1>7. \A u \in Producers : producer[i][u].at # "idle" => producer[i][u].ordinal < next
  BY DEF InOrder, Reserved, next
<1>8. \A u \in Producers : producer[i][u].ordinal \in Nat
  BY Types, LifeAssumption DEF Tasks, Ordinals
<1>9. Reserved(i)'
  <2>1. ASSUME NEW u \in Producers, producer'[i][u].at # "idle"
        PROVE  producer'[i][u].ordinal < next + 1 /\ (u # t => producer'[i][u].ordinal < next)
    BY <1>1, <1>3, <1>7, <1>8, <2>1
  <2>2. producer'[i][t].ordinal = next
    BY <1>3
  <2>3. ASSUME NEW u \in Producers, NEW v \in Producers, u # v,
               producer'[i][u].at # "idle", producer'[i][v].at # "idle"
        PROVE  producer'[i][u].ordinal # producer'[i][v].ordinal
    <3>1. CASE u # t /\ v # t
      BY <1>3, <2>3, <3>1 DEF InOrder, Reserved
    <3>2. CASE u = t
      BY <1>1, <2>1, <2>2, <2>3, <3>2, <1>3, <1>8
    <3>3. CASE v = t
      BY <1>1, <2>1, <2>2, <2>3, <3>3, <1>3, <1>8
    <3> QED
      BY <3>1, <3>2, <3>3
  <2> QED
    BY <1>1, <2>1, <2>3 DEF Reserved
<1> QED
  BY <1>5, <1>6, <1>9 DEF InOrder

LEMMA NoChildInOrder ==
    ASSUME TypeOK, TypeOK', NEW i \in Instances, NEW t \in Producers, NoChild(i, t), InOrder(i)
    PROVE  InOrder(i)'
<1>1. /\ pc[i] \in {"up", "draining"} /\ producer[i][t].at = "llm"
      /\ producer' = [producer EXCEPT ![i][t] = Idle]
      /\ UNCHANGED <<pc, snap, mirror, metrics, waiting, copies, confirmed>>
  BY DEF NoChild
<1>2. /\ producer'[i][t].at = "idle"
      /\ \A u \in Producers : u # t => producer'[i][u] = producer[i][u]
  <2>1. Idle \in Tasks /\ Idle.at = "idle"
    BY IdleTyped DEF Tasks
  <2>2. Becomes(i, t, Idle)
    BY <1>1 DEF Becomes
  <2>3. /\ producer'[i][t] = Idle
        /\ \A j \in Instances : \A u \in Producers :
              j # i \/ u # t => producer'[j][u] = producer[j][u]
    BY <2>1, <2>2, TaskSet
  <2> QED
    BY <2>1, <2>3
<1>3. \A n \in 1 .. Len(waiting[i]) : waiting[i][n].who # t
  BY <1>1, NoWriteOf
<1>4. Resting(i)'
  BY <1>1 DEF Resting
<1>5. Covered(i)'
  BY <1>1, <1>2, <1>3 DEF InOrder, Covered
<1>6. Reserved(i)'
  BY <1>1, <1>2 DEF InOrder, Reserved
<1> QED
  BY <1>4, <1>5, <1>6 DEF InOrder

LEMMA StoreChildInOrder ==
    ASSUME TypeOK, TypeOK', NEW i \in Instances, NEW t \in Producers, StoreChild(i, t), InOrder(i)
    PROVE  InOrder(i)'
<1>1. /\ pc[i] \in {"up", "draining"} /\ producer[i][t].at = "llm"
      /\ producer' = [producer EXCEPT ![i][t].at = "stored"]
      /\ UNCHANGED <<pc, snap, mirror, metrics, waiting, confirmed>>
  BY StoreChildEffect
<1>2. /\ producer'[i][t].at = "stored" /\ producer'[i][t].ordinal = producer[i][t].ordinal
      /\ \A u \in Producers : u # t => producer'[i][u] = producer[i][u]
  <2>1. Moves(i, t, "stored")
    BY <1>1 DEF Moves
  <2>2. "stored" \in {"stored", "saving"}
    OBVIOUS
  <2>3. /\ producer'[i][t].at = "stored" /\ producer'[i][t].ordinal = producer[i][t].ordinal
        /\ \A j \in Instances : \A u \in Producers :
              j # i \/ u # t => producer'[j][u] = producer[j][u]
    BY <2>1, <2>2, TaskMoves
  <2> QED
    BY <2>3
<1>3. \A n \in 1 .. Len(waiting[i]) : waiting[i][n].who # t
  BY <1>1, NoWriteOf
<1>4. Resting(i)'
  BY <1>1 DEF Resting
<1>5. Covered(i)'
  BY <1>1, <1>2, <1>3 DEF InOrder, Covered
<1>6. Reserved(i)'
  <2>1. \A u \in Producers : /\ producer'[i][u].ordinal = producer[i][u].ordinal
                             /\ producer'[i][u].at # "idle" => producer[i][u].at # "idle"
    BY <1>1, <1>2
  <2> QED
    BY <1>1, <2>1 DEF InOrder, Reserved
<1> QED
  BY <1>4, <1>5, <1>6 DEF InOrder

LEMMA HandoverInOrder ==
    ASSUME TypeOK, TypeOK', NEW i \in Instances, NEW t \in Producers, Handover(i, t), InOrder(i)
    PROVE  InOrder(i)'
<1>1. /\ pc[i] \in {"up", "draining"} /\ producer[i][t].at = "stored"
      /\ producer' = [producer EXCEPT ![i][t].at = "saving"]
      /\ metrics'[i]["next_iteration"] = metrics[i]["next_iteration"]
      /\ UNCHANGED <<pc, snap, mirror, copies, confirmed>>
  BY HandoverEffect
<1>2. PICK q \in Requests :
         /\ q.who = t /\ q.updates["next_iteration"] = metrics[i]["next_iteration"]
         /\ waiting' = [waiting EXCEPT ![i] = Append(@, q)]
  BY HandoverEffect
<1>3. /\ producer'[i][t].at = "saving" /\ producer'[i][t].ordinal = producer[i][t].ordinal
      /\ \A u \in Producers : u # t => producer'[i][u] = producer[i][u]
  <2>1. Moves(i, t, "saving")
    BY <1>1 DEF Moves
  <2>2. "saving" \in {"stored", "saving"}
    OBVIOUS
  <2>3. /\ producer'[i][t].at = "saving" /\ producer'[i][t].ordinal = producer[i][t].ordinal
        /\ \A j \in Instances : \A u \in Producers :
              j # i \/ u # t => producer'[j][u] = producer[j][u]
    BY <2>1, <2>2, TaskMoves
  <2> QED
    BY <2>3
<1>4. /\ Len(waiting[i]) \in Nat /\ Len(waiting'[i]) = Len(waiting[i]) + 1
      /\ waiting'[i][Len(waiting[i]) + 1] = q
      /\ \A n \in 1 .. Len(waiting[i]) : waiting'[i][n] = waiting[i][n]
  BY <1>2, CallAdds
<1>5. \A n \in 1 .. Len(waiting[i]) : waiting[i][n].who # t
  BY <1>1, NoWriteOf
<1>6. Resting(i)'
  BY <1>1 DEF Resting
<1>7. Reserved(i)'
  <2>1. \A u \in Producers : /\ producer'[i][u].ordinal = producer[i][u].ordinal
                             /\ producer'[i][u].at # "idle" => producer[i][u].at # "idle"
    BY <1>1, <1>3
  <2> QED
    BY <1>1, <2>1 DEF InOrder, Reserved
<1>8. producer[i][t].ordinal < metrics[i]["next_iteration"]
  BY <1>1 DEF InOrder, Reserved
<1>9. Covered(i)'
  <2>1. ASSUME NEW n \in 1 .. Len(waiting'[i]), waiting'[i][n].who \in Producers
        PROVE  /\ producer'[i][waiting'[i][n].who].at = "saving"
               /\ producer'[i][waiting'[i][n].who].ordinal < waiting'[i][n].updates["next_iteration"]
    <3>1. CASE n = Len(waiting[i]) + 1
      <4>1. waiting'[i][n] = q /\ q.who = t
        BY <1>2, <1>4, <3>1
      <4> QED
        BY <1>2, <1>3, <1>8, <4>1
    <3>2. CASE n \in 1 .. Len(waiting[i])
      <4>1. waiting'[i][n] = waiting[i][n] /\ waiting[i][n].who # t
        BY <1>4, <1>5, <3>2
      <4>2. producer'[i][waiting[i][n].who] = producer[i][waiting[i][n].who]
        BY <1>3, <2>1, <4>1
      <4>3. /\ producer[i][waiting[i][n].who].at = "saving"
            /\ producer[i][waiting[i][n].who].ordinal < waiting[i][n].updates["next_iteration"]
        BY <2>1, <3>2, <4>1 DEF InOrder, Covered
      <4> QED
        BY <4>1, <4>2, <4>3
    <3> QED
      BY <1>4, <3>1, <3>2
  <2>2. ASSUME NEW m \in 1 .. Len(waiting'[i]), NEW n \in 1 .. Len(waiting'[i]),
               waiting'[i][m].who = waiting'[i][n].who, waiting'[i][m].who \in Producers
        PROVE  m = n
    <3>1. CASE m \in 1 .. Len(waiting[i]) /\ n \in 1 .. Len(waiting[i])
      <4>1. waiting[i][m].who = waiting[i][n].who /\ waiting[i][m].who \in Producers
        BY <1>4, <2>2, <3>1
      <4> QED
        BY <3>1, <4>1 DEF InOrder, Covered
    <3>2. CASE m = Len(waiting[i]) + 1
      <4>1. ASSUME n \in 1 .. Len(waiting[i]) PROVE FALSE
        <5>1. waiting[i][n].who = t
          BY <1>2, <1>4, <2>2, <3>2, <4>1
        <5> QED
          BY <1>5, <4>1, <5>1
      <4> QED
        BY <1>4, <3>2, <4>1
    <3>3. CASE n = Len(waiting[i]) + 1
      <4>1. ASSUME m \in 1 .. Len(waiting[i]) PROVE FALSE
        <5>1. waiting[i][m].who = t
          BY <1>2, <1>4, <2>2, <3>3, <4>1
        <5> QED
          BY <1>5, <4>1, <5>1
      <4> QED
        BY <1>4, <3>3, <4>1
    <3> QED
      BY <1>4, <3>1, <3>2, <3>3
  <2> QED
    BY <2>1, <2>2 DEF Covered
<1> QED
  BY <1>6, <1>7, <1>9 DEF InOrder

LEMMA IngestInOrder ==
    ASSUME TypeOK, TypeOK', NEW i \in Instances, Ingest(i), InOrder(i)
    PROVE  InOrder(i)'
<1>1. /\ pc[i] \in {"up", "draining"}
      /\ metrics'[i]["next_iteration"] = metrics[i]["next_iteration"]
      /\ UNCHANGED <<pc, snap, mirror, producer, copies, confirmed>>
  BY IngestEffect
<1>2. PICK q \in Requests :
         q.who = "ingestor" /\ waiting' = [waiting EXCEPT ![i] = Append(@, q)]
  BY IngestEffect
<1>3. /\ Len(waiting[i]) \in Nat /\ Len(waiting'[i]) = Len(waiting[i]) + 1
      /\ waiting'[i][Len(waiting[i]) + 1] = q
      /\ \A n \in 1 .. Len(waiting[i]) : waiting'[i][n] = waiting[i][n]
  BY <1>2, CallAdds
<1>4. ASSUME NEW n \in 1 .. Len(waiting'[i]), waiting'[i][n].who \in Producers
      PROVE  n \in 1 .. Len(waiting[i]) /\ waiting'[i][n] = waiting[i][n]
  <2>1. n # Len(waiting[i]) + 1
    BY <1>2, <1>3, <1>4, LifeAssumption
  <2>2. n \in 1 .. Len(waiting[i])
    BY <1>3, <2>1
  <2> QED
    BY <1>3, <2>2
<1>5. Resting(i)'
  BY <1>1 DEF Resting
<1>6. Covered(i)'
  <2>1. Covered(i)
    BY DEF InOrder
  <2>2. ASSUME NEW n \in 1 .. Len(waiting'[i]), waiting'[i][n].who \in Producers
        PROVE  /\ producer'[i][waiting'[i][n].who].at = "saving"
               /\ producer'[i][waiting'[i][n].who].ordinal < waiting'[i][n].updates["next_iteration"]
    <3>1. n \in 1 .. Len(waiting[i]) /\ waiting'[i][n] = waiting[i][n]
      BY <1>4, <2>2
    <3> QED
      BY <1>1, <2>1, <2>2, <3>1 DEF Covered
  <2>3. ASSUME NEW m \in 1 .. Len(waiting'[i]), NEW n \in 1 .. Len(waiting'[i]),
               waiting'[i][m].who = waiting'[i][n].who, waiting'[i][m].who \in Producers
        PROVE  m = n
    <3>1. /\ m \in 1 .. Len(waiting[i]) /\ waiting'[i][m] = waiting[i][m]
          /\ n \in 1 .. Len(waiting[i]) /\ waiting'[i][n] = waiting[i][n]
      BY <1>4, <2>3
    <3> QED
      BY <2>1, <2>3, <3>1 DEF Covered
  <2> QED
    BY <2>2, <2>3 DEF Covered
<1>7. Reserved(i)'
  BY <1>1 DEF InOrder, Reserved
<1> QED
  BY <1>5, <1>6, <1>7 DEF InOrder

\* The lock steps of a process leave its tasks alone.
LEMMA LockStepInOrder ==
    ASSUME TypeOK, NEW i \in Instances, Start(i) \/ LockStep(i), InOrder(i)
    PROVE  InOrder(i)' /\ \A j \in Instances : j # i => Same(j)
<1> USE Types
<1>1. UNCHANGED snapVars
  BY DEF Start, LockStep
<1>2. /\ \A j \in Instances : j # i => pc'[j] = pc[j]
      /\ \/ pc'[i] = pc[i]
         \/ pc[i] = "new" /\ pc'[i] \in {"resuming", "down"}
         \/ pc[i] = "closing" /\ pc'[i] = "releasing"
  <2>1. CASE Start(i) \/ AcquireUnacked(i)
    BY <2>1 DEF Start, Acquire, AcquireUnacked
  <2>2. CASE RenewRead(i) \/ RenewWrite(i) \/ RenewFails(i)
    BY <2>2 DEF RenewRead, RenewWrite, RenewFails
  <2>3. CASE ReleaseRead(i)
    BY <2>3 DEF ReleaseRead
  <2> QED
    BY <2>1, <2>2, <2>3 DEF LockStep
<1>3. Resting(i)'
  BY <1>1, <1>2 DEF InOrder, Resting, snapVars
<1>4. Covered(i)' /\ Reserved(i)'
  BY <1>1 DEF InOrder, Covered, Reserved, snapVars
<1>5. \A j \in Instances : j # i => Same(j)
  BY <1>1, <1>2 DEF Same, snapVars
<1> QED
  BY <1>3, <1>4, <1>5 DEF InOrder

LEMMA InOrderStep ==
    ASSUME TypeOK, TypeOK', [Next]_vars, \A j \in Instances : InOrder(j)
    PROVE  \A j \in Instances : InOrder(j)'
<1> USE Types
<1> DEFINE Goal == \A j \in Instances : InOrder(j)'
<1>1. ASSUME NEW i \in Instances, InOrder(i)', \A j \in Instances : j # i => Same(j)
      PROVE  Goal
  BY <1>1, SameInOrder
<1>2. ASSUME \A j \in Instances : Same(j) PROVE Goal
  BY <1>2, SameInOrder
<1> HIDE DEF Goal
<1>3. ASSUME NEW i \in Instances, Start(i) \/ LockStep(i) PROVE Goal
  BY <1>1, <1>3, LockStepInOrder
<1>4. ASSUME NEW i \in Instances, Exit(i) \/ Crash(i) PROVE Goal
  <2>1. Forget(i) /\ pc' = [pc EXCEPT ![i] = "down"]
    BY <1>4 DEF Exit, Crash, ReleaseDelete, ReleaseNothing
  <2>2. \A j \in Instances : j # i => Same(j)
    BY <2>1, ForgetEffect DEF Same
  <2>3. /\ waiting'[i] = <<>> /\ mirror'[i] = Default /\ pc'[i] = "down"
        /\ \A t \in Producers : producer'[i][t] = Idle
    BY <2>1, ForgetEffect
  <2>4. Resting(i)'
    BY <2>3 DEF Resting
  <2>5. Len(waiting'[i]) = 0
    BY <2>3
  <2>6. Covered(i)' /\ Reserved(i)'
    BY <2>3, <2>5, IdleTyped DEF Covered, Reserved
  <2> QED
    BY <1>1, <2>2, <2>4, <2>6 DEF InOrder
<1>5. ASSUME NEW i \in Instances, StartFresh(i) PROVE Goal
  <2>1. /\ pc[i] = "resuming" /\ pc' = [pc EXCEPT ![i] = "starting"]
        /\ \A j \in Instances : j # i => metrics'[j] = metrics[j]
        /\ mirror' = mirror /\ producer' = producer
    BY <1>5, StartFreshEffect
  <2>2. PICK q \in Requests : q.who = "run" /\ waiting' = [waiting EXCEPT ![i] = Append(@, q)]
    BY <1>5, StartFreshEffect
  <2>3. waiting[i] = <<>> /\ \A t \in Producers : producer'[i][t] = Idle
    BY <2>1 DEF InOrder, Resting
  <2>4. pc'[i] \in {"starting", "final"}
    BY <2>1
  <2>5. InOrder(i)'
    BY <2>2, <2>3, <2>4, RunCallInOrder
  <2>6. \A j \in Instances : j # i => Same(j)
    BY <2>1, <2>2, CallAdds DEF Same
  <2> QED
    BY <1>1, <2>5, <2>6
<1>6. ASSUME NEW i \in Instances, Resume(i) PROVE Goal
  <2>1. /\ pc[i] = "resuming" /\ pc' = [pc EXCEPT ![i] = "starting"]
        /\ \A j \in Instances : j # i => metrics'[j] = metrics[j]
        /\ mirror' = [mirror EXCEPT ![i] = snap] /\ producer' = producer
    BY <1>6, ResumeEffect
  <2>2. PICK q \in Requests : q.who = "run" /\ waiting' = [waiting EXCEPT ![i] = Append(@, q)]
    BY <1>6, ResumeEffect
  <2>3. waiting[i] = <<>> /\ \A t \in Producers : producer'[i][t] = Idle
    BY <2>1 DEF InOrder, Resting
  <2>4. pc'[i] \in {"starting", "final"}
    BY <2>1
  <2>5. InOrder(i)'
    BY <2>2, <2>3, <2>4, RunCallInOrder
  <2>6. \A j \in Instances : j # i => Same(j)
    BY <2>1, <2>2, CallAdds DEF Same
  <2> QED
    BY <1>1, <2>5, <2>6
<1>7. ASSUME NEW i \in Instances, FinalWrite(i) PROVE Goal
  <2>1. /\ waiting[i] = <<>> /\ pc' = [pc EXCEPT ![i] = "final"]
        /\ \A t \in Producers : producer[i][t] = Idle
        /\ mirror' = mirror /\ producer' = producer /\ metrics' = metrics
    BY <1>7, FinalWriteEffect
  <2>2. PICK q \in Requests : q.who = "run" /\ waiting' = [waiting EXCEPT ![i] = Append(@, q)]
    BY <1>7, FinalWriteEffect
  <2>3. pc'[i] \in {"starting", "final"} /\ \A t \in Producers : producer'[i][t] = Idle
    BY <2>1
  <2>4. InOrder(i)'
    BY <2>1, <2>2, <2>3, RunCallInOrder
  <2>5. \A j \in Instances : j # i => Same(j)
    BY <2>1, <2>2, CallAdds DEF Same
  <2> QED
    BY <1>1, <2>4, <2>5
<1>8. ASSUME NEW i \in Instances, Stop(i) PROVE Goal
  <2>1. pc[i] = "up" /\ pc' = [pc EXCEPT ![i] = "draining"] /\ UNCHANGED snapVars
    BY <1>8 DEF Stop
  <2>2. \A j \in Instances : j # i => Same(j)
    BY <2>1 DEF Same, snapVars
  <2>3. pc'[i] = "draining"
    BY <2>1
  <2>4. Resting(i)'
    BY <2>3 DEF Resting
  <2>5. Covered(i)' /\ Reserved(i)'
    BY <2>1 DEF InOrder, Covered, Reserved, snapVars
  <2> QED
    BY <1>1, <2>2, <2>4, <2>5 DEF InOrder
<1>9. ASSUME NEW i \in Instances, Save(i) PROVE Goal
  <2>1. /\ waiting[i] # <<>> /\ WriteEnds(i, Head(waiting[i]), TRUE)
        /\ mirror'[i] = snap' /\ metrics' = metrics
        /\ \A j \in Instances : j # i => mirror'[j] = mirror[j]
    BY <1>9, SaveEffect
  <2>2. InOrder(i)'
    BY <2>1, ReturnInOrder
  <2>3. \A j \in Instances : j # i => Same(j)
    BY <2>1 DEF Same, WriteEnds
  <2> QED
    BY <1>1, <2>2, <2>3
<1>10. ASSUME NEW i \in Instances, SnapshotFails(i) PROVE Goal
  <2>1. /\ waiting[i] # <<>> /\ WriteEnds(i, Head(waiting[i]), FALSE)
        /\ mirror' = mirror /\ metrics' = metrics
    BY <1>10, SaveFailsEffect DEF SnapshotFails
  <2>2. InOrder(i)'
    BY <2>1, ReturnInOrder
  <2>3. \A j \in Instances : j # i => Same(j)
    BY <2>1 DEF Same, WriteEnds
  <2> QED
    BY <1>1, <2>2, <2>3
<1>11. ASSUME NEW i \in Instances, Ingest(i) PROVE Goal
  <2>1. PICK q \in Requests : waiting' = [waiting EXCEPT ![i] = Append(@, q)]
    BY <1>11, IngestEffect
  <2>2. \A j \in Instances : j # i => Same(j)
    BY <1>11, <2>1, IngestEffect, CallAdds DEF Same
  <2> QED
    BY <1>1, <1>11, <2>2, IngestInOrder
<1>12. ASSUME NEW i \in Instances, NEW t \in Producers, Reserve(i, t) PROVE Goal
  <2>1. /\ \A j \in Instances : j # i => metrics'[j] = metrics[j]
        /\ producer' = [producer EXCEPT ![i][t] =
                          [at |-> "llm", ordinal |-> metrics[i]["next_iteration"]]]
        /\ UNCHANGED <<pc, mirror, waiting>>
    BY <1>12, ReserveEffect
  <2>2. \A j \in Instances : j # i => Same(j)
    BY <2>1 DEF Same
  <2> QED
    BY <1>1, <1>12, <2>2, ReserveInOrder
<1>13. ASSUME NEW i \in Instances, NEW t \in Producers, NoChild(i, t) PROVE Goal
  <2>1. producer' = [producer EXCEPT ![i][t] = Idle] /\ UNCHANGED <<pc, mirror, waiting, metrics>>
    BY <1>13 DEF NoChild
  <2>2. \A j \in Instances : j # i => Same(j)
    BY <2>1 DEF Same
  <2> QED
    BY <1>1, <1>13, <2>2, NoChildInOrder
<1>14. ASSUME NEW i \in Instances, NEW t \in Producers, StoreChild(i, t) PROVE Goal
  <2>1. producer' = [producer EXCEPT ![i][t].at = "stored"] /\ UNCHANGED <<pc, mirror, waiting, metrics>>
    BY <1>14, StoreChildEffect
  <2>2. \A j \in Instances : j # i => Same(j)
    BY <2>1 DEF Same
  <2> QED
    BY <1>1, <1>14, <2>2, StoreChildInOrder
<1>15. ASSUME NEW i \in Instances, NEW t \in Producers, Handover(i, t) PROVE Goal
  <2>1. /\ \A j \in Instances : metrics'[j]["next_iteration"] = metrics[j]["next_iteration"]
        /\ producer' = [producer EXCEPT ![i][t].at = "saving"]
        /\ UNCHANGED <<pc, mirror>>
    BY <1>15, HandoverEffect
  <2>2. PICK q \in Requests : waiting' = [waiting EXCEPT ![i] = Append(@, q)]
    BY <1>15, HandoverEffect
  <2>3. \A j \in Instances : j # i => waiting'[j] = waiting[j]
    BY <2>2, CallAdds
  <2>4. \A j \in Instances : j # i => Same(j)
    BY <2>1, <2>3 DEF Same
  <2> QED
    BY <1>1, <1>15, <2>4, HandoverInOrder
<1>16. ASSUME Expiry \/ UNCHANGED vars PROVE Goal
  <2>1. UNCHANGED <<pc, snapVars>>
    BY <1>16 DEF Expiry, Expire, vars
  <2> QED
    BY <1>2, <2>1 DEF Same, snapVars
<1>17. Goal
  BY <1>3, <1>4, <1>5, <1>6, <1>7, <1>8, <1>9, <1>10, <1>11, <1>12, <1>13, <1>14, <1>15, <1>16
     DEF Next, EngineStep, Over
<1> QED
  BY <1>17 DEF Goal

----------------------------------------------------------------------------
\* The steps that start no life and write no snapshot leave the snapshot, the
\* mirrors and what is confirmed as they are; a task they reserve for takes the
\* next ordinal.

Calm(j) ==
    /\ pc'[j] \in Working =>
          /\ pc[j] \in Working /\ mirror'[j] = mirror[j]
          /\ metrics'[j]["next_iteration"] >= metrics[j]["next_iteration"]
          /\ \A t \in Producers : producer'[j][t].at # "idle" =>
                \/ /\ producer[j][t].at # "idle" /\ producer'[j][t].ordinal = producer[j][t].ordinal
                   /\ producer'[j][t].at = "llm" => producer[j][t].at = "llm"
                \/ producer'[j][t].ordinal = metrics[j]["next_iteration"]
    /\ clean' => (pc'[j] \in Counting <=> pc[j] \in Counting)
    /\ pc'[j] = "final" =>
          \/ pc[j] = "final" /\ Same(j)
          \/ waiting'[j][1].updates["next_iteration"] = metrics'[j]["next_iteration"]

Quiet ==
    /\ snap' = snap /\ confirmed' = confirmed
    /\ clean' => clean
    /\ ~shared' => ~shared
    /\ \A j \in Instances : Calm(j)

LEMMA NextIsNat == ASSUME TypeOK, NEW j \in Instances PROVE metrics[j]["next_iteration"] \in Nat
<1>1. metrics \in [Instances -> [Fields -> Nat]]
  BY Types
<1>2. "next_iteration" \in Fields
  BY CellsAre
<1> QED
  BY <1>1, <1>2

LEMMA SameCalm == ASSUME TypeOK, NEW j \in Instances, Same(j) PROVE Calm(j)
<1>1. metrics[j]["next_iteration"] \in Nat
  BY NextIsNat
<1> QED
  BY <1>1 DEF Same, Calm

LEMMA StatesAre ==
    /\ Working = {"starting", "up", "draining", "final", "closing", "releasing"}
    /\ Counting = {"starting", "up", "draining", "final"}
    /\ Live = Working \cup {"resuming"}
  BY DEF Working, Counting, Live

Writes(i) == Save(i) /\ UNCHANGED <<lockVars, history>>

LEMMA Kinds ==
    ASSUME TypeOK, TypeOK', [Next]_vars, \A j \in Instances : InOrder(j)
    PROVE  Quiet \/ \E i \in Instances : StartFresh(i) \/ Resume(i) \/ Writes(i) \/ SnapshotFails(i)
<1> USE Types
<1>1. ASSUME NEW i \in Instances, Calm(i), \A j \in Instances : j # i => Same(j),
             UNCHANGED <<snap, confirmed>>, clean' => clean, ~shared' => ~shared
      PROVE  Quiet
  BY <1>1, SameCalm DEF Quiet
<1>2. ASSUME NEW i \in Instances, Start(i) \/ LockStep(i) PROVE Quiet
  <2>1. UNCHANGED snapVars /\ (clean' => clean) /\ (~shared' => ~shared)
    BY <1>2 DEF Start, LockStep, history
  <2>2. \A j \in Instances : j # i => Same(j)
    BY <1>2, LockStepInOrder
  <2>3. \/ pc'[i] = pc[i]
        \/ pc[i] = "new" /\ pc'[i] \in {"resuming", "down"}
        \/ pc[i] = "closing" /\ pc'[i] = "releasing"
    <3>1. CASE Start(i) \/ AcquireUnacked(i)
      BY <3>1 DEF Start, Acquire, AcquireUnacked
    <3>2. CASE RenewRead(i) \/ RenewWrite(i) \/ RenewFails(i)
      BY <3>2 DEF RenewRead, RenewWrite, RenewFails
    <3>3. CASE ReleaseRead(i)
      BY <3>3 DEF ReleaseRead
    <3> QED
      BY <1>2, <3>1, <3>2, <3>3 DEF LockStep
  <2>4. metrics[i]["next_iteration"] \in Nat
    BY NextIsNat
  <2>5. Calm(i)
    BY <2>1, <2>3, <2>4, StatesAre DEF Calm, Same, snapVars
  <2> QED
    BY <1>1, <2>1, <2>2, <2>5 DEF snapVars
<1>3. ASSUME NEW i \in Instances, Exit(i) \/ Crash(i) PROVE Quiet
  <2>1. Forget(i) /\ pc' = [pc EXCEPT ![i] = "down"]
    BY <1>3 DEF Exit, Crash, ReleaseDelete, ReleaseNothing
  <2>2. \A j \in Instances : j # i => Same(j)
    BY <2>1, ForgetEffect DEF Same
  <2>3. /\ clean' => clean
        /\ ~shared' => ~shared
        /\ clean' => pc[i] \in {"closing", "releasing"}
    BY <1>3 DEF Exit, Crash, ReleaseDelete, ReleaseNothing, history
  <2>4. pc'[i] = "down"
    BY <2>1
  <2>5. Calm(i)
    BY <2>3, <2>4, StatesAre DEF Calm
  <2>6. UNCHANGED <<snap, confirmed>>
    BY <2>1, ForgetEffect
  <2> QED
    BY <1>1, <2>2, <2>3, <2>5, <2>6
<1>4. ASSUME NEW i \in Instances, Stop(i) PROVE Quiet
  <2>1. pc[i] = "up" /\ pc' = [pc EXCEPT ![i] = "draining"] /\ UNCHANGED <<snapVars, history>>
    BY <1>4 DEF Stop
  <2>2. \A j \in Instances : j # i => Same(j)
    BY <2>1 DEF Same, snapVars
  <2>3. pc'[i] = "draining" /\ metrics[i]["next_iteration"] \in Nat
    BY <2>1, NextIsNat
  <2>4. Calm(i)
    BY <2>1, <2>3, StatesAre DEF Calm, snapVars
  <2> QED
    BY <1>1, <2>1, <2>2, <2>4 DEF snapVars, history
<1>5. ASSUME NEW i \in Instances, FinalWrite(i) PROVE Quiet
  <2>1. /\ pc[i] = "draining" /\ waiting[i] = <<>> /\ pc' = [pc EXCEPT ![i] = "final"]
        /\ \A t \in Producers : producer[i][t] = Idle
        /\ UNCHANGED <<snap, mirror, metrics, producer, confirmed, history>>
    BY <1>5, FinalWriteEffect
  <2>2. PICK q \in Requests :
           /\ q.who = "run" /\ q.updates["next_iteration"] = metrics[i]["next_iteration"]
           /\ waiting' = [waiting EXCEPT ![i] = Append(@, q)]
    BY <1>5, FinalWriteEffect
  <2>3. pc'[i] = "final" /\ \A t \in Producers : producer'[i][t] = Idle
    BY <2>1
  <2>4. waiting'[i][1] = q
    BY <2>1, <2>2, <2>3, RunCallInOrder
  <2>5. \A j \in Instances : j # i => Same(j)
    BY <2>1, <2>2, CallAdds DEF Same
  <2>6. metrics[i]["next_iteration"] \in Nat
    BY NextIsNat
  <2>7. Calm(i)
    BY <2>1, <2>2, <2>3, <2>4, <2>6, StatesAre, IdleTyped DEF Calm
  <2> QED
    BY <1>1, <2>1, <2>5, <2>7 DEF history
<1>6. ASSUME NEW i \in Instances, Ingest(i), UNCHANGED history PROVE Quiet
  <2>1. /\ pc[i] \in {"up", "draining"} /\ UNCHANGED <<pc, snap, mirror, producer, confirmed>>
        /\ \A j \in Instances : metrics'[j]["next_iteration"] = metrics[j]["next_iteration"]
    BY <1>6, IngestEffect
  <2>2. PICK q \in Requests : waiting' = [waiting EXCEPT ![i] = Append(@, q)]
    BY <1>6, IngestEffect
  <2>3. \A j \in Instances : j # i => Same(j)
    BY <2>1, <2>2, CallAdds DEF Same
  <2>4. metrics[i]["next_iteration"] \in Nat
    BY NextIsNat
  <2>5. Calm(i)
    BY <2>1, <2>4 DEF Calm
  <2> QED
    BY <1>1, <1>6, <2>1, <2>3, <2>5 DEF history
<1>7. ASSUME NEW i \in Instances, NEW t \in Producers, Reserve(i, t), UNCHANGED history PROVE Quiet
  <2>1. /\ pc[i] = "up" /\ UNCHANGED <<pc, snap, mirror, waiting, confirmed>>
        /\ metrics'[i]["next_iteration"] = metrics[i]["next_iteration"] + 1
        /\ \A j \in Instances : j # i => metrics'[j] = metrics[j]
        /\ producer' = [producer EXCEPT ![i][t] =
                          [at |-> "llm", ordinal |-> metrics[i]["next_iteration"]]]
    BY <1>7, ReserveEffect
  <2>2. [at |-> "llm", ordinal |-> metrics[i]["next_iteration"]] \in Tasks
    BY <1>7, ReserveEffect DEF Tasks
  <2>3. /\ producer'[i][t].ordinal = metrics[i]["next_iteration"]
        /\ \A u \in Producers : u # t => producer'[i][u] = producer[i][u]
    <3> DEFINE x == [at |-> "llm", ordinal |-> metrics[i]["next_iteration"]]
    <3>1. Becomes(i, t, x)
      BY <2>1 DEF Becomes
    <3>2. x.ordinal = metrics[i]["next_iteration"] /\ x \in Tasks
      BY <2>2
    <3> HIDE DEF x
    <3>3. /\ producer'[i][t] = x
          /\ \A j \in Instances : \A u \in Producers :
                j # i \/ u # t => producer'[j][u] = producer[j][u]
      BY <3>1, <3>2, TaskSet
    <3> QED
      BY <3>2, <3>3
  <2>4. \A j \in Instances : j # i => Same(j)
    BY <2>1 DEF Same
  <2>5. metrics[i]["next_iteration"] \in Nat
    BY NextIsNat
  <2>6. Calm(i)
    BY <2>1, <2>3, <2>5 DEF Calm
  <2> QED
    BY <1>1, <1>7, <2>1, <2>4, <2>6 DEF history
<1>8. ASSUME NEW i \in Instances, NEW t \in Producers, NoChild(i, t), UNCHANGED history PROVE Quiet
  <2>1. /\ pc[i] \in {"up", "draining"} /\ UNCHANGED <<pc, snap, mirror, waiting, metrics, confirmed>>
        /\ producer' = [producer EXCEPT ![i][t] = Idle]
    BY <1>8 DEF NoChild
  <2>2. \A j \in Instances : j # i => Same(j)
    BY <2>1 DEF Same
  <2>3. metrics[i]["next_iteration"] \in Nat
    BY NextIsNat
  <2>4. \A u \in Producers : producer'[i][u].at # "idle" => producer'[i][u] = producer[i][u]
    BY <2>1, IdleTyped
  <2>5. Calm(i)
    BY <2>1, <2>3, <2>4 DEF Calm
  <2> QED
    BY <1>1, <1>8, <2>1, <2>2, <2>5 DEF history
<1>9. ASSUME NEW i \in Instances, NEW t \in Producers, StoreChild(i, t) \/ Handover(i, t),
             UNCHANGED history
      PROVE  Quiet
  <2>1. /\ pc[i] \in {"up", "draining"} /\ UNCHANGED <<pc, snap, mirror, confirmed>>
        /\ \A j \in Instances : metrics'[j]["next_iteration"] = metrics[j]["next_iteration"]
        /\ producer[i][t].at # "idle"
    BY <1>9, StoreChildEffect, HandoverEffect
  <2>2. PICK a \in {"stored", "saving"} : producer' = [producer EXCEPT ![i][t].at = a]
    BY <1>9, StoreChildEffect, HandoverEffect
  <2>3. \A j \in Instances : j # i => waiting'[j] = waiting[j]
    <3>1. CASE StoreChild(i, t)
      BY <3>1, StoreChildEffect
    <3>2. CASE Handover(i, t)
      <4>1. PICK q \in Requests : waiting' = [waiting EXCEPT ![i] = Append(@, q)]
        BY <3>2, HandoverEffect
      <4> QED
        BY <4>1, CallAdds
    <3> QED
      BY <1>9, <3>1, <3>2
  <2>4. \A j \in Instances : j # i => Same(j)
    BY <2>1, <2>2, <2>3 DEF Same
  <2>5. /\ producer'[i][t].at = a /\ producer'[i][t].ordinal = producer[i][t].ordinal
        /\ \A j \in Instances : \A u \in Producers :
              j # i \/ u # t => producer'[j][u] = producer[j][u]
    <3>1. Moves(i, t, a)
      BY <2>2 DEF Moves
    <3> QED
      BY <3>1, TaskMoves
  <2>6. metrics[i]["next_iteration"] \in Nat /\ a # "llm"
    BY NextIsNat
  <2>7. \A u \in Producers : producer'[i][u].at # "idle" =>
           /\ producer[i][u].at # "idle" /\ producer'[i][u].ordinal = producer[i][u].ordinal
           /\ producer'[i][u].at = "llm" => producer[i][u].at = "llm"
    <3>1. \A u \in Producers : u # t => producer'[i][u] = producer[i][u]
      BY <2>5
    <3> QED
      BY <2>1, <2>5, <2>6, <3>1
  <2>8. pc'[i] = pc[i] /\ pc'[i] # "final"
    BY <2>1
  <2>9. Calm(i)
    BY <2>1, <2>6, <2>7, <2>8 DEF Calm
  <2> QED
    BY <1>1, <1>9, <2>1, <2>4, <2>9 DEF history
<1>10. ASSUME Expiry \/ UNCHANGED vars PROVE Quiet
  <2>1. UNCHANGED <<pc, snapVars, history>>
    BY <1>10 DEF Expiry, Expire, vars
  <2>2. \A j \in Instances : Same(j)
    BY <2>1 DEF Same, snapVars
  <2> QED
    BY <2>1, <2>2, SameCalm DEF Quiet, snapVars, history
<1> QED
  BY <1>2, <1>3, <1>4, <1>5, <1>6, <1>7, <1>8, <1>9, <1>10 DEF Next, EngineStep, Over, Writes

\* Only a fresh start and a stored child change what storage holds.
LEMMA CopiesStep ==
    ASSUME TypeOK, [Next]_vars
    PROVE  \/ copies' = copies
           \/ \E i \in Instances : StartFresh(i)
           \/ \E i \in Instances : \E t \in Producers : StoreChild(i, t)
<1>1. ASSUME NEW i \in Instances, Start(i) \/ LockStep(i) \/ Stop(i) \/ Exit(i) \/ Crash(i) PROVE copies' = copies
  BY <1>1 DEF Start, LockStep, Stop, Exit, Crash, Forget, snapVars
<1>2. ASSUME NEW i \in Instances, Resume(i) \/ FinalWrite(i) \/ Save(i) \/ SnapshotFails(i) \/ Ingest(i)
      PROVE  copies' = copies
  BY <1>2 DEF Resume, FinalWrite, Save, SnapshotFails, SaveFails, Ingest
<1>3. ASSUME NEW i \in Instances, NEW t \in Producers, Reserve(i, t) \/ NoChild(i, t) \/ Handover(i, t)
      PROVE  copies' = copies
  BY <1>3 DEF Reserve, NoChild, Handover
<1>4. ASSUME Expiry \/ UNCHANGED vars PROVE copies' = copies
  BY <1>4 DEF Expiry, vars, snapVars
<1> QED
  BY <1>1, <1>2, <1>3, <1>4 DEF Next, EngineStep, Over

\* A write is under way only in a process that works; it works alone.
LEMMA WriterWorks ==
    ASSUME TypeOK, TaskInvariant, NEW i \in Instances, waiting[i] # <<>>
    PROVE  /\ pc[i] \in Counting /\ pc[i] \in Working /\ HasData
           /\ Head(waiting[i]) \in Requests
<1>1. pc[i] \in {"starting", "up", "draining", "final"}
  BY NothingUnderWay DEF TaskInvariant
<1>2. pc[i] \in Counting /\ pc[i] \in Working
  BY <1>1, StatesAre
<1>3. HasData
  BY <1>2 DEF TaskInvariant, Populated
<1> QED
  BY <1>2, <1>3, FirstWriter

\* What both outcomes of a write have in common.
LEMMA WriteKinds ==
    ASSUME TypeOK, NEW i \in Instances, Writes(i) \/ SnapshotFails(i)
    PROVE  /\ waiting[i] # <<>> /\ UNCHANGED <<metrics, copies, shared>>
           /\ snap' = snap \/ snap' = NextSnapshot(i, Head(waiting[i]).updates)
           /\ \E ok \in BOOLEAN : WriteEnds(i, Head(waiting[i]), ok)
           /\ \A j \in Instances : j # i => mirror'[j] = mirror[j]
           /\ \/ mirror'[i] = snap' /\ snap' = NextSnapshot(i, Head(waiting[i]).updates)
              \/ mirror'[i] = mirror[i] /\ confirmed' = confirmed
<1>1. CASE Writes(i)
  BY <1>1, SaveEffect DEF Writes, history
<1>2. CASE SnapshotFails(i)
  BY <1>2, SaveFailsEffect DEF SnapshotFails
<1> QED
  BY <1>1, <1>2

LEMMA PopulatedStep ==
    ASSUME TypeOK, TypeOK', [Next]_vars, TaskInvariant
    PROVE  Populated'
<1> USE Types
<1>1. ASSUME HasData PROVE HasData'
  <2>1. PICK o \in Ordinals : copies[o] > 0
    BY <1>1 DEF HasData
  <2>2. CASE copies' = copies
    BY <2>1, <2>2 DEF HasData
  <2>3. ASSUME NEW i \in Instances, StartFresh(i) PROVE FALSE
    BY <1>1, <2>3, StartFreshEffect
  <2>4. ASSUME NEW i \in Instances, NEW t \in Producers, StoreChild(i, t) PROVE HasData'
    <3>1. copies'[o] = copies[o] + 1 \/ copies'[o] = copies[o]
      BY <2>4, StoreChildEffect
    <3>2. copies[o] \in Nat /\ copies'[o] > 0
      BY <2>1, <3>1
    <3> QED
      BY <3>2 DEF HasData
  <2> QED
    BY <2>2, <2>3, <2>4, CopiesStep
<1>2. ASSUME NEW i \in Instances, StartFresh(i) PROVE HasData'
  <2>1. 0 \in Ordinals /\ 0 < Seeds
    BY LifeAssumption DEF Ordinals
  <2>2. copies'[0] = 1
    BY <1>2, <2>1, StartFreshEffect
  <2> QED
    BY <2>1, <2>2 DEF HasData
<1>3. ASSUME NEW i \in Instances, Resume(i) PROVE HasData
  BY <1>3, ResumeEffect
<1>4. ASSUME NEW i \in Instances, Writes(i) \/ SnapshotFails(i) PROVE HasData
  BY <1>4, WriteKinds, WriterWorks
<1>5. CASE Quiet /\ ~HasData
  <2>1. \A j \in Instances : pc'[j] \notin Working
    BY <1>5 DEF Quiet, Calm, TaskInvariant, Populated
  <2>2. snap' = Default /\ confirmed' = {}
    BY <1>5 DEF Quiet, TaskInvariant, Populated
  <2> QED
    BY <2>1, <2>2 DEF Populated
<1>6. CASE HasData'
  BY <1>6 DEF Populated
<1>7. \A j \in Instances : InOrder(j)
  BY DEF TaskInvariant
<1> QED
  BY <1>1, <1>2, <1>3, <1>4, <1>5, <1>6, <1>7, Kinds

LEMMA TaskStep ==
    ASSUME TypeOK, TypeOK', [Next]_vars, TaskInvariant
    PROVE  TaskInvariant'
<1>1. \A j \in Instances : InOrder(j)'
  BY InOrderStep DEF TaskInvariant
<1>2. Populated'
  BY PopulatedStep
<1> QED
  BY <1>1, <1>2 DEF TaskInvariant

----------------------------------------------------------------------------
\* The mirror and the snapshot.

LEMMA MirrorStep ==
    ASSUME TypeOK, TypeOK', [Next]_vars, TaskInvariant, Alone, MirrorFollowsRedis
    PROVE  MirrorFollowsRedis'
<1> USE Types
<1> DEFINE Follows(j) == /\ \A f \in Cells : mirror[j][f] <= snap[f]
                         /\ snap["version"] <= mirror[j]["version"] + 1
<1>1. MirrorFollowsRedis = (~shared => \A j \in Instances : pc[j] \in Working => Follows(j))
  BY DEF MirrorFollowsRedis, Working, Cells
<1>2. MirrorFollowsRedis' = (~shared' => \A j \in Instances : pc'[j] \in Working => Follows(j)')
  BY DEF MirrorFollowsRedis, Working, Cells
<1>3. \A f \in Cells : snap[f] \in Nat /\ snap'[f] \in Nat
  BY Types, TypeOK' DEF TypeOK, SnapTypeOK, Cells
<1>4. "version" \in Cells
  BY CellsAre
<1>5. ASSUME NEW j \in Instances, mirror'[j] = snap' PROVE Follows(j)'
  BY <1>3, <1>4, <1>5
<1>6. CASE Quiet
  BY <1>1, <1>2, <1>6 DEF Quiet, Calm
<1>7. ASSUME NEW i \in Instances, StartFresh(i), ~shared', NEW j \in Instances, pc'[j] \in Working
      PROVE  Follows(j)'
  <2>1. /\ pc[i] = "resuming" /\ ~HasData /\ pc' = [pc EXCEPT ![i] = "starting"]
        /\ mirror' = mirror /\ snap' = snap /\ shared' = shared
    BY <1>7, StartFreshEffect DEF history
  <2>2. j = i
    BY <1>7, <2>1, StatesAre DEF Alone
  <2>3. mirror[i] = Default /\ snap = Default
    BY <2>1 DEF TaskInvariant, Populated, InOrder, Resting
  <2> QED
    BY <1>5, <2>1, <2>2, <2>3
<1>8. ASSUME NEW i \in Instances, Resume(i), ~shared', NEW j \in Instances, pc'[j] \in Working
      PROVE  Follows(j)'
  <2>1. /\ pc[i] = "resuming" /\ pc' = [pc EXCEPT ![i] = "starting"]
        /\ mirror' = [mirror EXCEPT ![i] = snap] /\ snap' = snap /\ shared' = shared
    BY <1>8, ResumeEffect DEF history
  <2>2. j = i
    BY <1>8, <2>1, StatesAre DEF Alone
  <2> QED
    BY <1>5, <2>1, <2>2
<1>9. ASSUME NEW i \in Instances, Writes(i) \/ SnapshotFails(i), ~shared',
             NEW j \in Instances, pc'[j] \in Working
      PROVE  Follows(j)'
  <2>1. /\ waiting[i] # <<>> /\ shared' = shared
        /\ snap' = snap \/ snap' = NextSnapshot(i, Head(waiting[i]).updates)
        /\ mirror'[i] = snap' \/ mirror'[i] = mirror[i]
        /\ \A k \in Instances : k # i => pc'[k] = pc[k]
    BY <1>9, WriteKinds DEF WriteEnds
  <2>2. pc[i] \in Working /\ Head(waiting[i]) \in Requests
    BY <2>1, WriterWorks
  <2>3. j = i
    BY <1>9, <2>1, <2>2, StatesAre DEF Alone
  <2>4. CASE mirror'[i] = snap'
    BY <1>5, <2>3, <2>4
  <2>5. CASE mirror'[i] = mirror[i] /\ snap' = snap
    BY <1>1, <2>1, <2>2, <2>3, <2>5, <1>9
  <2>6. CASE mirror'[i] = mirror[i] /\ snap' = NextSnapshot(i, Head(waiting[i]).updates)
    <3>1. /\ snap'["version"] = mirror[i]["version"] + 1
          /\ \A f \in Fields : mirror[i][f] <= snap'[f]
      BY <2>2, <2>6, NextSnapshotIs
    <3>2. mirror[i]["version"] \in Nat
      BY <1>4
    <3>3. ASSUME NEW f \in Cells PROVE mirror[i][f] <= snap'[f]
      <4>1. f \in Fields \/ f = "version"
        BY CellsAre
      <4>2. mirror[i]["version"] <= snap'["version"]
        BY <3>1, <3>2
      <4> QED
        BY <3>1, <4>1, <4>2
    <3> QED
      BY <2>3, <2>6, <3>1, <3>2, <3>3
  <2> QED
    BY <2>1, <2>4, <2>5, <2>6
<1>10. \A j \in Instances : InOrder(j)
  BY DEF TaskInvariant
<1> QED
  BY <1>2, <1>6, <1>7, <1>8, <1>9, <1>10, Kinds

\* What is confirmed stays behind the snapshot, the mirror and the counter.
LEMMA BehindStep ==
    ASSUME TypeOK, TypeOK', [Next]_vars, TaskInvariant, Alone, MirrorFollowsRedis, Behind
    PROVE  Behind'
<1> USE Types
<1> DEFINE Ahead(j, o) == /\ o < mirror[j]["next_iteration"] /\ o < metrics[j]["next_iteration"]
                          /\ \A t \in Producers : producer[j][t].at # "idle" =>
                                producer[j][t].ordinal # o
<1>1. \A j \in Instances : \A t \in Producers :
         /\ (producer[j][t].at \in {"llm", "stored", "saving"}) = (producer[j][t].at # "idle")
         /\ (producer'[j][t].at \in {"llm", "stored", "saving"}) = (producer'[j][t].at # "idle")
  <2>1. producer' \in [Instances -> [Producers -> Tasks]]
    BY TypeOK' DEF TypeOK, SnapTypeOK, Tasks
  <2> QED
    BY <2>1 DEF Tasks
<1>2. Behind = (~shared => /\ \A o \in confirmed : o < snap["next_iteration"]
                           /\ \A j \in Instances : pc[j] \in Working => \A o \in confirmed : Ahead(j, o))
  BY <1>1 DEF Behind
<1>3. Behind' = (~shared' => /\ \A o \in confirmed' : o < snap'["next_iteration"]
                             /\ \A j \in Instances : pc'[j] \in Working => \A o \in confirmed' : Ahead(j, o)')
  BY <1>1 DEF Behind
<1>4. /\ "next_iteration" \in Fields /\ "next_iteration" \in Cells
      /\ confirmed \subseteq Nat
      /\ snap["next_iteration"] \in Nat /\ snap'["next_iteration"] \in Nat
      /\ \A j \in Instances : /\ mirror[j]["next_iteration"] \in Nat
                              /\ metrics[j]["next_iteration"] \in Nat
                              /\ metrics'[j]["next_iteration"] \in Nat
  <2>1. "next_iteration" \in Fields /\ "next_iteration" \in Cells
    BY CellsAre
  <2>2. snap' \in [Cells -> Nat] /\ metrics' \in [Instances -> [Fields -> Nat]]
    BY TypeOK' DEF TypeOK, SnapTypeOK, Cells
  <2> QED
    BY <2>1, <2>2, LifeAssumption DEF Ordinals
<1>5. ASSUME NEW j \in Instances, NEW t \in Producers
      PROVE  producer[j][t].ordinal \in Nat
  BY LifeAssumption DEF Tasks, Ordinals
<1>6. ASSUME Quiet, ~shared' PROVE Behind'
  <2>1. ASSUME NEW j \in Instances, pc'[j] \in Working, NEW o \in confirmed' PROVE Ahead(j, o)'
    <3>1. /\ pc[j] \in Working /\ mirror'[j] = mirror[j] /\ o \in confirmed /\ ~shared
          /\ metrics'[j]["next_iteration"] >= metrics[j]["next_iteration"]
      BY <1>6, <2>1 DEF Quiet, Calm
    <3>2. Ahead(j, o)
      BY <1>2, <3>1
    <3>3. o < mirror'[j]["next_iteration"] /\ o < metrics'[j]["next_iteration"]
      BY <1>4, <3>1, <3>2
    <3>4. ASSUME NEW t \in Producers, producer'[j][t].at # "idle" PROVE producer'[j][t].ordinal # o
      <4>1. CASE producer[j][t].at # "idle" /\ producer'[j][t].ordinal = producer[j][t].ordinal
        BY <3>2, <4>1
      <4>2. CASE producer'[j][t].ordinal = metrics[j]["next_iteration"]
        BY <1>4, <3>1, <3>2, <4>2
      <4> QED
        BY <1>6, <2>1, <3>4, <4>1, <4>2 DEF Quiet, Calm
    <3> QED
      BY <3>3, <3>4
  <2>2. \A o \in confirmed' : o < snap'["next_iteration"]
    BY <1>2, <1>6 DEF Quiet
  <2> QED
    BY <1>3, <2>1, <2>2
<1>7. ASSUME NEW i \in Instances, StartFresh(i) PROVE Behind'
  <2>1. confirmed' = {}
    BY <1>7, StartFreshEffect DEF TaskInvariant, Populated
  <2> QED
    BY <1>3, <2>1
<1>8. ASSUME NEW i \in Instances, Resume(i), ~shared' PROVE Behind'
  <2>1. /\ pc[i] = "resuming" /\ pc' = [pc EXCEPT ![i] = "starting"]
        /\ mirror' = [mirror EXCEPT ![i] = snap] /\ snap' = snap /\ shared' = shared
        /\ metrics'[i]["next_iteration"] = snap["next_iteration"]
        /\ producer' = producer /\ confirmed' = confirmed
    BY <1>8, ResumeEffect DEF history
  <2>2. \A o \in confirmed : o < snap["next_iteration"]
    BY <1>2, <1>8, <2>1
  <2>3. ASSUME NEW j \in Instances, pc'[j] \in Working, NEW o \in confirmed' PROVE Ahead(j, o)'
    <3>1. j = i
      BY <1>8, <2>1, <2>3, StatesAre DEF Alone
    <3>2. \A t \in Producers : producer'[i][t].at = "idle"
      BY <2>1, IdleTyped DEF TaskInvariant, InOrder, Resting
    <3>3. mirror'[i] = snap
      BY <2>1
    <3> QED
      BY <2>1, <2>2, <2>3, <3>1, <3>2, <3>3
  <2> QED
    BY <1>3, <2>1, <2>2, <2>3
<1>9. ASSUME NEW i \in Instances, Writes(i) \/ SnapshotFails(i), ~shared' PROVE Behind'
  <2> DEFINE q == Head(waiting[i])
  <2>1. /\ waiting[i] # <<>> /\ shared' = shared /\ metrics' = metrics
        /\ snap' = snap \/ snap' = NextSnapshot(i, q.updates)
        /\ \/ mirror'[i] = snap' /\ snap' = NextSnapshot(i, q.updates)
           \/ mirror'[i] = mirror[i] /\ confirmed' = confirmed
    BY <1>9, WriteKinds
  <2>2. /\ \A k \in Instances : k # i => pc'[k] = pc[k]
        /\ \A t \in Producers : producer'[i][t] = IF t = q.who THEN Idle ELSE producer[i][t]
        /\ confirmed' = confirmed \/ (q.who \in Producers /\ confirmed' = confirmed \cup {producer[i][q.who].ordinal})
    BY <1>9, WriteKinds DEF WriteEnds
  <2>3. pc[i] \in Working /\ q \in Requests
    BY <2>1, WriterWorks
  <2>4. \A o \in confirmed : o < snap["next_iteration"] /\ Ahead(i, o)
    BY <1>2, <1>9, <2>1, <2>3
  <2>5. ASSUME snap' = NextSnapshot(i, q.updates)
        PROVE  \A o \in confirmed : o < snap'["next_iteration"]
    <3>1. mirror[i]["next_iteration"] <= snap'["next_iteration"]
      BY <1>4, <2>3, <2>5, NextSnapshotIs
    <3> QED
      BY <1>4, <2>4, <3>1
  <2>6. \A o \in confirmed : o < snap'["next_iteration"] /\ o < mirror'[i]["next_iteration"]
    BY <2>1, <2>4, <2>5
  <2>7. \A t \in Producers : producer'[i][t].at # "idle" =>
           producer'[i][t] = producer[i][t] /\ t # q.who
    BY <2>2, IdleTyped
  <2>8. ASSUME NEW o \in confirmed PROVE Ahead(i, o)'
    BY <2>1, <2>4, <2>6, <2>7
  <2>9. ASSUME q.who \in Producers, confirmed' # confirmed, NEW o, o = producer[i][q.who].ordinal
        PROVE  o < snap'["next_iteration"] /\ Ahead(i, o)'
    <3>1. 1 \in 1 .. Len(waiting[i]) /\ waiting[i][1] = q
      BY <2>1, FirstWriter
    <3>2. producer[i][q.who].at = "saving" /\ o < q.updates["next_iteration"]
      BY <2>9, <3>1 DEF TaskInvariant, InOrder, Covered
    <3>3. mirror'[i] = snap' /\ snap' = NextSnapshot(i, q.updates)
      BY <2>1, <2>9
    <3>4. /\ "next_iteration" \in DOMAIN q.updates
          /\ q.updates["next_iteration"] \in Nat
      BY <2>3, <2>9, RequestShape
    <3>5. q.updates["next_iteration"] <= snap'["next_iteration"]
      BY <2>3, <3>3, <3>4, NextSnapshotIs
    <3>6. o \in Nat /\ o < snap'["next_iteration"]
      BY <1>4, <1>5, <2>9, <3>2, <3>4, <3>5
    <3>7. o < metrics'[i]["next_iteration"]
      BY <2>1, <2>9, <3>2 DEF TaskInvariant, InOrder, Reserved
    <3>8. ASSUME NEW t \in Producers, producer'[i][t].at # "idle" PROVE producer'[i][t].ordinal # o
      <4>1. Reserved(i)
        BY DEF TaskInvariant, InOrder
      <4>2. /\ producer'[i][t] = producer[i][t] /\ t # q.who
            /\ producer[i][t].at # "idle" /\ producer[i][q.who].at # "idle"
        BY <2>7, <3>2, <3>8
      <4>3. producer[i][t].ordinal # producer[i][q.who].ordinal
        BY <2>9, <4>1, <4>2 DEF Reserved
      <4> QED
        BY <2>9, <4>2, <4>3
    <3> QED
      BY <3>3, <3>6, <3>7, <3>8
  <2> HIDE DEF q
  <2>10. ASSUME NEW o \in confirmed' PROVE o < snap'["next_iteration"] /\ Ahead(i, o)'
    <3>1. CASE o \in confirmed
      BY <2>6, <2>8, <3>1
    <3>2. CASE o \notin confirmed
      BY <2>2, <2>9, <2>10, <3>2
    <3> QED
      BY <3>1, <3>2
  <2>11. ASSUME NEW j \in Instances, pc'[j] \in Working PROVE j = i
    BY <1>9, <2>1, <2>2, <2>3, <2>11, StatesAre DEF Alone
  <2> QED
    BY <1>3, <2>10, <2>11
<1>10. \A j \in Instances : InOrder(j)
  BY DEF TaskInvariant
<1>11. CASE shared'
  BY <1>3, <1>11
<1> QED
  BY <1>6, <1>7, <1>8, <1>9, <1>10, <1>11, Kinds

----------------------------------------------------------------------------
\* The ordinals in storage.

LEMMA UniqueStep ==
    ASSUME TypeOK, TypeOK', [Next]_vars, TaskInvariant, Alone, Unique
    PROVE  Unique'
<1> USE Types
<1> DEFINE next(j) == metrics[j]["next_iteration"]
           Below(j) == \A o \in Ordinals : copies[o] > 0 => o < next(j)
           Fresh(j) == \A t \in Producers : producer[j][t].at = "llm" => copies[producer[j][t].ordinal] = 0
           Last(j)  == pc[j] = "final" => waiting[j][1].updates["next_iteration"] = next(j)
           Single   == \A o \in Ordinals : copies[o] <= 1
           Behindhand == (\A j \in Instances : pc[j] \notin Counting) =>
                            \A o \in Ordinals : copies[o] > 0 => o < snap["next_iteration"]
<1>1. Unique = (clean /\ ~shared =>
                  /\ Single
                  /\ \A j \in Instances : pc[j] \in Counting => Below(j) /\ Fresh(j) /\ Last(j)
                  /\ Behindhand)
  BY DEF Unique
<1>2. Unique' = (clean' /\ ~shared' =>
                  /\ Single'
                  /\ \A j \in Instances : pc'[j] \in Counting => Below(j)' /\ Fresh(j)' /\ Last(j)'
                  /\ Behindhand')
  BY DEF Unique
<1>3. /\ \A j \in Instances : next(j) \in Nat /\ next(j)' \in Nat
      /\ \A j \in Instances : \A t \in Producers :
            producer[j][t].ordinal \in Ordinals /\ producer'[j][t].ordinal \in Ordinals
      /\ snap["next_iteration"] \in Nat /\ snap'["next_iteration"] \in Nat
      /\ \A o \in Ordinals : o \in Nat /\ copies[o] \in Nat
  <2>1. "next_iteration" \in Fields /\ "next_iteration" \in Cells
    BY CellsAre
  <2>2. /\ snap' \in [Cells -> Nat] /\ metrics' \in [Instances -> [Fields -> Nat]]
        /\ producer' \in [Instances -> [Producers -> Tasks]]
    BY TypeOK' DEF TypeOK, SnapTypeOK, Cells, Tasks
  <2>3. \A o \in Ordinals : o \in Nat
    BY LifeAssumption DEF Ordinals
  <2>4. \A j \in Instances : next(j) \in Nat /\ next(j)' \in Nat
    BY <2>1, <2>2
  <2>5. \A j \in Instances : \A t \in Producers :
           producer[j][t].ordinal \in Ordinals /\ producer'[j][t].ordinal \in Ordinals
    BY <2>2 DEF Tasks
  <2>6. snap["next_iteration"] \in Nat /\ snap'["next_iteration"] \in Nat
    BY <2>1, <2>2
  <2> QED
    BY <2>3, <2>4, <2>5, <2>6
<1>4. \A j, k \in Instances : ~shared /\ pc[j] \in Live /\ pc[k] \in Live => j = k
  BY DEF Alone
<1>5. ASSUME NEW i \in Instances, StartFresh(i), clean', ~shared' PROVE Unique'
  <2>1. /\ pc[i] = "resuming" /\ pc' = [pc EXCEPT ![i] = "starting"] /\ producer' = producer
        /\ \A o \in Ordinals : copies'[o] = IF o < Seeds THEN 1 ELSE 0
        /\ metrics'[i]["next_iteration"] = Seeds /\ shared' = shared
    BY <1>5, StartFreshEffect DEF history
  <2>2. pc'[i] = "starting" /\ \A t \in Producers : producer'[i][t].at = "idle"
    BY <2>1, IdleTyped DEF TaskInvariant, InOrder, Resting
  <2>3. Single'
    <3>1. ASSUME NEW o \in Ordinals PROVE copies'[o] <= 1
      <4>1. copies'[o] = 0 \/ copies'[o] = 1
        BY <2>1
      <4> QED
        BY <4>1
    <3> QED
      BY <3>1
  <2>4. Below(i)' /\ Fresh(i)' /\ Last(i)'
    BY <2>1, <2>2
  <2>5. ASSUME NEW j \in Instances, pc'[j] \in Counting PROVE j = i
    BY <1>4, <1>5, <2>1, <2>5, StatesAre
  <2>6. Behindhand'
    BY <2>2, StatesAre
  <2> QED
    BY <1>2, <2>3, <2>4, <2>5, <2>6
<1>6. ASSUME NEW i \in Instances, Resume(i), clean', ~shared' PROVE Unique'
  <2>1. /\ pc[i] = "resuming" /\ pc' = [pc EXCEPT ![i] = "starting"] /\ producer' = producer
        /\ metrics'[i]["next_iteration"] = snap["next_iteration"]
        /\ copies' = copies /\ shared' = shared /\ clean' = clean
    BY <1>6, ResumeEffect DEF history
  <2>2. pc'[i] = "starting" /\ \A t \in Producers : producer'[i][t].at = "idle"
    BY <2>1, IdleTyped DEF TaskInvariant, InOrder, Resting
  <2>3. \A j \in Instances : pc[j] \notin Counting
    <3>1. ASSUME NEW j \in Instances, pc[j] \in Counting PROVE FALSE
      <4>1. j = i
        BY <1>4, <1>6, <2>1, <3>1, StatesAre
      <4> QED
        BY <2>1, <3>1, <4>1, StatesAre
    <3> QED
      BY <3>1
  <2>4. Single /\ Behindhand
    BY <1>1, <1>6, <2>1
  <2>5. Single' /\ Below(i)' /\ Fresh(i)' /\ Last(i)'
    BY <2>1, <2>2, <2>3, <2>4
  <2>6. ASSUME NEW j \in Instances, pc'[j] \in Counting PROVE j = i
    BY <2>1, <2>3, <2>6
  <2>7. Behindhand'
    BY <2>2, StatesAre
  <2> QED
    BY <1>2, <2>5, <2>6, <2>7
<1>7. ASSUME NEW i \in Instances, Writes(i) \/ SnapshotFails(i), clean', ~shared' PROVE Unique'
  <2> DEFINE q == Head(waiting[i])
  <2>1. /\ waiting[i] # <<>> /\ shared' = shared /\ metrics' = metrics /\ copies' = copies
    BY <1>7, WriteKinds
  <2>2. pc[i] \in Counting /\ pc[i] \in Working /\ q \in Requests
    BY <2>1, WriterWorks
  <2>3. clean /\ (SnapshotFails(i) => pc[i] \notin {"starting", "final"})
    BY <1>7 DEF Writes, SnapshotFails, history
  <2>4. /\ Single /\ Behindhand /\ Below(i) /\ Fresh(i) /\ Last(i)
    BY <1>1, <1>7, <2>1, <2>2, <2>3
  <2>5. PICK ok \in BOOLEAN : WriteEnds(i, q, ok)
    BY <1>7, WriteKinds
  <2>6. /\ \A k \in Instances : k # i => pc'[k] = pc[k]
        /\ \A t \in Producers : producer'[i][t] = IF t = q.who THEN Idle ELSE producer[i][t]
        /\ pc'[i] \in {pc[i], "up", "closing"}
        /\ pc[i] \notin {"starting", "final"} => pc'[i] = pc[i]
    BY <2>5 DEF WriteEnds
  <2>7. ASSUME NEW j \in Instances, pc'[j] \in Counting PROVE j = i
    BY <1>4, <1>7, <2>1, <2>2, <2>6, <2>7, StatesAre
  <2>8. Single' /\ Below(i)'
    BY <2>1, <2>4
  <2>9. Fresh(i)'
    <3>1. \A t \in Producers : producer'[i][t].at = "llm" => producer'[i][t] = producer[i][t]
      BY <2>6, IdleTyped
    <3> QED
      BY <2>1, <2>4, <3>1
  <2>10. pc'[i] # "final"
    <3>1. CASE pc[i] = "final"
      <4>1. waiting[i][1].who = "run"
        BY <3>1 DEF TaskInvariant, InOrder, Resting
      <4>2. q.who = "run"
        BY <2>1, <4>1, FirstWriter
      <4> QED
        BY <2>5, <3>1, <4>2 DEF WriteEnds
    <3>2. CASE pc[i] # "final"
      BY <2>6, <3>2
    <3> QED
      BY <3>1, <3>2
  <2>11. Behindhand'
    <3>1. CASE pc'[i] \in Counting
      BY <3>1
    <3>2. CASE pc'[i] \notin Counting
      <4>1. pc[i] \in {"starting", "final"}
        BY <2>2, <2>6, <3>2
      <4>2. Writes(i)
        BY <1>7, <2>3, <4>1
      <4>3. WriteEnds(i, q, TRUE) /\ snap' = NextSnapshot(i, q.updates)
        BY <4>2, SaveEffect DEF Writes
      <4>4. waiting[i][1].who = "run"
        BY <4>1 DEF TaskInvariant, InOrder, Resting
      <4>5. q = waiting[i][1]
        BY <2>1, FirstWriter
      <4>6. pc[i] = "final"
        BY <3>2, <4>1, <4>3, <4>4, <4>5, StatesAre DEF WriteEnds
      <4>7. q.updates["next_iteration"] = next(i)
        BY <2>4, <4>5, <4>6
      <4>8. "next_iteration" \in DOMAIN q.updates
        BY <2>2, <4>4, <4>5, RequestShape
      <4>9. next(i) <= snap'["next_iteration"]
        <5>1. q.updates["next_iteration"] <= NextSnapshot(i, q.updates)["next_iteration"]
          BY <2>2, <4>8, NextSnapshotIs
        <5> QED
          BY <4>3, <4>7, <5>1
      <4> QED
        BY <1>3, <2>1, <2>4, <4>9
    <3> QED
      BY <3>1, <3>2
  <2> QED
    BY <1>2, <2>7, <2>8, <2>9, <2>10, <2>11
<1>8. ASSUME Quiet, clean', ~shared', copies' = copies PROVE Unique'
  <2>1. /\ clean /\ ~shared /\ snap' = snap
        /\ \A j \in Instances : pc'[j] \in Counting <=> pc[j] \in Counting
    BY <1>8 DEF Quiet, Calm
  <2>2. Single /\ Behindhand
    BY <1>1, <2>1
  <2>3. Single' /\ Behindhand'
    BY <1>8, <2>1, <2>2
  <2>4. ASSUME NEW j \in Instances, pc'[j] \in Counting PROVE Below(j)' /\ Fresh(j)' /\ Last(j)'
    <3>1. pc[j] \in Counting /\ pc'[j] \in Working /\ Below(j) /\ Fresh(j) /\ Last(j)
      BY <1>1, <2>1, <2>4, StatesAre
    <3>2. /\ next(j)' >= next(j)
          /\ \A t \in Producers : producer'[j][t].at = "llm" =>
                \/ producer[j][t].at = "llm" /\ producer'[j][t].ordinal = producer[j][t].ordinal
                \/ producer'[j][t].ordinal = next(j)
      BY <1>8, <3>1 DEF Quiet, Calm
    <3>3. Below(j)'
      BY <1>3, <1>8, <3>1, <3>2
    <3>4. ASSUME NEW t \in Producers, producer'[j][t].at = "llm"
          PROVE  copies'[producer'[j][t].ordinal] = 0
      <4>1. CASE producer[j][t].at = "llm" /\ producer'[j][t].ordinal = producer[j][t].ordinal
        BY <1>8, <3>1, <4>1
      <4>2. CASE producer'[j][t].ordinal = next(j)
        <5>1. next(j) \in Ordinals /\ ~(next(j) < next(j))
          BY <1>3, <4>2
        <5>2. ~(copies[next(j)] > 0)
          BY <3>1, <5>1
        <5> QED
          BY <1>3, <1>8, <4>2, <5>1, <5>2
      <4> QED
        BY <3>2, <3>4, <4>1, <4>2
    <3>5. Last(j)'
      BY <1>8, <3>1 DEF Quiet, Calm, Same
    <3> QED
      BY <3>3, <3>4, <3>5
  <2> QED
    BY <1>2, <2>3, <2>4
<1>9. ASSUME NEW i \in Instances, NEW t \in Producers, StoreChild(i, t), Quiet, clean', ~shared' PROVE Unique'
  <2> DEFINE a == producer[i][t].ordinal
  <2>1. /\ pc[i] \in {"up", "draining"} /\ producer[i][t].at = "llm" /\ a \in Ordinals
        /\ producer' = [producer EXCEPT ![i][t].at = "stored"]
        /\ \A o \in Ordinals : copies'[o] = IF o = a THEN copies[o] + 1 ELSE copies[o]
        /\ UNCHANGED <<pc, metrics>>
    BY <1>9, StoreChildEffect
  <2>2. clean /\ ~shared
    BY <1>9 DEF Quiet
  <2>3. Single /\ Below(i) /\ Fresh(i)
    BY <1>1, <2>1, <2>2, StatesAre
  <2>4. copies[a] = 0
    BY <2>1, <2>3
  <2>5. Reserved(i)
    BY DEF TaskInvariant, InOrder
  <2>6. a < next(i)
    BY <2>1, <2>5 DEF Reserved
  <2>7. /\ producer'[i][t].at = "stored"
        /\ \A u \in Producers : u # t => producer'[i][u] = producer[i][u]
    <3>1. Moves(i, t, "stored") /\ "stored" \in {"stored", "saving"}
      BY <2>1 DEF Moves
    <3>2. /\ producer'[i][t].at = "stored"
          /\ \A j \in Instances : \A u \in Producers :
                j # i \/ u # t => producer'[j][u] = producer[j][u]
      BY <3>1, TaskMoves
    <3> QED
      BY <3>2
  <2> HIDE DEF a
  <2>8. Single'
    <3>1. ASSUME NEW o \in Ordinals PROVE copies'[o] <= 1
      <4>1. copies'[o] = copies[o] \/ copies'[o] = 1
        BY <2>1, <2>4
      <4>2. copies[o] <= 1
        BY <2>3
      <4> QED
        BY <4>1, <4>2
    <3> QED
      BY <3>1
  <2>9. Below(i)'
    BY <1>3, <2>1, <2>3, <2>6
  <2>10. ASSUME NEW u \in Producers, producer'[i][u].at = "llm" PROVE copies'[producer'[i][u].ordinal] = 0
    <3>1. u # t /\ producer'[i][u] = producer[i][u]
      BY <2>7, <2>10
    <3>2. producer[i][u].ordinal # a /\ producer[i][u].ordinal \in Ordinals
      <4>1. producer[i][u].at # "idle" /\ producer[i][t].at # "idle"
        BY <2>1, <2>10, <3>1
      <4> QED
        BY <1>3, <2>5, <3>1, <4>1 DEF Reserved, a
    <3>3. copies[producer[i][u].ordinal] = 0
      BY <2>3, <2>10, <3>1
    <3> QED
      BY <2>1, <3>1, <3>2, <3>3
  <2>11. pc'[i] \in {"up", "draining"}
    BY <2>1
  <2>12. Last(i)' /\ Behindhand'
    BY <2>11, StatesAre
  <2>13. ASSUME NEW j \in Instances, pc'[j] \in Counting PROVE j = i
    BY <1>4, <2>1, <2>2, <2>13, StatesAre
  <2> QED
    BY <1>2, <2>8, <2>9, <2>10, <2>12, <2>13
<1>10. \A j \in Instances : InOrder(j)
  BY DEF TaskInvariant
<1>11. CASE ~(clean' /\ ~shared')
  BY <1>2, <1>11
<1> HIDE DEF next, Below, Fresh, Last, Single, Behindhand
<1> QED
  BY <1>5, <1>6, <1>7, <1>8, <1>9, <1>10, <1>11, Kinds, CopiesStep

----------------------------------------------------------------------------
LifeInvariant ==
    /\ TypeOK /\ Alone /\ KeyHeld /\ TaskInvariant
    /\ MirrorFollowsRedis /\ Behind /\ Unique

LEMMA LifeInit == ASSUME Init PROVE LifeInvariant
<1>1. TypeOK
  BY TypeInit
<1>2. /\ pc = [i \in Instances |-> "new"] /\ snap = Default /\ confirmed = {}
      /\ mirror = [i \in Instances |-> Default] /\ waiting = [i \in Instances |-> <<>>]
      /\ producer = [i \in Instances |-> [t \in Producers |-> Idle]]
      /\ copies = [o \in Ordinals |-> 0]
  BY DEF Init, LockInit, SnapInit
<1>3. \A i \in Instances : pc[i] = "new" /\ pc[i] \notin Live /\ pc[i] \notin Working
                            /\ pc[i] \notin Counting
  BY <1>2, StatesAre
<1>4. Alone /\ KeyHeld
  BY <1>3 DEF Alone, KeyHeld
<1>5. ASSUME NEW i \in Instances PROVE InOrder(i)
  <2>1. waiting[i] = <<>> /\ Len(waiting[i]) = 0
    BY <1>2
  <2>2. Resting(i)
    BY <1>2, <1>3, <2>1 DEF Resting
  <2>3. Covered(i) /\ Reserved(i)
    BY <1>2, <2>1, IdleTyped DEF Covered, Reserved
  <2> QED
    BY <2>2, <2>3 DEF InOrder
<1>6. Populated
  BY <1>2, <1>3 DEF Populated
<1>7. MirrorFollowsRedis /\ Behind
  BY <1>2, <1>3 DEF MirrorFollowsRedis, Behind, Working
<1>8. Unique
  <2>1. \A o \in Ordinals : copies[o] = 0
    BY <1>2
  <2> QED
    BY <1>3, <2>1 DEF Unique
<1> QED
  BY <1>1, <1>4, <1>5, <1>6, <1>7, <1>8 DEF LifeInvariant, TaskInvariant

LEMMA LifeStep == ASSUME LifeInvariant, [Next]_vars PROVE LifeInvariant'
<1>1. /\ TypeOK /\ Alone /\ KeyHeld /\ TaskInvariant
      /\ MirrorFollowsRedis /\ Behind /\ Unique
  BY DEF LifeInvariant
<1>2. TypeOK'
  BY <1>1, TypeStep
<1>3. Alone' /\ KeyHeld'
  BY <1>1, LockInvariantStep
<1>4. TaskInvariant'
  BY <1>1, <1>2, TaskStep
<1>5. MirrorFollowsRedis'
  BY <1>1, <1>2, MirrorStep
<1>6. Behind'
  BY <1>1, <1>2, BehindStep
<1>7. Unique'
  BY <1>1, <1>2, UniqueStep
<1> QED
  BY <1>2, <1>3, <1>4, <1>5, <1>6, <1>7 DEF LifeInvariant

LEMMA LifeHolds == Spec => []LifeInvariant
<1>1. Init => LifeInvariant
  BY LifeInit
<1>2. LifeInvariant /\ [Next]_vars => LifeInvariant'
  BY LifeStep
<1> QED
  BY <1>1, <1>2, PTL DEF Spec

\* _write_snapshot: in the one running process, whatever writes fail and
\* whatever crashes and resumes came before, no counter of the mirror is ahead of
\* Redis and Redis is at most one version ahead of the mirror.
THEOREM SnapshotIsFollowed == Spec => []MirrorFollowsRedis
<1>1. LifeInvariant => MirrorFollowsRedis
  BY DEF LifeInvariant
<1> QED
  BY <1>1, LifeHolds, PTL

\* run_one_mutant, _write_snapshot: an ordinal whose child was acknowledged is
\* never given to another program, over any number of lives and crashes.
THEOREM NeverReissued == Spec => ConfirmedNeverReissued
<1> DEFINE A == ~shared => \A o \in confirmed : copies'[o] = copies[o]
<1>1. LifeInvariant /\ [Next]_vars => [A]_vars
  <2> SUFFICES ASSUME LifeInvariant, [Next]_vars, ~shared, NEW o \in confirmed
               PROVE  copies'[o] = copies[o]
    OBVIOUS
  <2>1. TypeOK /\ TaskInvariant /\ Behind /\ o \in Ordinals
    BY Types DEF LifeInvariant
  <2>2. ASSUME NEW i \in Instances, StartFresh(i) PROVE FALSE
    <3>1. ~HasData
      BY <2>1, <2>2, StartFreshEffect
    <3> QED
      BY <2>1, <3>1 DEF TaskInvariant, Populated
  <2>3. ASSUME NEW i \in Instances, NEW t \in Producers, StoreChild(i, t)
        PROVE  copies'[o] = copies[o]
    <3>1. /\ pc[i] \in {"up", "draining"} /\ producer[i][t].at = "llm"
          /\ copies'[o] = IF o = producer[i][t].ordinal THEN copies[o] + 1 ELSE copies[o]
      BY <2>1, <2>3, StoreChildEffect
    <3>2. pc[i] \in Working
      BY <3>1, StatesAre
    <3>3. producer[i][t].ordinal # o
      BY <2>1, <3>1, <3>2 DEF Behind
    <3> QED
      BY <3>1, <3>3
  <2> QED
    BY <2>1, <2>2, <2>3, CopiesStep
<1> QED
  BY <1>1, LifeHolds, PTL DEF Spec, ConfirmedNeverReissued

\* steady_state.py, restore_state: as long as every life ended gracefully, all
\* stored programs have ordinals of their own.
THEOREM OrdinalsUnique == Spec => []UniqueWhenClean
<1>1. LifeInvariant => UniqueWhenClean
  BY DEF LifeInvariant, Unique, UniqueWhenClean
<1> QED
  BY <1>1, LifeHolds, PTL

=============================================================================
