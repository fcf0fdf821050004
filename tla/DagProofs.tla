----------------------------- MODULE DagProofs -----------------------------
(***************************************************************************)
(* The DAG loop decides every stage once and decides it rightly, for every *)
(* acyclic graph, any number of stages, any outputs, runs and crashes.     *)
(***************************************************************************)
EXTENDS DagAutomata, FiniteSetTheorems, TLAPS

-----------------------------------------------------------------------------
(***************************************************************************)
(* The types.                                                              *)
(***************************************************************************)
LEMMA ResultType ==
    ASSUME NEW st \in StageState, NEW v \in Values \cup {NoInput},
           NEW h \in Inputs \cup {NoHash}
    PROVE  Result(st, v, h) \in Results
  BY DEF Result, Results

LEMMA FixedResults == Pending \in Results /\ AutoSkip \in Results
<1>1. Pending \in Results
  BY ResultType DEF Pending, StageState, FINAL_STATES
<1>2. AutoSkip \in Results
  BY DEF AutoSkip, Results, StageState, FINAL_STATES
<1> QED BY <1>1, <1>2

LEMMA NamedInputsType ==
    ASSUME NEW r \in [Stages -> Results], NEW s \in Stages
    PROVE  NamedInputs(r, s) \in Inputs
  BY DEF NamedInputs, Inputs, Results

LEMMA LaunchType ==
    ASSUME NEW r \in [Stages -> Results], NEW L \in SUBSET Stages
    PROVE  Launch(r, L) \in [Stages -> Results]
<1> SUFFICES ASSUME NEW s \in Stages
             PROVE  Result("RUNNING", NoInput, r[s].input_hash) \in Results
  BY DEF Launch
<1>1. r[s].input_hash \in Inputs \cup {NoHash}
  BY DEF Results
<1> QED BY <1>1, ResultType DEF StageState

LEMMA OutcomeType ==
    ASSUME TypeOK, NEW s \in Stages, NEW o \in Outcomes(s)
    PROVE  /\ o \in Results /\ o.auto = FALSE /\ o.status \in FINAL_STATES
           /\ o.input_hash \in {given[s], NoHash}
<1> DEFINE hash == IF s \notin Volatile THEN given[s] ELSE NoHash
<1>1. hash \in Inputs \cup {NoHash} /\ hash \in {given[s], NoHash}
  BY DEF TypeOK
<1>2. \/ \E v \in Values : o = Result("COMPLETED", v, hash)
      \/ o = Result("FAILED", NoInput, hash) \/ o = Result("SKIPPED", NoInput, hash)
      \/ o = Result("CANCELLED", NoInput, NoHash)
  BY DEF Outcomes
<1>3. o \in Results
  BY <1>1, <1>2, ResultType DEF StageState, FINAL_STATES
<1> QED BY <1>1, <1>2, <1>3 DEF Result, FINAL_STATES

-----------------------------------------------------------------------------
(***************************************************************************)
(* What a diagnosis says about the predecessors, and what a pass does.     *)
(***************************************************************************)
LEMMA ReadyMeans ==
    ASSUME NEW r, NEW fin, NEW s \in Stages, Diagnose(r, fin, s) = "READY",
           NEW p \in Stages, NEW k \in graph[<<p, s>>]
    PROVE  p \in fin /\ Satisfied(k, r[p].status)
<1>1. Gate(r, fin, p, k) = "READY"
  <2> DEFINE gates == UNION {{Gate(r, fin, q, l) : l \in graph[<<q, s>>]} : q \in Stages}
  <2>1. Gate(r, fin, p, k) \in gates
    OBVIOUS
  <2>2. gates \cap {"IMPOSSIBLE", "WAIT"} = {}
    BY DEF Diagnose
  <2>3. Gate(r, fin, p, k) \in {"READY", "IMPOSSIBLE", "WAIT"}
    BY DEF Gate
  <2> HIDE DEF gates
  <2> QED BY <2>1, <2>2, <2>3
<1> QED BY <1>1 DEF Gate, FinalizedThisRun

LEMMA ImpossibleMeans ==
    ASSUME NEW r, NEW fin, NEW s \in Stages, Diagnose(r, fin, s) = "IMPOSSIBLE"
    PROVE  \E p \in Stages : p \in fin /\ \E k \in graph[<<p, s>>] : ~Satisfied(k, r[p].status)
<1>1. PICK p \in Stages : \E k \in graph[<<p, s>>] : Gate(r, fin, p, k) = "IMPOSSIBLE"
  BY DEF Diagnose
<1> QED BY <1>1 DEF Gate, FinalizedThisRun

LEMMA WaitMeans ==
    ASSUME NEW r, NEW fin, NEW s \in Stages,
           Diagnose(r, fin, s) \notin {"READY", "IMPOSSIBLE"}
    PROVE  \E p \in Stages : graph[<<p, s>>] # {} /\ ~FinalizedThisRun(r, fin, p)
<1>1. PICK p \in Stages : \E k \in graph[<<p, s>>] : Gate(r, fin, p, k) = "WAIT"
  BY DEF Diagnose
<1> QED BY <1>1 DEF Gate

\* The sets one pass of the loop works with.
Skips      == StagesToSkip(res, finished, launched)
AfterSkips == [s \in Stages |-> IF s \in Skips THEN AutoSkip ELSE res[s]]
Ready      == ReadyStages(AfterSkips, finished \cup Skips, launched \cup Skips)
Hits       == {s \in Ready : Reuses(AfterSkips, s)}
New        == Ready \ Hits

\* A pass applies every skip it finds, so it never meets the DEADLOCK error.
LEMMA PassEffect ==
    ASSUME Schedule
    PROVE  /\ phase = "loop"
           /\ res' = Launch(AfterSkips, New)
           /\ finished' = finished \cup Skips \cup Hits
           /\ launched' = launched \cup Skips \cup New
           /\ task' = [s \in Stages |-> IF s \in New THEN "queued" ELSE task[s]]
           /\ given' = [s \in Stages |-> IF s \in New THEN NamedInputs(AfterSkips, s)
                                         ELSE given[s]]
           /\ phase' = IF running \cup New # {} THEN "wait"
                       ELSE IF Skips \cup Hits = {} THEN "ended" ELSE "loop"
           /\ UNCHANGED <<graph, saved, runs>>
<1>1. Skips \cap finished = {} /\ Skips \subseteq Stages
  BY DEF Skips, StagesToSkip
<1>2. {s \in Skips : s \notin finished \/ res[s].status = "PENDING"} = Skips
  BY <1>1
<1>3. ~(Skips # {} /\ {s \in Skips : s \notin finished \/ res[s].status = "PENDING"} = {}
        /\ running = {})
  BY <1>2
<1> QED BY <1>2, <1>3 DEF Schedule, Skips, AfterSkips, Ready, Hits, New

\* The four sets are apart.
LEMMA PassSets ==
    /\ Skips \subseteq Stages /\ Ready \subseteq Stages /\ running \subseteq Stages
    /\ Skips \cap (running \cup launched \cup finished) = {}
    /\ Ready \cap (running \cup launched \cup finished \cup Skips) = {}
    /\ Hits \subseteq Ready /\ New \subseteq Ready /\ Hits \cap New = {}
    /\ Hits \cup New = Ready
  BY DEF Skips, StagesToSkip, Ready, ReadyStages, Hits, New, running

-----------------------------------------------------------------------------
(***************************************************************************)
(* The inductive invariant.                                                *)
(***************************************************************************)
\* A stage is launched at most once in a run, and what is finished is final.
Apart ==
    /\ running \cap finished = {}
    /\ launched \subseteq running \cup finished
    /\ \A s \in finished : res[s].status \in FINAL_STATES
    /\ phase = "idle" => running = {} /\ finished = {}

\* Only results a stage returned carry a hash.
AutoUnhashed ==
    \A s \in Stages : /\ res[s].auto => res[s].input_hash = NoHash
                      /\ saved[s].auto => saved[s].input_hash = NoHash

\* Justified, in every phase: each decision agrees with the predecessors.
Decision(s) ==
    IF s \in finished /\ res[s].auto
    THEN \E p \in finished : \E k \in graph[<<p, s>>] : ~Satisfied(k, res[p].status)
    ELSE \A p \in Stages : \A k \in graph[<<p, s>>] :
             p \in finished /\ Satisfied(k, res[p].status)

Decided == \A s \in running \cup finished : Decision(s)

\* The hashes of the finished and the inputs of the running stages are those
\* of the results as they are.
HashesCurrent ==
    /\ \A s \in finished :
          res[s].input_hash # NoHash => res[s].input_hash = NamedInputs(res, s)
    /\ \A s \in running : given[s] = NamedInputs(res, s)

DagInvariant ==
    /\ TypeOK /\ Apart /\ AutoUnhashed /\ Decided /\ HashesCurrent
    /\ AllResolved

LEMMA InitInvariant == Init => DagInvariant
<1> SUFFICES ASSUME Init PROVE DagInvariant
  OBVIOUS
<1>1. running = {}
  BY DEF Init, running
<1>2. TypeOK
  BY FixedResults, DagAssumption DEF Init, TypeOK, Inputs, Phases
<1>3. Apart /\ Decided /\ HashesCurrent
  BY <1>1 DEF Init, Apart, Decided, HashesCurrent
<1>4. AutoUnhashed
  BY DEF Init, AutoUnhashed, Pending, Result
<1> QED BY <1>2, <1>3, <1>4 DEF Init, DagInvariant, AllResolved

\* The inputs of a stage depend on nothing but its predecessors.
LEMMA SameInputs ==
    ASSUME NEW s \in Stages, NEW r1, NEW r2,
           \A p \in Stages : graph[<<p, s>>] # {} => r1[p] = r2[p]
    PROVE  NamedInputs(r1, s) = NamedInputs(r2, s)
  BY DEF NamedInputs

-----------------------------------------------------------------------------
(***************************************************************************)
(* A pass of the loop.                                                     *)
(***************************************************************************)
LEMMA PassTypes ==
    ASSUME TypeOK, Schedule
    PROVE  /\ TypeOK' /\ running' = running \cup New
           /\ AfterSkips \in [Stages -> Results]
<1> USE PassEffect, PassSets
<1>1. AfterSkips \in [Stages -> Results]
  BY FixedResults DEF TypeOK, AfterSkips
<1>2. res' \in [Stages -> Results]
  BY <1>1, LaunchType
<1>3. given' \in [Stages -> Inputs]
  BY <1>1, NamedInputsType DEF TypeOK
<1>4. running' = running \cup New
  BY DEF running, TypeOK
<1>5. phase' \in Phases
  BY DEF Phases
<1>6. finished' \subseteq Stages /\ launched' \subseteq Stages
  BY DEF TypeOK
<1>7. task' \in [Stages -> {"none", "queued", "exec", "done"}]
  BY DEF TypeOK
<1> QED BY <1>1, <1>2, <1>3, <1>4, <1>5, <1>6, <1>7 DEF TypeOK

\* A pass changes the results of the stages it skips and launches only.
LEMMA PassKeeps ==
    ASSUME TypeOK, Schedule
    PROVE  /\ \A s \in Stages \ New : res'[s] = AfterSkips[s]
           /\ \A s \in Stages \ (New \cup Skips) : res'[s] = res[s]
           /\ \A s \in Skips : res'[s] = AutoSkip
           /\ \A s \in New : res'[s].auto = FALSE
  BY PassEffect, PassSets DEF Launch, AfterSkips, Result

\* What a pass starts or reuses has all its arcs satisfied by results that the
\* pass leaves alone; what it skips has one that is contradicted.
LEMMA PassDecides ==
    ASSUME TypeOK, Schedule
    PROVE  /\ \A s \in Ready : \A p \in Stages : \A k \in graph[<<p, s>>] :
                 p \in finished \cup Skips /\ Satisfied(k, res'[p].status)
           /\ \A s \in Skips : \E p \in finished :
                 \E k \in graph[<<p, s>>] : ~Satisfied(k, res'[p].status)
<1>1. ASSUME NEW s \in Ready, NEW p \in Stages, NEW k \in graph[<<p, s>>]
      PROVE  p \in finished \cup Skips /\ Satisfied(k, res'[p].status)
  <2>1. s \in Stages /\ Diagnose(AfterSkips, finished \cup Skips, s) = "READY"
    BY <1>1 DEF Ready, ReadyStages
  <2>2. p \in finished \cup Skips /\ Satisfied(k, AfterSkips[p].status)
    BY <1>1, <2>1, ReadyMeans
  <2>3. p \notin New
    BY <2>2, PassSets
  <2> QED BY <2>2, <2>3, PassKeeps
<1>2. ASSUME NEW s \in Skips
      PROVE  \E p \in finished : \E k \in graph[<<p, s>>] : ~Satisfied(k, res'[p].status)
  <2>1. s \in Stages /\ Diagnose(res, finished, s) = "IMPOSSIBLE"
    BY <1>2 DEF Skips, StagesToSkip
  <2>2. PICK p \in Stages :
          p \in finished /\ \E k \in graph[<<p, s>>] : ~Satisfied(k, res[p].status)
    BY <2>1, ImpossibleMeans
  <2>3. res'[p] = res[p]
    BY <2>2, PassSets, PassKeeps
  <2> QED BY <2>2, <2>3
<1> QED BY <1>1, <1>2

LEMMA PassApart ==
    ASSUME TypeOK, Apart, Schedule
    PROVE  Apart'
<1> USE PassEffect, PassSets, PassTypes
<1>1. running' \cap finished' = {}
  BY DEF Apart
<1>2. launched' \subseteq running' \cup finished'
  BY DEF Apart
<1>3. ASSUME NEW s \in finished' PROVE res'[s].status \in FINAL_STATES
  <2>1. CASE s \in finished
    BY <2>1, PassKeeps DEF Apart, TypeOK
  <2>2. CASE s \in Skips
    BY <2>2, PassKeeps DEF AutoSkip, FINAL_STATES
  <2>3. CASE s \in Hits
    <3>1. AfterSkips[s].status \in FINAL_STATES
      BY <2>3 DEF Hits, Reuses
    <3> QED BY <2>3, <3>1, PassKeeps
  <2> QED BY <1>3, <2>1, <2>2, <2>3
<1> QED BY <1>1, <1>2, <1>3 DEF Apart

LEMMA PassAuto ==
    ASSUME TypeOK, AutoUnhashed, Schedule
    PROVE  AutoUnhashed'
<1> SUFFICES ASSUME NEW s \in Stages
             PROVE  /\ res'[s].auto => res'[s].input_hash = NoHash
                    /\ saved'[s].auto => saved'[s].input_hash = NoHash
  BY DEF AutoUnhashed
<1>1. CASE s \in New
  BY <1>1, PassKeeps, PassEffect DEF AutoUnhashed
<1>2. CASE s \in Skips
  BY <1>2, PassKeeps, PassEffect DEF AutoUnhashed, AutoSkip
<1>3. CASE s \notin New \cup Skips
  BY <1>3, PassKeeps, PassEffect DEF AutoUnhashed
<1> QED BY <1>1, <1>2, <1>3

LEMMA PassDecided ==
    ASSUME TypeOK, Apart, AutoUnhashed, Decided, Schedule
    PROVE  Decided'
<1> USE PassEffect, PassSets, PassTypes
<1> SUFFICES ASSUME NEW s \in running' \cup finished' PROVE Decision(s)'
  BY DEF Decided
<1>1. s \in Stages
  BY DEF TypeOK
<1>2. \A p \in finished : res'[p] = res[p]
  BY PassKeeps DEF TypeOK
<1>3. CASE s \in running \cup finished
  <2>1. Decision(s)
    BY <1>3 DEF Decided
  <2>2. s \in finished' <=> s \in finished
    BY <1>3, PassApart DEF Apart
  <2>3. res'[s] = res[s]
    BY <1>1, <1>3, PassKeeps
  <2>4. CASE s \in finished /\ res[s].auto
    BY <1>2, <2>1, <2>2, <2>3, <2>4 DEF Decision
  <2>5. CASE ~(s \in finished /\ res[s].auto)
    BY <1>2, <2>1, <2>2, <2>3, <2>5 DEF Decision
  <2> QED BY <2>4, <2>5
<1>4. CASE s \in Skips
  <2>1. s \in finished' /\ res'[s].auto
    BY <1>4, PassKeeps DEF AutoSkip
  <2> QED BY <1>4, <2>1, PassDecides DEF Decision
<1>5. CASE s \in Ready
  <2>1. ~(s \in finished' /\ res'[s].auto)
    <3>1. CASE s \in New
      BY <3>1, PassKeeps
    <3>2. CASE s \in Hits
      <4>1. res'[s] = AfterSkips[s] /\ res'[s] = res[s] /\ AfterSkips[s].input_hash # NoHash
        BY <1>1, <3>2, PassKeeps DEF Hits, Reuses
      <4> QED BY <1>1, <4>1 DEF AutoUnhashed
    <3> QED BY <1>5, <3>1, <3>2
  <2>2. \A p \in Stages : \A k \in graph[<<p, s>>] :
            p \in finished' /\ Satisfied(k, res'[p].status)
    BY <1>5, PassDecides
  <2> QED BY <2>1, <2>2 DEF Decision
<1> QED BY <1>3, <1>4, <1>5

\* A stage that is not auto-skipped has only finished predecessors.
LEMMA DecidedPredecessors ==
    ASSUME TypeOK, Decided, NEW s \in running \cup finished,
           ~(s \in finished /\ res[s].auto)
    PROVE  \A p \in Stages : graph[<<p, s>>] # {} => p \in finished
<1> SUFFICES ASSUME NEW p \in Stages, graph[<<p, s>>] # {} PROVE p \in finished
  OBVIOUS
<1>1. PICK k \in graph[<<p, s>>] : TRUE
  OBVIOUS
<1> QED BY <1>1 DEF Decided, Decision

LEMMA PassHashes ==
    ASSUME TypeOK, Apart, AutoUnhashed, Decided, HashesCurrent, Schedule
    PROVE  HashesCurrent'
<1> USE PassEffect, PassSets, PassTypes
<1>1. ASSUME NEW s \in Ready
      PROVE  NamedInputs(AfterSkips, s) = NamedInputs(res', s)
  <2>1. \A p \in Stages : graph[<<p, s>>] # {} => AfterSkips[p] = res'[p]
    <3> SUFFICES ASSUME NEW p \in Stages, graph[<<p, s>>] # {}
                 PROVE  AfterSkips[p] = res'[p]
      OBVIOUS
    <3>1. PICK k \in graph[<<p, s>>] : TRUE
      OBVIOUS
    <3>2. p \in finished \cup Skips
      BY <3>1, PassDecides
    <3> QED BY <3>2, PassKeeps
  <2> QED BY <2>1, SameInputs
<1>2. ASSUME NEW s \in running \cup finished, ~(s \in finished /\ res[s].auto)
      PROVE  NamedInputs(res, s) = NamedInputs(res', s)
  <2>1. \A p \in Stages : graph[<<p, s>>] # {} => res[p] = res'[p]
    BY <1>2, DecidedPredecessors, PassKeeps
  <2>2. s \in Stages
    BY DEF TypeOK, running
  <2> QED BY <2>1, <2>2, SameInputs
<1>3. \A s \in Stages : NamedInputs(res, s)' = NamedInputs(res', s)
  BY DEF NamedInputs
<1>4. ASSUME NEW s \in finished', res'[s].input_hash # NoHash
      PROVE  res'[s].input_hash = NamedInputs(res', s)
  <2>1. CASE s \in finished
    <3>1. res'[s] = res[s]
      BY <2>1, PassKeeps DEF TypeOK
    <3>2. ~res[s].auto
      BY <1>4, <2>1, <3>1 DEF AutoUnhashed, TypeOK
    <3> QED BY <1>2, <1>4, <2>1, <3>1, <3>2 DEF HashesCurrent
  <2>2. CASE s \in Skips
    BY <1>4, <2>2, PassKeeps DEF AutoSkip
  <2>3. CASE s \in Hits
    <3>1. AfterSkips[s].input_hash = NamedInputs(AfterSkips, s) /\ res'[s] = AfterSkips[s]
      BY <2>3, PassKeeps DEF Hits, Reuses
    <3> QED BY <1>1, <2>3, <3>1
  <2> QED BY <1>4, <2>1, <2>2, <2>3
<1>5. ASSUME NEW s \in running' PROVE given'[s] = NamedInputs(res', s)
  <2>1. CASE s \in running
    <3>1. s \notin finished /\ s \notin New /\ s \in Stages
      BY <2>1 DEF Apart, TypeOK
    <3>2. given'[s] = given[s]
      BY <3>1
    <3> QED BY <1>2, <2>1, <3>1, <3>2 DEF HashesCurrent
  <2>2. CASE s \in New
    BY <1>1, <2>2
  <2> QED BY <1>5, <2>1, <2>2
<1>6. \A s \in running' \cup finished' : s \in Stages
  BY DEF TypeOK
<1> QED BY <1>3, <1>4, <1>5, <1>6 DEF HashesCurrent

\* The run ends only when every stage is finished: otherwise each unfinished
\* stage would wait for an unfinished one, round and round.
LEMMA PassResolves ==
    ASSUME TypeOK, Apart, Schedule, phase' = "ended"
    PROVE  finished' = Stages
<1> USE PassEffect, PassSets
<1>1. running = {} /\ New = {} /\ Skips = {} /\ Hits = {}
  OBVIOUS
<1>2. AfterSkips = res /\ Ready = {}
  BY <1>1 DEF AfterSkips, TypeOK
<1> DEFINE Open == Stages \ finished
<1>3. ASSUME NEW s \in Open PROVE \E p \in Open : graph[<<p, s>>] # {}
  <2>1. s \notin running \cup launched \cup finished
    BY <1>1, <1>3 DEF Apart
  <2>2. Diagnose(res, finished, s) # "IMPOSSIBLE"
    BY <1>1, <2>1 DEF Skips, StagesToSkip
  <2>3. Diagnose(res, finished, s) # "READY"
    BY <1>1, <1>2, <2>1 DEF Ready, ReadyStages
  <2>4. PICK p \in Stages : graph[<<p, s>>] # {} /\ ~FinalizedThisRun(res, finished, p)
    BY <2>2, <2>3, WaitMeans
  <2>5. p \notin finished
    BY <2>4 DEF FinalizedThisRun, Apart
  <2> QED BY <2>4, <2>5
<1>4. Acyclic(graph)
  BY DagAssumption DEF TypeOK
<1>5. Open = {}
  BY <1>3, <1>4 DEF Acyclic
<1> QED BY <1>1, <1>5 DEF TypeOK

LEMMA ScheduleInvariant ==
    ASSUME DagInvariant, Schedule
    PROVE  DagInvariant'
<1> USE DEF DagInvariant
<1>1. phase' # "error"
  BY PassEffect
<1>2. AllResolved'
  BY <1>1, PassResolves DEF AllResolved
<1> QED BY <1>2, PassTypes, PassApart, PassAuto, PassDecided, PassHashes

-----------------------------------------------------------------------------
(***************************************************************************)
(* The other steps.                                                        *)
(***************************************************************************)
\* Collecting what the tasks returned.
LEMMA CollectInvariant ==
    ASSUME DagInvariant, Collect
    PROVE  DagInvariant'
<1> USE DEF DagInvariant
<1>1. PICK outcome \in [doneTasks -> UNION {Outcomes(s) : s \in doneTasks}] :
        /\ \A s \in doneTasks : outcome[s] \in Outcomes(s)
        /\ res' = [s \in Stages |-> IF s \in doneTasks THEN outcome[s] ELSE res[s]]
  BY DEF Collect
<1>2. /\ doneTasks \subseteq running /\ running \subseteq Stages
      /\ running' = running \ doneTasks /\ finished' = finished \cup doneTasks
      /\ launched' = launched /\ graph' = graph /\ saved' = saved /\ phase' = "loop"
  BY DEF Collect, running, doneTasks, TypeOK
<1>3. \A s \in doneTasks :
        /\ res'[s] \in Results /\ res'[s].auto = FALSE /\ res'[s].status \in FINAL_STATES
        /\ res'[s].input_hash \in {given[s], NoHash}
  BY <1>1, <1>2, OutcomeType
<1>4. \A s \in Stages \ doneTasks : res'[s] = res[s]
  BY <1>1
<1>5. TypeOK'
  <2>1. res' \in [Stages -> Results]
    BY <1>1, <1>3, <1>4 DEF TypeOK
  <2>2. given' \in [Stages -> Inputs] /\ task' \in [Stages -> {"none", "queued", "exec", "done"}]
    BY DEF Collect, TypeOK, Inputs
  <2> QED BY <1>2, <2>1, <2>2 DEF TypeOK, Collect, Phases
<1>6. Apart'
  BY <1>2, <1>3, <1>4 DEF Apart, TypeOK
<1>7. AutoUnhashed'
  BY <1>2, <1>3, <1>4 DEF AutoUnhashed
<1>8. \A p \in finished : res'[p] = res[p]
  BY <1>2, <1>4 DEF Apart, TypeOK
<1>9. Decided'
  <2> SUFFICES ASSUME NEW s \in running' \cup finished' PROVE Decision(s)'
    BY DEF Decided
  <2>1. s \in running \cup finished /\ Decision(s)
    BY <1>2 DEF Decided
  <2>2. CASE s \in finished /\ res[s].auto
    BY <1>2, <1>8, <2>1, <2>2 DEF Decision
  <2>3. CASE ~(s \in finished /\ res[s].auto)
    <3>1. ~(s \in finished' /\ res'[s].auto)
      BY <1>2, <1>3, <1>8, <2>3
    <3> QED BY <1>2, <1>8, <2>1, <2>3, <3>1 DEF Decision
  <2> QED BY <2>2, <2>3
<1>10. HashesCurrent'
  <2>1. ASSUME NEW s \in running \cup finished, ~(s \in finished /\ res[s].auto)
        PROVE  NamedInputs(res, s)' = NamedInputs(res, s)
    <3>1. \A p \in Stages : graph[<<p, s>>] # {} => res[p] = res'[p]
      BY <1>8, <2>1, DecidedPredecessors
    <3>2. NamedInputs(res', s) = NamedInputs(res, s)
      BY <1>2, <3>1, SameInputs DEF TypeOK
    <3> QED BY <1>2, <3>2 DEF NamedInputs
  <2>2. ASSUME NEW s \in finished', res'[s].input_hash # NoHash
        PROVE  res'[s].input_hash = NamedInputs(res, s)'
    <3>1. CASE s \in doneTasks
      <4>1. res'[s].input_hash = given[s] /\ s \notin finished
        BY <1>2, <1>3, <2>2, <3>1 DEF Apart
      <4> QED BY <1>2, <2>1, <3>1, <4>1 DEF HashesCurrent
    <3>2. CASE s \in finished
      <4>1. ~res[s].auto
        BY <1>8, <2>2, <3>2 DEF AutoUnhashed, TypeOK
      <4> QED BY <1>8, <2>1, <2>2, <3>2, <4>1 DEF HashesCurrent
    <3> QED BY <1>2, <2>2, <3>1, <3>2
  <2>3. ASSUME NEW s \in running' PROVE given'[s] = NamedInputs(res, s)'
    <3>1. s \in running /\ s \notin finished /\ given'[s] = given[s]
      BY <1>2, <2>3 DEF Apart, Collect
    <3> QED BY <2>1, <3>1 DEF HashesCurrent
  <2> QED BY <2>2, <2>3 DEF HashesCurrent
<1> QED BY <1>2, <1>5, <1>6, <1>7, <1>9, <1>10 DEF AllResolved

\* Steps that change neither results nor decisions.
LEMMA QuietInvariant ==
    ASSUME DagInvariant, UNCHANGED <<graph, res, launched, finished, given>>,
           running' = running, TypeOK', saved' \in {saved, res},
           phase' \notin {"ended", "error"} \/ UNCHANGED phase,
           phase' = "idle" => phase = "idle"
    PROVE  DagInvariant'
<1> USE DEF DagInvariant
<1>1. Apart' /\ AutoUnhashed'
  BY DEF Apart, AutoUnhashed
<1>2. \A s : Decision(s)' <=> Decision(s)
  BY DEF Decision
<1>3. Decided'
  BY <1>2 DEF Decided
<1>4. \A s : NamedInputs(res, s)' = NamedInputs(res, s)
  BY DEF NamedInputs
<1>5. HashesCurrent'
  BY <1>4 DEF HashesCurrent
<1>6. AllResolved'
  BY DEF AllResolved
<1> QED BY <1>1, <1>3, <1>5, <1>6

\* A run that ends or is lost leaves no decision behind.
LEMMA ForgetInvariant ==
    ASSUME DagInvariant, Forget, TypeOK', phase' = "idle",
           res' \in {res, saved}, saved' \in {res, saved}
    PROVE  DagInvariant'
<1> USE DEF DagInvariant
<1>1. running' = {} /\ finished' = {} /\ launched' = {}
  BY DEF Forget, running
<1>2. Apart' /\ Decided' /\ HashesCurrent'
  BY <1>1 DEF Apart, Decided, HashesCurrent
<1>3. AutoUnhashed'
  BY DEF AutoUnhashed
<1> QED BY <1>2, <1>3 DEF AllResolved

LEMMA StepInvariant ==
    ASSUME DagInvariant, [Next]_vars
    PROVE  DagInvariant'
<1> USE DEF DagInvariant
<1>1. CASE Schedule
  BY <1>1, ScheduleInvariant
<1>2. CASE Collect
  BY <1>2, CollectInvariant
<1>3. CASE StartRun
  <2>1. TypeOK'
    BY <1>3, DagAssumption DEF StartRun, TypeOK, Phases, loopVars, taskVars
  <2>2. running' = running
    BY <1>3 DEF StartRun, taskVars, running
  <2> QED BY <1>3, <2>1, <2>2, QuietInvariant DEF StartRun, loopVars, taskVars
<1>4. CASE Timeout
  <2>1. TypeOK'
    BY <1>4 DEF Timeout, TypeOK, Phases, loopVars, taskVars
  <2>2. running' = running
    BY <1>4 DEF Timeout, taskVars, running
  <2> QED BY <1>4, <2>1, <2>2, QuietInvariant DEF Timeout, loopVars, taskVars
<1>5. CASE \E s \in Stages : TaskStart(s) \/ TaskEnd(s)
  <2>1. PICK s \in Stages : TaskStart(s) \/ TaskEnd(s)
    BY <1>5
  <2>2. TypeOK'
    BY <2>1 DEF TaskStart, TaskEnd, TypeOK, loopVars
  <2>3. running' = running
    BY <2>1 DEF TaskStart, TaskEnd, running, TypeOK
  <2> QED BY <2>1, <2>2, <2>3, QuietInvariant DEF TaskStart, TaskEnd, loopVars
<1>6. CASE Save
  <2>1. TypeOK'
    BY <1>6 DEF Save, Forget, TypeOK, Phases, Inputs
  <2> QED BY <1>6, <2>1, ForgetInvariant DEF Save
<1>7. CASE Crash
  <2>1. TypeOK'
    BY <1>7 DEF Crash, Forget, TypeOK, Phases, Inputs
  <2> QED BY <1>7, <2>1, ForgetInvariant DEF Crash
<1>8. CASE Over \/ UNCHANGED vars
  <2>1. UNCHANGED vars
    BY <1>8 DEF Over
  <2>2. running' = running /\ TypeOK'
    BY <2>1 DEF vars, taskVars, loopVars, running, TypeOK
  <2> QED BY <2>1, <2>2, QuietInvariant DEF vars, taskVars, loopVars
<1> QED BY <1>1, <1>2, <1>3, <1>4, <1>5, <1>6, <1>7, <1>8 DEF Next

-----------------------------------------------------------------------------
LEMMA DagAlways == Spec => []DagInvariant
  BY InitInvariant, StepInvariant, PTL DEF Spec

\* The types of the DAG's state, for any graph, any stages and any outputs.
THEOREM DagTypes == Spec => []TypeOK
  BY DagAlways, PTL DEF DagInvariant

\* DAG._run_internal never ends a run with an unresolved stage and never
\* raises its DEADLOCK error, for every acyclic graph.
THEOREM EveryStageResolved == Spec => []AllResolved
  BY DagAlways, PTL DEF DagInvariant

\* DAGAutomata: every launch, cache hit and skip agrees with what became of
\* the predecessors in the same run, and later results do not take it back.
THEOREM DecisionsJustified == Spec => []Justified
<1>1. DagInvariant => Justified
  BY DEF DagInvariant, Decided, Decision, Justified
<1> QED BY <1>1, DagAlways, PTL

\* InputHashCache: the results a run ends with were computed from each other,
\* across runs, cache hits and crashes.
THEOREM ResultsCoherent == Spec => []Coherent
<1>1. DagInvariant => Coherent
  BY DEF DagInvariant, AllResolved, HashesCurrent, Coherent
<1> QED BY <1>1, DagAlways, PTL

-----------------------------------------------------------------------------
(***************************************************************************)
(* Progress.                                                               *)
(***************************************************************************)
At(t) == {s \in Stages : task[s] = t}

Waiting == IF phase = "wait" THEN 1 ELSE 0

LEMMA StageSets ==
    ASSUME NEW S \in SUBSET Stages
    PROVE  IsFiniteSet(S) /\ Cardinality(S) \in Nat
  BY DagAssumption, FS_Subset, FS_CardinalityType

LEMMA DisjointSum ==
    ASSUME NEW S \in SUBSET Stages, NEW T \in SUBSET Stages, S \cap T = {}
    PROVE  Cardinality(S \cup T) = Cardinality(S) + Cardinality(T)
<1>1. IsFiniteSet(S) /\ IsFiniteSet(T) /\ Cardinality(S) \in Nat /\ Cardinality(T) \in Nat
  BY StageSets
<1>2. Cardinality(S \cup T) = Cardinality(S) + Cardinality(T) - Cardinality(S \cap T)
  BY <1>1, FS_Union
<1>3. Cardinality(S \cap T) = 0
  BY FS_EmptySet
<1> QED BY <1>1, <1>2, <1>3

LEMMA Moved ==
    ASSUME NEW S \in SUBSET Stages, NEW T \in SUBSET Stages, NEW s \in S, s \notin T
    PROVE  /\ Cardinality(S \ {s}) = Cardinality(S) - 1
           /\ Cardinality(T \cup {s}) = Cardinality(T) + 1
  BY StageSets, FS_RemoveElement, FS_AddElement

LEMMA StepAdvances ==
    ASSUME DagInvariant, Next, {phase, phase'} \subseteq {"loop", "wait"}, vars' # vars
    PROVE  Rank' > Rank
<1> DEFINE q == Cardinality(At("queued"))
           e == Cardinality(At("exec"))
           d == Cardinality(At("done"))
           f == Cardinality(finished)
<1>1. /\ TypeOK /\ TypeOK' /\ phase \in {"loop", "wait"} /\ phase' \in {"loop", "wait"}
  BY StepInvariant DEF DagInvariant
<1>2. /\ q \in Nat /\ e \in Nat /\ d \in Nat /\ f \in Nat
      /\ q' \in Nat /\ e' \in Nat /\ d' \in Nat /\ f' \in Nat
  BY <1>1, StageSets DEF At, TypeOK
<1>3. /\ Rank = 2 * (q + 2 * e + 3 * d + 4 * f) + Waiting
      /\ Rank' = 2 * (q' + 2 * e' + 3 * d' + 4 * f') + Waiting'
  BY DEF Rank, At, Waiting
<1>4. CASE Schedule
  <2> USE PassEffect, PassSets
  <2>1. At("queued")' = At("queued") \cup New /\ At("queued") \cap New = {}
    BY <1>1, <1>4 DEF At, TypeOK, running
  <2>2. At("exec")' = At("exec") /\ At("done")' = At("done")
    BY <1>1, <1>4 DEF At, TypeOK, running
  <2>3. q' = q + Cardinality(New)
    BY <2>1, DisjointSum DEF At
  <2>4. f' = f + Cardinality(Skips \cup Hits)
    <3>1. finished' = finished \cup (Skips \cup Hits) /\ finished \cap (Skips \cup Hits) = {}
      BY <1>4
    <3> QED BY <1>1, <3>1, DisjointSum DEF TypeOK
  <2>5. Cardinality(New) \in Nat /\ Cardinality(Skips \cup Hits) \in Nat
    BY StageSets
  <2>6. e' = e /\ d' = d
    BY <2>2
  <2>7. CASE phase' = "wait"
    <3>1. Waiting = 0 /\ Waiting' = 1
      BY <1>4, <2>7 DEF Waiting
    <3> HIDE DEF q, e, d, f
    <3> QED BY <1>2, <1>3, <2>3, <2>4, <2>5, <2>6, <3>1
  <2>8. CASE phase' = "loop"
    <3>1. Waiting = 0 /\ Waiting' = 0
      BY <1>4, <2>8 DEF Waiting
    <3>2. Skips \cup Hits # {}
      BY <1>4, <2>8
    <3>3. Cardinality(Skips \cup Hits) # 0
      BY <3>2, StageSets, FS_EmptySet
    <3> HIDE DEF q, e, d, f
    <3> QED BY <1>2, <1>3, <2>3, <2>4, <2>5, <2>6, <3>1, <3>3
  <2> QED BY <1>1, <2>7, <2>8
<1>5. CASE Collect
  <2>1. /\ At("queued")' = At("queued") /\ At("exec")' = At("exec") /\ At("done")' = {}
        /\ At("done") = doneTasks /\ At("done") # {}
    BY <1>1, <1>5 DEF Collect, At, doneTasks, TypeOK
  <2>2. finished' = finished \cup At("done") /\ finished \cap At("done") = {}
    BY <1>5, <2>1 DEF Collect, DagInvariant, Apart, running, At
  <2>3. f' = f + d
    BY <1>1, <2>2, DisjointSum DEF TypeOK, At
  <2>4. q' = q /\ e' = e /\ d' = 0 /\ d # 0
    BY <2>1, StageSets, FS_EmptySet DEF At
  <2>5. Waiting = 1 /\ Waiting' = 0
    BY <1>5 DEF Collect, Waiting
  <2> HIDE DEF q, e, d, f
  <2> QED BY <1>2, <1>3, <2>3, <2>4, <2>5
<1>6. CASE \E s \in Stages : TaskStart(s)
  <2>1. PICK s \in Stages : TaskStart(s)
    BY <1>6
  <2>2. /\ At("queued")' = At("queued") \ {s} /\ At("exec")' = At("exec") \cup {s}
        /\ At("done")' = At("done") /\ s \in At("queued") /\ s \notin At("exec")
    BY <1>1, <2>1 DEF TaskStart, At, TypeOK
  <2>3. q' = q - 1 /\ e' = e + 1
    <3>1. At("queued") \in SUBSET Stages /\ At("exec") \in SUBSET Stages
      BY DEF At
    <3>2. /\ Cardinality(At("queued") \ {s}) = Cardinality(At("queued")) - 1
          /\ Cardinality(At("exec") \cup {s}) = Cardinality(At("exec")) + 1
      BY <2>2, <3>1, Moved
    <3> QED BY <2>2, <3>2
  <2>4. d' = d /\ f' = f /\ Waiting' = Waiting /\ Waiting \in {0, 1}
    BY <2>1, <2>2 DEF TaskStart, loopVars, Waiting
  <2> HIDE DEF q, e, d, f
  <2> QED BY <1>2, <1>3, <2>3, <2>4
<1>7. CASE \E s \in Stages : TaskEnd(s)
  <2>1. PICK s \in Stages : TaskEnd(s)
    BY <1>7
  <2>2. /\ At("exec")' = At("exec") \ {s} /\ At("done")' = At("done") \cup {s}
        /\ At("queued")' = At("queued") /\ s \in At("exec") /\ s \notin At("done")
    BY <1>1, <2>1 DEF TaskEnd, At, TypeOK
  <2>3. e' = e - 1 /\ d' = d + 1
    <3>1. At("exec") \in SUBSET Stages /\ At("done") \in SUBSET Stages
      BY DEF At
    <3>2. /\ Cardinality(At("exec") \ {s}) = Cardinality(At("exec")) - 1
          /\ Cardinality(At("done") \cup {s}) = Cardinality(At("done")) + 1
      BY <2>2, <3>1, Moved
    <3> QED BY <2>2, <3>2
  <2>4. q' = q /\ f' = f /\ Waiting' = Waiting /\ Waiting \in {0, 1}
    BY <2>1, <2>2 DEF TaskEnd, loopVars, Waiting
  <2> HIDE DEF q, e, d, f
  <2> QED BY <1>2, <1>3, <2>3, <2>4
<1>8. ~(StartRun \/ Save \/ Timeout \/ Crash \/ Over)
  BY <1>1 DEF StartRun, Save, Timeout, Crash, Over
<1> QED BY <1>4, <1>5, <1>6, <1>7, <1>8 DEF Next

\* DAG._run_internal: every step of a run takes it further, so a run of any
\* graph is over after at most 8 * |Stages| + 1 steps.
THEOREM RunsAdvance == Spec => RunAdvances
<1>1. DagInvariant /\ [Next]_vars => [{phase, phase'} \subseteq {"loop", "wait"} => Rank' > Rank]_vars
  BY StepAdvances
<1> QED BY <1>1, DagAlways, PTL DEF Spec, RunAdvances

=============================================================================
