# Verification of the evolution engine

TLA+ models of the concurrent core of the repository: the steady-state
evolution engine and its snapshot (`gigaevo/evolution/engine`), the DAG runner
and the DAG loop (`gigaevo/runner`, `gigaevo/programs/dag`), the part of program
storage they share and the instance lock (`gigaevo/database`), the MAP-Elites
islands with their archives (`gigaevo/evolution/strategies`,
`gigaevo/evolution/storage`) and the migration bus between runs
(`gigaevo/evolution/bus`). Each module is translated from the Python source;
`PROJECT.json` maps every definition to the lines it stands for.

## 1. The system and its parts

One process runs one asyncio event loop. An *evolution engine* asks an LLM for
mutants of archived programs and stores them `QUEUED`; a *DAG runner* polls
storage, evaluates every `QUEUED` program by executing its stage graph and leaves
it `DONE` or `DISCARDED`; the engine then offers `DONE` children to the *islands*.
Engine and runner never call each other: they meet in Redis. Several runs may
exchange rejected programs over a Redis stream.

| part | state it keeps | operations | what makes it correct |
|---|---|---|---|
| `steady_state.py` run() | the two loop tasks, `_running`, terminal decision | supervise, drain, tear down, final sweep | the run ends; producers are gone before the ingestor is stopped; nothing is lost on any exit |
| `dispatcher.py` | active tasks, failure count, `_producer_sema` | check, acquire, spawn, reap, gather, cancel | never more mutants than the cap, exactly the cap without another stopper |
| `mutant_task.py`, `mutation.py` | one task's parents, ticket, child id | select, refresh, mutate, add, hand off, finally | a stored child reaches the ingestor even if the task is cancelled |
| `refresh.py` | one lock per parent, `_fresh` | lock in sorted order, flip DONE→QUEUED, wait, mark, roll back | no lock is stranded, no cycle of waiters, one re-evaluation per stale cycle |
| `ingestor.py` | `_in_flight`, outcome failure counts, `_buffer_sema` | poll, read twice, accept/reject, discard, release | every slot and ticket comes back once; counters count once |
| `core.py`, `snapshot.py` | counters, epoch, mirror of the engine snapshot | serialized clamped save, resume | no ordinal of an acknowledged child is issued again; Redis is never behind the mirror |
| `database/redis/locking.py` | one key with expiry | acquire, renew, release | two processes share a namespace only after a logged loss |
| `dag_runner.py` | `_active`, `_done_queue`, `_sema` | maintain (harvest, time out, flush), launch, mark, orphan sweep | a RUNNING program has an owner; every queued program is evaluated |
| `programs/dag`, `cache_handler.py` | result of each stage over several runs | skip, run, reuse, collect, end | every stage is resolved, for a reason of this run, from coherent results |
| `redis_program_storage.py`, `state_manager.py` | a blob per program, one set per status | add, blind and filtered transitions, merge, recovery | blob and sets agree; a program is in one set; DISCARDED is final |
| `island.py`, `archive_storage.py` | per island: hash, reverse index, cache | add, displace, stamp, size limit, remove | the three copies agree; size limit |
| `multi_island.py` | generation, last migration | route, select, migrate with roll-back | one copy of a program; no elite lost in a migration |
| `evolution/bus` | stream, claim keys, a cursor and a buffer per run | publish, poll, claim, drain, import, stop | a migrant is imported once and not lost silently |
| `program_storage.py` | population snapshot with epochs | full and incremental bump, fetch | not modelled |
| `stopper.py` | wall clock, plateau counters | stop decisions | only the cap and the freedom of the others |

**How they interact.** Producer tasks and ingestor share `_in_flight` and the
buffer semaphore; producers share the refresher's locks and `_fresh`, which the
ingestor invalidates; engine and runner share blobs (read by the engine) and
status sets (read by the runner); an eviction and a refresh of the same program
come from different coroutines of the engine and overlap with the runner;
producers that select parents carry out migrations, each for itself, while the
ingestor adds to the same islands; runs share the stream and the claim keys.

**What is hard.** Cancellation at any await, also in a shielded section; a
semaphore slot acquired by one coroutine and released by another; storage
writes that trust a state read several awaits earlier; batches of results
written by whichever task fills them; calls that were applied and not
acknowledged; process death between two Redis calls and what the next life
finds; stage results that outlive the run that computed them. The 39 hazards,
each at its line, are in `PROJECT.json`; 37 have properties, the others a note.

## 2. Modules

| module | models |
|---|---|
| `EngineState` | constants, variables, types and initial state of the engine; the DAG runner as the engine sees it |
| `ParentRefresher` | `refresh.py`: sorted locks, two-phase flip, freshness |
| `MutantTask` | `run_one_mutant` and `generate_one_mutation`: a producer, with a cancellation at each await |
| `Dispatcher` | `dispatcher.py`, the dispatch guard of `core.py`, the mutant cap of `stopper.py` |
| `Ingestor` | `poll_and_ingest`, `_ingest_batch`, release |
| `SteadyState` | composes the four with run(), its drain, teardown and sweep; the engine's properties |
| `MutantPipeline` | abstract specification: a bounded buffer a child enters and leaves once; `SteadyState` implements it |
| `ProgramStore` | blobs and status sets, and the effect of each write |
| `DagRunner` | the scheduler, its tasks, the engine's writes, crash and recovery, on `ProgramStore` |
| `ProgramLifecycle` | abstract specification: VALID_TRANSITIONS of `program_state.py`, and a restart that queues again what was RUNNING; `DagRunner` implements it |
| `DagAutomata` | one program's stage graph over several runs: `DAG._run_internal` and `DAGAutomata` |
| `InstanceLock` | the lock key, several processes, expiry, unacknowledged calls |
| `EngineSnapshot` | counters, `_write_snapshot` with its lock and mirror, ordinals of stored children |
| `RunLife` | composes the two: lives of an experiment that start, resume, stop or crash |
| `IslandArchive` | one `RedisArchiveStorage` as a record of hash, reverse index and cache |
| `MultiIsland` | islands under their locks, the ingestor's adds, migrations by several producers |
| `MigrationBus` | the stream, the claims, and for each run its poll loop, buffer and drain loop |
| `MCDagAutomata`, `MCRunLife`, `MCMultiIsland`, `MCMigrationBus` | instances: graphs, grids, topologies, symmetry |
| `SteadyStateProofs`, `ChildProofs`, `LockProofs` | theorems about the engine |
| `RunnerProofs` | theorems about `DagRunner` |
| `LifeProofs`, `DagProofs`, `IslandProofs`, `BusProofs` | theorems about `RunLife`, `DagAutomata`, `MultiIsland`, `MigrationBus` |

**Steps.** An action is the code between two awaits of one coroutine. The
effect of an awaited storage call is an action of its own, so everybody else
may run between the read and the write of one operation. A Redis pipeline is
one atomic effect; operations made of two calls (recovery: blob, then sets;
`batch_transition_by_ids`: read, then write; an eviction: read, then write;
renewal: get, then set; release: get, then delete) are two actions. The loop of
`DAG._run_internal` suspends only in `asyncio.wait`, so one pass of it is a step.

**State.** `pc[t]` is the await a producer task is in; `held[t]` the parent locks
it, or after the handoff the ticket of its child, owns. A task creates at most
one child, so the child of task `t` is program `t`. `settled` is a history
variable: children the ingestor has released. `i_pc` and `cand`, `todo`,
`handled`, `rejects`, `leaked` are the position and the locals of one poll;
`s` in `DagRunner` holds those of the scheduler's tick. `mem[p]` is the `state`
field of the `Program` object a DAG works on, which can differ from the blob.
In `DagAutomata` `res` is `program.stage_results` in memory and `saved` what
storage has of it. In `MultiIsland` `job[w]` holds position and locals of a
worker, and a `Program` object it carries is a copy of what was stored when it
was read. In `MigrationBus` a message is its position in the stream, and each
list of the code a set taken from the front.

**Faults.** The constant `Faults` names what may go wrong.

- Engine: `llm` (no usable mutant), `timeout` (refresh deadline), `dag`
  (evaluation ends DISCARDED), `evict`, `outcome` (the outcome sink raises),
  `discard` (the batch discard raises), `snapshot` (the snapshot write raises),
  `clock` (another stopper fires), `grace` and `drain` (the two ends of the
  terminal drain), `stop` (run() is cancelled, `stop()` is called).
- Runner: `fail` (a DAG raises), `timeout`, `build` (no DAG can be built), `read`
  (Redis raises), `mark` (the mark-RUNNING batch raises), `evict`; `MaxLost`
  bounds the writes that raise.
- DAG: `timeout` (dag_timeout), `crash`; stages may complete, fail, skip
  themselves or be cancelled without being named as faults.
- Lives: `net` (a call raises, applied or not), `renewal` (the renewal task
  fails), `crash`; `late` (the event loop stalls past the expiry, so that the
  key changes hands between two calls of a process that believes it has it) can
  be switched on in the model and is not in the run: no lock with expiry can
  exclude it, so `SharedOnlyAfterLoss` excepts it in its formula.
- Islands: `net` (applied and not acknowledged), `cancel` (an add is cancelled),
  `crash`, `reeval` (a refresh gives an elite another fitness).
- Bus: `net`, `ttl` (a claim expires), `crash`, `end` (a run ends in order).

### Abstractions

- LLM answers, prompts, metrics, hooks and outcome payloads are success or
  failure. Selection takes any non-empty set of at most `NumParents` elites,
  acceptance and eviction may choose any program; in `MultiIsland` fitness is a
  small number, a grid maps a program to a cell, and displacement and eviction
  follow them.
- Stoppers other than the mutant cap may decide at any consultation.
- Time appears only as the freedom to time out or to expire.
- Critical sections of `_in_flight_lock` contain no await and are atomic.
- The engine model starts after the seed population has been ingested.
- In `SteadyState` an eviction and an evaluation's final write are one step
  each; their splitting into read and write is in `DagRunner`.
- `DagRunner` reads the two status sets in one step, and the launch (mget, task
  creation, discard of unbuildable programs) is one step.
- `DagsOutlastMark` restricts runs to DAGs that do not end before the
  scheduler's own QUEUED→RUNNING write. Without it a DAG that fails in that
  window is overwritten by RUNNING. `runner_writes` leaves the restriction out
  and has no failing DAGs.
- A dying task (cancelled, never awaited) of a failed mark batch can write an
  old state into the blob. `runner` therefore does not state `BlobAgrees`, only
  that the status sets, which drive the scheduler, stay a partition. A failed
  mark batch together with a timeout, an eviction or another failing write can
  break even that; the runs do not combine them, and nothing is claimed about it.
- `dying` is a set of programs and object states, so two dying tasks of one
  program whose objects have the same state count as one.
- `ProbabilisticCache` is used by no pipeline and is left out; a stage is
  `NeverCached` or `InputHashCache`.
- Archive writes are one step: the WATCH of `add_elite` meets no concurrent
  writer under the island's lock in a single process. Dynamic rebinning,
  reindexing and `remove_program_by_id` are left out.
- `MultiIsland` claims nothing about programs a fault struck (`hit`) or two
  migrations carried at once (`contended`), except that the indexes agree.
  `OneIsland` and `MembersLive` also except programs that a migration carried
  under the name of an island they were not in (`strayed`, see Observations);
  `NothingLost` includes them.
- The approximate `MAXLEN` of the stream trims now or later.

## 3. What the runs check

Constants are small sets of integers (parents are locked in sorted order, so
the engine needs an order) or model values. `Tasks` bounds the engine: with
`|Tasks| >= MaxMutants * MaxEmpty` the dispatcher never runs out of ids, so the
bound cuts off no behaviour. Symmetry is used in `life` and `islands`, which have
safety properties only and interchangeable process lives, producers, migrators.

| run | instance | properties |
|---|---|---|
| `ticket` | 2 seeds, 2 tasks, 2 parents, ticket mode, timeouts, failing evaluations, stop; 2.9 million states | `LocksOwned`, `ParentsPinned`, `NoLockCycle` |
| `faults` | 1 seed, 2 tasks, all 11 faults; 2.8 million states | `SlotConservation`, `NoGhostChild`, `ProducersFirst`, `Accounting`, `ImplementsPipeline` |
| `liveness` | 1 seed, 3 tasks, cap 2, 4 faults, fair; 50 thousand states | `CapRespected`, `CapReached`, `FlipOnlyStale`, `RunCompletes`, `ChildSettles` |
| `runner` | 2 programs, 3 slots, 2 refreshes, 2 crashes; 53 thousand states | `RunningOwned`, `OneStatusSet` |
| `runner_faults` | 2 programs, 1 slot, prefetch 2, timeouts, 2 refreshes, 2 crashes, 2 lost writes, fair; 118 thousand states | `TypeOK`, `DiscardedIsFinal`, `Evaluated` |
| `runner_writes` | 3 programs, 4 slots, failing reads, 2 lost writes, an eviction, a crash; 163 thousand states | `BlobAgrees`, `ResultsAwaited`, `ImplementsLifecycle` |
| `dag_stages` | all forward graphs of 3 stages over 4 choices of arcs, 2 outputs, 2 runs, 2 at once; 516 thousand states | `AllResolved`, `Justified`, `Coherent`, `NeverSpins`, `RunAdvances` |
| `life` | 3 lives, 2 producers, 1 seed, 3 ordinals; 951 thousand states | `SharedOnlyAfterLoss`, `UniqueWhenClean`, `MirrorFollowsRedis`, `ConfirmedNeverReissued` |
| `islands` | 2 programs, 2 islands of one elite, 2 migrators, 2 generations, 1 program struck; 4.7 million states | `OneIsland`, `NothingLost`, `MembersLive`, `IndexesAgree`, `WithinSize` |
| `bus` | 3 runs, ring and bus, 2 messages, stream, buffer and import of 1, 2 faults, fair; 445 thousand states | `TypeOK`, `ImportedOnce`, `NothingVanishes`, `NoneSkipped`, `Delivered` |

Why the bounds are enough for the cases meant: two producers and two parents
are the smallest instance with a lock cycle; three tasks with a cap of two make
the reservation refuse one; two tasks with every fault put a cancellation, a
failing poll and a sweep around the same child; two crashes include one inside
a recovery; two programs on one slot give a task that runs and one prefetched.
Three stages allow two arcs into one stage, a chain, and an arc that
contradicts another; two runs are needed for a cached result, and the crash
between them for one that was never saved. Three lives have a second resume
after a crash. Two islands of one elite make every migration meet a full
island, and two migrators carry the same elite. Two messages overfill buffer
and stream, and two runs that accept both race for the claim; the run with two
lives reads again after a crash.

`NoLockCycle` speaks of circles of waiting tasks of any length, although two
tasks can only form the shortest. `TypeOK` is checked where it carries a capacity
(`runner_faults`: the slots, `bus`: the buffers) and proved for every component.

**Fairness.** Weak fairness for every coroutine: the event loop resumes a
coroutine whose await is over. Strong fairness for lock and semaphore
acquisition (`AcquireLock`, `Handoff`, `TaskStart`), which asyncio serves in
FIFO order. The DAG runner polls for ever, hence weak fairness for `DagStart`,
`DagFinish` and the scheduler; so do the poll and drain loops of the bus.
Crashes, stops, submissions, refreshes, evictions and publications are never
assumed to happen. The liveness run has no `stop`: see the first finding for why
the end of the run cannot be promised with it. That a DAG run ends needs no
fairness assumption beyond its tasks: `RunAdvances` bounds its steps and
`NeverSpins` says that it is never stuck.

### Disagreements with the source's own claims

Two runs are expected to be violated; each states what a comment or a test of
the repository says.

- `handoff_hang` / `HandoffCanDrain`: `stop()` clears `_running` and so ends the
  ingestor while a producer still waits in its shielded handoff for a slot of a
  full buffer. The comments in `mutant_task.py` and `steady_state.py` say the
  ingestor is alive then. Producer, dispatcher and run() wait for each other.
- `false_orphan` / `NoOrphans`: a task that fills the batch is still writing it
  when the scheduler harvests another member, which is then taken for an
  orphan, discarded, and later overwritten by DONE. `runner` has more slots
  than programs, so no task fills a batch there and `RunningOwned` is what
  holds otherwise; in `runner_faults` (one slot) a batch has one member.

### Observations

Met while modelling; the runs above are set up so that these cases are
exempted by name or do not occur, and no run asserts the contrary.

Runner and engine:
- A parent is put into `_fresh` when the poll sees it DONE, not when its
  evaluation ended; a child reported in between is missed (`refresh.py` 180, 333).
- A program that finishes while an earlier one is being cancelled for its
  timeout sits in the unflushed queue, looks RUNNING and is discarded
  (`dag_runner.py` 305). `runner_faults` lets one task expire per tick.
- An eviction trusts the state it read before a refresh flipped the program; the
  program is discarded, stays in the QUEUED set and is evaluated again
  (`island.py` 353). `runner_writes`, which has evictions, has no refreshes.
- The snapshot lock is FIFO and the counters only grow, so the clamp of
  `_write_snapshot` is redundant in one process. "Can never regress"
  (`core.py` 649) holds for acknowledged writes only: a write that was applied
  and raised leaves Redis ahead of the mirror by one version.
- A crash between storage.add and the snapshot re-issues the ordinals of
  children that were not acknowledged; `UniqueWhenClean` therefore needs
  graceful lives, `ConfirmedNeverReissued` does not.
- A lost lock is logged with "STOPPING." (`locking.py` 153), but nothing stops
  the process; `SharedOnlyAfterLoss` is what remains true.

DAG:
- `dag_timeout` cancels the loop and not its stage tasks, which run on;
  `docs/DAG_SYSTEM.md` 246 says they are CANCELLED.
- The cacheability check of `docs/DAG_SYSTEM.md` 744 and the default handler
  `AlwaysCached` of `cache_handler.py` 7 do not exist.

Islands:
- `RedisProgramStorage.update` merges metadata additively
  (`redis_program_storage.py` 192, `merge_strategies.py` 25), so the
  `current_island` that a migration stamps (`island.py` 178) is never stored,
  although `tests/evolution/test_island.py` 668 says it is updated. The copy of
  an elite that has migrated names the island it left; its next migration
  removes it there in vain and rolls back.
- Such an elite can be lost, although nothing fails. A refresh that improves it
  makes the island it is in accept it again (the cached entry has the old
  fitness); `add_elite` answers True because it is there (`archive_storage.py`
  223), the removal from the named island fails, and the roll-back
  (`multi_island.py` 404) takes it out of the only archive that has it.
  `tests/evolution/test_island.py` 658 says a migrated program "should be in
  exactly one island". The model has this behaviour with two islands; the
  properties exempt re-evaluated programs as struck (`hit`).
- With three islands it can go to a third one and be evicted there by the size
  limit. The removal fails, the roll-back has nothing to undo, and it stays
  DISCARDED in the archive it was in, against the "archive-member-is-DONE
  invariant" of `archive_storage.py` 222; its `current_island` is cleared, so the
  next migration makes a second copy, against "Ensures no duplicates across
  islands" (`docs/EVOLUTION_STRATEGIES.md` 741). The history variable `strayed`
  marks programs carried under a stale name. In `islands` a strayed elite only
  fails to be routed: of two islands the one candidate is the one it is in,
  which does not accept it again at the same fitness. What holds of strayed
  programs without a re-evaluation, for any number of islands, is `NothingLost`.
- Two migrations that carry the same elite may roll each other back and lose it.
- A crash between the add and the remove of a migration leaves two copies; the
  add or removal that was applied and raised is reported as failed.

Bus:
- A claimed message that is then dropped (full buffer, a later claim of the
  same response that raises, a stop in mid-poll, a crash) is lost to everybody
  while the claim lasts; a restarted run even meets its own claim. After
  `claim_ttl` a slow or restarted run may import it a second time.
- A claim that raises is skipped by the run whether or not it was applied.
- A migrant that the strategy rejects stays in storage as DONE.

## 4. What is proved

The theorems hold for every instance; the only assumptions are the named
`ASSUME`s on the constants, which TLC evaluates in every run, and for most of
the theorems about the DAG runner the hypotheses they state, explained there.

Engine (any finite sets of seeds and tasks, any positive number of slots and
parents, both refresh modes, any set of faults):
- `TypeCorrect` (`TypeOK`): inductive as it stands.
- `SlotsConserved` (`SlotConservation`). Not inductive alone: that a handoff adds
  one to `in_flight` needs that the child is not there yet, and that leaving
  run_one_mutant frees exactly one slot needs the task to be counted once. The
  strengthening is `HandedOver` (children in flight or settled are those whose
  task is past its registration) and `LiveActive` (the dispatcher knows every
  live task). The argument per action is whether a task stays live, leaves or
  is born, and the cardinality lemmas follow.
- `PipelineImplemented` (`ImplementsPipeline`): the refinement mapping takes
  `waiting` to the tasks between storage.add and the registration and `buffered`
  to `in_flight`. Persist maps to Produce, Handoff to Admit, Release to Settle,
  everything else to a stutter; that a produced child is new comes from
  `HandedOver`, that there is room in the buffer from `SlotConservation`.
- `ChildrenCounted` (`Accounting`): the strengthening is `PollWithin`, every local
  of a poll is a subset of `in_flight`; therefore a release settles at least
  what it counts as processed.
- `NoChildLost` (`NoGhostChild`): the strengthening is `KnownPrograms`, everything
  evaluated, archived, ingested or about to be flipped is in storage; therefore
  only storage.add makes a program present, and the task that did so is tracked
  from that step on.

- `ProducersStopFirst` (`ProducersFirst`), `CapHolds` (`CapRespected`) and
  `CapIsReached` (`CapReached`): the strengthening, `StopInvariant`, follows the
  end of production through dispatcher and run(): a dispatcher that is over has
  no task left; run() passes its joins only when it is over; nothing clears
  `_running` before it is ending; and without another stopper it ends only at the
  cap. `CapRespected` itself counts the tasks that may still hand a child over
  and is inductive with the slot invariant.
- `LocksAreOwned` (`LocksOwned`), from `LockInvariant`: what a task holds agrees
  with its place in the refresh (`LockPhase`), a settled child holds nothing, and
  while a task still takes locks each one it holds is smaller than each one it
  lacks (`Sorted`).
- `NoDeadlock` (`NoLockCycle`): if every task of a set waited for a lock held in
  the set, take the greatest lock that one holds and another wants. Its owner
  waits too, and by `Sorted` for a greater one. A lemma that finite sets of
  naturals have a greatest element comes first.
- `TicketsPin` (`ParentsPinned`): `Pinned` says by what, lock or ticket, parents
  are pinned from the end of the refresh to the release of the child. It needs
  that parents are in storage (`ParentsKnown`) and that nobody else flips a
  program whose lock is taken.
- `FlipsAreStale` (`FlipOnlyStale`): between the decision and the write of a flip
  the targets stay out of `_fresh` (`StaleTargets`), because their locks are held
  and only the holder of a lock marks its parent fresh.

Lives (any number of processes, producers, ordinals and seeds, any faults), all
from `LifeInvariant`:
- `TypeCorrect` (`TypeOK`).
- `LockIsExclusive` (`SharedOnlyAfterLoss`): the one process that is alive has the
  key, or its renewal is lost (`Alone`, `KeyHeld`); so a key that another process
  gets is one that a loss has set free.
- `SnapshotIsFollowed` (`MirrorFollowsRedis`), inductive with the types and the
  rule that a process not at work has no write under way (`Resting`).
- `NeverReissued` (`ConfirmedNeverReissued`): an acknowledged ordinal is below the
  snapshot, each mirror and each counter that ordinals are reserved from, and
  no producer works on it (`Behind`). It needs that the write a producer waits
  for covers its ordinal (`Covered`) and that producers of one process work on
  ordinals of their own (`Reserved`).
- `OrdinalsUnique` (`UniqueWhenClean`): as long as every life ends in order, the
  ordinals in storage are below the counter of the process at work and, when
  none is, below the snapshot the next one resumes from (`Unique`); the last
  write of run() hands the one bound over to the other.

DAG runner (any finite set of programs, any number of slots, refreshes, crashes
and lost writes):
- `RunnerTypes` (`TypeOK`) needs no hypothesis. Its substance is the two
  capacities: running, flushing, failing and dying tasks together hold at most
  `Slots`, and `_active` has at most `Slots * Prefetch` members. A task that is
  dropped by a failed mark batch moves from the one count to the other.
- `StatusSetsPartition` (`OneStatusSet`) under `Tame`; `StoresAgree` (`BlobAgrees`),
  `NoLateResults` (`ResultsAwaited`), `DiscardedStaysSo` (`DiscardedIsFinal`) and
  `LifecycleImplemented` (`ImplementsLifecycle`) under `Tame` and without `mark`;
  `RunningHasOwner` (`RunningOwned`) and `NoFalseOrphans` (`NoOrphans`) under `Tame`
  without lost writes and timeouts.

`Tame`, a formula on the constants of `DagRunner`, says under which circumstances
the status of a program can be relied on. The three passing runs of the runner
satisfy it, and no part of it can be dropped: on instances of two or three
programs without the part TLC finds `OneStatusSet` or `ImplementsLifecycle`
violated.

| `Tame` requires | because otherwise |
|---|---|
| one slot, or more slots than programs | a task that fills the batch writes DONE for programs of others, which the scheduler has meanwhile taken for orphans (`false_orphan`) |
| DAGs that outlast the mark, or more slots than programs and no failing DAG | a DAG flushes or fails before its program is marked RUNNING, and the mark overwrites what it wrote |
| at most one expired task per tick | a second program finishes while the first is being cancelled; its result is in the queue when it is discarded |
| no refreshes where there are evictions | the eviction writes from a state that the refresh has changed |
| where the mark batch may fail, no lost writes, timeouts or evictions | a dying task of that batch writes QUEUED into the blob from which one of these later takes the old state, and the program may be left in two sets |

Even alone, a failing mark batch (`mark`) makes a dying task write an old state
over the blob, so blobs and sets differ for a while and a program may leave
DISCARDED in its blob; what holds then is `OneStatusSet`, which the `runner` run
checks with it. With a lost write or a timeout a program does stay RUNNING
without an owner: the orphan sweep exists for that case, so `RunningOwned` and
`NoOrphans` exclude it and claim that nothing else creates orphans.

All of them rest on one inductive invariant, `RunnerInv`, which TLC checked first
on instances of each kind that `Tame` admits. Each property alone is far from
inductive, since every writer is blind and names the old state itself. The
invariant says, of each program, in which single status set it is (`At`) and
that everybody who still intends to write about it knows that set: a task
(`Tasked`), a queue or batch (`Batched`), the scheduler between its reads and
its writes (`ReadHolds`), a refresh or an eviction (`EngineHolds`); that the blob
agrees (`Filed`), and that RUNNING programs have an owner (`Owned`). The argument
per action is the same: a few lemmas on the storage writes (`TransitionEffect`,
`DiscardEffect`, `DoneEffect`, `ExclusiveEffect`) show that, if the writer knows
the set, a write leaves a program where it is or moves it with its blob; then
each part of the invariant has to be shown only for the programs that the
action moved or whose writer it advanced. `FlushesOwn` is where the slots come
in (a task only flushes its own program) and `OrphanRunning` where reads are
shown not to have become stale.

`LifecycleImplemented` maps `state` to `blob` and `up` to "no recovery is under
way". The moves of the writers are valid transitions because the stored state
is the one the writer started from, which is what `RunnerInv` says; the
blob write of a recovery is Requeue, and Restart finds no blob RUNNING because
the RUNNING set is empty. `DiscardedStaysSo` follows from it, since no transition
leads out of DISCARDED.

DAG execution (any finite set of stages, any acyclic graph, any outputs and
number of runs):
- `DagTypes`, `EveryStageResolved`, `DecisionsJustified`, `ResultsCoherent` from one
  inductive invariant, `DagInvariant`: stages are running, finished or
  untouched (`Apart`), each decision agrees with the results of its
  predecessors (`Decided`), and a stored hash is that of the inputs it had
  (`HashesCurrent`). `EveryStageResolved` takes, in a state where nothing is to
  be done, an unresolved stage that depends on no other unresolved one, which
  acyclicity provides: all its predecessors are final, so its gate is ready or
  contradicted, and the pass would have launched or skipped it.
- `RunsAdvance` (`RunAdvances`): each step moves stages forward in a weighted
  count that is bounded by the number of stages.

Islands (any programs, islands, grids with finitely many cells, limits and
migrators):
- `IslandTypes` and `ArchiveIndexesAgree` (`IndexesAgree`), from `IslandInvariant`,
  which adds the shape of each worker's job (what it carries at which step).
  Each archive operation preserves "the reverse index is the inverse of the
  hash, and the cache agrees except about struck programs" as a lemma on one
  archive, and every action applies one operation to one island.
- `ArchivesWithinSize` (`WithinSize`), from `Sized`: an unlocked island is within
  its limit; one whose lock is held is so without the newcomer until the
  victims have left, and with it afterwards.
- `NoDuplicates` (`OneIsland`), `ArchivesHoldNoDiscarded` (`MembersLive`) and
  `MigrationsLoseNothing` (`NothingLost`). The invariant has three parts.
  `Orderly`: one lock holder per island, a job that fits its stage, copies and
  cached entries with the stored fitness, a new program in the ingestor's hands
  only, and two migrations that meet are noted. `Placed`: where a program can be
  while it waits in a batch, is carried or arrives. `Anchored`: an accepted
  program is held somewhere, and while it is carried somewhere other than at
  the destination. The two facts behind them: an island never takes a migrant it
  holds already, because that has the same cell and the same fitness and does
  not improve on itself; so a roll-back undoes exactly the add it follows.

Bus (any runs, messages, limits, topology, crashes and restarts):
- `ClaimsExclude` (`ImportedOnce`), from `BusInvariant`: a message whose claim has
  not expired is in at most one list of at most one run, in none once it is
  imported, and nowhere while its key does not exist; a run that reads it again
  therefore finds the key.
- `BusTypeCorrect` (`TypeOK`, with the bounds of the buffers), `ClaimsSeenThrough`
  (`NothingVanishes`) and `CursorsSkipNone` (`NoneSkipped`), from `PathInvariant`,
  which adds that no cursor is ahead of the stream and a run holds only what is
  addressed to it (`Within`), that an existing key was set by a claim (`Noted`),
  and that a cursor has left no gap: it stands at the first message still to be
  claimed, and everything before it was claimed, trimmed or recorded as dropped
  (`InTurn`).

The assumptions on the constants say that sets are finite where something is
counted, that bounds are positive, and that a value such as `None` is none of the
things it is told apart from.

Only model-checked:
- `RunCompletes`, `ChildSettles`, `Evaluated`, `Delivered`: liveness under fairness,
  beyond the prover.
- `NeverSpins`: its formula has `ENABLED`, beyond the prover.

Every other property of a passing run is stated by a theorem.

## 5. Not modelled

Not modelled and not planned: LLM agents, prompts and parsing, stage bodies and
executors (subprocess I/O, numerics), ranking and random selection, metrics,
monitoring, command line and experiment files, memory retrieval, disk storage
(the same interface in one process), and the benchmark problems under
`problems/`, most of the repository's lines, which are evaluation functions and
data. The models let each of these succeed, fail or choose.

Still open in the modelled parts: the population snapshot with its epochs (a
fetch that began before a bump is stored under the epoch after it, and a parent
that is re-evaluated between two fetches keeps its old metrics there; it feeds
statistics only), the runner's `stop()`, the stoppers' own counters, dynamic
rebinning and reindexing, the selection leases and the endpoint pool.
