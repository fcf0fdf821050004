---------------------------- MODULE MultiIsland ----------------------------
(***************************************************************************)
(* MapElitesMultiIsland and its islands: the ingestor adds programs, and   *)
(* every producer that selects parents may find a migration due and carry  *)
(* it out. Each call on an island runs under the island's lock; a          *)
(* migration is an add to one island and a removal from another, each      *)
(* under its own lock, with anything in between.                           *)
(***************************************************************************)
EXTENDS IslandArchive

CONSTANTS
    Migrators,       \* producers that may be in select_elites at once
    MaxMigrants,     \* max_migrants_per_island
    Interval,        \* migration_interval
    MaxGeneration,   \* the generation counter stops here (bounds the model)
    Absent,          \* metadata without a current_island key
    Measured,        \* the first evaluation of each program
    Faults,
    MaxHit           \* programs that may be struck (bounds the model)

\* A Program object as it was read: id, fitness and current_island.
Copies == [id : Programs, fit : Fits, src : Islands \cup {None, Absent}]

ASSUME MultiIslandAssumption ==
    /\ MaxMigrants \in Nat \ {0} /\ Interval \in Nat \ {0}
    /\ MaxGeneration \in Nat
    /\ Measured \in [Programs -> Fits]
    /\ Faults \subseteq {"crash", "cancel", "net", "reeval"}
    /\ MaxHit \in Nat
    /\ "ingestor" \notin Migrators
    /\ None \notin Islands \cup Copies /\ Absent \notin Islands \cup {None}

Workers == Migrators \cup {"ingestor"}

VARIABLES
    arch,        \* the archive of each island
    state,       \* "new" until the ingestor accepts or discards it
    fit,         \* the stored metrics
    current,     \* the stored metadata current_island
    job,         \* what each worker is doing
    generation, last,   \* of the strategy, both also in the run state
    displaced,   \* history: replaced in a cell by another program
    contended,   \* history: carried by two migrations at once
    strayed,     \* history: carried under the name of an island it was not in
    hit          \* history: struck by a fault, or re-evaluated

vars == <<arch, state, fit, current, job, generation, last, displaced,
          contended, strayed, hit>>

Copy(p) == [id |-> p, fit |-> fit[p], src |-> current[p]]

Idle == [at |-> "idle", who |-> None, dst |-> None, left |-> {},
         batch |-> {}, victims |-> {}]
Jobs == [at : {"idle", "add", "stamp", "evict", "discard", "collect", "next",
               "remove", "rollback", "enforce"},
         who : Copies \cup {None}, dst : Islands \cup {None},
         left : SUBSET Islands, batch : SUBSET (Islands \X Copies),
         victims : SUBSET Copies]

TypeOK ==
    /\ arch \in [Islands -> Archives]
    /\ state \in [Programs -> {"new", "DONE", "DISCARDED"}]
    /\ fit \in [Programs -> Fits]
    /\ current \in [Programs -> Islands \cup {None, Absent}]
    /\ job \in [Workers -> Jobs]
    /\ last \in 0 .. MaxGeneration /\ generation \in last .. MaxGeneration
    /\ displaced \cup contended \cup strayed \cup hit \subseteq Programs

Init ==
    /\ arch = [i \in Islands |-> Empty]
    /\ state = [p \in Programs |-> "new"]
    /\ fit = Measured
    /\ current = [p \in Programs |-> Absent]
    /\ job = [w \in Workers |-> Idle]
    /\ generation = 0 /\ last = 0
    /\ displaced = {} /\ contended = {} /\ strayed = {} /\ hit = {}

\* _archive_state_lock: an add holds it from the archive write to the end of
\* the size enforcement, every other call is one step.
Locked(i) == \E w \in Workers :
    job[w].at \in {"stamp", "evict", "discard"} /\ job[w].dst = i

\* The programs whose archive or storage entries a job is about to change.
Touched(w) == {v.id : v \in job[w].victims}
              \cup (IF job[w].at \in {"idle", "collect", "next", "enforce"} \/ job[w].who = None
                    THEN {} ELSE {job[w].who.id})

Struck(fault) == fault \in Faults /\ Cardinality(hit) < MaxHit

Become(w, j) == job' = [job EXCEPT ![w] = j]
Hold(w, at)  == Become(w, [job[w] EXCEPT !.at = at])
NextMigrant(j) == [Idle EXCEPT !.at = "next", !.batch = j.batch]

---------------------------------------------------------------------------
(* MapElitesIsland.add, for the ingestor and for a migrant *)

\* RandomMutantRouter: any candidate that can_accept says would take it.
Routes(x, candidates) ==
    {i \in candidates : Improves(arch[i], CellOf[i][x.id], x.fit)}

\* The ingestor offers an evaluated program; without an accepting island, or
\* if the add fails, it is rejected and discarded (engine/ingestor.py).
Reject(p) == state' = [state EXCEPT ![p] = "DISCARDED"]

Offer(p) ==
    /\ job["ingestor"].at = "idle" /\ state[p] = "new"
    /\ \E i \in Routes(Copy(p), Islands) :
          Become("ingestor", [Idle EXCEPT !.at = "add", !.who = Copy(p), !.dst = i])
    /\ UNCHANGED <<arch, state, fit, current, generation, last, displaced, contended, strayed, hit>>

NoIsland(p) ==
    /\ job["ingestor"].at = "idle" /\ state[p] = "new"
    /\ Routes(Copy(p), Islands) = {}
    /\ Reject(p)
    /\ UNCHANGED <<arch, fit, current, job, generation, last, displaced, contended, strayed, hit>>

Adding(w) == job[w].at = "add" /\ ~Locked(job[w].dst)

\* add_elite: an elite of this archive, in whatever cell, stays put.
AlreadyElite(a, p) == p \in Elites(a)

AddAgain(w) ==
    /\ Adding(w) /\ AlreadyElite(arch[job[w].dst], job[w].who.id)
    /\ Hold(w, "stamp")
    /\ UNCHANGED <<arch, state, fit, current, generation, last, displaced, contended, strayed, hit>>

AddElite(w) ==
    LET i == job[w].dst  x == job[w].who  c == CellOf[i][x.id] IN
    /\ Adding(w) /\ ~AlreadyElite(arch[i], x.id) /\ Improves(arch[i], c, x.fit)
    /\ arch' = [arch EXCEPT ![i] = Put(@, c, x.id, x.fit)]
    /\ displaced' = displaced \cup ({arch[i].hash[c]} \ {None, x.id})
    /\ Hold(w, "stamp")
    /\ UNCHANGED <<state, fit, current, generation, last, contended, strayed, hit>>

\* add returned False: the ingestor discards, a migration takes the next.
NotAdded(w) ==
    IF w = "ingestor"
    THEN Become(w, Idle) /\ Reject(job[w].who.id)
    ELSE Become(w, NextMigrant(job[w])) /\ UNCHANGED state

AddRejected(w) ==
    LET i == job[w].dst  x == job[w].who IN
    /\ Adding(w) /\ ~AlreadyElite(arch[i], x.id)
    /\ ~Improves(arch[i], CellOf[i][x.id], x.fit)
    /\ NotAdded(w)
    /\ UNCHANGED <<arch, fit, current, generation, last, displaced, contended, strayed, hit>>

\* The transaction is applied and its answer lost: the retry finds the program
\* in its own cell, not better than itself, and answers False.
AddUnacked(w) ==
    LET i == job[w].dst  x == job[w].who  c == CellOf[i][x.id] IN
    /\ Struck("net")
    /\ Adding(w) /\ ~AlreadyElite(arch[i], x.id) /\ Improves(arch[i], c, x.fit)
    /\ arch' = [arch EXCEPT ![i] = Put(@, c, x.id, fit[x.id])]
    /\ displaced' = displaced \cup ({arch[i].hash[c]} \ {None, x.id})
    /\ hit' = hit \cup {x.id}
    /\ NotAdded(w)
    /\ UNCHANGED <<fit, current, generation, last, contended, strayed>>

\* Mutated form: the size is compared too late by one.
OverLimitLate(a) == Cardinality(Elites(a)) > MaxSize + 1

OverLimit(a) == Cardinality(Elites(a)) > MaxSize

\* update_program merges: RedisProgramStorage.update keeps a key that exists,
\* because the copy's atomic_counter is never ahead of the stored one.
Merged(p, i) == [current EXCEPT ![p] = IF @ = Absent THEN i ELSE @]

\* Mutated form: a migrant is not taken from its source.
FinishCopies(w) ==
    Become(w, IF w = "ingestor" THEN Idle
              ELSE IF job[w].who = None THEN [Idle EXCEPT !.at = "enforce"]
              ELSE NextMigrant(job[w]))

\* add returned True, or an enforcement ended: the ingestor is done, a migrant
\* must now leave the island its copy names, if it names one.
Finish(w) ==
    LET x == job[w].who IN
    Become(w, IF w = "ingestor" THEN Idle
              ELSE IF x = None THEN [Idle EXCEPT !.at = "enforce"]
              ELSE IF x.src \in Islands THEN [job[w] EXCEPT !.at = "remove", !.victims = {}]
              ELSE NextMigrant(job[w]))

\* A program the ingestor has added counts as accepted.
Accepted(w, p) == w = "ingestor" /\ p = job[w].who.id /\ state[p] = "new"

Stamp(w) ==
    /\ job[w].at = "stamp"
    /\ current' = Merged(job[w].who.id, job[w].dst)
    /\ IF OverLimit(arch[job[w].dst])
       THEN Hold(w, "evict") /\ UNCHANGED state
       ELSE /\ Finish(w)
            /\ state' = [p \in Programs |-> IF Accepted(w, p) THEN "DONE" ELSE state[p]]
    /\ UNCHANGED <<arch, fit, generation, last, displaced, contended, strayed, hit>>

\* _enforce_size_limit_locked: any remover's choice, read from storage, leaves
\* the archive ...
Evict(w) ==
    LET a == arch[job[w].dst] IN
    /\ job[w].at = "evict"
    /\ \E V \in SUBSET Elites(a) :
          /\ Cardinality(V) = Cardinality(Elites(a)) - MaxSize
          /\ arch' = [arch EXCEPT ![job[w].dst] = Remove(a, V)]
          /\ Become(w, [job[w] EXCEPT !.at = "discard",
                                      !.victims = {Copy(p) : p \in V}])
    /\ UNCHANGED <<state, fit, current, generation, last, displaced, contended, strayed, hit>>

\* ... and is then discarded, with the metadata of the copy, cleared.
Discard(w) ==
    LET V == job[w].victims IN
    /\ job[w].at = "discard"
    /\ state' = [p \in Programs |-> IF \E v \in V : v.id = p
                                    THEN "DISCARDED"
                                    ELSE IF Accepted(w, p) THEN "DONE" ELSE state[p]]
    /\ current' = [p \in Programs |-> IF \E v \in V : v.id = p /\ v.src \in Islands
                                      THEN None ELSE current[p]]
    /\ Finish(w)
    /\ UNCHANGED <<arch, fit, generation, last, displaced, contended, strayed, hit>>

---------------------------------------------------------------------------
(* select_elites and _perform_migration *)

\* select_elites: the interval is checked before the migration's first await.
Due == generation - last >= Interval

\* Parents are sampled; a non-empty selection is a generation.
Sampled == IF generation < MaxGeneration /\ \E i \in Islands : Elites(arch[i]) # {}
           THEN generation + 1 ELSE generation

Select(m) ==
    /\ job[m].at = "idle" /\ ~Due
    /\ generation' = Sampled
    /\ UNCHANGED <<arch, state, fit, current, job, last, displaced, contended, strayed, hit>>

StartMigration(m) ==
    /\ job[m].at = "idle" /\ Due
    /\ Become(m, [Idle EXCEPT !.at = "collect", !.left = Islands])
    /\ UNCHANGED <<arch, state, fit, current, generation, last, displaced, contended, strayed, hit>>

\* select_migrants of one island, under its lock: any choice of the selector.
Collect(m, i) ==
    /\ job[m].at = "collect" /\ i \in job[m].left /\ ~Locked(i)
    /\ \E P \in SUBSET Elites(arch[i]) :
          /\ Cardinality(P) = IF Cardinality(Elites(arch[i])) < MaxMigrants
                              THEN Cardinality(Elites(arch[i])) ELSE MaxMigrants
          /\ Become(m, [job[m] EXCEPT
                !.left = @ \ {i},
                !.batch = @ \cup {<<i, Copy(p)>> : p \in P},
                !.at = IF job[m].left = {i} THEN "next" ELSE "collect"])
          /\ contended' = contended \cup {p \in P : \E n \in Migrators \ {m} :
                p \in Touched(n) \/ \E b \in job[n].batch : b[2].id = p}
    /\ UNCHANGED <<arch, state, fit, current, generation, last, displaced, strayed, hit>>

\* The next migrant is routed to an island other than the one it names.
Migrate(m) ==
    /\ job[m].at = "next"
    /\ \E b \in job[m].batch : \E i \in Routes(b[2], Islands \ {b[2].src}) :
          /\ Become(m, [job[m] EXCEPT !.at = "add", !.who = b[2], !.dst = i,
                                      !.batch = @ \ {b}])
          /\ strayed' = strayed \cup (IF b[1] = b[2].src THEN {} ELSE {b[2].id})
    /\ UNCHANGED <<arch, state, fit, current, generation, last, displaced, contended, hit>>

NotRouted(m) ==
    /\ job[m].at = "next"
    /\ \E b \in job[m].batch :
          /\ Routes(b[2], Islands \ {b[2].src}) = {}
          /\ Become(m, [job[m] EXCEPT !.batch = @ \ {b}])
    /\ UNCHANGED <<arch, state, fit, current, generation, last, displaced, contended, strayed, hit>>

\* Mutated form: a migrant that could not be removed stays where it was added.
AfterRemoveNoRollback(j, removed) == NextMigrant(j)

\* Mutated form: the answer is read the wrong way round.
AfterRemoveSwapped(j, removed) ==
    IF removed THEN [j EXCEPT !.at = "rollback"] ELSE NextMigrant(j)

\* What _perform_migration does with remove_elite_by_id's answer.
AfterRemove(j, removed) ==
    IF removed THEN NextMigrant(j) ELSE [j EXCEPT !.at = "rollback"]

RemoveFromSource(m) ==
    LET i == job[m].who.src  p == job[m].who.id IN
    /\ job[m].at = "remove" /\ ~Locked(i)
    /\ arch' = [arch EXCEPT ![i] = Remove(@, {p})]
    /\ Become(m, AfterRemove(job[m], arch[i].rev[p] # None))
    /\ UNCHANGED <<state, fit, current, generation, last, displaced, contended, strayed, hit>>

\* The removal is applied and its answer lost: the retry finds no reverse entry
\* and answers False; the cache keeps the program.
RemoveUnacked(m) ==
    LET i == job[m].who.src  p == job[m].who.id IN
    /\ Struck("net")
    /\ job[m].at = "remove" /\ ~Locked(i) /\ arch[i].rev[p] # None
    /\ arch' = [arch EXCEPT ![i] = Unlisted(@, {p})]
    /\ hit' = hit \cup {p}
    /\ Become(m, AfterRemove(job[m], FALSE))
    /\ UNCHANGED <<state, fit, current, generation, last, displaced, contended, strayed>>

Rollback(m) ==
    LET i == job[m].dst IN
    /\ job[m].at = "rollback" /\ ~Locked(i)
    /\ arch' = [arch EXCEPT ![i] = Remove(@, {job[m].who.id})]
    /\ Become(m, NextMigrant(job[m]))
    /\ UNCHANGED <<state, fit, current, generation, last, displaced, contended, strayed, hit>>

\* _enforce_all_island_size_limits: what an interrupted add left over.
Migrated(m) ==
    /\ job[m].at = "next" /\ job[m].batch = {}
    /\ Become(m, [Idle EXCEPT !.at = "enforce"])
    /\ UNCHANGED <<arch, state, fit, current, generation, last, displaced, contended, strayed, hit>>

Enforce(m, i) ==
    /\ job[m].at = "enforce" /\ OverLimit(arch[i]) /\ ~Locked(i)
    /\ Become(m, [job[m] EXCEPT !.at = "evict", !.dst = i])
    /\ UNCHANGED <<arch, state, fit, current, generation, last, displaced, contended, strayed, hit>>

\* The generation written to last_migration.
MigratedAt == generation

\* The migration is over, and the selection goes on.
Enforced(m) ==
    /\ job[m].at = "enforce"
    /\ \A i \in Islands : OverLimit(arch[i]) => Locked(i)
    /\ last' = MigratedAt
    /\ generation' = Sampled
    /\ Become(m, Idle)
    /\ UNCHANGED <<arch, state, fit, current, displaced, contended, strayed, hit>>

---------------------------------------------------------------------------
(* The world around *)

\* A refreshed parent is evaluated again and its stored metrics change; the
\* object in the cache does not.
Reevaluate(p) ==
    /\ Struck("reeval") /\ p \notin hit
    /\ \E i \in Islands : p \in Stored(arch[i])
    /\ \E f \in Fits \ {fit[p]} : fit' = [fit EXCEPT ![p] = f]
    /\ hit' = hit \cup {p}
    /\ UNCHANGED <<arch, state, current, job, generation, last, displaced, contended, strayed>>

\* A poll of the ingestor is cancelled inside add; the final sweep offers the
\* program again.
CancelAdd ==
    /\ Struck("cancel")
    /\ job["ingestor"].at \in {"add", "stamp", "evict", "discard"}
    /\ hit' = hit \cup Touched("ingestor")
    /\ Become("ingestor", Idle)
    /\ UNCHANGED <<arch, state, fit, current, generation, last, displaced, contended, strayed>>

\* The process dies; a new one reads its counters and, lazily, its caches.
Crash ==
    /\ Struck("crash")
    /\ hit' = hit \cup UNION {Touched(w) : w \in Workers}
    /\ arch' = [i \in Islands |-> Reloaded(arch[i], fit)]
    /\ job' = [w \in Workers |-> Idle]
    /\ UNCHANGED <<state, fit, current, generation, last, displaced, contended, strayed>>

AddStep(w) == \/ AddAgain(w) \/ AddElite(w) \/ AddRejected(w) \/ AddUnacked(w)
              \/ Stamp(w) \/ Evict(w) \/ Discard(w)

MigrationStep(m) ==
    \/ Select(m) \/ StartMigration(m) \/ Migrate(m) \/ NotRouted(m)
    \/ RemoveFromSource(m) \/ RemoveUnacked(m) \/ Rollback(m)
    \/ Migrated(m) \/ Enforced(m)
    \/ \E i \in Islands : Collect(m, i) \/ Enforce(m, i)

Next ==
    \/ \E p \in Programs : Offer(p) \/ NoIsland(p) \/ Reevaluate(p)
    \/ \E w \in Workers : AddStep(w)
    \/ \E m \in Migrators : MigrationStep(m)
    \/ CancelAdd
    \/ Crash

Spec == Init /\ [][Next]_vars

---------------------------------------------------------------------------
(* Properties *)

Homes(p)  == {i \in Islands : p \in Stored(arch[i])}
AtRest(p) == \A w \in Workers : p \notin Touched(w)

\* Programs that no fault struck and that no two migrations carried at once: the
\* second of those finds nothing to remove at the source and rolls the first
\* one back, or adds a copy whose current_island has been cleared.
Undisturbed == {p \in Programs \ (contended \cup hit) : AtRest(p)}

\* The stored current_island is never overwritten, so the copy of an elite that
\* has migrated names the island it came from: its next migration removes it
\* from there, in vain, and may meanwhile have it evicted where it arrived.
Settled == Undisturbed \ strayed

\* No program stays in two archives; between the add to one island and the
\* removal from the other somebody is still working on it (docs: "Ensures no
\* duplicates across islands").
OneIsland == \A p \in Settled : Cardinality(Homes(p)) <= 1

\* A migration, with its roll-back, never drops an elite: an accepted program is
\* in an archive, or was evicted (DISCARDED), or displaced by another.
NothingLost ==
    \A p \in Undisturbed \ displaced : state[p] = "DONE" => Homes(p) # {}

\* An archive never keeps a discarded program: the "archive-member-is-DONE
\* invariant" of add_elite, across evictions of a migrant under way.
MembersLive == \A p \in Settled : Homes(p) # {} => state[p] # "DISCARDED"

\* RedisArchiveStorage: cache, hash and reverse index tell the same story, except
\* about a program whose removal was not acknowledged; and the reverse index is
\* always the inverse of the hash, also after crashes.
IndexesAgree ==
    \A i \in Islands :
        /\ \A p \in Programs, c \in Cells :
              arch[i].rev[p] = c <=> arch[i].hash[c] = p
        /\ \A c \in Cells :
              LET e == arch[i].cache[c] IN
              \/ IF e = None THEN arch[i].hash[c] = None ELSE arch[i].hash[c] = e.id
              \/ e # None /\ e.id \in hit

\* When nobody holds an island's lock its archive is within max_size, unless a
\* fault cut an enforcement short.
WithinSize ==
    \A i \in Islands :
        ~Locked(i) /\ Elites(arch[i]) \cap hit = {}
            => Cardinality(Elites(arch[i])) <= MaxSize

=============================================================================
