------------------------------ MODULE RunLife ------------------------------
(***************************************************************************)
(* An experiment over several process lives (run.py): take the instance    *)
(* lock, start fresh or resume from the snapshot, evolve, and end in a     *)
(* graceful shutdown or a crash. Storage survives, a process does not.     *)
(***************************************************************************)
EXTENDS EngineSnapshot

VARIABLES
    clean,  \* no life crashed or failed to write its first or last snapshot
    shared  \* two processes have used the storage at the same time

history == <<clean, shared>>
vars    == <<lockVars, pc, snapVars, history>>

ASSUME LifeAssumption ==
    /\ None \notin Instances
    /\ Producers \cap {"ingestor", "run"} = {}
    /\ Seeds \in Nat \ {0} /\ MaxOrdinal \in Nat /\ Seeds <= MaxOrdinal
    /\ Faults \subseteq {"net", "renewal", "late", "crash"}

Init == LockInit /\ SnapInit /\ clean = TRUE /\ shared = FALSE

HasData == \E o \in Ordinals : copies[o] > 0

\* Start fresh: the loader stores the seeds and the engine continues after
\* them. run() first writes every counter.
StartFresh(i) ==
    /\ pc[i] = "resuming" /\ ~HasData
    /\ copies' = [o \in Ordinals |-> IF o < Seeds THEN 1 ELSE 0]
    /\ metrics' = [metrics EXCEPT ![i].next_iteration = Seeds]
    /\ pc' = [pc EXCEPT ![i] = "starting"]
    /\ Call(i, "run", Fields, metrics'[i])
    /\ UNCHANGED <<lockVars, snap, mirror, producer, confirmed, history>>

\* restore_state: mirror and counters from the snapshot (defaults when there
\* is none).
Resume(i) ==
    /\ pc[i] = "resuming" /\ HasData
    /\ mirror' = [mirror EXCEPT ![i] = snap]
    /\ metrics' = [metrics EXCEPT ![i] = [f \in Fields |-> snap[f]]]
    /\ pc' = [pc EXCEPT ![i] = "starting"]
    /\ Call(i, "run", Fields, metrics'[i])
    /\ UNCHANGED <<lockVars, snap, producer, copies, confirmed, history>>

\* The engine stops: no new reservations.
Stop(i) ==
    /\ pc[i] = "up"
    /\ pc' = [pc EXCEPT ![i] = "draining"]
    /\ UNCHANGED <<lockVars, snapVars, history>>

\* The producers have ended: the last write covers every ordinal handed out.
FinalWrite(i) ==
    /\ pc[i] = "draining" /\ waiting[i] = <<>>
    /\ \A t \in Producers : producer[i][t] = Idle
    /\ pc' = [pc EXCEPT ![i] = "final"]
    /\ Call(i, "run", Fields, metrics[i])
    /\ UNCHANGED <<lockVars, snap, mirror, metrics, producer, copies, confirmed, history>>

Crash(i) ==
    /\ "crash" \in Faults /\ pc[i] \in Live
    /\ pc' = [pc EXCEPT ![i] = "down"]
    /\ renewal' = [renewal EXCEPT ![i] = "none"]
    /\ Forget(i)
    /\ clean' = FALSE
    /\ UNCHANGED <<key, shared>>

Start(i) ==
    /\ Acquire(i)
    /\ shared' = (shared \/ \E j \in Instances : pc[j] \in Live)
    /\ UNCHANGED <<snapVars, clean>>

LockStep(i) ==
    /\ \/ AcquireUnacked(i) \/ RenewRead(i) \/ RenewWrite(i) \/ RenewFails(i)
       \/ ReleaseRead(i)
    /\ UNCHANGED <<snapVars, history>>

Exit(i) ==
    /\ ReleaseDelete(i) \/ ReleaseNothing(i)
    /\ Forget(i)
    /\ UNCHANGED history

EngineStep(i) ==
    /\ \/ \E t \in Producers : Reserve(i, t) \/ NoChild(i, t) \/ StoreChild(i, t) \/ Handover(i, t)
       \/ Ingest(i) \/ Save(i)
    /\ UNCHANGED <<lockVars, history>>

SnapshotFails(i) ==
    /\ SaveFails(i)
    /\ clean' = (clean /\ pc[i] \notin {"starting", "final"})
    /\ UNCHANGED <<lockVars, shared>>

Expiry == Expire /\ UNCHANGED <<snapVars, history>>

\* Every life of this behaviour is over.
Over == (\A i \in Instances : pc[i] = "down") /\ key = None /\ UNCHANGED vars

Next ==
    \/ \E i \in Instances :
         \/ Start(i) \/ LockStep(i) \/ Exit(i) \/ StartFresh(i) \/ Resume(i) \/ EngineStep(i)
         \/ SnapshotFails(i) \/ Stop(i) \/ FinalWrite(i) \/ Crash(i)
    \/ Expiry \/ Over

Spec == Init /\ [][Next]_vars

----------------------------------------------------------------------------
\* Type invariant.
TypeOK == LockTypeOK /\ SnapTypeOK /\ history \in BOOLEAN \X BOOLEAN

\* RedisInstanceLock (locking.py 110-157): a second process begins to use the
\* storage next to another only if the renewal of that one has failed, which
\* its log says: the key changes hands by release, by crash, or not at all.
\* (An event loop that stands still past the expiry is the exception.)
SharedOnlyAfterLoss ==
    [][~shared /\ shared' /\ "late" \notin Faults =>
          \E i \in Instances : pc[i] \in Live /\ renewal[i] = "lost"]_vars

\* The docstring of _write_snapshot (core.py 635-638): "Redis never sees a
\* version skip", and no counter of "the mirror" of the one running process is
\* ahead of Redis, also when writes fail after they were applied.
MirrorFollowsRedis ==
    ~shared => \A i \in Instances :
        pc[i] \in Live \ {"resuming"} =>
            /\ \A f \in Fields \cup {"version"} : mirror[i][f] <= snap[f]
            /\ snap.version <= mirror[i].version + 1

\* mutant_task.py 225-231, core.py 652-658: the ordinal of a child whose handoff
\* was acknowledged is never given to another program, whatever crashes and
\* resumes follow.
ConfirmedNeverReissued ==
    [][~shared => \A o \in confirmed : copies'[o] = copies[o]]_vars

\* steady_state.py 181-193: "preserving x-axis uniqueness across resumes". As
\* long as every life ended gracefully, all stored programs have ordinals of
\* their own.
UniqueWhenClean == clean /\ ~shared => \A o \in Ordinals : copies[o] <= 1

=============================================================================
