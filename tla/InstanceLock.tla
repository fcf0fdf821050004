---------------------------- MODULE InstanceLock ----------------------------
(***************************************************************************)
(* RedisInstanceLock (database/redis/locking.py): the key that is to keep  *)
(* two processes off the same Redis prefix. It is taken with SET NX EX,    *)
(* renewed by a background task with a GET and an unconditional SET EX,    *)
(* and given up with a GET and a DEL. A process draws a fresh instance id, *)
(* so every element of Instances is one process life.                      *)
(***************************************************************************)
EXTENDS Naturals, FiniteSets

CONSTANTS
    Instances,
    None,
    Faults  \* what may go wrong in this instance of the model

VARIABLES
    key,      \* the owner named by the lock key, or None
    renewal,  \* the renewal task: none, asleep, between GET and SET, or lost
    pc        \* where each process is in run_experiment

lockVars == <<key, renewal>>

\* The process may use the storage from the acquired lock to the last release
\* step.
Live == {"resuming", "starting", "up", "draining", "final", "closing", "releasing"}

LockTypeOK ==
    /\ key \in Instances \cup {None}
    /\ renewal \in [Instances -> {"none", "sleep", "got", "lost"}]
    /\ pc \in [Instances -> Live \cup {"new", "down"}]

LockInit ==
    /\ key = None
    /\ renewal = [i \in Instances |-> "none"]
    /\ pc = [i \in Instances |-> "new"]

\* Mutated form: SET without NX.
AcquireAlways(i) ==
    /\ pc[i] = "new"
    /\ key' = i
    /\ renewal' = [renewal EXCEPT ![i] = "sleep"]
    /\ pc' = [pc EXCEPT ![i] = "resuming"]

\* acquire: when the key exists StorageError ends the process, which changes
\* nothing; a later attempt is another life.
Acquire(i) ==
    /\ pc[i] = "new" /\ key = None
    /\ key' = i
    /\ renewal' = [renewal EXCEPT ![i] = "sleep"]
    /\ pc' = [pc EXCEPT ![i] = "resuming"]

\* The SET is applied and its reply is lost: the retry of RedisConnection.execute
\* finds the process's own key and gives up, and release does nothing without
\* a token. The key stays until it expires.
AcquireUnacked(i) ==
    /\ "net" \in Faults /\ pc[i] = "new" /\ key = None
    /\ key' = i
    /\ pc' = [pc EXCEPT ![i] = "down"]
    /\ UNCHANGED renewal

\* renew, first half: a key that is gone or names another process ends the
\* renewal task with a log line, and nothing else.
RenewRead(i) ==
    /\ renewal[i] = "sleep" /\ pc[i] \in Live \ {"closing", "releasing"}
    /\ renewal' = [renewal EXCEPT ![i] = IF key = i THEN "got" ELSE "lost"]
    /\ UNCHANGED <<key, pc>>

\* renew, second half: the SET does not look at what the key holds by now.
RenewWrite(i) ==
    /\ renewal[i] = "got" /\ pc[i] \in Live \ {"closing", "releasing"}
    /\ key' = i
    /\ renewal' = [renewal EXCEPT ![i] = "sleep"]
    /\ UNCHANGED pc

\* A renewal that fails after its retries also ends the renewal task; the
\* process goes on.
RenewFails(i) ==
    /\ "renewal" \in Faults
    /\ renewal[i] \in {"sleep", "got"} /\ pc[i] \in Live \ {"closing", "releasing"}
    /\ renewal' = [renewal EXCEPT ![i] = "lost"]
    /\ UNCHANGED <<key, pc>>

\* The key outlives its last SET by lock_expiry_secs. Renewed every
\* lock_renewal_secs it does not expire, unless the process is gone, its
\* renewal task has ended, or (fault "late") its event loop stood still.
Expire ==
    /\ key # None
    /\ pc[key] = "down" \/ renewal[key] = "lost" \/ "late" \in Faults
    /\ key' = None
    /\ UNCHANGED <<renewal, pc>>

\* release, first half: the renewal task is cancelled, the key is read.
ReleaseRead(i) ==
    /\ pc[i] = "closing" /\ key = i
    /\ renewal' = [renewal EXCEPT ![i] = IF @ = "lost" THEN @ ELSE "none"]
    /\ pc' = [pc EXCEPT ![i] = "releasing"]
    /\ UNCHANGED key

\* release finds the key gone or another's, or its calls fail: nothing is deleted.
ReleaseNothing(i) ==
    /\ pc[i] = "closing" /\ (key # i \/ "net" \in Faults)
    /\ renewal' = [renewal EXCEPT ![i] = "none"]
    /\ pc' = [pc EXCEPT ![i] = "down"]
    /\ UNCHANGED key

\* release, second half: DEL, whatever the key holds by now.
ReleaseDelete(i) ==
    /\ pc[i] = "releasing"
    /\ key' = None
    /\ pc' = [pc EXCEPT ![i] = "down"]
    /\ renewal' = [renewal EXCEPT ![i] = "none"]

=============================================================================
