--------------------------- MODULE MigrationBus ---------------------------
(***************************************************************************)
(* The cross-run migration bus (evolution/bus): runs publish the programs  *)
(* their archives rejected to one Redis stream, read it each with a cursor *)
(* of its own, and claim a message with SET NX EX before they import it.   *)
(* The cursor is saved only in an orderly stop; a run that crashed reads   *)
(* again what it has read, and meets the claims it left.                   *)
(*                                                                         *)
(* Messages are their positions in the stream. Every list of the code      *)
(* (response, result, receive buffer, arrivals) holds them in stream order *)
(* and is taken from the front, so it is a set here and its front the      *)
(* least element.                                                          *)
(***************************************************************************)
EXTENDS Naturals, Sequences, FiniteSets

CONSTANTS
    Runs,
    None,          \* no claim key
    Topologies,    \* what each run accepts: functions in [Runs -> SUBSET Runs]
    MaxStreamLen,  \* max_stream_len
    MaxConsume,    \* max_consume_per_poll
    MaxBuffer,     \* max_buffer_size
    MaxImports,    \* max_imports_per_generation
    MaxMessages,   \* messages in a behaviour (bounds the model)
    MaxLives,      \* process lives of each run (bounds the model)
    Publishers,    \* runs whose archive rejects anything (bounds the model)
    Frail,         \* runs that end, crash or lose a call (bounds the model)
    Faults,        \* subset of {"net", "ttl", "crash", "end"}
    MaxFaults      \* how many of them happen in a behaviour (bounds the model)

Messages == 1 .. MaxMessages

ASSUME BusAssumption ==
    /\ None \notin Runs
    /\ Topologies \subseteq [Runs -> SUBSET Runs]
    /\ {MaxStreamLen, MaxConsume, MaxBuffer, MaxImports} \subseteq Nat \ {0}
    /\ MaxMessages \in Nat /\ MaxFaults \in Nat /\ MaxLives \in [Runs -> Nat]
    /\ Publishers \subseteq Runs /\ Frail \subseteq Runs
    /\ Faults \subseteq {"net", "ttl", "crash", "end"}

VARIABLES
    topology,
    \* Redis
    stream,     \* the source run of each message
    trimmed,    \* the messages up to here have left the stream
    claim,      \* the owner named by the claim key of a message, or None
    saved,      \* the cursors hash
    \* MigrationNode and RedisStreamTransport of each run
    pc,         \* its poll loop: in or between reads, at a claim, stopping
    cursor,     \* _last_id
    upto,       \* the last message of the response being processed
    todo,       \* messages of it that are still to be claimed
    got,        \* messages of it claimed so far (result)
    buffer,     \* _buffer
    \* the drain loop of BusedEvolutionEngine
    importer,
    arrivals,   \* drained and not yet imported
    lives, faults,
    \* history
    imported,   \* how often a message was stored by a run
    ever,       \* messages that have been claimed
    expired,    \* messages a claim key of which has expired
    gone        \* messages given up on the way, see NothingVanishes

redisVars == <<stream, trimmed, claim, saved>>
pollVars  == <<pc, cursor, upto, todo, got, buffer>>
drainVars == <<importer, arrivals>>
bounds    == <<lives, faults>>
histVars  == <<imported, ever, expired, gone>>
vars == <<topology, redisVars, pollVars, drainVars, bounds, histVars>>

Polling == {"idle", "claiming"}
Up      == Polling \cup {"saving", "stopped", "unsaved"}

\* The variables have their types, and no buffer exceeds its limit.
TypeOK ==
    /\ topology \in Topologies
    /\ stream \in Seq(Runs) /\ Len(stream) <= MaxMessages
    /\ trimmed \in 0 .. Len(stream)
    /\ claim \in [Messages -> Runs \cup {None}]
    /\ saved \in [Runs -> 0 .. MaxMessages]
    /\ pc \in [Runs -> Up \cup {"down"}]
    /\ cursor \in [Runs -> 0 .. MaxMessages] /\ upto \in [Runs -> 0 .. MaxMessages]
    /\ todo \in [Runs -> SUBSET Messages] /\ got \in [Runs -> SUBSET Messages]
    /\ buffer \in [Runs -> SUBSET Messages]
    /\ \A r \in Runs : Cardinality(buffer[r]) <= MaxBuffer
    /\ importer \in [Runs -> {"idle", "importing", "off"}]
    /\ arrivals \in [Runs -> SUBSET Messages]
    /\ lives \in [Runs -> Nat] /\ faults \in 0 .. MaxFaults
    /\ imported \in [Messages -> Nat]
    /\ ever \cup expired \cup gone \subseteq Messages

Init ==
    /\ topology \in Topologies
    /\ stream = <<>> /\ trimmed = 0
    /\ claim = [n \in Messages |-> None]
    /\ saved = [r \in Runs |-> 0]
    /\ pc = [r \in Runs |-> "down"]
    /\ cursor = [r \in Runs |-> 0] /\ upto = [r \in Runs |-> 0]
    /\ todo = [r \in Runs |-> {}] /\ got = [r \in Runs |-> {}]
    /\ buffer = [r \in Runs |-> {}]
    /\ importer = [r \in Runs |-> "off"] /\ arrivals = [r \in Runs |-> {}]
    /\ lives = [r \in Runs |-> 0] /\ faults = 0
    /\ imported = [n \in Messages |-> 0]
    /\ ever = {} /\ expired = {} /\ gone = {}

Strikes(fault) == fault \in Faults /\ faults < MaxFaults /\ faults' = faults + 1

\* The first k messages of a list.
Oldest(S, k) == {n \in S : Cardinality({m \in S : m < n}) < k}

\* Its first message and its last, as sets of one element (or none).
First(S) == {n \in S : \A m \in S : n <= m}
Last(S)  == {n \in S : \A m \in S : m <= n}

---------------------------------------------------------------------------
(* MigrationNode.start and the publisher *)

\* Mutated form: a run begins with what is published from now on.
StartAtEnd(r) ==
    /\ pc[r] = "down" /\ lives[r] < MaxLives[r]
    /\ cursor' = [cursor EXCEPT ![r] = Len(stream)]
    /\ pc' = [pc EXCEPT ![r] = "idle"]
    /\ importer' = [importer EXCEPT ![r] = "idle"]
    /\ lives' = [lives EXCEPT ![r] = @ + 1]
    /\ UNCHANGED <<topology, redisVars, upto, todo, got, buffer, arrivals, faults, histVars>>

\* A new process restores the saved cursor, or begins at the start.
Start(r) ==
    /\ pc[r] = "down" /\ lives[r] < MaxLives[r]
    /\ cursor' = [cursor EXCEPT ![r] = saved[r]]
    /\ pc' = [pc EXCEPT ![r] = "idle"]
    /\ importer' = [importer EXCEPT ![r] = "idle"]
    /\ lives' = [lives EXCEPT ![r] = @ + 1]
    /\ UNCHANGED <<topology, redisVars, upto, todo, got, buffer, arrivals, faults, histVars>>

\* XADD of a program the strategy rejected. MAXLEN is approximate: Redis trims
\* down to it now or later.
Publish(r) ==
    /\ r \in Publishers /\ pc[r] \in Up \ {"stopped"} /\ Len(stream) < MaxMessages
    /\ stream' = Append(stream, r)
    /\ trimmed' \in {t \in trimmed .. Len(stream) + 1 :
                        t = trimmed \/ t + MaxStreamLen <= Len(stream) + 1}
    /\ UNCHANGED <<topology, claim, saved, pollVars, drainVars, bounds, histVars>>

---------------------------------------------------------------------------
(* RedisStreamTransport.consume and MigrationNode._poll_loop *)

Accepts(r, n) == stream[n] # r /\ stream[n] \in topology[r]

\* What XREAD returns.
Response(r) ==
    Oldest({n \in (cursor[r] + 1) .. Len(stream) : n > trimmed}, MaxConsume)

\* XREAD blocks for block_ms and returns nothing.
XReadNothing(r) == pc[r] = "idle" /\ Response(r) = {} /\ UNCHANGED vars

\* XREAD, and the loop over its response up to the first claim. _last_id has
\* passed the messages that are not for this run.
XRead(r) ==
    LET mine == {n \in Response(r) : Accepts(r, n)} IN
    /\ pc[r] = "idle"
    /\ \E last \in Last(Response(r)) :
          /\ upto' = [upto EXCEPT ![r] = last]
          /\ \E n \in (IF mine = {} THEN {last} ELSE First(mine)) :
                cursor' = [cursor EXCEPT ![r] = n]
    /\ todo' = [todo EXCEPT ![r] = mine]
    /\ pc' = [pc EXCEPT ![r] = IF mine = {} THEN "idle" ELSE "claiming"]
    /\ UNCHANGED <<topology, redisVars, got, buffer, drainVars, bounds, histVars>>

\* Mutated form: the limit is applied to a response, not to the buffer.
ReceivedOverfull(r, res) == buffer[r] \cup Oldest(res, MaxBuffer)

\* Mutated form: a response replaces what is still in the buffer.
ReceivedReplaces(r, res) == Oldest(res, MaxBuffer)

\* The receive buffer after a response: when it is full the newest are dropped.
Received(r, res) == buffer[r] \cup Oldest(res, MaxBuffer - Cardinality(buffer[r]))

\* The rest of consume once the claim has been answered, and, after the last
\* one, of the poll.
Proceed(r, res) ==
    LET rest == todo[r] \ {cursor[r]}
    IN  /\ todo' = [todo EXCEPT ![r] = rest]
        /\ IF rest # {}
           THEN /\ \E n \in First(rest) : cursor' = [cursor EXCEPT ![r] = n]
                /\ got' = [got EXCEPT ![r] = res]
                /\ UNCHANGED <<pc, buffer, gone>>
           ELSE /\ cursor' = [cursor EXCEPT ![r] = upto[r]]
                /\ got' = [got EXCEPT ![r] = {}]
                /\ buffer' = [buffer EXCEPT ![r] = Received(r, res)]
                /\ gone' = gone \cup (res \ Received(r, res))
                /\ pc' = [pc EXCEPT ![r] = "idle"]

\* Mutated form: SET without NX.
ClaimAlways(r) ==
    /\ pc[r] = "claiming"
    /\ claim' = [claim EXCEPT ![cursor[r]] = r]
    /\ ever' = ever \cup {cursor[r]}
    /\ Proceed(r, got[r] \cup {cursor[r]})
    /\ UNCHANGED <<topology, stream, trimmed, saved, upto, drainVars, bounds, imported, expired>>

\* SET NX EX on the claim key of the message at the cursor.
Claim(r) ==
    LET n == cursor[r] IN
    /\ pc[r] = "claiming"
    /\ claim' = [claim EXCEPT ![n] = IF @ = None THEN r ELSE @]
    /\ ever' = ever \cup {n}
    /\ Proceed(r, IF claim[n] = None THEN got[r] \cup {n} ELSE got[r])
    /\ UNCHANGED <<topology, stream, trimmed, saved, upto, drainVars, bounds, imported, expired>>

\* The claim that was under way reached Redis, or it did not.
ClaimUnacked(r) ==
    \/ /\ pc[r] = "claiming" /\ claim[cursor[r]] = None
       /\ claim' = [claim EXCEPT ![cursor[r]] = r]
       /\ ever' = ever \cup {cursor[r]}
    \/ UNCHANGED <<claim, ever>>

\* What the response in work still held is lost: the claimed messages and the
\* one at the cursor, which is not read again unless the run crashes.
InWork(r) == got[r] \cup (IF pc[r] = "claiming" THEN {cursor[r]} ELSE {})

\* Mutated form: the cursor has passed the whole response.
ClaimFailsAtEnd(r) ==
    /\ r \in Frail /\ Strikes("net") /\ pc[r] = "claiming"
    /\ ClaimUnacked(r)
    /\ gone' = gone \cup InWork(r)
    /\ pc' = [pc EXCEPT ![r] = "idle"]
    /\ cursor' = [cursor EXCEPT ![r] = upto[r]]
    /\ todo' = [todo EXCEPT ![r] = {}] /\ got' = [got EXCEPT ![r] = {}]
    /\ UNCHANGED <<topology, stream, trimmed, saved, upto, buffer, drainVars, lives,
                   imported, expired>>

\* A claim raises: the poll logs an error, and the next one reads on after the
\* cursor.
ClaimFails(r) ==
    /\ r \in Frail /\ Strikes("net") /\ pc[r] = "claiming"
    /\ ClaimUnacked(r)
    /\ gone' = gone \cup InWork(r)
    /\ pc' = [pc EXCEPT ![r] = "idle"]
    /\ todo' = [todo EXCEPT ![r] = {}] /\ got' = [got EXCEPT ![r] = {}]
    /\ UNCHANGED <<topology, stream, trimmed, saved, cursor, upto, buffer, drainVars, lives,
                   imported, expired>>

---------------------------------------------------------------------------
(* BusedEvolutionEngine._bus_drain_loop *)

\* drain_received takes a bounded number from the front of the buffer.
Drain(r) ==
    /\ importer[r] = "idle" /\ pc[r] \in Up /\ buffer[r] # {}
    /\ arrivals' = [arrivals EXCEPT ![r] = Oldest(buffer[r], MaxImports)]
    /\ buffer' = [buffer EXCEPT ![r] = @ \ Oldest(@, MaxImports)]
    /\ importer' = [importer EXCEPT ![r] = "importing"]
    /\ UNCHANGED <<topology, redisVars, pc, cursor, upto, todo, got, bounds, histVars>>

\* The arrival n, the first of those that are left, has been dealt with.
NextArrival(r, n) ==
    /\ importer[r] = "importing" /\ n \in First(arrivals[r])
    /\ arrivals' = [arrivals EXCEPT ![r] = @ \ {n}]
    /\ importer' = [importer EXCEPT ![r] = IF arrivals[r] = {n} THEN "idle" ELSE "importing"]
    /\ UNCHANGED <<topology, redisVars, pollVars, bounds, ever, expired>>

\* storage.add of the orphan, under a fresh id, and strategy.add, whose answer
\* is only logged.
Import(r) ==
    \E n \in arrivals[r] :
        /\ NextArrival(r, n)
        /\ imported' = [imported EXCEPT ![n] = @ + 1]
        /\ UNCHANGED gone

\* The acceptor refuses it, or storage.add raises.
Refuse(r) ==
    \E n \in arrivals[r] :
        /\ NextArrival(r, n)
        /\ gone' = gone \cup {n}
        /\ UNCHANGED imported

---------------------------------------------------------------------------
(* Ends *)

\* The run begins to end, or is already doing so.
Ending(r) ==
    IF importer[r] # "off" /\ pc[r] \in Polling
    THEN r \in Frail /\ Strikes("end")
    ELSE UNCHANGED faults

\* run() ends, by itself or because the engine is stopped: the drain loop is
\* cancelled.
EndDrain(r) ==
    /\ pc[r] \in Up /\ importer[r] # "off"
    /\ Ending(r)
    /\ importer' = [importer EXCEPT ![r] = "off"]
    /\ gone' = gone \cup arrivals[r]
    /\ arrivals' = [arrivals EXCEPT ![r] = {}]
    /\ UNCHANGED <<topology, redisVars, pollVars, lives, imported, ever, expired>>

\* stop: the poll task is cancelled at its await ...
StopNode(r) ==
    /\ pc[r] \in Polling
    /\ Ending(r)
    /\ ClaimUnacked(r)
    /\ gone' = gone \cup InWork(r)
    /\ pc' = [pc EXCEPT ![r] = "saving"]
    /\ todo' = [todo EXCEPT ![r] = {}] /\ got' = [got EXCEPT ![r] = {}]
    /\ UNCHANGED <<topology, stream, trimmed, saved, cursor, upto, buffer, drainVars, lives,
                   imported, expired>>

\* ... its cursor is saved and the transport is closed. A call that fails leaves
\* the transport open.
SaveCursor(r) ==
    /\ pc[r] = "saving"
    /\ \/ /\ saved' = [saved EXCEPT ![r] = cursor[r]] /\ UNCHANGED faults
          /\ pc' = [pc EXCEPT ![r] = "stopped"]
       \/ /\ r \in Frail /\ Strikes("net") /\ UNCHANGED saved
          /\ pc' = [pc EXCEPT ![r] = "unsaved"]
    /\ UNCHANGED <<topology, stream, trimmed, claim, cursor, upto, todo, got, buffer, drainVars,
                   lives, histVars>>

\* The process is gone with everything it held.
Die(r) ==
    /\ pc' = [pc EXCEPT ![r] = "down"]
    /\ importer' = [importer EXCEPT ![r] = "off"]
    /\ gone' = gone \cup InWork(r) \cup buffer[r] \cup arrivals[r]
    /\ todo' = [todo EXCEPT ![r] = {}] /\ got' = [got EXCEPT ![r] = {}]
    /\ buffer' = [buffer EXCEPT ![r] = {}] /\ arrivals' = [arrivals EXCEPT ![r] = {}]
    /\ UNCHANGED <<topology, stream, trimmed, saved, cursor, upto, lives, imported, expired>>

Exit(r) ==
    /\ pc[r] \in {"stopped", "unsaved"} /\ importer[r] = "off"
    /\ Die(r)
    /\ UNCHANGED <<claim, ever, faults>>

Crash(r) ==
    /\ r \in Frail /\ Strikes("crash") /\ pc[r] \in Up
    /\ ClaimUnacked(r)
    /\ Die(r)

\* claim_ttl runs out.
Expire(n) ==
    /\ Strikes("ttl") /\ claim[n] # None
    /\ claim' = [claim EXCEPT ![n] = None]
    /\ expired' = expired \cup {n}
    /\ UNCHANGED <<topology, stream, trimmed, saved, pollVars, drainVars, lives, imported,
                   ever, gone>>

Next ==
    \/ \E r \in Runs :
         \/ Start(r) \/ Publish(r) \/ XReadNothing(r) \/ XRead(r) \/ Claim(r) \/ ClaimFails(r)
         \/ Drain(r) \/ Import(r) \/ Refuse(r)
         \/ EndDrain(r) \/ StopNode(r) \/ SaveCursor(r) \/ Exit(r) \/ Crash(r)
    \/ \E n \in Messages : Expire(n)

Spec == Init /\ [][Next]_vars

---------------------------------------------------------------------------
\* SET NX EX (transport.py, "exclusive claiming"): however many runs read a
\* message, and however often a run reads it again after a crash, it is stored
\* at most once, as long as its claim key has not expired.
ImportedOnce == \A n \in Messages \ expired : imported[n] <= 1

\* What a run holds.
Held(r) == got[r] \cup buffer[r] \cup arrivals[r]

\* A claim keeps every other run away from a message, so the claimant must see
\* it through: a claimed message is on its way in a run that the topology
\* addresses it to, has been imported, or has been given up where the code
\* does so (buffer full, refused, a failing call, the end of the process).
NothingVanishes ==
    \A n \in ever :
        \/ imported[n] > 0 \/ n \in gone
        \/ \E r \in Runs : n \in Held(r) /\ Accepts(r, n)

\* The cursor of a running node has passed no message that is for it and that
\* nobody has ever claimed; except messages trimmed before they were read and
\* those whose claim failed.
NoneSkipped ==
    \A r \in Runs : pc[r] \in Up =>
        \A n \in 1 .. cursor[r] :
            Accepts(r, n) /\ n > trimmed /\ n \notin todo[r] => n \in ever \cup gone

\* The polls, the drain loop and an orderly stop make progress: the event loop
\* resumes them, and serve_until_signal stops the node once the engine's task
\* has ended. Nothing forces a run to publish, to be started or to end.
FairSpec ==
    /\ Spec
    /\ \A r \in Runs :
         /\ WF_vars(XRead(r) \/ Claim(r))
         /\ WF_vars(Drain(r) \/ Import(r) \/ Refuse(r))
         /\ WF_vars((importer[r] = "off" /\ StopNode(r)) \/ SaveCursor(r) \/ Exit(r))

Addressed(r, n) == n <= Len(stream) /\ Accepts(r, n)

\* While a run that a message is addressed to stays up, the message is imported
\* or given up in the end; no claim of another run keeps it for ever.
Delivered ==
    \A n \in Messages :
        n <= Len(stream) ~> \/ imported[n] > 0 \/ n \in gone \/ n <= trimmed
                            \/ \A r \in Runs : Addressed(r, n) => pc[r] \notin Polling

=============================================================================
