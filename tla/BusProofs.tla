----------------------------- MODULE BusProofs -----------------------------
(***************************************************************************)
(* Exclusive claiming on the migration bus, for any number of runs,        *)
(* messages, crashes and restarts, and for any limits and topology.        *)
(*                                                                         *)
(* That a message is stored at most once is not inductive. The invariant   *)
(* follows a message through the lists of the runs: one whose claim key    *)
(* never expired is in at most one list of at most one run, in none once   *)
(* it is imported, and nowhere while its key does not exist; a run that    *)
(* reads it again therefore finds the key.                                 *)
(*                                                                         *)
(* That none is skipped and none vanishes rests on the order of reading:   *)
(* XREAD returns the front of the stream after the cursor without a gap,   *)
(* the cursor stays at the first message that is still to be claimed, and  *)
(* what breaks a poll off gives up no message but that one.                *)
(***************************************************************************)
EXTENDS MigrationBus, TLAPS, FiniteSetTheorems, WellFoundedInduction

\* The types the argument needs.
Typed ==
    /\ stream \in Seq(Runs) /\ Len(stream) <= MaxMessages
    /\ claim \in [Messages -> Runs \cup {None}]
    /\ saved \in [Runs -> Nat] /\ cursor \in [Runs -> Nat] /\ upto \in [Runs -> Nat]
    /\ pc \in [Runs -> Up \cup {"down"}]
    /\ importer \in [Runs -> {"idle", "importing", "off"}]
    /\ todo \in [Runs -> SUBSET Messages] /\ got \in [Runs -> SUBSET Messages]
    /\ buffer \in [Runs -> SUBSET Messages] /\ arrivals \in [Runs -> SUBSET Messages]
    /\ imported \in [Messages -> Nat]
    /\ expired \subseteq Messages

\* A run at a claim is at one of the messages it has to claim.
AtCursor == \A r \in Runs : pc[r] = "claiming" => cursor[r] \in todo[r]

\* A drain loop that is not importing, or is not running, holds nothing.
Rested == \A r \in Runs : (importer[r] # "importing" \/ pc[r] = "down") => arrivals[r] = {}

\* Where a message can be.
Unclaimed(n) == claim[n] = None => imported[n] = 0 /\ \A r \in Runs : n \notin Held(r)
Used(n)      == imported[n] <= 1 /\ (imported[n] = 1 => \A r \in Runs : n \notin Held(r))
OneHolder(n) == \A r, q \in Runs : n \in Held(r) /\ n \in Held(q) => r = q
OneList(r, n) ==
    /\ n \in got[r] => n \notin buffer[r] /\ n \notin arrivals[r]
    /\ n \in buffer[r] => n \notin arrivals[r]

Exclusive ==
    \A n \in Messages \ expired :
        Unclaimed(n) /\ Used(n) /\ OneHolder(n) /\ \A r \in Runs : OneList(r, n)

BusInvariant == Typed /\ AtCursor /\ Rested /\ Exclusive

\* The variables that exclusion does not depend on.
Framed ==
    /\ topology \in Topologies
    /\ trimmed \in 0 .. Len(stream)
    /\ lives \in [Runs -> Nat] /\ faults \in 0 .. MaxFaults
    /\ ever \cup gone \subseteq Messages

\* No cursor is ahead of the stream, and what a run holds is addressed to it.
Inside(r) == cursor[r] <= Len(stream) /\ upto[r] <= Len(stream) /\ saved[r] <= Len(stream)
Within ==
    \A r \in Runs : Inside(r) /\ \A n \in todo[r] \cup Held(r) : Addressed(r, n)

Fits == \A r \in Runs : Cardinality(buffer[r]) <= MaxBuffer

\* A key that exists was set by a claim.
Noted == \A n \in Messages : claim[n] # None => n \in ever

\* What a run has dealt with of the messages up to k.
Read(r, k) ==
    \A n \in 1 .. k : Accepts(r, n) /\ n > trimmed /\ n \notin todo[r] => n \in ever \cup gone

\* The cursor is at the first message that is still to be claimed, and the
\* response in work has no other gaps; a saved cursor has left none.
InTurn ==
    \A r \in Runs :
        /\ pc[r] \in Up => Read(r, cursor[r])
        /\ pc[r] = "claiming" =>
              /\ Read(r, upto[r])
              /\ \A n \in todo[r] : cursor[r] <= n /\ n <= upto[r]
        /\ pc[r] # "claiming" => todo[r] = {}
        /\ \A n \in 1 .. saved[r] : Accepts(r, n) /\ n > trimmed => n \in ever \cup gone

---------------------------------------------------------------------------
LEMMA Begin == Init => BusInvariant
<1> SUFFICES ASSUME Init PROVE BusInvariant
  OBVIOUS
<1> USE BusAssumption
<1>1. Typed
  BY DEF Init, Typed, Up, Polling, Messages
<1>2. AtCursor /\ Rested
  BY DEF Init, AtCursor, Rested
<1>3. Exclusive
  BY DEF Init, Exclusive, Unclaimed, Used, OneHolder, OneList, Held, Messages
<1> QED BY <1>1, <1>2, <1>3 DEF BusInvariant

\* A prefix of a list is a part of it.
LEMMA OldestWithin ==
    ASSUME NEW S, NEW k
    PROVE  Oldest(S, k) \subseteq S
BY DEF Oldest

LEMMA ReceivedWithin ==
    ASSUME NEW r \in Runs, NEW res
    PROVE  Received(r, res) \subseteq buffer[r] \cup res
BY OldestWithin DEF Received

\* What XREAD returns are messages.
LEMMA ResponseMessages ==
    ASSUME Typed, NEW r \in Runs
    PROVE  Response(r) \subseteq Messages
<1>1. Len(stream) \in Nat /\ Len(stream) <= MaxMessages /\ cursor[r] \in Nat
  BY DEF Typed
<1>2. Response(r) \subseteq (cursor[r] + 1) .. Len(stream)
  BY DEF Response, Oldest
<1> QED BY <1>1, <1>2, BusAssumption DEF Messages

---------------------------------------------------------------------------
(* Types *)

LEMMA ProceedTyped ==
    ASSUME Typed, NEW r \in Runs, NEW res \in SUBSET Messages, Proceed(r, res)
    PROVE  /\ todo' \in [Runs -> SUBSET Messages] /\ got' \in [Runs -> SUBSET Messages]
           /\ buffer' \in [Runs -> SUBSET Messages]
           /\ cursor' \in [Runs -> Nat] /\ pc' \in [Runs -> Up \cup {"down"}]
<1>1. Messages \subseteq Nat
  BY DEF Messages
<1>2. Received(r, res) \subseteq Messages
  BY ReceivedWithin DEF Typed
<1>3. todo[r] \ {cursor[r]} \subseteq Messages /\ upto[r] \in Nat
  BY DEF Typed
<1>4. todo' \in [Runs -> SUBSET Messages]
  BY <1>3 DEF Typed, Proceed
<1>5. CASE todo[r] \ {cursor[r]} # {}
  <2>1. PICK n \in First(todo[r] \ {cursor[r]}) : cursor' = [cursor EXCEPT ![r] = n]
    BY <1>5 DEF Proceed
  <2>2. n \in Nat
    BY <1>1, <1>3 DEF First
  <2>3. got' = [got EXCEPT ![r] = res] /\ pc' = pc /\ buffer' = buffer
    BY <1>5 DEF Proceed
  <2> QED BY <1>4, <2>1, <2>2, <2>3 DEF Typed
<1>6. CASE todo[r] \ {cursor[r]} = {}
  <2>1. /\ cursor' = [cursor EXCEPT ![r] = upto[r]] /\ got' = [got EXCEPT ![r] = {}]
        /\ buffer' = [buffer EXCEPT ![r] = Received(r, res)]
        /\ pc' = [pc EXCEPT ![r] = "idle"]
    BY <1>6 DEF Proceed
  <2>2. buffer' \in [Runs -> SUBSET Messages]
    BY <1>2, <2>1 DEF Typed
  <2>3. pc' \in [Runs -> Up \cup {"down"}]
    BY <2>1 DEF Typed, Up, Polling
  <2> QED BY <1>3, <1>4, <2>1, <2>2, <2>3 DEF Typed
<1> QED BY <1>5, <1>6

LEMMA UnackedTyped ==
    ASSUME Typed, AtCursor, NEW r \in Runs, ClaimUnacked(r)
    PROVE  claim' \in [Messages -> Runs \cup {None}]
<1>1. CASE UNCHANGED claim
  BY <1>1 DEF Typed
<1>2. CASE pc[r] = "claiming" /\ claim' = [claim EXCEPT ![cursor[r]] = r]
  BY <1>2 DEF Typed
<1> QED BY <1>1, <1>2 DEF ClaimUnacked

LEMMA ArrivalTyped ==
    ASSUME Typed, NEW r \in Runs, NEW n, NextArrival(r, n), imported' \in [Messages -> Nat]
    PROVE  Typed'
<1>1. /\ arrivals' = [arrivals EXCEPT ![r] = @ \ {n}]
      /\ importer' = [importer EXCEPT ![r] = IF arrivals[r] = {n} THEN "idle" ELSE "importing"]
      /\ UNCHANGED <<redisVars, pollVars, expired>>
  BY DEF NextArrival
<1>2. /\ arrivals \in [Runs -> SUBSET Messages]
      /\ importer \in [Runs -> {"idle", "importing", "off"}]
  BY DEF Typed
<1>3. arrivals' \in [Runs -> SUBSET Messages]
  BY <1>1, <1>2
<1>4. importer' \in [Runs -> {"idle", "importing", "off"}]
  BY <1>1, <1>2
<1>5. UNCHANGED <<stream, claim, saved, cursor, upto, pc, todo, got, buffer, expired>>
  BY <1>1 DEF redisVars, pollVars
<1> QED BY <1>3, <1>4, <1>5 DEF Typed

LEMMA DieTyped ==
    ASSUME Typed, NEW r \in Runs, Die(r), claim' \in [Messages -> Runs \cup {None}]
    PROVE  Typed'
<1>1. /\ pc' = [pc EXCEPT ![r] = "down"] /\ importer' = [importer EXCEPT ![r] = "off"]
      /\ todo' = [todo EXCEPT ![r] = {}] /\ got' = [got EXCEPT ![r] = {}]
      /\ buffer' = [buffer EXCEPT ![r] = {}] /\ arrivals' = [arrivals EXCEPT ![r] = {}]
      /\ UNCHANGED <<stream, saved, cursor, upto, imported, expired>>
  BY DEF Die
<1>2. pc' \in [Runs -> Up \cup {"down"}] /\ importer' \in [Runs -> {"idle", "importing", "off"}]
  BY <1>1 DEF Typed
<1>3. todo' \in [Runs -> SUBSET Messages] /\ got' \in [Runs -> SUBSET Messages]
  BY <1>1 DEF Typed
<1>4. buffer' \in [Runs -> SUBSET Messages] /\ arrivals' \in [Runs -> SUBSET Messages]
  BY <1>1 DEF Typed
<1> QED BY <1>1, <1>2, <1>3, <1>4 DEF Typed

LEMMA TypeStep == Typed /\ AtCursor /\ [Next]_vars => Typed'
<1> SUFFICES ASSUME Typed, AtCursor, [Next]_vars PROVE Typed'
  OBVIOUS
<1> USE BusAssumption DEF Up, Polling
<1>1. ASSUME NEW r \in Runs, Start(r) PROVE Typed'
  BY <1>1 DEF Start, Typed, redisVars, histVars
<1>2. ASSUME NEW r \in Runs, Publish(r) PROVE Typed'
  BY <1>2 DEF Publish, Typed, pollVars, drainVars, histVars
<1>3. ASSUME NEW r \in Runs, XRead(r) PROVE Typed'
  <2>1. Response(r) \subseteq Messages /\ Messages \subseteq Nat
    BY ResponseMessages DEF Messages
  <2> DEFINE mine == {n \in Response(r) : Accepts(r, n)}
  <2>2. PICK last \in Last(Response(r)) :
          /\ upto' = [upto EXCEPT ![r] = last]
          /\ \E n \in (IF mine = {} THEN {last} ELSE First(mine)) :
                cursor' = [cursor EXCEPT ![r] = n]
    BY <1>3 DEF XRead
  <2>3. PICK n \in (IF mine = {} THEN {last} ELSE First(mine)) :
          cursor' = [cursor EXCEPT ![r] = n]
    BY <2>2
  <2>4. mine \subseteq Messages /\ last \in Nat /\ n \in Nat
    BY <2>1 DEF First, Last
  <2>5. /\ todo' = [todo EXCEPT ![r] = mine]
        /\ pc' = [pc EXCEPT ![r] = IF mine = {} THEN "idle" ELSE "claiming"]
        /\ UNCHANGED <<redisVars, got, buffer, drainVars, histVars>>
    BY <1>3 DEF XRead
  <2> HIDE DEF mine
  <2> QED BY <2>2, <2>3, <2>4, <2>5 DEF Typed, redisVars, drainVars, histVars
<1>4. ASSUME NEW r \in Runs, Claim(r) PROVE Typed'
  <2>1. cursor[r] \in Messages
    BY <1>4 DEF Claim, AtCursor, Typed
  <2> DEFINE res == IF claim[cursor[r]] = None THEN got[r] \cup {cursor[r]} ELSE got[r]
  <2>2. res \in SUBSET Messages /\ Proceed(r, res)
    BY <1>4, <2>1 DEF Claim, Typed
  <2>3. claim' \in [Messages -> Runs \cup {None}]
    BY <1>4, <2>1 DEF Claim, Typed
  <2> HIDE DEF res
  <2>4. /\ todo' \in [Runs -> SUBSET Messages] /\ got' \in [Runs -> SUBSET Messages]
        /\ buffer' \in [Runs -> SUBSET Messages]
        /\ cursor' \in [Runs -> Nat] /\ pc' \in [Runs -> Up \cup {"down"}]
    BY <2>2, ProceedTyped
  <2> QED BY <1>4, <2>3, <2>4 DEF Claim, Typed, drainVars
<1>5. ASSUME NEW r \in Runs, ClaimFails(r) PROVE Typed'
  <2>1. claim' \in [Messages -> Runs \cup {None}]
    BY <1>5, UnackedTyped DEF ClaimFails
  <2>2. /\ pc' = [pc EXCEPT ![r] = "idle"]
        /\ todo' = [todo EXCEPT ![r] = {}] /\ got' = [got EXCEPT ![r] = {}]
        /\ UNCHANGED <<stream, saved, cursor, upto, buffer, drainVars, imported, expired>>
    BY <1>5 DEF ClaimFails
  <2>3. pc' \in [Runs -> Up \cup {"down"}]
    BY <2>2 DEF Typed
  <2>4. todo' \in [Runs -> SUBSET Messages] /\ got' \in [Runs -> SUBSET Messages]
    BY <2>2 DEF Typed
  <2> QED BY <2>1, <2>2, <2>3, <2>4 DEF Typed, drainVars
<1>6. ASSUME NEW r \in Runs, Drain(r) PROVE Typed'
  BY <1>6 DEF Drain, Typed, Oldest, redisVars, histVars
<1>7. ASSUME NEW r \in Runs, Import(r) PROVE Typed'
  <2>1. PICK n \in arrivals[r] : NextArrival(r, n) /\ imported' = [imported EXCEPT ![n] = @ + 1]
    BY <1>7 DEF Import
  <2>2. imported' \in [Messages -> Nat]
    BY <2>1 DEF Typed
  <2> QED BY <2>1, <2>2, ArrivalTyped
<1>8. ASSUME NEW r \in Runs, Refuse(r) PROVE Typed'
  <2>1. PICK n \in arrivals[r] : NextArrival(r, n) /\ imported' = imported
    BY <1>8 DEF Refuse
  <2>2. imported' \in [Messages -> Nat]
    BY <2>1 DEF Typed
  <2> QED BY <2>1, <2>2, ArrivalTyped
<1>9. ASSUME NEW r \in Runs, EndDrain(r) PROVE Typed'
  <2>1. /\ importer' = [importer EXCEPT ![r] = "off"]
        /\ arrivals' = [arrivals EXCEPT ![r] = {}]
        /\ UNCHANGED <<redisVars, pollVars, imported, expired>>
    BY <1>9 DEF EndDrain
  <2>2. importer' \in [Runs -> {"idle", "importing", "off"}]
    BY <2>1 DEF Typed
  <2>3. arrivals' \in [Runs -> SUBSET Messages]
    BY <2>1 DEF Typed
  <2> QED BY <2>1, <2>2, <2>3 DEF Typed, redisVars, pollVars
<1>10. ASSUME NEW r \in Runs, StopNode(r) PROVE Typed'
  <2>1. claim' \in [Messages -> Runs \cup {None}]
    BY <1>10, UnackedTyped DEF StopNode
  <2>2. /\ pc' = [pc EXCEPT ![r] = "saving"]
        /\ todo' = [todo EXCEPT ![r] = {}] /\ got' = [got EXCEPT ![r] = {}]
        /\ UNCHANGED <<stream, saved, cursor, upto, buffer, drainVars, imported, expired>>
    BY <1>10 DEF StopNode
  <2>3. pc' \in [Runs -> Up \cup {"down"}]
    BY <2>2 DEF Typed
  <2>4. todo' \in [Runs -> SUBSET Messages] /\ got' \in [Runs -> SUBSET Messages]
    BY <2>2 DEF Typed
  <2> QED BY <2>1, <2>2, <2>3, <2>4 DEF Typed, drainVars
<1>11. ASSUME NEW r \in Runs, SaveCursor(r) PROVE Typed'
  <2>1. \/ saved' = [saved EXCEPT ![r] = cursor[r]] /\ pc' = [pc EXCEPT ![r] = "stopped"]
        \/ UNCHANGED saved /\ pc' = [pc EXCEPT ![r] = "unsaved"]
    BY <1>11 DEF SaveCursor
  <2>2. saved \in [Runs -> Nat] /\ cursor \in [Runs -> Nat] /\ pc \in [Runs -> Up \cup {"down"}]
    BY DEF Typed
  <2>3. saved' \in [Runs -> Nat]
    BY <2>1, <2>2
  <2>4. pc' \in [Runs -> Up \cup {"down"}]
    BY <2>1, <2>2
  <2>5. UNCHANGED <<stream, claim, cursor, upto, todo, got, buffer, drainVars, histVars>>
    BY <1>11 DEF SaveCursor
  <2>6. UNCHANGED <<importer, arrivals, imported, expired>>
    BY <2>5 DEF drainVars, histVars
  <2> QED BY <2>3, <2>4, <2>5, <2>6 DEF Typed
<1>12. ASSUME NEW r \in Runs, Exit(r) PROVE Typed'
  BY <1>12, DieTyped DEF Exit, Typed
<1>13. ASSUME NEW r \in Runs, Crash(r) PROVE Typed'
  <2>1. claim' \in [Messages -> Runs \cup {None}]
    BY <1>13, UnackedTyped DEF Crash
  <2> QED BY <1>13, <2>1, DieTyped DEF Crash
<1>14. ASSUME NEW n \in Messages, Expire(n) PROVE Typed'
  BY <1>14 DEF Expire, Typed, pollVars, drainVars
<1>15. ASSUME UNCHANGED vars PROVE Typed'
  BY <1>15 DEF vars, redisVars, pollVars, drainVars, histVars, Typed
<1> QED
  BY <1>1, <1>2, <1>3, <1>4, <1>5, <1>6, <1>7, <1>8, <1>9, <1>10, <1>11, <1>12,
     <1>13, <1>14, <1>15 DEF Next, XReadNothing

LEMMA CursorStep == Typed /\ AtCursor /\ [Next]_vars => AtCursor'
<1> SUFFICES ASSUME Typed, AtCursor, [Next]_vars PROVE AtCursor'
  OBVIOUS
<1> USE DEF AtCursor
<1>1. ASSUME NEW r \in Runs, XRead(r) PROVE AtCursor'
  BY <1>1 DEF XRead, Typed, First
<1>2. ASSUME NEW r \in Runs, Claim(r) PROVE AtCursor'
  BY <1>2 DEF Claim, Proceed, Typed, First
<1>3. ASSUME NEW r \in Runs,
             Start(r) \/ ClaimFails(r) \/ StopNode(r) \/ SaveCursor(r) \/ Exit(r) \/ Crash(r)
      PROVE  AtCursor'
  BY <1>3 DEF Start, ClaimFails, StopNode, SaveCursor, Exit, Crash, Die, Typed, drainVars
<1>4. ASSUME NEW r \in Runs,
             Publish(r) \/ Drain(r) \/ Import(r) \/ Refuse(r) \/ EndDrain(r)
      PROVE  AtCursor'
  BY <1>4 DEF Publish, Drain, Import, Refuse, NextArrival, EndDrain, pollVars
<1>5. ASSUME NEW n \in Messages, Expire(n) PROVE AtCursor'
  BY <1>5 DEF Expire, pollVars
<1>6. ASSUME UNCHANGED vars PROVE AtCursor'
  BY <1>6 DEF vars, pollVars
<1> QED BY <1>1, <1>2, <1>3, <1>4, <1>5, <1>6 DEF Next, XReadNothing

LEMMA RestStep == Typed /\ Rested /\ [Next]_vars => Rested'
<1> SUFFICES ASSUME Typed, Rested, [Next]_vars PROVE Rested'
  OBVIOUS
<1> USE DEF Rested
<1>1. ASSUME NEW r \in Runs, Import(r) \/ Refuse(r) PROVE Rested'
  <2>1. PICK n \in arrivals[r] : NextArrival(r, n)
    BY <1>1 DEF Import, Refuse
  <2> QED BY <2>1 DEF NextArrival, Typed, pollVars
<1>2. ASSUME NEW r \in Runs, Start(r) \/ Drain(r) \/ EndDrain(r) \/ Exit(r) \/ Crash(r)
      PROVE  Rested'
  <2>1. CASE Start(r)
    <3>1. /\ arrivals' = arrivals /\ importer' = [importer EXCEPT ![r] = "idle"]
          /\ pc' = [pc EXCEPT ![r] = "idle"]
      BY <2>1 DEF Start
    <3>2. arrivals[r] = {}
      BY <2>1 DEF Start
    <3> QED BY <3>1, <3>2 DEF Typed
  <2>2. CASE Drain(r)
    BY <2>2 DEF Drain, Typed, Up, Polling
  <2>3. CASE EndDrain(r)
    BY <2>3 DEF EndDrain, Typed, pollVars
  <2>4. CASE Exit(r) \/ Crash(r)
    BY <2>4 DEF Exit, Crash, Die, Typed
  <2> QED BY <1>2, <2>1, <2>2, <2>3, <2>4
<1>3. ASSUME NEW r \in Runs,
             Publish(r) \/ XRead(r) \/ Claim(r) \/ ClaimFails(r) \/ StopNode(r) \/ SaveCursor(r)
      PROVE  Rested'
  <2>1. UNCHANGED drainVars
    BY <1>3 DEF Publish, XRead, Claim, ClaimFails, StopNode, SaveCursor
  <2>2. \A q \in Runs : pc'[q] = "down" => pc[q] = "down"
    BY <1>3 DEF Publish, XRead, Claim, Proceed, ClaimFails, StopNode, SaveCursor, pollVars, Typed
  <2> QED BY <2>1, <2>2 DEF drainVars
<1>4. ASSUME NEW n \in Messages, Expire(n) PROVE Rested'
  BY <1>4 DEF Expire, drainVars, pollVars
<1>5. ASSUME UNCHANGED vars PROVE Rested'
  BY <1>5 DEF vars, drainVars, pollVars
<1> QED BY <1>1, <1>2, <1>3, <1>4, <1>5 DEF Next, XReadNothing

---------------------------------------------------------------------------
(* Exclusion *)

\* A step in which no run takes anything, nothing is imported and no key
\* disappears without being noted as expired.
LEMMA OnlyLess ==
    ASSUME Exclusive, Typed, Typed',
           \A r \in Runs : /\ got'[r] \subseteq got[r] /\ buffer'[r] \subseteq buffer[r]
                           /\ arrivals'[r] \subseteq arrivals[r],
           UNCHANGED imported, expired \subseteq expired',
           \A n \in Messages \ expired' : claim'[n] = None => claim[n] = None
    PROVE  Exclusive'
<1> SUFFICES ASSUME NEW n \in Messages \ expired'
             PROVE  (Unclaimed(n) /\ Used(n) /\ OneHolder(n) /\ \A r \in Runs : OneList(r, n))'
  BY DEF Exclusive
<1>1. Unclaimed(n) /\ Used(n) /\ OneHolder(n) /\ \A r \in Runs : OneList(r, n)
  BY DEF Exclusive
<1>2. \A r \in Runs : n \in Held(r)' => n \in Held(r)
  BY DEF Held
<1>3. Unclaimed(n)'
  BY <1>1, <1>2 DEF Unclaimed
<1>4. Used(n)' /\ OneHolder(n)'
  BY <1>1, <1>2 DEF Used, OneHolder
<1>5. \A r \in Runs : OneList(r, n)'
  BY <1>1 DEF OneList
<1> QED BY <1>3, <1>4, <1>5

\* A claim under way that may have reached Redis removes no key.
LEMMA UnackedKeeps ==
    ASSUME Typed, AtCursor, NEW r \in Runs, ClaimUnacked(r), NEW n \in Messages,
           claim'[n] = None
    PROVE  claim[n] = None
BY BusAssumption DEF Typed, AtCursor, ClaimUnacked

LEMMA ClaimExclusive ==
    ASSUME Typed, Typed', AtCursor, Exclusive, NEW r \in Runs, Claim(r)
    PROVE  Exclusive'
<1> DEFINE c == cursor[r]
           res == IF claim[c] = None THEN got[r] \cup {c} ELSE got[r]
<1>1. c \in Messages
  BY DEF Claim, AtCursor, Typed
<1>2. /\ arrivals' = arrivals /\ imported' = imported /\ expired' = expired
      /\ \A n \in Messages \ {c} : claim'[n] = claim[n]
      /\ claim'[c] # None
  <2>1. /\ claim' = [claim EXCEPT ![c] = IF @ = None THEN r ELSE @]
        /\ UNCHANGED <<drainVars, imported, expired>>
    BY DEF Claim
  <2>2. claim \in [Messages -> Runs \cup {None}] /\ r # None
    BY BusAssumption DEF Typed
  <2> QED BY <1>1, <2>1, <2>2 DEF drainVars
<1>3. \A q \in Runs \ {r} : got'[q] = got[q] /\ buffer'[q] = buffer[q]
  <2>1. Proceed(r, res)
    BY DEF Claim
  <2> HIDE DEF res
  <2>2. /\ got' = [got EXCEPT ![r] = res] \/ got' = [got EXCEPT ![r] = {}]
        /\ buffer' = buffer \/ buffer' = [buffer EXCEPT ![r] = Received(r, res)]
    BY <2>1 DEF Proceed
  <2>3. got \in [Runs -> SUBSET Messages] /\ buffer \in [Runs -> SUBSET Messages]
    BY DEF Typed
  <2> QED BY <2>2, <2>3
<1>4. \/ got'[r] = res /\ buffer'[r] = buffer[r]
      \/ got'[r] = {} /\ buffer'[r] \subseteq buffer[r] \cup res
  <2>1. Received(r, res) \subseteq buffer[r] \cup res
    BY ReceivedWithin
  <2>2. Proceed(r, res)
    BY DEF Claim
  <2> HIDE DEF res
  <2> QED BY <2>1, <2>2 DEF Proceed, Typed
<1> SUFFICES ASSUME NEW n \in Messages \ expired
             PROVE  (Unclaimed(n) /\ Used(n) /\ OneHolder(n) /\ \A q \in Runs : OneList(q, n))'
  BY <1>2 DEF Exclusive
<1>5. Unclaimed(n) /\ Used(n) /\ OneHolder(n) /\ \A q \in Runs : OneList(q, n)
  BY DEF Exclusive
<1>6. CASE n = c /\ claim[c] = None
  <2>1. imported[n] = 0 /\ \A q \in Runs : n \notin Held(q)
    BY <1>5, <1>6 DEF Unclaimed
  <2>2. \A q \in Runs \ {r} : n \notin Held(q)'
    BY <2>1, <1>2, <1>3 DEF Held
  <2>3. OneList(r, n)'
    BY <2>1, <1>2, <1>4 DEF OneList, Held
  <2>4. \A q \in Runs : OneList(q, n)'
    BY <2>2, <2>3 DEF OneList, Held
  <2>5. Unclaimed(n)' /\ Used(n)' /\ OneHolder(n)'
    BY <2>1, <2>2, <1>2, <1>6 DEF Unclaimed, Used, OneHolder
  <2> QED BY <2>4, <2>5
<1>7. CASE ~(n = c /\ claim[c] = None)
  <2>1. n \in res => n \in got[r]
    BY <1>7
  <2>2. \A q \in Runs : n \in Held(q)' => n \in Held(q)
    BY <2>1, <1>2, <1>3, <1>4 DEF Held
  <2>3. claim'[n] = None => claim[n] = None
    BY <1>2
  <2>4. \A q \in Runs : OneList(q, n)'
    BY <2>1, <1>2, <1>3, <1>4, <1>5 DEF OneList
  <2>5. Unclaimed(n)' /\ Used(n)' /\ OneHolder(n)'
    BY <2>2, <2>3, <1>2, <1>5 DEF Unclaimed, Used, OneHolder
  <2> QED BY <2>4, <2>5
<1> QED BY <1>6, <1>7

LEMMA DrainExclusive ==
    ASSUME Typed, Typed', Rested, Exclusive, NEW r \in Runs, Drain(r)
    PROVE  Exclusive'
<1> DEFINE O == Oldest(buffer[r], MaxImports)
<1>1. /\ got' = got /\ claim' = claim /\ imported' = imported /\ expired' = expired
      /\ arrivals'[r] = O /\ buffer'[r] = buffer[r] \ O
      /\ \A q \in Runs \ {r} : arrivals'[q] = arrivals[q] /\ buffer'[q] = buffer[q]
  BY DEF Drain, Typed, redisVars, histVars
<1>2. O \subseteq buffer[r]
  BY DEF Oldest
<1>3. arrivals[r] = {}
  BY DEF Drain, Rested
<1> HIDE DEF O
<1> SUFFICES ASSUME NEW n \in Messages \ expired
             PROVE  (Unclaimed(n) /\ Used(n) /\ OneHolder(n) /\ \A q \in Runs : OneList(q, n))'
  BY <1>1 DEF Exclusive
<1>4. Unclaimed(n) /\ Used(n) /\ OneHolder(n) /\ \A q \in Runs : OneList(q, n)
  BY DEF Exclusive
<1>5. \A q \in Runs : n \in Held(q)' => n \in Held(q)
  BY <1>1, <1>2 DEF Held
<1>6. \A q \in Runs : OneList(q, n)'
  BY <1>1, <1>2, <1>3, <1>4 DEF OneList
<1> QED BY <1>1, <1>4, <1>5, <1>6 DEF Unclaimed, Used, OneHolder

LEMMA ImportExclusive ==
    ASSUME Typed, Typed', Exclusive, NEW r \in Runs, Import(r)
    PROVE  Exclusive'
<1>1. PICK m \in arrivals[r] : NextArrival(r, m) /\ imported' = [imported EXCEPT ![m] = @ + 1]
  BY DEF Import
<1>2. /\ m \in Messages /\ m \in Held(r)
      /\ got' = got /\ buffer' = buffer /\ claim' = claim /\ expired' = expired
      /\ arrivals'[r] = arrivals[r] \ {m}
      /\ \A q \in Runs \ {r} : arrivals'[q] = arrivals[q]
      /\ imported'[m] = imported[m] + 1
      /\ \A n \in Messages \ {m} : imported'[n] = imported[n]
  BY <1>1 DEF NextArrival, Typed, Held, redisVars, pollVars
<1> SUFFICES ASSUME NEW n \in Messages \ expired
             PROVE  (Unclaimed(n) /\ Used(n) /\ OneHolder(n) /\ \A q \in Runs : OneList(q, n))'
  BY <1>2 DEF Exclusive
<1>3. Unclaimed(n) /\ Used(n) /\ OneHolder(n) /\ \A q \in Runs : OneList(q, n)
  BY DEF Exclusive
<1>4. \A q \in Runs : n \in Held(q)' => n \in Held(q)
  BY <1>2 DEF Held
<1>5. \A q \in Runs : OneList(q, n)'
  BY <1>2, <1>3 DEF OneList
<1>6. OneHolder(n)'
  BY <1>3, <1>4 DEF OneHolder
<1>7. CASE n = m
  <2>1. imported[n] = 0
    <3>1. imported[n] # 1 /\ imported[n] <= 1
      BY <1>2, <1>3, <1>7 DEF Used
    <3>2. imported[n] \in Nat
      BY DEF Typed
    <3> QED BY <3>1, <3>2
  <2>2. claim'[n] # None
    BY <1>2, <1>3, <1>7 DEF Unclaimed
  <2>3. \A q \in Runs : n \notin Held(q)'
    BY <1>2, <1>3, <1>7 DEF OneHolder, OneList, Held
  <2> QED BY <2>1, <2>2, <2>3, <1>2, <1>5, <1>6, <1>7 DEF Unclaimed, Used
<1>8. CASE n # m
  BY <1>2, <1>3, <1>4, <1>5, <1>6, <1>8 DEF Unclaimed, Used
<1> QED BY <1>7, <1>8

LEMMA ExclusiveStep == BusInvariant /\ Typed' /\ [Next]_vars => Exclusive'
<1> SUFFICES ASSUME Typed, AtCursor, Rested, Exclusive, Typed', [Next]_vars PROVE Exclusive'
  BY DEF BusInvariant
<1>1. ASSUME NEW r \in Runs, Start(r) \/ Publish(r) \/ XRead(r) \/ SaveCursor(r)
      PROVE  Exclusive'
  BY <1>1, OnlyLess DEF Start, Publish, XRead, SaveCursor, redisVars, pollVars, drainVars, histVars
<1>2. ASSUME NEW r \in Runs, Claim(r) PROVE Exclusive'
  BY <1>2, ClaimExclusive
<1>3. ASSUME NEW r \in Runs, ClaimFails(r) \/ StopNode(r) PROVE Exclusive'
  <2>1. ClaimUnacked(r)
    BY <1>3 DEF ClaimFails, StopNode
  <2>2. \A n \in Messages \ expired' : claim'[n] = None => claim[n] = None
    BY <2>1, UnackedKeeps
  <2>3. /\ UNCHANGED <<buffer, arrivals, imported, expired>>
        /\ \A q \in Runs : got'[q] \subseteq got[q]
    BY <1>3 DEF ClaimFails, StopNode, Typed, drainVars
  <2> QED BY <2>2, <2>3, OnlyLess
<1>4. ASSUME NEW r \in Runs, Drain(r) PROVE Exclusive'
  BY <1>4, DrainExclusive
<1>5. ASSUME NEW r \in Runs, Import(r) PROVE Exclusive'
  BY <1>5, ImportExclusive
<1>6. ASSUME NEW r \in Runs, Refuse(r) PROVE Exclusive'
  <2>1. /\ UNCHANGED <<claim, got, buffer, imported, expired>>
        /\ \A q \in Runs : arrivals'[q] \subseteq arrivals[q]
    BY <1>6 DEF Refuse, NextArrival, Typed, redisVars, pollVars
  <2> QED BY <2>1, OnlyLess
<1>7. ASSUME NEW r \in Runs, EndDrain(r) PROVE Exclusive'
  <2>1. /\ UNCHANGED <<claim, got, buffer, imported, expired>>
        /\ \A q \in Runs : arrivals'[q] \subseteq arrivals[q]
    BY <1>7 DEF EndDrain, Typed, redisVars, pollVars
  <2> QED BY <2>1, OnlyLess
<1>8. ASSUME NEW r \in Runs, Exit(r) \/ Crash(r) PROVE Exclusive'
  <2>1. \A n \in Messages \ expired' : claim'[n] = None => claim[n] = None
    BY <1>8, UnackedKeeps DEF Exit, Crash
  <2>2. /\ UNCHANGED <<imported, expired>> /\ got' = [got EXCEPT ![r] = {}]
        /\ buffer' = [buffer EXCEPT ![r] = {}] /\ arrivals' = [arrivals EXCEPT ![r] = {}]
    BY <1>8 DEF Exit, Crash, Die
  <2>3. \A q \in Runs : /\ got'[q] \subseteq got[q] /\ buffer'[q] \subseteq buffer[q]
                       /\ arrivals'[q] \subseteq arrivals[q]
    <3>1. /\ got \in [Runs -> SUBSET Messages] /\ buffer \in [Runs -> SUBSET Messages]
          /\ arrivals \in [Runs -> SUBSET Messages]
      BY DEF Typed
    <3> QED BY <2>2, <3>1
  <2> QED BY <2>1, <2>2, <2>3, OnlyLess
<1>9. ASSUME NEW m \in Messages, Expire(m) PROVE Exclusive'
  <2>1. /\ UNCHANGED <<got, buffer, arrivals, imported>> /\ expired' = expired \cup {m}
        /\ \A n \in Messages \ {m} : claim'[n] = claim[n]
    BY <1>9 DEF Expire, Typed, pollVars, drainVars
  <2> QED BY <2>1, OnlyLess
<1>10. ASSUME UNCHANGED vars PROVE Exclusive'
  BY <1>10, OnlyLess DEF vars, redisVars, pollVars, drainVars, histVars
<1> QED
  BY <1>1, <1>2, <1>3, <1>4, <1>5, <1>6, <1>7, <1>8, <1>9, <1>10 DEF Next, XReadNothing

---------------------------------------------------------------------------
\* SET NX EX (transport.py 186-193): whatever the number of runs, crashes,
\* restarts from an old cursor and lost answers, a message whose claim key has
\* not expired is stored by one run, once.
THEOREM ClaimsExclude == Spec => []ImportedOnce
<1>1. BusInvariant /\ [Next]_vars => BusInvariant'
  BY TypeStep, CursorStep, RestStep, ExclusiveStep DEF BusInvariant
<1>2. BusInvariant => ImportedOnce
  BY DEF BusInvariant, Exclusive, Used, ImportedOnce
<1> QED BY Begin, <1>1, <1>2, PTL DEF Spec

---------------------------------------------------------------------------
(* What a step changes of the other runs, of the stream and of the history *)

SameRun(q) ==
    /\ pc'[q] = pc[q] /\ cursor'[q] = cursor[q] /\ upto'[q] = upto[q] /\ saved'[q] = saved[q]
    /\ todo'[q] = todo[q] /\ got'[q] = got[q] /\ buffer'[q] = buffer[q] /\ arrivals'[q] = arrivals[q]

StepOf(r) ==
    \/ Start(r) \/ XRead(r) \/ Claim(r) \/ ClaimFails(r)
    \/ Drain(r) \/ Import(r) \/ Refuse(r)
    \/ EndDrain(r) \/ StopNode(r) \/ SaveCursor(r) \/ Exit(r) \/ Crash(r)

LEMMA FunctionTypes ==
    ASSUME Typed
    PROVE  /\ saved \in [Runs -> Nat] /\ cursor \in [Runs -> Nat] /\ upto \in [Runs -> Nat]
           /\ pc \in [Runs -> Up \cup {"down"}]
           /\ todo \in [Runs -> SUBSET Messages] /\ got \in [Runs -> SUBSET Messages]
           /\ buffer \in [Runs -> SUBSET Messages] /\ arrivals \in [Runs -> SUBSET Messages]
           /\ imported \in [Messages -> Nat] /\ claim \in [Messages -> Runs \cup {None}]
           /\ Len(stream) \in Nat /\ Len(stream) <= MaxMessages
  BY DEF Typed

LEMMA ProceedEffect ==
    ASSUME Typed, NEW r \in Runs, NEW res, Proceed(r, res)
    PROVE  /\ todo'[r] = todo[r] \ {cursor[r]}
           /\ \A q \in Runs : q # r =>
                 /\ pc'[q] = pc[q] /\ cursor'[q] = cursor[q]
                 /\ todo'[q] = todo[q] /\ got'[q] = got[q] /\ buffer'[q] = buffer[q]
           /\ \/ /\ todo'[r] # {} /\ cursor'[r] \in First(todo'[r])
                 /\ got'[r] = res /\ UNCHANGED <<pc, buffer, gone>>
              \/ /\ todo'[r] = {} /\ cursor'[r] = upto[r] /\ got'[r] = {} /\ pc'[r] = "idle"
                 /\ buffer'[r] = Received(r, res) /\ gone' = gone \cup (res \ Received(r, res))
<1>1. todo' = [todo EXCEPT ![r] = todo[r] \ {cursor[r]}]
  BY DEF Proceed
<1>2. todo'[r] = todo[r] \ {cursor[r]} /\ \A q \in Runs : q # r => todo'[q] = todo[q]
  BY <1>1, FunctionTypes
<1>3. CASE todo[r] \ {cursor[r]} # {}
  <2>1. PICK n \in First(todo[r] \ {cursor[r]}) : cursor' = [cursor EXCEPT ![r] = n]
    BY <1>3 DEF Proceed
  <2>2. got' = [got EXCEPT ![r] = res] /\ UNCHANGED <<pc, buffer, gone>>
    BY <1>3 DEF Proceed
  <2>3. cursor'[r] = n /\ got'[r] = res
    BY <2>1, <2>2, FunctionTypes
  <2>4. \A q \in Runs : q # r => cursor'[q] = cursor[q] /\ got'[q] = got[q]
    BY <2>1, <2>2, FunctionTypes
  <2> QED BY <1>2, <1>3, <2>1, <2>2, <2>3, <2>4
<1>4. CASE todo[r] \ {cursor[r]} = {}
  <2>1. /\ cursor' = [cursor EXCEPT ![r] = upto[r]] /\ got' = [got EXCEPT ![r] = {}]
        /\ buffer' = [buffer EXCEPT ![r] = Received(r, res)]
        /\ gone' = gone \cup (res \ Received(r, res))
        /\ pc' = [pc EXCEPT ![r] = "idle"]
    BY <1>4 DEF Proceed
  <2>2. /\ cursor'[r] = upto[r] /\ got'[r] = {} /\ buffer'[r] = Received(r, res) /\ pc'[r] = "idle"
    BY <2>1, FunctionTypes
  <2>3. \A q \in Runs : q # r =>
           pc'[q] = pc[q] /\ cursor'[q] = cursor[q] /\ got'[q] = got[q] /\ buffer'[q] = buffer[q]
    BY <2>1, FunctionTypes
  <2> QED BY <1>2, <1>4, <2>1, <2>2, <2>3
<1> QED BY <1>3, <1>4

LEMMA XReadEffect ==
    ASSUME Typed, NEW r \in Runs, XRead(r)
    PROVE  /\ pc[r] = "idle"
           /\ todo'[r] = {n \in Response(r) : Accepts(r, n)}
           /\ upto'[r] \in Last(Response(r))
           /\ \/ todo'[r] = {} /\ cursor'[r] = upto'[r] /\ pc'[r] = "idle"
              \/ todo'[r] # {} /\ cursor'[r] \in First(todo'[r]) /\ pc'[r] = "claiming"
           /\ \A q \in Runs : q # r => SameRun(q)
           /\ UNCHANGED <<topology, redisVars, got, buffer, drainVars, bounds, histVars>>
<1> DEFINE mine == {n \in Response(r) : Accepts(r, n)}
<1>1. PICK last \in Last(Response(r)) :
        /\ upto' = [upto EXCEPT ![r] = last]
        /\ \E n \in (IF mine = {} THEN {last} ELSE First(mine)) :
              cursor' = [cursor EXCEPT ![r] = n]
  BY DEF XRead
<1>2. PICK n \in (IF mine = {} THEN {last} ELSE First(mine)) : cursor' = [cursor EXCEPT ![r] = n]
  BY <1>1
<1>3. /\ pc[r] = "idle" /\ todo' = [todo EXCEPT ![r] = mine]
      /\ pc' = [pc EXCEPT ![r] = IF mine = {} THEN "idle" ELSE "claiming"]
      /\ UNCHANGED <<topology, redisVars, got, buffer, drainVars, bounds, histVars>>
  BY DEF XRead
<1> HIDE DEF mine
<1>4. /\ todo'[r] = mine /\ upto'[r] = last /\ cursor'[r] = n
      /\ pc'[r] = IF mine = {} THEN "idle" ELSE "claiming"
  BY <1>1, <1>2, <1>3, FunctionTypes
<1>5. ASSUME NEW q \in Runs, q # r PROVE SameRun(q)
  <2>1. pc'[q] = pc[q] /\ cursor'[q] = cursor[q] /\ upto'[q] = upto[q] /\ todo'[q] = todo[q]
    BY <1>1, <1>2, <1>3, <1>5, FunctionTypes
  <2> QED BY <1>3, <2>1 DEF SameRun, redisVars, drainVars
<1>6. \/ todo'[r] = {} /\ cursor'[r] = upto'[r] /\ pc'[r] = "idle"
      \/ todo'[r] # {} /\ cursor'[r] \in First(todo'[r]) /\ pc'[r] = "claiming"
  BY <1>2, <1>4
<1> QED BY <1>1, <1>3, <1>4, <1>5, <1>6 DEF mine

LEMMA ClaimEffect ==
    ASSUME Typed, AtCursor, NEW r \in Runs, Claim(r)
    PROVE  /\ pc[r] = "claiming" /\ cursor[r] \in todo[r] /\ cursor[r] \in Messages
           /\ \A n \in Messages : claim'[n] # None => claim[n] # None \/ n = cursor[r]
           /\ ever' = ever \cup {cursor[r]}
           /\ Proceed(r, IF claim[cursor[r]] = None THEN got[r] \cup {cursor[r]} ELSE got[r])
           /\ \A q \in Runs : q # r => SameRun(q)
           /\ UNCHANGED <<topology, stream, trimmed, saved, upto, drainVars, bounds, imported, expired>>
<1> DEFINE res == IF claim[cursor[r]] = None THEN got[r] \cup {cursor[r]} ELSE got[r]
<1>1. /\ pc[r] = "claiming" /\ ever' = ever \cup {cursor[r]} /\ Proceed(r, res)
      /\ claim' = [claim EXCEPT ![cursor[r]] = IF @ = None THEN r ELSE @]
      /\ UNCHANGED <<topology, stream, trimmed, saved, upto, drainVars, bounds, imported, expired>>
  BY DEF Claim
<1>2. cursor[r] \in todo[r] /\ cursor[r] \in Messages
  BY <1>1, FunctionTypes DEF AtCursor
<1>3. \A n \in Messages : claim'[n] # None => claim[n] # None \/ n = cursor[r]
  BY <1>1, <1>2, FunctionTypes
<1> HIDE DEF res
<1>4. \A q \in Runs : q # r => SameRun(q)
  BY <1>1, ProceedEffect DEF SameRun, drainVars
<1> QED BY <1>1, <1>2, <1>3, <1>4 DEF res

\* The end of a response in work, of a process, of a drain loop.
LEMMA UnackedEffect ==
    ASSUME Typed, AtCursor, NEW r \in Runs, ClaimUnacked(r)
    PROVE  /\ ever \subseteq ever' /\ ever' \subseteq ever \cup InWork(r)
           /\ \A n \in Messages : claim'[n] # None => claim[n] # None \/ n \in ever'
<1>1. CASE UNCHANGED <<claim, ever>>
  BY <1>1
<1>2. CASE /\ pc[r] = "claiming" /\ claim' = [claim EXCEPT ![cursor[r]] = r]
           /\ ever' = ever \cup {cursor[r]}
  <2>1. cursor[r] \in Messages
    BY <1>2, FunctionTypes DEF AtCursor
  <2>2. \A n \in Messages : n # cursor[r] => claim'[n] = claim[n]
    BY <1>2, <2>1, FunctionTypes
  <2> QED BY <1>2, <2>2 DEF InWork
<1> QED BY <1>1, <1>2 DEF ClaimUnacked

LEMMA BreakEffect ==
    ASSUME Typed, NEW r \in Runs, ClaimFails(r) \/ StopNode(r)
    PROVE  /\ pc[r] \in Polling /\ pc'[r] \in {"idle", "saving"}
           /\ ClaimUnacked(r) /\ gone' = gone \cup InWork(r)
           /\ todo'[r] = {} /\ got'[r] = {}
           /\ \A q \in Runs : q # r => SameRun(q)
           /\ UNCHANGED <<topology, stream, trimmed, saved, cursor, upto, buffer, arrivals, lives, imported>>
<1>1. /\ ClaimUnacked(r) /\ gone' = gone \cup InWork(r) /\ pc[r] \in Polling
      /\ todo' = [todo EXCEPT ![r] = {}] /\ got' = [got EXCEPT ![r] = {}]
      /\ UNCHANGED <<topology, stream, trimmed, saved, cursor, upto, buffer, drainVars, lives, imported>>
  BY DEF ClaimFails, StopNode, Polling
<1>2. PICK p \in {"idle", "saving"} : pc' = [pc EXCEPT ![r] = p]
  BY DEF ClaimFails, StopNode
<1>3. pc'[r] = p /\ todo'[r] = {} /\ got'[r] = {}
  BY <1>1, <1>2, FunctionTypes
<1>4. ASSUME NEW q \in Runs, q # r PROVE SameRun(q)
  <2>1. pc'[q] = pc[q] /\ todo'[q] = todo[q] /\ got'[q] = got[q]
    BY <1>1, <1>2, <1>4, FunctionTypes
  <2> QED BY <1>1, <2>1 DEF SameRun, drainVars
<1> QED BY <1>1, <1>2, <1>3, <1>4 DEF drainVars

LEMMA DieEffect ==
    ASSUME Typed, NEW r \in Runs, Die(r)
    PROVE  /\ pc'[r] = "down" /\ todo'[r] = {} /\ got'[r] = {} /\ buffer'[r] = {} /\ arrivals'[r] = {}
           /\ gone' = gone \cup InWork(r) \cup buffer[r] \cup arrivals[r]
           /\ \A q \in Runs : q # r => SameRun(q)
           /\ UNCHANGED <<topology, stream, trimmed, saved, cursor, upto, lives, imported>>
<1>1. /\ pc' = [pc EXCEPT ![r] = "down"]
      /\ todo' = [todo EXCEPT ![r] = {}] /\ got' = [got EXCEPT ![r] = {}]
      /\ buffer' = [buffer EXCEPT ![r] = {}] /\ arrivals' = [arrivals EXCEPT ![r] = {}]
      /\ gone' = gone \cup InWork(r) \cup buffer[r] \cup arrivals[r]
      /\ UNCHANGED <<topology, stream, trimmed, saved, cursor, upto, lives, imported>>
  BY DEF Die
<1>2. pc'[r] = "down" /\ todo'[r] = {} /\ got'[r] = {} /\ buffer'[r] = {} /\ arrivals'[r] = {}
  BY <1>1, FunctionTypes
<1>3. ASSUME NEW q \in Runs, q # r PROVE SameRun(q)
  <2>1. pc'[q] = pc[q] /\ todo'[q] = todo[q] /\ got'[q] = got[q]
    BY <1>1, <1>3, FunctionTypes
  <2>2. buffer'[q] = buffer[q] /\ arrivals'[q] = arrivals[q]
    BY <1>1, <1>3, FunctionTypes
  <2> QED BY <1>1, <2>1, <2>2 DEF SameRun
<1> QED BY <1>1, <1>2, <1>3

LEMMA DrainEffect ==
    ASSUME Typed, NEW r \in Runs, Drain(r)
    PROVE  /\ arrivals'[r] \cup buffer'[r] = buffer[r] /\ buffer'[r] \subseteq buffer[r]
           /\ importer[r] = "idle"
           /\ \A q \in Runs : q # r => SameRun(q)
           /\ UNCHANGED <<topology, redisVars, pc, cursor, upto, todo, got, bounds, histVars>>
<1>1. /\ arrivals' = [arrivals EXCEPT ![r] = Oldest(buffer[r], MaxImports)]
      /\ buffer' = [buffer EXCEPT ![r] = buffer[r] \ Oldest(buffer[r], MaxImports)]
      /\ importer[r] = "idle"
      /\ UNCHANGED <<topology, redisVars, pc, cursor, upto, todo, got, bounds, histVars>>
  BY DEF Drain
<1>2. /\ arrivals'[r] = Oldest(buffer[r], MaxImports)
      /\ buffer'[r] = buffer[r] \ Oldest(buffer[r], MaxImports)
      /\ \A q \in Runs : q # r => arrivals'[q] = arrivals[q] /\ buffer'[q] = buffer[q]
  BY <1>1, FunctionTypes
<1>3. Oldest(buffer[r], MaxImports) \subseteq buffer[r]
  BY OldestWithin
<1>4. \A q \in Runs : q # r => SameRun(q)
  BY <1>1, <1>2 DEF SameRun, redisVars
<1> QED BY <1>1, <1>2, <1>3, <1>4

\* An arrival is imported or refused.
LEMMA ArrivalEffect ==
    ASSUME Typed, NEW r \in Runs, Import(r) \/ Refuse(r)
    PROVE  \E n \in arrivals[r] :
              /\ n \in Messages /\ arrivals'[r] = arrivals[r] \ {n}
              /\ \/ /\ imported'[n] = imported[n] + 1 /\ gone' = gone
                    /\ \A m \in Messages : m # n => imported'[m] = imported[m]
                 \/ imported' = imported /\ gone' = gone \cup {n}
              /\ \A q \in Runs : q # r => SameRun(q)
              /\ UNCHANGED <<topology, redisVars, pollVars, bounds, ever>>
<1>1. PICK n \in arrivals[r] :
         /\ NextArrival(r, n)
         /\ \/ imported' = [imported EXCEPT ![n] = @ + 1] /\ gone' = gone
            \/ imported' = imported /\ gone' = gone \cup {n}
  BY DEF Import, Refuse
<1>2. n \in Messages
  BY FunctionTypes
<1>3. /\ arrivals' = [arrivals EXCEPT ![r] = @ \ {n}]
      /\ UNCHANGED <<topology, redisVars, pollVars, bounds, ever>>
  BY <1>1 DEF NextArrival
<1>4. arrivals'[r] = arrivals[r] \ {n} /\ \A q \in Runs : q # r => arrivals'[q] = arrivals[q]
  BY <1>3, FunctionTypes
<1>5. \A q \in Runs : q # r => SameRun(q)
  BY <1>3, <1>4 DEF SameRun, redisVars, pollVars
<1>6. \/ /\ imported'[n] = imported[n] + 1 /\ gone' = gone
         /\ \A m \in Messages : m # n => imported'[m] = imported[m]
      \/ imported' = imported /\ gone' = gone \cup {n}
  BY <1>1, <1>2, FunctionTypes
<1> QED BY <1>2, <1>3, <1>4, <1>5, <1>6

LEMMA EndDrainEffect ==
    ASSUME Typed, NEW r \in Runs, EndDrain(r)
    PROVE  /\ arrivals'[r] = {} /\ gone' = gone \cup arrivals[r]
           /\ \A q \in Runs : q # r => SameRun(q)
           /\ UNCHANGED <<topology, redisVars, pollVars, lives, imported, ever>>
<1>1. /\ arrivals' = [arrivals EXCEPT ![r] = {}] /\ gone' = gone \cup arrivals[r]
      /\ UNCHANGED <<topology, redisVars, pollVars, lives, imported, ever>>
  BY DEF EndDrain
<1>2. arrivals'[r] = {} /\ \A q \in Runs : q # r => arrivals'[q] = arrivals[q]
  BY <1>1, FunctionTypes
<1> QED BY <1>1, <1>2 DEF SameRun, redisVars, pollVars

LEMMA SaveCursorEffect ==
    ASSUME Typed, NEW r \in Runs, SaveCursor(r)
    PROVE  /\ pc[r] = "saving" /\ pc'[r] \in {"stopped", "unsaved"}
           /\ saved'[r] = cursor[r] \/ saved'[r] = saved[r]
           /\ \A q \in Runs : q # r => SameRun(q)
           /\ UNCHANGED <<topology, stream, trimmed, claim, cursor, upto, todo, got, buffer, arrivals,
                          lives, histVars>>
<1>1. \/ saved' = [saved EXCEPT ![r] = cursor[r]] /\ pc' = [pc EXCEPT ![r] = "stopped"]
      \/ saved' = saved /\ pc' = [pc EXCEPT ![r] = "unsaved"]
  BY DEF SaveCursor
<1>2. /\ pc[r] = "saving"
      /\ UNCHANGED <<topology, stream, trimmed, claim, cursor, upto, todo, got, buffer, drainVars,
                     lives, histVars>>
  BY DEF SaveCursor
<1>3. /\ pc'[r] \in {"stopped", "unsaved"}
      /\ saved'[r] = cursor[r] \/ saved'[r] = saved[r]
      /\ \A q \in Runs : q # r => pc'[q] = pc[q] /\ saved'[q] = saved[q]
  BY <1>1, FunctionTypes
<1>4. \A q \in Runs : q # r => SameRun(q)
  BY <1>2, <1>3 DEF SameRun, drainVars
<1> QED BY <1>2, <1>3, <1>4 DEF drainVars

LEMMA StartEffect ==
    ASSUME Typed, NEW r \in Runs, Start(r)
    PROVE  /\ pc[r] = "down" /\ pc'[r] = "idle" /\ cursor'[r] = saved[r]
           /\ \A q \in Runs : q # r => SameRun(q)
           /\ UNCHANGED <<topology, redisVars, upto, todo, got, buffer, arrivals, faults, histVars>>
<1>1. /\ pc[r] = "down" /\ pc' = [pc EXCEPT ![r] = "idle"] /\ cursor' = [cursor EXCEPT ![r] = saved[r]]
      /\ UNCHANGED <<topology, redisVars, upto, todo, got, buffer, arrivals, faults, histVars>>
  BY DEF Start
<1>2. /\ pc'[r] = "idle" /\ cursor'[r] = saved[r]
      /\ \A q \in Runs : q # r => pc'[q] = pc[q] /\ cursor'[q] = cursor[q]
  BY <1>1, FunctionTypes
<1> QED BY <1>1, <1>2 DEF SameRun, redisVars

\* What a claim hands on are messages, of the response in work.
LEMMA ClaimTakes ==
    ASSUME Typed, AtCursor, NEW r \in Runs, Claim(r)
    PROVE  \E res \in SUBSET Messages : res \subseteq got[r] \cup {cursor[r]} /\ Proceed(r, res)
<1> DEFINE res == IF claim[cursor[r]] = None THEN got[r] \cup {cursor[r]} ELSE got[r]
<1>1. Proceed(r, res) /\ cursor[r] \in Messages
  BY ClaimEffect
<1>2. got[r] \subseteq Messages
  BY FunctionTypes
<1>3. res \subseteq got[r] \cup {cursor[r]}
  OBVIOUS
<1> HIDE DEF res
<1>4. res \in SUBSET Messages
  BY <1>1, <1>2, <1>3
<1> QED BY <1>1, <1>3, <1>4

LEMMA StepKinds ==
    [Next]_vars => \/ \E r \in Runs : StepOf(r)
                   \/ \E r \in Runs : Publish(r)
                   \/ \E n \in Messages : Expire(n)
                   \/ UNCHANGED vars
  BY DEF Next, StepOf, XReadNothing

\* A step of a run leaves the stream alone, and adds to the history at most.
LEMMA StepKeeps ==
    ASSUME Typed, AtCursor, NEW r \in Runs, StepOf(r)
    PROVE  /\ UNCHANGED <<topology, stream, trimmed>>
           /\ ever \subseteq ever' /\ gone \subseteq gone'
           /\ \A q \in Runs : q # r => SameRun(q)
<1>1. CASE Start(r)
  BY <1>1, StartEffect DEF redisVars, histVars
<1>2. CASE XRead(r)
  BY <1>2, XReadEffect DEF redisVars, histVars
<1>3. CASE Claim(r)
  <2>1. PICK res : Proceed(r, res)
    BY <1>3, ClaimEffect
  <2>2. gone \subseteq gone'
    BY <2>1, ProceedEffect
  <2> QED BY <1>3, <2>2, ClaimEffect
<1>4. CASE ClaimFails(r) \/ StopNode(r)
  BY <1>4, BreakEffect, UnackedEffect
<1>5. CASE Drain(r)
  BY <1>5, DrainEffect DEF redisVars, histVars
<1>6. CASE Import(r) \/ Refuse(r)
  BY <1>6, ArrivalEffect DEF redisVars
<1>7. CASE EndDrain(r)
  BY <1>7, EndDrainEffect DEF redisVars
<1>8. CASE SaveCursor(r)
  BY <1>8, SaveCursorEffect DEF histVars
<1>9. CASE Exit(r) \/ Crash(r)
  <2>1. Die(r) /\ ever \subseteq ever'
    BY <1>9, UnackedEffect DEF Exit, Crash
  <2> QED BY <2>1, DieEffect
<1> QED BY <1>1, <1>2, <1>3, <1>4, <1>5, <1>6, <1>7, <1>8, <1>9 DEF StepOf

LEMMA PublishEffect ==
    ASSUME Typed, Framed, NEW r \in Runs, Publish(r)
    PROVE  /\ Len(stream') = Len(stream) + 1 /\ Len(stream) < MaxMessages
           /\ \A n \in 1 .. Len(stream) : stream'[n] = stream[n]
           /\ trimmed' \in trimmed .. Len(stream')
           /\ UNCHANGED <<topology, claim, saved, pollVars, drainVars, bounds, histVars>>
<1>1. stream \in Seq(Runs) /\ stream' = Append(stream, r)
  BY DEF Publish, Typed
<1>2. Len(stream') = Len(stream) + 1 /\ \A n \in 1 .. Len(stream) : stream'[n] = stream[n]
  BY <1>1
<1>3. trimmed' \in trimmed .. Len(stream) + 1
  BY DEF Publish
<1> QED BY <1>2, <1>3 DEF Publish

\* Whether a message in the stream is for a run does not change.
LEMMA StreamKept ==
    ASSUME Typed, AtCursor, Framed, [Next]_vars
    PROVE  /\ topology' = topology /\ trimmed <= trimmed'
           /\ Len(stream) <= Len(stream')
           /\ \A q \in Runs : \A n \in 1 .. Len(stream) : Accepts(q, n)' = Accepts(q, n)
           /\ ever \subseteq ever' /\ gone \subseteq gone'
<1>1. Len(stream) \in Nat /\ trimmed \in Nat
  BY DEF Typed, Framed
<1>2. ASSUME UNCHANGED <<topology, stream, trimmed>>, ever \subseteq ever', gone \subseteq gone'
      PROVE  /\ topology' = topology /\ trimmed <= trimmed'
             /\ Len(stream) <= Len(stream')
             /\ \A q \in Runs : \A n \in 1 .. Len(stream) : Accepts(q, n)' = Accepts(q, n)
             /\ ever \subseteq ever' /\ gone \subseteq gone'
  BY <1>1, <1>2 DEF Accepts
<1>3. CASE \E r \in Runs : StepOf(r)
  BY <1>2, <1>3, StepKeeps
<1>4. ASSUME NEW r \in Runs, Publish(r)
      PROVE  /\ topology' = topology /\ trimmed <= trimmed'
             /\ Len(stream) <= Len(stream')
             /\ \A q \in Runs : \A n \in 1 .. Len(stream) : Accepts(q, n)' = Accepts(q, n)
             /\ ever \subseteq ever' /\ gone \subseteq gone'
  BY <1>1, <1>4, PublishEffect DEF Accepts, histVars
<1>5. CASE \E n \in Messages : Expire(n)
  BY <1>2, <1>5 DEF Expire
<1>6. CASE UNCHANGED vars
  BY <1>2, <1>6 DEF vars, redisVars, histVars
<1> QED BY <1>3, <1>4, <1>5, <1>6, StepKinds

LEMMA StrikesTyped ==
    ASSUME faults \in 0 .. MaxFaults, NEW f, Strikes(f)
    PROVE  faults' \in 0 .. MaxFaults
  BY BusAssumption DEF Strikes

LEMMA FramedStep ==
    ASSUME Typed, AtCursor, Framed, [Next]_vars
    PROVE  Framed'
<1> USE BusAssumption
<1>1. Len(stream) \in Nat /\ trimmed \in 0 .. Len(stream) /\ topology \in Topologies
      /\ lives \in [Runs -> Nat] /\ faults \in 0 .. MaxFaults /\ ever \subseteq Messages /\ gone \subseteq Messages
  BY DEF Typed, Framed
<1>2. ASSUME NEW r \in Runs, StepOf(r) PROVE Framed'
  <2>1. topology' \in Topologies /\ trimmed' \in 0 .. Len(stream')
    BY <1>1, <1>2, StepKeeps
  <2>2. lives' \in [Runs -> Nat]
    <3>1. CASE Start(r)
      BY <1>1, <3>1 DEF Start
    <3>2. CASE ~Start(r)
      <4>1. lives' = lives
        BY <1>2, <3>2 DEF StepOf, XRead, Claim, ClaimFails, Drain, Import, Refuse, NextArrival,
           EndDrain, StopNode, SaveCursor, Exit, Crash, Die, bounds
      <4> QED BY <1>1, <4>1
    <3> QED BY <3>1, <3>2
  <2>3. faults' \in 0 .. MaxFaults
    <3>1. faults' = faults \/ \E f \in Faults : Strikes(f)
      BY <1>2 DEF StepOf, Start, XRead, Claim, ClaimFails, Drain, Import, Refuse, NextArrival,
         EndDrain, StopNode, SaveCursor, Exit, Crash, Ending, Strikes, bounds
    <3> QED BY <1>1, <3>1, StrikesTyped
  <2>4. InWork(r) \cup buffer[r] \cup arrivals[r] \cup got[r] \subseteq Messages
    <3>1. pc[r] = "claiming" => cursor[r] \in Messages
      BY FunctionTypes DEF AtCursor
    <3>2. buffer[r] \subseteq Messages /\ arrivals[r] \subseteq Messages /\ got[r] \subseteq Messages
      BY FunctionTypes
    <3> QED BY <3>1, <3>2 DEF InWork
  <2>5. ever' \subseteq Messages /\ gone' \subseteq Messages
    <3>1. CASE Start(r) \/ XRead(r) \/ Drain(r) \/ SaveCursor(r)
      BY <1>1, <3>1, StartEffect, XReadEffect, DrainEffect, SaveCursorEffect DEF histVars
    <3>2. CASE Claim(r)
      <4>1. ever' = ever \cup {cursor[r]} /\ cursor[r] \in Messages
        BY <3>2, ClaimEffect
      <4>2. PICK res \in SUBSET Messages : Proceed(r, res)
        BY <3>2, ClaimTakes
      <4>3. gone' \subseteq gone \cup res
        BY <4>2, ProceedEffect
      <4> QED BY <1>1, <4>1, <4>2, <4>3
    <3>3. CASE ClaimFails(r) \/ StopNode(r)
      BY <1>1, <2>4, <3>3, BreakEffect, UnackedEffect
    <3>4. CASE Import(r) \/ Refuse(r)
      BY <1>1, <3>4, ArrivalEffect
    <3>5. CASE EndDrain(r)
      BY <1>1, <2>4, <3>5, EndDrainEffect
    <3>6. CASE Exit(r) \/ Crash(r)
      <4>1. Die(r) /\ ever' \subseteq ever \cup InWork(r)
        BY <3>6, UnackedEffect DEF Exit, Crash
      <4> QED BY <1>1, <2>4, <4>1, DieEffect
    <3> QED BY <1>2, <3>1, <3>2, <3>3, <3>4, <3>5, <3>6 DEF StepOf
  <2> QED BY <2>1, <2>2, <2>3, <2>5 DEF Framed
<1>3. ASSUME NEW r \in Runs, Publish(r) PROVE Framed'
  <2>1. /\ trimmed' \in trimmed .. Len(stream') /\ Len(stream') \in Nat
        /\ UNCHANGED <<topology, bounds, histVars>>
    BY <1>1, <1>3, PublishEffect
  <2> QED BY <1>1, <2>1 DEF Framed, bounds, histVars
<1>4. ASSUME NEW n \in Messages, Expire(n) PROVE Framed'
  <2>1. Strikes("ttl") /\ UNCHANGED <<topology, stream, trimmed, lives, ever, gone>>
    BY <1>4 DEF Expire
  <2> QED BY <1>1, <2>1, StrikesTyped DEF Framed
<1>5. ASSUME UNCHANGED vars PROVE Framed'
  BY <1>1, <1>5 DEF Framed, vars, redisVars, bounds, histVars
<1> QED BY <1>2, <1>3, <1>4, <1>5, StepKinds

---------------------------------------------------------------------------
(* What a run holds is addressed to it *)

\* It is enough that a run takes no position from beyond the stream and no
\* message that is not for it.
LEMMA WithinKept ==
    ASSUME Typed, AtCursor, Framed, [Next]_vars, NEW q \in Runs,
           cursor'[q] <= Len(stream), upto'[q] <= Len(stream), saved'[q] <= Len(stream),
           cursor'[q] \in Nat, upto'[q] \in Nat, saved'[q] \in Nat,
           \A n \in todo'[q] \cup Held(q)' : n \in Messages /\ Addressed(q, n)
    PROVE  Inside(q)' /\ \A n \in todo'[q] \cup Held(q)' : Addressed(q, n)'
<1>1. Len(stream) \in Nat /\ Len(stream) <= Len(stream') /\ Len(stream') \in Nat
  BY FunctionTypes, StreamKept, TypeStep DEF Typed
<1>2. Inside(q)'
  BY <1>1 DEF Inside
<1>3. ASSUME NEW n \in Messages, Addressed(q, n) PROVE Addressed(q, n)'
  <2>1. n \in 1 .. Len(stream) /\ n \in Nat
    BY <1>1, <1>3, BusAssumption DEF Addressed, Messages
  <2>2. Accepts(q, n)'
    BY <1>3, <2>1, StreamKept DEF Addressed
  <2> QED BY <1>1, <2>1, <2>2 DEF Addressed
<1> QED BY <1>2, <1>3

\* What a run held is still addressed to it when it holds no more than before.
LEMMA WithinLess ==
    ASSUME Typed, AtCursor, Framed, Within, [Next]_vars, NEW q \in Runs,
           cursor'[q] \in {cursor[q], upto[q], saved[q]} \cup todo[q],
           upto'[q] = upto[q], saved'[q] \in {saved[q], cursor[q]},
           todo'[q] \cup Held(q)' \subseteq todo[q] \cup Held(q)
    PROVE  Inside(q)' /\ \A n \in todo'[q] \cup Held(q)' : Addressed(q, n)'
<1>1. Inside(q) /\ \A n \in todo[q] \cup Held(q) : Addressed(q, n)
  BY DEF Within
<1>2. todo[q] \cup Held(q) \subseteq Messages /\ Messages \subseteq Nat
  BY FunctionTypes DEF Held, Messages
<1>3. \A n \in todo[q] : n <= Len(stream) /\ n \in Nat
  BY <1>1, <1>2 DEF Addressed
<1>4. cursor[q] \in Nat /\ upto[q] \in Nat /\ saved[q] \in Nat
  BY FunctionTypes
<1>5. /\ cursor'[q] <= Len(stream) /\ upto'[q] <= Len(stream) /\ saved'[q] <= Len(stream)
      /\ cursor'[q] \in Nat /\ upto'[q] \in Nat /\ saved'[q] \in Nat
  BY <1>1, <1>3, <1>4 DEF Inside
<1>6. \A n \in todo'[q] \cup Held(q)' : n \in Messages /\ Addressed(q, n)
  BY <1>1, <1>2
<1> QED BY <1>5, <1>6, WithinKept

LEMMA WithinSame ==
    ASSUME Typed, AtCursor, Framed, Within, [Next]_vars, NEW q \in Runs, SameRun(q)
    PROVE  Inside(q)' /\ \A n \in todo'[q] \cup Held(q)' : Addressed(q, n)'
<1>1. todo'[q] \cup Held(q)' \subseteq todo[q] \cup Held(q)
  BY DEF SameRun, Held
<1>2. /\ cursor'[q] \in {cursor[q], upto[q], saved[q]} \cup todo[q]
      /\ upto'[q] = upto[q] /\ saved'[q] \in {saved[q], cursor[q]}
  BY DEF SameRun
<1> QED BY <1>1, <1>2, WithinLess

\* Lists that a step leaves as they are, or empties.
LEMMA HeldLess ==
    ASSUME NEW q \in Runs, got'[q] \subseteq got[q], buffer'[q] \subseteq buffer[q],
           arrivals'[q] \subseteq arrivals[q] \cup buffer[q], todo'[q] \subseteq todo[q]
    PROVE  todo'[q] \cup Held(q)' \subseteq todo[q] \cup Held(q)
  BY DEF Held

LEMMA WithinStep ==
    ASSUME Typed, AtCursor, Framed, Within, [Next]_vars
    PROVE  Within'
<1> SUFFICES ASSUME NEW q \in Runs
             PROVE  Inside(q)' /\ \A n \in todo'[q] \cup Held(q)' : Addressed(q, n)'
  BY DEF Within
<1>1. ASSUME NEW r \in Runs, StepOf(r), q # r
      PROVE  Inside(q)' /\ \A n \in todo'[q] \cup Held(q)' : Addressed(q, n)'
  BY <1>1, StepKeeps, WithinSame
<1>2. CASE Start(q)
  <2>1. todo'[q] \cup Held(q)' \subseteq todo[q] \cup Held(q)
    BY <1>2, StartEffect, HeldLess
  <2>2. cursor'[q] = saved[q] /\ upto'[q] = upto[q] /\ saved'[q] = saved[q]
    BY <1>2, StartEffect DEF redisVars
  <2> QED BY <2>1, <2>2, WithinLess
<1>3. CASE XRead(q)
  <2>1. Response(q) \subseteq (cursor[q] + 1) .. Len(stream) /\ Response(q) \subseteq Messages
    BY ResponseMessages DEF Response, Oldest
  <2>2. cursor[q] \in Nat /\ saved[q] \in Nat /\ Len(stream) \in Nat /\ Inside(q)
    BY FunctionTypes DEF Within
  <2>3. upto'[q] \in Response(q) /\ cursor'[q] \in Response(q)
    BY <1>3, XReadEffect DEF Last, First
  <2>4. /\ cursor'[q] <= Len(stream) /\ upto'[q] <= Len(stream) /\ saved'[q] <= Len(stream)
        /\ cursor'[q] \in Nat /\ upto'[q] \in Nat /\ saved'[q] \in Nat
    BY <1>3, <2>1, <2>2, <2>3, XReadEffect DEF redisVars, Inside
  <2>5. \A n \in todo'[q] : n \in Messages /\ Addressed(q, n)
    BY <1>3, <2>1, <2>2, XReadEffect DEF Addressed
  <2>6. Held(q)' = Held(q)
    BY <1>3, XReadEffect DEF Held, drainVars
  <2>7. \A n \in Held(q) : n \in Messages /\ Addressed(q, n)
    BY FunctionTypes DEF Within, Held
  <2> QED BY <2>4, <2>5, <2>6, <2>7, WithinKept
<1>4. CASE Claim(q)
  <2>1. PICK res : res \subseteq got[q] \cup {cursor[q]} /\ Proceed(q, res)
    BY <1>4, ClaimTakes
  <2>2. cursor[q] \in todo[q] /\ upto'[q] = upto[q] /\ saved'[q] = saved[q] /\ arrivals'[q] = arrivals[q]
    BY <1>4, ClaimEffect DEF drainVars
  <2>3. todo'[q] \subseteq todo[q] /\ cursor'[q] \in {upto[q]} \cup todo[q]
    BY <2>1, ProceedEffect DEF First
  <2>4. got'[q] \subseteq res /\ buffer'[q] \subseteq buffer[q] \cup res
    BY <2>1, ProceedEffect, ReceivedWithin
  <2>5. todo'[q] \cup Held(q)' \subseteq todo[q] \cup Held(q)
    BY <2>1, <2>2, <2>3, <2>4 DEF Held
  <2> QED BY <2>2, <2>3, <2>5, WithinLess
<1>5. CASE ClaimFails(q) \/ StopNode(q)
  <2>1. todo'[q] \cup Held(q)' \subseteq todo[q] \cup Held(q)
    BY <1>5, BreakEffect, HeldLess
  <2>2. cursor'[q] = cursor[q] /\ upto'[q] = upto[q] /\ saved'[q] = saved[q]
    BY <1>5, BreakEffect
  <2> QED BY <2>1, <2>2, WithinLess
<1>6. CASE Drain(q)
  <2>1. todo'[q] \cup Held(q)' \subseteq todo[q] \cup Held(q)
    BY <1>6, DrainEffect, HeldLess
  <2>2. cursor'[q] = cursor[q] /\ upto'[q] = upto[q] /\ saved'[q] = saved[q]
    BY <1>6, DrainEffect DEF redisVars
  <2> QED BY <2>1, <2>2, WithinLess
<1>7. CASE Import(q) \/ Refuse(q)
  <2>1. arrivals'[q] \subseteq arrivals[q] /\ UNCHANGED <<redisVars, pollVars>>
    BY <1>7, ArrivalEffect
  <2>2. todo'[q] \cup Held(q)' \subseteq todo[q] \cup Held(q)
    BY <2>1, HeldLess DEF pollVars
  <2> QED BY <2>1, <2>2, WithinLess DEF redisVars, pollVars
<1>8. CASE EndDrain(q)
  <2>1. arrivals'[q] = {} /\ UNCHANGED <<redisVars, pollVars>>
    BY <1>8, EndDrainEffect
  <2>2. todo'[q] \cup Held(q)' \subseteq todo[q] \cup Held(q)
    BY <2>1, HeldLess DEF pollVars
  <2> QED BY <2>1, <2>2, WithinLess DEF redisVars, pollVars
<1>9. CASE SaveCursor(q)
  <2>1. todo'[q] \cup Held(q)' \subseteq todo[q] \cup Held(q)
    BY <1>9, SaveCursorEffect, HeldLess
  <2>2. cursor'[q] = cursor[q] /\ upto'[q] = upto[q] /\ saved'[q] \in {saved[q], cursor[q]}
    BY <1>9, SaveCursorEffect
  <2> QED BY <2>1, <2>2, WithinLess
<1>10. CASE Exit(q) \/ Crash(q)
  <2>1. Die(q)
    BY <1>10 DEF Exit, Crash
  <2>2. todo'[q] \cup Held(q)' \subseteq todo[q] \cup Held(q)
    BY <2>1, DieEffect, HeldLess
  <2>3. cursor'[q] = cursor[q] /\ upto'[q] = upto[q] /\ saved'[q] = saved[q]
    BY <2>1, DieEffect
  <2> QED BY <2>2, <2>3, WithinLess
<1>11. CASE (\E r \in Runs : Publish(r)) \/ (\E n \in Messages : Expire(n)) \/ UNCHANGED vars
  <2>1. SameRun(q)
    BY <1>11 DEF Publish, Expire, vars, SameRun, redisVars, pollVars, drainVars
  <2> QED BY <2>1, WithinSame
<1>12. CASE StepOf(q)
  BY <1>2, <1>3, <1>4, <1>5, <1>6, <1>7, <1>8, <1>9, <1>10, <1>12 DEF StepOf
<1> QED BY <1>1, <1>11, <1>12, StepKinds

---------------------------------------------------------------------------
(* The front of a list, and the limit of the buffer *)

\* A finite nonempty set of naturals has a greatest element: a smallest finite
\* set without one cannot be.
LEMMA Greatest ==
    ASSUME NEW S \in SUBSET Nat, IsFiniteSet(S), S # {}
    PROVE  \E m \in S : \A n \in S : n <= m
<1> DEFINE Topless == {A \in FiniteSubsetsOf(Nat) :
                         A # {} /\ \A m \in A : \E n \in A : ~(n <= m)}
<1> SUFFICES ASSUME S \in Topless PROVE FALSE
  BY DEF FiniteSubsetsOf
<1>1. PICK A \in Topless : \A B \in Topless : <<B, A>> \notin StrictSubsetOrdering(Nat)
  <2>1. Topless \subseteq FiniteSubsetsOf(Nat) /\ Topless # {}
    OBVIOUS
  <2> HIDE DEF Topless
  <2> QED BY <2>1, FS_StrictSubsetOrderingWellFounded, WFMin
<1>2. PICK a \in A : TRUE
  OBVIOUS
<1>3. A \subseteq Nat /\ IsFiniteSet(A) /\ IsFiniteSet(A \ {a})
  BY FS_RemoveElement DEF FiniteSubsetsOf
<1>4. A \ {a} \notin Topless
  <2>1. <<A \ {a}, A>> \in StrictSubsetOrdering(Nat)
    BY <1>2, <1>3 DEF StrictSubsetOrdering
  <2> QED BY <1>1, <2>1
<1>5. CASE A \ {a} = {}
  BY <1>2, <1>3, <1>5
<1>6. CASE A \ {a} # {}
  <2>1. PICK m \in A \ {a} : \A n \in A \ {a} : n <= m
    BY <1>3, <1>4, <1>6 DEF FiniteSubsetsOf
  <2>2. m \in Nat /\ a \in Nat /\ \A n \in A : n = a \/ n <= m
    BY <1>2, <1>3, <2>1
  <2>3. (\A n \in A : n <= m) \/ (\A n \in A : n <= a)
    BY <1>3, <2>2
  <2> QED BY <1>2, <2>1, <2>3
<1> QED BY <1>5, <1>6

\* The front of a list is one: with a message it holds every earlier one.
LEMMA OldestDown ==
    ASSUME NEW S \in SUBSET Nat, IsFiniteSet(S), NEW k \in Nat,
           NEW n \in Oldest(S, k), NEW m \in S, m <= n
    PROVE  m \in Oldest(S, k)
<1> DEFINE Below(x) == {y \in S : y < x}
<1>1. n \in S /\ Cardinality(Below(n)) < k /\ n \in Nat /\ m \in Nat
  BY DEF Oldest
<1>2. Below(m) \subseteq Below(n)
  <2>1. ASSUME NEW y \in S, y < m PROVE y < n
    <3>1. y \in Nat
      OBVIOUS
    <3> QED BY <1>1, <2>1, <3>1
  <2> QED BY <2>1
<1>3. IsFiniteSet(Below(n))
  BY FS_Subset
<1> HIDE DEF Below
<1>4. /\ Cardinality(Below(m)) <= Cardinality(Below(n))
      /\ Cardinality(Below(m)) \in Nat /\ Cardinality(Below(n)) \in Nat
  BY <1>2, <1>3, FS_Subset, FS_CardinalityType
<1>5. Cardinality(Below(m)) < k
  BY <1>1, <1>4
<1> QED BY <1>5 DEF Oldest, Below

\* The front of a list has no more than k messages.
LEMMA OldestBounded ==
    ASSUME NEW S \in SUBSET Nat, IsFiniteSet(S), NEW k \in Nat
    PROVE  IsFiniteSet(Oldest(S, k)) /\ Cardinality(Oldest(S, k)) <= k
<1> DEFINE O == Oldest(S, k)
<1>1. O \subseteq S /\ IsFiniteSet(O)
  BY OldestWithin, FS_Subset
<1>2. CASE O = {}
  BY <1>1, <1>2, FS_EmptySet
<1>3. CASE O # {}
  <2>1. PICK g \in O : \A n \in O : n <= g
    BY <1>1, <1>3, Greatest
  <2> DEFINE B == {m \in S : m < g}
  <2>2. Cardinality(B) < k /\ g \in Nat
    BY <1>1, <2>1 DEF Oldest
  <2>3. O \ {g} \subseteq B
    <3>1. ASSUME NEW y \in O, y # g PROVE y < g
      <4>1. y \in Nat /\ y <= g
        BY <1>1, <2>1
      <4> QED BY <2>2, <3>1, <4>1
    <3> QED BY <1>1, <3>1
  <2>4. IsFiniteSet(B)
    BY FS_Subset
  <2> HIDE DEF B, O
  <2>5. Cardinality(O \ {g}) <= Cardinality(B) /\ Cardinality(B) \in Nat
    BY <2>3, <2>4, FS_Subset, FS_CardinalityType
  <2>6. Cardinality(O \ {g}) = Cardinality(O) - 1 /\ Cardinality(O) \in Nat
    BY <1>1, <2>1, FS_RemoveElement, FS_CardinalityType
  <2>7. Cardinality(O) <= k
    BY <2>2, <2>5, <2>6
  <2> QED BY <1>1, <2>7 DEF O
<1> QED BY <1>2, <1>3

LEMMA FiniteMessages ==
    ASSUME NEW S \in SUBSET Messages
    PROVE  S \subseteq Nat /\ IsFiniteSet(S) /\ Cardinality(S) \in Nat
<1>1. IsFiniteSet(1 .. MaxMessages)
  <2>1. 1 \in Int /\ MaxMessages \in Int
    BY BusAssumption
  <2> QED BY <2>1, FS_Interval
<1>2. IsFiniteSet(Messages) /\ Messages \subseteq Nat
  BY <1>1 DEF Messages
<1> QED BY <1>2, FS_Subset, FS_CardinalityType

LEMMA ReceivedFits ==
    ASSUME Typed, NEW r \in Runs, NEW res \in SUBSET Messages, Cardinality(buffer[r]) <= MaxBuffer
    PROVE  Cardinality(Received(r, res)) <= MaxBuffer
<1> DEFINE b == Cardinality(buffer[r])
           O == Oldest(res, MaxBuffer - b)
<1>1. IsFiniteSet(buffer[r]) /\ b \in Nat /\ MaxBuffer \in Nat
  BY FunctionTypes, FiniteMessages, BusAssumption
<1>2. MaxBuffer - b \in Nat
  BY <1>1
<1>3. IsFiniteSet(O) /\ Cardinality(O) <= MaxBuffer - b /\ Cardinality(O) \in Nat
  BY <1>2, FiniteMessages, OldestBounded, FS_CardinalityType
<1> HIDE DEF O
<1>4. /\ IsFiniteSet(buffer[r] \cap O) /\ Cardinality(buffer[r] \cap O) \in Nat
      /\ Cardinality(buffer[r] \cup O) = b + Cardinality(O) - Cardinality(buffer[r] \cap O)
  <2>1. IsFiniteSet(buffer[r] \cap O)
    BY <1>1, FS_Subset
  <2> QED BY <1>1, <1>3, <2>1, FS_Union, FS_CardinalityType
<1>5. Cardinality(buffer[r] \cup O) <= MaxBuffer
  BY <1>1, <1>3, <1>4
<1> QED BY <1>5 DEF O, Received

LEMMA FitsStep ==
    ASSUME Typed, AtCursor, Fits, [Next]_vars
    PROVE  Fits'
<1> SUFFICES ASSUME NEW q \in Runs PROVE Cardinality(buffer'[q]) <= MaxBuffer
  BY DEF Fits
<1>1. /\ Cardinality(buffer[q]) <= MaxBuffer /\ IsFiniteSet(buffer[q]) /\ MaxBuffer \in Nat
      /\ Cardinality(buffer[q]) \in Nat
  BY FunctionTypes, FiniteMessages, BusAssumption DEF Fits
<1>2. ASSUME buffer'[q] \subseteq buffer[q] PROVE Cardinality(buffer'[q]) <= MaxBuffer
  <2>1. Cardinality(buffer'[q]) <= Cardinality(buffer[q]) /\ Cardinality(buffer'[q]) \in Nat
    BY <1>1, <1>2, FS_Subset, FS_CardinalityType
  <2> QED BY <1>1, <2>1
<1>3. ASSUME NEW r \in Runs, StepOf(r), q # r PROVE buffer'[q] = buffer[q]
  BY <1>3, StepKeeps DEF SameRun
<1>4. CASE Claim(q)
  <2>1. PICK res \in SUBSET Messages : Proceed(q, res)
    BY <1>4, ClaimTakes
  <2>2. buffer'[q] = buffer[q] \/ buffer'[q] = Received(q, res)
    BY <2>1, ProceedEffect
  <2> QED BY <1>1, <2>1, <2>2, ReceivedFits
<1>5. CASE StepOf(q) /\ ~Claim(q)
  <2>1. CASE Start(q) \/ XRead(q) \/ SaveCursor(q)
    BY <1>2, <2>1, StartEffect, XReadEffect, SaveCursorEffect
  <2>2. CASE ClaimFails(q) \/ StopNode(q)
    BY <1>2, <2>2, BreakEffect
  <2>3. CASE Drain(q)
    BY <1>2, <2>3, DrainEffect
  <2>4. CASE Import(q) \/ Refuse(q)
    BY <1>2, <2>4, ArrivalEffect DEF pollVars
  <2>5. CASE EndDrain(q)
    BY <1>2, <2>5, EndDrainEffect DEF pollVars
  <2>6. CASE Exit(q) \/ Crash(q)
    BY <1>2, <2>6, DieEffect DEF Exit, Crash
  <2> QED BY <1>5, <2>1, <2>2, <2>3, <2>4, <2>5, <2>6 DEF StepOf
<1>6. CASE (\E r \in Runs : Publish(r)) \/ (\E n \in Messages : Expire(n)) \/ UNCHANGED vars
  BY <1>2, <1>6 DEF Publish, Expire, vars, pollVars
<1> QED BY <1>2, <1>3, <1>4, <1>5, <1>6, StepKinds

---------------------------------------------------------------------------
(* Claimed messages do not vanish *)

LEMMA NotedStep ==
    ASSUME Typed, AtCursor, Framed, Noted, [Next]_vars
    PROVE  Noted'
<1> SUFFICES ASSUME NEW n \in Messages, claim'[n] # None PROVE n \in ever'
  BY DEF Noted
<1>1. ever \subseteq ever' /\ (claim[n] # None => n \in ever)
  BY StreamKept DEF Noted
<1>2. CASE claim' = claim
  BY <1>1, <1>2
<1>3. ASSUME NEW r \in Runs, Claim(r) PROVE n \in ever'
  BY <1>1, <1>3, ClaimEffect
<1>4. ASSUME NEW r \in Runs, ClaimUnacked(r) PROVE n \in ever'
  BY <1>1, <1>4, UnackedEffect
<1>5. ASSUME NEW m \in Messages, Expire(m) PROVE n \in ever'
  <2>1. claim' = [claim EXCEPT ![m] = None] /\ ever' = ever
    BY <1>5 DEF Expire
  <2>2. claim'[n] = claim[n]
    BY <2>1, FunctionTypes
  <2> QED BY <1>1, <2>2
<1>6. ASSUME NEW r \in Runs, StepOf(r) PROVE n \in ever'
  <2>1. CASE Claim(r)
    BY <1>3, <2>1
  <2>2. CASE ClaimFails(r) \/ StopNode(r) \/ Crash(r)
    BY <1>4, <2>2 DEF ClaimFails, StopNode, Crash
  <2>3. CASE Start(r) \/ XRead(r) \/ Drain(r) \/ SaveCursor(r)
    BY <1>2, <2>3 DEF Start, XRead, Drain, SaveCursor, redisVars
  <2>4. CASE Import(r) \/ Refuse(r) \/ EndDrain(r) \/ Exit(r)
    BY <1>2, <2>4 DEF Import, Refuse, NextArrival, EndDrain, Exit, redisVars
  <2> QED BY <1>6, <2>1, <2>2, <2>3, <2>4 DEF StepOf
<1>7. CASE (\E r \in Runs : Publish(r)) \/ UNCHANGED vars
  BY <1>2, <1>7 DEF Publish, vars, redisVars
<1> QED BY <1>5, <1>6, <1>7, StepKinds

\* Where a message that has been claimed, or is held, is after a step.
Somewhere(r, n) == imported'[n] > 0 \/ n \in gone' \/ n \in Held(r)'

LEMMA ImportsGrow ==
    ASSUME Typed, AtCursor, NEW r \in Runs, StepOf(r), NEW n \in Messages, imported[n] > 0
    PROVE  imported'[n] > 0
<1>1. CASE Import(r) \/ Refuse(r)
  <2>1. imported'[n] = imported[n] \/ imported'[n] = imported[n] + 1
    BY <1>1, ArrivalEffect
  <2> QED BY <2>1, FunctionTypes
<1>2. CASE ~(Import(r) \/ Refuse(r))
  BY <1>2 DEF StepOf, Start, XRead, Claim, ClaimFails, Drain, EndDrain, StopNode, SaveCursor,
     Exit, Crash, Die, histVars
<1> QED BY <1>1, <1>2

LEMMA StepHolds ==
    ASSUME Typed, AtCursor, Rested, Framed, Noted, NEW r \in Runs, StepOf(r),
           NEW n \in Messages, n \in Held(r) \/ n \in ever' \ ever
    PROVE  Somewhere(r, n)
<1>1. CASE Start(r) \/ XRead(r) \/ SaveCursor(r)
  <2>1. UNCHANGED <<got, buffer, arrivals, ever>>
    BY <1>1, StartEffect, XReadEffect, SaveCursorEffect DEF drainVars, histVars
  <2> QED BY <2>1 DEF Somewhere, Held
<1>2. CASE Claim(r)
  <2> DEFINE res == IF claim[cursor[r]] = None THEN got[r] \cup {cursor[r]} ELSE got[r]
  <2>1. Proceed(r, res) /\ ever' = ever \cup {cursor[r]} /\ arrivals' = arrivals /\ cursor[r] \in Messages
    BY <1>2, ClaimEffect DEF drainVars
  <2>2. got[r] \subseteq res /\ (cursor[r] \in res \/ cursor[r] \in ever)
    BY <2>1 DEF Noted
  <2> HIDE DEF res
  <2>3. n \in res \/ n \in buffer[r] \/ n \in arrivals[r]
    BY <2>1, <2>2 DEF Held
  <2>4. buffer[r] \subseteq buffer'[r] /\ res \subseteq got'[r] \cup buffer'[r] \cup gone'
    BY <2>1, ProceedEffect DEF Received
  <2> QED BY <2>1, <2>3, <2>4 DEF Somewhere, Held
<1>3. CASE ClaimFails(r) \/ StopNode(r)
  <2>1. ever' \subseteq ever \cup InWork(r) /\ gone' = gone \cup InWork(r) /\ UNCHANGED <<buffer, arrivals>>
    BY <1>3, BreakEffect, UnackedEffect
  <2>2. got[r] \subseteq InWork(r)
    BY DEF InWork
  <2> QED BY <2>1, <2>2 DEF Somewhere, Held
<1>4. CASE Drain(r)
  <2>1. arrivals'[r] \cup buffer'[r] = buffer[r] /\ UNCHANGED <<got, ever>>
    BY <1>4, DrainEffect DEF histVars
  <2>2. CASE n \in arrivals[r]
    BY <1>4, <2>2, DrainEffect DEF Rested
  <2> QED BY <2>1, <2>2 DEF Somewhere, Held
<1>5. CASE Import(r) \/ Refuse(r)
  <2>1. PICK m \in arrivals[r] :
           /\ m \in Messages /\ arrivals'[r] = arrivals[r] \ {m}
           /\ imported'[m] = imported[m] + 1 \/ gone' = gone \cup {m}
           /\ UNCHANGED <<pollVars, ever>>
    BY <1>5, ArrivalEffect
  <2>2. CASE n = m
    <3>1. imported[m] \in Nat
      BY <2>1, FunctionTypes
    <3> QED BY <2>1, <2>2, <3>1 DEF Somewhere
  <2>3. CASE n # m
    BY <2>1, <2>3 DEF Somewhere, Held, pollVars
  <2> QED BY <2>2, <2>3
<1>6. CASE EndDrain(r)
  <2>1. gone' = gone \cup arrivals[r] /\ UNCHANGED <<pollVars, ever>>
    BY <1>6, EndDrainEffect
  <2> QED BY <2>1 DEF Somewhere, Held, pollVars
<1>7. CASE Exit(r) \/ Crash(r)
  <2>1. Die(r) /\ ever' \subseteq ever \cup InWork(r)
    BY <1>7, UnackedEffect DEF Exit, Crash
  <2>2. gone' = gone \cup InWork(r) \cup buffer[r] \cup arrivals[r] /\ got[r] \subseteq InWork(r)
    BY <2>1, DieEffect DEF InWork
  <2> QED BY <2>1, <2>2 DEF Somewhere, Held
<1> QED BY <1>1, <1>2, <1>3, <1>4, <1>5, <1>6, <1>7 DEF StepOf

\* What a run holds is addressed to it, so it is enough to find the message.
LEMMA VanishStep ==
    ASSUME Typed, AtCursor, Rested, Framed, Within, Within', Noted, NothingVanishes, [Next]_vars
    PROVE  NothingVanishes'
<1> SUFFICES ASSUME NEW n \in ever'
             PROVE  imported'[n] > 0 \/ n \in gone' \/ \E r \in Runs : n \in Held(r)' /\ Accepts(r, n)'
  BY DEF NothingVanishes
<1>1. n \in Messages
  BY FramedStep DEF Framed
<1>2. \A r \in Runs : n \in Held(r)' => Accepts(r, n)'
  BY DEF Within, Addressed
<1>3. n \in ever => imported[n] > 0 \/ n \in gone \/ \E r \in Runs : n \in Held(r)
  BY DEF NothingVanishes
<1>4. gone \subseteq gone'
  BY StreamKept
<1>5. ASSUME NEW r \in Runs, StepOf(r)
      PROVE  imported'[n] > 0 \/ n \in gone' \/ \E q \in Runs : n \in Held(q)'
  <2>1. CASE n \notin ever \/ n \in Held(r)
    BY <1>1, <1>5, <2>1, StepHolds DEF Somewhere
  <2>2. CASE imported[n] > 0 \/ n \in gone
    BY <1>1, <1>4, <1>5, <2>2, ImportsGrow
  <2>3. ASSUME NEW q \in Runs, n \in Held(q), q # r PROVE n \in Held(q)'
    BY <1>5, <2>3, StepKeeps DEF SameRun, Held
  <2> QED BY <1>3, <2>1, <2>2, <2>3
<1>6. ASSUME (\E r \in Runs : Publish(r)) \/ (\E m \in Messages : Expire(m)) \/ UNCHANGED vars
      PROVE  imported'[n] > 0 \/ n \in gone' \/ \E q \in Runs : n \in Held(q)'
  <2>1. UNCHANGED <<got, buffer, arrivals, imported, ever, gone>>
    BY <1>6 DEF Publish, Expire, vars, pollVars, drainVars, histVars
  <2> QED BY <1>3, <2>1 DEF Held
<1> QED BY <1>2, <1>5, <1>6, StepKinds

---------------------------------------------------------------------------
(* Cursors pass no message *)

\* Read and the saved cursor's part of InTurn, after a step.
ReadNext(q, k) ==
    \A n \in 1 .. k :
        Accepts(q, n)' /\ n > trimmed' /\ n \notin todo'[q] => n \in ever' \cup gone'

PassedNext(q, k) ==
    \A n \in 1 .. k : Accepts(q, n)' /\ n > trimmed' => n \in ever' \cup gone'

\* A message that counts as unread after a step did so before.
LEMMA UnreadBefore ==
    ASSUME Typed, AtCursor, Framed, [Next]_vars, NEW q \in Runs,
           NEW n \in 1 .. Len(stream), Accepts(q, n)', n > trimmed'
    PROVE  /\ Accepts(q, n) /\ n > trimmed
           /\ n \in ever \cup gone => n \in ever' \cup gone'
<1>1. trimmed' \in 0 .. Len(stream')
  BY FramedStep DEF Framed
<1>2. n \in Nat /\ trimmed \in Nat /\ trimmed' \in Nat
  BY <1>1, FunctionTypes DEF Framed
<1> QED BY <1>2, StreamKept

\* Nothing unread comes up when the messages that leave todo are claimed or
\* given up.
LEMMA ReadKept ==
    ASSUME Typed, AtCursor, Framed, [Next]_vars, NEW q \in Runs,
           NEW k \in Nat, k <= Len(stream), Read(q, k),
           \A n \in todo[q] : n \in 1 .. k => n \in todo'[q] \cup ever' \cup gone'
    PROVE  ReadNext(q, k)
<1> SUFFICES ASSUME NEW n \in 1 .. k, Accepts(q, n)', n > trimmed', n \notin todo'[q]
             PROVE  n \in ever' \cup gone'
  BY DEF ReadNext
<1>1. n \in 1 .. Len(stream)
  BY FunctionTypes
<1>2. Accepts(q, n) /\ n > trimmed /\ (n \in ever \cup gone => n \in ever' \cup gone')
  BY <1>1, UnreadBefore
<1> QED BY <1>2 DEF Read

LEMMA PassedKept ==
    ASSUME Typed, AtCursor, Framed, Within, InTurn, [Next]_vars, NEW q \in Runs
    PROVE  PassedNext(q, saved[q])
<1> SUFFICES ASSUME NEW n \in 1 .. saved[q], Accepts(q, n)', n > trimmed'
             PROVE  n \in ever' \cup gone'
  BY DEF PassedNext
<1>1. saved[q] \in Nat /\ saved[q] <= Len(stream) /\ Len(stream) \in Nat
  BY FunctionTypes DEF Within, Inside
<1>2. n \in 1 .. Len(stream)
  BY <1>1
<1>3. Accepts(q, n) /\ n > trimmed /\ (n \in ever \cup gone => n \in ever' \cup gone')
  BY <1>2, UnreadBefore
<1> QED BY <1>3 DEF InTurn

TurnNext(q) ==
    /\ pc'[q] \in Up => ReadNext(q, cursor'[q])
    /\ pc'[q] = "claiming" =>
          ReadNext(q, upto'[q]) /\ \A n \in todo'[q] : cursor'[q] <= n /\ n <= upto'[q]
    /\ pc'[q] # "claiming" => todo'[q] = {}
    /\ PassedNext(q, saved'[q])

\* A step that leaves the reading of a run alone.
LEMMA TurnSame ==
    ASSUME Typed, AtCursor, Framed, Within, InTurn, [Next]_vars, NEW q \in Runs,
           pc'[q] = pc[q], cursor'[q] = cursor[q], upto'[q] = upto[q],
           saved'[q] = saved[q], todo'[q] = todo[q]
    PROVE  TurnNext(q)
<1>1. /\ cursor[q] \in Nat /\ upto[q] \in Nat
      /\ cursor[q] <= Len(stream) /\ upto[q] <= Len(stream)
  BY FunctionTypes DEF Within, Inside
<1>2. pc'[q] \in Up => ReadNext(q, cursor'[q])
  BY <1>1, ReadKept DEF InTurn
<1>3. pc'[q] = "claiming" => ReadNext(q, upto'[q])
  BY <1>1, ReadKept DEF InTurn
<1>4. pc'[q] = "claiming" => \A n \in todo'[q] : cursor'[q] <= n /\ n <= upto'[q]
  BY DEF InTurn
<1>5. pc'[q] # "claiming" => todo'[q] = {}
  BY DEF InTurn
<1>6. PassedNext(q, saved'[q])
  BY PassedKept
<1> QED BY <1>2, <1>3, <1>4, <1>5, <1>6 DEF TurnNext

\* XREAD returns the messages after the cursor without a gap, so those up to
\* its last one have been read or are to be claimed.
LEMMA XReadTurn ==
    ASSUME Typed, AtCursor, Framed, Within, InTurn, [Next]_vars, NEW q \in Runs, XRead(q)
    PROVE  TurnNext(q)
<1> DEFINE S == {n \in (cursor[q] + 1) .. Len(stream) : n > trimmed}
<1>1. /\ pc[q] = "idle" /\ todo'[q] = {n \in Response(q) : Accepts(q, n)}
      /\ upto'[q] \in Response(q) /\ \A n \in Response(q) : n <= upto'[q]
      /\ saved' = saved
  BY XReadEffect DEF Last, redisVars
<1>2. \/ todo'[q] = {} /\ cursor'[q] = upto'[q] /\ pc'[q] = "idle"
      \/ /\ todo'[q] # {} /\ cursor'[q] \in todo'[q] /\ pc'[q] = "claiming"
         /\ \A n \in todo'[q] : cursor'[q] <= n
  BY XReadEffect DEF First
<1>3. /\ Response(q) = Oldest(S, MaxConsume) /\ cursor[q] \in Nat
      /\ Len(stream) \in Nat /\ Len(stream) <= MaxMessages /\ MaxConsume \in Nat
  BY FunctionTypes, BusAssumption DEF Response
<1>4. S \subseteq Messages
  BY <1>3, BusAssumption DEF Messages
<1>5. S \subseteq Nat /\ IsFiniteSet(S)
  BY <1>4, FiniteMessages
<1>6. Response(q) \subseteq S
  BY <1>3, OldestWithin
<1>7. \A n \in S : n <= upto'[q] => n \in Response(q)
  <2> HIDE DEF S
  <2> QED BY <1>1, <1>3, <1>5, OldestDown
<1>8. upto'[q] \in Nat /\ upto'[q] <= Len(stream)
  BY <1>1, <1>3, <1>6
<1>9. todo[q] = {} /\ Read(q, cursor[q])
  BY <1>1 DEF InTurn, Up, Polling
<1>10. ReadNext(q, upto'[q])
  <2> SUFFICES ASSUME NEW n \in 1 .. upto'[q], Accepts(q, n)', n > trimmed', n \notin todo'[q]
               PROVE  n \in ever' \cup gone'
    BY DEF ReadNext
  <2>1. n \in 1 .. Len(stream) /\ n \in Nat /\ n <= upto'[q]
    BY <1>3, <1>8
  <2>2. Accepts(q, n) /\ n > trimmed /\ (n \in ever \cup gone => n \in ever' \cup gone')
    BY <2>1, UnreadBefore
  <2>3. CASE n <= cursor[q]
    BY <1>3, <1>9, <2>1, <2>2, <2>3 DEF Read
  <2>4. CASE ~(n <= cursor[q])
    <3>1. n \in S
      BY <1>3, <2>1, <2>2, <2>4
    <3> QED BY <1>1, <1>7, <2>1, <2>2, <3>1
  <2> QED BY <2>3, <2>4
<1>11. cursor'[q] \in Nat /\ cursor'[q] <= upto'[q]
  BY <1>1, <1>2, <1>5, <1>6, <1>8
<1>12. ReadNext(q, cursor'[q])
  BY <1>8, <1>10, <1>11 DEF ReadNext
<1>13. PassedNext(q, saved'[q])
  BY <1>1, PassedKept
<1> QED BY <1>1, <1>2, <1>10, <1>12, <1>13 DEF TurnNext

LEMMA ClaimTurn ==
    ASSUME Typed, AtCursor, Framed, Within, InTurn, [Next]_vars, NEW q \in Runs, Claim(q)
    PROVE  TurnNext(q)
<1>1. PICK res : Proceed(q, res)
  BY ClaimEffect
<1>2. /\ pc[q] = "claiming" /\ cursor[q] \in todo[q] /\ cursor[q] \in ever'
      /\ saved' = saved /\ upto' = upto
  BY ClaimEffect
<1>3. todo'[q] = todo[q] \ {cursor[q]}
  BY <1>1, ProceedEffect
<1>4. \/ /\ cursor'[q] \in todo'[q] /\ \A n \in todo'[q] : cursor'[q] <= n
         /\ pc'[q] = "claiming"
      \/ todo'[q] = {} /\ cursor'[q] = upto[q] /\ pc'[q] = "idle"
  BY <1>1, <1>2, ProceedEffect DEF First
<1>5. /\ Read(q, upto[q]) /\ \A n \in todo[q] : n <= upto[q]
      /\ upto[q] \in Nat /\ upto[q] <= Len(stream)
  BY <1>2, FunctionTypes DEF InTurn, Within, Inside
<1>6. ReadNext(q, upto[q])
  BY <1>2, <1>3, <1>5, ReadKept
<1>7. todo[q] \subseteq Nat
  BY FunctionTypes DEF Messages
<1>8. cursor'[q] \in Nat /\ cursor'[q] <= upto[q]
  BY <1>3, <1>4, <1>5, <1>7
<1>9. ReadNext(q, cursor'[q])
  BY <1>5, <1>6, <1>8 DEF ReadNext
<1>10. PassedNext(q, saved'[q])
  BY <1>2, PassedKept
<1> QED BY <1>2, <1>3, <1>4, <1>5, <1>6, <1>9, <1>10 DEF TurnNext

\* A poll that is broken off gives up the message at the cursor; no earlier one
\* was still to be claimed.
LEMMA BreakTurn ==
    ASSUME Typed, AtCursor, Framed, Within, InTurn, [Next]_vars, NEW q \in Runs,
           ClaimFails(q) \/ StopNode(q)
    PROVE  TurnNext(q)
<1>1. /\ pc[q] \in Polling /\ pc'[q] \in {"idle", "saving"} /\ todo'[q] = {}
      /\ gone' = gone \cup InWork(q) /\ UNCHANGED <<cursor, saved>>
  BY BreakEffect
<1>2. cursor[q] \in Nat /\ cursor[q] <= Len(stream) /\ Read(q, cursor[q])
  BY <1>1, FunctionTypes DEF InTurn, Within, Inside, Up
<1>3. ASSUME NEW n \in todo[q], n \in 1 .. cursor[q] PROVE n \in gone'
  <2>1. pc[q] = "claiming" /\ cursor[q] <= n
    BY DEF InTurn
  <2>2. n = cursor[q]
    BY <1>2, <1>3, <2>1
  <2> QED BY <1>1, <2>1, <2>2 DEF InWork
<1>4. ReadNext(q, cursor'[q])
  BY <1>1, <1>2, <1>3, ReadKept
<1>5. PassedNext(q, saved'[q])
  BY <1>1, PassedKept
<1> QED BY <1>1, <1>4, <1>5 DEF TurnNext

LEMMA TurnStep ==
    ASSUME Typed, AtCursor, Framed, Within, InTurn, [Next]_vars
    PROVE  InTurn'
<1> SUFFICES ASSUME NEW q \in Runs PROVE TurnNext(q)
  BY DEF InTurn, TurnNext, Read, ReadNext, PassedNext
<1>1. ASSUME NEW r \in Runs, StepOf(r), q # r PROVE TurnNext(q)
  BY <1>1, StepKeeps, TurnSame DEF SameRun
<1>2. CASE Start(q)
  <2>1. pc[q] = "down" /\ pc'[q] = "idle" /\ cursor'[q] = saved[q] /\ UNCHANGED <<todo, saved>>
    BY <1>2, StartEffect DEF redisVars
  <2>2. todo'[q] = {}
    BY <2>1 DEF InTurn
  <2>3. PassedNext(q, saved[q])
    BY PassedKept
  <2>4. ReadNext(q, cursor'[q])
    BY <2>1, <2>3 DEF ReadNext, PassedNext
  <2> QED BY <2>1, <2>2, <2>3, <2>4 DEF TurnNext
<1>3. CASE SaveCursor(q)
  <2>1. /\ pc[q] = "saving" /\ pc'[q] \in {"stopped", "unsaved"}
        /\ saved'[q] = cursor[q] \/ saved'[q] = saved[q]
        /\ UNCHANGED <<cursor, todo>>
    BY <1>3, SaveCursorEffect
  <2>2. /\ cursor[q] \in Nat /\ cursor[q] <= Len(stream) /\ Read(q, cursor[q])
        /\ todo[q] = {} /\ todo'[q] = {}
    BY <2>1, FunctionTypes DEF InTurn, Within, Inside, Up
  <2>3. ReadNext(q, cursor'[q])
    BY <2>1, <2>2, ReadKept
  <2>4. PassedNext(q, cursor[q])
    BY <2>1, <2>2, <2>3 DEF ReadNext, PassedNext
  <2>5. PassedNext(q, saved[q])
    BY PassedKept
  <2> QED BY <2>1, <2>2, <2>3, <2>4, <2>5 DEF TurnNext
<1>4. CASE Drain(q)
  BY <1>4, DrainEffect, TurnSame DEF redisVars
<1>5. CASE Import(q) \/ Refuse(q)
  <2>1. UNCHANGED <<redisVars, pollVars>>
    BY <1>5, ArrivalEffect
  <2> QED BY <2>1, TurnSame DEF redisVars, pollVars
<1>6. CASE EndDrain(q)
  BY <1>6, EndDrainEffect, TurnSame DEF redisVars, pollVars
<1>7. CASE Exit(q) \/ Crash(q)
  <2>1. pc'[q] = "down" /\ todo'[q] = {} /\ saved' = saved
    BY <1>7, DieEffect DEF Exit, Crash
  <2>2. PassedNext(q, saved'[q])
    BY <2>1, PassedKept
  <2>3. pc'[q] \notin Up
    BY <2>1 DEF Up, Polling
  <2> QED BY <2>1, <2>2, <2>3 DEF TurnNext
<1>8. CASE StepOf(q)
  BY <1>2, <1>3, <1>4, <1>5, <1>6, <1>7, <1>8, XReadTurn, ClaimTurn, BreakTurn DEF StepOf
<1>9. CASE (\E r \in Runs : Publish(r)) \/ (\E n \in Messages : Expire(n)) \/ UNCHANGED vars
  <2>1. UNCHANGED <<saved, pollVars>>
    BY <1>9 DEF Publish, Expire, vars, redisVars
  <2> QED BY <2>1, TurnSame DEF pollVars
<1> QED BY <1>1, <1>8, <1>9, StepKinds

---------------------------------------------------------------------------
PathInvariant ==
    /\ BusInvariant /\ Framed /\ Within /\ Fits
    /\ Noted /\ NothingVanishes /\ InTurn

LEMMA PathBegin == Init => PathInvariant
<1> SUFFICES ASSUME Init PROVE PathInvariant
  OBVIOUS
<1> USE BusAssumption
<1>1. Framed
  BY DEF Init, Framed
<1>2. Within
  BY DEF Init, Within, Inside, Held
<1>3. Fits
  <2>1. \A r \in Runs : buffer[r] = {}
    BY DEF Init
  <2> QED BY <2>1, FS_EmptySet DEF Fits
<1>4. Noted /\ NothingVanishes
  BY DEF Init, Noted, NothingVanishes
<1>5. InTurn
  BY DEF Init, InTurn, Up, Polling
<1> QED BY <1>1, <1>2, <1>3, <1>4, <1>5, Begin DEF PathInvariant

LEMMA PathStep == PathInvariant /\ [Next]_vars => PathInvariant'
<1> SUFFICES ASSUME PathInvariant, [Next]_vars PROVE PathInvariant'
  OBVIOUS
<1>1. /\ BusInvariant /\ Typed /\ AtCursor /\ Rested
      /\ Framed /\ Within /\ Fits /\ Noted /\ NothingVanishes /\ InTurn
  BY DEF PathInvariant, BusInvariant
<1>2. BusInvariant'
  BY <1>1, TypeStep, CursorStep, RestStep, ExclusiveStep DEF BusInvariant
<1>3. Framed' /\ Within' /\ Fits' /\ Noted' /\ InTurn'
  BY <1>1, FramedStep, WithinStep, FitsStep, NotedStep, TurnStep
<1>4. NothingVanishes'
  BY <1>1, <1>3, VanishStep
<1> QED BY <1>2, <1>3, <1>4 DEF PathInvariant

\* The variables of the bus keep their types, and a receive buffer its limit
\* (node.py 121-131): no cursor goes past the stream, however it was restored.
THEOREM BusTypeCorrect == Spec => []TypeOK
<1>1. ASSUME PathInvariant PROVE TypeOK
  <2>1. Typed /\ Framed /\ Within /\ Fits
    BY <1>1 DEF PathInvariant, BusInvariant
  <2>2. \A r \in Runs : /\ cursor[r] \in 0 .. MaxMessages /\ upto[r] \in 0 .. MaxMessages
                        /\ saved[r] \in 0 .. MaxMessages
    BY <2>1, FunctionTypes, BusAssumption DEF Within, Inside
  <2>3. /\ cursor \in [Runs -> 0 .. MaxMessages] /\ upto \in [Runs -> 0 .. MaxMessages]
        /\ saved \in [Runs -> 0 .. MaxMessages]
    BY <2>1, <2>2, FunctionTypes
  <2> QED BY <2>1, <2>3 DEF TypeOK, Typed, Framed, Fits
<1> QED BY <1>1, PathBegin, PathStep, PTL DEF Spec

\* The claimant sees a message through (transport.py 184-199, node.py 94-131,
\* bus/engine.py): whoever claimed it, it is imported, on its way in a run it
\* is addressed to, or given up at one of the places where the code gives up.
THEOREM ClaimsSeenThrough == Spec => []NothingVanishes
<1>1. PathInvariant => NothingVanishes
  BY DEF PathInvariant
<1> QED BY <1>1, PathBegin, PathStep, PTL DEF Spec

\* _last_id (transport.py 168-219) and the saved cursor pass no message that is
\* for the run and that nobody has claimed, through crashes, failing claims and
\* restarts.
THEOREM CursorsSkipNone == Spec => []NoneSkipped
<1>1. PathInvariant => NoneSkipped
  BY DEF PathInvariant, InTurn, Read, NoneSkipped
<1> QED BY <1>1, PathBegin, PathStep, PTL DEF Spec

=============================================================================
