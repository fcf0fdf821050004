---------------------------- MODULE IslandProofs ----------------------------
(***************************************************************************)
(* What holds of the islands for any programs, islands, grids, migrators   *)
(* and faults: the indexes of every archive agree; an archive is within    *)
(* its size when nobody holds its lock; and a program that nobody is       *)
(* working on is in at most one archive, is not there when it has been     *)
(* discarded, and is there when it has been accepted. The last three need  *)
(* to know who may be doing what to a program meanwhile (Orderly) and      *)
(* where it is while it is carried (Placed, Anchored).                     *)
(***************************************************************************)
EXTENDS MultiIsland, FiniteSetTheorems, TLAPS

-----------------------------------------------------------------------------
(***************************************************************************)
(* One archive. H is the set of programs whose removal may have gone       *)
(* unacknowledged.                                                         *)
(***************************************************************************)
\* The reverse index is the inverse of the hash.
Inverted(a) == \A p \in Programs, c \in Cells : a.rev[p] = c <=> a.hash[c] = p

\* What the hash names is cached, and what is only cached is in H.
Mirrors(a, H) ==
    \A c \in Cells :
        /\ a.hash[c] # None => a.cache[c] # None /\ a.cache[c].id = a.hash[c]
        /\ a.cache[c] # None => a.cache[c].id = a.hash[c] \/ a.cache[c].id \in H

Sound(a, H) == a \in Archives /\ Inverted(a) /\ Mirrors(a, H)

LEMMA EmptySound == Sound(Empty, {})
<1>1. Empty \in Archives
  BY DEF Empty, Archives
<1>2. Inverted(Empty)
  BY ArchiveAssumption DEF Empty, Inverted
<1>3. Mirrors(Empty, {})
  BY DEF Empty, Mirrors
<1> QED BY <1>1, <1>2, <1>3 DEF Sound

LEMMA SoundGrows ==
    ASSUME NEW a, NEW H, NEW G, Sound(a, H), H \subseteq G
    PROVE  Sound(a, G)
  BY DEF Sound, Mirrors

\* An entry is put only if the program is no elite of this archive yet.
LEMMA PutSound ==
    ASSUME NEW H, NEW a, Sound(a, H), NEW c \in Cells, NEW p \in Programs,
           NEW f \in Fits, p \notin Elites(a)
    PROVE  Sound(Put(a, c, p, f), H)
<1> DEFINE b == Put(a, c, p, f)
<1>1. /\ a \in Archives /\ a.hash \in [Cells -> Programs \cup {None}]
      /\ a.rev \in [Programs -> Cells \cup {None}]
      /\ a.cache \in [Cells -> [id : Programs, fit : Fits] \cup {None}]
  BY DEF Sound, Archives
<1>2. /\ b.hash = [a.hash EXCEPT ![c] = p]
      /\ b.rev = [q \in Programs |-> IF q = p THEN c
                                    ELSE IF q = a.hash[c] THEN None ELSE a.rev[q]]
      /\ b.cache = [a.cache EXCEPT ![c] = [id |-> p, fit |-> f]]
  BY DEF Put
<1>3. b \in Archives
  BY <1>1 DEF Put, Archives
<1>4. \A d \in Cells : a.hash[d] # p
  BY <1>1, ArchiveAssumption DEF Sound, Mirrors, Elites
<1>5. Inverted(b)
  <2> SUFFICES ASSUME NEW q \in Programs, NEW d \in Cells
               PROVE  b.rev[q] = d <=> b.hash[d] = q
    BY DEF Inverted
  <2>1. a.rev[q] = d <=> a.hash[d] = q
    BY DEF Sound, Inverted
  <2>2. a.rev[q] = c <=> a.hash[c] = q
    BY DEF Sound, Inverted
  <2> HIDE DEF b
  <2>3. CASE q = p
    BY <1>1, <1>2, <1>4, <2>3
  <2>4. CASE q # p /\ q = a.hash[c]
    BY <1>1, <1>2, <2>1, <2>2, <2>4, ArchiveAssumption
  <2>5. CASE q # p /\ q # a.hash[c]
    BY <1>1, <1>2, <2>1, <2>2, <2>5
  <2> QED BY <2>3, <2>4, <2>5
<1>6. Mirrors(b, H)
  <2> SUFFICES ASSUME NEW d \in Cells
               PROVE  /\ b.hash[d] # None => b.cache[d] # None /\ b.cache[d].id = b.hash[d]
                      /\ b.cache[d] # None => b.cache[d].id = b.hash[d] \/ b.cache[d].id \in H
    BY DEF Mirrors
  <2>1. CASE d = c
    <3>1. [id |-> p, fit |-> f] # None
      BY ArchiveAssumption
    <3> QED BY <1>1, <1>2, <2>1, <3>1
  <2>2. CASE d # c
    BY <1>1, <1>2, <2>2 DEF Sound, Mirrors
  <2> QED BY <2>1, <2>2
<1> QED BY <1>3, <1>5, <1>6 DEF Sound

\* A removal in Redis alone leaves the removed programs in the cache.
LEMMA UnlistedSound ==
    ASSUME NEW H, NEW a, Sound(a, H), NEW P \in SUBSET Programs
    PROVE  /\ Unlisted(a, P) \in Archives /\ Inverted(Unlisted(a, P))
           /\ Mirrors(Unlisted(a, P), H \cup P) /\ Unlisted(a, P).cache = a.cache
           /\ \A c \in Cells : Unlisted(a, P).hash[c] =
                 IF a.hash[c] \in P THEN None ELSE a.hash[c]
<1> DEFINE b == Unlisted(a, P)
<1>1. /\ a \in Archives /\ a.hash \in [Cells -> Programs \cup {None}]
      /\ a.rev \in [Programs -> Cells \cup {None}]
      /\ a.cache \in [Cells -> [id : Programs, fit : Fits] \cup {None}]
  BY DEF Sound, Archives
<1>2. /\ b.hash = [c \in Cells |-> IF \E p \in P : a.rev[p] = c THEN None ELSE a.hash[c]]
      /\ b.rev = [p \in Programs |-> IF p \in P THEN None ELSE a.rev[p]]
      /\ b.cache = a.cache
  BY <1>1 DEF Unlisted, Archives
<1>3. b \in Archives
  BY <1>1 DEF Unlisted, Archives
<1>4. \A c \in Cells : b.hash[c] = IF a.hash[c] \in P THEN None ELSE a.hash[c]
  <2> SUFFICES ASSUME NEW c \in Cells
               PROVE  (\E p \in P : a.rev[p] = c) <=> a.hash[c] \in P
    BY <1>2
  <2> QED BY DEF Sound, Inverted
<1> HIDE DEF b
<1>5. Inverted(b)
  <2> SUFFICES ASSUME NEW q \in Programs, NEW d \in Cells
               PROVE  b.rev[q] = d <=> b.hash[d] = q
    BY DEF Inverted
  <2>1. a.rev[q] = d <=> a.hash[d] = q
    BY DEF Sound, Inverted
  <2> QED BY <1>1, <1>2, <1>4, <2>1, ArchiveAssumption
<1>6. Mirrors(b, H \cup P)
  BY <1>1, <1>2, <1>4 DEF Sound, Mirrors
<1> QED BY <1>2, <1>3, <1>4, <1>5, <1>6 DEF b

LEMMA RemoveSound ==
    ASSUME NEW H, NEW a, Sound(a, H), NEW P \in SUBSET Programs
    PROVE  Sound(Remove(a, P), H)
<1>1. CASE \A p \in P : a.rev[p] = None
  BY <1>1 DEF Remove
<1>2. CASE ~\A p \in P : a.rev[p] = None
  <2> DEFINE u == Unlisted(a, P)
             cache == [c \in Cells |-> IF a.cache[c] # None /\ a.cache[c].id \in P
                                      THEN None ELSE a.cache[c]]
             b == [u EXCEPT !.cache = cache]
  <2>1. Remove(a, P) = b
    BY <1>2 DEF Remove
  <2>2. /\ u \in Archives /\ Inverted(u) /\ Mirrors(u, H \cup P) /\ u.cache = a.cache
        /\ \A c \in Cells : u.hash[c] = IF a.hash[c] \in P THEN None ELSE a.hash[c]
    BY UnlistedSound
  <2>3. cache \in [Cells -> [id : Programs, fit : Fits] \cup {None}]
    BY DEF Sound, Archives
  <2> HIDE DEF u
  <2>4. b \in Archives /\ b.hash = u.hash /\ b.rev = u.rev /\ b.cache = cache
    BY <2>2, <2>3 DEF Archives
  <2>5. Inverted(b)
    BY <2>2, <2>4 DEF Inverted
  <2> HIDE DEF b
  <2>6. Mirrors(b, H)
    <3> SUFFICES ASSUME NEW d \in Cells
                 PROVE  /\ b.hash[d] # None => b.cache[d] # None /\ b.cache[d].id = b.hash[d]
                        /\ b.cache[d] # None => b.cache[d].id = b.hash[d] \/ b.cache[d].id \in H
      BY DEF Mirrors
    <3>1. /\ a.hash[d] # None => a.cache[d] # None /\ a.cache[d].id = a.hash[d]
          /\ a.cache[d] # None => a.cache[d].id = a.hash[d] \/ a.cache[d].id \in H
      BY DEF Sound, Mirrors
    <3> QED BY <2>2, <2>4, <3>1
  <2> QED BY <2>1, <2>4, <2>5, <2>6 DEF Sound
<1> QED BY <1>1, <1>2

LEMMA ReloadedSound ==
    ASSUME NEW H, NEW a, Sound(a, H), NEW m \in [Programs -> Fits]
    PROVE  Sound(Reloaded(a, m), H)
<1> DEFINE cache == [c \in Cells |-> IF a.hash[c] = None THEN None
                                    ELSE [id |-> a.hash[c], fit |-> m[a.hash[c]]]]
           b == [a EXCEPT !.cache = cache]
<1>1. a \in Archives /\ a.hash \in [Cells -> Programs \cup {None}]
  BY DEF Sound, Archives
<1>2. cache \in [Cells -> [id : Programs, fit : Fits] \cup {None}]
  BY <1>1
<1>3. \A c \in Cells : a.hash[c] # None => cache[c] # None /\ cache[c].id = a.hash[c]
  BY <1>1, ArchiveAssumption
<1>4. \A c \in Cells : cache[c] # None => cache[c].id = a.hash[c]
  BY <1>1
<1>5. Reloaded(a, m) = b
  BY DEF Reloaded
<1> HIDE DEF cache
<1>6. b \in Archives /\ b.hash = a.hash /\ b.rev = a.rev /\ b.cache = cache
  BY <1>1, <1>2 DEF Archives
<1>7. Inverted(b)
  BY <1>6 DEF Sound, Inverted
<1>8. Mirrors(b, H)
  BY <1>3, <1>4, <1>6 DEF Mirrors
<1> QED BY <1>5, <1>6, <1>7, <1>8 DEF Sound

-----------------------------------------------------------------------------
(***************************************************************************)
(* The jobs: what a worker holds is enough for its next call.              *)
(***************************************************************************)
Shape(j) ==
    /\ j \in Jobs
    /\ j.at \in {"add", "stamp", "remove", "rollback"} => j.who \in Copies
    /\ j.at \in {"add", "stamp", "evict", "discard", "remove", "rollback"} => j.dst \in Islands
    /\ j.at = "remove" => j.who.src \in Islands

Shaped == job \in [Workers -> Jobs] /\ \A w \in Workers : Shape(job[w])

LEMMA IdleShape == Shape(Idle) /\ Idle \in Jobs
  BY DEF Idle, Shape, Jobs

\* A job made from another one by naming its stage and changing some fields.
LEMMA JobChange ==
    ASSUME NEW j \in Jobs, NEW at \in {"idle", "add", "stamp", "evict", "discard", "collect",
                                       "next", "remove", "rollback", "enforce"},
           NEW x \in Copies, NEW i \in Islands, NEW B \in SUBSET (Islands \X Copies),
           NEW V \in SUBSET Copies, NEW L \in SUBSET Islands
    PROVE  /\ [j EXCEPT !.at = at] \in Jobs
           /\ [j EXCEPT !.at = at, !.who = x, !.dst = i] \in Jobs
           /\ [j EXCEPT !.at = at, !.who = x, !.dst = i, !.batch = B] \in Jobs
           /\ [j EXCEPT !.at = at, !.dst = i] \in Jobs
           /\ [j EXCEPT !.at = at, !.victims = V] \in Jobs
           /\ [j EXCEPT !.left = L, !.batch = B, !.at = at] \in Jobs
           /\ [j EXCEPT !.at = at, !.batch = B] \in Jobs
           /\ [j EXCEPT !.batch = B] \in Jobs
           /\ [j EXCEPT !.at = at, !.left = L] \in Jobs
  BY DEF Jobs

LEMMA BecomeShaped ==
    ASSUME Shaped, NEW w \in Workers, NEW j, Shape(j), Become(w, j)
    PROVE  Shaped'
  BY DEF Shaped, Shape, Become

LEMMA CopyType ==
    ASSUME TypeOK, NEW p \in Programs
    PROVE  Copy(p) \in Copies
  BY DEF TypeOK, Copy, Copies

LEMMA HoldShaped ==
    ASSUME Shaped, NEW w \in Workers,
           NEW at \in {"idle", "stamp", "evict", "rollback"}, Hold(w, at),
           at = "stamp" => job[w].at = "add",
           at = "evict" => job[w].at = "stamp",
           at = "rollback" => job[w].at = "remove"
    PROVE  Shaped'
<1> DEFINE j == [job[w] EXCEPT !.at = at]
<1>1. Shape(job[w]) /\ job[w] \in Jobs
  BY DEF Shaped, Shape
<1>2. j \in Jobs /\ j.at = at /\ j.who = job[w].who /\ j.dst = job[w].dst
  BY <1>1 DEF Jobs
<1>3. Shape(j)
  BY <1>1, <1>2 DEF Shape
<1> QED BY <1>3, BecomeShaped DEF Hold

LEMMA NextMigrantShape ==
    ASSUME NEW j \in Jobs
    PROVE  Shape(NextMigrant(j))
<1> DEFINE k == [Idle EXCEPT !.at = "next", !.batch = j.batch]
<1>1. j.batch \in SUBSET (Islands \X Copies)
  BY DEF Jobs
<1>2. k \in Jobs
  BY <1>1, IdleShape DEF Jobs
<1>3. k.at = "next"
  BY IdleShape DEF Jobs
<1> QED BY <1>2, <1>3 DEF Shape, NextMigrant

LEMMA FinishShaped ==
    ASSUME Shaped, NEW w \in Workers, job[w].at \in {"stamp", "evict", "discard"}, Finish(w)
    PROVE  Shaped'
<1> DEFINE x == job[w].who
           k == [job[w] EXCEPT !.at = "remove", !.victims = {}]
           e == [Idle EXCEPT !.at = "enforce"]
<1>1. Shape(job[w]) /\ job[w] \in Jobs
  BY DEF Shaped, Shape
<1>2. e \in Jobs /\ e.at = "enforce"
  BY IdleShape DEF Jobs
<1>3. Shape(e)
  BY <1>2 DEF Shape
<1>4. k \in Jobs /\ k.at = "remove" /\ k.who = x /\ k.dst = job[w].dst
  BY <1>1 DEF Jobs
<1>5. ASSUME x # None, x.src \in Islands PROVE Shape(k)
  <2>1. x \in Copies
    BY <1>1, <1>5 DEF Jobs
  <2>2. job[w].dst \in Islands
    BY <1>1 DEF Shape
  <2> QED BY <1>4, <1>5, <2>1, <2>2 DEF Shape
<1>6. CASE w = "ingestor"
  BY <1>6, IdleShape, BecomeShaped DEF Finish
<1>7. CASE w # "ingestor" /\ x = None
  <2>1. Become(w, e)
    BY <1>7 DEF Finish
  <2> QED BY <1>3, <2>1, BecomeShaped
<1>8. CASE w # "ingestor" /\ x # None /\ x.src \in Islands
  <2>1. Become(w, k)
    BY <1>8 DEF Finish
  <2> QED BY <1>5, <1>8, <2>1, BecomeShaped
<1>9. CASE w # "ingestor" /\ x # None /\ x.src \notin Islands
  <2>1. Become(w, NextMigrant(job[w]))
    BY <1>9 DEF Finish
  <2> QED BY <1>1, <2>1, NextMigrantShape, BecomeShaped
<1> QED BY <1>6, <1>7, <1>8, <1>9

-----------------------------------------------------------------------------
(***************************************************************************)
(* The invariant.                                                          *)
(***************************************************************************)
\* The rest of the type invariant.
Rest ==
    /\ state \in [Programs -> {"new", "DONE", "DISCARDED"}]
    /\ fit \in [Programs -> Fits]
    /\ current \in [Programs -> Islands \cup {None, Absent}]
    /\ last \in 0 .. MaxGeneration /\ generation \in last .. MaxGeneration
    /\ displaced \cup contended \cup strayed \cup hit \subseteq Programs

AllSound == arch \in [Islands -> Archives] /\ \A i \in Islands : Sound(arch[i], hit)

IslandInvariant == Rest /\ Shaped /\ AllSound

LEMMA InvariantTypes == IslandInvariant => TypeOK
  BY DEF IslandInvariant, Rest, Shaped, AllSound, TypeOK

LEMMA InitInvariant == Init => IslandInvariant
<1> SUFFICES ASSUME Init PROVE IslandInvariant
  OBVIOUS
<1>1. Rest
  BY MultiIslandAssumption DEF Init, Rest
<1>2. Shaped
  BY IdleShape DEF Init, Shaped
<1>3. AllSound
  BY EmptySound DEF Init, AllSound, Sound
<1> QED BY <1>1, <1>2, <1>3 DEF IslandInvariant

\* A step changes one archive, or none.
LEMMA OneArchive ==
    ASSUME AllSound, hit \subseteq hit', NEW i \in Islands, NEW b, Sound(b, hit'),
           arch' = [arch EXCEPT ![i] = b]
    PROVE  AllSound'
<1>1. arch' \in [Islands -> Archives]
  BY DEF AllSound, Sound
<1>2. ASSUME NEW k \in Islands PROVE Sound(arch'[k], hit')
  <2>1. CASE k = i
    BY <2>1 DEF AllSound
  <2>2. CASE k # i
    <3>1. Sound(arch[k], hit) /\ arch'[k] = arch[k]
      BY <2>2 DEF AllSound
    <3> QED BY <3>1, SoundGrows
  <2> QED BY <2>1, <2>2
<1>3. \A k \in Islands : Sound(arch[k], hit)'
  BY <1>2 DEF Sound, Inverted, Mirrors
<1> QED BY <1>1, <1>3 DEF AllSound

LEMMA NoArchive ==
    ASSUME AllSound, hit \subseteq hit', UNCHANGED arch
    PROVE  AllSound'
<1>1. \A k \in Islands : Sound(arch'[k], hit')
  BY SoundGrows DEF AllSound
<1>2. \A k \in Islands : Sound(arch[k], hit)'
  BY <1>1 DEF Sound, Inverted, Mirrors
<1> QED BY <1>2 DEF AllSound

LEMMA ElitesType ==
    ASSUME NEW a \in Archives
    PROVE  Elites(a) \subseteq Programs
<1>1. a.cache \in [Cells -> [id : Programs, fit : Fits] \cup {None}]
  BY DEF Archives
<1> QED BY <1>1 DEF Elites

-----------------------------------------------------------------------------
(***************************************************************************)
(* The add of a program, by the ingestor or a migration.                   *)
(***************************************************************************)
LEMMA AddTypes ==
    ASSUME IslandInvariant, NEW w \in Workers, Adding(w)
    PROVE  /\ job[w].at = "add" /\ job[w].who \in Copies /\ job[w].who.id \in Programs
           /\ job[w].who.fit \in Fits /\ job[w].dst \in Islands
           /\ CellOf[job[w].dst][job[w].who.id] \in Cells
           /\ Sound(arch[job[w].dst], hit) /\ arch[job[w].dst] \in Archives
<1>1. job[w].at = "add" /\ job[w].who \in Copies /\ job[w].dst \in Islands
  BY DEF Adding, IslandInvariant, Shaped, Shape
<1>2. job[w].who.id \in Programs /\ job[w].who.fit \in Fits
  BY <1>1 DEF Copies
<1> QED BY <1>1, <1>2, ArchiveAssumption DEF IslandInvariant, AllSound

LEMMA NotAddedInvariant ==
    ASSUME IslandInvariant, NEW w \in Workers, Adding(w), NotAdded(w)
    PROVE  Shaped' /\ state' \in [Programs -> {"new", "DONE", "DISCARDED"}]
<1>1. job[w] \in Jobs
  BY DEF IslandInvariant, Shaped
<1>2. CASE w = "ingestor"
  BY <1>2, IdleShape, BecomeShaped DEF NotAdded, Reject, IslandInvariant, Rest
<1>3. CASE w # "ingestor"
  BY <1>1, <1>3, NextMigrantShape, BecomeShaped DEF NotAdded, IslandInvariant, Rest
<1> QED BY <1>2, <1>3

LEMMA AddInvariant ==
    ASSUME IslandInvariant, NEW w \in Workers, AddStep(w)
    PROVE  IslandInvariant'
<1> USE DEF IslandInvariant
<1>1. CASE AddAgain(w)
  <2>1. Shaped'
    BY <1>1, AddTypes, HoldShaped DEF AddAgain
  <2>2. AllSound'
    BY <1>1, NoArchive DEF AddAgain
  <2> QED BY <1>1, <2>1, <2>2 DEF AddAgain, Rest
<1>2. CASE AddElite(w)
  <2>1. Shaped'
    BY <1>2, AddTypes, HoldShaped DEF AddElite
  <2> DEFINE i == job[w].dst
             x == job[w].who
             b == Put(arch[i], CellOf[i][x.id], x.id, x.fit)
  <2>2. arch' = [arch EXCEPT ![i] = b] /\ hit' = hit
    BY <1>2 DEF AddElite
  <2>3. Adding(w) /\ x.id \notin Elites(arch[i])
    BY <1>2 DEF AddElite, AlreadyElite
  <2>4. Sound(b, hit')
    BY <2>2, <2>3, AddTypes, PutSound
  <2>5. i \in Islands
    BY <2>3, AddTypes
  <2> HIDE DEF b
  <2>6. AllSound'
    BY <2>2, <2>4, <2>5, OneArchive
  <2>7. Rest'
    <3>1. arch[i].hash[CellOf[i][x.id]] \in Programs \cup {None}
      BY <2>3, AddTypes DEF Archives
    <3> QED BY <1>2, <3>1 DEF AddElite, Rest
  <2> QED BY <2>1, <2>6, <2>7
<1>3. CASE AddRejected(w)
  <2>1. Shaped' /\ state' \in [Programs -> {"new", "DONE", "DISCARDED"}]
    BY <1>3, NotAddedInvariant DEF AddRejected
  <2>2. AllSound'
    BY <1>3, NoArchive DEF AddRejected
  <2> QED BY <1>3, <2>1, <2>2 DEF AddRejected, Rest
<1>4. CASE AddUnacked(w)
  <2> DEFINE i == job[w].dst
             x == job[w].who
             b == Put(arch[i], CellOf[i][x.id], x.id, fit[x.id])
  <2>1. Adding(w) /\ x.id \notin Elites(arch[i])
    BY <1>4 DEF AddUnacked, AlreadyElite
  <2>2. Shaped' /\ state' \in [Programs -> {"new", "DONE", "DISCARDED"}]
    BY <1>4, <2>1, NotAddedInvariant DEF AddUnacked
  <2>3. arch' = [arch EXCEPT ![i] = b] /\ hit' = hit \cup {x.id}
    BY <1>4 DEF AddUnacked
  <2>4. i \in Islands /\ x.id \in Programs /\ fit[x.id] \in Fits
    BY <2>1, AddTypes DEF Rest
  <2>5. Sound(b, hit')
    <3>1. Sound(arch[i], hit')
      BY <2>1, <2>3, AddTypes, SoundGrows
    <3> QED BY <2>1, <2>4, <3>1, AddTypes, PutSound
  <2> HIDE DEF b
  <2>6. AllSound'
    BY <2>3, <2>4, <2>5, OneArchive
  <2>7. Rest'
    <3>1. arch[i].hash[CellOf[i][x.id]] \in Programs \cup {None}
      BY <2>1, AddTypes DEF Archives
    <3> QED BY <1>4, <2>2, <2>4, <3>1 DEF AddUnacked, Rest
  <2> QED BY <2>2, <2>6, <2>7
<1>5. CASE Stamp(w)
  <2>1. Shape(job[w]) /\ job[w].at = "stamp"
    BY <1>5 DEF Stamp, Shaped
  <2>2. Shaped'
    <3>1. CASE OverLimit(arch[job[w].dst])
      BY <1>5, <2>1, <3>1, HoldShaped DEF Stamp
    <3>2. CASE ~OverLimit(arch[job[w].dst])
      BY <1>5, <2>1, <3>2, FinishShaped DEF Stamp
    <3> QED BY <3>1, <3>2
  <2>3. AllSound'
    BY <1>5, NoArchive DEF Stamp
  <2>4. Rest'
    <3>1. job[w].dst \in Islands
      BY <2>1 DEF Shape
    <3> QED BY <1>5, <3>1 DEF Stamp, Rest, Merged
  <2> QED BY <2>2, <2>3, <2>4
<1>6. CASE Evict(w)
  <2> DEFINE i == job[w].dst
             a == arch[i]
  <2>1. PICK V \in SUBSET Elites(a) :
          /\ arch' = [arch EXCEPT ![i] = Remove(a, V)]
          /\ Become(w, [job[w] EXCEPT !.at = "discard", !.victims = {Copy(p) : p \in V}])
    BY <1>6 DEF Evict
  <2>2. Shape(job[w]) /\ job[w] \in Jobs /\ i \in Islands /\ hit' = hit
    BY <1>6 DEF Evict, Shaped, Shape
  <2>3. a \in Archives /\ Sound(a, hit) /\ V \subseteq Programs
    BY <2>2, ElitesType DEF AllSound
  <2>4. AllSound'
    <3>1. Sound(Remove(a, V), hit')
      BY <2>2, <2>3, RemoveSound
    <3> QED BY <2>1, <2>2, <3>1, OneArchive
  <2>5. Shaped'
    <3> DEFINE j == [job[w] EXCEPT !.at = "discard", !.victims = {Copy(p) : p \in V}]
    <3>1. {Copy(p) : p \in V} \in SUBSET Copies
      BY <2>3, CopyType, InvariantTypes
    <3>2. j \in Jobs /\ j.at = "discard" /\ j.dst = i
      BY <2>2, <3>1 DEF Jobs
    <3>3. Shape(j)
      BY <2>2, <3>2 DEF Shape
    <3> QED BY <2>1, <3>3, BecomeShaped
  <2> QED BY <1>6, <2>4, <2>5 DEF Evict, Rest
<1>7. CASE Discard(w)
  <2>1. Shaped'
    BY <1>7, FinishShaped DEF Discard
  <2>2. AllSound'
    BY <1>7, NoArchive DEF Discard
  <2> QED BY <1>7, <2>1, <2>2 DEF Discard, Rest
<1> QED BY <1>1, <1>2, <1>3, <1>4, <1>5, <1>6, <1>7 DEF AddStep

-----------------------------------------------------------------------------
(***************************************************************************)
(* A migration.                                                            *)
(***************************************************************************)
LEMMA RemoveTypes ==
    ASSUME IslandInvariant, NEW m \in Workers, job[m].at \in {"remove", "rollback"}
    PROVE  /\ Shape(job[m]) /\ job[m] \in Jobs /\ job[m].who.id \in Programs
           /\ job[m].dst \in Islands /\ Sound(arch[job[m].dst], hit)
           /\ job[m].at = "remove" =>
                job[m].who.src \in Islands /\ Sound(arch[job[m].who.src], hit)
<1>1. Shape(job[m]) /\ job[m] \in Jobs
  BY DEF IslandInvariant, Shaped
<1>2. job[m].who \in Copies
  BY <1>1 DEF Shape
<1>3. job[m].who.id \in Programs
  BY <1>2 DEF Copies
<1> QED BY <1>1, <1>3 DEF Shape, IslandInvariant, AllSound

LEMMA AfterRemoveShaped ==
    ASSUME IslandInvariant, NEW m \in Workers, job[m].at = "remove",
           NEW removed \in BOOLEAN, Become(m, AfterRemove(job[m], removed))
    PROVE  Shaped'
<1>1. job[m] \in Jobs
  BY RemoveTypes
<1>2. CASE removed
  BY <1>1, <1>2, NextMigrantShape, BecomeShaped DEF AfterRemove, IslandInvariant
<1>3. CASE ~removed
  <2>1. Hold(m, "rollback")
    BY <1>3 DEF AfterRemove, Hold
  <2> QED BY <2>1, HoldShaped DEF IslandInvariant
<1> QED BY <1>2, <1>3

LEMMA MigrationInvariant ==
    ASSUME IslandInvariant, NEW m \in Migrators, MigrationStep(m)
    PROVE  IslandInvariant'
<1> USE DEF IslandInvariant
<1>0. m \in Workers /\ job[m] \in Jobs /\ Shape(job[m])
  BY DEF Workers, Shaped
<1>1. CASE Select(m)
  <2>1. Shaped'
    BY <1>1 DEF Select, Shaped, Shape
  <2>2. AllSound'
    BY <1>1, NoArchive DEF Select
  <2>3. Rest'
    BY <1>1, MultiIslandAssumption DEF Select, Rest, Sampled
  <2> QED BY <2>1, <2>2, <2>3
<1>2. CASE StartMigration(m)
  <2> DEFINE j == [Idle EXCEPT !.at = "collect", !.left = Islands]
  <2>1. j \in Jobs /\ j.at = "collect"
    BY IdleShape DEF Jobs
  <2>2. Shape(j)
    BY <2>1 DEF Shape
  <2>3. Shaped'
    BY <1>0, <1>2, <2>2, BecomeShaped DEF StartMigration
  <2>4. AllSound'
    BY <1>2, NoArchive DEF StartMigration
  <2> QED BY <1>2, <2>3, <2>4 DEF StartMigration, Rest
<1>3. CASE \E i \in Islands : Collect(m, i)
  <2>1. PICK i \in Islands : Collect(m, i)
    BY <1>3
  <2>2. PICK P \in SUBSET Elites(arch[i]) :
          /\ Become(m, [job[m] EXCEPT
                !.left = @ \ {i},
                !.batch = @ \cup {<<i, Copy(p)>> : p \in P},
                !.at = IF job[m].left = {i} THEN "next" ELSE "collect"])
          /\ contended' = contended \cup {p \in P : \E n \in Migrators \ {m} :
                p \in Touched(n) \/ \E b \in job[n].batch : b[2].id = p}
    BY <2>1 DEF Collect
  <2>3. P \subseteq Programs
    BY ElitesType DEF AllSound
  <2> DEFINE L == job[m].left \ {i}
             B == job[m].batch \cup {<<i, Copy(p)>> : p \in P}
             at == IF job[m].left = {i} THEN "next" ELSE "collect"
             j == [job[m] EXCEPT !.left = L, !.batch = B, !.at = at]
  <2>4. Become(m, j)
    BY <2>2
  <2>5. L \in SUBSET Islands /\ B \in SUBSET (Islands \X Copies)
    <3>1. \A p \in P : Copy(p) \in Copies
      BY <2>3, CopyType, InvariantTypes
    <3> QED BY <1>0, <3>1 DEF Jobs
  <2>6. at \in {"next", "collect"}
    OBVIOUS
  <2> HIDE DEF L, B, at
  <2>7. j \in Jobs /\ j.at = at
    BY <1>0, <2>5, <2>6 DEF Jobs
  <2>8. Shape(j)
    BY <2>6, <2>7 DEF Shape
  <2>9. Shaped'
    BY <1>0, <2>4, <2>8, BecomeShaped
  <2>10. AllSound'
    BY <2>1, NoArchive DEF Collect
  <2>11. Rest'
    BY <2>1, <2>2, <2>3 DEF Collect, Rest
  <2> QED BY <2>9, <2>10, <2>11
<1>4. CASE Migrate(m)
  <2>1. PICK b \in job[m].batch, i \in Islands :
          /\ Become(m, [job[m] EXCEPT !.at = "add", !.who = b[2], !.dst = i, !.batch = @ \ {b}])
          /\ strayed' \subseteq strayed \cup {b[2].id}
    BY <1>4 DEF Migrate, Routes
  <2> DEFINE B == job[m].batch \ {b}
             j == [job[m] EXCEPT !.at = "add", !.who = b[2], !.dst = i, !.batch = B]
  <2>2. b[2] \in Copies /\ B \in SUBSET (Islands \X Copies)
    BY <1>0 DEF Jobs
  <2> HIDE DEF B
  <2>3. j \in Jobs /\ j.at = "add" /\ j.who = b[2] /\ j.dst = i
    BY <1>0, <2>2 DEF Jobs
  <2>4. Shape(j)
    BY <2>2, <2>3 DEF Shape
  <2>5. Shaped'
    BY <1>0, <2>1, <2>4, BecomeShaped DEF B
  <2>6. AllSound'
    BY <1>4, NoArchive DEF Migrate
  <2>7. strayed' \subseteq Programs
    BY <2>1, <2>2 DEF Copies, Rest
  <2> QED BY <1>4, <2>5, <2>6, <2>7 DEF Migrate, Rest
<1>5. CASE NotRouted(m)
  <2>1. PICK b \in job[m].batch : Become(m, [job[m] EXCEPT !.batch = @ \ {b}])
    BY <1>5 DEF NotRouted
  <2> DEFINE B == job[m].batch \ {b}
             j == [job[m] EXCEPT !.batch = B]
  <2>2. B \in SUBSET (Islands \X Copies)
    BY <1>0 DEF Jobs
  <2> HIDE DEF B
  <2>3. j \in Jobs /\ j.at = job[m].at /\ j.who = job[m].who /\ j.dst = job[m].dst
    BY <1>0, <2>2 DEF Jobs
  <2>4. Shape(j)
    BY <1>0, <2>3 DEF Shape
  <2>5. Shaped'
    BY <1>0, <2>1, <2>4, BecomeShaped DEF B
  <2>6. AllSound'
    BY <1>5, NoArchive DEF NotRouted
  <2> QED BY <1>5, <2>5, <2>6 DEF NotRouted, Rest
<1>6. CASE RemoveFromSource(m)
  <2> DEFINE i == job[m].who.src
             p == job[m].who.id
  <2>1. /\ job[m].at = "remove" /\ arch' = [arch EXCEPT ![i] = Remove(@, {p})]
        /\ Become(m, AfterRemove(job[m], arch[i].rev[p] # None)) /\ hit' = hit
    BY <1>6 DEF RemoveFromSource
  <2>2. i \in Islands /\ p \in Programs /\ Sound(Remove(arch[i], {p}), hit')
    BY <1>0, <2>1, RemoveTypes, RemoveSound
  <2>3. AllSound'
    BY <2>1, <2>2, OneArchive
  <2>4. Shaped'
    BY <1>0, <2>1, AfterRemoveShaped
  <2> QED BY <1>6, <2>3, <2>4 DEF RemoveFromSource, Rest
<1>7. CASE RemoveUnacked(m)
  <2> DEFINE i == job[m].who.src
             p == job[m].who.id
  <2>1. /\ job[m].at = "remove" /\ arch' = [arch EXCEPT ![i] = Unlisted(@, {p})]
        /\ Become(m, AfterRemove(job[m], FALSE)) /\ hit' = hit \cup {p}
    BY <1>7 DEF RemoveUnacked
  <2>2. i \in Islands /\ p \in Programs /\ Sound(arch[i], hit)
    BY <1>0, <2>1, RemoveTypes
  <2>3. Sound(Unlisted(arch[i], {p}), hit')
    <3>1. /\ Unlisted(arch[i], {p}) \in Archives /\ Inverted(Unlisted(arch[i], {p}))
          /\ Mirrors(Unlisted(arch[i], {p}), hit \cup {p})
      BY <2>2, UnlistedSound
    <3> QED BY <2>1, <3>1 DEF Sound
  <2>4. AllSound'
    BY <2>1, <2>2, <2>3, OneArchive
  <2>5. Shaped'
    BY <1>0, <2>1, AfterRemoveShaped
  <2> QED BY <1>7, <2>2, <2>4, <2>5 DEF RemoveUnacked, Rest
<1>8. CASE Rollback(m)
  <2> DEFINE i == job[m].dst
             p == job[m].who.id
  <2>1. /\ job[m].at = "rollback" /\ arch' = [arch EXCEPT ![i] = Remove(@, {p})]
        /\ Become(m, NextMigrant(job[m])) /\ hit' = hit
    BY <1>8 DEF Rollback
  <2>2. i \in Islands /\ p \in Programs /\ Sound(Remove(arch[i], {p}), hit')
    BY <1>0, <2>1, RemoveTypes, RemoveSound
  <2>3. AllSound'
    BY <2>1, <2>2, OneArchive
  <2>4. Shaped'
    BY <1>0, <2>1, NextMigrantShape, BecomeShaped
  <2> QED BY <1>8, <2>3, <2>4 DEF Rollback, Rest
<1>9. CASE Migrated(m)
  <2> DEFINE j == [Idle EXCEPT !.at = "enforce"]
  <2>1. j \in Jobs /\ j.at = "enforce"
    BY IdleShape DEF Jobs
  <2>2. Shape(j)
    BY <2>1 DEF Shape
  <2>3. Shaped'
    BY <1>0, <1>9, <2>2, BecomeShaped DEF Migrated
  <2>4. AllSound'
    BY <1>9, NoArchive DEF Migrated
  <2> QED BY <1>9, <2>3, <2>4 DEF Migrated, Rest
<1>10. CASE \E i \in Islands : Enforce(m, i)
  <2>1. PICK i \in Islands : Enforce(m, i)
    BY <1>10
  <2> DEFINE j == [job[m] EXCEPT !.at = "evict", !.dst = i]
  <2>2. j \in Jobs /\ j.at = "evict" /\ j.dst = i
    BY <1>0 DEF Jobs
  <2>3. Shape(j)
    BY <2>2 DEF Shape
  <2>4. Shaped'
    BY <1>0, <2>1, <2>3, BecomeShaped DEF Enforce
  <2>5. AllSound'
    BY <2>1, NoArchive DEF Enforce
  <2> QED BY <2>1, <2>4, <2>5 DEF Enforce, Rest
<1>11. CASE Enforced(m)
  <2>1. Shaped'
    BY <1>0, <1>11, IdleShape, BecomeShaped DEF Enforced
  <2>2. AllSound'
    BY <1>11, NoArchive DEF Enforced
  <2>3. Rest'
    BY <1>11, MultiIslandAssumption DEF Enforced, Rest, Sampled, MigratedAt
  <2> QED BY <2>1, <2>2, <2>3
<1> QED
  BY <1>1, <1>2, <1>3, <1>4, <1>5, <1>6, <1>7, <1>8, <1>9, <1>10, <1>11 DEF MigrationStep

-----------------------------------------------------------------------------
(***************************************************************************)
(* Everything together.                                                    *)
(***************************************************************************)
LEMMA TouchedType ==
    ASSUME IslandInvariant, NEW w \in Workers
    PROVE  Touched(w) \subseteq Programs
<1>1. job[w] \in Jobs
  BY DEF IslandInvariant, Shaped
<1>2. job[w].victims \subseteq Copies /\ job[w].who \in Copies \cup {None}
  BY <1>1 DEF Jobs
<1> QED BY <1>2 DEF Touched, Copies

LEMMA StepInvariant ==
    ASSUME IslandInvariant, [Next]_vars
    PROVE  IslandInvariant'
<1> USE DEF IslandInvariant
<1>1. CASE \E p \in Programs : Offer(p)
  <2>1. PICK p \in Programs, i \in Islands : Offer(p) /\
          Become("ingestor", [Idle EXCEPT !.at = "add", !.who = Copy(p), !.dst = i])
    BY <1>1 DEF Offer, Routes
  <2> DEFINE j == [Idle EXCEPT !.at = "add", !.who = Copy(p), !.dst = i]
  <2>2. Copy(p) \in Copies
    BY CopyType, InvariantTypes
  <2>3. j \in Jobs /\ j.at = "add" /\ j.who = Copy(p) /\ j.dst = i
    BY <2>2, IdleShape DEF Jobs
  <2>4. Shape(j)
    BY <2>2, <2>3 DEF Shape
  <2>5. Shaped'
    BY <2>1, <2>4, BecomeShaped DEF Workers
  <2>6. AllSound'
    BY <2>1, NoArchive DEF Offer
  <2> QED BY <2>1, <2>5, <2>6 DEF Offer, Rest
<1>2. CASE \E p \in Programs : NoIsland(p)
  <2>1. PICK p \in Programs : NoIsland(p)
    BY <1>2
  <2>2. AllSound'
    BY <2>1, NoArchive DEF NoIsland
  <2>3. Shaped'
    BY <2>1 DEF NoIsland, Shaped, Shape
  <2> QED BY <2>1, <2>2, <2>3 DEF NoIsland, Reject, Rest
<1>3. CASE \E p \in Programs : Reevaluate(p)
  <2>1. PICK p \in Programs : Reevaluate(p)
    BY <1>3
  <2>2. AllSound'
    BY <2>1, NoArchive DEF Reevaluate
  <2>3. Shaped'
    BY <2>1 DEF Reevaluate, Shaped, Shape
  <2> QED BY <2>1, <2>2, <2>3 DEF Reevaluate, Rest
<1>4. CASE \E w \in Workers : AddStep(w)
  BY <1>4, AddInvariant
<1>5. CASE \E m \in Migrators : MigrationStep(m)
  BY <1>5, MigrationInvariant
<1>6. CASE CancelAdd
  <2>1. AllSound'
    BY <1>6, NoArchive DEF CancelAdd
  <2>2. Shaped'
    BY <1>6, IdleShape, BecomeShaped DEF CancelAdd, Workers
  <2>3. Touched("ingestor") \subseteq Programs
    BY TouchedType DEF Workers
  <2> QED BY <1>6, <2>1, <2>2, <2>3 DEF CancelAdd, Rest
<1>7. CASE Crash
  <2>1. \A w \in Workers : Touched(w) \subseteq Programs
    BY TouchedType
  <2>2. Rest'
    BY <1>7, <2>1 DEF Crash, Rest
  <2>3. Shaped'
    BY <1>7, IdleShape DEF Crash, Shaped, Shape
  <2>4. \A i \in Islands : Sound(Reloaded(arch[i], fit), hit)
    BY ReloadedSound DEF AllSound, Rest
  <2>5. \A i \in Islands : arch'[i] = Reloaded(arch[i], fit) /\ Sound(arch'[i], hit)
    BY <1>7, <2>4 DEF Crash
  <2>6. hit \subseteq hit' /\ arch' \in [Islands -> Archives]
    BY <1>7, <2>4 DEF Crash, Sound
  <2>7. \A i \in Islands : Sound(arch'[i], hit')
    BY <2>5, <2>6, SoundGrows
  <2>8. AllSound'
    BY <2>6, <2>7 DEF AllSound, Sound, Inverted, Mirrors
  <2> QED BY <2>2, <2>3, <2>8
<1>8. CASE UNCHANGED vars
  <2>1. AllSound'
    BY <1>8, NoArchive DEF vars
  <2>2. Shaped'
    BY <1>8 DEF vars, Shaped, Shape
  <2> QED BY <1>8, <2>1, <2>2 DEF vars, Rest
<1> QED BY <1>1, <1>2, <1>3, <1>4, <1>5, <1>6, <1>7, <1>8 DEF Next

LEMMA IslandAlways == Spec => []IslandInvariant
  BY InitInvariant, StepInvariant, PTL DEF Spec

\* The types of the islands' state, for any programs, islands and workers.
THEOREM IslandTypes == Spec => []TypeOK
  BY IslandAlways, InvariantTypes, PTL

\* RedisArchiveStorage: hash, reverse index and cache of every island agree
\* after any interleaving of adds, migrations, evictions, re-evaluations,
\* cancellations, crashes and lost answers.
THEOREM ArchiveIndexesAgree == Spec => []IndexesAgree
<1>1. AllSound => IndexesAgree
  <2> SUFFICES ASSUME AllSound, NEW i \in Islands
               PROVE  /\ \A p \in Programs, c \in Cells :
                             arch[i].rev[p] = c <=> arch[i].hash[c] = p
                      /\ \A c \in Cells :
                             LET e == arch[i].cache[c] IN
                             \/ IF e = None THEN arch[i].hash[c] = None
                                           ELSE arch[i].hash[c] = e.id
                             \/ e # None /\ e.id \in hit
    BY DEF IndexesAgree
  <2> QED BY DEF AllSound, Sound, Inverted, Mirrors
<1> QED BY <1>1, IslandAlways, PTL DEF IslandInvariant

-----------------------------------------------------------------------------
(***************************************************************************)
(* The size of an archive. A worker between its archive write and the end  *)
(* of its enforcement accounts for the one program too many.               *)
(***************************************************************************)
\* Apart from the programs of H, the elites are within the limit.
Small(a, H) == Cardinality(Elites(a) \ H) <= MaxSize

Enforcing(j) == j.at \in {"stamp", "evict", "discard"}

Accounted(w) ==
    /\ job[w].at \in {"stamp", "evict"} => Small(arch[job[w].dst], hit \cup Touched(w))
    /\ job[w].at = "discard" => Small(arch[job[w].dst], hit)

Sized ==
    /\ \A i \in Islands : Locked(i) \/ Small(arch[i], hit)
    /\ \A w \in Workers : Accounted(w)

LEMMA ElitesFinite ==
    ASSUME NEW a
    PROVE  IsFiniteSet(Elites(a))
<1> DEFINE D == {c \in Cells : a.cache[c] # None}
           f == [c \in D |-> a.cache[c].id]
<1>1. IsFiniteSet(D)
  BY ArchiveAssumption, FS_Subset
<1>2. f \in Surjection(D, Elites(a))
  BY DEF Elites, Surjection
<1> QED BY <1>1, <1>2, FS_Surjection

\* Fewer elites, or more programs that do not count.
LEMMA Smaller ==
    ASSUME NEW a, NEW b, NEW H, NEW G, Small(a, H), Elites(b) \ G \subseteq Elites(a) \ H
    PROVE  Small(b, G)
<1>1. IsFiniteSet(Elites(a) \ H)
  BY ElitesFinite, FS_Subset
<1>2. /\ IsFiniteSet(Elites(b) \ G)
      /\ Cardinality(Elites(b) \ G) <= Cardinality(Elites(a) \ H)
  BY <1>1, FS_Subset
<1>3. Cardinality(Elites(a) \ H) \in Nat /\ Cardinality(Elites(b) \ G) \in Nat
  BY <1>1, <1>2, FS_CardinalityType
<1> QED BY <1>2, <1>3, ArchiveAssumption DEF Small

LEMMA PutElites ==
    ASSUME NEW a \in Archives, NEW c \in Cells, NEW p \in Programs, NEW f \in Fits
    PROVE  Elites(Put(a, c, p, f)) \subseteq Elites(a) \cup {p}
<1> DEFINE b == Put(a, c, p, f)
<1>1. a.cache \in [Cells -> [id : Programs, fit : Fits] \cup {None}]
  BY DEF Archives
<1>2. b.cache = [a.cache EXCEPT ![c] = [id |-> p, fit |-> f]]
  BY DEF Put
<1> HIDE DEF b
<1>3. \A d \in Cells : b.cache[d] # None => b.cache[d].id \in Elites(a) \cup {p}
  BY <1>1, <1>2 DEF Elites
<1> QED BY <1>3 DEF Elites, b

LEMMA UnlistedElites ==
    ASSUME NEW a \in Archives, NEW P \in SUBSET Programs
    PROVE  Elites(Unlisted(a, P)) = Elites(a)
<1>1. Unlisted(a, P).cache = a.cache
  BY DEF Unlisted, Archives
<1> QED BY <1>1 DEF Elites

\* A removal takes the programs it was asked for, except those whose removal
\* was not acknowledged before.
LEMMA RemoveElites ==
    ASSUME NEW H, NEW a, Sound(a, H), NEW P \in SUBSET Programs
    PROVE  /\ Elites(Remove(a, P)) \subseteq Elites(a)
           /\ Elites(Remove(a, P)) \ H \subseteq Elites(a) \ P
<1>1. /\ a \in Archives /\ a.hash \in [Cells -> Programs \cup {None}]
      /\ a.rev \in [Programs -> Cells \cup {None}]
      /\ a.cache \in [Cells -> [id : Programs, fit : Fits] \cup {None}]
  BY DEF Sound, Archives
<1>2. CASE \A p \in P : a.rev[p] = None
  <2>1. Remove(a, P) = a
    BY <1>2 DEF Remove
  <2>2. ASSUME NEW c \in Cells, a.cache[c] # None, a.cache[c].id \in P
        PROVE  a.cache[c].id \in H
    BY <1>1, <1>2, <2>2, ArchiveAssumption DEF Sound, Inverted, Mirrors
  <2>3. Elites(a) \cap P \subseteq H
    BY <2>2 DEF Elites
  <2> QED BY <2>1, <2>3
<1>3. CASE ~\A p \in P : a.rev[p] = None
  <2> DEFINE cache == [c \in Cells |-> IF a.cache[c] # None /\ a.cache[c].id \in P
                                      THEN None ELSE a.cache[c]]
             b == Remove(a, P)
  <2>1. b.cache = cache
    <3>1. Unlisted(a, P) \in Archives
      BY UnlistedSound
    <3>2. b = [Unlisted(a, P) EXCEPT !.cache = cache]
      BY <1>3 DEF Remove
    <3> QED BY <3>1, <3>2 DEF Archives
  <2> HIDE DEF b
  <2>2. \A c \in Cells : b.cache[c] # None =>
            b.cache[c] = a.cache[c] /\ a.cache[c] # None /\ a.cache[c].id \notin P
    BY <2>1
  <2>3. Elites(b) \subseteq Elites(a) \ P
    BY <2>2 DEF Elites
  <2> QED BY <2>3 DEF b
<1> QED BY <1>2, <1>3

LEMMA ReloadedElites ==
    ASSUME NEW H, NEW a, Sound(a, H), NEW m \in [Programs -> Fits]
    PROVE  Elites(Reloaded(a, m)) \subseteq Elites(a)
<1> DEFINE cache == [c \in Cells |-> IF a.hash[c] = None THEN None
                                    ELSE [id |-> a.hash[c], fit |-> m[a.hash[c]]]]
           b == Reloaded(a, m)
<1>1. b.cache = cache
  BY DEF Reloaded, Sound, Archives
<1> HIDE DEF b
<1>2. \A c \in Cells : b.cache[c] # None => a.cache[c] # None /\ b.cache[c].id = a.cache[c].id
  BY <1>1 DEF Sound, Mirrors
<1>3. Elites(b) \subseteq Elites(a)
  BY <1>2 DEF Elites
<1> QED BY <1>3 DEF b

\* What worker w becomes; the others go on as they were.
LEMMA Becomes ==
    ASSUME Shaped, NEW w \in Workers, NEW j, Become(w, j)
    PROVE  job'[w] = j /\ \A v \in Workers \ {w} : job'[v] = job[v]
  BY DEF Shaped, Become

LEMMA IdleFields ==
    ASSUME NEW at, NEW B
    PROVE  /\ Idle.at = "idle" /\ Idle.who = None /\ Idle.victims = {} /\ Idle.batch = {}
           /\ [Idle EXCEPT !.at = at].at = at /\ [Idle EXCEPT !.at = at].who = None
           /\ [Idle EXCEPT !.at = at].victims = {} /\ [Idle EXCEPT !.at = at].batch = {}
           /\ [Idle EXCEPT !.at = at, !.batch = B].at = at
           /\ [Idle EXCEPT !.at = at, !.batch = B].who = None
           /\ [Idle EXCEPT !.at = at, !.batch = B].victims = {}
           /\ [Idle EXCEPT !.at = at, !.batch = B].batch = B
  BY DEF Idle

LEMMA NextFields ==
    ASSUME NEW j
    PROVE  /\ NextMigrant(j).at = "next" /\ NextMigrant(j).who = None
           /\ NextMigrant(j).victims = {} /\ NextMigrant(j).batch = j.batch
  BY DEF Idle, NextMigrant

LEMMA FinishReleases ==
    ASSUME Shaped, NEW w \in Workers, Finish(w)
    PROVE  ~Enforcing(job'[w]) /\ \A v \in Workers \ {w} : job'[v] = job[v]
<1> DEFINE x == job[w].who
           k == [job[w] EXCEPT !.at = "remove", !.victims = {}]
<1>1. job[w] \in Jobs
  BY DEF Shaped
<1>2. k.at = "remove"
  BY <1>1 DEF Jobs
<1>3. CASE w = "ingestor"
  BY <1>3, Becomes, IdleFields DEF Finish, Enforcing
<1>4. CASE w # "ingestor" /\ x = None
  <2> DEFINE e == [Idle EXCEPT !.at = "enforce"]
  <2>1. Become(w, e)
    BY <1>4 DEF Finish
  <2>2. e.at = "enforce"
    BY IdleFields
  <2> HIDE DEF e
  <2> QED BY <2>1, <2>2, Becomes DEF Enforcing
<1>5. CASE w # "ingestor" /\ x # None /\ x.src \in Islands
  <2>1. Become(w, k)
    BY <1>5 DEF Finish
  <2> QED BY <1>2, <2>1, Becomes DEF Enforcing
<1>6. CASE w # "ingestor" /\ x # None /\ x.src \notin Islands
  <2>1. Become(w, NextMigrant(job[w]))
    BY <1>6 DEF Finish
  <2> QED BY <2>1, Becomes, NextFields DEF Enforcing
<1> QED BY <1>3, <1>4, <1>5, <1>6

LEMMA NotAddedReleases ==
    ASSUME Shaped, NEW w \in Workers, NotAdded(w)
    PROVE  ~Enforcing(job'[w]) /\ \A v \in Workers \ {w} : job'[v] = job[v]
<1>1. CASE w = "ingestor"
  BY <1>1, Becomes, IdleFields DEF NotAdded, Enforcing
<1>2. CASE w # "ingestor"
  <2>1. Become(w, NextMigrant(job[w]))
    BY <1>2 DEF NotAdded
  <2> QED BY <2>1, Becomes, NextFields DEF Enforcing
<1> QED BY <1>1, <1>2

LEMMA HoldFields ==
    ASSUME Shaped, NEW w \in Workers, NEW at, Hold(w, at)
    PROVE  /\ job'[w].at = at /\ job'[w].who = job[w].who /\ job'[w].dst = job[w].dst
           /\ job'[w].victims = job[w].victims /\ job'[w].batch = job[w].batch
           /\ \A v \in Workers \ {w} : job'[v] = job[v]
<1> DEFINE j == [job[w] EXCEPT !.at = at]
<1>1. job[w] \in Jobs
  BY DEF Shaped
<1>2. /\ j.at = at /\ j.who = job[w].who /\ j.dst = job[w].dst
      /\ j.victims = job[w].victims /\ j.batch = job[w].batch
  BY <1>1 DEF Jobs
<1>3. job'[w] = j /\ \A v \in Workers \ {w} : job'[v] = job[v]
  BY Becomes DEF Hold
<1> QED BY <1>2, <1>3

\* A step of worker w that changes its own job, at most adds to the island it
\* locks, and leaves the island it unlocks within the limit.
LEMMA SizedStep ==
    ASSUME Sized, NEW w \in Workers, hit \subseteq hit',
           \A v \in Workers \ {w} : job'[v] = job[v],
           \A i \in Islands : \/ Elites(arch'[i]) \subseteq Elites(arch[i])
                              \/ Enforcing(job'[w]) /\ job'[w].dst = i /\ ~Locked(i),
           \A v \in Workers : Enforcing(job[v]) => job[v].dst \in Islands,
           Enforcing(job[w]) => \/ Enforcing(job'[w]) /\ job'[w].dst = job[w].dst
                                \/ Small(arch'[job[w].dst], hit'),
           Accounted(w)'
    PROVE  Sized'
<1>1. ASSUME NEW i \in Islands PROVE Locked(i)' \/ Small(arch'[i], hit')
  <2>1. CASE Enforcing(job'[w]) /\ job'[w].dst = i
    BY <2>1 DEF Locked, Enforcing
  <2>2. CASE ~(Enforcing(job'[w]) /\ job'[w].dst = i)
    <3>1. Elites(arch'[i]) \subseteq Elites(arch[i])
      BY <2>2
    <3>2. CASE ~Locked(i)
      <4>1. Small(arch[i], hit)
        BY <3>2 DEF Sized
      <4> QED BY <3>1, <4>1, Smaller
    <3>3. CASE Locked(i)
      <4>1. PICK v \in Workers : Enforcing(job[v]) /\ job[v].dst = i
        BY <3>3 DEF Locked, Enforcing
      <4>2. CASE v = w
        BY <2>2, <4>1, <4>2
      <4>3. CASE v # w
        BY <4>1, <4>3 DEF Locked, Enforcing
      <4> QED BY <4>2, <4>3
    <3> QED BY <3>2, <3>3
  <2> QED BY <2>1, <2>2
<1>2. ASSUME NEW v \in Workers PROVE Accounted(v)'
  <2>1. CASE v = w
    BY <2>1
  <2>2. CASE v # w
    <3>1. job'[v] = job[v] /\ Touched(v)' = Touched(v)
      BY <2>2 DEF Touched
    <3>2. CASE ~Enforcing(job[v])
      BY <3>1, <3>2 DEF Accounted, Enforcing
    <3>3. CASE Enforcing(job[v])
      <4> DEFINE i == job[v].dst
      <4>1. i \in Islands /\ Locked(i)
        BY <3>3 DEF Locked, Enforcing
      <4>2. Elites(arch'[i]) \subseteq Elites(arch[i])
        BY <4>1
      <4>3. Accounted(v)
        BY DEF Sized
      <4>4. job[v].at \in {"stamp", "evict"} => Small(arch'[i], hit' \cup Touched(v))
        <5> SUFFICES ASSUME job[v].at \in {"stamp", "evict"}
                     PROVE  Small(arch'[i], hit' \cup Touched(v))
          OBVIOUS
        <5>1. Small(arch[i], hit \cup Touched(v))
          BY <4>3 DEF Accounted
        <5> QED BY <4>2, <5>1, Smaller
      <4>5. job[v].at = "discard" => Small(arch'[i], hit')
        BY <4>2, <4>3, Smaller DEF Accounted
      <4> QED BY <3>1, <4>4, <4>5 DEF Accounted, Small
    <3> QED BY <3>2, <3>3
  <2> QED BY <2>1, <2>2
<1>3. \A i \in Islands : (Locked(i) \/ Small(arch[i], hit))'
  BY <1>1 DEF Small
<1> QED BY <1>2, <1>3 DEF Sized

\* A worker that holds a copy holds one that is not None.
LEMMA CopyIsSome ==
    ASSUME NEW x \in Copies
    PROVE  x # None
  BY MultiIslandAssumption

LEMMA SizedAdd ==
    ASSUME IslandInvariant, Sized, NEW w \in Workers, AddStep(w)
    PROVE  Sized'
<1>0. /\ Shaped /\ AllSound /\ job[w] \in Jobs
      /\ \A v \in Workers : Enforcing(job[v]) => job[v].dst \in Islands
  BY DEF IslandInvariant, Shaped, Shape, Enforcing
<1>1. CASE AddAgain(w) \/ AddElite(w)
  <2> DEFINE i == job[w].dst
             x == job[w].who
  <2>1. Adding(w) /\ Hold(w, "stamp") /\ hit' = hit
    BY <1>1 DEF AddAgain, AddElite
  <2>2. /\ job[w].at = "add" /\ i \in Islands /\ x \in Copies /\ x.id \in Programs
        /\ x.fit \in Fits /\ CellOf[i][x.id] \in Cells /\ arch[i] \in Archives /\ ~Locked(i)
    BY <2>1, AddTypes DEF Adding
  <2>3. /\ job'[w].at = "stamp" /\ job'[w].dst = i /\ job'[w].who = x
        /\ \A v \in Workers \ {w} : job'[v] = job[v]
    BY <1>0, <2>1, HoldFields
  <2>4. /\ Elites(arch'[i]) \subseteq Elites(arch[i]) \cup {x.id}
        /\ \A k \in Islands \ {i} : arch'[k] = arch[k]
    <3>1. CASE AddAgain(w)
      BY <3>1 DEF AddAgain
    <3>2. CASE AddElite(w)
      <4>1. arch' = [arch EXCEPT ![i] = Put(arch[i], CellOf[i][x.id], x.id, x.fit)]
        BY <3>2 DEF AddElite
      <4>2. /\ arch'[i] = Put(arch[i], CellOf[i][x.id], x.id, x.fit)
            /\ \A k \in Islands \ {i} : arch'[k] = arch[k]
        BY <1>0, <2>2, <4>1 DEF AllSound
      <4> QED BY <2>2, <4>2, PutElites
    <3> QED BY <1>1, <3>1, <3>2
  <2>5. x.id \in Touched(w)'
    <3>1. x # None
      BY <2>1, CopyIsSome, AddTypes
    <3> QED BY <2>3, <3>1 DEF Touched
  <2>6. Small(arch'[i], hit' \cup Touched(w)')
    <3>1. Small(arch[i], hit)
      BY <2>2 DEF Sized
    <3> QED BY <2>1, <2>4, <2>5, <3>1, Smaller
  <2>7. Accounted(w)'
    BY <2>3, <2>6 DEF Accounted, Small
  <2> QED BY <1>0, <2>1, <2>2, <2>3, <2>4, <2>7, SizedStep DEF Enforcing
<1>2. CASE AddRejected(w)
  <2>1. job[w].at = "add" /\ NotAdded(w) /\ UNCHANGED <<arch, hit>>
    BY <1>2 DEF AddRejected, Adding
  <2>2. ~Enforcing(job'[w]) /\ \A v \in Workers \ {w} : job'[v] = job[v]
    BY <1>0, <2>1, NotAddedReleases
  <2> QED BY <1>0, <2>1, <2>2, SizedStep DEF Enforcing, Accounted
<1>3. CASE AddUnacked(w)
  <2> DEFINE i == job[w].dst
             x == job[w].who
  <2>1. /\ Adding(w) /\ NotAdded(w) /\ hit' = hit \cup {x.id}
        /\ arch' = [arch EXCEPT ![i] = Put(arch[i], CellOf[i][x.id], x.id, fit[x.id])]
    BY <1>3 DEF AddUnacked
  <2>2. /\ job[w].at = "add" /\ i \in Islands /\ x.id \in Programs /\ fit[x.id] \in Fits
        /\ CellOf[i][x.id] \in Cells /\ arch[i] \in Archives /\ ~Locked(i)
    BY <2>1, AddTypes DEF Adding, IslandInvariant, Rest
  <2>3. ~Enforcing(job'[w]) /\ \A v \in Workers \ {w} : job'[v] = job[v]
    BY <1>0, <2>1, NotAddedReleases
  <2>4. /\ arch'[i] = Put(arch[i], CellOf[i][x.id], x.id, fit[x.id])
        /\ \A k \in Islands \ {i} : arch'[k] = arch[k]
    BY <1>0, <2>1, <2>2 DEF AllSound
  <2>5. Elites(arch'[i]) \subseteq Elites(arch[i]) \cup {x.id}
    BY <2>2, <2>4, PutElites
  <2>6. ASSUME NEW k \in Islands PROVE Locked(k)' \/ Small(arch'[k], hit')
    <3>1. CASE Locked(k)
      BY <2>2, <2>3, <3>1 DEF Locked
    <3>2. CASE ~Locked(k)
      <4>1. Small(arch[k], hit)
        BY <3>2 DEF Sized
      <4>2. Elites(arch'[k]) \ hit' \subseteq Elites(arch[k]) \ hit
        BY <2>1, <2>4, <2>5
      <4> QED BY <4>1, <4>2, Smaller
    <3> QED BY <3>1, <3>2
  <2>7. ASSUME NEW v \in Workers PROVE Accounted(v)'
    <3>1. CASE v = w
      BY <2>3, <3>1 DEF Accounted, Enforcing
    <3>2. CASE v # w /\ ~Enforcing(job[v])
      BY <2>3, <3>2 DEF Accounted, Enforcing
    <3>3. CASE v # w /\ Enforcing(job[v])
      <4> DEFINE k == job[v].dst
      <4>1. k \in Islands /\ Locked(k)
        BY <1>0, <3>3 DEF Locked, Enforcing
      <4>2. arch'[k] = arch[k] /\ job'[v] = job[v] /\ Touched(v)' = Touched(v)
        BY <2>2, <2>3, <2>4, <3>3, <4>1 DEF Touched
      <4>3. Accounted(v)
        BY DEF Sized
      <4>4. job[v].at \in {"stamp", "evict"} => Small(arch'[k], hit' \cup Touched(v))
        BY <2>1, <4>2, <4>3, Smaller DEF Accounted
      <4>5. job[v].at = "discard" => Small(arch'[k], hit')
        BY <2>1, <4>2, <4>3, Smaller DEF Accounted
      <4> QED BY <4>2, <4>4, <4>5 DEF Accounted, Small
    <3> QED BY <3>1, <3>2, <3>3
  <2>8. \A k \in Islands : (Locked(k) \/ Small(arch[k], hit))'
    BY <2>6 DEF Small
  <2> QED BY <2>7, <2>8 DEF Sized
<1>4. CASE Stamp(w)
  <2> DEFINE i == job[w].dst
  <2>1. job[w].at = "stamp" /\ i \in Islands /\ UNCHANGED <<arch, hit>>
    BY <1>0, <1>4 DEF Stamp, Enforcing
  <2>2. CASE OverLimit(arch[i])
    <3>1. Hold(w, "evict")
      BY <1>4, <2>2 DEF Stamp
    <3>2. /\ job'[w].at = "evict" /\ job'[w].dst = i /\ job'[w].who = job[w].who
          /\ job'[w].victims = job[w].victims /\ \A v \in Workers \ {w} : job'[v] = job[v]
      BY <1>0, <3>1, HoldFields
    <3>3. Touched(w)' = Touched(w)
      BY <2>1, <3>2 DEF Touched
    <3>4. Accounted(w)'
      BY <2>1, <3>2, <3>3 DEF Sized, Accounted, Small
    <3> QED BY <1>0, <2>1, <3>2, <3>4, SizedStep DEF Enforcing
  <2>3. CASE ~OverLimit(arch[i])
    <3>1. Finish(w)
      BY <1>4, <2>3 DEF Stamp
    <3>2. ~Enforcing(job'[w]) /\ \A v \in Workers \ {w} : job'[v] = job[v]
      BY <1>0, <3>1, FinishReleases
    <3>3. Small(arch[i], hit)
      <4>1. Small(arch[i], {})
        <5>1. Elites(arch[i]) \ {} = Elites(arch[i]) /\ Cardinality(Elites(arch[i])) \in Nat
          BY ElitesFinite, FS_CardinalityType
        <5> QED BY <2>3, <5>1, ArchiveAssumption DEF OverLimit, Small
      <4> QED BY <4>1, Smaller
    <3>4. Small(arch'[i], hit')
      BY <2>1, <3>3
    <3> QED BY <1>0, <2>1, <3>2, <3>4, SizedStep DEF Enforcing, Accounted
  <2> QED BY <2>2, <2>3
<1>5. CASE Evict(w)
  <2> DEFINE i == job[w].dst
             a == arch[i]
  <2>1. job[w].at = "evict" /\ i \in Islands /\ hit' = hit
    BY <1>0, <1>5 DEF Evict, Enforcing
  <2>2. PICK V \in SUBSET Elites(a) :
          /\ Cardinality(V) = Cardinality(Elites(a)) - MaxSize
          /\ arch' = [arch EXCEPT ![i] = Remove(a, V)]
          /\ Become(w, [job[w] EXCEPT !.at = "discard", !.victims = {Copy(p) : p \in V}])
    BY <1>5 DEF Evict
  <2> DEFINE j == [job[w] EXCEPT !.at = "discard", !.victims = {Copy(p) : p \in V}]
  <2>3. j.at = "discard" /\ j.dst = i
    BY <1>0 DEF Jobs
  <2>4. job'[w] = j /\ \A v \in Workers \ {w} : job'[v] = job[v]
    BY <1>0, <2>2, Becomes
  <2> HIDE DEF j
  <2>5. a \in Archives /\ Sound(a, hit) /\ V \subseteq Programs
    BY <1>0, <2>1, ElitesType DEF AllSound
  <2>6. arch'[i] = Remove(a, V) /\ \A k \in Islands \ {i} : arch'[k] = arch[k]
    BY <1>0, <2>1, <2>2 DEF AllSound
  <2>7. Elites(arch'[i]) \subseteq Elites(a) /\ Elites(arch'[i]) \ hit \subseteq Elites(a) \ V
    BY <2>5, <2>6, RemoveElites
  <2>8. Small(arch'[i], hit')
    <3>1. IsFiniteSet(Elites(a))
      BY ElitesFinite
    <3>2. /\ IsFiniteSet(Elites(a) \ V)
          /\ Cardinality(Elites(a) \ V) = Cardinality(Elites(a)) - Cardinality(Elites(a) \cap V)
      BY <3>1, FS_Difference
    <3>3. Elites(a) \cap V = V
      OBVIOUS
    <3>4. Cardinality(Elites(a)) \in Nat
      BY <3>1, FS_CardinalityType
    <3>5. Cardinality(Elites(a) \ V) = MaxSize
      <4>1. Cardinality(V) = Cardinality(Elites(a)) - MaxSize
        BY <2>2
      <4>2. Cardinality(Elites(a) \ V) = Cardinality(Elites(a)) - Cardinality(V)
        BY <3>2, <3>3
      <4>3. MaxSize \in Nat
        BY ArchiveAssumption
      <4> QED BY <3>4, <4>1, <4>2, <4>3
    <3>6. Small(a, V)
      BY <3>5, ArchiveAssumption DEF Small
    <3> QED BY <2>1, <2>7, <3>6, Smaller
  <2>9. Accounted(w)'
    BY <2>3, <2>4, <2>8 DEF Accounted, Small
  <2> QED BY <1>0, <2>1, <2>3, <2>4, <2>6, <2>7, <2>9, SizedStep DEF Enforcing
<1>6. CASE Discard(w)
  <2>1. job[w].at = "discard" /\ Finish(w) /\ UNCHANGED <<arch, hit>>
    BY <1>6 DEF Discard
  <2>2. ~Enforcing(job'[w]) /\ \A v \in Workers \ {w} : job'[v] = job[v]
    BY <1>0, <2>1, FinishReleases
  <2>3. Small(arch'[job[w].dst], hit')
    BY <2>1 DEF Sized, Accounted
  <2> QED BY <1>0, <2>1, <2>2, <2>3, SizedStep DEF Enforcing, Accounted
<1> QED BY <1>1, <1>2, <1>3, <1>4, <1>5, <1>6 DEF AddStep

LEMMA AfterRemoveReleases ==
    ASSUME Shaped, NEW m \in Workers, NEW removed \in BOOLEAN,
           Become(m, AfterRemove(job[m], removed))
    PROVE  ~Enforcing(job'[m]) /\ \A v \in Workers \ {m} : job'[v] = job[v]
<1>1. CASE removed
  BY <1>1, Becomes, NextFields DEF AfterRemove, Enforcing
<1>2. CASE ~removed
  <2>1. Hold(m, "rollback")
    BY <1>2 DEF AfterRemove, Hold
  <2> QED BY <2>1, HoldFields DEF Enforcing
<1> QED BY <1>1, <1>2

LEMMA SizedMigration ==
    ASSUME IslandInvariant, Sized, NEW m \in Migrators, MigrationStep(m)
    PROVE  Sized'
<1>0. /\ Shaped /\ AllSound /\ m \in Workers /\ job[m] \in Jobs
      /\ \A v \in Workers : Enforcing(job[v]) => job[v].dst \in Islands
  BY DEF IslandInvariant, Shaped, Shape, Enforcing, Workers
\* Every step but one neither holds nor takes a lock.
<1>1. ASSUME ~Enforcing(job[m]), ~Enforcing(job'[m]), hit \subseteq hit',
             \A v \in Workers \ {m} : job'[v] = job[v],
             \A i \in Islands : Elites(arch'[i]) \subseteq Elites(arch[i])
      PROVE  Sized'
  <2>1. Accounted(m)'
    BY <1>1 DEF Accounted, Enforcing
  <2> QED BY <1>0, <1>1, <2>1, SizedStep
<1>2. CASE Select(m)
  <2>1. job[m].at = "idle" /\ UNCHANGED <<arch, job, hit>>
    BY <1>2 DEF Select
  <2> QED BY <1>1, <2>1 DEF Enforcing
<1>3. CASE StartMigration(m)
  <2> DEFINE j == [Idle EXCEPT !.at = "collect", !.left = Islands]
  <2>1. job[m].at = "idle" /\ Become(m, j) /\ UNCHANGED <<arch, hit>>
    BY <1>3 DEF StartMigration
  <2>2. j.at = "collect"
    BY DEF Idle
  <2> HIDE DEF j
  <2>3. job'[m] = j /\ \A v \in Workers \ {m} : job'[v] = job[v]
    BY <1>0, <2>1, Becomes
  <2> QED BY <1>1, <2>1, <2>2, <2>3 DEF Enforcing
<1>4. CASE \E i \in Islands : Collect(m, i)
  <2>1. PICK i, B :
          Become(m, [job[m] EXCEPT
                !.left = @ \ {i}, !.batch = B,
                !.at = IF job[m].left = {i} THEN "next" ELSE "collect"])
    BY <1>4 DEF Collect
  <2>2. job[m].at = "collect" /\ UNCHANGED <<arch, hit>>
    BY <1>4 DEF Collect
  <2> DEFINE j == [job[m] EXCEPT
                !.left = @ \ {i}, !.batch = B,
                !.at = IF job[m].left = {i} THEN "next" ELSE "collect"]
  <2>3. j.at \in {"next", "collect"}
    BY <1>0 DEF Jobs
  <2> HIDE DEF j
  <2>4. job'[m] = j /\ \A v \in Workers \ {m} : job'[v] = job[v]
    BY <1>0, <2>1, Becomes DEF j
  <2> QED BY <1>1, <2>2, <2>3, <2>4 DEF Enforcing
<1>5. CASE Migrate(m)
  <2>1. PICK b, i : Become(m, [job[m] EXCEPT !.at = "add", !.who = b[2], !.dst = i,
                                             !.batch = @ \ {b}])
    BY <1>5 DEF Migrate
  <2>2. job[m].at = "next" /\ UNCHANGED <<arch, hit>>
    BY <1>5 DEF Migrate
  <2> DEFINE j == [job[m] EXCEPT !.at = "add", !.who = b[2], !.dst = i, !.batch = @ \ {b}]
  <2>3. j.at = "add"
    BY <1>0 DEF Jobs
  <2> HIDE DEF j
  <2>4. job'[m] = j /\ \A v \in Workers \ {m} : job'[v] = job[v]
    BY <1>0, <2>1, Becomes DEF j
  <2> QED BY <1>1, <2>2, <2>3, <2>4 DEF Enforcing
<1>6. CASE NotRouted(m)
  <2>1. PICK b : Become(m, [job[m] EXCEPT !.batch = @ \ {b}])
    BY <1>6 DEF NotRouted
  <2>2. job[m].at = "next" /\ UNCHANGED <<arch, hit>>
    BY <1>6 DEF NotRouted
  <2> DEFINE j == [job[m] EXCEPT !.batch = @ \ {b}]
  <2>3. j.at = "next"
    BY <1>0, <2>2 DEF Jobs
  <2> HIDE DEF j
  <2>4. job'[m] = j /\ \A v \in Workers \ {m} : job'[v] = job[v]
    BY <1>0, <2>1, Becomes DEF j
  <2> QED BY <1>1, <2>2, <2>3, <2>4 DEF Enforcing
<1>7. CASE RemoveFromSource(m)
  <2> DEFINE i == job[m].who.src
             p == job[m].who.id
  <2>1. /\ job[m].at = "remove" /\ arch' = [arch EXCEPT ![i] = Remove(arch[i], {p})]
        /\ Become(m, AfterRemove(job[m], arch[i].rev[p] # None)) /\ hit' = hit
    BY <1>7 DEF RemoveFromSource
  <2>2. ~Enforcing(job'[m]) /\ \A v \in Workers \ {m} : job'[v] = job[v]
    BY <1>0, <2>1, AfterRemoveReleases
  <2>3. i \in Islands /\ p \in Programs /\ Sound(arch[i], hit)
    BY <1>0, <2>1, RemoveTypes
  <2>4. arch'[i] = Remove(arch[i], {p}) /\ \A k \in Islands \ {i} : arch'[k] = arch[k]
    BY <1>0, <2>1, <2>3 DEF AllSound
  <2>5. Elites(arch'[i]) \subseteq Elites(arch[i])
    BY <2>3, <2>4, RemoveElites
  <2> QED BY <1>1, <2>1, <2>2, <2>4, <2>5 DEF Enforcing
<1>8. CASE RemoveUnacked(m)
  <2> DEFINE i == job[m].who.src
             p == job[m].who.id
  <2>1. /\ job[m].at = "remove" /\ arch' = [arch EXCEPT ![i] = Unlisted(arch[i], {p})]
        /\ Become(m, AfterRemove(job[m], FALSE)) /\ hit \subseteq hit'
    BY <1>8 DEF RemoveUnacked
  <2>2. ~Enforcing(job'[m]) /\ \A v \in Workers \ {m} : job'[v] = job[v]
    BY <1>0, <2>1, AfterRemoveReleases
  <2>3. i \in Islands /\ p \in Programs /\ arch[i] \in Archives
    BY <1>0, <2>1, RemoveTypes DEF AllSound
  <2>4. arch'[i] = Unlisted(arch[i], {p}) /\ \A k \in Islands \ {i} : arch'[k] = arch[k]
    BY <1>0, <2>1, <2>3 DEF AllSound
  <2>5. Elites(arch'[i]) = Elites(arch[i])
    BY <2>3, <2>4, UnlistedElites
  <2> QED BY <1>1, <2>1, <2>2, <2>4, <2>5 DEF Enforcing
<1>9. CASE Rollback(m)
  <2> DEFINE i == job[m].dst
             p == job[m].who.id
  <2>1. /\ job[m].at = "rollback" /\ arch' = [arch EXCEPT ![i] = Remove(arch[i], {p})]
        /\ Become(m, NextMigrant(job[m])) /\ hit' = hit
    BY <1>9 DEF Rollback
  <2>2. ~Enforcing(job'[m]) /\ \A v \in Workers \ {m} : job'[v] = job[v]
    BY <1>0, <2>1, Becomes, NextFields DEF Enforcing
  <2>3. i \in Islands /\ p \in Programs /\ Sound(arch[i], hit)
    BY <1>0, <2>1, RemoveTypes
  <2>4. arch'[i] = Remove(arch[i], {p}) /\ \A k \in Islands \ {i} : arch'[k] = arch[k]
    BY <1>0, <2>1, <2>3 DEF AllSound
  <2>5. Elites(arch'[i]) \subseteq Elites(arch[i])
    BY <2>3, <2>4, RemoveElites
  <2> QED BY <1>1, <2>1, <2>2, <2>4, <2>5 DEF Enforcing
<1>10. CASE Migrated(m)
  <2> DEFINE j == [Idle EXCEPT !.at = "enforce"]
  <2>1. job[m].at = "next" /\ Become(m, j) /\ UNCHANGED <<arch, hit>>
    BY <1>10 DEF Migrated
  <2>2. j.at = "enforce"
    BY IdleFields
  <2> HIDE DEF j
  <2>3. job'[m] = j /\ \A v \in Workers \ {m} : job'[v] = job[v]
    BY <1>0, <2>1, Becomes
  <2> QED BY <1>1, <2>1, <2>2, <2>3 DEF Enforcing
\* An enforcement of its own starts from an archive nobody else has locked.
<1>11. CASE \E i \in Islands : Enforce(m, i)
  <2>1. PICK i \in Islands : Enforce(m, i)
    BY <1>11
  <2> DEFINE j == [job[m] EXCEPT !.at = "evict", !.dst = i]
  <2>2. job[m].at = "enforce" /\ ~Locked(i) /\ Become(m, j) /\ UNCHANGED <<arch, hit>>
    BY <2>1 DEF Enforce
  <2>3. j.at = "evict" /\ j.dst = i
    BY <1>0 DEF Jobs
  <2> HIDE DEF j
  <2>4. job'[m] = j /\ \A v \in Workers \ {m} : job'[v] = job[v]
    BY <1>0, <2>2, Becomes
  <2>5. Small(arch[i], hit \cup Touched(m)')
    <3>1. Small(arch[i], hit)
      BY <2>2 DEF Sized
    <3> QED BY <3>1, Smaller
  <2>6. Accounted(m)'
    BY <2>2, <2>3, <2>4, <2>5 DEF Accounted, Small
  <2> QED BY <1>0, <2>2, <2>3, <2>4, <2>6, SizedStep DEF Enforcing
<1>12. CASE Enforced(m)
  <2>1. job[m].at = "enforce" /\ Become(m, Idle) /\ UNCHANGED <<arch, hit>>
    BY <1>12 DEF Enforced
  <2>2. job'[m] = Idle /\ \A v \in Workers \ {m} : job'[v] = job[v]
    BY <1>0, <2>1, Becomes
  <2> QED BY <1>1, <2>1, <2>2, IdleFields DEF Enforcing
<1> QED BY <1>2, <1>3, <1>4, <1>5, <1>6, <1>7, <1>8, <1>9, <1>10, <1>11, <1>12
        DEF MigrationStep

LEMMA SizedNext ==
    ASSUME IslandInvariant, Sized, [Next]_vars
    PROVE  Sized'
<1>0. /\ Shaped /\ AllSound /\ Rest /\ "ingestor" \in Workers
      /\ \A v \in Workers : Enforcing(job[v]) => job[v].dst \in Islands
  BY DEF IslandInvariant, Shaped, Shape, Enforcing, Workers
<1>1. CASE \E p \in Programs : Offer(p)
  <2>1. PICK p, i :
          Become("ingestor", [Idle EXCEPT !.at = "add", !.who = Copy(p), !.dst = i])
    BY <1>1 DEF Offer
  <2>2. job["ingestor"].at = "idle" /\ UNCHANGED <<arch, hit>>
    BY <1>1 DEF Offer
  <2> DEFINE j == [Idle EXCEPT !.at = "add", !.who = Copy(p), !.dst = i]
  <2>3. j.at = "add"
    BY DEF Idle
  <2> HIDE DEF j
  <2>4. job'["ingestor"] = j /\ \A v \in Workers \ {"ingestor"} : job'[v] = job[v]
    BY <1>0, <2>1, Becomes DEF j
  <2> QED BY <1>0, <2>2, <2>3, <2>4, SizedStep DEF Enforcing, Accounted
<1>2. CASE \E w \in Workers : AddStep(w)
  BY <1>2, SizedAdd
<1>3. CASE \E m \in Migrators : MigrationStep(m)
  BY <1>3, SizedMigration
\* The programs a cancelled add accounts for are struck.
<1>4. CASE CancelAdd
  <2> DEFINE w == "ingestor"
  <2>1. UNCHANGED arch /\ hit' = hit \cup Touched(w) /\ Become(w, Idle)
    BY <1>4 DEF CancelAdd
  <2>2. job'[w].at = "idle" /\ \A v \in Workers \ {w} : job'[v] = job[v]
    BY <1>0, <2>1, Becomes, IdleFields
  <2>3. Enforcing(job[w]) => Small(arch'[job[w].dst], hit')
    <3> SUFFICES ASSUME Enforcing(job[w]) PROVE Small(arch[job[w].dst], hit \cup Touched(w))
      BY <2>1
    <3>1. Accounted(w)
      BY <1>0 DEF Sized
    <3>2. CASE job[w].at \in {"stamp", "evict"}
      BY <3>1, <3>2 DEF Accounted
    <3>3. CASE job[w].at = "discard"
      <4>1. Small(arch[job[w].dst], hit)
        BY <3>1, <3>3 DEF Accounted
      <4> QED BY <4>1, Smaller
    <3> QED BY <3>2, <3>3 DEF Enforcing
  <2>4. Accounted(w)'
    BY <2>2 DEF Accounted
  <2>5. \A i \in Islands : Elites(arch'[i]) \subseteq Elites(arch[i])
    BY <2>1
  <2>6. hit \subseteq hit'
    BY <2>1
  <2> QED BY <1>0, <2>2, <2>3, <2>4, <2>5, <2>6, SizedStep
<1>5. CASE Crash
  <2>1. /\ hit' = hit \cup UNION {Touched(w) : w \in Workers}
        /\ arch' = [i \in Islands |-> Reloaded(arch[i], fit)]
        /\ job' = [w \in Workers |-> Idle]
    BY <1>5 DEF Crash
  <2>2. \A i \in Islands : Elites(arch'[i]) \subseteq Elites(arch[i])
    BY <1>0, <2>1, ReloadedElites DEF AllSound, Rest
  <2>3. ASSUME NEW i \in Islands PROVE Small(arch'[i], hit')
    <3>1. CASE ~Locked(i)
      <4>1. Small(arch[i], hit)
        BY <3>1 DEF Sized
      <4> QED BY <2>1, <2>2, <4>1, Smaller
    <3>2. CASE Locked(i)
      <4>1. PICK w \in Workers : Enforcing(job[w]) /\ job[w].dst = i
        BY <3>2 DEF Locked, Enforcing
      <4>2. Small(arch[i], hit \cup Touched(w)) \/ Small(arch[i], hit)
        BY <4>1 DEF Sized, Accounted, Enforcing
      <4>3. hit \cup Touched(w) \subseteq hit'
        BY <2>1
      <4> QED BY <2>2, <4>2, <4>3, Smaller
    <3> QED BY <3>1, <3>2
  <2>4. \A w \in Workers : Accounted(w)'
    BY <2>1, IdleFields DEF Accounted
  <2> QED BY <2>3, <2>4 DEF Sized, Small
\* The other steps change neither an archive nor a job.
<1>6. CASE \/ \E p \in Programs : NoIsland(p) \/ Reevaluate(p)
           \/ UNCHANGED vars
  <2>1. UNCHANGED <<arch, job>> /\ hit \subseteq hit'
    BY <1>6 DEF NoIsland, Reevaluate, vars
  <2>2. Accounted("ingestor")'
    <3> DEFINE w == "ingestor"
               i == job[w].dst
    <3>1. Accounted(w) /\ Touched(w)' = Touched(w)
      BY <1>0, <2>1 DEF Sized, Touched
    <3>2. job[w].at \in {"stamp", "evict"} => Small(arch[i], hit' \cup Touched(w))
      <4> SUFFICES ASSUME job[w].at \in {"stamp", "evict"}
                   PROVE  Small(arch[i], hit' \cup Touched(w))
        OBVIOUS
      <4>1. Small(arch[i], hit \cup Touched(w))
        BY <3>1 DEF Accounted
      <4> QED BY <2>1, <4>1, Smaller
    <3>3. job[w].at = "discard" => Small(arch[i], hit')
      BY <2>1, <3>1, Smaller DEF Accounted
    <3> QED BY <2>1, <3>1, <3>2, <3>3 DEF Accounted, Small
  <2> QED BY <1>0, <2>1, <2>2, SizedStep
<1> QED BY <1>1, <1>2, <1>3, <1>4, <1>5, <1>6 DEF Next

\* MapElitesIsland: whenever nobody holds an island's lock its archive is within
\* max_size, for any grid, limit and number of producers, unless a fault cut an
\* enforcement short.
THEOREM ArchivesWithinSize == Spec => []WithinSize
<1>1. Init => Sized
  <2> SUFFICES ASSUME Init PROVE Sized
    OBVIOUS
  <2>1. \A w \in Workers : job[w].at = "idle"
    BY IdleFields DEF Init
  <2>2. ASSUME NEW i \in Islands PROVE Small(arch[i], hit)
    <3>1. Elites(arch[i]) \ hit = {}
      BY DEF Init, Empty, Elites
    <3>2. Cardinality(Elites(arch[i]) \ hit) = 0
      BY <3>1, FS_EmptySet
    <3> QED BY <3>2, ArchiveAssumption DEF Small
  <2> QED BY <2>1, <2>2 DEF Sized, Accounted
<1>2. Sized => WithinSize
  <2> SUFFICES ASSUME Sized, NEW i \in Islands, ~Locked(i), Elites(arch[i]) \cap hit = {}
               PROVE  Cardinality(Elites(arch[i])) <= MaxSize
    BY DEF WithinSize
  <2>1. Elites(arch[i]) \ hit = Elites(arch[i]) /\ Small(arch[i], hit)
    BY DEF Sized
  <2> QED BY <2>1 DEF Small
<1> QED BY <1>1, <1>2, IslandAlways, SizedNext, PTL DEF Spec

-----------------------------------------------------------------------------
(***************************************************************************)
(* Where a program is: what the calls on an archive do to Stored.          *)
(***************************************************************************)
LEMMA StoredType ==
    ASSUME NEW a \in Archives
    PROVE  Stored(a) \subseteq Programs
<1>1. a.hash \in [Cells -> Programs \cup {None}]
  BY DEF Archives
<1> QED BY <1>1 DEF Stored

\* Only a program whose removal went unacknowledged is an elite and not stored.
LEMMA EliteStored ==
    ASSUME NEW H, NEW a, Sound(a, H)
    PROVE  Stored(a) \subseteq Elites(a) /\ Elites(a) \ H \subseteq Stored(a)
<1>1. ASSUME NEW p \in Stored(a) PROVE p \in Elites(a)
  BY DEF Stored, Elites, Sound, Mirrors
<1>2. ASSUME NEW p \in Elites(a) \ H PROVE p \in Stored(a)
  <2>1. PICK c \in Cells : a.cache[c] # None /\ p = a.cache[c].id
    BY DEF Elites
  <2>2. a.hash[c] = p /\ p \in Programs
    BY <2>1 DEF Sound, Mirrors, Archives
  <2> QED BY <2>2, ArchiveAssumption DEF Stored
<1> QED BY <1>1, <1>2

LEMMA ReverseStored ==
    ASSUME NEW H, NEW a, Sound(a, H), NEW p \in Programs
    PROVE  a.rev[p] # None <=> p \in Stored(a)
<1>1. a.rev \in [Programs -> Cells \cup {None}]
  BY DEF Sound, Archives
<1>2. ASSUME a.rev[p] # None PROVE p \in Stored(a)
  <2>1. a.rev[p] \in Cells /\ a.hash[a.rev[p]] = p
    BY <1>1, <1>2 DEF Sound, Inverted
  <2> QED BY <2>1, ArchiveAssumption DEF Stored
<1>3. ASSUME p \in Stored(a) PROVE a.rev[p] # None
  <2>1. PICK c \in Cells : a.hash[c] = p
    BY <1>3 DEF Stored
  <2>2. a.rev[p] = c
    BY <2>1 DEF Sound, Inverted
  <2> QED BY <2>2, ArchiveAssumption
<1> QED BY <1>2, <1>3

LEMMA PutStored ==
    ASSUME NEW H, NEW a, Sound(a, H), NEW c \in Cells, NEW p \in Programs, NEW f
    PROVE  /\ p \in Stored(Put(a, c, p, f))
           /\ Stored(Put(a, c, p, f)) \subseteq Stored(a) \cup {p}
           /\ \A q \in Stored(a) : q = a.hash[c] \/ q \in Stored(Put(a, c, p, f))
<1> DEFINE b == Put(a, c, p, f)
<1>1. a.hash \in [Cells -> Programs \cup {None}] /\ b.hash = [a.hash EXCEPT ![c] = p]
  BY DEF Put, Sound, Archives
<1> HIDE DEF b
<1>2. p \in Stored(b)
  BY <1>1, ArchiveAssumption DEF Stored
<1>3. Stored(b) \subseteq Stored(a) \cup {p}
  BY <1>1 DEF Stored
<1>4. ASSUME NEW q \in Stored(a), q # a.hash[c] PROVE q \in Stored(b)
  BY <1>1, <1>4 DEF Stored
<1> QED BY <1>2, <1>3, <1>4 DEF b

LEMMA RemoveStored ==
    ASSUME NEW H, NEW a, Sound(a, H), NEW P \in SUBSET Programs
    PROVE  Stored(Unlisted(a, P)) = Stored(a) \ P /\ Stored(Remove(a, P)) = Stored(a) \ P
<1> DEFINE u == Unlisted(a, P)
<1>1. /\ u \in Archives /\ Inverted(u) /\ Mirrors(u, H \cup P) /\ u.cache = a.cache
      /\ \A c \in Cells : u.hash[c] = IF a.hash[c] \in P THEN None ELSE a.hash[c]
  BY UnlistedSound
<1> HIDE DEF u
<1>2. Stored(u) = Stored(a) \ P
  <2>1. None \notin P
    BY ArchiveAssumption
  <2> QED BY <1>1, <2>1 DEF Stored
<1>3. CASE \A p \in P : a.rev[p] = None
  <2>1. Remove(a, P) = a
    BY <1>3 DEF Remove
  <2>2. Stored(a) \cap P = {}
    BY <1>3, ReverseStored
  <2> QED BY <1>2, <2>1, <2>2 DEF u
<1>4. CASE ~\A p \in P : a.rev[p] = None
  <2>1. Remove(a, P) = [u EXCEPT !.cache =
            [c \in Cells |-> IF a.cache[c] # None /\ a.cache[c].id \in P
                             THEN None ELSE a.cache[c]]]
    BY <1>4 DEF Remove, u
  <2>2. Remove(a, P).hash = u.hash
    BY <1>1, <2>1 DEF Archives
  <2> QED BY <1>2, <2>2 DEF u, Stored
<1> QED BY <1>3, <1>4

LEMMA ReloadedStored ==
    ASSUME NEW a \in Archives, NEW m
    PROVE  Stored(Reloaded(a, m)) = Stored(a)
<1>1. Reloaded(a, m).hash = a.hash
  BY DEF Reloaded, Archives
<1> QED BY <1>1 DEF Stored


LEMMA HomesRemoved ==
    ASSUME AllSound, NEW i \in Islands, NEW P \in SUBSET Programs, NEW b,
           b \in {Remove(arch[i], P), Unlisted(arch[i], P)},
           arch' = [arch EXCEPT ![i] = b]
    PROVE  \A p \in Programs : Homes(p)' = IF p \in P THEN Homes(p) \ {i} ELSE Homes(p)
<1>1. Stored(b) = Stored(arch[i]) \ P
  BY RemoveStored DEF AllSound
<1>2. arch'[i] = b /\ \A k \in Islands \ {i} : arch'[k] = arch[k]
  BY DEF AllSound
<1>3. \A p \in Programs : Homes(p)' = {k \in Islands : p \in Stored(arch'[k])}
  BY DEF Homes, Stored
<1> QED BY <1>1, <1>2, <1>3 DEF Homes

LEMMA HomesPut ==
    ASSUME AllSound, NEW i \in Islands, NEW x \in Programs, NEW c \in Cells, NEW f,
           arch' = [arch EXCEPT ![i] = Put(arch[i], c, x, f)],
           displaced' = displaced \cup ({arch[i].hash[c]} \ {None, x})
    PROVE  /\ Homes(x)' = Homes(x) \cup {i}
           /\ \A p \in Programs \ {x} :
                 Homes(p)' \subseteq Homes(p) /\ (p \notin displaced' => Homes(p)' = Homes(p))
<1> DEFINE b == Put(arch[i], c, x, f)
<1>1. /\ x \in Stored(b) /\ Stored(b) \subseteq Stored(arch[i]) \cup {x}
      /\ \A q \in Stored(arch[i]) : q = arch[i].hash[c] \/ q \in Stored(b)
  BY PutStored DEF AllSound
<1>2. arch'[i] = b /\ \A k \in Islands \ {i} : arch'[k] = arch[k]
  BY DEF AllSound
<1> HIDE DEF b
<1>3. \A p \in Programs : Homes(p)' = {k \in Islands : p \in Stored(arch'[k])}
  BY DEF Homes, Stored
<1>4. Homes(x)' = Homes(x) \cup {i}
  BY <1>1, <1>2, <1>3 DEF Homes
<1>5. ASSUME NEW p \in Programs \ {x}
      PROVE  Homes(p)' \subseteq Homes(p) /\ (p \notin displaced' => Homes(p)' = Homes(p))
  <2>1. p \in Stored(b) => p \in Stored(arch[i])
    BY <1>1
  <2>2. p \in Stored(arch[i]) /\ p \notin displaced' => p \in Stored(b)
    BY <1>1, ArchiveAssumption
  <2> QED BY <1>2, <1>3, <2>1, <2>2 DEF Homes
<1> QED BY <1>4, <1>5

LEMMA HomesSame ==
    ASSUME UNCHANGED arch
    PROVE  \A p \in Programs : Homes(p)' = Homes(p)
  BY DEF Homes, Stored

LEMMA HomesReloaded ==
    ASSUME AllSound, arch' = [i \in Islands |-> Reloaded(arch[i], fit)]
    PROVE  \A p \in Programs : Homes(p)' = Homes(p)
<1>1. \A k \in Islands : Stored(arch'[k]) = Stored(arch[k])
  BY ReloadedStored DEF AllSound
<1>2. \A p \in Programs : Homes(p)' = {k \in Islands : p \in Stored(arch'[k])}
  BY DEF Homes, Stored
<1> QED BY <1>1, <1>2 DEF Homes

-----------------------------------------------------------------------------
(***************************************************************************)
(* Who is doing what with a program.                                       *)
(***************************************************************************)
Carries(w, p)  == job[w].who # None /\ job[w].who.id = p
Free(p)        == \A w \in Workers : ~Carries(w, p)
Condemned(w)   == {v.id : v \in job[w].victims}
Victim(p)      == \E w \in Workers : p \in Condemned(w)
Dead(p)        == state[p] = "DISCARDED" \/ Victim(p)
Queued(m, p)   == \E b \in job[m].batch : b[2].id = p
Involved(m, p) == Carries(m, p) \/ Queued(m, p)

\* How the job of one worker may change: the others go on as they were; it goes
\* on with the same program; or it lets go of it.
Others(w)  == \A v \in Workers \ {w} : job'[v] = job[v]
Kept(w)    == /\ job'[w].who = job[w].who /\ job'[w].dst = job[w].dst
              /\ job'[w].batch = job[w].batch
Dropped(w) == /\ job'[w].who = None /\ job'[w].victims = {}
              /\ job'[w].batch \subseteq job[w].batch
              /\ job'[w].at \in {"idle", "next", "enforce"}
              /\ job'[w].at \in {"idle", "enforce"} => job'[w].batch = {}
              /\ w = "ingestor" => job'[w].at = "idle"

\* Where a step of the archive's writers leaves the job.
Finishing(w) ==
    \/ Dropped(w) /\ (w = "ingestor" \/ job[w].who = None \/ job[w].who.src \notin Islands)
    \/ /\ w # "ingestor" /\ job[w].who # None /\ job[w].who.src \in Islands
       /\ job'[w].at = "remove" /\ Kept(w) /\ job'[w].victims = {}

LEMMA BecomeIdle ==
    ASSUME Shaped, NEW w \in Workers, Become(w, Idle)
    PROVE  Others(w) /\ Dropped(w)
<1>1. job'[w] = Idle /\ Others(w)
  BY Becomes DEF Others
<1> QED BY <1>1, IdleFields DEF Dropped

LEMMA BecomeNext ==
    ASSUME Shaped, NEW w \in Workers, w # "ingestor", Become(w, NextMigrant(job[w]))
    PROVE  Others(w) /\ Dropped(w) /\ job'[w].at = "next" /\ job'[w].batch = job[w].batch
<1>1. job'[w] = NextMigrant(job[w]) /\ Others(w)
  BY Becomes DEF Others
<1> QED BY <1>1, NextFields DEF Dropped

LEMMA BecomeEnforce ==
    ASSUME Shaped, NEW w \in Workers, w # "ingestor",
           Become(w, [Idle EXCEPT !.at = "enforce"])
    PROVE  Others(w) /\ Dropped(w)
<1> DEFINE e == [Idle EXCEPT !.at = "enforce"]
<1>1. job'[w] = e /\ Others(w)
  BY Becomes DEF Others
<1>2. e.at = "enforce" /\ e.who = None /\ e.victims = {} /\ e.batch = {}
  BY IdleFields
<1> HIDE DEF e
<1> QED BY <1>1, <1>2 DEF Dropped

LEMMA HoldKeeps ==
    ASSUME Shaped, NEW w \in Workers, NEW at, Hold(w, at)
    PROVE  Others(w) /\ Kept(w) /\ job'[w].at = at /\ job'[w].victims = job[w].victims
  BY HoldFields DEF Others, Kept

LEMMA FinishDrops ==
    ASSUME Shaped, NEW w \in Workers, Finish(w)
    PROVE  Others(w) /\ Finishing(w)
<1> DEFINE x == job[w].who
           k == [job[w] EXCEPT !.at = "remove", !.victims = {}]
<1>1. job[w] \in Jobs
  BY DEF Shaped
<1>2. CASE w = "ingestor"
  BY <1>2, BecomeIdle DEF Finish, Finishing
<1>3. CASE w # "ingestor" /\ x = None
  <2>1. Become(w, [Idle EXCEPT !.at = "enforce"])
    BY <1>3 DEF Finish
  <2> QED BY <1>3, <2>1, BecomeEnforce DEF Finishing
<1>4. CASE w # "ingestor" /\ x # None /\ x.src \in Islands
  <2>1. Become(w, k)
    BY <1>4 DEF Finish
  <2>2. /\ k.at = "remove" /\ k.who = x /\ k.dst = job[w].dst
        /\ k.batch = job[w].batch /\ k.victims = {}
    BY <1>1 DEF Jobs
  <2>3. job'[w] = k /\ Others(w)
    BY <2>1, Becomes DEF Others
  <2> QED BY <1>4, <2>2, <2>3 DEF Finishing, Kept
<1>5. CASE w # "ingestor" /\ x # None /\ x.src \notin Islands
  <2>1. Become(w, NextMigrant(job[w]))
    BY <1>5 DEF Finish
  <2> QED BY <1>5, <2>1, BecomeNext DEF Finishing
<1> QED BY <1>2, <1>3, <1>4, <1>5

LEMMA NotAddedDrops ==
    ASSUME Shaped, NEW w \in Workers, NotAdded(w)
    PROVE  Others(w) /\ Dropped(w)
<1>1. CASE w = "ingestor"
  BY <1>1, BecomeIdle DEF NotAdded
<1>2. CASE w # "ingestor"
  BY <1>2, BecomeNext DEF NotAdded
<1> QED BY <1>1, <1>2

LEMMA AfterRemoveEffect ==
    ASSUME Shaped, NEW m \in Migrators, NEW removed \in BOOLEAN,
           Become(m, AfterRemove(job[m], removed))
    PROVE  /\ Others(m)
           /\ removed => Dropped(m)
           /\ ~removed => /\ Kept(m) /\ job'[m].at = "rollback"
                          /\ job'[m].victims = job[m].victims
<1>1. m \in Workers /\ m # "ingestor"
  BY MultiIslandAssumption DEF Workers
<1>2. CASE removed
  BY <1>1, <1>2, BecomeNext DEF AfterRemove
<1>3. CASE ~removed
  <2>1. Hold(m, "rollback")
    BY <1>3 DEF AfterRemove, Hold
  <2> QED BY <1>1, <1>3, <2>1, HoldKeeps
<1> QED BY <1>2, <1>3

LEMMA OfferEffect ==
    ASSUME IslandInvariant, NEW p \in Programs, Offer(p)
    PROVE  LET w == "ingestor" IN
           /\ Others(w) /\ job[w].at = "idle" /\ state[p] = "new"
           /\ job'[w].at = "add" /\ job'[w].who = Copy(p) /\ job'[w].dst \in Islands
           /\ job'[w].batch = {} /\ job'[w].victims = {}
           /\ UNCHANGED <<arch, state, fit, current, displaced, contended, strayed, hit>>
<1>1. PICK i \in Islands :
        Become("ingestor", [Idle EXCEPT !.at = "add", !.who = Copy(p), !.dst = i])
  BY DEF Offer, Routes
<1> DEFINE j == [Idle EXCEPT !.at = "add", !.who = Copy(p), !.dst = i]
<1>2. j.at = "add" /\ j.who = Copy(p) /\ j.dst = i /\ j.batch = {} /\ j.victims = {}
  BY DEF Idle
<1>3. job'["ingestor"] = j /\ Others("ingestor")
  BY <1>1, Becomes DEF Others, IslandInvariant, Workers
<1> HIDE DEF j
<1> QED BY <1>2, <1>3 DEF Offer

LEMMA EvictEffect ==
    ASSUME IslandInvariant, NEW w \in Workers, Evict(w)
    PROVE  /\ Others(w) /\ Kept(w) /\ job[w].at = "evict" /\ job'[w].at = "discard"
           /\ UNCHANGED <<state, fit, current, displaced, contended, strayed, hit>>
           /\ job[w].dst \in Islands
           /\ \E V \in SUBSET Elites(arch[job[w].dst]) :
                 /\ V \subseteq Programs /\ Condemned(w)' = V
                 /\ arch' = [arch EXCEPT ![job[w].dst] = Remove(arch[job[w].dst], V)]
                 /\ \A p \in Programs :
                       Homes(p)' = IF p \in V THEN Homes(p) \ {job[w].dst} ELSE Homes(p)
<1> DEFINE i == job[w].dst
           a == arch[i]
<1>1. Shaped /\ AllSound /\ job[w] \in Jobs /\ job[w].at = "evict" /\ i \in Islands
  BY DEF IslandInvariant, Shaped, Shape, Evict
<1>2. PICK V \in SUBSET Elites(a) :
        /\ arch' = [arch EXCEPT ![i] = Remove(a, V)]
        /\ Become(w, [job[w] EXCEPT !.at = "discard", !.victims = {Copy(p) : p \in V}])
  BY DEF Evict
<1> DEFINE j == [job[w] EXCEPT !.at = "discard", !.victims = {Copy(p) : p \in V}]
<1>3. /\ j.at = "discard" /\ j.who = job[w].who /\ j.dst = i /\ j.batch = job[w].batch
      /\ j.victims = {Copy(p) : p \in V}
  BY <1>1 DEF Jobs
<1>4. job'[w] = j /\ Others(w)
  BY <1>1, <1>2, Becomes DEF Others
<1> HIDE DEF j
<1>5. Condemned(w)' = V
  <2>1. \A p : Copy(p).id = p
    BY DEF Copy
  <2>2. job'[w].victims = {Copy(p) : p \in V}
    BY <1>3, <1>4
  <2>3. Condemned(w)' = {v.id : v \in {Copy(p) : p \in V}}
    BY <2>2 DEF Condemned
  <2> QED BY <2>1, <2>3
<1>6. V \subseteq Programs
  BY <1>1, ElitesType DEF AllSound
<1>7. \A p \in Programs : Homes(p)' = IF p \in V THEN Homes(p) \ {i} ELSE Homes(p)
  BY <1>1, <1>2, <1>6, HomesRemoved
<1> QED BY <1>1, <1>2, <1>3, <1>4, <1>5, <1>6, <1>7 DEF Evict, Kept

LEMMA CollectEffect ==
    ASSUME IslandInvariant, NEW m \in Migrators, NEW i \in Islands, Collect(m, i)
    PROVE  /\ Others(m) /\ job[m].at = "collect" /\ job'[m].at \in {"collect", "next"}
           /\ i \in job[m].left /\ ~Locked(i) /\ job'[m].left = job[m].left \ {i}
           /\ job'[m].who = job[m].who /\ job'[m].victims = job[m].victims
           /\ UNCHANGED <<arch, state, fit, current, displaced, strayed, hit>>
           /\ \E P \in SUBSET Elites(arch[i]) :
                 /\ job'[m].batch = job[m].batch \cup {<<i, Copy(p)>> : p \in P}
                 /\ contended' = contended \cup {p \in P : \E n \in Migrators \ {m} :
                        p \in Touched(n) \/ \E b \in job[n].batch : b[2].id = p}
<1>1. Shaped /\ m \in Workers /\ job[m] \in Jobs
  BY DEF IslandInvariant, Shaped, Workers
<1>2. PICK P \in SUBSET Elites(arch[i]) :
        /\ Become(m, [job[m] EXCEPT
              !.left = @ \ {i},
              !.batch = @ \cup {<<i, Copy(p)>> : p \in P},
              !.at = IF job[m].left = {i} THEN "next" ELSE "collect"])
        /\ contended' = contended \cup {p \in P : \E n \in Migrators \ {m} :
              p \in Touched(n) \/ \E b \in job[n].batch : b[2].id = p}
  BY DEF Collect
<1> DEFINE B == {<<i, Copy(p)>> : p \in P}
           at == IF job[m].left = {i} THEN "next" ELSE "collect"
           j == [job[m] EXCEPT !.left = @ \ {i}, !.batch = @ \cup B, !.at = at]
<1>3. at \in {"collect", "next"} /\ Become(m, j)
  BY <1>2
<1>4. job'[m] = j /\ Others(m)
  BY <1>1, <1>3, Becomes DEF Others
<1> HIDE DEF at, B
<1>5. /\ j.at = at /\ j.who = job[m].who /\ j.victims = job[m].victims
      /\ j.left = job[m].left \ {i} /\ j.batch = job[m].batch \cup B
  BY <1>1 DEF Jobs
<1> HIDE DEF j
<1>6. job'[m].batch = job[m].batch \cup {<<i, Copy(p)>> : p \in P}
  BY <1>4, <1>5 DEF B
<1> QED BY <1>2, <1>3, <1>4, <1>5, <1>6 DEF Collect

LEMMA MigrateEffect ==
    ASSUME IslandInvariant, NEW m \in Migrators, Migrate(m)
    PROVE  /\ Others(m) /\ job[m].at = "next" /\ job'[m].at = "add"
           /\ UNCHANGED <<arch, state, fit, current, displaced, contended, hit>>
           /\ job'[m].victims = job[m].victims
           /\ \E b \in job[m].batch :
                 /\ job'[m].who = b[2] /\ job'[m].batch = job[m].batch \ {b}
                 /\ b[1] \in Islands /\ b[2] \in Copies
                 /\ job'[m].dst \in Routes(b[2], Islands \ {b[2].src})
                 /\ strayed' = strayed \cup (IF b[1] = b[2].src THEN {} ELSE {b[2].id})
<1>1. Shaped /\ m \in Workers /\ job[m] \in Jobs
  BY DEF IslandInvariant, Shaped, Workers
<1>0. PICK b \in job[m].batch : \E i \in Routes(b[2], Islands \ {b[2].src}) :
        /\ Become(m, [job[m] EXCEPT !.at = "add", !.who = b[2], !.dst = i, !.batch = @ \ {b}])
        /\ strayed' = strayed \cup (IF b[1] = b[2].src THEN {} ELSE {b[2].id})
  BY DEF Migrate
<1>2. PICK i \in Routes(b[2], Islands \ {b[2].src}) :
        /\ Become(m, [job[m] EXCEPT !.at = "add", !.who = b[2], !.dst = i, !.batch = @ \ {b}])
        /\ strayed' = strayed \cup (IF b[1] = b[2].src THEN {} ELSE {b[2].id})
  BY <1>0
<1> DEFINE j == [job[m] EXCEPT !.at = "add", !.who = b[2], !.dst = i, !.batch = @ \ {b}]
<1>3. job'[m] = j /\ Others(m)
  BY <1>1, <1>2, Becomes DEF Others
<1>4. /\ j.at = "add" /\ j.who = b[2] /\ j.dst = i /\ j.victims = job[m].victims
      /\ j.batch = job[m].batch \ {b}
  BY <1>1 DEF Jobs
<1> HIDE DEF j
<1>5. b[1] \in Islands /\ b[2] \in Copies
  BY <1>1 DEF Jobs
<1> QED BY <1>2, <1>3, <1>4, <1>5 DEF Migrate

LEMMA NotRoutedEffect ==
    ASSUME IslandInvariant, NEW m \in Migrators, NotRouted(m)
    PROVE  /\ Others(m) /\ job[m].at = "next" /\ job'[m].at = "next"
           /\ UNCHANGED <<arch, state, fit, current, displaced, contended, strayed, hit>>
           /\ job'[m].who = job[m].who /\ job'[m].victims = job[m].victims
           /\ job'[m].batch \subseteq job[m].batch
<1>1. Shaped /\ m \in Workers /\ job[m] \in Jobs
  BY DEF IslandInvariant, Shaped, Workers
<1>2. PICK b : Become(m, [job[m] EXCEPT !.batch = @ \ {b}])
  BY DEF NotRouted
<1> DEFINE j == [job[m] EXCEPT !.batch = @ \ {b}]
<1>3. job'[m] = j /\ Others(m)
  BY <1>1, <1>2, Becomes DEF Others
<1>4. /\ j.at = job[m].at /\ j.who = job[m].who /\ j.victims = job[m].victims
      /\ j.batch = job[m].batch \ {b}
  BY <1>1 DEF Jobs
<1> HIDE DEF j
<1> QED BY <1>3, <1>4 DEF NotRouted

LEMMA StartEffect ==
    ASSUME IslandInvariant, NEW m \in Migrators, StartMigration(m)
    PROVE  /\ Others(m) /\ job[m].at = "idle" /\ job'[m].at = "collect"
           /\ UNCHANGED <<arch, state, fit, current, displaced, contended, strayed, hit>>
           /\ job'[m].who = None /\ job'[m].victims = {} /\ job'[m].batch = {}
<1>1. Shaped /\ m \in Workers
  BY DEF IslandInvariant, Workers
<1> DEFINE j == [Idle EXCEPT !.at = "collect", !.left = Islands]
<1>2. job'[m] = j /\ Others(m)
  BY <1>1, Becomes DEF Others, StartMigration
<1>3. j.at = "collect" /\ j.who = None /\ j.victims = {} /\ j.batch = {}
  BY DEF Idle
<1> HIDE DEF j
<1> QED BY <1>2, <1>3 DEF StartMigration

LEMMA EnforceEffect ==
    ASSUME IslandInvariant, NEW m \in Migrators, NEW i \in Islands, Enforce(m, i)
    PROVE  /\ Others(m) /\ job[m].at = "enforce" /\ job'[m].at = "evict" /\ job'[m].dst = i
           /\ ~Locked(i)
           /\ UNCHANGED <<arch, state, fit, current, displaced, contended, strayed, hit>>
           /\ job'[m].who = job[m].who /\ job'[m].victims = job[m].victims
           /\ job'[m].batch = job[m].batch
<1>1. Shaped /\ m \in Workers /\ job[m] \in Jobs
  BY DEF IslandInvariant, Shaped, Workers
<1> DEFINE j == [job[m] EXCEPT !.at = "evict", !.dst = i]
<1>2. job'[m] = j /\ Others(m)
  BY <1>1, Becomes DEF Others, Enforce
<1>3. /\ j.at = "evict" /\ j.dst = i /\ j.who = job[m].who /\ j.victims = job[m].victims
      /\ j.batch = job[m].batch
  BY <1>1 DEF Jobs
<1> HIDE DEF j
<1> QED BY <1>2, <1>3 DEF Enforce

-----------------------------------------------------------------------------
(***************************************************************************)
(* Good order: one lock holder per island; what a job holds fits its       *)
(* stage; copies and cached entries have the stored fitness; a new program *)
(* is in the ingestor's hands only; two migrations that meet are noted.    *)
(***************************************************************************)
Exclusive == \A v, w \in Workers :
    Enforcing(job[v]) /\ Enforcing(job[w]) /\ job[v].dst = job[w].dst => v = w

Neat(w) ==
    LET j == job[w] IN
    /\ j.at \in {"idle", "collect", "next", "enforce"} => j.who = None
    /\ j.victims # {} => j.at = "discard"
    /\ j.at \in {"idle", "enforce"} => j.batch = {}
    /\ j.at = "collect" => \A b \in j.batch : b[1] \notin j.left
    /\ w = "ingestor" => /\ j.at \in {"idle", "add", "stamp", "evict", "discard"}
                         /\ j.batch = {}
                         /\ j.at # "idle" => j.who # None
    /\ w # "ingestor" /\ j.who # None => j.who.src # j.dst

\* The entry of a program that was not struck: its cell, its fitness.
Truthful(a, i, H, m) == \A c \in Cells :
    a.hash[c] # None /\ a.hash[c] \notin H =>
        c = CellOf[i][a.hash[c]] /\ a.cache[c].fit = m[a.hash[c]]

Genuine == \A i \in Islands : Truthful(arch[i], i, hit, fit)

Current(w) ==
    /\ job[w].who # None /\ job[w].who.id \notin hit => job[w].who.fit = fit[job[w].who.id]
    /\ \A b \in job[w].batch : b[2].id \notin hit => b[2].fit = fit[b[2].id]

Fresh(p) == p \notin hit /\ state[p] = "new" =>
    /\ \A i \in Homes(p) : /\ Carries("ingestor", p) /\ Enforcing(job["ingestor"])
                           /\ job["ingestor"].dst = i
    /\ \A w \in Workers : p \in Condemned(w) => w = "ingestor" /\ Carries(w, p)

Roles(p) == p \notin hit =>
    /\ Carries("ingestor", p) => state[p] = "new"
    /\ \A m \in Migrators : Involved(m, p) => state[p] # "new"

Alone(p) == p \notin contended =>
    \A m, n \in Migrators : Involved(m, p) /\ Involved(n, p) => m = n

OrderlyJobs == Exclusive /\ \A w \in Workers : Neat(w) /\ Current(w)
Orderly == /\ OrderlyJobs /\ Genuine
           /\ \A p \in Programs : Fresh(p) /\ Roles(p) /\ Alone(p)

LEMMA HeldTypes ==
    ASSUME Shaped, NEW w \in Workers
    PROVE  /\ job[w].who # None => job[w].who \in Copies /\ job[w].who.id \in Programs
           /\ \A b \in job[w].batch : b[2] \in Copies /\ b[2].id \in Programs /\ b[1] \in Islands
           /\ Condemned(w) \subseteq Programs
<1>1. job[w] \in Jobs
  BY DEF Shaped
<1>2. /\ job[w].who \in Copies \cup {None} /\ job[w].victims \subseteq Copies
      /\ job[w].batch \subseteq Islands \X Copies
  BY <1>1 DEF Jobs
<1>3. \A x \in Copies : x.id \in Programs
  BY DEF Copies
<1> QED BY <1>2, <1>3 DEF Condemned

LEMMA JobsOrderly ==
    ASSUME Shaped, OrderlyJobs, \A p \in Programs : Alone(p),
           NEW w \in Workers, Others(w), hit \subseteq hit', contended \subseteq contended',
           \A p \in Programs \ hit' : fit'[p] = fit[p],
           Neat(w)', Current(w)',
           Enforcing(job'[w]) => \/ Enforcing(job[w]) /\ job'[w].dst = job[w].dst
                                 \/ ~Locked(job'[w].dst),
           w \in Migrators => \A p \in Programs \ contended' : Involved(w, p)' =>
               Involved(w, p) \/ \A n \in Migrators \ {w} : ~Involved(n, p)
    PROVE  OrderlyJobs' /\ \A p \in Programs : Alone(p)'
<1>1. Exclusive'
  <2> SUFFICES ASSUME NEW u \in Workers, NEW v \in Workers, Enforcing(job'[u]),
                      Enforcing(job'[v]), job'[u].dst = job'[v].dst
               PROVE  u = v
    BY DEF Exclusive, Enforcing
  <2>1. CASE u # w /\ v # w
    BY <2>1 DEF OrderlyJobs, Exclusive, Others
  <2>2. ASSUME NEW n \in Workers \ {w}, Enforcing(job'[n]), Enforcing(job'[w]),
               job'[n].dst = job'[w].dst
        PROVE  FALSE
    <3>1. job'[n] = job[n]
      BY DEF Others
    <3>2. Locked(job'[w].dst)
      BY <2>2, <3>1 DEF Locked, Enforcing
    <3> QED BY <2>2, <3>1, <3>2 DEF OrderlyJobs, Exclusive
  <2> QED BY <2>1, <2>2
<1>2. ASSUME NEW v \in Workers PROVE Neat(v)' /\ Current(v)'
  <2>1. CASE v = w
    BY <2>1
  <2>2. CASE v # w
    <3>1. job'[v] = job[v]
      BY <2>2 DEF Others
    <3>2. Neat(v)'
      BY <3>1 DEF OrderlyJobs, Neat
    <3>3. Current(v)'
      BY <3>1, HeldTypes DEF OrderlyJobs, Current
    <3> QED BY <3>2, <3>3
  <2> QED BY <2>1, <2>2
<1>3. ASSUME NEW p \in Programs PROVE Alone(p)'
  <2> SUFFICES ASSUME p \notin contended', NEW m \in Migrators, NEW n \in Migrators,
                      Involved(m, p)', Involved(n, p)'
               PROVE  m = n
    BY DEF Alone
  <2>1. \A v \in Migrators \ {w} : Involved(v, p)' => Involved(v, p)
    BY DEF Others, Involved, Carries, Queued, Workers
  <2>2. \A u, v \in Migrators : Involved(u, p) /\ Involved(v, p) => u = v
    BY DEF Alone
  <2> QED BY <2>1, <2>2
<1> QED BY <1>1, <1>2, <1>3 DEF OrderlyJobs

LEMMA NeatSome ==
    ASSUME Shaped, OrderlyJobs, NEW w \in Workers
    PROVE  /\ Neat(w) /\ Current(w)
           /\ job[w].at \in {"add", "stamp", "remove", "rollback"} =>
                 /\ job[w].who # None /\ Carries(w, job[w].who.id)
                 /\ job[w].who.id \in Programs /\ Involved(w, job[w].who.id)
<1>1. Neat(w) /\ Current(w)
  BY DEF OrderlyJobs
<1>2. ASSUME job[w].at \in {"add", "stamp", "remove", "rollback"}
      PROVE  job[w].who # None
  BY <1>2, CopyIsSome DEF Shaped, Shape
<1> QED BY <1>1, <1>2, HeldTypes DEF Carries, Involved

\* A worker lets go of its program.
LEMMA DroppedOrderly ==
    ASSUME Shaped, OrderlyJobs, \A p \in Programs : Alone(p), UNCHANGED fit,
           NEW w \in Workers, Others(w), Dropped(w), hit \subseteq hit',
           contended \subseteq contended'
    PROVE  OrderlyJobs' /\ \A p \in Programs : Alone(p)'
<1>1. Neat(w)'
  BY DEF Dropped, Neat
<1>2. Current(w)'
  BY HeldTypes DEF Dropped, OrderlyJobs, Current
<1>3. ~Enforcing(job'[w])
  BY DEF Dropped, Enforcing
<1>4. \A p \in Programs : Involved(w, p)' => Involved(w, p)
  BY DEF Dropped, Involved, Carries, Queued
<1> QED BY <1>1, <1>2, <1>3, <1>4, JobsOrderly

\* A worker goes on with its program.
LEMMA KeptOrderly ==
    ASSUME Shaped, OrderlyJobs, \A p \in Programs : Alone(p), UNCHANGED fit,
           NEW w \in Workers, Others(w), Kept(w), hit \subseteq hit',
           contended \subseteq contended',
           job[w].at \in {"add", "stamp", "evict", "discard", "remove"},
           job'[w].at \in {"stamp", "evict", "discard", "remove", "rollback"},
           job'[w].at \in {"remove", "rollback"} => w # "ingestor",
           job'[w].victims # {} => job'[w].at = "discard",
           Enforcing(job'[w]) => Enforcing(job[w]) \/ ~Locked(job[w].dst)
    PROVE  OrderlyJobs' /\ \A p \in Programs : Alone(p)'
<1>0. Neat(w) /\ Current(w)
  BY DEF OrderlyJobs
<1>1. Neat(w)'
  BY <1>0 DEF Kept, Neat
<1>2. Current(w)'
  BY <1>0, HeldTypes DEF Kept, Current
<1>3. \A p \in Programs : Involved(w, p)' => Involved(w, p)
  BY DEF Kept, Involved, Carries, Queued
<1> QED BY <1>1, <1>2, <1>3, JobsOrderly DEF Kept

\* Genuine entries stay so.
LEMMA GenuineKept ==
    ASSUME AllSound, Genuine, hit \subseteq hit', \A p \in Programs \ hit' : fit'[p] = fit[p],
           NEW i \in Islands, NEW b, Truthful(b, i, hit', fit'),
           arch' = [arch EXCEPT ![i] = b]
    PROVE  Genuine'
<1>1. ASSUME NEW k \in Islands PROVE Truthful(arch[k], k, hit', fit')
  <2>1. arch[k].hash \in [Cells -> Programs \cup {None}]
    BY DEF AllSound, Archives
  <2> QED BY <2>1 DEF Genuine, Truthful
<1>2. arch'[i] = b /\ \A k \in Islands \ {i} : arch'[k] = arch[k]
  BY DEF AllSound
<1>3. \A k \in Islands : Truthful(arch'[k], k, hit', fit')
  BY <1>1, <1>2
<1> QED BY <1>3 DEF Genuine, Truthful

LEMMA GenuineSame ==
    ASSUME AllSound, Genuine, hit \subseteq hit', \A p \in Programs \ hit' : fit'[p] = fit[p],
           UNCHANGED arch
    PROVE  Genuine'
<1>1. ASSUME NEW k \in Islands PROVE Truthful(arch[k], k, hit', fit')
  <2>1. arch[k].hash \in [Cells -> Programs \cup {None}]
    BY DEF AllSound, Archives
  <2> QED BY <2>1 DEF Genuine, Truthful
<1> QED BY <1>1 DEF Genuine, Truthful

LEMMA PutTruthful ==
    ASSUME NEW a \in Archives, NEW i \in Islands, NEW H, NEW m, Truthful(a, i, H, m),
           NEW p \in Programs, NEW f, p \notin H => f = m[p]
    PROVE  Truthful(Put(a, CellOf[i][p], p, f), i, H, m)
<1> DEFINE c == CellOf[i][p]
           b == Put(a, c, p, f)
<1>1. c \in Cells
  BY ArchiveAssumption
<1>2. /\ a.hash \in [Cells -> Programs \cup {None}]
      /\ a.cache \in [Cells -> [id : Programs, fit : Fits] \cup {None}]
  BY DEF Archives
<1>3. /\ b.hash = [a.hash EXCEPT ![c] = p]
      /\ b.cache = [a.cache EXCEPT ![c] = [id |-> p, fit |-> f]]
  BY DEF Put
<1> HIDE DEF b
<1>4. ASSUME NEW d \in Cells, b.hash[d] # None, b.hash[d] \notin H
      PROVE  d = CellOf[i][b.hash[d]] /\ b.cache[d].fit = m[b.hash[d]]
  <2>1. CASE d = c
    BY <1>1, <1>2, <1>3, <1>4, <2>1
  <2>2. CASE d # c
    <3>1. b.hash[d] = a.hash[d] /\ b.cache[d] = a.cache[d]
      BY <1>2, <1>3, <2>2
    <3> QED BY <1>4, <3>1 DEF Truthful
  <2> QED BY <2>1, <2>2
<1> QED BY <1>4 DEF Truthful, b

LEMMA RemoveTruthful ==
    ASSUME NEW S, NEW a, Sound(a, S), NEW i \in Islands, NEW H, NEW m,
           Truthful(a, i, H, m), NEW P \in SUBSET Programs
    PROVE  Truthful(Remove(a, P), i, H, m) /\ Truthful(Unlisted(a, P), i, H, m)
<1> DEFINE u == Unlisted(a, P)
           cache == [c \in Cells |-> IF a.cache[c] # None /\ a.cache[c].id \in P
                                    THEN None ELSE a.cache[c]]
           b == [u EXCEPT !.cache = cache]
<1>1. /\ u \in Archives /\ Inverted(u) /\ Mirrors(u, S \cup P) /\ u.cache = a.cache
      /\ \A c \in Cells : u.hash[c] = IF a.hash[c] \in P THEN None ELSE a.hash[c]
  BY UnlistedSound
<1> HIDE DEF u
<1>2. Truthful(u, i, H, m)
  BY <1>1 DEF Truthful
<1>3. b.hash = u.hash /\ b.cache = cache
  BY <1>1 DEF Archives
<1>4. ASSUME NEW c \in Cells, u.hash[c] # None PROVE cache[c] = a.cache[c]
  <2>1. u.hash[c] = a.hash[c] /\ a.hash[c] \notin P
    BY <1>1, <1>4
  <2>2. a.cache[c].id = a.hash[c]
    BY <1>4, <2>1 DEF Sound, Mirrors
  <2> QED BY <2>1, <2>2
<1> HIDE DEF cache, b
<1>5. Truthful(b, i, H, m)
  BY <1>1, <1>2, <1>3, <1>4 DEF Truthful
<1>6. Remove(a, P) = a \/ Remove(a, P) = b
  BY DEF Remove, b, u, cache
<1> QED BY <1>2, <1>5, <1>6 DEF u

LEMMA ReloadedTruthful ==
    ASSUME NEW a \in Archives, NEW i \in Islands, NEW H, NEW m, Truthful(a, i, H, m)
    PROVE  Truthful(Reloaded(a, m), i, H, m)
<1> DEFINE b == Reloaded(a, m)
<1>1. /\ b.hash = a.hash
      /\ b.cache = [c \in Cells |-> IF a.hash[c] = None THEN None
                                   ELSE [id |-> a.hash[c], fit |-> m[a.hash[c]]]]
  BY DEF Reloaded, Archives
<1> HIDE DEF b
<1>2. Truthful(b, i, H, m)
  BY <1>1 DEF Truthful
<1> QED BY <1>2 DEF b

\* A step that has nothing to do with program p, or lets go of it.
LEMMA PassingBy ==
    ASSUME Orderly, NEW w \in Workers, Others(w), hit \subseteq hit', NEW p \in Programs,
           state'[p] = "new" => state[p] = "new",
           Homes(p)' \subseteq Homes(p),
           p \in Condemned(w)' => p \in Condemned(w),
           Involved(w, p)' => Involved(w, p),
           Carries("ingestor", p)' => Carries("ingestor", p) /\ state'[p] = state[p],
           p \notin hit' /\ state'[p] = "new" /\ Carries("ingestor", p) =>
               /\ Carries("ingestor", p)'
               /\ Enforcing(job["ingestor"]) => /\ Enforcing(job'["ingestor"])
                                                /\ job'["ingestor"].dst = job["ingestor"].dst
    PROVE  Fresh(p)' /\ Roles(p)'
<1>1. Fresh(p) /\ Roles(p)
  BY DEF Orderly
<1>2. \A v \in Workers : p \in Condemned(v)' => p \in Condemned(v)
  BY DEF Others, Condemned
<1>3. \A m \in Migrators : Involved(m, p)' => Involved(m, p)
  BY DEF Others, Involved, Carries, Queued, Workers
<1>4. Roles(p)'
  BY <1>1, <1>3 DEF Roles
<1>5. Fresh(p)'
  <2> SUFFICES ASSUME p \notin hit', state'[p] = "new"
               PROVE  /\ \A i \in Homes(p)' : /\ Carries("ingestor", p)'
                                              /\ Enforcing(job'["ingestor"])
                                              /\ job'["ingestor"].dst = i
                      /\ \A v \in Workers : p \in Condemned(v)' =>
                             v = "ingestor" /\ Carries(v, p)'
    BY DEF Fresh, Enforcing
  <2> QED BY <1>1, <1>2 DEF Fresh
<1> QED BY <1>4, <1>5

\* The usual cases of PassingBy: the worker is not the ingestor, or has not to do
\* with p, and nothing happens to p's state.
LEMMA MigratorPasses ==
    ASSUME Orderly, NEW w \in Workers \ {"ingestor"}, Others(w), hit \subseteq hit',
           NEW p \in Programs, state'[p] = state[p], Homes(p)' \subseteq Homes(p),
           p \in Condemned(w)' => p \in Condemned(w), Involved(w, p)' => Involved(w, p)
    PROVE  Fresh(p)' /\ Roles(p)'
<1>1. job'["ingestor"] = job["ingestor"]
  BY DEF Others, Workers
<1>2. Carries("ingestor", p)' <=> Carries("ingestor", p)
  BY <1>1 DEF Carries
<1> QED BY <1>1, <1>2, PassingBy

LEMMA StrangerPasses ==
    ASSUME Orderly, NEW w \in Workers, Others(w), hit \subseteq hit',
           NEW p \in Programs, state'[p] = state[p], Homes(p)' \subseteq Homes(p),
           p \in Condemned(w)' => p \in Condemned(w),
           ~Carries(w, p), ~Carries(w, p)', Queued(w, p)' => Queued(w, p)
    PROVE  Fresh(p)' /\ Roles(p)'
<1>1. Involved(w, p)' => Involved(w, p)
  BY DEF Involved
<1>2. CASE w = "ingestor"
  BY <1>1, <1>2, PassingBy
<1>3. CASE w # "ingestor"
  BY <1>1, <1>3, MigratorPasses
<1> QED BY <1>2, <1>3

\* The program of a worker that takes, keeps or enforces under the lock.
LEMMA KeeperPasses ==
    ASSUME Orderly, NEW w \in Workers, Others(w), Kept(w), hit \subseteq hit',
           Enforcing(job[w]) => Enforcing(job'[w]) \/ w # "ingestor",
           NEW p \in Programs, state'[p] = state[p], Homes(p)' \subseteq Homes(p),
           p \in Condemned(w)' => p \in Condemned(w)
    PROVE  Fresh(p)' /\ Roles(p)'
<1>1. (Carries(w, p)' <=> Carries(w, p)) /\ (Involved(w, p)' => Involved(w, p))
  BY DEF Kept, Carries, Queued, Involved
<1>2. CASE w # "ingestor"
  BY <1>1, <1>2, MigratorPasses
<1>3. CASE w = "ingestor"
  BY <1>1, <1>3, PassingBy DEF Kept
<1> QED BY <1>2, <1>3

LEMMA DropperPasses ==
    ASSUME Orderly, NEW w \in Workers \ {"ingestor"}, Others(w), Dropped(w), hit \subseteq hit',
           NEW p \in Programs, state'[p] = state[p], Homes(p)' \subseteq Homes(p)
    PROVE  Fresh(p)' /\ Roles(p)'
<1>1. Involved(w, p)' => Involved(w, p)
  BY DEF Dropped, Carries, Queued, Involved
<1>2. p \notin Condemned(w)'
  BY DEF Dropped, Condemned
<1> QED BY <1>1, <1>2, MigratorPasses

\* What a program not struck by a fault tells from being an elite.
LEMMA EliteHome ==
    ASSUME AllSound, NEW i \in Islands, NEW p \in Elites(arch[i])
    PROVE  p \in Programs /\ (p \notin hit => i \in Homes(p))
<1>1. p \in Programs
  BY ElitesType DEF AllSound
<1>2. p \notin hit => p \in Stored(arch[i])
  BY EliteStored DEF AllSound
<1> QED BY <1>1, <1>2 DEF Homes

\* An add brings the program to the island, unless it is struck.
LEMMA AddEffect ==
    ASSUME IslandInvariant, Orderly, NEW w \in Workers, AddAgain(w) \/ AddElite(w)
    PROVE  /\ Others(w) /\ Kept(w) /\ job[w].at = "add" /\ job'[w].at = "stamp"
           /\ job'[w].victims = {} /\ job[w].victims = {}
           /\ job[w].dst \in Islands /\ ~Locked(job[w].dst) /\ job[w].who # None
           /\ job[w].who.id \in Programs
           /\ UNCHANGED <<state, fit, current, contended, strayed, hit>>
           /\ displaced \subseteq displaced'
           /\ \A p \in Programs :
                 IF p = job[w].who.id
                 THEN /\ Homes(p) \subseteq Homes(p)'
                      /\ Homes(p)' \subseteq Homes(p) \cup {job[w].dst}
                      /\ p \notin hit => job[w].dst \in Homes(p)'
                 ELSE /\ Homes(p)' \subseteq Homes(p)
                      /\ p \notin displaced' => Homes(p)' = Homes(p)
<1> DEFINE x == job[w].who
<1>0. PICK i : i = job[w].dst
  OBVIOUS
<1>1. Shaped /\ AllSound /\ Adding(w) /\ Hold(w, "stamp")
  BY DEF IslandInvariant, AddAgain, AddElite
<1>2. /\ job[w].at = "add" /\ i \in Islands /\ x \in Copies /\ x.id \in Programs
      /\ CellOf[i][x.id] \in Cells /\ ~Locked(i)
  BY <1>0, <1>1, AddTypes DEF Adding
<1>3. /\ Others(w) /\ Kept(w) /\ job'[w].at = "stamp"
      /\ job'[w].victims = job[w].victims
  BY <1>1, HoldKeeps
<1>4. job[w].victims = {} /\ x # None
  BY <1>1, <1>2, NeatSome DEF Orderly, Neat
<1>5. PICK y \in Programs : y = x.id
  BY <1>2
<1>6. UNCHANGED <<state, fit, current, contended, strayed, hit>>
  BY DEF AddAgain, AddElite
<1>7. /\ displaced \subseteq displaced'
      /\ Homes(y)' \subseteq Homes(y) \cup {i} /\ Homes(y) \subseteq Homes(y)'
      /\ y \notin hit => i \in Homes(y)'
      /\ \A p \in Programs \ {y} :
            Homes(p)' \subseteq Homes(p) /\ (p \notin displaced' => Homes(p)' = Homes(p))
  <2>1. CASE AddAgain(w)
    <3>1. UNCHANGED <<arch, displaced>> /\ y \in Elites(arch[i])
      BY <1>0, <1>5, <2>1 DEF AddAgain, AlreadyElite
    <3>2. \A p \in Programs : Homes(p)' = Homes(p)
      BY <3>1, HomesSame
    <3>3. y \notin hit => i \in Homes(y)
      BY <1>1, <1>2, <3>1, EliteHome
    <3> QED BY <3>1, <3>2, <3>3
  <2>2. CASE AddElite(w)
    <3>0. PICK c \in Cells : c = CellOf[i][y]
      BY <1>2, <1>5
    <3>1. /\ arch' = [arch EXCEPT ![i] = Put(arch[i], c, y, x.fit)]
          /\ displaced' = displaced \cup ({arch[i].hash[c]} \ {None, y})
      BY <1>0, <1>5, <2>2, <3>0 DEF AddElite
    <3>2. /\ Homes(y)' = Homes(y) \cup {i}
          /\ \A p \in Programs \ {y} :
                Homes(p)' \subseteq Homes(p) /\ (p \notin displaced' => Homes(p)' = Homes(p))
      BY <1>1, <1>2, <3>1, HomesPut
    <3> QED BY <3>1, <3>2
  <2> QED BY <2>1, <2>2
<1> QED BY <1>0, <1>2, <1>3, <1>4, <1>5, <1>6, <1>7

LEMMA UnackedEffect ==
    ASSUME IslandInvariant, NEW w \in Workers, AddUnacked(w)
    PROVE  LET i == job[w].dst  x == job[w].who.id IN
           /\ Others(w) /\ Dropped(w) /\ job[w].at = "add" /\ i \in Islands
           /\ x \in Programs /\ hit' = hit \cup {x}
           /\ UNCHANGED <<fit, current, contended, strayed>>
           /\ \A p \in Programs \ {x} : state'[p] = state[p]
           /\ displaced \subseteq displaced'
           /\ \A p \in Programs \ {x} :
                 Homes(p)' \subseteq Homes(p) /\ (p \notin displaced' => Homes(p)' = Homes(p))
<1> DEFINE i == job[w].dst
           x == job[w].who
<1>1. Shaped /\ AllSound /\ Rest /\ Adding(w) /\ NotAdded(w)
  BY DEF IslandInvariant, AddUnacked
<1>2. /\ job[w].at = "add" /\ i \in Islands /\ x.id \in Programs /\ CellOf[i][x.id] \in Cells
  BY <1>1, AddTypes
<1>3. /\ arch' = [arch EXCEPT ![i] = Put(arch[i], CellOf[i][x.id], x.id, fit[x.id])]
      /\ displaced' = displaced \cup ({arch[i].hash[CellOf[i][x.id]]} \ {None, x.id})
      /\ hit' = hit \cup {x.id} /\ UNCHANGED <<fit, current, contended, strayed>>
  BY DEF AddUnacked
<1>4. \A p \in Programs \ {x.id} :
         Homes(p)' \subseteq Homes(p) /\ (p \notin displaced' => Homes(p)' = Homes(p))
  BY <1>1, <1>2, <1>3, HomesPut
<1>5. Others(w) /\ Dropped(w)
  BY <1>1, NotAddedDrops
<1>6. \A p \in Programs \ {x.id} : state'[p] = state[p]
  BY <1>1 DEF NotAdded, Reject, Rest
<1> QED BY <1>2, <1>3, <1>4, <1>5, <1>6

LEMMA RejectedEffect ==
    ASSUME IslandInvariant, NEW w \in Workers, AddRejected(w)
    PROVE  LET i == job[w].dst  x == job[w].who.id IN
           /\ Others(w) /\ Dropped(w) /\ job[w].at = "add" /\ x \in Programs
           /\ UNCHANGED <<arch, fit, current, displaced, contended, strayed, hit>>
           /\ \A p \in Programs : state'[p] = IF w = "ingestor" /\ p = x THEN "DISCARDED"
                                              ELSE state[p]
           /\ \A p \in Programs : Homes(p)' = Homes(p)
<1>1. Shaped /\ Rest /\ Adding(w) /\ NotAdded(w)
      /\ UNCHANGED <<arch, fit, current, displaced, contended, strayed, hit>>
  BY DEF IslandInvariant, AddRejected
<1>2. job[w].at = "add" /\ job[w].who.id \in Programs
  BY <1>1, AddTypes
<1>3. Others(w) /\ Dropped(w)
  BY <1>1, NotAddedDrops
<1>4. \A p \in Programs : state'[p] = IF w = "ingestor" /\ p = job[w].who.id
                                      THEN "DISCARDED" ELSE state[p]
  BY <1>1, <1>2 DEF NotAdded, Reject, Rest
<1> QED BY <1>1, <1>2, <1>3, <1>4, HomesSame

\* The end of an add or of an enforcement. What becomes of the states: victims
\* are discarded, the ingestor's own program is accepted.
LEMMA SettleEffect ==
    ASSUME IslandInvariant, Orderly, NEW w \in Workers,
           Discard(w) \/ (Stamp(w) /\ ~OverLimit(arch[job[w].dst]))
    PROVE  /\ Others(w) /\ Finishing(w) /\ job[w].at \in {"stamp", "discard"}
           /\ UNCHANGED <<arch, fit, displaced, contended, strayed, hit>>
           /\ \A p \in Programs : Homes(p)' = Homes(p)
           /\ \A p \in Programs :
                 state'[p] = IF p \in Condemned(w) THEN "DISCARDED"
                             ELSE IF Accepted(w, p) THEN "DONE" ELSE state[p]
<1>1. /\ Shaped /\ Finish(w) /\ job[w].at \in {"stamp", "discard"}
      /\ UNCHANGED <<arch, fit, displaced, contended, strayed, hit>>
  BY DEF IslandInvariant, Discard, Stamp
<1>2. ASSUME NEW p \in Programs
      PROVE  state'[p] = IF p \in Condemned(w) THEN "DISCARDED"
                         ELSE IF Accepted(w, p) THEN "DONE" ELSE state[p]
  <2>1. CASE Discard(w)
    <3>1. state' = [q \in Programs |-> IF \E v \in job[w].victims : v.id = q
                                       THEN "DISCARDED"
                                       ELSE IF Accepted(w, q) THEN "DONE" ELSE state[q]]
      BY <2>1 DEF Discard
    <3>2. p \in Condemned(w) <=> \E v \in job[w].victims : v.id = p
      BY DEF Condemned
    <3> QED BY <3>1, <3>2
  <2>2. CASE Stamp(w) /\ ~OverLimit(arch[job[w].dst])
    <3>1. state' = [q \in Programs |-> IF Accepted(w, q) THEN "DONE" ELSE state[q]]
      BY <2>2 DEF Stamp
    <3>2. Condemned(w) = {}
      BY <2>2 DEF Stamp, Orderly, OrderlyJobs, Neat, Condemned
    <3> QED BY <3>1, <3>2
  <2> QED BY <2>1, <2>2
<1>3. Others(w) /\ Finishing(w)
  BY <1>1, FinishDrops
<1> QED BY <1>1, <1>2, <1>3, HomesSame

LEMMA StruckExempt ==
    ASSUME NEW p \in hit'
    PROVE  Fresh(p)' /\ Roles(p)'
  BY DEF Fresh, Roles

LEMMA OrderlyAdd ==
    ASSUME IslandInvariant, Orderly, NEW w \in Workers, AddStep(w)
    PROVE  Orderly'
<1>0. /\ Shaped /\ AllSound /\ Rest /\ OrderlyJobs /\ Genuine /\ Neat(w) /\ Current(w)
      /\ \A p \in Programs : Fresh(p) /\ Roles(p) /\ Alone(p)
  BY DEF IslandInvariant, Orderly, OrderlyJobs
<1>1. CASE AddAgain(w) \/ AddElite(w)
  <2>1. /\ Others(w) /\ Kept(w) /\ job[w].at = "add" /\ job'[w].at = "stamp"
        /\ job'[w].victims = {} /\ job[w].victims = {}
        /\ job[w].dst \in Islands /\ ~Locked(job[w].dst) /\ job[w].who # None
        /\ job[w].who.id \in Programs
        /\ UNCHANGED <<state, fit, current, contended, strayed, hit>>
    BY <1>1, AddEffect
  <2>2. \A p \in Programs :
                 IF p = job[w].who.id
                 THEN /\ Homes(p) \subseteq Homes(p)'
                      /\ Homes(p)' \subseteq Homes(p) \cup {job[w].dst}
                      /\ p \notin hit => job[w].dst \in Homes(p)'
                 ELSE /\ Homes(p)' \subseteq Homes(p)
                      /\ p \notin displaced' => Homes(p)' = Homes(p)
    BY <1>1, AddEffect
  <2>3. OrderlyJobs' /\ \A p \in Programs : Alone(p)'
    BY <1>0, <2>1, KeptOrderly
  <2>4. Genuine'
    <3>1. CASE AddAgain(w)
      BY <1>0, <2>1, <3>1, GenuineSame DEF AddAgain
    <3>2. CASE AddElite(w)
      <4> DEFINE i == job[w].dst
                 x == job[w].who
                 b == Put(arch[i], CellOf[i][x.id], x.id, x.fit)
      <4>1. arch' = [arch EXCEPT ![i] = b]
        BY <3>2 DEF AddElite
      <4>2. arch[i] \in Archives /\ Truthful(arch[i], i, hit, fit)
        BY <1>0, <2>1 DEF AllSound, Genuine
      <4>3. x.id \notin hit => x.fit = fit[x.id]
        BY <1>0, <2>1 DEF Current
      <4>4. Truthful(b, i, hit', fit')
        BY <2>1, <4>2, <4>3, PutTruthful
      <4> HIDE DEF b
      <4> QED BY <1>0, <2>1, <4>1, <4>4, GenuineKept
    <3> QED BY <1>1, <3>1, <3>2
  <2>5. ASSUME NEW p \in Programs PROVE Fresh(p)' /\ Roles(p)'
    <3>1. /\ Carries(w, p)' <=> Carries(w, p)
          /\ Queued(w, p)' <=> Queued(w, p)
          /\ Condemned(w)' = {}
      BY <2>1 DEF Kept, Carries, Queued, Condemned
    <3>2. CASE p # job[w].who.id
      <4>1. ~Carries(w, p) /\ Homes(p)' \subseteq Homes(p)
        BY <2>2, <3>2 DEF Carries
      <4> QED BY <2>1, <3>1, <4>1, StrangerPasses
    <3>3. CASE p \in hit
      BY <2>1, <3>3, StruckExempt
    <3>4. CASE p = job[w].who.id /\ p \notin hit
      <4>1. \A v \in Workers : /\ Carries(v, p)' <=> Carries(v, p)
                               /\ Involved(v, p)' <=> Involved(v, p)
                               /\ v # w => Condemned(v)' = Condemned(v)
        BY <2>1, <3>1 DEF Others, Carries, Queued, Involved, Condemned
      <4>2. Carries(w, p)
        BY <2>1, <3>4 DEF Carries
      <4>3. Roles(p)'
        BY <1>0, <2>1, <4>1 DEF Roles, Workers
      <4>4. ASSUME state[p] = "new"
            PROVE  /\ w = "ingestor" /\ Homes(p)' \subseteq {job'[w].dst}
                   /\ \A v \in Workers : p \notin Condemned(v)'
        <5>1. w = "ingestor"
          BY <1>0, <3>4, <4>2, <4>4 DEF Roles, Involved, Workers
        <5>2. Homes(p) = {}
          BY <1>0, <2>1, <3>4, <4>4, <5>1 DEF Fresh, Enforcing
        <5>3. \A v \in Workers \ {w} : p \notin Condemned(v)
          BY <1>0, <3>4, <4>4, <5>1 DEF Fresh
        <5> QED BY <2>1, <2>2, <3>1, <3>4, <4>1, <5>1, <5>2, <5>3 DEF Kept
      <4>5. Fresh(p)'
        BY <2>1, <4>1, <4>2, <4>4 DEF Fresh, Enforcing
      <4> QED BY <4>3, <4>5
    <3> QED BY <3>2, <3>3, <3>4
  <2> QED BY <2>3, <2>4, <2>5 DEF Orderly
<1>2. CASE AddRejected(w)
  <2>1. /\ Others(w) /\ Dropped(w) /\ job[w].at = "add" /\ job[w].who.id \in Programs
        /\ UNCHANGED <<arch, fit, current, displaced, contended, strayed, hit>>
        /\ \A p \in Programs : state'[p] = IF w = "ingestor" /\ p = job[w].who.id
                                           THEN "DISCARDED" ELSE state[p]
        /\ \A p \in Programs : Homes(p)' = Homes(p)
    BY <1>2, RejectedEffect
  <2>2. OrderlyJobs' /\ \A p \in Programs : Alone(p)'
    BY <1>0, <2>1, DroppedOrderly
  <2>3. Genuine'
    BY <1>0, <2>1, GenuineSame
  <2>4. ASSUME NEW p \in Programs PROVE Fresh(p)' /\ Roles(p)'
    <3>1. CASE w # "ingestor"
      BY <2>1, <3>1, DropperPasses
    <3>2. CASE w = "ingestor" /\ p # job[w].who.id
      <4>1. /\ ~Carries(w, p) /\ ~Carries(w, p)' /\ (Queued(w, p)' => Queued(w, p))
            /\ p \notin Condemned(w)'
        BY <2>1, <3>2 DEF Dropped, Carries, Queued, Condemned
      <4> QED BY <2>1, <3>2, <4>1, StrangerPasses
    <3>3. CASE w = "ingestor" /\ p = job[w].who.id
      <4>1. ~Carries(w, p)' /\ (Queued(w, p)' => Queued(w, p)) /\ p \notin Condemned(w)'
        BY <2>1 DEF Dropped, Carries, Queued, Condemned
      <4>2. state'[p] = "DISCARDED"
        BY <2>1, <3>3
      <4> QED BY <2>1, <3>3, <4>1, <4>2, PassingBy DEF Involved
    <3> QED BY <3>1, <3>2, <3>3
  <2> QED BY <2>2, <2>3, <2>4 DEF Orderly
<1>3. CASE AddUnacked(w)
  <2>1. /\ Others(w) /\ Dropped(w) /\ job[w].at = "add" /\ job[w].dst \in Islands
        /\ job[w].who.id \in Programs /\ hit' = hit \cup {job[w].who.id}
        /\ UNCHANGED <<fit, current, contended, strayed>>
        /\ \A p \in Programs \ {job[w].who.id} : state'[p] = state[p]
        /\ \A p \in Programs \ {job[w].who.id} : Homes(p)' \subseteq Homes(p)
    BY <1>3, UnackedEffect
  <2>2. OrderlyJobs' /\ \A p \in Programs : Alone(p)'
    BY <1>0, <2>1, DroppedOrderly
  <2>3. Genuine'
    <3> DEFINE i == job[w].dst
               x == job[w].who
               b == Put(arch[i], CellOf[i][x.id], x.id, fit[x.id])
    <3>1. arch' = [arch EXCEPT ![i] = b]
      BY <1>3 DEF AddUnacked
    <3>2. arch[i] \in Archives /\ Truthful(arch[i], i, hit', fit)
      BY <1>0, <2>1 DEF AllSound, Genuine, Truthful
    <3>3. Truthful(b, i, hit', fit')
      BY <2>1, <3>2, PutTruthful
    <3> HIDE DEF b
    <3> QED BY <1>0, <2>1, <3>1, <3>3, GenuineKept
  <2>4. ASSUME NEW p \in Programs PROVE Fresh(p)' /\ Roles(p)'
    <3>1. CASE p = job[w].who.id
      BY <2>1, <3>1, StruckExempt
    <3>2. CASE p # job[w].who.id
      <4>1. /\ ~Carries(w, p) /\ ~Carries(w, p)' /\ (Queued(w, p)' => Queued(w, p))
            /\ p \notin Condemned(w)'
        BY <2>1, <3>2 DEF Dropped, Carries, Queued, Condemned
      <4> QED BY <2>1, <3>2, <4>1, StrangerPasses
    <3> QED BY <3>1, <3>2
  <2> QED BY <2>2, <2>3, <2>4 DEF Orderly
<1>4. CASE Stamp(w) /\ OverLimit(arch[job[w].dst])
  <2>1. /\ job[w].at = "stamp" /\ Hold(w, "evict")
        /\ UNCHANGED <<arch, state, fit, displaced, contended, strayed, hit>>
    BY <1>4 DEF Stamp
  <2>2. Others(w) /\ Kept(w) /\ job'[w].at = "evict" /\ job'[w].victims = job[w].victims
    BY <1>0, <2>1, HoldKeeps
  <2>3. job[w].victims = {}
    BY <1>0, <2>1 DEF Neat
  <2>4. OrderlyJobs' /\ \A p \in Programs : Alone(p)'
    BY <1>0, <2>1, <2>2, <2>3, KeptOrderly DEF Enforcing
  <2>5. Genuine'
    BY <1>0, <2>1, GenuineSame
  <2>6. ASSUME NEW p \in Programs PROVE Fresh(p)' /\ Roles(p)'
    <3>1. Homes(p)' = Homes(p) /\ Condemned(w)' = Condemned(w) /\ state'[p] = state[p]
      BY <2>1, <2>2, HomesSame DEF Condemned
    <3> QED BY <2>1, <2>2, <3>1, KeeperPasses DEF Enforcing
  <2> QED BY <2>4, <2>5, <2>6 DEF Orderly
<1>5. CASE Evict(w)
  <2>1. /\ Others(w) /\ Kept(w) /\ job[w].at = "evict" /\ job'[w].at = "discard"
        /\ UNCHANGED <<state, fit, current, displaced, contended, strayed, hit>>
        /\ job[w].dst \in Islands
    BY <1>5, EvictEffect
  <2>2. PICK V \in SUBSET Elites(arch[job[w].dst]) :
          /\ V \subseteq Programs /\ Condemned(w)' = V
          /\ arch' = [arch EXCEPT ![job[w].dst] = Remove(arch[job[w].dst], V)]
          /\ \A p \in Programs :
                Homes(p)' = IF p \in V THEN Homes(p) \ {job[w].dst} ELSE Homes(p)
    BY <1>5, EvictEffect
  <2>3. OrderlyJobs' /\ \A p \in Programs : Alone(p)'
    BY <1>0, <2>1, KeptOrderly DEF Enforcing
  <2>4. Genuine'
    <3> DEFINE i == job[w].dst
               b == Remove(arch[i], V)
    <3>1. Sound(arch[i], hit) /\ Truthful(arch[i], i, hit, fit)
      BY <1>0, <2>1 DEF AllSound, Genuine
    <3>2. Truthful(b, i, hit', fit')
      BY <2>1, <2>2, <3>1, RemoveTruthful
    <3> HIDE DEF b
    <3> QED BY <1>0, <2>1, <2>2, <3>2, GenuineKept DEF b
  <2>5. ASSUME NEW p \in Programs PROVE Fresh(p)' /\ Roles(p)'
    <3>1. Homes(p)' \subseteq Homes(p)
      BY <2>2
    <3>2. CASE p \notin V
      BY <2>1, <2>2, <3>1, <3>2, KeeperPasses DEF Enforcing
    <3>3. CASE p \in hit
      BY <2>1, <3>3, StruckExempt
    <3>4. CASE p \in V /\ p \notin hit
      <4>1. \A v \in Workers : /\ Carries(v, p)' <=> Carries(v, p)
                               /\ Involved(v, p)' <=> Involved(v, p)
                               /\ v # w => Condemned(v)' = Condemned(v)
        BY <2>1 DEF Others, Kept, Carries, Queued, Involved, Condemned
      <4>2. job[w].dst \in Homes(p)
        BY <1>0, <2>1, <3>4, EliteHome
      <4>3. Roles(p)'
        BY <1>0, <2>1, <4>1 DEF Roles, Workers
      <4>4. ASSUME state[p] = "new"
            PROVE  /\ w = "ingestor" /\ Carries(w, p)
                   /\ \A i \in Homes(p)' : job'[w].dst = i
                   /\ \A v \in Workers : p \in Condemned(v)' => v = w
        <5>1. /\ Carries("ingestor", p) /\ Enforcing(job["ingestor"])
              /\ job["ingestor"].dst = job[w].dst
          BY <1>0, <3>4, <4>2, <4>4 DEF Fresh
        <5>2. w = "ingestor"
          BY <1>0, <2>1, <5>1 DEF OrderlyJobs, Exclusive, Enforcing, Workers
        <5>3. \A v \in Workers \ {w} : p \notin Condemned(v)
          BY <1>0, <3>4, <4>4, <5>2 DEF Fresh
        <5>4. \A i \in Homes(p) : job[w].dst = i
          BY <1>0, <3>4, <4>4, <5>2 DEF Fresh
        <5> QED BY <2>1, <3>1, <4>1, <5>1, <5>2, <5>3, <5>4 DEF Kept
      <4>5. Fresh(p)'
        BY <2>1, <4>1, <4>4 DEF Fresh, Enforcing
      <4> QED BY <4>3, <4>5
    <3> QED BY <3>2, <3>3, <3>4
  <2> QED BY <2>3, <2>4, <2>5 DEF Orderly
<1>6. CASE Discard(w) \/ (Stamp(w) /\ ~OverLimit(arch[job[w].dst]))
  <2>1. /\ Others(w) /\ Finishing(w) /\ job[w].at \in {"stamp", "discard"}
        /\ UNCHANGED <<arch, fit, displaced, contended, strayed, hit>>
        /\ \A p \in Programs : Homes(p)' = Homes(p)
        /\ \A p \in Programs :
              state'[p] = IF p \in Condemned(w) THEN "DISCARDED"
                          ELSE IF Accepted(w, p) THEN "DONE" ELSE state[p]
    BY <1>6, SettleEffect
  <2>2. OrderlyJobs' /\ \A p \in Programs : Alone(p)'
    <3>1. CASE Dropped(w)
      BY <1>0, <2>1, <3>1, DroppedOrderly
    <3>2. CASE ~Dropped(w)
      <4>1. w # "ingestor" /\ job'[w].at = "remove" /\ Kept(w) /\ job'[w].victims = {}
        BY <2>1, <3>2 DEF Finishing
      <4> QED BY <1>0, <2>1, <4>1, KeptOrderly DEF Enforcing
    <3> QED BY <3>1, <3>2
  <2>3. Genuine'
    BY <1>0, <2>1, GenuineSame
  <2>4. ASSUME NEW p \in Programs PROVE Fresh(p)' /\ Roles(p)'
    <3>1. /\ Involved(w, p)' => Involved(w, p)
          /\ p \notin Condemned(w)'
      BY <2>1 DEF Finishing, Dropped, Kept, Involved, Carries, Queued, Condemned
    <3>2. state'[p] = "new" => state[p] = "new"
      BY <2>1
    <3>3. CASE p \in hit
      BY <2>1, <3>3, StruckExempt
    <3>4. CASE p \notin hit /\ w # "ingestor"
      <4>1. job'["ingestor"] = job["ingestor"]
        BY <2>1, <3>4 DEF Others, Workers
      <4>2. Carries("ingestor", p)' <=> Carries("ingestor", p)
        BY <4>1 DEF Carries
      <4>3. ~Accepted(w, p)
        BY <3>4 DEF Accepted
      <4>4. Carries("ingestor", p) => p \notin Condemned(w)
        BY <1>0, <3>4 DEF Fresh, Roles
      <4> QED BY <2>1, <3>1, <3>2, <4>1, <4>2, <4>3, <4>4, PassingBy
    <3>5. CASE p \notin hit /\ w = "ingestor"
      <4>1. ~Carries(w, p)'
        BY <2>1, <3>5 DEF Finishing, Dropped, Carries
      <4>2. Carries(w, p) => state'[p] # "new"
        BY <1>0, <2>1, <3>5 DEF Roles, Accepted, Carries
      <4> QED BY <2>1, <3>1, <3>2, <3>5, <4>1, <4>2, PassingBy
    <3> QED BY <3>3, <3>4, <3>5
  <2> QED BY <2>2, <2>3, <2>4 DEF Orderly
<1> QED BY <1>1, <1>2, <1>3, <1>4, <1>5, <1>6 DEF AddStep

LEMMA HomesRemovedOne ==
    ASSUME AllSound, NEW i \in Islands, NEW x \in Programs,
           \/ arch' = [arch EXCEPT ![i] = Remove(arch[i], {x})]
           \/ arch' = [arch EXCEPT ![i] = Unlisted(arch[i], {x})]
    PROVE  \A p \in Programs : Homes(p)' = IF p = x THEN Homes(p) \ {i} ELSE Homes(p)
<1>1. {x} \in SUBSET Programs
  OBVIOUS
<1>2. PICK b : b \in {Remove(arch[i], {x}), Unlisted(arch[i], {x})}
               /\ arch' = [arch EXCEPT ![i] = b]
  OBVIOUS
<1>3. \A p \in Programs : Homes(p)' = IF p \in {x} THEN Homes(p) \ {i} ELSE Homes(p)
  BY <1>1, <1>2, HomesRemoved
<1> QED BY <1>3

LEMMA RemovalEffect ==
    ASSUME IslandInvariant, NEW m \in Migrators, RemoveFromSource(m)
    PROVE  /\ Others(m) /\ job[m].at = "remove" /\ job[m].who.src \in Islands
           /\ job[m].who.id \in Programs
           /\ UNCHANGED <<state, fit, current, displaced, contended, strayed, hit>>
           /\ \A p \in Programs : Homes(p)' = IF p = job[m].who.id
                                              THEN Homes(p) \ {job[m].who.src} ELSE Homes(p)
           /\ IF job[m].who.src \in Homes(job[m].who.id)
              THEN Dropped(m)
              ELSE Kept(m) /\ job'[m].at = "rollback" /\ job'[m].victims = job[m].victims
<1>0. Shaped /\ AllSound /\ m \in Workers
  BY DEF IslandInvariant, Workers
<1> DEFINE i == job[m].who.src
           x == job[m].who.id
<1>1. /\ job[m].at = "remove" /\ arch' = [arch EXCEPT ![i] = Remove(arch[i], {x})]
      /\ Become(m, AfterRemove(job[m], arch[i].rev[x] # None))
      /\ UNCHANGED <<state, fit, current, displaced, contended, strayed, hit>>
  BY DEF RemoveFromSource
<1>2. i \in Islands /\ x \in Programs /\ Sound(arch[i], hit)
  BY <1>0, <1>1, RemoveTypes
<1>3. arch[i].rev[x] # None <=> i \in Homes(x)
  BY <1>2, ReverseStored DEF Homes
<1>4. /\ Others(m)
      /\ arch[i].rev[x] # None => Dropped(m)
      /\ ~(arch[i].rev[x] # None) => Kept(m) /\ job'[m].at = "rollback"
                                     /\ job'[m].victims = job[m].victims
  BY <1>0, <1>1, AfterRemoveEffect
<1>5. \A p \in Programs : Homes(p)' = IF p = x THEN Homes(p) \ {i} ELSE Homes(p)
  <2>1. PICK k \in Islands, y \in Programs : k = i /\ y = x
    BY <1>2
  <2>2. arch' = [arch EXCEPT ![k] = Remove(arch[k], {y})]
    BY <1>1, <2>1
  <2>3. \A p \in Programs : Homes(p)' = IF p = y THEN Homes(p) \ {k} ELSE Homes(p)
    BY <1>0, <2>2, HomesRemovedOne
  <2> QED BY <2>1, <2>3
<1> QED BY <1>1, <1>2, <1>3, <1>4, <1>5

LEMMA UnackedRemovalEffect ==
    ASSUME IslandInvariant, NEW m \in Migrators, RemoveUnacked(m)
    PROVE  /\ Others(m) /\ job[m].at = "remove" /\ job[m].who.src \in Islands
           /\ job[m].who.id \in Programs /\ hit' = hit \cup {job[m].who.id}
           /\ UNCHANGED <<state, fit, current, displaced, contended, strayed>>
           /\ \A p \in Programs \ {job[m].who.id} : Homes(p)' = Homes(p)
           /\ Kept(m) /\ job'[m].at = "rollback" /\ job'[m].victims = job[m].victims
<1>0. Shaped /\ AllSound /\ m \in Workers
  BY DEF IslandInvariant, Workers
<1> DEFINE i == job[m].who.src
           x == job[m].who.id
<1>1. /\ job[m].at = "remove" /\ arch' = [arch EXCEPT ![i] = Unlisted(arch[i], {x})]
      /\ Become(m, AfterRemove(job[m], FALSE)) /\ hit' = hit \cup {x}
      /\ UNCHANGED <<state, fit, current, displaced, contended, strayed>>
  BY DEF RemoveUnacked
<1>2. i \in Islands /\ x \in Programs
  BY <1>0, <1>1, RemoveTypes
<1>3. Others(m) /\ Kept(m) /\ job'[m].at = "rollback" /\ job'[m].victims = job[m].victims
  BY <1>0, <1>1, AfterRemoveEffect
<1>4. \A p \in Programs : Homes(p)' = IF p = x THEN Homes(p) \ {i} ELSE Homes(p)
  <2>1. PICK k \in Islands, y \in Programs : k = i /\ y = x
    BY <1>2
  <2>2. arch' = [arch EXCEPT ![k] = Unlisted(arch[k], {y})]
    BY <1>1, <2>1
  <2>3. \A p \in Programs : Homes(p)' = IF p = y THEN Homes(p) \ {k} ELSE Homes(p)
    BY <1>0, <2>2, HomesRemovedOne
  <2> QED BY <2>1, <2>3
<1> QED BY <1>1, <1>2, <1>3, <1>4

LEMMA RollbackEffect ==
    ASSUME IslandInvariant, NEW m \in Migrators, Rollback(m)
    PROVE  /\ Others(m) /\ job[m].at = "rollback" /\ job[m].dst \in Islands
           /\ job[m].who.id \in Programs /\ Dropped(m)
           /\ UNCHANGED <<state, fit, current, displaced, contended, strayed, hit>>
           /\ \A p \in Programs : Homes(p)' = IF p = job[m].who.id
                                              THEN Homes(p) \ {job[m].dst} ELSE Homes(p)
<1>0. Shaped /\ AllSound /\ m \in Workers /\ m # "ingestor"
  BY MultiIslandAssumption DEF IslandInvariant, Workers
<1> DEFINE i == job[m].dst
           x == job[m].who.id
<1>1. /\ job[m].at = "rollback" /\ arch' = [arch EXCEPT ![i] = Remove(arch[i], {x})]
      /\ Become(m, NextMigrant(job[m]))
      /\ UNCHANGED <<state, fit, current, displaced, contended, strayed, hit>>
  BY DEF Rollback
<1>2. i \in Islands /\ x \in Programs
  BY <1>0, <1>1, RemoveTypes
<1>3. Others(m) /\ Dropped(m)
  BY <1>0, <1>1, BecomeNext
<1>4. \A p \in Programs : Homes(p)' = IF p = x THEN Homes(p) \ {i} ELSE Homes(p)
  BY <1>0, <1>1, <1>2, HomesRemovedOne
<1> QED BY <1>1, <1>2, <1>3, <1>4

\* The steps of a migration that touch no archive and hand on no program.
Idling(m) == Select(m) \/ StartMigration(m) \/ NotRouted(m) \/ Migrated(m) \/ Enforced(m)
             \/ \E i \in Islands : Enforce(m, i)

LEMMA IdlingEffect ==
    ASSUME IslandInvariant, OrderlyJobs, NEW m \in Migrators, Idling(m)
    PROVE  /\ Others(m) /\ job[m].who = None /\ job'[m].who = None
           /\ job[m].victims = {} /\ job'[m].victims = {}
           /\ job'[m].batch \subseteq job[m].batch
           /\ UNCHANGED <<arch, state, fit, displaced, contended, strayed, hit>>
           /\ Neat(m)' /\ (Enforcing(job'[m]) => ~Locked(job'[m].dst))
<1>0. Shaped /\ m \in Workers /\ m # "ingestor" /\ Neat(m)
  BY MultiIslandAssumption DEF IslandInvariant, Workers, OrderlyJobs
<1>1. CASE Select(m)
  <2>1. /\ job[m].at = "idle" /\ job' = job
        /\ UNCHANGED <<arch, state, fit, displaced, contended, strayed, hit>>
    BY <1>1 DEF Select
  <2> QED BY <1>0, <2>1 DEF Neat, Others, Enforcing
<1>2. CASE StartMigration(m)
  BY <1>0, <1>2, StartEffect DEF Neat, Enforcing
<1>3. CASE NotRouted(m)
  BY <1>0, <1>3, NotRoutedEffect DEF Neat, Enforcing
<1>4. CASE Migrated(m)
  <2>1. /\ Become(m, [Idle EXCEPT !.at = "enforce"]) /\ job[m].at = "next"
        /\ UNCHANGED <<arch, state, fit, displaced, contended, strayed, hit>>
    BY <1>4 DEF Migrated
  <2>2. Others(m) /\ Dropped(m)
    BY <1>0, <2>1, BecomeEnforce
  <2> QED BY <1>0, <2>1, <2>2 DEF Neat, Dropped, Enforcing
<1>5. CASE Enforced(m)
  <2>1. /\ Become(m, Idle) /\ job[m].at = "enforce"
        /\ UNCHANGED <<arch, state, fit, displaced, contended, strayed, hit>>
    BY <1>5 DEF Enforced
  <2>2. Others(m) /\ Dropped(m)
    BY <1>0, <2>1, BecomeIdle
  <2> QED BY <1>0, <2>1, <2>2 DEF Neat, Dropped, Enforcing
<1>6. CASE \E i \in Islands : Enforce(m, i)
  <2>1. PICK i \in Islands : Enforce(m, i)
    BY <1>6
  <2>2. /\ Others(m) /\ job[m].at = "enforce" /\ job'[m].at = "evict" /\ job'[m].dst = i
        /\ ~Locked(i)
        /\ UNCHANGED <<arch, state, fit, current, displaced, contended, strayed, hit>>
        /\ job'[m].who = job[m].who /\ job'[m].victims = job[m].victims
        /\ job'[m].batch = job[m].batch
    BY <2>1, EnforceEffect
  <2> QED BY <1>0, <2>2 DEF Neat
<1> QED BY <1>1, <1>2, <1>3, <1>4, <1>5, <1>6 DEF Idling

LEMMA MigratorSplit ==
    ASSUME NEW m \in Migrators, MigrationStep(m)
    PROVE  \/ Idling(m) \/ Migrate(m) \/ RemoveFromSource(m) \/ RemoveUnacked(m)
           \/ Rollback(m) \/ \E i \in Islands : Collect(m, i)
  BY DEF MigrationStep, Idling

LEMMA RemoverPasses ==
    ASSUME Orderly, NEW m \in Workers \ {"ingestor"}, Others(m), hit \subseteq hit',
           NEW p \in Programs, state'[p] = state[p], Homes(p)' \subseteq Homes(p),
           job[m].victims = {},
           Dropped(m) \/ (Kept(m) /\ job'[m].victims = job[m].victims)
    PROVE  Fresh(p)' /\ Roles(p)'
<1>1. Involved(m, p)' => Involved(m, p)
  BY DEF Dropped, Kept, Carries, Queued, Involved
<1>2. p \notin Condemned(m)'
  BY DEF Dropped, Condemned
<1> QED BY <1>1, <1>2, MigratorPasses

LEMMA OrderlyMigration ==
    ASSUME IslandInvariant, Orderly, NEW m \in Migrators, MigrationStep(m)
    PROVE  Orderly'
<1>0. /\ Shaped /\ AllSound /\ Rest /\ OrderlyJobs /\ Genuine /\ Neat(m) /\ Current(m)
      /\ m \in Workers \ {"ingestor"}
      /\ \A p \in Programs : Fresh(p) /\ Roles(p) /\ Alone(p)
  BY MultiIslandAssumption DEF IslandInvariant, Orderly, OrderlyJobs, Workers
<1>1. CASE Idling(m)
  <2>1. /\ Others(m) /\ job[m].who = None /\ job'[m].who = None
        /\ job[m].victims = {} /\ job'[m].victims = {}
        /\ job'[m].batch \subseteq job[m].batch
        /\ UNCHANGED <<arch, state, fit, displaced, contended, strayed, hit>>
        /\ Neat(m)' /\ (Enforcing(job'[m]) => ~Locked(job'[m].dst))
    BY <1>0, <1>1, IdlingEffect
  <2>2. Current(m)'
    BY <1>0, <2>1, HeldTypes DEF Current
  <2>3. \A p \in Programs : /\ Involved(m, p)' => Involved(m, p)
                            /\ p \notin Condemned(m)'
    BY <2>1 DEF Involved, Carries, Queued, Condemned
  <2>4. OrderlyJobs' /\ \A p \in Programs : Alone(p)'
    BY <1>0, <2>1, <2>2, <2>3, JobsOrderly
  <2>5. Genuine'
    BY <1>0, <2>1, GenuineSame
  <2>6. \A p \in Programs : Homes(p)' = Homes(p)
    BY <2>1, HomesSame
  <2>7. \A p \in Programs : Fresh(p)' /\ Roles(p)'
    BY <1>0, <2>1, <2>3, <2>6, MigratorPasses
  <2> QED BY <2>4, <2>5, <2>7 DEF Orderly
<1>2. CASE Migrate(m)
  <2>1. /\ Others(m) /\ job[m].at = "next" /\ job'[m].at = "add"
        /\ UNCHANGED <<arch, state, fit, current, displaced, contended, hit>>
        /\ job'[m].victims = job[m].victims
    BY <1>2, MigrateEffect
  <2>2. PICK b \in job[m].batch :
          /\ job'[m].who = b[2] /\ job'[m].batch = job[m].batch \ {b}
          /\ b[1] \in Islands /\ b[2] \in Copies
          /\ job'[m].dst \in Routes(b[2], Islands \ {b[2].src})
    BY <1>2, MigrateEffect
  <2>3. job'[m].dst # b[2].src /\ job[m].victims = {}
    BY <1>0, <2>1, <2>2 DEF Routes, Neat
  <2>4. Neat(m)'
    BY <1>0, <2>1, <2>2, <2>3 DEF Neat
  <2>5. Current(m)'
    BY <1>0, <2>1, <2>2 DEF Current
  <2>6. \A p \in Programs : /\ Involved(m, p)' => Involved(m, p)
                            /\ p \notin Condemned(m)'
    BY <2>1, <2>2, <2>3 DEF Involved, Carries, Queued, Condemned
  <2>7. OrderlyJobs' /\ \A p \in Programs : Alone(p)'
    BY <1>0, <2>1, <2>4, <2>5, <2>6, JobsOrderly DEF Enforcing
  <2>8. Genuine'
    BY <1>0, <2>1, GenuineSame
  <2>9. \A p \in Programs : Homes(p)' = Homes(p)
    BY <2>1, HomesSame
  <2>10. \A p \in Programs : Fresh(p)' /\ Roles(p)'
    BY <1>0, <2>1, <2>6, <2>9, MigratorPasses
  <2> QED BY <2>7, <2>8, <2>10 DEF Orderly
<1>3. CASE RemoveFromSource(m)
  <2>1. /\ Others(m) /\ job[m].at = "remove" /\ job[m].who.src \in Islands
        /\ job[m].who.id \in Programs
        /\ UNCHANGED <<state, fit, current, displaced, contended, strayed, hit>>
        /\ \A p \in Programs : Homes(p)' \subseteq Homes(p)
        /\ \/ Dropped(m)
           \/ Kept(m) /\ job'[m].at = "rollback" /\ job'[m].victims = job[m].victims
    BY <1>3, RemovalEffect
  <2>2. job[m].victims = {}
    BY <1>0, <2>1 DEF Neat
  <2>3. OrderlyJobs' /\ \A p \in Programs : Alone(p)'
    BY <1>0, <2>1, <2>2, KeptOrderly, DroppedOrderly DEF Enforcing
  <2>4. Genuine'
    <3> DEFINE i == job[m].who.src
               x == job[m].who.id
               b == Remove(arch[i], {x})
    <3>1. arch' = [arch EXCEPT ![i] = b]
      BY <1>3 DEF RemoveFromSource
    <3>2. Sound(arch[i], hit) /\ Truthful(arch[i], i, hit, fit)
      BY <1>0, <2>1 DEF AllSound, Genuine
    <3>3. Truthful(b, i, hit', fit')
      BY <2>1, <3>2, RemoveTruthful
    <3> HIDE DEF b
    <3> QED BY <1>0, <2>1, <3>1, <3>3, GenuineKept
  <2>5. \A p \in Programs : Fresh(p)' /\ Roles(p)'
    BY <1>0, <2>1, <2>2, RemoverPasses
  <2> QED BY <2>3, <2>4, <2>5 DEF Orderly
<1>4. CASE RemoveUnacked(m)
  <2>1. /\ Others(m) /\ job[m].at = "remove" /\ job[m].who.src \in Islands
        /\ job[m].who.id \in Programs /\ hit' = hit \cup {job[m].who.id}
        /\ UNCHANGED <<state, fit, current, displaced, contended, strayed>>
        /\ \A p \in Programs \ {job[m].who.id} : Homes(p)' = Homes(p)
        /\ Kept(m) /\ job'[m].at = "rollback" /\ job'[m].victims = job[m].victims
    BY <1>4, UnackedRemovalEffect
  <2>2. job[m].victims = {}
    BY <1>0, <2>1 DEF Neat
  <2>3. OrderlyJobs' /\ \A p \in Programs : Alone(p)'
    BY <1>0, <2>1, <2>2, KeptOrderly DEF Enforcing
  <2>4. Genuine'
    <3> DEFINE i == job[m].who.src
               x == job[m].who.id
               b == Unlisted(arch[i], {x})
    <3>1. arch' = [arch EXCEPT ![i] = b]
      BY <1>4 DEF RemoveUnacked
    <3>2. Sound(arch[i], hit) /\ Truthful(arch[i], i, hit', fit)
      BY <1>0, <2>1 DEF AllSound, Genuine, Truthful
    <3>3. Truthful(b, i, hit', fit')
      BY <2>1, <3>2, RemoveTruthful
    <3> HIDE DEF b
    <3> QED BY <1>0, <2>1, <3>1, <3>3, GenuineKept
  <2>5. ASSUME NEW p \in Programs PROVE Fresh(p)' /\ Roles(p)'
    <3>1. CASE p = job[m].who.id
      BY <2>1, <3>1, StruckExempt
    <3>2. CASE p # job[m].who.id
      BY <1>0, <2>1, <2>2, <3>2, RemoverPasses
    <3> QED BY <3>1, <3>2
  <2> QED BY <2>3, <2>4, <2>5 DEF Orderly
<1>5. CASE Rollback(m)
  <2>1. /\ Others(m) /\ job[m].at = "rollback" /\ job[m].dst \in Islands
        /\ job[m].who.id \in Programs /\ Dropped(m)
        /\ UNCHANGED <<state, fit, current, displaced, contended, strayed, hit>>
        /\ \A p \in Programs : Homes(p)' \subseteq Homes(p)
    BY <1>5, RollbackEffect
  <2>2. job[m].victims = {}
    BY <1>0, <2>1 DEF Neat
  <2>3. OrderlyJobs' /\ \A p \in Programs : Alone(p)'
    BY <1>0, <2>1, DroppedOrderly
  <2>4. Genuine'
    <3> DEFINE i == job[m].dst
               x == job[m].who.id
               b == Remove(arch[i], {x})
    <3>1. arch' = [arch EXCEPT ![i] = b]
      BY <1>5 DEF Rollback
    <3>2. Sound(arch[i], hit) /\ Truthful(arch[i], i, hit, fit)
      BY <1>0, <2>1 DEF AllSound, Genuine
    <3>3. Truthful(b, i, hit', fit')
      BY <2>1, <3>2, RemoveTruthful
    <3> HIDE DEF b
    <3> QED BY <1>0, <2>1, <3>1, <3>3, GenuineKept
  <2>5. \A p \in Programs : Fresh(p)' /\ Roles(p)'
    BY <1>0, <2>1, <2>2, RemoverPasses
  <2> QED BY <2>3, <2>4, <2>5 DEF Orderly
<1>6. CASE \E i \in Islands : Collect(m, i)
  <2>0. PICK i \in Islands : Collect(m, i)
    BY <1>6
  <2>1. /\ Others(m) /\ job[m].at = "collect" /\ job'[m].at \in {"collect", "next"}
        /\ i \in job[m].left /\ ~Locked(i) /\ job'[m].left = job[m].left \ {i}
        /\ job'[m].who = job[m].who /\ job'[m].victims = job[m].victims
        /\ UNCHANGED <<arch, state, fit, current, displaced, strayed, hit>>
    BY <2>0, CollectEffect
  <2>2. PICK P \in SUBSET Elites(arch[i]) :
          /\ job'[m].batch = job[m].batch \cup {<<i, Copy(p)>> : p \in P}
          /\ contended' = contended \cup {p \in P : \E n \in Migrators \ {m} :
                p \in Touched(n) \/ \E b \in job[n].batch : b[2].id = p}
    BY <2>0, CollectEffect
  <2>3. P \subseteq Programs /\ \A p \in P : p \notin hit => i \in Homes(p)
    BY <1>0, EliteHome
  <2>4. /\ job[m].who = None /\ job[m].victims = {}
        /\ \A b \in job'[m].batch : b \in job[m].batch \/
              \E p \in P : b[1] = i /\ b[2] = Copy(p) /\ b[2].id = p /\ b[2].fit = fit[p]
    BY <1>0, <2>1, <2>2 DEF Neat, Copy
  <2>5. Neat(m)'
    BY <1>0, <2>1, <2>4 DEF Neat
  <2>6. Current(m)'
    BY <1>0, <2>1, <2>4, HeldTypes DEF Current
  <2>7. \A p \in Programs : /\ Involved(m, p)' => Involved(m, p) \/ p \in P
                            /\ p \notin Condemned(m)'
    BY <2>1, <2>4 DEF Involved, Carries, Queued, Condemned
  <2>8. ASSUME NEW p \in P, p \notin contended', NEW n \in Migrators \ {m}
        PROVE  ~Involved(n, p)
    <3>1. p \notin Touched(n) /\ ~Queued(n, p)
      BY <2>2, <2>8 DEF Queued
    <3>2. n \in Workers /\ Neat(n)
      BY <1>0 DEF OrderlyJobs, Workers
    <3>3. Carries(n, p) => p \in Touched(n)
      BY <3>2 DEF Neat, Carries, Touched
    <3> QED BY <3>1, <3>3 DEF Involved
  <2>9. OrderlyJobs' /\ \A p \in Programs : Alone(p)'
    <3>1. contended \subseteq contended' /\ ~Enforcing(job'[m])
      BY <2>1, <2>2 DEF Enforcing
    <3>2. \A p \in Programs \ contended' : Involved(m, p)' =>
               Involved(m, p) \/ \A n \in Migrators \ {m} : ~Involved(n, p)
      BY <2>7, <2>8
    <3> QED BY <1>0, <2>1, <2>5, <2>6, <3>1, <3>2, JobsOrderly
  <2>10. Genuine'
    BY <1>0, <2>1, GenuineSame
  <2>11. ASSUME NEW p \in Programs PROVE Fresh(p)' /\ Roles(p)'
    <3>1. Homes(p)' = Homes(p) /\ job'["ingestor"] = job["ingestor"]
      BY <1>0, <2>1, HomesSame DEF Others, Workers
    <3>2. CASE p \in hit
      BY <2>1, <3>2, StruckExempt
    <3>3. CASE p \notin P
      BY <1>0, <2>1, <2>7, <3>1, <3>3, MigratorPasses
    <3>4. CASE p \in P /\ p \notin hit
      <4>1. i \in Homes(p)
        BY <2>3, <3>4
      <4>2. state[p] # "new"
        BY <1>0, <2>1, <3>4, <4>1 DEF Fresh, Locked, Enforcing, Workers
      <4>3. Carries("ingestor", p)' <=> Carries("ingestor", p)
        BY <3>1 DEF Carries
      <4> QED BY <1>0, <2>1, <3>4, <4>2, <4>3 DEF Fresh, Roles
    <3> QED BY <3>2, <3>3, <3>4
  <2> QED BY <2>9, <2>10, <2>11 DEF Orderly
<1> QED BY <1>1, <1>2, <1>3, <1>4, <1>5, <1>6, MigratorSplit

LEMMA CarriedTouched ==
    ASSUME OrderlyJobs, NEW w \in Workers, NEW p
    PROVE  (Carries(w, p) \/ p \in Condemned(w)) <=> p \in Touched(w)
<1>1. Neat(w)
  BY DEF OrderlyJobs
<1> QED BY <1>1 DEF Neat, Carries, Condemned, Touched

LEMMA CrashEffect ==
    ASSUME IslandInvariant, OrderlyJobs, Crash
    PROVE  /\ \A w \in Workers : /\ job'[w].at = "idle" /\ job'[w].who = None
                                 /\ job'[w].victims = {} /\ job'[w].batch = {}
           /\ \A p \in Programs : Homes(p)' = Homes(p)
           /\ \A p : p \notin hit' => p \notin hit /\ Free(p) /\ ~Victim(p)
           /\ UNCHANGED <<state, fit, displaced, contended, strayed>>
           /\ arch' = [i \in Islands |-> Reloaded(arch[i], fit)] /\ hit \subseteq hit'
<1>1. /\ hit' = hit \cup UNION {Touched(w) : w \in Workers}
      /\ arch' = [i \in Islands |-> Reloaded(arch[i], fit)]
      /\ job' = [w \in Workers |-> Idle]
      /\ UNCHANGED <<state, fit, displaced, contended, strayed>>
  BY DEF Crash
<1>2. \A w \in Workers : job'[w] = Idle
  BY <1>1
<1>3. \A p \in Programs : Homes(p)' = Homes(p)
  BY <1>1, HomesReloaded DEF IslandInvariant
<1>4. \A p : p \notin hit' => p \notin hit /\ Free(p) /\ ~Victim(p)
  BY <1>1, CarriedTouched DEF Free, Victim
<1> QED BY <1>1, <1>2, <1>3, <1>4, IdleFields

LEMMA CancelEffect ==
    ASSUME IslandInvariant, OrderlyJobs, CancelAdd
    PROVE  LET w == "ingestor" IN
           /\ Others(w) /\ Dropped(w) /\ hit \subseteq hit'
           /\ \A p : p \notin hit' => ~Carries(w, p) /\ p \notin Condemned(w)
           /\ \A p \in Programs : Homes(p)' = Homes(p)
           /\ UNCHANGED <<arch, state, fit, displaced, contended, strayed>>
<1>1. /\ hit' = hit \cup Touched("ingestor") /\ Become("ingestor", Idle)
      /\ UNCHANGED <<arch, state, fit, displaced, contended, strayed>>
  BY DEF CancelAdd
<1>2. "ingestor" \in Workers
  BY DEF Workers
<1>3. Others("ingestor") /\ Dropped("ingestor")
  BY <1>1, <1>2, BecomeIdle DEF IslandInvariant
<1>4. \A p : p \notin hit' => ~Carries("ingestor", p) /\ p \notin Condemned("ingestor")
  BY <1>1, <1>2, CarriedTouched
<1> QED BY <1>1, <1>3, <1>4, HomesSame

\* Steps that change no job.
LEMMA StillOrderly ==
    ASSUME IslandInvariant, Orderly, UNCHANGED <<arch, job, contended>>, hit \subseteq hit',
           \A p \in Programs \ hit' : fit'[p] = fit[p],
           \A p \in Programs \ hit' : state'[p] = state[p] \/
               (state'[p] # "new" /\ ~Carries("ingestor", p))
    PROVE  Orderly'
<1>0. /\ Shaped /\ AllSound /\ OrderlyJobs /\ Genuine /\ "ingestor" \in Workers
      /\ Neat("ingestor") /\ Current("ingestor")
      /\ \A p \in Programs : Alone(p)
  BY DEF IslandInvariant, Orderly, OrderlyJobs, Workers
<1>1. Others("ingestor") /\ Neat("ingestor")'
  BY <1>0 DEF Others, Neat
<1>2. Current("ingestor")'
  BY <1>0, HeldTypes DEF Current
<1>3. OrderlyJobs' /\ \A p \in Programs : Alone(p)'
  BY <1>0, <1>1, <1>2, JobsOrderly, MultiIslandAssumption
<1>4. Genuine'
  BY <1>0, GenuineSame
<1>5. ASSUME NEW p \in Programs PROVE Fresh(p)' /\ Roles(p)'
  <2>1. CASE p \in hit'
    BY <2>1, StruckExempt
  <2>2. CASE p \notin hit'
    <3>1. /\ Homes(p)' = Homes(p) /\ (Carries("ingestor", p)' <=> Carries("ingestor", p))
          /\ Involved("ingestor", p)' <=> Involved("ingestor", p)
          /\ Condemned("ingestor")' = Condemned("ingestor")
      BY HomesSame DEF Carries, Queued, Involved, Condemned
    <3> QED BY <1>0, <1>1, <2>2, <3>1, PassingBy
  <2> QED BY <2>1, <2>2
<1> QED BY <1>3, <1>4, <1>5 DEF Orderly

LEMMA OrderlyNext ==
    ASSUME IslandInvariant, Orderly, [Next]_vars
    PROVE  Orderly'
<1>0. /\ Shaped /\ AllSound /\ Rest /\ OrderlyJobs /\ Genuine /\ "ingestor" \in Workers
      /\ "ingestor" \notin Migrators /\ Neat("ingestor") /\ Current("ingestor")
      /\ \A p \in Programs : Fresh(p) /\ Roles(p) /\ Alone(p)
  BY MultiIslandAssumption DEF IslandInvariant, Orderly, OrderlyJobs, Workers
<1>1. ASSUME NEW q \in Programs, Offer(q) PROVE Orderly'
  <2> DEFINE w == "ingestor"
  <2>1. /\ Others(w) /\ job[w].at = "idle" /\ state[q] = "new"
        /\ job'[w].at = "add" /\ job'[w].who = Copy(q) /\ job'[w].dst \in Islands
        /\ job'[w].batch = {} /\ job'[w].victims = {}
        /\ UNCHANGED <<arch, state, fit, current, displaced, contended, strayed, hit>>
    BY <1>1, OfferEffect
  <2>2. Copy(q) # None /\ Copy(q).id = q /\ Copy(q).fit = fit[q] /\ job[w].who = None
    <3>1. Copy(q) \in Copies
      BY CopyType, InvariantTypes
    <3> QED BY <1>0, <2>1, <3>1, CopyIsSome DEF Copy, Neat
  <2>3. Neat(w)'
    BY <2>1, <2>2 DEF Neat
  <2>4. Current(w)'
    BY <2>1, <2>2 DEF Current
  <2>5. OrderlyJobs' /\ \A p \in Programs : Alone(p)'
    BY <1>0, <2>1, <2>3, <2>4, JobsOrderly DEF Enforcing
  <2>6. Genuine'
    BY <1>0, <2>1, GenuineSame
  <2>7. ASSUME NEW p \in Programs PROVE Fresh(p)' /\ Roles(p)'
    <3>1. /\ Homes(p)' = Homes(p) /\ ~Carries(w, p) /\ Condemned(w)' = {} /\ ~Queued(w, p)'
          /\ Carries(w, p)' <=> p = q
      BY <2>1, <2>2, HomesSame DEF Carries, Condemned, Queued
    <3>2. CASE p # q
      BY <1>0, <2>1, <3>1, <3>2, StrangerPasses
    <3>3. CASE p = q
      <4>1. \A v \in Workers \ {w} : /\ Carries(v, p)' <=> Carries(v, p)
                                     /\ Involved(v, p)' <=> Involved(v, p)
                                     /\ Condemned(v)' = Condemned(v)
        BY <2>1 DEF Others, Carries, Queued, Involved, Condemned
      <4>2. Roles(p)'
        BY <1>0, <2>1, <3>3, <4>1 DEF Roles, Workers
      <4>3. p \notin hit => Homes(p) = {} /\ \A v \in Workers : p \notin Condemned(v)
        BY <1>0, <2>1, <3>1, <3>3 DEF Fresh
      <4>4. Fresh(p)'
        BY <2>1, <3>1, <4>1, <4>3 DEF Fresh
      <4> QED BY <4>2, <4>4
    <3> QED BY <3>2, <3>3
  <2> QED BY <2>5, <2>6, <2>7 DEF Orderly
<1>2. ASSUME NEW q \in Programs, NoIsland(q) PROVE Orderly'
  <2>1. /\ job["ingestor"].at = "idle" /\ state' = [state EXCEPT ![q] = "DISCARDED"]
        /\ UNCHANGED <<arch, fit, job, contended, hit>>
    BY <1>2 DEF NoIsland, Reject
  <2>2. \A p : ~Carries("ingestor", p)
    BY <1>0, <2>1 DEF Neat, Carries
  <2>3. \A p \in Programs : state'[p] = state[p] \/ state'[p] = "DISCARDED"
    BY <1>0, <2>1 DEF Rest
  <2> QED BY <2>1, <2>2, <2>3, StillOrderly
<1>3. ASSUME NEW q \in Programs, Reevaluate(q) PROVE Orderly'
  <2>1. PICK f : fit' = [fit EXCEPT ![q] = f]
    BY <1>3 DEF Reevaluate
  <2>2. hit' = hit \cup {q} /\ UNCHANGED <<arch, state, job, contended>>
    BY <1>3 DEF Reevaluate
  <2>3. \A p \in Programs \ hit' : fit'[p] = fit[p]
    BY <1>0, <2>1, <2>2 DEF Rest
  <2> QED BY <2>2, <2>3, StillOrderly
<1>4. CASE \E w \in Workers : AddStep(w)
  BY <1>4, OrderlyAdd
<1>5. CASE \E m \in Migrators : MigrationStep(m)
  BY <1>5, OrderlyMigration
<1>6. CASE CancelAdd
  <2> DEFINE w == "ingestor"
  <2>1. /\ Others(w) /\ Dropped(w) /\ hit \subseteq hit'
        /\ \A p : p \notin hit' => ~Carries(w, p) /\ p \notin Condemned(w)
        /\ \A p \in Programs : Homes(p)' = Homes(p)
        /\ UNCHANGED <<arch, state, fit, displaced, contended, strayed>>
    BY <1>0, <1>6, CancelEffect
  <2>2. OrderlyJobs' /\ \A p \in Programs : Alone(p)'
    BY <1>0, <2>1, DroppedOrderly
  <2>3. Genuine'
    BY <1>0, <2>1, GenuineSame
  <2>4. ASSUME NEW p \in Programs PROVE Fresh(p)' /\ Roles(p)'
    <3>1. CASE p \in hit'
      BY <3>1, StruckExempt
    <3>2. CASE p \notin hit'
      <4>1. ~Carries(w, p)' /\ (Queued(w, p)' => Queued(w, p)) /\ p \notin Condemned(w)'
        BY <2>1 DEF Dropped, Carries, Queued, Condemned
      <4> QED BY <1>0, <2>1, <3>2, <4>1, StrangerPasses
    <3> QED BY <3>1, <3>2
  <2> QED BY <2>2, <2>3, <2>4 DEF Orderly
<1>7. CASE Crash
  <2>1. /\ \A w \in Workers : /\ job'[w].at = "idle" /\ job'[w].who = None
                              /\ job'[w].victims = {} /\ job'[w].batch = {}
        /\ \A p \in Programs : Homes(p)' = Homes(p)
        /\ \A p : p \notin hit' => p \notin hit /\ Free(p) /\ ~Victim(p)
        /\ UNCHANGED <<state, fit, displaced, contended, strayed>>
        /\ arch' = [i \in Islands |-> Reloaded(arch[i], fit)] /\ hit \subseteq hit'
    BY <1>0, <1>7, CrashEffect
  <2>2. OrderlyJobs'
    BY <2>1 DEF OrderlyJobs, Exclusive, Enforcing, Neat, Current
  <2>3. ASSUME NEW i \in Islands PROVE Truthful(arch'[i], i, hit', fit')
    <3>1. arch[i] \in Archives /\ Truthful(arch[i], i, hit', fit)
      BY <1>0, <2>1 DEF AllSound, Genuine, Truthful
    <3>2. Truthful(Reloaded(arch[i], fit), i, hit', fit)
      BY <3>1, ReloadedTruthful
    <3> QED BY <2>1, <3>2
  <2>4. Genuine'
    BY <2>3 DEF Genuine, Truthful
  <2>5. ASSUME NEW p \in Programs PROVE Fresh(p)' /\ Roles(p)' /\ Alone(p)'
    <3>1. \A w \in Workers : /\ ~Carries(w, p)' /\ ~Involved(w, p)' /\ p \notin Condemned(w)'
      BY <2>1 DEF Carries, Queued, Involved, Condemned
    <3>2. Alone(p)' /\ Roles(p)'
      BY <1>0, <3>1 DEF Alone, Roles, Workers
    <3>3. Fresh(p)'
      BY <1>0, <2>1, <3>1 DEF Fresh, Free
    <3> QED BY <3>2, <3>3
  <2> QED BY <2>2, <2>4, <2>5 DEF Orderly
<1>8. CASE UNCHANGED vars
  <2>1. UNCHANGED <<arch, job, contended, hit, fit, state>>
    BY <1>8 DEF vars
  <2> QED BY <2>1, StillOrderly
<1> QED BY <1>1, <1>2, <1>3, <1>4, <1>5, <1>6, <1>7, <1>8 DEF Next

LEMMA OrderlyInit == Init => Orderly
<1> SUFFICES ASSUME Init PROVE Orderly
  OBVIOUS
<1>1. \A w \in Workers : /\ job[w].at = "idle" /\ job[w].who = None
                         /\ job[w].victims = {} /\ job[w].batch = {}
  BY IdleFields DEF Init
<1>2. OrderlyJobs
  BY <1>1 DEF OrderlyJobs, Exclusive, Enforcing, Neat, Current
<1>3. \A i \in Islands, c \in Cells : arch[i].hash[c] = None
  BY DEF Init, Empty
<1>4. Genuine /\ \A p \in Programs : Homes(p) = {}
  BY <1>3 DEF Genuine, Truthful, Homes, Stored
<1>5. ASSUME NEW p \in Programs PROVE Fresh(p) /\ Roles(p) /\ Alone(p)
  <2>1. \A w \in Workers : ~Carries(w, p) /\ ~Involved(w, p) /\ p \notin Condemned(w)
    BY <1>1 DEF Carries, Queued, Involved, Condemned
  <2> QED BY <1>4, <2>1 DEF Fresh, Roles, Alone, Workers
<1> QED BY <1>2, <1>4, <1>5 DEF Orderly

-----------------------------------------------------------------------------
(***************************************************************************)
(* Where a program that no fault struck, no two migrations carried and no  *)
(* stale name misled can be, while it is carried and afterwards.           *)
(***************************************************************************)
UnderWay(m, p) ==
    LET j == job[m] IN
    /\ j.who.src \in Islands
    /\ Homes(p) \subseteq {j.who.src, j.dst}
    /\ Dead(p) => j.who.src \notin Homes(p) \/ j.dst \notin Homes(p)
    /\ j.at = "add" => j.dst \notin Homes(p) /\ (Dead(p) => Homes(p) = {})
    /\ j.at = "rollback" => j.who.src \notin Homes(p)

Arriving(p) ==
    LET j == job["ingestor"] IN
    /\ Homes(p) \subseteq {j.dst} /\ (Dead(p) => Homes(p) = {})
    /\ j.at = "add" => Homes(p) = {}

Waiting(m, p) == \A b \in job[m].batch : b[2].id = p =>
    /\ Homes(p) \subseteq {b[1]} /\ ~Carries(m, p)
    /\ \A c \in job[m].batch : c[2].id = p => c = b

Placed(p) == p \notin hit \cup contended \cup strayed =>
    /\ Free(p) => (\A i, k \in Homes(p) : i = k) /\ (Dead(p) => Homes(p) = {})
    /\ \A m \in Migrators : Waiting(m, p) /\ (Carries(m, p) => UnderWay(m, p))
    /\ Carries("ingestor", p) => Arriving(p)

\* The stages of an add and a removal in which p is, or is to be, in two archives.
Through == {"stamp", "evict", "discard", "remove"}

LEMMA SoleCarrier ==
    ASSUME Orderly, NEW p \in Programs, p \notin hit \cup contended
    PROVE  /\ \A m \in Migrators : Involved(m, p) =>
                 /\ \A n \in Migrators \ {m} : ~Involved(n, p)
                 /\ ~Carries("ingestor", p)
           /\ \A w \in Workers : Carries(w, p) => \A v \in Workers \ {w} : ~Carries(v, p)
<1>1. Roles(p) /\ Alone(p)
  BY DEF Orderly
<1> QED BY <1>1 DEF Roles, Alone, Involved, Workers

\* No step but a crash, a cancellation and the end of an add frees a victim.
LEMMA DeadBefore ==
    ASSUME NEW w \in Workers, Others(w), NEW p, state'[p] = state[p],
           p \in Condemned(w)' => p \in Condemned(w)
    PROVE  Dead(p)' => Dead(p)
  BY DEF Dead, Victim, Others, Condemned

\* p stays where it was or leaves an archive; if it dies, it leaves one.
LEMMA PlacedStays ==
    ASSUME NEW p \in Programs, Placed(p), hit \subseteq hit', contended \subseteq contended',
           strayed \subseteq strayed',
           \A v \in Workers :
              \/ ~Carries(v, p) /\ ~Carries(v, p)'
              \/ /\ Carries(v, p) /\ Carries(v, p)'
                 /\ job'[v].who = job[v].who /\ job'[v].dst = job[v].dst
                 /\ job'[v].at = job[v].at \/ (job[v].at \in Through /\ job'[v].at \in Through),
           \A m \in Migrators : \A b \in job'[m].batch : b[2].id = p => b \in job[m].batch,
           Homes(p)' \subseteq Homes(p),
           Dead(p)' => Dead(p) \/ \E i \in Homes(p) : i \notin Homes(p)'
    PROVE  Placed(p)'
<1> SUFFICES ASSUME p \notin hit' \cup contended' \cup strayed'
             PROVE  /\ Free(p)' => /\ \A i, k \in Homes(p)' : i = k
                                   /\ Dead(p)' => Homes(p)' = {}
                    /\ \A m \in Migrators : Waiting(m, p)' /\ (Carries(m, p)' => UnderWay(m, p)')
                    /\ Carries("ingestor", p)' => Arriving(p)'
  BY DEF Placed
<1>1. /\ Free(p) => (\A i, k \in Homes(p) : i = k) /\ (Dead(p) => Homes(p) = {})
      /\ \A m \in Migrators : Waiting(m, p) /\ (Carries(m, p) => UnderWay(m, p))
      /\ Carries("ingestor", p) => Arriving(p)
  BY DEF Placed
<1>2. Free(p)' => Free(p)
  BY DEF Free
<1>3. Free(p)' => (\A i, k \in Homes(p)' : i = k) /\ (Dead(p)' => Homes(p)' = {})
  BY <1>1, <1>2
<1>4. ASSUME NEW m \in Migrators PROVE Waiting(m, p)'
  <2>1. m \in Workers /\ (Carries(m, p)' <=> Carries(m, p)) /\ Waiting(m, p)
    BY <1>1 DEF Workers
  <2> QED BY <2>1 DEF Waiting
<1>5. ASSUME NEW m \in Migrators, Carries(m, p)' PROVE UnderWay(m, p)'
  <2>1. /\ m \in Workers /\ UnderWay(m, p)
        /\ job'[m].who = job[m].who /\ job'[m].dst = job[m].dst
        /\ job'[m].at = job[m].at \/ (job[m].at \in Through /\ job'[m].at \in Through)
    BY <1>1, <1>5 DEF Workers
  <2> QED BY <2>1 DEF UnderWay, Through
<1>6. ASSUME Carries("ingestor", p)' PROVE Arriving(p)'
  <2>1. /\ Arriving(p) /\ job'["ingestor"].dst = job["ingestor"].dst
        /\ job'["ingestor"].at = "add" => job["ingestor"].at = "add"
    BY <1>1, <1>6 DEF Workers, Through
  <2> QED BY <2>1 DEF Arriving
<1> QED BY <1>3, <1>4, <1>5, <1>6

LEMMA PlacedBystander ==
    ASSUME NEW p \in Programs, Placed(p), hit \subseteq hit', contended \subseteq contended',
           strayed \subseteq strayed', NEW w \in Workers, Others(w),
           ~Carries(w, p), ~Carries(w, p)',
           \A b \in job'[w].batch : b[2].id = p => b \in job[w].batch,
           Homes(p)' \subseteq Homes(p),
           Dead(p)' => Dead(p) \/ \E i \in Homes(p) : i \notin Homes(p)'
    PROVE  Placed(p)'
<1>1. ASSUME NEW v \in Workers
      PROVE  \/ ~Carries(v, p) /\ ~Carries(v, p)'
             \/ /\ Carries(v, p) /\ Carries(v, p)'
                /\ job'[v].who = job[v].who /\ job'[v].dst = job[v].dst
                /\ job'[v].at = job[v].at \/ (job[v].at \in Through /\ job'[v].at \in Through)
  BY DEF Others, Carries
<1>2. \A m \in Migrators : \A b \in job'[m].batch : b[2].id = p => b \in job[m].batch
  BY DEF Others, Workers
<1> QED BY <1>1, <1>2, PlacedStays

LEMMA PlacedKeeper ==
    ASSUME NEW p \in Programs, Placed(p), hit \subseteq hit', contended \subseteq contended',
           strayed \subseteq strayed', NEW w \in Workers, Others(w), Kept(w),
           job[w].at \in Through, job'[w].at \in Through,
           Homes(p)' \subseteq Homes(p),
           Dead(p)' => Dead(p) \/ \E i \in Homes(p) : i \notin Homes(p)'
    PROVE  Placed(p)'
<1>1. ASSUME NEW v \in Workers
      PROVE  \/ ~Carries(v, p) /\ ~Carries(v, p)'
             \/ /\ Carries(v, p) /\ Carries(v, p)'
                /\ job'[v].who = job[v].who /\ job'[v].dst = job[v].dst
                /\ job'[v].at = job[v].at \/ (job[v].at \in Through /\ job'[v].at \in Through)
  BY DEF Others, Kept, Carries
<1>2. \A m \in Migrators : \A b \in job'[m].batch : b[2].id = p => b \in job[m].batch
  BY DEF Others, Kept, Workers
<1> QED BY <1>1, <1>2, PlacedStays

LEMMA PlacedExempt ==
    ASSUME NEW p \in hit' \cup contended' \cup strayed'
    PROVE  Placed(p)'
  BY DEF Placed

\* The only worker that carried p has let go of it.
LEMMA PlacedReleased ==
    ASSUME Orderly, NEW p \in Programs, p \notin hit \cup contended \cup strayed, Placed(p),
           NEW w \in Workers, Others(w), Dropped(w), Carries(w, p),
           \A i, k \in Homes(p)' : i = k, Dead(p)' => Homes(p)' = {}
    PROVE  Placed(p)'
<1>1. /\ \A v \in Workers \ {w} : ~Carries(v, p)
      /\ \A m \in Migrators : ~Queued(m, p)
  <2>1. \A v \in Workers \ {w} : ~Carries(v, p)
    BY SoleCarrier
  <2>2. ASSUME NEW m \in Migrators PROVE ~Queued(m, p)
    <3>1. CASE m = w
      BY <3>1 DEF Placed, Waiting, Queued
    <3>2. CASE m # w
      BY <3>2, SoleCarrier DEF Involved, Workers
    <3> QED BY <3>1, <3>2
  <2> QED BY <2>1, <2>2
<1>2. /\ \A v \in Workers : ~Carries(v, p)'
      /\ \A m \in Migrators : ~Queued(m, p)'
  BY <1>1 DEF Others, Dropped, Carries, Queued, Workers
<1> QED BY <1>2 DEF Placed, Free, Waiting, Queued, Workers


\* Nobody carries p any more, nor is it waiting: what is left to show.
LEMMA PlacedFree ==
    ASSUME NEW p \in Programs, Free(p)', \A m \in Migrators : ~Queued(m, p)',
           \A i, k \in Homes(p)' : i = k, Dead(p)' => Homes(p)' = {}
    PROVE  Placed(p)'
  BY DEF Placed, Free, Waiting, Queued, Workers

\* The ends of an add: nothing happens to the archives, the victims are dead.
LEMMA PlacedSettle ==
    ASSUME IslandInvariant, Orderly, NEW p \in Programs, Placed(p), NEW w \in Workers,
           Discard(w) \/ (Stamp(w) /\ ~OverLimit(arch[job[w].dst]))
    PROVE  Placed(p)'
<1>1. /\ Others(w) /\ Finishing(w) /\ job[w].at \in {"stamp", "discard"}
      /\ UNCHANGED <<arch, fit, displaced, contended, strayed, hit>>
      /\ Homes(p)' = Homes(p)
      /\ state'[p] = IF p \in Condemned(w) THEN "DISCARDED"
                     ELSE IF Accepted(w, p) THEN "DONE" ELSE state[p]
  BY SettleEffect
<1>2. Condemned(w)' = {}
  BY <1>1 DEF Finishing, Dropped, Condemned
<1>3. Dead(p)' => Dead(p)
  BY <1>1, <1>2 DEF Dead, Victim, Others, Condemned
<1>4. CASE p \in hit \cup contended \cup strayed
  BY <1>1, <1>4, PlacedExempt
<1>5. CASE ~Dropped(w)
  <2>1. Kept(w) /\ job'[w].at = "remove"
    BY <1>1, <1>5 DEF Finishing
  <2> QED BY <1>1, <1>3, <2>1, PlacedKeeper DEF Through
<1>6. CASE Dropped(w) /\ ~Carries(w, p)
  <2>1. ~Carries(w, p)' /\ job'[w].batch \subseteq job[w].batch
    BY <1>6 DEF Dropped, Carries
  <2> QED BY <1>1, <1>3, <1>6, <2>1, PlacedBystander
<1>7. CASE Dropped(w) /\ Carries(w, p) /\ p \notin hit \cup contended \cup strayed
  <2>1. w = "ingestor"
    <3>1. SUFFICES ASSUME w # "ingestor" PROVE FALSE
      OBVIOUS
    <3>2. w \in Migrators /\ UnderWay(w, p)
      BY <1>7, <3>1 DEF Placed, Workers
    <3>3. job[w].who.src \in Islands /\ job[w].who # None
      BY <1>7, <3>2 DEF UnderWay, Carries
    <3>4. job'[w].at = "remove"
      BY <1>1, <3>1, <3>3 DEF Finishing
    <3> QED BY <1>7, <3>4 DEF Dropped
  <2>2. Arriving(p)
    BY <1>7, <2>1 DEF Placed
  <2>3. (\A i, k \in Homes(p)' : i = k) /\ (Dead(p)' => Homes(p)' = {})
    BY <1>1, <1>3, <2>2 DEF Arriving
  <2> QED BY <1>1, <1>7, <2>3, PlacedReleased
<1> QED BY <1>4, <1>5, <1>6, <1>7

\* The add itself: the program is in the island it was carried to.
LEMMA PlacedArrival ==
    ASSUME IslandInvariant, Orderly, NEW p \in Programs, Placed(p), NEW w \in Workers,
           AddAgain(w) \/ AddElite(w)
    PROVE  Placed(p)'
<1>1. /\ Others(w) /\ Kept(w) /\ job[w].at = "add" /\ job'[w].at = "stamp"
      /\ job'[w].victims = {} /\ job[w].victims = {} /\ job[w].who # None
      /\ UNCHANGED <<state, fit, current, contended, strayed, hit>>
  BY AddEffect
<1>2. IF p = job[w].who.id
      THEN /\ Homes(p) \subseteq Homes(p)'
           /\ Homes(p)' \subseteq Homes(p) \cup {job[w].dst}
           /\ p \notin hit => job[w].dst \in Homes(p)'
      ELSE Homes(p)' \subseteq Homes(p)
  BY AddEffect
<1>3. Dead(p)' => Dead(p)
  BY <1>1, DeadBefore DEF Condemned
<1>4. CASE p \in hit \cup contended \cup strayed
  BY <1>1, <1>4, PlacedExempt
<1>5. CASE p # job[w].who.id
  <2>1. ~Carries(w, p) /\ ~Carries(w, p)' /\ job'[w].batch = job[w].batch
    BY <1>1, <1>5 DEF Kept, Carries
  <2> QED BY <1>1, <1>2, <1>3, <1>5, <2>1, PlacedBystander
<1>6. CASE p = job[w].who.id /\ p \notin hit \cup contended \cup strayed
  <2>1. Carries(w, p) /\ Carries(w, p)'
    BY <1>1, <1>6 DEF Kept, Carries
  <2>2. \A v \in Workers \ {w} : ~Carries(v, p) /\ ~Carries(v, p)'
    BY <1>1, <1>6, <2>1, SoleCarrier DEF Others, Carries
  <2>3. \A m \in Migrators : ~Queued(m, p)
    <3>1. ASSUME NEW m \in Migrators, m # w PROVE ~Queued(m, p)
      BY <1>6, <2>1, <3>1, SoleCarrier DEF Involved, Workers
    <3>2. ASSUME w \in Migrators PROVE ~Queued(w, p)
      BY <1>6, <2>1, <3>2 DEF Placed, Waiting, Queued
    <3> QED BY <3>1, <3>2
  <2>4. \A m \in Migrators : ~Queued(m, p)'
    BY <1>1, <2>3 DEF Queued, Others, Kept, Workers
  <2>5. \A m \in Migrators : Waiting(m, p)'
    BY <2>4 DEF Waiting, Queued
  <2>6. CASE w = "ingestor"
    <3>1. Arriving(p) /\ state[p] = "new"
      BY <1>6, <2>1, <2>6 DEF Placed, Orderly, Roles
    <3>2. Homes(p) = {}
      BY <1>1, <2>6, <3>1 DEF Arriving
    <3>3. \A v \in Workers : p \notin Condemned(v)
      BY <1>1, <1>6, <2>6, <3>1 DEF Orderly, Fresh, Condemned
    <3>4. ~Dead(p)'
      BY <1>3, <3>1, <3>3 DEF Dead, Victim
    <3>5. Arriving(p)'
      BY <1>1, <1>2, <1>6, <2>6, <3>2, <3>4 DEF Arriving, Kept
    <3>6. ~Free(p)' /\ \A m \in Migrators : ~Carries(m, p)'
      BY <2>1, <2>2, <2>6, MultiIslandAssumption DEF Free, Workers
    <3> QED BY <2>5, <3>5, <3>6 DEF Placed
  <2>7. CASE w # "ingestor"
    <3>1. w \in Migrators /\ UnderWay(w, p)
      BY <1>6, <2>1, <2>7 DEF Placed, Workers
    <3>2. /\ job[w].who.src \in Islands /\ job[w].who.src # job[w].dst
          /\ Homes(p) \subseteq {job[w].who.src} /\ (Dead(p) => Homes(p) = {})
      BY <1>1, <2>7, <3>1 DEF UnderWay, Orderly, OrderlyJobs, Neat
    <3>3. UnderWay(w, p)'
      BY <1>1, <1>2, <1>3, <1>6, <3>2 DEF UnderWay, Kept
    <3>4. ~Free(p)' /\ ~Carries("ingestor", p)' /\ \A m \in Migrators : Carries(m, p)' => m = w
      BY <2>1, <2>2, <2>7 DEF Free, Workers
    <3> QED BY <2>5, <3>3, <3>4 DEF Placed
  <2> QED BY <2>6, <2>7
<1> QED BY <1>4, <1>5, <1>6

LEMMA PlacedAdd ==
    ASSUME IslandInvariant, Orderly, NEW p \in Programs, Placed(p), NEW w \in Workers,
           AddStep(w)
    PROVE  Placed(p)'
<1>0. /\ Shaped /\ AllSound /\ Rest /\ OrderlyJobs /\ Neat(w)
  BY DEF IslandInvariant, Orderly, OrderlyJobs
<1>1. CASE AddAgain(w) \/ AddElite(w)
  BY <1>1, PlacedArrival
<1>2. CASE AddRejected(w)
  <2>1. /\ Others(w) /\ Dropped(w) /\ job[w].at = "add"
        /\ UNCHANGED <<arch, fit, current, displaced, contended, strayed, hit>>
        /\ state'[p] = IF w = "ingestor" /\ p = job[w].who.id THEN "DISCARDED" ELSE state[p]
        /\ Homes(p)' = Homes(p)
    BY <1>2, RejectedEffect
  <2>2. ~Carries(w, p)' /\ job'[w].batch \subseteq job[w].batch /\ Condemned(w)' = {}
    BY <2>1 DEF Dropped, Carries, Condemned
  <2>3. state'[p] = state[p] => (Dead(p)' => Dead(p))
    BY <2>1, <2>2, DeadBefore
  <2>4. CASE p \in hit \cup contended \cup strayed
    BY <2>1, <2>4, PlacedExempt
  <2>5. CASE ~Carries(w, p)
    <3>1. state'[p] = state[p]
      BY <1>0, <2>1, <2>5, NeatSome DEF Carries
    <3> QED BY <2>1, <2>2, <2>3, <2>5, <3>1, PlacedBystander
  <2>6. CASE Carries(w, p) /\ p \notin hit \cup contended \cup strayed
    <3>1. (\A i, k \in Homes(p)' : i = k) /\ (Dead(p)' => Homes(p)' = {})
      <4>1. CASE w = "ingestor"
        BY <2>1, <2>6, <4>1 DEF Placed, Arriving
      <4>2. CASE w # "ingestor"
        <5>1. UnderWay(w, p) /\ state'[p] = state[p]
          BY <2>1, <2>6, <4>2 DEF Placed, Workers
        <5> QED BY <2>1, <2>3, <5>1 DEF UnderWay
      <4> QED BY <4>1, <4>2
    <3> QED BY <2>1, <2>6, <3>1, PlacedReleased
  <2> QED BY <2>4, <2>5, <2>6
<1>3. CASE AddUnacked(w)
  <2>1. /\ Others(w) /\ Dropped(w) /\ hit' = hit \cup {job[w].who.id}
        /\ UNCHANGED <<fit, current, contended, strayed>>
        /\ p # job[w].who.id => state'[p] = state[p] /\ Homes(p)' \subseteq Homes(p)
    BY <1>3, UnackedEffect
  <2>2. CASE p = job[w].who.id
    BY <2>1, <2>2, PlacedExempt
  <2>3. CASE p # job[w].who.id
    <3>1. /\ ~Carries(w, p) /\ ~Carries(w, p)' /\ job'[w].batch \subseteq job[w].batch
          /\ p \notin Condemned(w)'
      BY <2>1, <2>3 DEF Dropped, Carries, Condemned
    <3>2. Dead(p)' => Dead(p)
      BY <2>1, <2>3, <3>1, DeadBefore
    <3> QED BY <2>1, <2>3, <3>1, <3>2, PlacedBystander
  <2> QED BY <2>2, <2>3
<1>4. CASE Stamp(w) /\ OverLimit(arch[job[w].dst])
  <2>1. /\ job[w].at = "stamp" /\ Hold(w, "evict")
        /\ UNCHANGED <<arch, state, fit, displaced, contended, strayed, hit>>
    BY <1>4 DEF Stamp
  <2>2. Others(w) /\ Kept(w) /\ job'[w].at = "evict" /\ job'[w].victims = job[w].victims
    BY <1>0, <2>1, HoldKeeps
  <2>3. Dead(p)' => Dead(p)
    BY <2>1, <2>2, DeadBefore DEF Condemned
  <2> QED BY <2>1, <2>2, <2>3, HomesSame, PlacedKeeper DEF Through
<1>5. CASE Evict(w)
  <2>1. /\ Others(w) /\ Kept(w) /\ job[w].at = "evict" /\ job'[w].at = "discard"
        /\ UNCHANGED <<state, fit, current, displaced, contended, strayed, hit>>
        /\ job[w].dst \in Islands
    BY <1>5, EvictEffect
  <2>2. PICK V \in SUBSET Elites(arch[job[w].dst]) :
          /\ V \subseteq Programs /\ Condemned(w)' = V
          /\ \A q \in Programs :
                Homes(q)' = IF q \in V THEN Homes(q) \ {job[w].dst} ELSE Homes(q)
    BY <1>5, EvictEffect
  <2>3. CASE p \in hit
    BY <2>1, <2>3, PlacedExempt
  <2>4. CASE p \notin V
    <3>1. Dead(p)' => Dead(p)
      BY <2>1, <2>2, <2>4, DeadBefore
    <3> QED BY <2>1, <2>2, <2>4, <3>1, PlacedKeeper DEF Through
  <2>5. CASE p \in V /\ p \notin hit
    <3>1. job[w].dst \in Homes(p) /\ job[w].dst \notin Homes(p)'
      BY <1>0, <2>1, <2>2, <2>5, EliteHome
    <3> QED BY <2>1, <2>2, <3>1, PlacedKeeper DEF Through
  <2> QED BY <2>3, <2>4, <2>5
<1>6. CASE Discard(w) \/ (Stamp(w) /\ ~OverLimit(arch[job[w].dst]))
  BY <1>6, PlacedSettle
<1> QED BY <1>1, <1>2, <1>3, <1>4, <1>5, <1>6 DEF AddStep

\* What a program that a migrator has just chosen, or is to carry next, was doing.
LEMMA Unheld ==
    ASSUME Orderly, NEW p \in Programs, Placed(p), p \notin hit \cup contended \cup strayed,
           NEW m \in Migrators, Queued(m, p)
    PROVE  /\ Free(p) /\ \A n \in Migrators \ {m} : ~Queued(n, p)
           /\ \A i, k \in Homes(p) : i = k
           /\ Dead(p) => Homes(p) = {}
<1>1. /\ \A n \in Migrators \ {m} : ~Involved(n, p)
      /\ ~Carries("ingestor", p)
  BY SoleCarrier DEF Involved
<1>2. ~Carries(m, p)
  BY DEF Placed, Waiting, Queued
<1>3. Free(p)
  BY <1>1, <1>2 DEF Free, Involved, Workers
<1> QED BY <1>1, <1>3 DEF Placed, Involved

LEMMA PlacedMigrate ==
    ASSUME IslandInvariant, Orderly, NEW p \in Programs, Placed(p), NEW m \in Migrators,
           Migrate(m)
    PROVE  Placed(p)'
<1>0. m \in Workers \ {"ingestor"} /\ Shaped /\ Neat(m)
  BY MultiIslandAssumption DEF Workers, IslandInvariant, Orderly, OrderlyJobs
<1>1. /\ Others(m) /\ job[m].at = "next" /\ job'[m].at = "add"
      /\ UNCHANGED <<arch, state, fit, current, displaced, contended, hit>>
      /\ job'[m].victims = job[m].victims
  BY MigrateEffect
<1>2. PICK b \in job[m].batch :
        /\ job'[m].who = b[2] /\ job'[m].batch = job[m].batch \ {b}
        /\ b[1] \in Islands /\ b[2] \in Copies
        /\ job'[m].dst \in Routes(b[2], Islands \ {b[2].src})
        /\ strayed' = strayed \cup (IF b[1] = b[2].src THEN {} ELSE {b[2].id})
  BY MigrateEffect
<1>3. Homes(p)' = Homes(p) /\ strayed \subseteq strayed'
  BY <1>1, <1>2, HomesSame
<1>4. Dead(p)' => Dead(p)
  BY <1>0, <1>1, DeadBefore DEF Condemned
<1>5. job[m].who = None /\ b[2] # None
  BY <1>0, <1>1, <1>2, CopyIsSome DEF Neat
<1>6. CASE p \in hit' \cup contended' \cup strayed'
  BY <1>6, PlacedExempt
<1>7. CASE p # b[2].id
  <2>1. ~Carries(m, p) /\ ~Carries(m, p)'
    BY <1>2, <1>5, <1>7 DEF Carries
  <2> QED BY <1>0, <1>1, <1>2, <1>3, <1>4, <2>1, PlacedBystander
<1>8. CASE p = b[2].id /\ p \notin hit' \cup contended' \cup strayed'
  <2>1. p \notin hit \cup contended \cup strayed /\ b[1] = b[2].src
    BY <1>1, <1>2, <1>3, <1>8
  <2>2. Queued(m, p)
    BY <1>2, <1>8 DEF Queued
  <2>3. /\ Free(p) /\ \A n \in Migrators \ {m} : ~Queued(n, p)
        /\ Dead(p) => Homes(p) = {}
    BY <2>1, <2>2, Unheld
  <2>4. Homes(p) \subseteq {b[1]} /\ \A c \in job[m].batch : c[2].id = p => c = b
    BY <1>2, <1>8, <2>1 DEF Placed, Waiting
  <2>5. \A n \in Migrators : ~Queued(n, p)'
    BY <1>1, <1>2, <2>3, <2>4 DEF Queued, Others, Workers
  <2>6. Carries(m, p)' /\ \A v \in Workers \ {m} : ~Carries(v, p)'
    BY <1>1, <1>2, <1>5, <1>8, <2>3 DEF Carries, Others, Free
  <2>7. job'[m].who.src = b[1] /\ job'[m].dst # b[1]
    BY <1>2, <2>1 DEF Routes
  <2>8. UnderWay(m, p)'
    BY <1>1, <1>2, <1>3, <1>4, <2>3, <2>4, <2>7 DEF UnderWay
  <2> QED BY <1>0, <2>5, <2>6, <2>8 DEF Placed, Free, Waiting, Queued, Workers
<1> QED BY <1>6, <1>7, <1>8

LEMMA PlacedRemoval ==
    ASSUME IslandInvariant, Orderly, NEW p \in Programs, Placed(p), NEW m \in Migrators,
           RemoveFromSource(m)
    PROVE  Placed(p)'
<1>0. m \in Workers \ {"ingestor"} /\ Shaped /\ Neat(m) /\ OrderlyJobs
  BY MultiIslandAssumption DEF Workers, IslandInvariant, Orderly, OrderlyJobs
<1>1. /\ Others(m) /\ job[m].at = "remove" /\ job[m].who.src \in Islands
      /\ UNCHANGED <<state, fit, current, displaced, contended, strayed, hit>>
      /\ Homes(p)' = IF p = job[m].who.id THEN Homes(p) \ {job[m].who.src} ELSE Homes(p)
      /\ IF job[m].who.src \in Homes(job[m].who.id)
         THEN Dropped(m)
         ELSE Kept(m) /\ job'[m].at = "rollback" /\ job'[m].victims = job[m].victims
  BY RemovalEffect
<1>2. job[m].victims = {} /\ job[m].who # None /\ Condemned(m)' = {}
  BY <1>0, <1>1, NeatSome DEF Neat, Dropped, Condemned
<1>3. Dead(p)' => Dead(p)
  BY <1>0, <1>1, <1>2, DeadBefore
<1>4. CASE p \in hit \cup contended \cup strayed
  BY <1>1, <1>4, PlacedExempt
<1>5. CASE p # job[m].who.id
  <2>1. ~Carries(m, p) /\ ~Carries(m, p)' /\ job'[m].batch \subseteq job[m].batch
    BY <1>1, <1>5 DEF Carries, Kept, Dropped
  <2> QED BY <1>0, <1>1, <1>3, <1>5, <2>1, PlacedBystander
<1>6. CASE p = job[m].who.id /\ p \notin hit \cup contended \cup strayed
  <2>1. Carries(m, p) /\ UnderWay(m, p)
    BY <1>2, <1>6 DEF Placed, Carries
  <2>2. /\ Homes(p)' \subseteq {job[m].dst} /\ job[m].who.src \notin Homes(p)'
        /\ job[m].who.src # job[m].dst
    BY <1>0, <1>1, <1>2, <1>6, <2>1 DEF UnderWay, Neat
  <2>3. CASE job[m].who.src \in Homes(p)
    <3>1. Dropped(m)
      BY <1>1, <1>6, <2>3
    <3>2. Dead(p)' => Homes(p)' = {}
      BY <1>1, <1>3, <1>6, <2>1, <2>2, <2>3 DEF UnderWay
    <3> QED BY <1>0, <1>1, <1>6, <2>1, <2>2, <3>1, <3>2, PlacedReleased
  <2>4. CASE job[m].who.src \notin Homes(p)
    <3>1. Kept(m) /\ job'[m].at = "rollback"
      BY <1>1, <1>6, <2>4
    <3>2. Carries(m, p)' /\ \A v \in Workers \ {m} : ~Carries(v, p)'
      BY <1>0, <1>1, <1>6, <2>1, <3>1, SoleCarrier DEF Carries, Others, Kept
    <3>3. \A n \in Migrators : ~Queued(n, p)
      <4>1. \A n \in Migrators \ {m} : ~Queued(n, p)
        BY <1>6, <2>1, SoleCarrier DEF Involved
      <4>2. ~Queued(m, p)
        BY <1>6, <2>1 DEF Placed, Waiting, Queued
      <4> QED BY <4>1, <4>2
    <3>4. \A n \in Migrators : ~Queued(n, p)'
      BY <1>1, <3>1, <3>3 DEF Queued, Others, Kept, Workers
    <3>5. UnderWay(m, p)'
      BY <1>1, <2>2, <3>1 DEF UnderWay, Kept
    <3> QED BY <1>0, <3>2, <3>4, <3>5 DEF Placed, Free, Waiting, Queued, Workers
  <2> QED BY <2>3, <2>4
<1> QED BY <1>4, <1>5, <1>6

LEMMA PlacedCollect ==
    ASSUME IslandInvariant, Orderly, NEW p \in Programs, Placed(p), NEW m \in Migrators,
           NEW i \in Islands, Collect(m, i)
    PROVE  Placed(p)'
<1>0. m \in Workers \ {"ingestor"} /\ Shaped /\ Neat(m) /\ OrderlyJobs /\ AllSound
  BY MultiIslandAssumption DEF Workers, IslandInvariant, Orderly, OrderlyJobs
<1>1. /\ Others(m) /\ job[m].at = "collect"
      /\ i \in job[m].left /\ ~Locked(i)
      /\ job'[m].who = job[m].who /\ job'[m].victims = job[m].victims
      /\ UNCHANGED <<arch, state, fit, current, displaced, strayed, hit>>
  BY CollectEffect
<1>2. PICK P \in SUBSET Elites(arch[i]) :
        /\ job'[m].batch = job[m].batch \cup {<<i, Copy(q)>> : q \in P}
        /\ contended' = contended \cup {q \in P : \E n \in Migrators \ {m} :
              q \in Touched(n) \/ \E b \in job[n].batch : b[2].id = q}
  BY CollectEffect
<1>3. Homes(p)' = Homes(p)
  BY <1>1, HomesSame
<1>4. Dead(p)' => Dead(p)
  BY <1>0, <1>1, DeadBefore DEF Condemned
<1>5. job[m].who = None /\ ~Carries(m, p) /\ ~Carries(m, p)'
  BY <1>0, <1>1 DEF Neat, Carries
<1>6. \A b \in job'[m].batch : b \in job[m].batch \/
         \E q \in P : b = <<i, Copy(q)>> /\ b[1] = i /\ b[2].id = q
  BY <1>2 DEF Copy
<1>7. CASE p \in hit' \cup contended' \cup strayed'
  BY <1>7, PlacedExempt
<1>8. CASE p \notin P
  BY <1>0, <1>1, <1>2, <1>3, <1>4, <1>5, <1>6, <1>8, PlacedBystander
<1>9. CASE p \in P /\ p \notin hit' \cup contended' \cup strayed'
  <2>1. p \notin hit \cup contended \cup strayed /\ i \in Homes(p)
    BY <1>0, <1>1, <1>2, <1>9, EliteHome
  <2>2. ASSUME NEW n \in Migrators \ {m} PROVE ~Involved(n, p)
    <3>1. p \notin Touched(n) /\ ~Queued(n, p)
      BY <1>2, <1>9 DEF Queued
    <3> QED BY <1>0, <3>1, CarriedTouched DEF Involved, Workers
  <2>3. ~Carries("ingestor", p)
    <3>1. SUFFICES ASSUME Carries("ingestor", p) PROVE FALSE
      OBVIOUS
    <3>2. state[p] = "new"
      BY <2>1, <3>1 DEF Orderly, Roles
    <3>3. Enforcing(job["ingestor"]) /\ job["ingestor"].dst = i
      BY <2>1, <3>2 DEF Orderly, Fresh
    <3> QED BY <1>1, <3>3 DEF Locked, Enforcing, Workers
  <2>4. Free(p)
    BY <1>5, <2>2, <2>3 DEF Free, Involved, Workers
  <2>5. Homes(p) \subseteq {i} /\ (Dead(p) => Homes(p) = {})
    BY <2>1, <2>4 DEF Placed
  <2>6. ASSUME NEW b \in job[m].batch PROVE b[2].id # p
    <3>1. SUFFICES ASSUME b[2].id = p PROVE FALSE
      OBVIOUS
    <3>2. Homes(p) \subseteq {b[1]}
      BY <2>1, <3>1 DEF Placed, Waiting
    <3> QED BY <1>0, <1>1, <2>1, <3>2 DEF Neat
  <2>7. \A b \in job'[m].batch : b[2].id = p => b = <<i, Copy(p)>> /\ b[1] = i
    BY <1>6, <2>6
  <2>8. \A n \in Migrators \ {m} : ~Queued(n, p)'
    BY <1>1, <2>2 DEF Others, Involved, Queued, Workers
  <2>9. Free(p)'
    BY <1>1, <1>5, <2>4 DEF Free, Others, Carries
  <2>10. \A n \in Migrators : Waiting(n, p)'
    BY <1>3, <1>5, <2>5, <2>7, <2>8 DEF Waiting, Queued
  <2> QED BY <1>3, <1>4, <2>5, <2>9, <2>10 DEF Placed, Free, Workers
<1> QED BY <1>7, <1>8, <1>9

LEMMA PlacedMigration ==
    ASSUME IslandInvariant, Orderly, NEW p \in Programs, Placed(p), NEW m \in Migrators,
           MigrationStep(m)
    PROVE  Placed(p)'
<1>0. m \in Workers \ {"ingestor"} /\ Shaped /\ Neat(m) /\ OrderlyJobs
  BY MultiIslandAssumption DEF Workers, IslandInvariant, Orderly, OrderlyJobs
<1>1. CASE Idling(m)
  <2>1. /\ Others(m) /\ job[m].who = None /\ job'[m].who = None
        /\ job[m].victims = {} /\ job'[m].victims = {}
        /\ job'[m].batch \subseteq job[m].batch
        /\ UNCHANGED <<arch, state, fit, displaced, contended, strayed, hit>>
    BY <1>0, <1>1, IdlingEffect
  <2>2. Homes(p)' = Homes(p) /\ ~Carries(m, p) /\ ~Carries(m, p)'
    BY <2>1, HomesSame DEF Carries
  <2>3. Dead(p)' => Dead(p)
    BY <1>0, <2>1, DeadBefore DEF Condemned
  <2> QED BY <1>0, <2>1, <2>2, <2>3, PlacedBystander
<1>2. CASE Migrate(m)
  BY <1>2, PlacedMigrate
<1>3. CASE RemoveFromSource(m)
  BY <1>3, PlacedRemoval
<1>4. CASE RemoveUnacked(m)
  <2>1. /\ Others(m) /\ job[m].at = "remove" /\ hit' = hit \cup {job[m].who.id}
        /\ UNCHANGED <<state, fit, current, displaced, contended, strayed>>
        /\ p # job[m].who.id => Homes(p)' = Homes(p)
        /\ Kept(m) /\ job'[m].victims = job[m].victims
    BY <1>4, UnackedRemovalEffect
  <2>2. CASE p = job[m].who.id
    BY <2>1, <2>2, PlacedExempt
  <2>3. CASE p # job[m].who.id
    <3>1. ~Carries(m, p) /\ ~Carries(m, p)' /\ job'[m].batch = job[m].batch
      BY <2>1, <2>3 DEF Kept, Carries
    <3>2. Dead(p)' => Dead(p)
      BY <1>0, <2>1, DeadBefore DEF Condemned
    <3> QED BY <1>0, <2>1, <2>3, <3>1, <3>2, PlacedBystander
  <2> QED BY <2>2, <2>3
<1>5. CASE Rollback(m)
  <2>1. /\ Others(m) /\ job[m].at = "rollback" /\ Dropped(m)
        /\ UNCHANGED <<state, fit, current, displaced, contended, strayed, hit>>
        /\ Homes(p)' = IF p = job[m].who.id THEN Homes(p) \ {job[m].dst} ELSE Homes(p)
    BY <1>5, RollbackEffect
  <2>2. ~Carries(m, p)' /\ job'[m].batch \subseteq job[m].batch /\ Condemned(m)' = {}
    BY <2>1 DEF Dropped, Carries, Condemned
  <2>3. Dead(p)' => Dead(p)
    BY <1>0, <2>1, <2>2, DeadBefore
  <2>4. CASE p \in hit \cup contended \cup strayed
    BY <2>1, <2>4, PlacedExempt
  <2>5. CASE ~Carries(m, p)
    BY <1>0, <2>1, <2>2, <2>3, <2>5, PlacedBystander
  <2>6. CASE Carries(m, p) /\ p \notin hit \cup contended \cup strayed
    <3>1. UnderWay(m, p) /\ p = job[m].who.id
      BY <2>6 DEF Placed, Carries
    <3>2. Homes(p)' = {}
      BY <2>1, <3>1 DEF UnderWay
    <3> QED BY <1>0, <2>1, <2>6, <3>2, PlacedReleased
  <2> QED BY <2>4, <2>5, <2>6
<1>6. CASE \E i \in Islands : Collect(m, i)
  BY <1>6, PlacedCollect
<1> QED BY <1>1, <1>2, <1>3, <1>4, <1>5, <1>6, MigratorSplit

LEMMA PlacedNext ==
    ASSUME IslandInvariant, Orderly, NEW p \in Programs, Placed(p), [Next]_vars
    PROVE  Placed(p)'
<1>0. /\ Shaped /\ OrderlyJobs /\ "ingestor" \in Workers /\ Rest
      /\ "ingestor" \notin Migrators /\ Neat("ingestor")
      /\ Fresh(p) /\ Roles(p)
  BY MultiIslandAssumption DEF IslandInvariant, Orderly, OrderlyJobs, Workers
<1>1. ASSUME NEW q \in Programs, Offer(q) PROVE Placed(p)'
  <2> DEFINE w == "ingestor"
  <2>1. /\ Others(w) /\ job[w].at = "idle" /\ state[q] = "new"
        /\ job'[w].at = "add" /\ job'[w].who = Copy(q) /\ job'[w].dst \in Islands
        /\ job'[w].batch = {} /\ job'[w].victims = {}
        /\ UNCHANGED <<arch, state, fit, current, displaced, contended, strayed, hit>>
    BY <1>1, OfferEffect
  <2>2. Homes(p)' = Homes(p) /\ ~Carries(w, p) /\ Copy(q).id = q /\ Condemned(w)' = {}
    BY <1>0, <2>1, HomesSame DEF Neat, Carries, Copy, Condemned
  <2>3. Dead(p)' => Dead(p)
    BY <1>0, <2>1, <2>2, DeadBefore
  <2>4. CASE p # q
    <3>1. ~Carries(w, p)'
      BY <2>1, <2>2, <2>4 DEF Carries
    <3> QED BY <1>0, <2>1, <2>2, <2>3, <3>1, PlacedBystander
  <2>5. CASE p \in hit
    BY <2>1, <2>5, PlacedExempt
  <2>6. CASE p = q /\ p \notin hit
    <3>1. Homes(p) = {}
      BY <1>0, <2>1, <2>2, <2>6 DEF Fresh
    <3>2. Arriving(p)'
      BY <2>2, <3>1 DEF Arriving
    <3>3. \A m \in Migrators : ~Involved(m, p)
      BY <1>0, <2>1, <2>6 DEF Roles
    <3>4. \A m \in Migrators : ~Carries(m, p)' /\ ~Queued(m, p)'
      BY <1>0, <2>1, <3>3 DEF Others, Involved, Carries, Queued, Workers
    <3> QED BY <2>2, <3>1, <3>2, <3>4 DEF Placed, Waiting, Queued
  <2> QED BY <2>4, <2>5, <2>6
<1>2. ASSUME NEW q \in Programs, NoIsland(q) PROVE Placed(p)'
  <2>1. /\ job["ingestor"].at = "idle" /\ state[q] = "new"
        /\ state' = [state EXCEPT ![q] = "DISCARDED"]
        /\ UNCHANGED <<arch, fit, job, contended, hit, strayed>>
    BY <1>2 DEF NoIsland, Reject
  <2>2. /\ Homes(p)' = Homes(p) /\ ~Carries("ingestor", p) /\ ~Carries("ingestor", p)'
        /\ Others("ingestor") /\ Condemned("ingestor")' = Condemned("ingestor")
    BY <1>0, <2>1, HomesSame DEF Neat, Carries, Others, Condemned
  <2>3. CASE p \in hit
    BY <2>1, <2>3, PlacedExempt
  <2>4. CASE p # q
    <3>1. state'[p] = state[p]
      BY <1>0, <2>1, <2>4 DEF Rest
    <3>2. Dead(p)' => Dead(p)
      BY <1>0, <2>2, <3>1, DeadBefore
    <3> QED BY <1>0, <2>1, <2>2, <3>2, PlacedBystander
  <2>5. CASE p = q /\ p \notin hit
    <3>1. Homes(p)' = {}
      BY <1>0, <2>1, <2>2, <2>5 DEF Fresh
    <3>2. \A m \in Migrators : ~Involved(m, p)
      BY <1>0, <2>1, <2>5 DEF Roles
    <3>3. \A m \in Migrators : ~Carries(m, p)' /\ ~Queued(m, p)'
      BY <2>1, <3>2 DEF Involved, Carries, Queued
    <3>4. Free(p)'
      BY <2>2, <3>3 DEF Free, Workers
    <3> QED BY <3>1, <3>3, <3>4, PlacedFree
  <2> QED BY <2>3, <2>4, <2>5
<1>3. ASSUME NEW q \in Programs, Reevaluate(q) PROVE Placed(p)'
  <2>1. hit' = hit \cup {q} /\ UNCHANGED <<arch, state, job, contended, strayed>>
    BY <1>3 DEF Reevaluate
  <2>2. /\ Homes(p)' = Homes(p) /\ Others("ingestor")
        /\ Condemned("ingestor")' = Condemned("ingestor")
    BY <2>1, HomesSame DEF Others, Condemned
  <2>3. Dead(p)' => Dead(p)
    BY <1>0, <2>1, <2>2, DeadBefore
  <2>4. \A v \in Workers : Carries(v, p)' <=> Carries(v, p)
    BY <2>1 DEF Carries
  <2> QED BY <2>1, <2>2, <2>3, <2>4, PlacedStays
<1>4. CASE \E w \in Workers : AddStep(w)
  BY <1>4, PlacedAdd
<1>5. CASE \E m \in Migrators : MigrationStep(m)
  BY <1>5, PlacedMigration
<1>6. CASE CancelAdd
  <2> DEFINE w == "ingestor"
  <2>1. /\ Others(w) /\ Dropped(w) /\ hit \subseteq hit'
        /\ p \notin hit' => ~Carries(w, p) /\ p \notin Condemned(w)
        /\ Homes(p)' = Homes(p)
        /\ UNCHANGED <<arch, state, fit, displaced, contended, strayed>>
    BY <1>0, <1>6, CancelEffect
  <2>2. CASE p \in hit'
    BY <2>2, PlacedExempt
  <2>3. CASE p \notin hit'
    <3>1. ~Carries(w, p)' /\ job'[w].batch \subseteq job[w].batch /\ p \notin Condemned(w)'
      BY <2>1 DEF Dropped, Carries, Condemned
    <3>2. Dead(p)' => Dead(p)
      BY <1>0, <2>1, <3>1, DeadBefore
    <3> QED BY <1>0, <2>1, <2>3, <3>1, <3>2, PlacedBystander
  <2> QED BY <2>2, <2>3
<1>7. CASE Crash
  <2>1. /\ \A w \in Workers : /\ job'[w].who = None
                              /\ job'[w].victims = {} /\ job'[w].batch = {}
        /\ Homes(p)' = Homes(p)
        /\ p \notin hit' => p \notin hit /\ Free(p) /\ ~Victim(p)
        /\ UNCHANGED <<state, contended, strayed>>
    BY <1>0, <1>7, CrashEffect
  <2>2. CASE p \in hit' \cup contended' \cup strayed'
    BY <2>2, PlacedExempt
  <2>3. CASE p \notin hit' \cup contended' \cup strayed'
    <3>1. (\A i, k \in Homes(p) : i = k) /\ (Dead(p) => Homes(p) = {})
      BY <2>1, <2>3 DEF Placed
    <3>2. Dead(p)' => Dead(p)
      BY <2>1 DEF Dead, Victim, Condemned
    <3>3. Free(p)' /\ \A m \in Migrators : ~Queued(m, p)'
      BY <2>1 DEF Free, Carries, Queued, Workers
    <3> QED BY <2>1, <3>1, <3>2, <3>3, PlacedFree
  <2> QED BY <2>2, <2>3
<1>8. CASE UNCHANGED vars
  <2>1. UNCHANGED <<arch, state, job, contended, strayed, hit>>
    BY <1>8 DEF vars
  <2>2. /\ Homes(p)' = Homes(p) /\ (Dead(p)' <=> Dead(p))
        /\ \A v \in Workers : Carries(v, p)' <=> Carries(v, p)
    BY <2>1, HomesSame DEF Dead, Victim, Condemned, Carries
  <2> QED BY <2>1, <2>2, PlacedStays
<1> QED BY <1>1, <1>2, <1>3, <1>4, <1>5, <1>6, <1>7, <1>8 DEF Next

-----------------------------------------------------------------------------
(***************************************************************************)
(* An accepted program that no fault struck, no two migrations carried and *)
(* no better one displaced is held somewhere, unless it is being evicted.  *)
(***************************************************************************)
Moored(m, p) ==
    /\ \E k \in Homes(p) : k # job[m].dst
    /\ job[m].at = "add" <=> job[m].dst \notin Homes(p)

Anchored(p) == p \notin hit \cup contended \cup displaced /\ ~Victim(p) =>
    /\ state[p] = "DONE" /\ Free(p) => Homes(p) # {}
    /\ state[p] = "DONE" => \A m \in Migrators : Carries(m, p) => Moored(m, p)
    /\ Carries("ingestor", p) /\ Enforcing(job["ingestor"]) => job["ingestor"].dst \in Homes(p)

LEMMA StillVictim ==
    ASSUME NEW w \in Workers, Others(w), NEW p, p \in Condemned(w) => p \in Condemned(w)'
    PROVE  Victim(p) => Victim(p)'
  BY DEF Victim, Others, Condemned

LEMMA AnchoredExempt ==
    ASSUME NEW p, p \in hit' \cup contended' \cup displaced' \/ Victim(p)'
    PROVE  Anchored(p)'
  BY DEF Anchored

LEMMA AnchoredStays ==
    ASSUME NEW p \in Programs, Anchored(p), hit \subseteq hit', contended \subseteq contended',
           displaced \subseteq displaced', Victim(p) => Victim(p)', state'[p] = state[p],
           p \notin displaced' => Homes(p)' = Homes(p),
           \A v \in Workers :
              \/ ~Carries(v, p) /\ ~Carries(v, p)'
              \/ /\ Carries(v, p) /\ Carries(v, p)' /\ job'[v].dst = job[v].dst
                 /\ job'[v].at = "add" <=> job[v].at = "add"
                 /\ v = "ingestor" /\ Enforcing(job'[v]) => Enforcing(job[v])
    PROVE  Anchored(p)'
<1> SUFFICES ASSUME p \notin hit' \cup contended' \cup displaced', ~Victim(p)'
             PROVE  /\ state'[p] = "DONE" /\ Free(p)' => Homes(p)' # {}
                    /\ state'[p] = "DONE" =>
                          \A m \in Migrators : Carries(m, p)' => Moored(m, p)'
                    /\ Carries("ingestor", p)' /\ Enforcing(job'["ingestor"]) =>
                          job'["ingestor"].dst \in Homes(p)'
  BY DEF Anchored, Enforcing
<1>1. /\ state[p] = "DONE" /\ Free(p) => Homes(p) # {}
      /\ state[p] = "DONE" => \A m \in Migrators : Carries(m, p) => Moored(m, p)
      /\ Carries("ingestor", p) /\ Enforcing(job["ingestor"]) =>
            job["ingestor"].dst \in Homes(p)
  BY DEF Anchored
<1>2. Free(p)' => Free(p)
  BY DEF Free
<1>3. ASSUME NEW m \in Migrators, Carries(m, p)', state[p] = "DONE" PROVE Moored(m, p)'
  <2>1. /\ m \in Workers /\ Carries(m, p) /\ job'[m].dst = job[m].dst
        /\ job'[m].at = "add" <=> job[m].at = "add"
    BY <1>3 DEF Workers
  <2> QED BY <1>1, <1>3, <2>1 DEF Moored
<1>4. "ingestor" \in Workers
  BY DEF Workers
<1> QED BY <1>1, <1>2, <1>3, <1>4

LEMMA AnchoredBystander ==
    ASSUME NEW p \in Programs, Anchored(p), hit \subseteq hit', contended \subseteq contended',
           displaced \subseteq displaced', NEW w \in Workers, Others(w),
           ~Carries(w, p), ~Carries(w, p)', state'[p] = state[p],
           p \notin displaced' => Homes(p)' = Homes(p),
           p \in Condemned(w) => p \in Condemned(w)'
    PROVE  Anchored(p)'
<1>1. Victim(p) => Victim(p)'
  BY StillVictim
<1>2. \A v \in Workers :
         \/ ~Carries(v, p) /\ ~Carries(v, p)'
         \/ /\ Carries(v, p) /\ Carries(v, p)' /\ job'[v].dst = job[v].dst
            /\ job'[v].at = "add" <=> job[v].at = "add"
            /\ v = "ingestor" /\ Enforcing(job'[v]) => Enforcing(job[v])
  BY DEF Others, Carries
<1> QED BY <1>1, <1>2, AnchoredStays

LEMMA AnchoredKeeper ==
    ASSUME NEW p \in Programs, Anchored(p), hit \subseteq hit', contended \subseteq contended',
           displaced \subseteq displaced', NEW w \in Workers, Others(w), Kept(w),
           job[w].at # "add", job'[w].at # "add",
           w = "ingestor" => Enforcing(job[w]),
           state'[p] = state[p], Homes(p)' = Homes(p),
           p \in Condemned(w) => p \in Condemned(w)'
    PROVE  Anchored(p)'
<1>1. Victim(p) => Victim(p)'
  BY StillVictim
<1>2. \A v \in Workers :
         \/ ~Carries(v, p) /\ ~Carries(v, p)'
         \/ /\ Carries(v, p) /\ Carries(v, p)' /\ job'[v].dst = job[v].dst
            /\ job'[v].at = "add" <=> job[v].at = "add"
            /\ v = "ingestor" /\ Enforcing(job'[v]) => Enforcing(job[v])
  BY DEF Others, Kept, Carries
<1> QED BY <1>1, <1>2, AnchoredStays

LEMMA AnchoredReleased ==
    ASSUME Orderly, NEW p \in Programs, p \notin hit \cup contended,
           NEW w \in Workers, Others(w), Dropped(w), Carries(w, p),
           state'[p] = "DONE" => Homes(p)' # {}
    PROVE  Anchored(p)'
<1>1. \A v \in Workers \ {w} : ~Carries(v, p)
  BY SoleCarrier
<1>2. \A v \in Workers : ~Carries(v, p)'
  BY <1>1 DEF Others, Dropped, Carries
<1> QED BY <1>2 DEF Anchored, Workers

\* A migrant under way: what the rest of the proof needs to know of it.
LEMMA AnchoredMigrant ==
    ASSUME Orderly, NEW p \in Programs, NEW m \in Migrators, Carries(m, p),
           Anchored(p), p \notin hit \cup contended \cup displaced, ~Victim(p)
    PROVE  /\ state[p] = "DONE" => Moored(m, p)
           /\ \A v \in Workers \ {m} : ~Carries(v, p)
           /\ job[m].who.src # job[m].dst
<1>1. m \in Workers \ {"ingestor"} /\ Neat(m)
  BY MultiIslandAssumption DEF Workers, Orderly, OrderlyJobs
<1>2. \A v \in Workers \ {m} : ~Carries(v, p)
  BY <1>1, SoleCarrier
<1> QED BY <1>1, <1>2 DEF Anchored, Neat, Carries

LEMMA AnchoredSettle ==
    ASSUME IslandInvariant, Orderly, NEW p \in Programs, Anchored(p), NEW w \in Workers,
           Discard(w) \/ (Stamp(w) /\ ~OverLimit(arch[job[w].dst]))
    PROVE  Anchored(p)'
<1>1. /\ Others(w) /\ Finishing(w) /\ job[w].at \in {"stamp", "discard"}
      /\ UNCHANGED <<arch, fit, displaced, contended, strayed, hit>>
      /\ Homes(p)' = Homes(p)
      /\ state'[p] = IF p \in Condemned(w) THEN "DISCARDED"
                     ELSE IF Accepted(w, p) THEN "DONE" ELSE state[p]
  BY SettleEffect
<1>2. Fresh(p) /\ Roles(p)
  BY DEF Orderly
<1>3. CASE p \in hit' \cup contended' \cup displaced' \/ Victim(p)'
  BY <1>3, AnchoredExempt
<1>4. CASE p \notin hit /\ p \in Condemned(w)
  <2>1. state'[p] = "DISCARDED"
    BY <1>1, <1>4
  <2>2. ~Carries("ingestor", p)'
    <3>1. CASE w = "ingestor"
      BY <1>1, <3>1 DEF Finishing, Dropped, Carries
    <3>2. CASE w # "ingestor"
      <4>1. ~Carries("ingestor", p)
        BY <1>2, <1>4, <3>2 DEF Fresh, Roles
      <4> QED BY <1>1, <3>2, <4>1 DEF Others, Carries, Workers
    <3> QED BY <3>1, <3>2
  <2> QED BY <2>1, <2>2 DEF Anchored
<1>5. CASE /\ p \notin hit' \cup contended' \cup displaced' /\ ~Victim(p)'
           /\ p \notin Condemned(w)
  <2>1. p \notin hit \cup contended \cup displaced /\ ~Victim(p)
    BY <1>1, <1>5, StillVictim
  <2>2. CASE ~Carries(w, p)
    <3>1. ~Carries(w, p)' /\ ~Accepted(w, p)
      <4>1. ~Carries(w, p)'
        BY <1>1, <2>2 DEF Finishing, Dropped, Kept, Carries
      <4>2. ~Accepted(w, p)
        BY <1>1, <2>2, NeatSome DEF Accepted, Carries, Orderly, OrderlyJobs, Neat
      <4> QED BY <4>1, <4>2
    <3> QED BY <1>1, <1>5, <2>2, <3>1, AnchoredBystander
  <2>3. CASE Carries(w, p) /\ w = "ingestor"
    <3>1. Dropped(w)
      BY <1>1, <2>3 DEF Finishing
    <3>2. Homes(p)' # {}
      BY <1>1, <2>1, <2>3 DEF Anchored, Enforcing
    <3> QED BY <1>1, <2>1, <2>3, <3>1, <3>2, AnchoredReleased
  <2>4. CASE Carries(w, p) /\ w # "ingestor"
    <3>1. w \in Migrators /\ ~Accepted(w, p)
      BY <2>4 DEF Workers, Accepted
    <3>2. state[p] = "DONE" => Moored(w, p)
      BY <2>1, <2>4, <3>1, AnchoredMigrant
    <3>3. CASE Dropped(w)
      <4>1. state'[p] = "DONE" => Homes(p)' # {}
        BY <1>1, <1>5, <3>1, <3>2 DEF Moored
      <4> QED BY <1>1, <2>1, <2>4, <3>3, <4>1, AnchoredReleased
    <3>4. CASE ~Dropped(w)
      <4>1. Kept(w) /\ job'[w].at = "remove"
        BY <1>1, <3>4 DEF Finishing
      <4> QED BY <1>1, <1>5, <2>4, <3>1, <4>1, AnchoredKeeper
    <3> QED BY <3>3, <3>4
  <2> QED BY <2>2, <2>3, <2>4
<1> QED BY <1>1, <1>3, <1>4, <1>5

LEMMA AnchoredAdd ==
    ASSUME IslandInvariant, Orderly, NEW p \in Programs, Anchored(p), NEW w \in Workers,
           AddStep(w)
    PROVE  Anchored(p)'
<1>0. /\ Shaped /\ AllSound /\ Rest /\ OrderlyJobs /\ Neat(w) /\ Roles(p)
  BY DEF IslandInvariant, Orderly, OrderlyJobs
<1>1. CASE AddAgain(w) \/ AddElite(w)
  <2>1. /\ Others(w) /\ Kept(w) /\ job[w].at = "add" /\ job'[w].at = "stamp"
        /\ job'[w].victims = {} /\ job[w].victims = {} /\ job[w].who # None
        /\ UNCHANGED <<state, fit, current, contended, strayed, hit>>
        /\ displaced \subseteq displaced'
    BY <1>1, AddEffect
  <2>2. IF p = job[w].who.id
        THEN /\ Homes(p) \subseteq Homes(p)'
             /\ p \notin hit => job[w].dst \in Homes(p)'
        ELSE p \notin displaced' => Homes(p)' = Homes(p)
    BY <1>1, AddEffect
  <2>3. CASE p \in hit' \cup contended' \cup displaced' \/ Victim(p)'
    BY <2>3, AnchoredExempt
  <2>4. CASE p # job[w].who.id
    <3>1. ~Carries(w, p) /\ ~Carries(w, p)' /\ p \notin Condemned(w)
      BY <2>1, <2>4 DEF Kept, Carries, Condemned
    <3> QED BY <2>1, <2>2, <2>4, <3>1, AnchoredBystander
  <2>5. CASE /\ p = job[w].who.id /\ p \notin hit' \cup contended' \cup displaced'
             /\ ~Victim(p)'
    <3>1. /\ p \notin hit \cup contended \cup displaced /\ ~Victim(p)
          /\ Carries(w, p) /\ Carries(w, p)'
      BY <2>1, <2>5, StillVictim DEF Condemned, Kept, Carries
    <3>2. \A v \in Workers \ {w} : ~Carries(v, p)'
      BY <2>1, <3>1, SoleCarrier DEF Others, Carries
    <3>3. ~Free(p)' /\ job'[w].dst \in Homes(p)'
      BY <2>1, <2>2, <2>5, <3>1 DEF Free, Kept
    <3>4. CASE w = "ingestor"
      <4>1. state'[p] = "new"
        BY <1>0, <2>1, <3>1, <3>4 DEF Roles
      <4> QED BY <3>3, <3>4, <4>1 DEF Anchored
    <3>5. CASE w # "ingestor"
      <4>1. w \in Migrators
        BY <3>5 DEF Workers
      <4>2. state[p] = "DONE" => Moored(w, p)
        BY <3>1, <4>1, AnchoredMigrant
      <4>3. state'[p] = "DONE" => Moored(w, p)'
        BY <2>1, <2>2, <2>5, <3>3, <4>2 DEF Moored, Kept
      <4>4. ~Carries("ingestor", p)' /\ \A m \in Migrators : Carries(m, p)' => m = w
        BY <3>2, <3>5 DEF Workers
      <4> QED BY <3>3, <4>3, <4>4 DEF Anchored
    <3> QED BY <3>4, <3>5
  <2> QED BY <2>3, <2>4, <2>5
<1>2. CASE AddRejected(w)
  <2>1. /\ Others(w) /\ Dropped(w) /\ job[w].at = "add"
        /\ UNCHANGED <<arch, fit, current, displaced, contended, strayed, hit>>
        /\ state'[p] = IF w = "ingestor" /\ p = job[w].who.id THEN "DISCARDED" ELSE state[p]
        /\ Homes(p)' = Homes(p)
    BY <1>2, RejectedEffect
  <2>2. ~Carries(w, p)' /\ Condemned(w) = {}
    BY <1>0, <2>1 DEF Dropped, Carries, Condemned, Neat
  <2>3. CASE p \in hit' \cup contended' \cup displaced' \/ Victim(p)'
    BY <2>3, AnchoredExempt
  <2>4. CASE ~Carries(w, p)
    <3>1. state'[p] = state[p]
      BY <1>0, <2>1, <2>4, NeatSome DEF Carries
    <3> QED BY <2>1, <2>2, <2>4, <3>1, AnchoredBystander
  <2>5. CASE /\ Carries(w, p) /\ p \notin hit' \cup contended' \cup displaced'
             /\ ~Victim(p)'
    <3>1. p \notin hit \cup contended \cup displaced /\ ~Victim(p)
      BY <2>1, <2>2, <2>5, StillVictim
    <3>2. state'[p] = "DONE" => Homes(p)' # {}
      <4>1. CASE w = "ingestor"
        BY <2>1, <2>5, <4>1 DEF Carries
      <4>2. CASE w # "ingestor"
        <5>1. w \in Migrators
          BY <4>2 DEF Workers
        <5>2. state[p] = "DONE" => Moored(w, p)
          BY <2>5, <3>1, <5>1, AnchoredMigrant
        <5> QED BY <2>1, <4>2, <5>2 DEF Moored
      <4> QED BY <4>1, <4>2
    <3> QED BY <2>1, <2>5, <3>1, <3>2, AnchoredReleased
  <2> QED BY <2>3, <2>4, <2>5
<1>3. CASE AddUnacked(w)
  <2>1. /\ Others(w) /\ Dropped(w) /\ hit' = hit \cup {job[w].who.id} /\ job[w].at = "add"
        /\ UNCHANGED <<fit, current, contended, strayed>> /\ displaced \subseteq displaced'
        /\ p # job[w].who.id => state'[p] = state[p]
        /\ p # job[w].who.id /\ p \notin displaced' => Homes(p)' = Homes(p)
    BY <1>3, UnackedEffect
  <2>2. CASE p = job[w].who.id
    BY <2>1, <2>2, AnchoredExempt
  <2>3. CASE p # job[w].who.id
    <3>1. ~Carries(w, p) /\ ~Carries(w, p)' /\ p \notin Condemned(w)
      BY <1>0, <2>1, <2>3 DEF Dropped, Carries, Condemned, Neat
    <3> QED BY <2>1, <2>3, <3>1, AnchoredBystander
  <2> QED BY <2>2, <2>3
<1>4. CASE Stamp(w) /\ OverLimit(arch[job[w].dst])
  <2>1. /\ job[w].at = "stamp" /\ Hold(w, "evict")
        /\ UNCHANGED <<arch, state, fit, displaced, contended, strayed, hit>>
    BY <1>4 DEF Stamp
  <2>2. Others(w) /\ Kept(w) /\ job'[w].at = "evict" /\ Condemned(w)' = Condemned(w)
    BY <1>0, <2>1, HoldKeeps DEF Condemned
  <2> QED BY <2>1, <2>2, HomesSame, AnchoredKeeper DEF Enforcing
<1>5. CASE Evict(w)
  <2>1. /\ Others(w) /\ Kept(w) /\ job[w].at = "evict" /\ job'[w].at = "discard"
        /\ UNCHANGED <<state, fit, current, displaced, contended, strayed, hit>>
    BY <1>5, EvictEffect
  <2>2. PICK V \in SUBSET Elites(arch[job[w].dst]) :
          /\ Condemned(w)' = V
          /\ \A q \in Programs :
                Homes(q)' = IF q \in V THEN Homes(q) \ {job[w].dst} ELSE Homes(q)
    BY <1>5, EvictEffect
  <2>3. CASE p \in V
    BY <2>2, <2>3, AnchoredExempt DEF Victim
  <2>4. CASE p \notin V
    <3>1. p \notin Condemned(w)
      BY <1>0, <2>1 DEF Neat, Condemned
    <3> QED BY <2>1, <2>2, <2>4, <3>1, AnchoredKeeper DEF Enforcing
  <2> QED BY <2>3, <2>4
<1>6. CASE Discard(w) \/ (Stamp(w) /\ ~OverLimit(arch[job[w].dst]))
  BY <1>6, AnchoredSettle
<1> QED BY <1>1, <1>2, <1>3, <1>4, <1>5, <1>6 DEF AddStep

\* An island would not take a migrant it already holds: the entry is in the
\* migrant's own cell and has its own fitness.
LEMMA NotRoutedHome ==
    ASSUME IslandInvariant, Orderly, NEW x \in Copies, NEW S, NEW i \in Islands,
           x.id \notin hit, x.fit = fit[x.id], i \in Routes(x, S)
    PROVE  i \notin Homes(x.id)
<1>1. SUFFICES ASSUME x.id \in Stored(arch[i]) PROVE FALSE
  BY DEF Homes
<1>2. PICK c \in Cells : arch[i].hash[c] = x.id
  BY <1>1 DEF Stored
<1>3. x.id \in Programs /\ x.id # None /\ Sound(arch[i], hit) /\ Truthful(arch[i], i, hit, fit)
  BY ArchiveAssumption DEF Copies, IslandInvariant, AllSound, Orderly, Genuine
<1>4. c = CellOf[i][x.id] /\ arch[i].cache[c].fit = x.fit
  BY <1>2, <1>3 DEF Truthful
<1>5. arch[i].cache[c] # None
  BY <1>2, <1>3 DEF Sound, Mirrors
<1>6. x.fit > arch[i].cache[c].fit
  BY <1>4, <1>5 DEF Routes, Improves
<1>7. x.fit \in Nat
  BY ArchiveAssumption DEF Copies
<1> QED BY <1>4, <1>6, <1>7

LEMMA AnchoredMigrate ==
    ASSUME IslandInvariant, Orderly, NEW p \in Programs, Anchored(p), NEW m \in Migrators,
           Migrate(m)
    PROVE  Anchored(p)'
<1>0. m \in Workers \ {"ingestor"} /\ Shaped /\ Neat(m) /\ Current(m) /\ Roles(p) /\ Alone(p)
  BY MultiIslandAssumption DEF Workers, IslandInvariant, Orderly, OrderlyJobs
<1>1. /\ Others(m) /\ job[m].at = "next" /\ job'[m].at = "add"
      /\ UNCHANGED <<arch, state, fit, current, displaced, contended, hit>>
      /\ job'[m].victims = job[m].victims
  BY MigrateEffect
<1>2. PICK b \in job[m].batch :
        /\ job'[m].who = b[2] /\ job'[m].batch = job[m].batch \ {b}
        /\ b[1] \in Islands /\ b[2] \in Copies
        /\ job'[m].dst \in Routes(b[2], Islands \ {b[2].src})
  BY MigrateEffect
<1>3. Homes(p)' = Homes(p) /\ Condemned(m)' = Condemned(m)
  BY <1>1, HomesSame DEF Condemned
<1>4. job[m].who = None /\ b[2] # None
  BY <1>0, <1>1, <1>2, CopyIsSome DEF Neat
<1>5. CASE p \in hit' \cup contended' \cup displaced' \/ Victim(p)'
  BY <1>5, AnchoredExempt
<1>6. CASE p # b[2].id
  <2>1. ~Carries(m, p) /\ ~Carries(m, p)'
    BY <1>2, <1>4, <1>6 DEF Carries
  <2> QED BY <1>0, <1>1, <1>3, <2>1, AnchoredBystander
<1>7. CASE p = b[2].id /\ p \notin hit' \cup contended' \cup displaced' /\ ~Victim(p)'
  <2>1. p \notin hit \cup contended \cup displaced /\ ~Victim(p)
    BY <1>0, <1>1, <1>3, <1>7, StillVictim
  <2>2. Involved(m, p)
    BY <1>2, <1>7 DEF Involved, Queued
  <2>3. \A v \in Workers : ~Carries(v, p)
    BY <1>0, <1>4, <2>1, <2>2, SoleCarrier DEF Involved, Carries, Workers
  <2>4. \A v \in Workers \ {m} : ~Carries(v, p)'
    BY <1>1, <2>3 DEF Others, Carries
  <2>5. job'[m].dst \in Islands /\ b[2].fit = fit[b[2].id]
    BY <1>0, <1>2, <1>7, <2>1 DEF Routes, Current
  <2>6. job'[m].dst \notin Homes(p)
    BY <1>2, <1>7, <2>1, <2>5, NotRoutedHome
  <2>7. state[p] = "DONE" => Homes(p) # {}
    BY <2>1, <2>3 DEF Anchored, Free
  <2>8. state'[p] = "DONE" => Moored(m, p)'
    BY <1>1, <1>3, <2>6, <2>7 DEF Moored
  <2>9. Carries(m, p)'
    BY <1>2, <1>4, <1>7 DEF Carries
  <2> QED BY <1>0, <2>4, <2>8, <2>9 DEF Anchored, Free, Workers
<1> QED BY <1>5, <1>6, <1>7

LEMMA AnchoredMigration ==
    ASSUME IslandInvariant, Orderly, NEW p \in Programs, Anchored(p), NEW m \in Migrators,
           MigrationStep(m)
    PROVE  Anchored(p)'
<1>0. m \in Workers \ {"ingestor"} /\ Shaped /\ Neat(m) /\ OrderlyJobs
  BY MultiIslandAssumption DEF Workers, IslandInvariant, Orderly, OrderlyJobs
<1>1. CASE Idling(m)
  <2>1. /\ Others(m) /\ job[m].who = None /\ job'[m].who = None /\ job[m].victims = {}
        /\ UNCHANGED <<arch, state, fit, displaced, contended, strayed, hit>>
    BY <1>0, <1>1, IdlingEffect
  <2>2. Homes(p)' = Homes(p) /\ ~Carries(m, p) /\ ~Carries(m, p)' /\ p \notin Condemned(m)
    BY <2>1, HomesSame DEF Carries, Condemned
  <2> QED BY <1>0, <2>1, <2>2, AnchoredBystander
<1>2. CASE Migrate(m)
  BY <1>2, AnchoredMigrate
<1>3. CASE RemoveFromSource(m)
  <2>1. /\ Others(m) /\ job[m].at = "remove" /\ job[m].who.src \in Islands
        /\ UNCHANGED <<state, fit, current, displaced, contended, strayed, hit>>
        /\ Homes(p)' = IF p = job[m].who.id THEN Homes(p) \ {job[m].who.src} ELSE Homes(p)
        /\ IF job[m].who.src \in Homes(job[m].who.id)
           THEN Dropped(m)
           ELSE Kept(m) /\ job'[m].at = "rollback" /\ job'[m].victims = job[m].victims
    BY <1>3, RemovalEffect
  <2>2. job[m].who # None /\ p \notin Condemned(m)
    BY <1>0, <2>1, NeatSome DEF Neat, Condemned
  <2>3. CASE p \in hit' \cup contended' \cup displaced' \/ Victim(p)'
    BY <2>3, AnchoredExempt
  <2>4. CASE p # job[m].who.id
    <3>1. ~Carries(m, p) /\ ~Carries(m, p)'
      BY <2>1, <2>4 DEF Carries, Kept, Dropped
    <3> QED BY <1>0, <2>1, <2>2, <2>4, <3>1, AnchoredBystander
  <2>5. CASE /\ p = job[m].who.id /\ p \notin hit' \cup contended' \cup displaced'
             /\ ~Victim(p)'
    <3>1. p \notin hit \cup contended \cup displaced /\ ~Victim(p) /\ Carries(m, p)
      BY <1>0, <2>1, <2>2, <2>5, StillVictim DEF Carries
    <3>2. (state[p] = "DONE" => Moored(m, p)) /\ job[m].who.src # job[m].dst
      BY <3>1, AnchoredMigrant
    <3>3. CASE job[m].who.src \in Homes(p)
      <4>1. Dropped(m) /\ (state'[p] = "DONE" => Homes(p)' # {})
        BY <2>1, <2>5, <3>2, <3>3 DEF Moored
      <4> QED BY <1>0, <2>1, <3>1, <4>1, AnchoredReleased
    <3>4. CASE job[m].who.src \notin Homes(p)
      <4>1. Kept(m) /\ job'[m].at = "rollback" /\ Homes(p)' = Homes(p)
        BY <2>1, <2>5, <3>4
      <4> QED BY <1>0, <2>1, <2>2, <4>1, AnchoredKeeper
    <3> QED BY <3>3, <3>4
  <2> QED BY <2>3, <2>4, <2>5
<1>4. CASE RemoveUnacked(m)
  <2>1. /\ Others(m) /\ job[m].at = "remove" /\ hit' = hit \cup {job[m].who.id}
        /\ UNCHANGED <<state, fit, current, displaced, contended, strayed>>
        /\ p # job[m].who.id => Homes(p)' = Homes(p)
        /\ Kept(m) /\ job'[m].victims = job[m].victims
    BY <1>4, UnackedRemovalEffect
  <2>2. CASE p = job[m].who.id
    BY <2>1, <2>2, AnchoredExempt
  <2>3. CASE p # job[m].who.id
    <3>1. ~Carries(m, p) /\ ~Carries(m, p)' /\ Condemned(m)' = Condemned(m)
      BY <2>1, <2>3 DEF Kept, Carries, Condemned
    <3> QED BY <1>0, <2>1, <2>3, <3>1, AnchoredBystander
  <2> QED BY <2>2, <2>3
<1>5. CASE Rollback(m)
  <2>1. /\ Others(m) /\ job[m].at = "rollback" /\ Dropped(m)
        /\ UNCHANGED <<state, fit, current, displaced, contended, strayed, hit>>
        /\ Homes(p)' = IF p = job[m].who.id THEN Homes(p) \ {job[m].dst} ELSE Homes(p)
    BY <1>5, RollbackEffect
  <2>2. ~Carries(m, p)' /\ p \notin Condemned(m) /\ job[m].who # None
    BY <1>0, <2>1, NeatSome DEF Dropped, Carries, Condemned, Neat
  <2>3. CASE p \in hit' \cup contended' \cup displaced' \/ Victim(p)'
    BY <2>3, AnchoredExempt
  <2>4. CASE p # job[m].who.id
    <3>1. ~Carries(m, p)
      BY <2>4 DEF Carries
    <3> QED BY <1>0, <2>1, <2>2, <2>4, <3>1, AnchoredBystander
  <2>5. CASE /\ p = job[m].who.id /\ p \notin hit' \cup contended' \cup displaced'
             /\ ~Victim(p)'
    <3>1. p \notin hit \cup contended \cup displaced /\ ~Victim(p) /\ Carries(m, p)
      BY <1>0, <2>1, <2>2, <2>5, StillVictim DEF Carries
    <3>2. state[p] = "DONE" => Moored(m, p)
      BY <3>1, AnchoredMigrant
    <3>3. state'[p] = "DONE" => Homes(p)' # {}
      BY <2>1, <2>5, <3>2 DEF Moored
    <3> QED BY <1>0, <2>1, <3>1, <3>3, AnchoredReleased
  <2> QED BY <2>3, <2>4, <2>5
<1>6. CASE \E i \in Islands : Collect(m, i)
  <2>0. PICK i \in Islands : Collect(m, i)
    BY <1>6
  <2>1. /\ Others(m) /\ job[m].at = "collect"
        /\ job'[m].who = job[m].who /\ job'[m].victims = job[m].victims
        /\ UNCHANGED <<arch, state, fit, current, displaced, strayed, hit>>
        /\ contended \subseteq contended'
    BY <2>0, CollectEffect
  <2>2. /\ Homes(p)' = Homes(p) /\ ~Carries(m, p) /\ ~Carries(m, p)'
        /\ Condemned(m)' = Condemned(m)
    BY <1>0, <2>1, HomesSame DEF Neat, Carries, Condemned
  <2> QED BY <1>0, <2>1, <2>2, AnchoredBystander
<1> QED BY <1>1, <1>2, <1>3, <1>4, <1>5, <1>6, MigratorSplit

LEMMA AnchoredNext ==
    ASSUME IslandInvariant, Orderly, NEW p \in Programs, Anchored(p), [Next]_vars
    PROVE  Anchored(p)'
<1>0. /\ Shaped /\ OrderlyJobs /\ "ingestor" \in Workers /\ Rest
      /\ "ingestor" \notin Migrators /\ Neat("ingestor")
  BY MultiIslandAssumption DEF IslandInvariant, Orderly, OrderlyJobs, Workers
<1>1. ASSUME NEW q \in Programs, Offer(q) PROVE Anchored(p)'
  <2> DEFINE w == "ingestor"
  <2>1. /\ Others(w) /\ job[w].at = "idle" /\ state[q] = "new"
        /\ job'[w].at = "add" /\ job'[w].who = Copy(q)
        /\ UNCHANGED <<arch, state, fit, current, displaced, contended, strayed, hit>>
    BY <1>1, OfferEffect
  <2>2. /\ Homes(p)' = Homes(p) /\ ~Carries(w, p) /\ Copy(q).id = q /\ p \notin Condemned(w)
    BY <1>0, <2>1, HomesSame DEF Neat, Carries, Copy, Condemned
  <2>3. CASE p # q
    <3>1. ~Carries(w, p)'
      BY <2>1, <2>2, <2>3 DEF Carries
    <3> QED BY <1>0, <2>1, <2>2, <3>1, AnchoredBystander
  <2>4. CASE p = q
    BY <2>1, <2>4 DEF Anchored, Enforcing
  <2> QED BY <2>3, <2>4
<1>2. ASSUME NEW q \in Programs, NoIsland(q) PROVE Anchored(p)'
  <2>1. /\ job["ingestor"].at = "idle"
        /\ state' = [state EXCEPT ![q] = "DISCARDED"]
        /\ UNCHANGED <<arch, fit, job, displaced, contended, hit>>
    BY <1>2 DEF NoIsland, Reject
  <2>2. /\ Homes(p)' = Homes(p) /\ ~Carries("ingestor", p) /\ ~Carries("ingestor", p)'
        /\ Others("ingestor") /\ Condemned("ingestor")' = Condemned("ingestor")
    BY <1>0, <2>1, HomesSame DEF Neat, Carries, Others, Condemned
  <2>3. CASE p # q
    <3>1. state'[p] = state[p]
      BY <1>0, <2>1, <2>3 DEF Rest
    <3> QED BY <1>0, <2>1, <2>2, <3>1, AnchoredBystander
  <2>4. CASE p = q
    <3>1. state'[p] = "DISCARDED"
      BY <1>0, <2>1, <2>4 DEF Rest
    <3> QED BY <2>2, <3>1 DEF Anchored
  <2> QED BY <2>3, <2>4
<1>3. ASSUME NEW q \in Programs, Reevaluate(q) PROVE Anchored(p)'
  <2>1. hit' = hit \cup {q} /\ UNCHANGED <<arch, state, job, displaced, contended>>
    BY <1>3 DEF Reevaluate
  <2>2. /\ Homes(p)' = Homes(p) /\ (Victim(p)' <=> Victim(p))
        /\ \A v \in Workers : Carries(v, p)' <=> Carries(v, p)
    BY <2>1, HomesSame DEF Victim, Condemned, Carries
  <2> QED BY <2>1, <2>2, AnchoredStays
<1>4. CASE \E w \in Workers : AddStep(w)
  BY <1>4, AnchoredAdd
<1>5. CASE \E m \in Migrators : MigrationStep(m)
  BY <1>5, AnchoredMigration
<1>6. CASE CancelAdd
  <2> DEFINE w == "ingestor"
  <2>1. /\ Others(w) /\ Dropped(w) /\ hit \subseteq hit'
        /\ p \notin hit' => ~Carries(w, p) /\ p \notin Condemned(w)
        /\ Homes(p)' = Homes(p)
        /\ UNCHANGED <<arch, state, fit, displaced, contended, strayed>>
    BY <1>0, <1>6, CancelEffect
  <2>2. CASE p \in hit'
    BY <2>2, AnchoredExempt
  <2>3. CASE p \notin hit'
    <3>1. ~Carries(w, p)'
      BY <2>1 DEF Dropped, Carries
    <3> QED BY <1>0, <2>1, <2>3, <3>1, AnchoredBystander
  <2> QED BY <2>2, <2>3
<1>7. CASE Crash
  <2>1. /\ \A w \in Workers : job'[w].who = None
        /\ Homes(p)' = Homes(p)
        /\ p \notin hit' => p \notin hit /\ Free(p) /\ ~Victim(p)
        /\ UNCHANGED <<state, displaced, contended>>
    BY <1>0, <1>7, CrashEffect
  <2>2. \A w \in Workers : ~Carries(w, p)'
    BY <2>1 DEF Carries
  <2> QED BY <2>1, <2>2 DEF Anchored, Workers
<1>8. CASE UNCHANGED vars
  <2>1. UNCHANGED <<arch, state, job, displaced, contended, hit>>
    BY <1>8 DEF vars
  <2>2. /\ Homes(p)' = Homes(p) /\ (Victim(p)' <=> Victim(p))
        /\ \A v \in Workers : Carries(v, p)' <=> Carries(v, p)
    BY <2>1, HomesSame DEF Victim, Condemned, Carries
  <2> QED BY <2>1, <2>2, AnchoredStays
<1> QED BY <1>1, <1>2, <1>3, <1>4, <1>5, <1>6, <1>7, <1>8 DEF Next

-----------------------------------------------------------------------------
(***************************************************************************)
(* The theorems.                                                           *)
(***************************************************************************)
Homed == \A p \in Programs : Placed(p) /\ Anchored(p)

LEMMA HomedInit == Init => Homed
<1> SUFFICES ASSUME Init, NEW p \in Programs PROVE Placed(p) /\ Anchored(p)
  BY DEF Homed
<1>1. \A w \in Workers : job[w].who = None /\ job[w].victims = {} /\ job[w].batch = {}
  BY IdleFields DEF Init
<1>2. \A i \in Islands, c \in Cells : arch[i].hash[c] = None
  BY DEF Init, Empty
<1>3. Homes(p) = {} /\ state[p] = "new"
  BY <1>2 DEF Homes, Stored, Init
<1>4. \A w \in Workers : ~Carries(w, p)
  BY <1>1 DEF Carries
<1>5. \A m \in Migrators : Waiting(m, p)
  BY <1>1 DEF Waiting, Workers
<1> QED BY <1>3, <1>4, <1>5 DEF Placed, Anchored, Workers

LEMMA HomedAlways == Spec => [](Orderly /\ Homed)
<1>1. Init => Orderly /\ Homed
  BY OrderlyInit, HomedInit
<1>2. ASSUME IslandInvariant, Orderly, Homed, [Next]_vars PROVE Orderly' /\ Homed'
  <2>1. Orderly'
    BY <1>2, OrderlyNext
  <2>2. \A p \in Programs : Placed(p)' /\ Anchored(p)'
    BY <1>2, PlacedNext, AnchoredNext DEF Homed
  <2> QED BY <2>1, <2>2 DEF Homed
<1> QED BY <1>1, <1>2, IslandAlways, PTL DEF Spec

\* A program nobody works on is carried by nobody and nobody's victim.
LEMMA RestIsFree ==
    ASSUME Orderly, NEW p, AtRest(p)
    PROVE  Free(p) /\ ~Victim(p)
<1>1. \A w \in Workers : ~Carries(w, p) /\ p \notin Condemned(w)
  BY CarriedTouched DEF Orderly, AtRest
<1> QED BY <1>1 DEF Free, Victim

\* However adds, migrations, evictions, crashes and lost answers interleave
\* (MapElitesMultiIsland._perform_migration, MapElitesIsland.add), a program that
\* nobody is working on is in at most one archive, unless a fault struck it, two
\* migrations carried it at once, or its copy named an island it had left.
THEOREM NoDuplicates == Spec => []OneIsland
<1>1. ASSUME Orderly, Homed PROVE OneIsland
  <2> SUFFICES ASSUME NEW p \in Settled PROVE Cardinality(Homes(p)) <= 1
    BY DEF OneIsland
  <2>1. p \in Programs /\ p \notin hit \cup contended \cup strayed /\ AtRest(p)
    BY DEF Settled, Undisturbed
  <2>2. \A i, k \in Homes(p) : i = k
    BY <1>1, <2>1, RestIsFree DEF Homed, Placed
  <2>3. CASE Homes(p) = {}
    <3>1. Cardinality(Homes(p)) = 0
      BY <2>3, FS_EmptySet
    <3> QED BY <3>1
  <2>4. CASE Homes(p) # {}
    <3>1. PICK i : Homes(p) = {i}
      BY <2>2, <2>4
    <3>2. Cardinality(Homes(p)) = 1
      BY <3>1, FS_Singleton
    <3> QED BY <3>2
  <2> QED BY <2>3, <2>4
<1> QED BY <1>1, HomedAlways, PTL

\* A program that is at rest in an archive was never discarded (add_elite's
\* "archive-member-is-DONE invariant"), under the same provisos: an eviction that
\* hits a migrant on one of its two islands takes the other entry along.
THEOREM ArchivesHoldNoDiscarded == Spec => []MembersLive
<1>1. ASSUME Orderly, Homed PROVE MembersLive
  <2> SUFFICES ASSUME NEW p \in Settled, Homes(p) # {} PROVE state[p] # "DISCARDED"
    BY DEF MembersLive
  <2>1. p \in Programs /\ p \notin hit \cup contended \cup strayed /\ AtRest(p)
    BY DEF Settled, Undisturbed
  <2>2. Dead(p) => Homes(p) = {}
    BY <1>1, <2>1, RestIsFree DEF Homed, Placed
  <2> QED BY <2>2 DEF Dead
<1> QED BY <1>1, HomedAlways, PTL

\* No migration, with its roll-back (_perform_migration), loses an accepted
\* program: at rest it is in some archive, unless it was displaced from its cell, a
\* fault struck it or two migrations carried it at once.
THEOREM MigrationsLoseNothing == Spec => []NothingLost
<1>1. ASSUME Orderly, Homed PROVE NothingLost
  <2> SUFFICES ASSUME NEW p \in Undisturbed \ displaced, state[p] = "DONE"
               PROVE  Homes(p) # {}
    BY DEF NothingLost
  <2>1. p \in Programs /\ p \notin hit \cup contended \cup displaced /\ AtRest(p)
    BY DEF Undisturbed
  <2> QED BY <1>1, <2>1, RestIsFree DEF Homed, Anchored
<1> QED BY <1>1, HomedAlways, PTL
=============================================================================
