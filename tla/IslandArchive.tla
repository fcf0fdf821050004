--------------------------- MODULE IslandArchive ---------------------------
(***************************************************************************)
(* The archive of one MAP-Elites island (RedisArchiveStorage): a hash from *)
(* cells to program ids and its reverse index in Redis, and the            *)
(* write-through cache of Program objects that answers every read. An      *)
(* entry of the cache keeps the fitness the program had when it was added. *)
(* The operators give the archive after a call; the caller holds the       *)
(* island's _archive_state_lock.                                           *)
(***************************************************************************)
EXTENDS Naturals, FiniteSets

CONSTANTS
    Programs, Islands, Cells,
    None,        \* no program, no cell
    CellOf,      \* the behaviour cell of a program on an island
    Fits,        \* fitness values
    MaxSize      \* IslandConfig.max_size

ASSUME ArchiveAssumption ==
    /\ CellOf \in [Islands -> [Programs -> Cells]]
    /\ Fits \subseteq Nat
    /\ IsFiniteSet(Cells)
    /\ MaxSize \in Nat \ {0}
    /\ None \notin Programs \cup Cells \cup [id : Programs, fit : Fits]

Empty == [hash  |-> [c \in Cells |-> None],
          rev   |-> [p \in Programs |-> None],
          cache |-> [c \in Cells |-> None]]

Archives == [hash  : [Cells -> Programs \cup {None}],
             rev   : [Programs -> Cells \cup {None}],
             cache : [Cells -> [id : Programs, fit : Fits] \cup {None}]]

\* get_all_elites, the keys of _elite_reverse; and what a restart would find.
Elites(a) == {a.cache[c].id : c \in {c \in Cells : a.cache[c] # None}}
Stored(a) == {a.hash[c] : c \in Cells} \ {None}

\* The archive selector against the cached occupant (also Island.can_accept).
Improves(a, c, f) == a.cache[c] # None => f > a.cache[c].fit

\* Mutated form: the reverse entry of the displaced program stays.
PutKeepsReverse(a, c, p, f) ==
    [hash  |-> [a.hash EXCEPT ![c] = p],
     rev   |-> [a.rev EXCEPT ![p] = c],
     cache |-> [a.cache EXCEPT ![c] = [id |-> p, fit |-> f]]]

\* The transaction of add_elite, then _cache_set: the occupant Redis names
\* loses its reverse entry.
Put(a, c, p, f) ==
    [hash  |-> [a.hash EXCEPT ![c] = p],
     rev   |-> [q \in Programs |-> IF q = p THEN c
                                  ELSE IF q = a.hash[c] THEN None ELSE a.rev[q]],
     cache |-> [a.cache EXCEPT ![c] = [id |-> p, fit |-> f]]]

\* Redis after remove_elite_by_id or its bulk form: the cells are found
\* through the reverse index.
Unlisted(a, P) ==
    [a EXCEPT !.hash = [c \in Cells |-> IF \E p \in P : a.rev[p] = c
                                        THEN None ELSE a.hash[c]],
              !.rev  = [p \in Programs |-> IF p \in P THEN None ELSE a.rev[p]]]

\* The same with the cache: entries leave it only if Redis removed something.
Remove(a, P) ==
    IF \A p \in P : a.rev[p] = None
    THEN a
    ELSE [Unlisted(a, P) EXCEPT !.cache =
            [c \in Cells |-> IF a.cache[c] # None /\ a.cache[c].id \in P
                             THEN None ELSE a.cache[c]]]

\* _ensure_cache of a new process: the cache is filled from the hash.
Reloaded(a, fit) ==
    [a EXCEPT !.cache = [c \in Cells |->
        IF a.hash[c] = None THEN None
        ELSE [id |-> a.hash[c], fit |-> fit[a.hash[c]]]]]

=============================================================================
