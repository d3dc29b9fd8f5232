------------------------------ MODULE HashMap ------------------------------
(***************************************************************************)
(* Map and Set (src/include/adt/Map.hh, Set.hh): open addressing with      *)
(* linear probing, deleted buckets that stay in the chains, and a rehash   *)
(* when the load factor is reached.                                        *)
(*                                                                         *)
(* A map is a record of m_vBuckets (a function of 0 .. cap-1), its cap(),  *)
(* m_nOccupied and m_maxLoadFactor (in percent). A search whose chain      *)
(* never ends is the state "hung": the loop at Map.hh:464 has no other way *)
(* out.                                                                    *)
(***************************************************************************)
EXTENDS Integers, FiniteSets, Sequences

Seqs == INSTANCE SequencesExt

CONSTANTS Keys,         \* the keys the client uses
          DefaultKey,   \* K {}
          Vals,         \* V
          DefaultVal,   \* V {}
          Hash,         \* FN_HASH: a natural number for each key
          Preallocs,    \* the constructor's prealloc
          LoadFactors,  \* the constructor's load factor, in percent
          MaxCap,       \* bound: no growth above this capacity
          Programs      \* each a set of the operations one client uses

VARIABLES map, result, hung,
          program       \* the client's element of Programs

vars == <<map, result, hung, program>>

MAP_DEFAULT_LOAD_FACTOR == 50
SIZE_MIN == 2

EmptyBucket == [key |-> DefaultKey, val |-> DefaultVal, flag |-> "NONE"]

\* nextPowerOf2(), for what the bound lets pass.
NextPowerOf2(n) == CHOOSE p \in {2^i : i \in 0 .. 8} : p >= n /\ p < 2 * n

\* Map(), and Map(pAllocator, prealloc, loadFactor).
NoBuckets == [buckets |-> [i \in {} |-> EmptyBucket], cap |-> 0, nOccupied |-> 0, maxLoadFactor |-> 0]
NewMap(prealloc, loadFactor) ==
    LET cap == NextPowerOf2((prealloc * 100) \div loadFactor)
    IN [buckets |-> [i \in 0 .. cap - 1 |-> EmptyBucket], cap |-> cap,
        nOccupied |-> 0, maxLoadFactor |-> loadFactor]

\* The first bucket of the key's chain that ends the probing.
Slot(m, k, d) == (Hash[k] + d) % m.cap
FirstSlot(m, k, Ends(_)) ==
    LET At(d) == m.buckets[Slot(m, k, d)]
    IN Slot(m, k, CHOOSE d \in 0 .. m.cap - 1 : Ends(At(d)) /\ \A e \in 0 .. d - 1 : ~Ends(At(e)))

\* insertionIdx(): stops at a deleted bucket.
InsertionIdx(m, k) ==
    LET Ends(b) == b.flag # "OCCUPIED" \/ b.key = k IN FirstSlot(m, k, Ends)

\* searchHashed(): passes over deleted buckets and ends at one never used.
EndsSearch(b, k) == b.flag = "NONE" \/ (b.flag = "OCCUPIED" /\ b.key = k)
SearchEnds(m, k) ==
    m.nOccupied = 0 \/ \E i \in DOMAIN m.buckets : EndsSearch(m.buckets[i], k)
SearchIdx(m, k) == LET Ends(b) == EndsSearch(b, k) IN FirstSlot(m, k, Ends)
Holds(m, k) == /\ m.nOccupied # 0
               /\ SearchEnds(m, k)
               /\ m.buckets[SearchIdx(m, k)].flag = "OCCUPIED"
ValueOf(m, k) == m.buckets[SearchIdx(m, k)].val

\* firstI() and nextI(): the indices an iteration visits.
IterationOf(m) ==
    SelectSeq([i \in 1 .. m.cap |-> i - 1], LAMBDA i : m.buckets[i].flag = "OCCUPIED")

\* Mutant: an update of an existing key is counted like an insertion.
StoreCounting(m, k, v) ==
    [m EXCEPT !.buckets[InsertionIdx(m, k)] = [key |-> k, val |-> v, flag |-> "OCCUPIED"],
              !.nOccupied = @ + 1]

\* emplaceHashed() behind its tests of capacity and load: compares the key of
\* the bucket whatever its flag, and counts the bucket only if it differs.
Store(m, k, v) ==
    LET i == InsertionIdx(m, k)
    IN [m EXCEPT !.buckets[i] = [key |-> k, val |-> v, flag |-> "OCCUPIED"],
                 !.nOccupied = IF m.buckets[i].key = k THEN @ ELSE @ + 1]
StoreStatus(m, k) == IF m.buckets[InsertionIdx(m, k)].key = k THEN "FOUND" ELSE "INSERTED"

\* Mutant: the load factor must be exceeded.
IsOverloaded(m) == m.nOccupied * 100 > m.maxLoadFactor * m.cap

IsLoaded(m) == m.nOccupied * 100 >= m.maxLoadFactor * m.cap

\* rehash(): Map(p, size) divides by the load factor once more, and starts
\* again with the default one.
Rehashed(m, size) ==
    LET Move(new, i) == Store(new, m.buckets[i].key, m.buckets[i].val)
    IN Seqs!FoldLeft(Move, NewMap(size, MAP_DEFAULT_LOAD_FACTOR), IterationOf(m))

Grown(m) == IF m.cap = 0 THEN NewMap(SIZE_MIN, MAP_DEFAULT_LOAD_FACTOR)
            ELSE IF IsLoaded(m) THEN Rehashed(m, 2 * m.cap)
            ELSE m

NotFound == [status |-> "NOT_FOUND"]

Init == /\ program \in Programs
        /\ \/ map = NoBuckets
           \/ \E n \in Preallocs, f \in LoadFactors : map = NewMap(n, f)
        /\ result = NotFound
        /\ hung = FALSE

Hangs == hung' = TRUE /\ UNCHANGED <<map, result, program>>

\* insert(), emplace(), emplaceHashed().
Emplaces(k, v) ==
    LET m == Grown(map)
    IN /\ m.cap <= MaxCap
       /\ map' = Store(m, k, v)
       /\ result' = [status |-> StoreStatus(m, k), val |-> v]
       /\ UNCHANGED <<hung, program>>

Emplace(k, v) == "emplace" \in program /\ ~hung /\ Emplaces(k, v)

\* tryInsert(), tryEmplace(): search first, then emplaceHashed().
TryEmplace(k, v) ==
    /\ "tryEmplace" \in program /\ ~hung
    /\ \/ ~SearchEnds(map, k) /\ Hangs
       \/ /\ Holds(map, k)
          /\ result' = [status |-> "FOUND", val |-> ValueOf(map, k)]
          /\ UNCHANGED <<map, hung, program>>
       \/ SearchEnds(map, k) /\ ~Holds(map, k) /\ Emplaces(k, v)

\* Set::emplace(): marks the bucket first and leaves it as it is if the key
\* is there; the value is Empty.
SetEmplace(k) ==
    /\ "setEmplace" \in program /\ ~hung
    /\ LET m == Grown(map)
       IN /\ m.cap <= MaxCap
          /\ map' = Store(m, k, DefaultVal)
          /\ result' = [status |-> StoreStatus(m, k), val |-> DefaultVal]
    /\ UNCHANGED <<hung, program>>

Search(k) ==
    /\ ~hung
    /\ \/ ~SearchEnds(map, k) /\ Hangs
       \/ /\ SearchEnds(map, k)
          /\ result' = IF Holds(map, k) THEN [status |-> "FOUND", val |-> ValueOf(map, k)]
                       ELSE NotFound
          /\ UNCHANGED <<map, hung, program>>

\* Mutant: the removed bucket becomes one that was never used.
RemoveIdxAsUnused(i) ==
    /\ map' = [map EXCEPT !.buckets[i] = EmptyBucket, !.nOccupied = @ - 1]
    /\ result' = NotFound
    /\ UNCHANGED <<hung, program>>

\* remove(i).
RemoveIdx(i) ==
    /\ map' = [map EXCEPT !.buckets[i] = [EmptyBucket EXCEPT !.flag = "DELETED"],
                          !.nOccupied = @ - 1]
    /\ result' = NotFound
    /\ UNCHANGED <<hung, program>>

\* remove(key) and tryRemove(): remove() asserts that the key is there.
Remove(k) ==
    /\ "remove" \in program /\ ~hung
    /\ \/ ~SearchEnds(map, k) /\ Hangs
       \/ Holds(map, k) /\ RemoveIdx(SearchIdx(map, k))

\* rehash(), called by the client to have at least the capacity it has.
Rehash ==
    /\ "rehash" \in program /\ ~hung
    /\ map.cap \in 1 .. MaxCap \div 2
    /\ map' = Rehashed(map, map.cap)
    /\ UNCHANGED <<result, hung, program>>

\* zeroOut() keeps the buckets; destroy() and release() give them away.
ZeroOut ==
    /\ "clear" \in program /\ ~hung
    /\ map' = [map EXCEPT !.buckets = [i \in DOMAIN @ |-> EmptyBucket], !.nOccupied = 0]
    /\ result' = NotFound
    /\ UNCHANGED <<hung, program>>

Destroy ==
    /\ "clear" \in program /\ ~hung
    /\ map' = NoBuckets
    /\ result' = NotFound
    /\ UNCHANGED <<hung, program>>

Next ==
    \/ \E k \in Keys, v \in Vals : Emplace(k, v) \/ TryEmplace(k, v)
    \/ \E k \in Keys : SetEmplace(k) \/ Search(k) \/ Remove(k)
    \/ Rehash \/ ZeroOut \/ Destroy

Spec == Init /\ [][Next]_vars

----------------------------------------------------------------------------
Occupied == {i \in DOMAIN map.buckets : map.buckets[i].flag = "OCCUPIED"}

TypeOK ==
    /\ DOMAIN map.buckets = 0 .. map.cap - 1
    /\ \A i \in DOMAIN map.buckets :
          map.buckets[i] \in [key : Keys \cup {DefaultKey}, val : Vals,
                              flag : {"NONE", "OCCUPIED", "DELETED"}]
    /\ map.nOccupied \in 0 .. map.cap
    /\ hung \in BOOLEAN

\* Whatever was inserted, removed and rehashed before, the chains answer every
\* search as a map would, and every insertion reports what a map would report.
Contract == INSTANCE MapContract
                WITH contents <- [k \in {x \in Keys : Holds(map, x)} |-> ValueOf(map, k)]
IsMap == Contract!Spec

\* An iteration visits each key that a search finds once and nothing else, and
\* size() is their number.
IterationIsExact ==
    ~hung => /\ Cardinality(Occupied) = map.nOccupied
             /\ \A i \in Occupied : Holds(map, map.buckets[i].key)
                                 /\ SearchIdx(map, map.buckets[i].key) = i

\* From a map at the default load factor every search ends, whatever a client
\* inserts and removes, until half of the buckets are ones a removal has left:
\* only a rehash gives those back, and it counts the occupied ones alone.
Deleted == {i \in DOMAIN map.buckets : map.buckets[i].flag = "DELETED"}
SearchesEnd ==
    map.maxLoadFactor = MAP_DEFAULT_LOAD_FACTOR /\ hung =>
        2 * Cardinality(Deleted) >= map.cap

\* After remove(key) a search for the key finds nothing, as the test of Map
\* asserts (src/src/MapTest.cc:389). emplace() of a key that a deleted bucket
\* precedes in its chain breaks it.
RemovedIsGone == [][\A k \in Keys : Remove(k) => hung' \/ ~Holds(map', k)]_vars
============================================================================
