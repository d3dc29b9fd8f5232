---------------------------- MODULE MCContainers ----------------------------
(***************************************************************************)
(* One run for the containers and for the memory they live in: the map,    *)
(* the queues, the vectors and the batches of parallelFor(), the arenas,   *)
(* the pools and the reference counts.  They share no state, so every      *)
(* behaviour picks one of them at the start (`part') and uses only that    *)
(* one; the three arenas have the state of IArena in common.               *)
(*                                                                         *)
(* What the proofs are about is a parameter of this module, so that the    *)
(* theorems hold for any elements, sizes and capacities.                   *)
(***************************************************************************)
EXTENDS Integers, FiniteSets, TLC

CONSTANTS Parts, Programs,
          Elements, Junk, QueuePreallocs, QueueMaxCap,     \* Queue, QueueArray
          Messages, Lengths, HeaderSize, RingCap,           \* Logger::RingBuffer
          MaxThreads, MaxSize, MaxBatch,                   \* parallelFor()
          VecKinds, Values, VecPreallocs, VecMaxCap,       \* Vec, Array
          Objects, ObjectSizes, MaxDepth,                  \* the arenas
          PageSize, Reserved, Commits,                     \* Arena
          BufferCap,                                       \* BufferAllocator
          Blocks, BlockObjectSizes, BlockDepth, DefaultCapacity,   \* ArenaList
          CAP,                                             \* Pool, PoolSOA
          Shapes, MaxBlocks,                               \* PoolAllocator
          Controls, MaxHandles                             \* RefCount

VARIABLES part,
          map, result, hung, program,
          qKind, m_pData, m_cap, m_size, m_headI, m_tailI, popped,
          firstI, lastI, size, data, messages, delivered,
          nThreads, spSize, minBatchSize, nextI, vFutures, visits, waited,
          vecKind, vecData, vecSize, items,
          soaData, soaSize, soaCapacity, structs,
          live, scopes, lists, m_pLCurrentDeleters, ran,
          m_pos, m_reserved, m_commited, m_pLastAlloc,
          block, m_pBlocks,
          used, lastOfBuffer,
          poolKind, slots, free, occupied, m_nOccupied, held,
          m_chunkSize, m_blockCap, chain, chunks, badPointer,
          m_count, m_weakCount, control, objects, strong, weak, calls

\* What a cfg cannot write. Four texts, each known by its length: an empty one,
\* a short one, one that lets three records meet in a ring of sixteen bytes, and
\* one that fills it. Chunks that are a power of two with the header, and chunks
\* that are not; and one shape of which free() does not find every chunk.
RingLength == [m \in {0, 1, 4, 13} |-> m]
ChunkShapes == {<<56, 128>>, <<32, 100>>, <<40, 96>>, <<8, 64>>}

mapVars == <<map, result, hung, program>>
queueVars == <<qKind, m_pData, m_cap, m_size, m_headI, m_tailI, popped>>
ringVars == <<firstI, lastI, size, data, messages, delivered>>
batchVars == <<nThreads, spSize, minBatchSize, nextI, vFutures, visits, waited>>
vecVars == <<vecKind, vecData, vecSize, items>>
soaVars == <<soaData, soaSize, soaCapacity, structs>>
iArenaVars == <<live, scopes, lists, m_pLCurrentDeleters, ran>>
arenaVars == <<m_pos, m_reserved, m_commited, m_pLastAlloc>>
arenaListVars == <<block, m_pBlocks>>
bufferVars == <<used, lastOfBuffer>>
poolVars == <<poolKind, slots, free, occupied, m_nOccupied, held>>
chunkVars == <<m_chunkSize, m_blockCap, chain, chunks, badPointer>>
refVars == <<m_count, m_weakCount, control, objects, strong, weak, calls>>

\* Two keys collide in the last bucket of every table and a third starts at
\* the first, where their chains go on.
Map == INSTANCE HashMap
          WITH Keys <- 1 .. 3, DefaultKey <- 0, Vals <- {0, 1}, DefaultVal <- 0,
               Hash <- (0 :> 0) @@ (1 :> 15) @@ (2 :> 15) @@ (3 :> 0),
               Preallocs <- {1, 2}, LoadFactors <- {50, 75}, MaxCap <- 16
Queue == INSTANCE RingQueue
            WITH kind <- qKind, Kinds <- {"grow", "noGrow", "array"},
                 Preallocs <- QueuePreallocs, MaxCap <- QueueMaxCap
Ring == INSTANCE LoggerRing
           WITH items <- messages, popped <- delivered, Length <- Lengths, Cap <- RingCap
Batch == INSTANCE ParallelFor WITH i <- nextI
Vec == INSTANCE Vectors
          WITH kind <- vecKind, m_pData <- vecData, m_size <- vecSize,
               Kinds <- VecKinds, Vals <- Values, Preallocs <- VecPreallocs, MaxCap <- VecMaxCap
SOA == INSTANCE VecSOA
          WITH m_pData <- soaData, m_size <- soaSize, m_capacity <- soaCapacity,
               items <- structs, Sizes <- <<1, 2>>, Vals <- {1, 2}, Preallocs <- {0, 1},
               MaxCapacity <- 3
Arena == INSTANCE Arena WITH Sizes <- ObjectSizes

ArenaList == INSTANCE ArenaList
                WITH Sizes <- BlockObjectSizes, MaxDepth <- BlockDepth,
                     defaultCapacity <- DefaultCapacity
Buffer == INSTANCE BufferAllocator
             WITH m_size <- used, m_pLastAlloc <- lastOfBuffer, m_cap <- BufferCap,
                  Sizes <- ObjectSizes
Arenas == {"arena", "arenaList", "buffer"}

Pool == INSTANCE Pool
           WITH kind <- poolKind, m_size <- m_nOccupied,
                Kinds <- {"Pool", "PoolSOA"}, Vals <- Values
Chunks == INSTANCE PoolAllocator WITH m_pBlocks <- chain
Ref == INSTANCE RefCount WITH Blocks <- Controls, data <- objects

-----------------------------------------------------------------------------
\* What the constructors of the queues get, and a cell that is told from an
\* element.
QueueSizes ==
    QueueMaxCap \in Nat /\ QueuePreallocs \subseteq 1..QueueMaxCap /\ Junk \notin Elements
ASSUME QueueAssumption == QueueSizes

\* A header has a size, and a ring bytes.
RingSizes ==
    /\ HeaderSize \in Nat \ {0}
    /\ RingCap \in Nat \ {0}
    /\ Lengths \in [Messages -> Nat]
ASSUME RingAssumption == RingSizes

\* The bounds of a call of parallelFor().
BatchSizes == MaxThreads \in Nat /\ MaxSize \in Nat /\ MaxBatch \in Nat
ASSUME BatchAssumption == BatchSizes

\* A vector is of one of the two kinds, and made with a number of cells.
VectorSizes ==
    /\ VecKinds \subseteq {"Vec", "Array"}
    /\ VecMaxCap \in Nat /\ VecPreallocs \subseteq 0..VecMaxCap
ASSUME VectorAssumption == VectorSizes

\* A client asks an arena for some memory, and tells its objects and the blocks
\* of a chain apart. An arena commits no more than what it reserves.
ArenaSizes ==
    /\ Objects \subseteq Nat /\ ObjectSizes \subseteq Nat \ {0}
    /\ PageSize \in Nat \ {0} /\ Reserved \in Nat /\ Commits \subseteq 0..Reserved
    /\ BufferCap \in Nat
    /\ Blocks \subseteq Nat /\ 1 \in Blocks
    /\ BlockObjectSizes \subseteq Nat \ {0} /\ DefaultCapacity \in Nat
ASSUME ArenaAssumption == ArenaSizes

\* Control blocks are told from nobody's, and ordered.
RefSizes == IsFiniteSet(Controls) /\ Controls \subseteq Nat \ {0}
ASSUME RefAssumption == RefSizes

\* A pool has slots. PoolAllocator: a client asks for blocks with room for a
\* chunk.
PoolSizes ==
    /\ CAP \in Nat
    /\ \A s \in Shapes :
          LET chunk == s[1] + Chunks!SizeofNode
              cap == Chunks!alignUpPO2(s[2], chunk)
          IN chunk \in Nat \ {0} /\ cap \in Nat /\ chunk <= cap
ASSUME PoolAssumption == PoolSizes

-----------------------------------------------------------------------------
Init ==
    /\ part \in Parts
    /\ IF part = "map" THEN Map!Init
       ELSE map = Map!NoBuckets /\ result = Map!NotFound /\ hung = FALSE /\ program = {}
    /\ IF part = "queue" THEN Queue!Init
       ELSE /\ qKind = "grow" /\ m_pData = Queue!Cells(0) /\ m_cap = 0 /\ m_size = 0
            /\ m_headI = 0 /\ m_tailI = 0 /\ popped = <<>>
    /\ IF part = "batches" THEN Batch!Init
       ELSE /\ nThreads = 1 /\ spSize = 0 /\ minBatchSize = 1 /\ nextI = 0
            /\ vFutures = <<>> /\ visits = <<>> /\ waited = 0
    /\ IF part = "vector" THEN Vec!Init
       ELSE vecKind = "Vec" /\ vecData = <<>> /\ vecSize = 0 /\ items = <<>>
    /\ IF part = "soa" THEN SOA!Init
       ELSE soaData = <<>> /\ soaSize = 0 /\ soaCapacity = 0 /\ structs = <<>>
    /\ IF part = "pool" THEN Pool!Init
       ELSE /\ poolKind = "Pool" /\ slots = <<>> /\ free = <<>> /\ occupied = {}
            /\ m_nOccupied = 0 /\ held = <<>>
    /\ IF part = "chunks" THEN Chunks!Init
       ELSE m_chunkSize = 0 /\ m_blockCap = 0 /\ chain = <<>> /\ chunks = {} /\ badPointer = FALSE
    /\ Ring!Init /\ Arena!Init /\ ArenaList!Init /\ Buffer!Init /\ Ref!Init

Next ==
    /\ UNCHANGED part
    /\ IF part = "map" THEN Map!Next ELSE UNCHANGED mapVars
    /\ IF part = "queue" THEN Queue!Next ELSE UNCHANGED queueVars
    /\ IF part = "ring" THEN Ring!Next ELSE UNCHANGED ringVars
    /\ IF part = "batches" THEN Batch!Next ELSE UNCHANGED batchVars
    /\ IF part = "vector" THEN Vec!Next ELSE UNCHANGED vecVars
    /\ IF part = "soa" THEN SOA!Next ELSE UNCHANGED soaVars
    /\ IF part = "arena" THEN Arena!Next ELSE UNCHANGED arenaVars
    /\ IF part = "arenaList" THEN ArenaList!Next ELSE UNCHANGED arenaListVars
    /\ IF part = "buffer" THEN Buffer!Next ELSE UNCHANGED bufferVars
    /\ part \notin Arenas => UNCHANGED iArenaVars
    /\ IF part = "pool" THEN Pool!Next ELSE UNCHANGED poolVars
    /\ IF part = "chunks" THEN Chunks!Next ELSE UNCHANGED chunkVars
    /\ IF part = "ref" THEN Ref!Next ELSE UNCHANGED refVars

specVars ==
    <<part, mapVars, queueVars, ringVars, batchVars, vecVars, soaVars, iArenaVars,
      arenaVars, arenaListVars, bufferVars, poolVars, chunkVars, refVars>>

Spec == Init /\ [][Next]_specVars

-----------------------------------------------------------------------------
\* Map: every answer is the one of a map, over collisions, tombstones and rehashes.
IsMap == Map!IsMap

\* Map: an iteration sees each key once, and every search ends until half of
\* the buckets are deleted ones. Pool, PoolSOA: iteration meets what is held,
\* but for the walks that run off the slots, and exactly those. VecSOA:
\* every member reads as it was written, whole, over growing.
EntriesAreExact ==
    /\ Map!TypeOK /\ Map!IterationIsExact /\ Map!SearchesEnd
    /\ part = "pool" => Pool!IteratesHeld
    /\ SOA!TypeOK /\ SOA!MembersIntact

\* Map: a removed key is not found again; only for a client of emplace().
RemovedIsGone == Map!RemovedIsGone

\* Queue, QueueArray: a deque, over wrapping and growing.
IsDeque == Queue!IsDeque

\* Logger::RingBuffer: a queue of messages in a ring of bytes, nothing
\* overwritten before it is popped, and what is written out is the message.
RingIsQueue == Ring!RingIsQueue

\* Queue, QueueArray: iteration sees the elements in their order, and backward
\* in the reverse order. parallelFor(): nothing is visited twice, every
\* element is when the futures have been waited on, and nothing else is when the
\* threads have a share of at least minBatchSize.
IterationIsExact ==
    /\ Queue!TypeOK /\ Queue!BothWaysAgree
    /\ part = "batches" => Batch!VisitsOnce

\* Vec, VecManaged, Array: the elements of a sequence, forward and backward,
\* over growing, shrinking and shifting in the middle.
VectorsAreSequences == Vec!TypeOK /\ Vec!IsSequence

\* Arena, ArenaList, BufferAllocator: whatever was allocated, reallocated in
\* place, moved or given back by a scope, the client's objects lie apart in
\* memory the arena has. Each with a destructor is registered with the scope it
\* dies with: in Arena always, over nested scopes too; in the other two in the
\* current list, as long as no scope has ended since it was switched to.
MemoryIntact ==
    CASE part = "arena" -> Arena!LiveIntact /\ Arena!IsRegistered /\ Arena!CurrentListIsOpen
      [] part = "arenaList" -> ArenaList!LiveIntact /\ ArenaList!IsRegistered
      [] part = "buffer" -> Buffer!LiveIntact /\ Buffer!IsRegistered
      [] OTHER -> TRUE

\* Arena: every object with a destructor is destructed exactly when it dies,
\* youngest first, by scopes, resets and freeAll(). BufferAllocator: so it is
\* as long as no scope has ended since the current list was switched to, for
\* then that list dangles. ArenaList: so it is at a scope's end under that
\* condition, and its reset(), freeAll() and shrinkToFirstBlock() run no
\* deleter at all.
DestructsDead ==
    /\ part = "arena" => Arena!DestructsDead
    /\ part = "arenaList" => ArenaList!DestructsDead
    /\ part = "buffer" => Buffer!DestructsDead
DeletersRun == [][DestructsDead]_<<part, iArenaVars>>

\* Pool, PoolSOA, PoolAllocator: what a client holds is its own until it gives
\* it back, and free() finds the block of a chunk again, but where the last chunk
\* of a block, with what is left behind it, is not longer than the headers.
PoolsAreSound ==
    /\ part = "pool" => Pool!HandlesAreHeld
    /\ part = "chunks" => Chunks!ChunksApart /\ Chunks!FreeFindsBlock

\* RefCounted: at every point of nested destructions the counts are those of
\* the pointers there are, and nothing stays when all are gone.
CountsPointers == part = "ref" => Ref!CountsPointers /\ Ref!NothingLeaks
=============================================================================
