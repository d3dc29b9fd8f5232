---------------------------- MODULE PoolAllocator ---------------------------
(***************************************************************************)
(* PoolAllocator.hh: chunks of one size, a list of free chunks in every    *)
(* block, and blocks added at the end of the chain when all are full.      *)
(* Bytes are bytes here, as the range check of free() depends on them.     *)
(***************************************************************************)
EXTENDS Integers, Sequences, SequencesExt, FiniteSets, FiniteSetsExt

CONSTANTS Shapes,       \* <<chunkSize, blockSize>> a client asks for
          MaxBlocks     \* blocks the backing allocator gives

VARIABLES m_chunkSize, m_blockCap,
          m_pBlocks,    \* the chain: head, the free chunks in order, and used
          chunks,       \* the <<block, chunk>> the client holds
          badPointer    \* free() found no block for a chunk of the client

vars == <<m_chunkSize, m_blockCap, m_pBlocks, chunks, badPointer>>

SizeofNode == 8
SizeofBlock == 24

(* x & y.                                                                  *)
HasBit(x, b) == (x \div 2^b) % 2 = 1
And(x, y) == SumSet({2^b : b \in {b \in 0..30 : HasBit(x, b) /\ HasBit(y, b)}})

(* x & ~(to - 1), which rounds up when `to' is a power of two.             *)
alignUpPO2(x, to) == (x + to - 1) - And(x + to - 1, to - 1)

(* There is at least one chunk on the list, whatever the capacity.         *)
allocBlock(cap, chunk) ==
    LET n == cap \div chunk
    IN [head |-> [i \in 1..(IF n = 0 THEN 1 ELSE n) |-> i - 1], used |-> 0]

Init ==
    /\ \E s \in Shapes :
        /\ m_chunkSize = s[1] + SizeofNode
        /\ m_blockCap = alignUpPO2(s[2], s[1] + SizeofNode)
    /\ m_pBlocks = <<allocBlock(m_blockCap, m_chunkSize)>>
    /\ chunks = {}
    /\ badPointer = FALSE

HasRoom(b) == m_blockCap - b.used >= m_chunkSize

(* The first block with room, or a new one at the end.                     *)
malloc ==
    LET i == SelectInSeq(m_pBlocks, HasRoom)
        chain == IF i # 0 THEN m_pBlocks
                 ELSE Append(m_pBlocks, allocBlock(m_blockCap, m_chunkSize))
        k == IF i # 0 THEN i ELSE Len(chain)
    IN /\ m_pBlocks # <<>> /\ Len(chain) <= MaxBlocks
       /\ m_pBlocks' = [chain EXCEPT ![k].head = Tail(@), ![k].used = @ + m_chunkSize]
       /\ chunks' = chunks \cup {<<k, Head(chain[k].head)>>}
       /\ UNCHANGED <<m_chunkSize, m_blockCap, badPointer>>

(* Where pNodeMem() of a chunk lies, from the start of its block.          *)
Offset(c) == SizeofBlock + c * m_chunkSize + SizeofNode

(* Mutant: the chunk must end inside the capacity, which begins later.     *)
InRangeWhole(c) == Offset(c) > SizeofBlock /\ m_blockCap >= Offset(c) + m_chunkSize

(* The capacity is measured from the block's beginning, not from pMem().    *)
(* The blocks have addresses far apart: free() finds the chunk's, or none. *)
InRange(c) == Offset(c) > SizeofBlock /\ m_blockCap > Offset(c)

free(b, c) ==
    /\ <<b, c>> \in chunks
    /\ InRange(c)
    /\ chunks' = chunks \ {<<b, c>>}
    /\ m_pBlocks' = [m_pBlocks EXCEPT ![b].head = <<c>> \o @, ![b].used = @ - m_chunkSize]
    /\ UNCHANGED <<m_chunkSize, m_blockCap, badPointer>>

(* No block is found: the assertion fails, or a null pointer is followed.   *)
freeFails(b, c) ==
    /\ <<b, c>> \in chunks
    /\ ~InRange(c)
    /\ badPointer' = TRUE
    /\ UNCHANGED <<m_chunkSize, m_blockCap, m_pBlocks, chunks>>

freeAll ==
    /\ m_pBlocks' = <<>>
    /\ chunks' = {}
    /\ UNCHANGED <<m_chunkSize, m_blockCap, badPointer>>

Next ==
    /\ ~badPointer
    /\ \/ malloc
       \/ \E c \in chunks : free(c[1], c[2]) \/ freeFails(c[1], c[2])
       \/ freeAll

Spec == Init /\ [][Next]_vars

-----------------------------------------------------------------------------
(* Every chunk of a block is the client's or on the block's list of free   *)
(* ones, once, inside the block, and `used' counts the client's.           *)
ChunksApart ==
    \A b \in DOMAIN m_pBlocks :
        LET mine == {c[2] : c \in {d \in chunks : d[1] = b}}
            head == m_pBlocks[b].head
        IN /\ IsInjective(head) /\ ToSet(head) \cap mine = {}
           /\ ToSet(head) \cup mine = 0..(m_blockCap \div m_chunkSize) - 1
           /\ m_pBlocks[b].used = m_chunkSize * Cardinality(mine)
           /\ \A c \in mine : Offset(c) + m_chunkSize - SizeofNode <= SizeofBlock + m_blockCap

(* The assertion of free(), that the pointer of a chunk of the client is    *)
(* not bad, holds for every shape whose last chunk, with what is left of    *)
(* the capacity behind it, is longer than the headers of block and chunk.   *)
FreeFindsBlock ==
    badPointer => SizeofBlock + SizeofNode >= m_chunkSize + (m_blockCap % m_chunkSize)
=============================================================================
