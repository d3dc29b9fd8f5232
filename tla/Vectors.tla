------------------------------- MODULE Vectors -------------------------------
(***************************************************************************)
(* Vec and VecManaged of Vec.hh, and the Array of fixed capacity of        *)
(* Array.hh (`kind'), for a T without a destructor: cells that were never  *)
(* constructed hold Junk.  `items' is what the client believes the vector  *)
(* to hold.  Operations that read or write several elements are called     *)
(* with indices of elements, and spans are the client's own memory.        *)
(***************************************************************************)
EXTENDS Integers, Sequences, SequencesExt, FiniteSetsExt

CONSTANTS Kinds, Vals, Junk,
          Preallocs,      \* prealloc of the constructor, CAP of an Array
          MaxCap          \* bound on the capacity

VARIABLES kind,
          m_pData,        \* one cell for each element of the capacity
          m_size,
          items

vars == <<kind, m_pData, m_size, items>>

SIZE_MIN == 2
m_capacity == Len(m_pData)
Uninit(n) == [i \in 1..n |-> Junk]

Init ==
    /\ kind \in Kinds
    /\ \E n \in Preallocs : m_pData = Uninit(n)
    /\ kind = "Array" => m_pData # <<>>
    /\ m_size = 0
    /\ items = <<>>

(* utils::memMove() and memCopy(): `n' elements of `src' from index `from' *)
(* to index `to' of `dst'; both are read before they are written.          *)
Copied(dst, to, src, from, n) ==
    [i \in DOMAIN dst |->
        IF i \in to + 1..to + n THEN src[i - to + from] ELSE dst[i]]
At(dst, i, v) == Copied(dst, i, <<v>>, 0, 1)

relocate(cap) == Copied(Uninit(cap), 0, m_pData, 0, Min({cap, m_capacity}))

grown(newCapacity) == IF kind = "Vec" THEN relocate(newCapacity) ELSE m_pData
growIfNeeded ==
    IF m_size >= m_capacity THEN grown(Max({SIZE_MIN, m_capacity * 2})) ELSE m_pData
growOnSpanPush(spanSize) ==
    IF m_size + spanSize > m_capacity THEN grown((m_size + spanSize + 1) * 2) ELSE m_pData

(* An Array asserts that there is room for one more.                       *)
HasRoom == kind = "Array" => m_size < m_capacity

Becomes(cells, size, seq) ==
    /\ Len(cells) <= MaxCap
    /\ m_pData' = cells /\ m_size' = size /\ items' = seq
    /\ UNCHANGED kind

push(v) ==
    /\ HasRoom
    /\ Becomes(At(growIfNeeded, m_size, v), m_size + 1, Append(items, v))

(* Room for an element which the client then assigns.                      *)
fakePush(v) ==
    /\ HasRoom
    /\ Becomes(At(growIfNeeded, m_size, v), m_size + 1, Append(items, v))

(* The position of the insertion must be that of an element.               *)
emplaceAt(i, v) ==
    /\ HasRoom
    /\ i < m_size
    /\ LET d == growIfNeeded
       IN Becomes(At(Copied(d, i + 1, d, i, m_size - i), i, v), m_size + 1,
                  InsertAt(items, i + 1, v))

(* Mutant: the tail is moved by one instead of by the span's size.         *)
pushSpanAtMovesOne(i, sp) ==
    /\ kind = "Vec" /\ sp # <<>>
    /\ i < m_size + Len(sp)
    /\ LET d == growOnSpanPush(Len(sp))
       IN /\ i <= m_size
          /\ Becomes(Copied(Copied(d, i + 1, d, i, m_size - i), i, sp, 0, Len(sp)),
                     m_size + Len(sp),
                     SubSeq(items, 1, i) \o sp \o SubSeq(items, i + 1, m_size))

pushSpan(sp) ==
    /\ kind = "Vec" /\ sp # <<>>
    /\ Becomes(Copied(growOnSpanPush(Len(sp)), m_size, sp, 0, Len(sp)),
               m_size + Len(sp), items \o sp)

(* The assertion accepts positions past the end, from where it would move  *)
(* a negative number of elements: a client passes none.                    *)
pushSpanAt(i, sp) ==
    /\ kind = "Vec" /\ sp # <<>>
    /\ i < m_size + Len(sp)
    /\ LET d == growOnSpanPush(Len(sp))
       IN /\ i <= m_size
          /\ Becomes(Copied(Copied(d, i + Len(sp), d, i, m_size - i), i, sp, 0, Len(sp)),
                     m_size + Len(sp),
                     SubSeq(items, 1, i) \o sp \o SubSeq(items, i + 1, m_size))

(* pop(), fakePop(): what was in the cell stays in it.                     *)
pop ==
    /\ m_size > 0
    /\ Becomes(m_pData, m_size - 1, Front(items))

swapWithLast(i) ==
    /\ kind = "Vec" /\ m_size > 0
    /\ LET last == m_pData[m_size]
       IN Becomes(At(At(m_pData, m_size - 1, m_pData[i + 1]), i, last), m_size,
                  [items EXCEPT ![i + 1] = items[m_size], ![m_size] = items[i + 1]])

popAsLast(i) ==
    /\ kind = "Vec" /\ m_size > 0
    /\ Becomes(At(m_pData, i, m_pData[m_size]), m_size - 1,
               Front([items EXCEPT ![i + 1] = items[m_size]]))

removeAndShift(i) ==
    /\ kind = "Vec" /\ m_size > 0
    /\ Becomes(Copied(m_pData, i, m_pData, i + 1, m_size - i - 1), m_size - 1,
               RemoveAt(items, i + 1))

(* The elements it adds are those of the memory; Vec(p, n, fillWith) and   *)
(* the constructors of Array assign each of them.                          *)
setSize(size, fillWith) ==
    /\ kind = "Array" => size <= m_capacity
    /\ LET d == IF m_capacity < size THEN grown(size) ELSE m_pData
           fill == [i \in 1..Max({0, size - m_size}) |-> fillWith]
       IN Becomes(Copied(d, m_size, fill, 0, Len(fill)), size,
                  SubSeq(items, 1, Min({size, m_size})) \o fill)

setCap(cap) ==
    /\ kind = "Vec"
    /\ LET d == IF cap = 0 THEN <<>> ELSE relocate(cap)
       IN Becomes(d, Min({cap, m_size}), SubSeq(items, 1, Min({cap, m_size})))

(* The client goes on with the copy, of the same capacity or, cloned by    *)
(* VecManaged, of the same size.                                           *)
clone ==
    /\ kind = "Vec"
    /\ \E cap \in {m_capacity, m_size} :
          Becomes(Copied(Uninit(cap), 0, m_pData, 0, m_size), m_size, items)

(* destroy(), and release() for the vector it leaves.                      *)
destroy ==
    /\ kind = "Vec"
    /\ Becomes(<<>>, 0, <<>>)

Next ==
    \/ \E v \in Vals : push(v) \/ fakePush(v)
    \/ \E v \in Vals, i \in 0..MaxCap : emplaceAt(i, v) \/ setSize(i, v)
    \/ \E sp \in BoundedSeq(Vals, 2) :
          pushSpan(sp) \/ \E i \in 0..MaxCap : pushSpanAt(i, sp)
    \/ \E i \in 0..m_size - 1 : swapWithLast(i) \/ popAsLast(i) \/ removeAndShift(i)
    \/ \E cap \in 0..MaxCap : setCap(cap)
    \/ pop \/ clone \/ destroy

Spec == Init /\ [][Next]_vars

-----------------------------------------------------------------------------
TypeOK ==
    /\ m_pData \in BoundedSeq(Vals \cup {Junk}, MaxCap)
    /\ m_size \in 0..m_capacity

(* begin() .. end(), and last() and first() with it.                       *)
Forward == [i \in 1..m_size |-> m_pData[i]]
(* rbegin() .. rend().                                                     *)
Backward == [i \in 1..m_size |-> m_pData[m_size + 1 - i]]

(* Vec, Array: growing, shrinking, inserting and removing in the middle    *)
(* leave the elements of a sequence, and no cell without an element.       *)
IsSequence == Forward = items /\ Backward = Reverse(items)
=============================================================================
