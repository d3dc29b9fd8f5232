----------------------------- MODULE BinaryHeap -----------------------------
(***************************************************************************)
(* Heap (src/include/adt/Heap.hh): a binary heap in a vector, as a queue   *)
(* of maxima or of minima. What reads m_vec.size without the call          *)
(* parentheses - minBubbleDown() and so minExtract(), and the two builders *)
(* from a vector with the sorts - does not compile when it is instantiated *)
(* and is not modelled; the heap of minima can only be filled.             *)
(***************************************************************************)
EXTENDS Integers, Sequences, Bags

CONSTANTS Vals,     \* T: integers
          MaxSize,  \* bound: no more elements than that
          Kinds     \* of the client's heap: "max", "min"

VARIABLES kind,
          m_vec,    \* indexed from 0
          bag,      \* history: what was pushed and not extracted
          extracted \* history: the last extracted, and what was in the heap

vars == <<kind, m_vec, bag, extracted>>

Size(v) == IF v = <<>> THEN 0 ELSE Len(v)
At(v, i) == v[i + 1]
Swap(v, i, j) == [v EXCEPT ![i + 1] = v[j + 1], ![j + 1] = v[i + 1]]

NPOS == -1
HeapParentI(i) == (i + 1) \div 2 - 1
HeapLeftI(i) == (i + 1) * 2 - 1
HeapRightI(i) == HeapLeftI(i) + 1

\* Whether x belongs above y.
Above(x, y) == IF kind = "max" THEN x > y ELSE x < y

\* maxBubbleUp(), minBubbleUp()
RECURSIVE BubbleUp(_, _)
BubbleUp(v, i) ==
    LET p == HeapParentI(i)
    IN IF p = NPOS THEN v
       ELSE IF Above(At(v, i), At(v, p)) THEN BubbleUp(Swap(v, i, p), p)
       ELSE v

\* maxBubbleDown()
RECURSIVE maxBubbleDown(_, _)
maxBubbleDown(v, i) ==
    LET left == HeapLeftI(i)
        right == HeapRightI(i)
        l == IF left < Len(v) /\ At(v, left) > At(v, i) THEN left ELSE i
        largest == IF right < Len(v) /\ At(v, right) > At(v, l) THEN right ELSE l
    IN IF largest = i THEN v ELSE maxBubbleDown(Swap(v, i, largest), largest)

Init == kind \in Kinds /\ m_vec = <<>> /\ bag = EmptyBag /\ extracted = <<>>

\* pushMax(), pushMin()
Push(x) ==
    /\ Len(m_vec) < MaxSize
    /\ m_vec' = BubbleUp(Append(m_vec, x), Len(m_vec))
    /\ bag' = bag (+) SetToBag({x})
    /\ UNCHANGED <<kind, extracted>>

\* Mutant: the element moved to the top stays there.
maxExtractUnordered ==
    /\ kind = "max" /\ m_vec # <<>>
    /\ LET swapped == Swap(m_vec, 0, Len(m_vec) - 1)
       IN /\ m_vec' = SubSeq(swapped, 1, Len(m_vec) - 1)
          /\ extracted' = <<At(swapped, Len(m_vec) - 1), BagToSet(bag)>>
          /\ bag' = bag (-) SetToBag({At(swapped, Len(m_vec) - 1)})
    /\ UNCHANGED kind

\* maxExtract(): swapWithLast(0), pop(), maxBubbleDown(0).
maxExtract ==
    /\ kind = "max" /\ m_vec # <<>>
    /\ LET swapped == Swap(m_vec, 0, Len(m_vec) - 1)
           rest == SubSeq(swapped, 1, Len(m_vec) - 1)
       IN /\ m_vec' = IF rest = <<>> THEN rest ELSE maxBubbleDown(rest, 0)
          /\ extracted' = <<At(swapped, Len(m_vec) - 1), BagToSet(bag)>>
          /\ bag' = bag (-) SetToBag({At(swapped, Len(m_vec) - 1)})
    /\ UNCHANGED kind

Next == (\E x \in Vals : Push(x)) \/ maxExtract

Spec == Init /\ [][Next]_vars

----------------------------------------------------------------------------
TypeOK == m_vec \in Seq(Vals) /\ Len(m_vec) <= MaxSize

\* maxExtract() returns a maximum of what was in the heap, and the heap holds
\* every other element as often as it was pushed.
ExtractsMaximum ==
    /\ extracted # <<>> => /\ extracted[1] \in extracted[2]
                           /\ \A x \in extracted[2] : x <= extracted[1]
    /\ \A x \in Vals : CopiesIn(x, bag) = Len(SelectSeq(m_vec, LAMBDA y : y = x))

\* No element lies below one that belongs below it, wherever a bubbling up or
\* down ended.
IsHeap == \A i \in 1 .. Len(m_vec) - 1 : ~Above(At(m_vec, i), At(m_vec, HeapParentI(i)))
============================================================================
