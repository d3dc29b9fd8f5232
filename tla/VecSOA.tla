-------------------------------- MODULE VecSOA --------------------------------
(***************************************************************************)
(* The vector of structures stored as one array for each member, all in    *)
(* one block of bytes (VecSOA.hh).  A member of Sizes[k] bytes is          *)
(* represented by the bytes <<value, 1>> .. <<value, Sizes[k]>>; a         *)
(* structure is the tuple of its members' values.                          *)
(***************************************************************************)
EXTENDS Integers, Sequences, SequencesExt, FiniteSetsExt

CONSTANTS Sizes,           \* of the members, in their order
          Vals,            \* of a member
          Preallocs,
          MaxCapacity      \* bound on the capacity

VARIABLES m_pData,         \* the bytes
          m_size, m_capacity,
          items            \* the structures the client put in

vars == <<m_pData, m_size, m_capacity, items>>

SIZE_MIN == 2
Members == 1..Len(Sizes)
sizeofSTRUCT == FoldLeft(LAMBDA a, b : a + b, 0, Sizes)
Structs == [Members -> Vals]

(* What zeroed memory reads as, and elements the client did not assign.    *)
Zero == <<0, 0>>
Unwritten == <<>>
zalloc(n) == [b \in 1..n |-> Zero]

Init ==
    /\ m_capacity \in Preallocs
    /\ m_pData = zalloc(m_capacity * sizeofSTRUCT)
    /\ m_size = 0
    /\ items = <<>>

(* Where the array of member `k' starts, in a block for `cap' elements.    *)
Column(k, cap) == cap * FoldLeft(LAMBDA a, b : a + b, 0, SubSeq(Sizes, 1, k - 1))

(* VecSOASetHelper                                                         *)
set(data, cap, i, x) ==
    [b \in DOMAIN data |->
        IF \E k \in Members : b - 1 - Column(k, cap) - i * Sizes[k] \in 0..Sizes[k] - 1
        THEN LET k == CHOOSE k \in Members :
                         b - 1 - Column(k, cap) - i * Sizes[k] \in 0..Sizes[k] - 1
             IN <<x[k], b - Column(k, cap) - i * Sizes[k]>>
        ELSE data[b]]

(* Mutant: the old block is copied as a whole.                             *)
grownWhole(newCapacity) ==
    [b \in 1..newCapacity * sizeofSTRUCT |->
        IF b \in DOMAIN m_pData THEN m_pData[b] ELSE Zero]

(* grow(): VecSOAReallocHelper copies one array after the other to where   *)
(* it starts in the larger block.                                          *)
grown(newCapacity) ==
    [b \in 1..newCapacity * sizeofSTRUCT |->
        IF \E k \in Members :
              b - 1 - Column(k, newCapacity) \in 0..m_capacity * Sizes[k] - 1
        THEN LET k == CHOOSE k \in Members :
                         b - 1 - Column(k, newCapacity) \in 0..m_capacity * Sizes[k] - 1
             IN m_pData[b - Column(k, newCapacity) + Column(k, m_capacity)]
        ELSE Zero]

push(x) ==
    /\ m_capacity' = IF m_size < m_capacity THEN m_capacity
                     ELSE Max({SIZE_MIN, m_capacity * 2})
    /\ m_capacity' <= MaxCapacity
    /\ m_pData' = set(IF m_size < m_capacity THEN m_pData ELSE grown(m_capacity'),
                      m_capacity', m_size, x)
    /\ m_size' = m_size + 1
    /\ items' = Append(items, x)

(* operator[] gives references to the members: the client assigns them.    *)
assign(i, x) ==
    /\ i < m_size
    /\ m_pData' = set(m_pData, m_capacity, i, x)
    /\ items' = [items EXCEPT ![i + 1] = x]
    /\ UNCHANGED <<m_size, m_capacity>>

(* pop() asserts nothing: a client pops what it pushed.                    *)
pop ==
    /\ items # <<>>
    /\ m_size' = m_size - 1
    /\ items' = Front(items)
    /\ UNCHANGED <<m_pData, m_capacity>>

setSize(newSize) ==
    /\ newSize <= MaxCapacity
    /\ m_capacity' = Max({m_capacity, newSize})
    /\ m_pData' = IF m_capacity < newSize THEN grown(newSize) ELSE m_pData
    /\ m_size' = newSize
    /\ items' = SubSeq(items, 1, Min({newSize, m_size}))
                    \o [i \in 1..Max({0, newSize - m_size}) |-> Unwritten]

zeroOut ==
    /\ m_pData' = zalloc(m_capacity * sizeofSTRUCT)
    /\ items' = [i \in 1..m_size |-> Unwritten]
    /\ UNCHANGED <<m_size, m_capacity>>

destroy ==
    /\ m_pData' = <<>> /\ m_size' = 0 /\ m_capacity' = 0 /\ items' = <<>>

Next ==
    \/ \E x \in Structs : push(x) \/ \E i \in 0..m_size - 1 : assign(i, x)
    \/ \E n \in 0..MaxCapacity : setSize(n)
    \/ pop \/ zeroOut \/ destroy

Spec == Init /\ [][Next]_vars

-----------------------------------------------------------------------------
(* bind(): the bytes of member `k' of element `i'.                         *)
bind(i, k) ==
    SubSeq(m_pData, Column(k, m_capacity) + i * Sizes[k] + 1,
                    Column(k, m_capacity) + (i + 1) * Sizes[k])

TypeOK ==
    /\ m_size \in 0..m_capacity
    /\ Len(m_pData) = m_capacity * sizeofSTRUCT

(* VecSOA: every member of every structure the client put in reads as it   *)
(* was written, whole, over growing and over writes to its neighbours.     *)
MembersIntact ==
    \A i \in DOMAIN items : items[i] # Unwritten =>
        \A k \in Members : bind(i - 1, k) = [b \in 1..Sizes[k] |-> <<items[i][k], b>>]
=============================================================================
