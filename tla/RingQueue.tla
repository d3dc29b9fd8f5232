----------------------------- MODULE RingQueue -----------------------------
(***************************************************************************)
(* The ring queues: Queue (src/include/adt/Queue.hh), which doubles its    *)
(* array when it is full, and QueueArray (src/include/adt/QueueArray.hh),  *)
(* whose array has a fixed size and keeps one cell free to tell full from  *)
(* empty. Queue has the pushes of both kinds; ThreadPool uses the ones     *)
(* that do not grow.                                                       *)
(***************************************************************************)
EXTENDS Integers, Sequences, FiniteSets

CONSTANTS Elements,     \* T
          Kinds,        \* of the clients: "grow", "noGrow" and "array"
          Preallocs,    \* the constructor's prealloc, and CAP
          Junk,         \* what a cell holds where no element was constructed:
                        \* not an element
          MaxCap        \* bound: no growth above this capacity

VARIABLES kind,         \* the pushes this client uses
          m_pData,      \* the cells
          m_cap, m_size, m_headI, m_tailI,
          popped        \* what the last pop returned

vars == <<kind, m_pData, m_cap, m_size, m_headI, m_tailI, popped>>

\* i & (m_cap - 1), for a power of two
nextI(i) == (i + 1) % m_cap
prevI(i) == (i - 1) % m_cap

Cells(n) == [i \in 0 .. n - 1 |-> Junk]

Init == /\ kind \in Kinds
        /\ m_cap \in (IF kind = "grow" THEN {0} ELSE {}) \cup Preallocs
        /\ m_pData = Cells(m_cap)
        /\ m_size = 0 /\ m_headI = 0 /\ m_tailI = 0 /\ popped = <<>>

\* empty() of Queue asks m_size; QueueArray has no size and compares indices.
empty == IF kind = "array" THEN m_headI = m_tailI ELSE m_size <= 0

\* Mutant: the elements from the head on stay where they were.
GrownInPlace ==
    LET newCap == IF m_cap = 0 THEN 2 ELSE 2 * m_cap
    IN [cap |-> newCap,
        data |-> [i \in 0 .. newCap - 1 |-> IF i < m_cap THEN m_pData[i] ELSE Junk],
        head |-> m_headI, tail |-> IF m_size <= 0 THEN m_tailI ELSE m_cap]

\* grow(): relocates the array, copies what lies from the head to the end of
\* the old array, and then what lies before the tail, into the new half.
Grown ==
    LET newCap == IF m_cap = 0 THEN 2 ELSE 2 * m_cap
        headToEnd == m_size - m_headI
        Copied(i) == IF i < m_cap THEN m_pData[i]
                     ELSE IF m_headI < m_tailI
                          THEN m_pData[(m_headI + i - m_cap) % m_cap]
                     ELSE IF i - m_cap < headToEnd THEN m_pData[m_headI + i - m_cap]
                     ELSE m_pData[i - m_cap - headToEnd]
    IN [cap |-> newCap,
        data |-> [i \in 0 .. newCap - 1 |-> IF m_size <= 0 THEN Junk ELSE Copied(i)],
        head |-> IF m_size <= 0 THEN m_headI ELSE m_size,
        tail |-> IF m_size <= 0 THEN m_tailI ELSE 0]
AsIs == [cap |-> m_cap, data |-> m_pData, head |-> m_headI, tail |-> m_tailI]
Room == IF m_size >= m_cap THEN Grown ELSE AsIs

\* emplaceBack() and emplaceFront() of Queue.
EmplaceBack(x) ==
    /\ kind = "grow"
    /\ LET q == Room
       IN /\ q.cap <= MaxCap
          /\ m_pData' = [q.data EXCEPT ![q.tail] = x]
          /\ m_tailI' = (q.tail + 1) % q.cap
          /\ m_headI' = q.head
          /\ m_cap' = q.cap
    /\ m_size' = m_size + 1
    /\ UNCHANGED <<kind, popped>>

EmplaceFront(x) ==
    /\ kind = "grow"
    /\ LET q == Room
           head == (q.head - 1) % q.cap
       IN /\ q.cap <= MaxCap
          /\ m_pData' = [q.data EXCEPT ![head] = x]
          /\ m_headI' = head
          /\ m_tailI' = q.tail
          /\ m_cap' = q.cap
    /\ m_size' = m_size + 1
    /\ UNCHANGED <<kind, popped>>

\* emplaceBackNoGrow() and emplaceFrontNoGrow() return -1 when the ring is full.
EmplaceBackNoGrow(x) ==
    /\ kind = "noGrow"
    /\ nextI(m_tailI) # m_headI
    /\ m_pData' = [m_pData EXCEPT ![m_tailI] = x]
    /\ m_tailI' = nextI(m_tailI)
    /\ m_size' = m_size + 1
    /\ UNCHANGED <<kind, m_cap, m_headI, popped>>

EmplaceFrontNoGrow(x) ==
    /\ kind = "noGrow"
    /\ prevI(m_headI) # m_tailI
    /\ m_pData' = [m_pData EXCEPT ![prevI(m_headI)] = x]
    /\ m_headI' = prevI(m_headI)
    /\ m_size' = m_size + 1
    /\ UNCHANGED <<kind, m_cap, m_tailI, popped>>

\* fakePush<TAIL>() and fakePush<HEAD>() of QueueArray, under pushBack(),
\* pushFront() and the emplaces.
PushBack(x) ==
    /\ kind = "array"
    /\ nextI(m_tailI) # m_headI
    /\ m_pData' = [m_pData EXCEPT ![m_tailI] = x]
    /\ m_tailI' = nextI(m_tailI)
    /\ UNCHANGED <<kind, m_cap, m_size, m_headI, popped>>

PushFront(x) ==
    /\ kind = "array"
    /\ prevI(m_headI) # m_tailI
    /\ m_pData' = [m_pData EXCEPT ![prevI(m_headI)] = x]
    /\ m_headI' = prevI(m_headI)
    /\ UNCHANGED <<kind, m_cap, m_size, m_tailI, popped>>

\* popFront() and popBack(), which assert that there is something.
SizeAfterPop == IF kind = "array" THEN m_size ELSE m_size - 1

PopFront ==
    /\ ~empty
    /\ popped' = <<m_pData[m_headI]>>
    /\ m_pData' = [m_pData EXCEPT ![m_headI] = Junk]
    /\ m_headI' = nextI(m_headI)
    /\ m_size' = SizeAfterPop
    /\ UNCHANGED <<kind, m_cap, m_tailI>>

PopBack ==
    /\ ~empty
    /\ popped' = <<m_pData[prevI(m_tailI)]>>
    /\ m_pData' = [m_pData EXCEPT ![prevI(m_tailI)] = Junk]
    /\ m_tailI' = prevI(m_tailI)
    /\ m_size' = SizeAfterPop
    /\ UNCHANGED <<kind, m_cap, m_headI>>

\* destroy() and release() leave a default constructed queue.
Destroy ==
    /\ kind = "grow"
    /\ m_cap' = 0 /\ m_pData' = Cells(0)
    /\ m_size' = 0 /\ m_headI' = 0 /\ m_tailI' = 0
    /\ UNCHANGED <<kind, popped>>

Next ==
    \/ \E x \in Elements :
          \/ EmplaceBack(x) \/ EmplaceFront(x)
          \/ EmplaceBackNoGrow(x) \/ EmplaceFrontNoGrow(x)
          \/ PushBack(x) \/ PushFront(x)
    \/ PopFront \/ PopBack \/ Destroy

Spec == Init /\ [][Next]_vars

----------------------------------------------------------------------------
TypeOK == /\ m_cap \in 0 .. MaxCap
          /\ m_pData \in [0 .. m_cap - 1 -> Elements \cup {Junk}]
          /\ m_size \in 0 .. m_cap
          /\ m_headI \in 0 .. m_cap /\ m_tailI \in 0 .. m_cap

\* begin() .. end(): Queue counts the elements, QueueArray goes up to the tail.
Length == IF kind = "array" THEN IF m_cap = 0 THEN 0 ELSE (m_tailI - m_headI) % m_cap
          ELSE m_size
Forward == [n \in 1 .. Length |-> m_pData[(m_headI + n - 1) % m_cap]]

\* rbegin() .. rend().
Backward == [n \in 1 .. Length |-> m_pData[(m_tailI - n) % m_cap]]

\* The ring is a deque: wrapping and growing lose, double or move nothing, and
\* every pop returns the element at its end.
HasRoom(q, x) == Len(q) < MaxCap
Contract == INSTANCE QueueContract
               WITH Value <- Elements, History <- FALSE, items <- Forward, out <- popped
IsDeque == Contract!DequeSpec

\* Both directions of iteration see the same elements, none of them a cell
\* without an element.
BothWaysAgree == \A n \in 1 .. Length : /\ Backward[n] = Forward[Length + 1 - n]
                                        /\ Forward[n] # Junk
============================================================================
