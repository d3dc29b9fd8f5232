-------------------------- MODULE ContainersProofs --------------------------
(***************************************************************************)
(* Proofs about the containers, in the specification of MCContainers and   *)
(* for every value of its parameters:                                      *)
(*   - Queue and QueueArray are deques, and iteration meets their elements *)
(*     in order; the batches of parallelFor() visit each element once;     *)
(*   - the logger's ring of bytes is a queue of messages;                  *)
(*   - Vec and Array hold the elements of a sequence;                      *)
(*   - Pool, PoolSOA and PoolAllocator give out each slot and chunk once.  *)
(* Each part ends in its theorems.  The lemmas of a part say what an       *)
(* operator of the model does, and then that every action preserves the    *)
(* part's inductive invariant.                                             *)
(***************************************************************************)
EXTENDS MCContainers, ProofLemmas, FiniteSetTheorems

Cell == Elements \cup {Junk}

-----------------------------------------------------------------------------
(* Rings of c cells                                                        *)

(* From the cell h on lie the elements of s.                               *)
Holds(D, c, h, s) == \A k \in 0..(Len(s) - 1) : D[(h + k) % c] = s[k + 1]

LEMMA PutBack ==
    ASSUME NEW c \in Nat \ {0}, NEW D \in [0..(c - 1) -> Cell], NEW h \in Int,
           NEW s \in Seq(Cell), Len(s) < c, Holds(D, c, h, s), NEW x \in Cell
    PROVE  Holds([D EXCEPT ![(h + Len(s)) % c] = x], c, h, Append(s, x))
<1> DEFINE E == [D EXCEPT ![(h + Len(s)) % c] = x]
           t == Append(s, x)
<1>1. Len(s) \in Nat /\ h + Len(s) \in Int
  OBVIOUS
<1>2. (h + Len(s)) % c \in 0..(c - 1)
  BY <1>1, SpotIn
<1>3. /\ E[(h + Len(s)) % c] = x
      /\ \A p \in 0..(c - 1) : p # (h + Len(s)) % c => E[p] = D[p]
  BY <1>2
<1>4. /\ Len(t) = Len(s) + 1 /\ t[Len(s) + 1] = x
      /\ \A k \in 1..Len(s) : t[k] = s[k]
  OBVIOUS
<1> HIDE DEF E, t
<1>5. ASSUME NEW k \in 0..(Len(t) - 1)
      PROVE  E[(h + k) % c] = t[k + 1]
  <2>1. CASE k = Len(s)
    BY <1>3, <1>4, <2>1
  <2>2. CASE k # Len(s)
    <3>1. /\ k \in 0..(Len(s) - 1) /\ k \in Int /\ k < Len(s) /\ Len(s) < k + c
          /\ h + k \in Int /\ k + 1 \in 1..Len(s)
      BY <1>1, <1>4, <1>5, <2>2
    <3>2. (h + k) % c # (h + Len(s)) % c
      <4>1. h \in Int /\ k \in Int /\ Len(s) \in Int /\ k < Len(s) /\ Len(s) < k + c
        BY <1>1, <3>1
      <4> QED
        BY <4>1, SpotsApart
    <3>3. (h + k) % c \in 0..(c - 1)
      BY <3>1, SpotIn
    <3> QED
      BY <1>3, <1>4, <3>1, <3>2, <3>3 DEF Holds
  <2> QED
    BY <2>1, <2>2
<1> QED
  BY <1>5 DEF Holds, E, t

LEMMA PutFront ==
    ASSUME NEW c \in Nat \ {0}, NEW D \in [0..(c - 1) -> Cell], NEW h \in Int,
           NEW s \in Seq(Cell), Len(s) < c, Holds(D, c, h, s), NEW x \in Cell
    PROVE  LET g == (h - 1) % c
           IN  /\ Holds([D EXCEPT ![g] = x], c, g, <<x>> \o s)
               /\ (g + Len(s) + 1) % c = (h + Len(s)) % c
<1> DEFINE g == (h - 1) % c
           E == [D EXCEPT ![g] = x]
           t == <<x>> \o s
<1>0. h - 1 \in Int /\ Len(s) \in Nat
  OBVIOUS
<1>1. g \in 0..(c - 1) /\ g \in Int /\ h - 1 \in Int /\ Len(s) \in Nat
  BY <1>0, SpotIn
<1>2. E[g] = x /\ \A p \in 0..(c - 1) : p # g => E[p] = D[p]
  BY <1>1
<1>3. \A k \in Int : (g + k) % c = (h - 1 + k) % c
  BY <1>1, ModAddMod
<1>4. /\ Len(t) = Len(s) + 1 /\ t[1] = x
      /\ \A k \in 1..Len(s) : t[k + 1] = s[k]
  OBVIOUS
<1>5. g % c = g
  BY <1>1, SpotSmall
<1>8. ASSUME NEW k \in Int, -1 < k, k < -1 + c
      PROVE  g # (h + k) % c
  <2>1. -1 \in Int /\ h \in Int
    OBVIOUS
  <2>2. (h + -1) % c # (h + k) % c
    BY <1>8, <2>1, SpotsApart
  <2>3. h + -1 = h - 1
    OBVIOUS
  <2> QED
    BY <2>2, <2>3
<1> HIDE DEF g, E, t
<1>9. ASSUME NEW k \in 0..(Len(t) - 1)
      PROVE  E[(g + k) % c] = t[k + 1]
  <2>1. CASE k = 0
    <3>1. g + 0 = g /\ 0 + 1 = 1
      BY <1>1
    <3>2. E[(g + 0) % c] = t[0 + 1]
      BY <1>2, <1>4, <1>5, <3>1
    <3> QED
      BY <2>1, <3>2
  <2>2. CASE k # 0
    <3>1. /\ k \in Int /\ k - 1 \in Int /\ k - 1 \in 0..(Len(s) - 1)
          /\ -1 < k - 1 /\ k - 1 < -1 + c
          /\ h - 1 + k = h + (k - 1) /\ h + (k - 1) \in Int
          /\ k \in 1..Len(s) /\ (k - 1) + 1 = k
      <4>1. k \in 1..Len(s) /\ k \in Int /\ Len(s) < c /\ h \in Int /\ c \in Int
        BY <1>1, <1>4, <1>9, <2>2
      <4> QED
        BY <1>1, <4>1
    <3>2. (g + k) % c = (h + (k - 1)) % c
      BY <1>3, <3>1
    <3>3. (h + (k - 1)) % c \in 0..(c - 1) /\ g # (h + (k - 1)) % c
      BY <1>8, <3>1, SpotIn
    <3>4. D[(h + (k - 1)) % c] = s[k]
      BY <3>1 DEF Holds
    <3> QED
      BY <1>2, <1>4, <3>1, <3>2, <3>3, <3>4
  <2> QED
    BY <2>1, <2>2
<1>10. (g + Len(s) + 1) % c = (h + Len(s)) % c
  <2>1. Len(s) + 1 \in Int /\ g + Len(s) + 1 = g + (Len(s) + 1)
        /\ h - 1 + (Len(s) + 1) = h + Len(s)
    BY <1>1
  <2> QED
    BY <1>3, <2>1
<1> QED
  BY <1>9, <1>10 DEF Holds, E, t, g

LEMMA TakeFront ==
    ASSUME NEW c \in Nat \ {0}, NEW D \in [0..(c - 1) -> Cell], NEW h \in 0..(c - 1),
           NEW s \in Seq(Cell), s # <<>>, Len(s) <= c, Holds(D, c, h, s), NEW x \in Cell
    PROVE  LET g == (h + 1) % c
           IN  /\ D[h] = Head(s)
               /\ Holds([D EXCEPT ![h] = x], c, g, Tail(s))
               /\ (g + Len(s) - 1) % c = (h + Len(s)) % c
<1> DEFINE g == (h + 1) % c
           E == [D EXCEPT ![h] = x]
           t == Tail(s)
<1>0. h + 1 \in Int /\ h \in Int /\ Len(s) \in Nat \ {0}
  OBVIOUS
<1>00. h % c = h
  BY SpotSmall
<1>1. /\ g \in 0..(c - 1) /\ g \in Int /\ h + 1 \in Int /\ Len(s) \in Nat \ {0}
      /\ h % c = h /\ h \in Int
  BY <1>0, <1>00, SpotIn
<1>2. \A p \in 0..(c - 1) : p # h => E[p] = D[p]
  OBVIOUS
<1>3. \A k \in Int : (g + k) % c = (h + 1 + k) % c
  BY <1>1, ModAddMod
<1>4. Len(t) = Len(s) - 1 /\ \A k \in 1..(Len(s) - 1) : t[k] = s[k + 1]
  BY HeadTailProperties
<1>5. D[h] = Head(s)
  <2>1. 0 \in 0..(Len(s) - 1) /\ h + 0 = h /\ 0 + 1 = 1
    BY <1>1
  <2>2. D[(h + 0) % c] = s[0 + 1]
    BY <2>1 DEF Holds
  <2> QED
    BY <1>1, <2>1, <2>2
<1>7. ASSUME NEW k \in Int, 0 < k, k < c
      PROVE  (h + k) % c # h
  <2>1. 0 \in Int /\ h \in Int /\ k < 0 + c /\ h + 0 = h
    BY <1>7
  <2>2. (h + 0) % c # (h + k) % c
    BY <1>7, <2>1, SpotsApart
  <2> QED
    BY <1>1, <2>1, <2>2
<1> HIDE DEF g, E, t
<1>8. ASSUME NEW k \in 0..(Len(t) - 1)
      PROVE  E[(g + k) % c] = t[k + 1]
  <2>1. /\ k \in Int /\ k + 1 \in Int /\ k + 1 \in 0..(Len(s) - 1)
        /\ 0 < k + 1 /\ k + 1 < c /\ h + 1 + k = h + (k + 1) /\ h + (k + 1) \in Int
        /\ k + 1 \in 1..(Len(s) - 1)
    BY <1>1, <1>4, <1>8
  <2>2. (g + k) % c = (h + (k + 1)) % c
    BY <1>3, <2>1
  <2>3. (h + (k + 1)) % c \in 0..(c - 1) /\ (h + (k + 1)) % c # h
    BY <1>7, <2>1, SpotIn
  <2>4. D[(h + (k + 1)) % c] = s[(k + 1) + 1]
    BY <2>1 DEF Holds
  <2> QED
    BY <1>2, <1>4, <2>1, <2>2, <2>3, <2>4
<1>9. (g + Len(s) - 1) % c = (h + Len(s)) % c
  <2>1. Len(s) - 1 \in Int /\ g + Len(s) - 1 = g + (Len(s) - 1)
        /\ h + 1 + (Len(s) - 1) = h + Len(s)
    BY <1>1
  <2> QED
    BY <1>3, <2>1
<1> QED
  BY <1>5, <1>8, <1>9 DEF Holds, E, t, g

LEMMA ButLast ==
    ASSUME NEW V, NEW s \in Seq(V), s # <<>>
    PROVE  /\ SubSeq(s, 1, Len(s) - 1) \in Seq(V)
           /\ Len(SubSeq(s, 1, Len(s) - 1)) = Len(s) - 1
           /\ \A k \in 1..(Len(s) - 1) : SubSeq(s, 1, Len(s) - 1)[k] = s[k]
<1> DEFINE t == SubSeq(s, 1, Len(s) - 1)
           w == Len(t)
<1>1. Len(s) \in Nat \ {0} /\ 1 \in Int /\ Len(s) - 1 \in Int
  OBVIOUS
<1>2. \A i \in 1..(Len(s) - 1) : s[i] \in V
  BY <1>1
<1>3. t \in Seq(V)
  BY <1>1, <1>2, SubSeqProperties
<1>4. w = IF 1 <= Len(s) - 1 THEN (Len(s) - 1) - 1 + 1 ELSE 0
  BY <1>1, <1>2, SubSeqProperties
<1>5. \A i \in 1..((Len(s) - 1) - 1 + 1) : t[i] = s[1 + i - 1]
  BY <1>1, <1>2, SubSeqProperties
<1> HIDE DEF t, w
<1>6. w = Len(s) - 1
  <2> DEFINE n == Len(s)
  <2>1. n \in Nat \ {0} /\ w = IF 1 <= n - 1 THEN (n - 1) - 1 + 1 ELSE 0
    BY <1>1, <1>4
  <2> HIDE DEF n
  <2>2. w = n - 1
    BY <2>1
  <2> QED
    BY <2>2 DEF n
<1>7. ASSUME NEW k \in 1..(Len(s) - 1)
      PROVE  t[k] = s[k]
  <2>1. 1 + k - 1 = k /\ k \in 1..((Len(s) - 1) - 1 + 1)
    BY <1>1, <1>7
  <2> QED
    BY <1>5, <2>1
<1> QED
  BY <1>3, <1>6, <1>7 DEF t, w

LEMMA TakeBack ==
    ASSUME NEW c \in Nat \ {0}, NEW D \in [0..(c - 1) -> Cell], NEW h \in Int,
           NEW s \in Seq(Cell), s # <<>>, Len(s) <= c, Holds(D, c, h, s), NEW x \in Cell,
           NEW g, g = (((h + Len(s)) % c) - 1) % c
    PROVE  /\ D[g] = s[Len(s)]
           /\ Holds([D EXCEPT ![g] = x], c, h, SubSeq(s, 1, Len(s) - 1))
           /\ g = (h + (Len(s) - 1)) % c
<1> DEFINE E == [D EXCEPT ![g] = x]
           t == SubSeq(s, 1, Len(s) - 1)
<1>0. /\ Len(s) \in Nat \ {0} /\ Len(s) - 1 \in Int /\ h + (Len(s) - 1) \in Int
      /\ h + Len(s) \in Int
  OBVIOUS
<1>1. g = (h + (Len(s) - 1)) % c
  <2>1. (((h + Len(s)) % c) + -1) % c = ((h + Len(s)) + -1) % c
    <3>1. -1 \in Int /\ h + Len(s) \in Int
      BY <1>0
    <3> QED
      BY <3>1, ModAddMod
  <2>2. (h + Len(s)) + -1 = h + (Len(s) - 1)
    BY <1>0
  <2>3. (h + Len(s)) % c \in Int
    BY <1>0, SpotIn
  <2>4. ((h + Len(s)) % c) + -1 = ((h + Len(s)) % c) - 1
    BY <2>3
  <2> QED
    BY <2>1, <2>2, <2>4
<1>2. g \in 0..(c - 1)
  BY <1>0, <1>1, SpotIn
<1>3. \A p \in 0..(c - 1) : p # g => E[p] = D[p]
  BY <1>2
<1>4. Len(t) = Len(s) - 1 /\ \A k \in 1..(Len(s) - 1) : t[k] = s[k]
  BY ButLast
<1>5. D[g] = s[Len(s)]
  <2>1. Len(s) - 1 \in 0..(Len(s) - 1) /\ (Len(s) - 1) + 1 = Len(s)
    BY <1>0
  <2> QED
    BY <1>1, <2>1 DEF Holds
<1> HIDE DEF E, t
<1>6. ASSUME NEW k \in 0..(Len(t) - 1)
      PROVE  E[(h + k) % c] = t[k + 1]
  <2>1. /\ k \in Int /\ k \in 0..(Len(s) - 1) /\ k < Len(s) - 1
        /\ Len(s) - 1 < k + c /\ h + k \in Int /\ k + 1 \in 1..(Len(s) - 1)
    BY <1>0, <1>4, <1>6
  <2>2. (h + k) % c # g
    BY <1>0, <1>1, <2>1, SpotsApart
  <2>3. (h + k) % c \in 0..(c - 1)
    BY <2>1, SpotIn
  <2>4. D[(h + k) % c] = s[k + 1]
    BY <2>1 DEF Holds
  <2> QED
    BY <1>3, <1>4, <2>1, <2>2, <2>3, <2>4
<1>7. Holds(E, c, h, t)
  BY <1>6 DEF Holds
<1> QED
  BY <1>1, <1>5, <1>7 DEF E, t

-----------------------------------------------------------------------------
(* The queue as a ring of the sequence s                                   *)

OnRing(c, D, h, t, s) ==
    /\ c \in Nat \ {0} /\ c <= QueueMaxCap
    /\ D \in [0..(c - 1) -> Cell]
    /\ h \in 0..(c - 1) /\ t = (h + Len(s)) % c
    /\ s \in Seq(Elements) /\ Len(s) <= c
    /\ Holds(D, c, h, s)

(* QueueArray has no size; only growing pushes fill the last cell.         *)
IsRing(k, c, D, h, t, n, s) ==
    /\ OnRing(c, D, h, t, s)
    /\ n = IF k = "array" THEN 0 ELSE Len(s)
    /\ k # "grow" => Len(s) < c

(* A growing queue that was never pushed to has no array.                  *)
NoArray ==
    /\ qKind = "grow" /\ m_cap = 0 /\ m_size = 0 /\ m_headI = 0 /\ m_tailI = 0
    /\ m_pData = Queue!Cells(0)

IInv == \/ NoArray
        \/ IsRing(qKind, m_cap, m_pData, m_headI, m_tailI, m_size, Queue!Forward)

(* A ring of s has the length of s, counted or read off the indices, and   *)
(* its cells are those of s.                                               *)
LEMMA RingMeasures ==
    ASSUME NEW k, NEW c, NEW D, NEW h, NEW t, NEW n, NEW s,
           IsRing(k, c, D, h, t, n, s)
    PROVE  /\ Len(s) = IF k = "array" THEN IF c = 0 THEN 0 ELSE (t - h) % c ELSE n
           /\ s = [j \in 1..Len(s) |-> D[(h + j - 1) % c]]
<1>1. /\ c \in Nat \ {0} /\ h \in 0..(c - 1) /\ h \in Int
      /\ s \in Seq(Elements) /\ Len(s) \in Nat /\ Len(s) <= c
      /\ t = (h + Len(s)) % c
      /\ n = IF k = "array" THEN 0 ELSE Len(s)
      /\ k # "grow" => Len(s) < c
  BY DEF IsRing, OnRing
<1>2. ASSUME k = "array" PROVE Len(s) = (t - h) % c
  <2>1. Len(s) < c
    BY <1>1, <1>2
  <2>2. /\ h + Len(s) \in Int /\ -h \in Int
        /\ (h + Len(s)) + -h = Len(s) /\ Len(s) \in 0..(c - 1)
    BY <1>1, <2>1
  <2>3. (t + -h) % c = Len(s)
    BY <1>1, <2>2, ModAddMod, SpotSmall
  <2>4. t \in Int
    BY <1>1, <2>2, SpotIn
  <2>5. t + -h = t - h
    BY <1>1, <2>4
  <2> QED
    BY <1>1, <1>2, <2>3, <2>5
<1>3. ASSUME NEW j \in 1..Len(s)
      PROVE  D[(h + j - 1) % c] = s[j]
  <2>1. /\ j - 1 \in 0..(Len(s) - 1) /\ (j - 1) + 1 = j
        /\ h + j - 1 = h + (j - 1)
    BY <1>1, <1>3
  <2>2. D[(h + (j - 1)) % c] = s[(j - 1) + 1]
    BY <2>1 DEF IsRing, OnRing, Holds
  <2> QED
    BY <2>1, <2>2
<1>4. s = [j \in 1..Len(s) |-> s[j]]
  BY <1>1
<1> QED
  BY <1>1, <1>2, <1>3, <1>4

LEMMA RingReads ==
    ASSUME NEW s, IsRing(qKind, m_cap, m_pData, m_headI, m_tailI, m_size, s)
    PROVE  Queue!Length = Len(s) /\ Queue!Forward = s
BY RingMeasures DEF Queue!Length, Queue!Forward

(* So the sequence a step leaves in the ring is what it shows next.        *)
LEMMA RingNext ==
    ASSUME NEW s, IsRing(qKind', m_cap', m_pData', m_headI', m_tailI', m_size', s)
    PROVE  IInv' /\ Queue!Forward' = s
<1>1. Queue!Length' = Len(s)
  BY RingMeasures DEF Queue!Length
<1>2. Queue!Forward' = s
  BY <1>1, RingMeasures DEF Queue!Forward
<1> QED
  BY <1>2 DEF IInv

LEMMA NothingThere ==
    ASSUME NoArray
    PROVE  Queue!Length = 0 /\ Queue!Forward = <<>>
BY DEF NoArray, Queue!Length, Queue!Forward

(* empty() tells whether there is nothing.                                 *)
LEMMA EmptyTells ==
    ASSUME IInv
    PROVE  /\ Queue!empty <=> Queue!Forward = <<>>
           /\ ~Queue!empty => IsRing(qKind, m_cap, m_pData, m_headI, m_tailI, m_size, Queue!Forward)
<1>1. CASE NoArray
  BY <1>1, NothingThere DEF NoArray, Queue!empty
<1>2. CASE IsRing(qKind, m_cap, m_pData, m_headI, m_tailI, m_size, Queue!Forward)
  <2> DEFINE s == Queue!Forward
  <2>1. /\ m_cap \in Nat \ {0} /\ m_headI \in 0..(m_cap - 1) /\ m_headI \in Int
        /\ s \in Seq(Elements) /\ Len(s) \in Nat
        /\ m_tailI = (m_headI + Len(s)) % m_cap
        /\ m_size = IF qKind = "array" THEN 0 ELSE Len(s)
        /\ qKind # "grow" => Len(s) < m_cap
        /\ Len(s) = 0 <=> s = <<>>
    BY <1>2 DEF IsRing, OnRing
  <2> HIDE DEF s
  <2>2. CASE qKind # "array"
    BY <1>2, <2>1, <2>2 DEF Queue!empty, s
  <2>3. CASE qKind = "array"
    <3>1. CASE Len(s) = 0
      BY <1>2, <2>1, <2>3, <3>1, SpotSmall DEF Queue!empty, s
    <3>2. CASE Len(s) # 0
      <4>1. 0 \in Int /\ 0 < Len(s) /\ Len(s) \in Int /\ Len(s) < 0 + m_cap
            /\ m_headI + 0 = m_headI
        BY <2>1, <2>3, <3>2
      <4>2. (m_headI + 0) % m_cap # (m_headI + Len(s)) % m_cap
        BY <2>1, <4>1, SpotsApart
      <4>3. m_headI # m_tailI
        BY <2>1, <4>1, <4>2, SpotSmall
      <4> QED
        BY <1>2, <2>1, <2>3, <3>2, <4>3 DEF Queue!empty, s
    <3> QED
      BY <3>1, <3>2
  <2> QED
    BY <2>2, <2>3
<1> QED
  BY <1>1, <1>2 DEF IInv

-----------------------------------------------------------------------------
(* grow()                                                                  *)

(* A full ring of m_cap cells, unrolled: from the second half on lie its   *)
(* elements, in a ring twice as large.                                     *)
LEMMA GrowthUnrolls ==
    ASSUME m_cap > 0, m_size >= m_cap, qKind = "grow",
           IsRing(qKind, m_cap, m_pData, m_headI, m_tailI, m_size, Queue!Forward)
    PROVE  /\ Len(Queue!Forward) = m_cap
           /\ Queue!Grown.cap = 2 * m_cap /\ Queue!Grown.head = m_cap /\ Queue!Grown.tail = 0
           /\ Queue!Grown.data \in [0..(2 * m_cap - 1) -> Cell]
           /\ Holds(Queue!Grown.data, 2 * m_cap, m_cap, Queue!Forward)
<1> DEFINE c == m_cap
           h == m_headI
           s == Queue!Forward
           E == Queue!Grown.data
<1>1. /\ c \in Nat \ {0} /\ m_pData \in [0..(c - 1) -> Cell]
      /\ h \in 0..(c - 1) /\ h \in Int
      /\ s \in Seq(Elements) /\ Len(s) = c /\ m_size = c
      /\ m_tailI = (h + c) % c
      /\ Holds(m_pData, c, h, s)
  BY DEF IsRing, OnRing
<1>2. m_tailI = h
  BY <1>1, ModAdd, SpotSmall
<1> HIDE DEF c, h, s
<1>3. /\ Queue!Grown.cap = 2 * c /\ Queue!Grown.head = c /\ Queue!Grown.tail = 0
      /\ E = [i \in 0..(2 * c - 1) |->
                 IF i < c THEN m_pData[i]
                 ELSE IF i - c < c - h THEN m_pData[h + i - c]
                 ELSE m_pData[i - c - (c - h)]]
  BY <1>1, <1>2 DEF Queue!Grown, c, h
<1>4. ASSUME NEW i \in 0..(2 * c - 1)
      PROVE  E[i] \in Cell
  <2>1. CASE i < c
    <3>1. i \in 0..(c - 1)
      BY <1>1, <2>1
    <3> QED
      BY <1>1, <1>3, <2>1, <3>1
  <2>2. CASE ~(i < c) /\ i - c < c - h
    <3>1. h + i - c \in 0..(c - 1)
      BY <1>1, <2>2
    <3> QED
      BY <1>1, <1>3, <2>2, <3>1
  <2>3. CASE ~(i < c) /\ ~(i - c < c - h)
    <3>1. i - c - (c - h) \in 0..(c - 1)
      BY <1>1, <2>3
    <3> QED
      BY <1>1, <1>3, <2>3, <3>1
  <2> QED
    BY <2>1, <2>2, <2>3
<1>5. E \in [0..(2 * c - 1) -> Cell]
  BY <1>3, <1>4
<1>6. ASSUME NEW k \in 0..(Len(s) - 1)
      PROVE  E[(c + k) % (2 * c)] = s[k + 1]
  <2>1. /\ 2 * c \in Nat \ {0} /\ c + k \in 0..(2 * c - 1) /\ ~(c + k < c)
        /\ (c + k) - c = k /\ k \in 0..(c - 1) /\ h + k \in Int /\ k \in Int
    BY <1>1
  <2>2. (c + k) % (2 * c) = c + k
    BY <2>1, SpotSmall
  <2>3. m_pData[(h + k) % c] = s[k + 1]
    BY <1>1 DEF Holds
  <2>4. CASE k < c - h
    <3>1. h + k \in 0..(c - 1) /\ h + (c + k) - c = h + k
      BY <1>1, <2>1, <2>4
    <3>2. (h + k) % c = h + k
      BY <1>1, <3>1, SpotSmall
    <3>3. E[c + k] = m_pData[h + (c + k) - c]
      BY <1>3, <2>1, <2>4
    <3> QED
      BY <2>2, <2>3, <3>1, <3>2, <3>3
  <2>5. CASE ~(k < c - h)
    <3>1. /\ h + k - c \in 0..(c - 1) /\ h + k - c \in Int
          /\ (c + k) - c - (c - h) = h + k - c /\ (h + k - c) + c = h + k
      BY <1>1, <2>1, <2>5
    <3>2. (h + k) % c = h + k - c
      BY <1>1, <3>1, SpotSmall, ModAdd
    <3>3. E[c + k] = m_pData[(c + k) - c - (c - h)]
      BY <1>3, <2>1, <2>5
    <3> QED
      BY <2>2, <2>3, <3>1, <3>2, <3>3
  <2> QED
    BY <2>4, <2>5
<1> QED
  BY <1>1, <1>3, <1>5, <1>6 DEF Holds, c, h, s

(* What a push of Queue finds: a ring of the elements with a free cell.    *)
LEMMA RoomIsMade ==
    ASSUME QueueSizes, IInv, qKind = "grow", Queue!Room.cap <= QueueMaxCap
    PROVE  /\ OnRing(Queue!Room.cap, Queue!Room.data, Queue!Room.head, Queue!Room.tail,
                     Queue!Forward)
           /\ Len(Queue!Forward) < Queue!Room.cap /\ m_size = Len(Queue!Forward)
<1>1. CASE NoArray
  <2>1. /\ Queue!Room.cap = 2 /\ Queue!Room.data = [i \in 0..1 |-> Junk]
        /\ Queue!Room.head = 0 /\ Queue!Room.tail = 0
    BY <1>1 DEF NoArray, Queue!Room, Queue!Grown
  <2>2. Queue!Forward = <<>> /\ m_size = 0
    BY <1>1, NothingThere DEF NoArray
  <2>3. 2 \in Nat \ {0} /\ 0 \in 0..(2 - 1) /\ 0 + 0 = 0
    OBVIOUS
  <2>4. (0 + 0) % 2 = 0
    BY <2>3, SpotSmall
  <2> QED
    BY <2>1, <2>2, <2>4 DEF Holds, Cell, OnRing
<1>2. CASE IsRing(qKind, m_cap, m_pData, m_headI, m_tailI, m_size, Queue!Forward)
  <2>1. /\ m_cap \in Nat \ {0} /\ Queue!Forward \in Seq(Elements) /\ Len(Queue!Forward) \in Nat
        /\ m_size = Len(Queue!Forward)
    BY <1>2 DEF IsRing, OnRing
  <2>2. CASE m_size >= m_cap
    <3>1. Queue!Room = Queue!Grown
      BY <2>2 DEF Queue!Room
    <3>2. 2 * m_cap \in Nat \ {0} /\ m_cap \in 0..(2 * m_cap - 1) /\ m_cap < 2 * m_cap
          /\ m_cap + m_cap = 0 + 2 * m_cap /\ 0 \in 0..(2 * m_cap - 1) /\ 0 \in Int
      BY <2>1
    <3>3. (m_cap + m_cap) % (2 * m_cap) = 0
      BY <3>2, ModAdd, SpotSmall
    <3>4. 2 * m_cap <= QueueMaxCap
      BY <1>2, <2>2, <3>1, GrowthUnrolls, <2>1
    <3> QED
      BY <1>2, <2>1, <2>2, <3>1, <3>2, <3>3, <3>4, GrowthUnrolls DEF OnRing
  <2>3. CASE ~(m_size >= m_cap)
    <3>1. Queue!Room = Queue!AsIs
      BY <2>3 DEF Queue!Room
    <3> QED
      BY <1>2, <2>1, <2>3, <3>1 DEF Queue!AsIs, IsRing, OnRing
  <2> QED
    BY <2>2, <2>3
<1> QED
  BY <1>1, <1>2 DEF IInv

-----------------------------------------------------------------------------
(* What a push or a pop does to a ring                                     *)

LEMMA PushedBack ==
    ASSUME NEW c, NEW D, NEW h, NEW t, NEW s, NEW x \in Elements,
           OnRing(c, D, h, t, s), Len(s) < c
    PROVE  OnRing(c, [D EXCEPT ![t] = x], h, (t + 1) % c, Append(s, x))
<1> DEFINE u == Append(s, x)
<1>1. /\ c \in Nat \ {0} /\ D \in [0..(c - 1) -> Cell] /\ h \in 0..(c - 1)
      /\ h \in Int /\ t = (h + Len(s)) % c /\ s \in Seq(Elements)
      /\ Len(s) \in Nat /\ Holds(D, c, h, s) /\ c <= QueueMaxCap
  BY DEF OnRing
<1>2. s \in Seq(Cell) /\ x \in Cell /\ u \in Seq(Elements) /\ Len(u) = Len(s) + 1
  BY <1>1 DEF Cell
<1> HIDE DEF u
<1>3. Holds([D EXCEPT ![t] = x], c, h, u)
  BY <1>1, <1>2, PutBack DEF u
<1>4. /\ h + Len(s) \in Int /\ 1 \in Int /\ (h + Len(s)) + 1 = h + Len(u)
      /\ Len(u) <= c
  BY <1>1, <1>2
<1>5. (t + 1) % c = (h + Len(u)) % c
  BY <1>1, <1>4, ModAddMod
<1>6. [D EXCEPT ![t] = x] \in [0..(c - 1) -> Cell]
  BY <1>1, <1>2
<1> QED
  BY <1>1, <1>2, <1>3, <1>4, <1>5, <1>6 DEF OnRing, u

LEMMA PushedFront ==
    ASSUME NEW c, NEW D, NEW h, NEW t, NEW s, NEW x \in Elements,
           OnRing(c, D, h, t, s), Len(s) < c
    PROVE  OnRing(c, [D EXCEPT ![(h - 1) % c] = x], (h - 1) % c, t, <<x>> \o s)
<1> DEFINE u == <<x>> \o s
           g == (h - 1) % c
<1>1. /\ c \in Nat \ {0} /\ D \in [0..(c - 1) -> Cell] /\ h \in 0..(c - 1)
      /\ h \in Int /\ h - 1 \in Int /\ t = (h + Len(s)) % c /\ s \in Seq(Elements)
      /\ Len(s) \in Nat /\ Holds(D, c, h, s) /\ c <= QueueMaxCap
  BY DEF OnRing
<1>2. s \in Seq(Cell) /\ x \in Cell /\ u \in Seq(Elements) /\ Len(u) = Len(s) + 1
  BY <1>1 DEF Cell
<1>3. g \in 0..(c - 1) /\ g \in Int
  BY <1>1, SpotIn
<1>4. Holds([D EXCEPT ![g] = x], c, g, u) /\ (g + Len(s) + 1) % c = t
  <2>1. Holds([D EXCEPT ![g] = x], c, g, u)
    BY <1>1, <1>2, PutFront
  <2>2. (g + Len(s) + 1) % c = t
    BY <1>1, <1>2, PutFront
  <2> QED
    BY <2>1, <2>2
<1>5. [D EXCEPT ![g] = x] \in [0..(c - 1) -> Cell]
  BY <1>1, <1>2
<1> HIDE DEF u, g
<1>6. g + Len(s) + 1 = g + Len(u) /\ Len(u) <= c
  BY <1>1, <1>2, <1>3
<1> QED
  BY <1>1, <1>2, <1>3, <1>4, <1>5, <1>6 DEF OnRing, u, g

LEMMA PoppedFront ==
    ASSUME QueueSizes, NEW c, NEW D, NEW h, NEW t, NEW s,
           OnRing(c, D, h, t, s), s # <<>>
    PROVE  /\ D[h] = Head(s)
           /\ OnRing(c, [D EXCEPT ![h] = Junk], (h + 1) % c, t, Tail(s))
           /\ Len(Tail(s)) = Len(s) - 1
<1> DEFINE u == Tail(s)
           g == (h + 1) % c
<1>1. /\ c \in Nat \ {0} /\ D \in [0..(c - 1) -> Cell] /\ h \in 0..(c - 1)
      /\ h \in Int /\ h + 1 \in Int /\ t = (h + Len(s)) % c /\ s \in Seq(Elements)
      /\ Len(s) \in Nat /\ Len(s) <= c /\ Holds(D, c, h, s) /\ c <= QueueMaxCap
  BY DEF OnRing
<1>2. s \in Seq(Cell) /\ Junk \in Cell /\ u \in Seq(Elements) /\ Len(u) = Len(s) - 1
  BY <1>1 DEF Cell
<1>3. g \in 0..(c - 1) /\ g \in Int
  BY <1>1, SpotIn
<1>4. /\ D[h] = Head(s) /\ Holds([D EXCEPT ![h] = Junk], c, g, u)
      /\ (g + Len(s) - 1) % c = t
  <2>1. D[h] = Head(s)
    BY <1>1, <1>2, TakeFront
  <2>2. Holds([D EXCEPT ![h] = Junk], c, g, u)
    BY <1>1, <1>2, TakeFront
  <2>3. (g + Len(s) - 1) % c = t
    BY <1>1, <1>2, TakeFront
  <2> QED
    BY <2>1, <2>2, <2>3
<1>5. [D EXCEPT ![h] = Junk] \in [0..(c - 1) -> Cell]
  BY <1>1, <1>2
<1> HIDE DEF u, g
<1>6. g + Len(s) - 1 = g + Len(u) /\ Len(u) <= c
  BY <1>1, <1>2, <1>3
<1> QED
  BY <1>1, <1>2, <1>3, <1>4, <1>5, <1>6 DEF OnRing, u, g

LEMMA PoppedBack ==
    ASSUME QueueSizes, NEW c, NEW D, NEW h, NEW t, NEW s,
           OnRing(c, D, h, t, s), s # <<>>,
           NEW g, g = (t - 1) % c
    PROVE  /\ D[g] = s[Len(s)]
           /\ OnRing(c, [D EXCEPT ![g] = Junk], h, g, SubSeq(s, 1, Len(s) - 1))
           /\ Len(SubSeq(s, 1, Len(s) - 1)) = Len(s) - 1
<1> DEFINE u == SubSeq(s, 1, Len(s) - 1)
<1>1. /\ c \in Nat \ {0} /\ D \in [0..(c - 1) -> Cell] /\ h \in 0..(c - 1)
      /\ h \in Int /\ t = (h + Len(s)) % c /\ s \in Seq(Elements)
      /\ Len(s) \in Nat /\ Len(s) <= c /\ Holds(D, c, h, s) /\ c <= QueueMaxCap
  BY DEF OnRing
<1>2. s \in Seq(Cell) /\ Junk \in Cell /\ u \in Seq(Elements) /\ Len(u) = Len(s) - 1
  <2>1. s \in Seq(Cell) /\ Junk \in Cell
    BY <1>1 DEF Cell
  <2>2. Len(s) - 1 \in 0..Len(s)
    BY <1>1
  <2>3. u \in Seq(Elements)
    BY <1>1, <2>2
  <2>4. Len(u) = Len(s) - 1
    BY <1>1, <2>2
  <2> QED
    BY <2>1, <2>3, <2>4
<1>3. /\ D[g] = s[Len(s)] /\ Holds([D EXCEPT ![g] = Junk], c, h, u)
      /\ g = (h + (Len(s) - 1)) % c
  <2>1. g = (((h + Len(s)) % c) - 1) % c
    BY <1>1
  <2> QED
    <3>1. /\ c \in Nat \ {0} /\ D \in [0..(c - 1) -> Cell] /\ h \in Int
          /\ s \in Seq(Cell) /\ s # <<>> /\ Len(s) <= c /\ Holds(D, c, h, s)
          /\ Junk \in Cell
      BY <1>1, <1>2
    <3>2. D[g] = s[Len(s)]
      BY <2>1, <3>1, TakeBack
    <3>3. Holds([D EXCEPT ![g] = Junk], c, h, u)
      BY <2>1, <3>1, TakeBack
    <3>4. g = (h + (Len(s) - 1)) % c
      BY <2>1, <3>1, TakeBack
    <3> QED
      BY <3>2, <3>3, <3>4
<1>4. [D EXCEPT ![g] = Junk] \in [0..(c - 1) -> Cell]
  BY <1>1, <1>2
<1> HIDE DEF u
<1>5. g = (h + Len(u)) % c /\ Len(u) <= c
  BY <1>1, <1>2, <1>3
<1> QED
  BY <1>1, <1>2, <1>3, <1>4, <1>5 DEF OnRing, u

(* What holds of the cells' number and indices when a push that does not   *)
(* grow finds a free one.                                                  *)
LEMMA OneIsFree ==
    ASSUME NEW c, NEW D, NEW h, NEW t, NEW s, OnRing(c, D, h, t, s), Len(s) < c
    PROVE  /\ (t + 1) % c # h => Len(s) + 1 < c
           /\ (h - 1) % c # t => Len(s) + 1 < c
<1>1. /\ c \in Nat \ {0} /\ h \in 0..(c - 1) /\ h \in Int
      /\ t = (h + Len(s)) % c /\ s \in Seq(Elements) /\ Len(s) \in Nat
  BY DEF OnRing
<1>2. SUFFICES ASSUME Len(s) + 1 = c
               PROVE  (t + 1) % c = h /\ (h - 1) % c = t
  BY <1>1
<1>3. /\ h + Len(s) \in Int /\ 1 \in Int /\ h + Len(s) + 1 = h + c
      /\ h - 1 \in Int /\ (h - 1) + c = h + Len(s)
  BY <1>1, <1>2
<1>4. (t + 1) % c = h
  <2>1. (t + 1) % c = ((h + Len(s)) + 1) % c
    BY <1>1, <1>3, ModAddMod
  <2>2. (h + c) % c = h
    BY <1>1, ModAdd, SpotSmall
  <2> QED
    BY <1>3, <2>1, <2>2
<1>5. (h - 1) % c = t
  BY <1>1, <1>3, ModAdd
<1> QED
  BY <1>4, <1>5

-----------------------------------------------------------------------------
(* The steps                                                               *)

LEMMA EmplaceBackStep ==
    ASSUME QueueSizes, IInv, NEW x \in Elements, Queue!EmplaceBack(x)
    PROVE  IInv' /\ Queue!HasRoom(Queue!Forward, x) /\ Queue!Contract!PushBack(x)
<1> DEFINE q == Queue!Room
<1>1. /\ qKind = "grow" /\ qKind' = qKind /\ popped' = popped /\ q.cap <= QueueMaxCap
      /\ m_cap' = q.cap /\ m_headI' = q.head /\ m_size' = m_size + 1
      /\ m_pData' = [q.data EXCEPT ![q.tail] = x]
      /\ m_tailI' = (q.tail + 1) % q.cap
  BY DEF Queue!EmplaceBack
<1>2. /\ OnRing(q.cap, q.data, q.head, q.tail, Queue!Forward)
      /\ Len(Queue!Forward) < q.cap /\ m_size = Len(Queue!Forward)
  BY <1>1, RoomIsMade
<1> HIDE DEF q
<1>3. OnRing(m_cap', m_pData', m_headI', m_tailI', Append(Queue!Forward, x))
  BY <1>1, <1>2, PushedBack
<1>4. Len(Append(Queue!Forward, x)) = Len(Queue!Forward) + 1
  BY <1>2 DEF OnRing
<1>5. IsRing(qKind', m_cap', m_pData', m_headI', m_tailI', m_size', Append(Queue!Forward, x))
  BY <1>1, <1>2, <1>3, <1>4 DEF IsRing
<1>6. Queue!HasRoom(Queue!Forward, x)
  <2>1. q.cap \in Nat /\ Len(Queue!Forward) \in Nat /\ q.cap <= QueueMaxCap /\ QueueMaxCap \in Nat
    BY <1>1, <1>2 DEF OnRing, QueueSizes
  <2> QED
    BY <1>2, <2>1 DEF Queue!HasRoom
<1> QED
  BY <1>1, <1>5, <1>6, RingNext DEF Queue!Contract!PushBack

LEMMA EmplaceFrontStep ==
    ASSUME QueueSizes, IInv, NEW x \in Elements, Queue!EmplaceFront(x)
    PROVE  IInv' /\ Queue!HasRoom(Queue!Forward, x) /\ Queue!Contract!PushFront(x)
<1> DEFINE q == Queue!Room
<1>1. /\ qKind = "grow" /\ qKind' = qKind /\ popped' = popped /\ q.cap <= QueueMaxCap
      /\ m_cap' = q.cap /\ m_headI' = (q.head - 1) % q.cap /\ m_size' = m_size + 1
      /\ m_pData' = [q.data EXCEPT ![(q.head - 1) % q.cap] = x]
      /\ m_tailI' = q.tail
  BY DEF Queue!EmplaceFront
<1>2. /\ OnRing(q.cap, q.data, q.head, q.tail, Queue!Forward)
      /\ Len(Queue!Forward) < q.cap /\ m_size = Len(Queue!Forward)
  BY <1>1, RoomIsMade
<1> HIDE DEF q
<1>3. OnRing(m_cap', m_pData', m_headI', m_tailI', <<x>> \o Queue!Forward)
  BY <1>1, <1>2, PushedFront
<1>4. Len(<<x>> \o Queue!Forward) = Len(Queue!Forward) + 1
  BY <1>2 DEF OnRing
<1>5. IsRing(qKind', m_cap', m_pData', m_headI', m_tailI', m_size', <<x>> \o Queue!Forward)
  BY <1>1, <1>2, <1>3, <1>4 DEF IsRing
<1>6. Queue!HasRoom(Queue!Forward, x)
  <2>1. q.cap \in Nat /\ Len(Queue!Forward) \in Nat /\ q.cap <= QueueMaxCap /\ QueueMaxCap \in Nat
    BY <1>1, <1>2 DEF OnRing, QueueSizes
  <2> QED
    BY <1>2, <2>1 DEF Queue!HasRoom
<1> QED
  BY <1>1, <1>5, <1>6, RingNext DEF Queue!Contract!PushFront

(* The pushes of both classes that find room or refuse.                    *)
LEMMA PushBackStep ==
    ASSUME QueueSizes, IInv, NEW x \in Elements, Queue!EmplaceBackNoGrow(x) \/ Queue!PushBack(x)
    PROVE  IInv' /\ Queue!HasRoom(Queue!Forward, x) /\ Queue!Contract!PushBack(x)
<1>1. /\ qKind \in {"noGrow", "array"} /\ qKind' = qKind /\ popped' = popped
      /\ (m_tailI + 1) % m_cap # m_headI
      /\ m_cap' = m_cap /\ m_headI' = m_headI
      /\ m_size' = IF qKind = "array" THEN m_size ELSE m_size + 1
      /\ m_pData' = [m_pData EXCEPT ![m_tailI] = x]
      /\ m_tailI' = (m_tailI + 1) % m_cap
  BY DEF Queue!EmplaceBackNoGrow, Queue!PushBack, Queue!nextI
<1>2. /\ OnRing(m_cap, m_pData, m_headI, m_tailI, Queue!Forward) /\ Len(Queue!Forward) < m_cap
      /\ m_size = IF qKind = "array" THEN 0 ELSE Len(Queue!Forward)
  BY <1>1 DEF IInv, NoArray, IsRing
<1>3. OnRing(m_cap', m_pData', m_headI', m_tailI', Append(Queue!Forward, x))
  BY <1>1, <1>2, PushedBack
<1>4. Len(Append(Queue!Forward, x)) = Len(Queue!Forward) + 1
  BY <1>2 DEF OnRing
<1>5. Len(Queue!Forward) + 1 < m_cap
  BY <1>1, <1>2, OneIsFree
<1>6. IsRing(qKind', m_cap', m_pData', m_headI', m_tailI', m_size', Append(Queue!Forward, x))
  BY <1>1, <1>2, <1>3, <1>4, <1>5 DEF IsRing
<1>7. Queue!HasRoom(Queue!Forward, x)
  <2>1. m_cap \in Nat /\ Len(Queue!Forward) \in Nat /\ m_cap <= QueueMaxCap /\ QueueMaxCap \in Nat
    BY <1>1, <1>2 DEF OnRing, QueueSizes
  <2> QED
    BY <1>2, <2>1 DEF Queue!HasRoom
<1> QED
  BY <1>1, <1>6, <1>7, RingNext DEF Queue!Contract!PushBack

LEMMA PushFrontStep ==
    ASSUME QueueSizes, IInv, NEW x \in Elements, Queue!EmplaceFrontNoGrow(x) \/ Queue!PushFront(x)
    PROVE  IInv' /\ Queue!HasRoom(Queue!Forward, x) /\ Queue!Contract!PushFront(x)
<1>1. /\ qKind \in {"noGrow", "array"} /\ qKind' = qKind /\ popped' = popped
      /\ (m_headI - 1) % m_cap # m_tailI
      /\ m_cap' = m_cap /\ m_tailI' = m_tailI
      /\ m_size' = IF qKind = "array" THEN m_size ELSE m_size + 1
      /\ m_pData' = [m_pData EXCEPT ![(m_headI - 1) % m_cap] = x]
      /\ m_headI' = (m_headI - 1) % m_cap
  BY DEF Queue!EmplaceFrontNoGrow, Queue!PushFront, Queue!prevI
<1>2. /\ OnRing(m_cap, m_pData, m_headI, m_tailI, Queue!Forward) /\ Len(Queue!Forward) < m_cap
      /\ m_size = IF qKind = "array" THEN 0 ELSE Len(Queue!Forward)
  BY <1>1 DEF IInv, NoArray, IsRing
<1>3. OnRing(m_cap', m_pData', m_headI', m_tailI', <<x>> \o Queue!Forward)
  BY <1>1, <1>2, PushedFront
<1>4. Len(<<x>> \o Queue!Forward) = Len(Queue!Forward) + 1
  BY <1>2 DEF OnRing
<1>5. Len(Queue!Forward) + 1 < m_cap
  BY <1>1, <1>2, OneIsFree
<1>6. IsRing(qKind', m_cap', m_pData', m_headI', m_tailI', m_size', <<x>> \o Queue!Forward)
  BY <1>1, <1>2, <1>3, <1>4, <1>5 DEF IsRing
<1>7. Queue!HasRoom(Queue!Forward, x)
  <2>1. m_cap \in Nat /\ Len(Queue!Forward) \in Nat /\ m_cap <= QueueMaxCap /\ QueueMaxCap \in Nat
    BY <1>1, <1>2 DEF OnRing, QueueSizes
  <2> QED
    BY <1>2, <2>1 DEF Queue!HasRoom
<1> QED
  BY <1>1, <1>6, <1>7, RingNext DEF Queue!Contract!PushFront

LEMMA PopFrontStep ==
    ASSUME QueueSizes, IInv, Queue!PopFront
    PROVE  IInv' /\ Queue!Contract!PopFront
<1> DEFINE s == Queue!Forward
<1>1. /\ ~Queue!empty /\ popped' = <<m_pData[m_headI]>> /\ qKind' = qKind
      /\ m_cap' = m_cap /\ m_tailI' = m_tailI
      /\ m_size' = IF qKind = "array" THEN m_size ELSE m_size - 1
      /\ m_pData' = [m_pData EXCEPT ![m_headI] = Junk]
      /\ m_headI' = (m_headI + 1) % m_cap
  BY DEF Queue!PopFront, Queue!SizeAfterPop, Queue!nextI
<1>2. /\ s # <<>>
      /\ IsRing(qKind, m_cap, m_pData, m_headI, m_tailI, m_size, s)
  BY <1>1, EmptyTells
<1>3. /\ OnRing(m_cap, m_pData, m_headI, m_tailI, s)
      /\ m_size = IF qKind = "array" THEN 0 ELSE Len(s)
      /\ qKind # "grow" => Len(s) < m_cap
      /\ Len(s) \in Nat /\ m_cap \in Nat
  BY <1>2 DEF IsRing, OnRing
<1> HIDE DEF s
<1>4. /\ m_pData[m_headI] = Head(s)
      /\ OnRing(m_cap', m_pData', m_headI', m_tailI', Tail(s))
      /\ Len(Tail(s)) = Len(s) - 1
  BY <1>1, <1>2, <1>3, PoppedFront
<1>5. IsRing(qKind', m_cap', m_pData', m_headI', m_tailI', m_size', Tail(s))
  BY <1>1, <1>3, <1>4 DEF IsRing
<1> QED
  BY <1>1, <1>2, <1>4, <1>5, RingNext DEF Queue!Contract!PopFront, Queue!Contract!Out, s

LEMMA PopBackStep ==
    ASSUME QueueSizes, IInv, Queue!PopBack
    PROVE  IInv' /\ Queue!Contract!PopBack
<1> DEFINE s == Queue!Forward
           u == SubSeq(s, 1, Len(s) - 1)
           g == (m_tailI - 1) % m_cap
<1>1. /\ ~Queue!empty /\ popped' = <<m_pData[g]>> /\ qKind' = qKind
      /\ m_cap' = m_cap /\ m_headI' = m_headI
      /\ m_size' = IF qKind = "array" THEN m_size ELSE m_size - 1
      /\ m_pData' = [m_pData EXCEPT ![g] = Junk]
      /\ m_tailI' = g
  BY DEF Queue!PopBack, Queue!SizeAfterPop, Queue!prevI
<1>2. /\ s # <<>>
      /\ IsRing(qKind, m_cap, m_pData, m_headI, m_tailI, m_size, s)
  BY <1>1, EmptyTells
<1>3. /\ OnRing(m_cap, m_pData, m_headI, m_tailI, s)
      /\ m_size = IF qKind = "array" THEN 0 ELSE Len(s)
      /\ qKind # "grow" => Len(s) < m_cap
      /\ Len(s) \in Nat /\ m_cap \in Nat
  BY <1>2 DEF IsRing, OnRing
<1> HIDE DEF s, g
<1>4. /\ m_pData[g] = s[Len(s)]
      /\ OnRing(m_cap', m_pData', m_headI', m_tailI', u)
      /\ Len(u) = Len(s) - 1
  <2>1. g = (m_tailI - 1) % m_cap
    BY DEF g
  <2>2. /\ m_pData[g] = s[Len(s)]
        /\ OnRing(m_cap, [m_pData EXCEPT ![g] = Junk], m_headI, g, u)
        /\ Len(u) = Len(s) - 1
    BY <1>2, <1>3, <2>1, PoppedBack
  <2> QED
    BY <1>1, <2>2
<1> HIDE DEF u
<1>5. IsRing(qKind', m_cap', m_pData', m_headI', m_tailI', m_size', u)
  BY <1>1, <1>3, <1>4 DEF IsRing
<1>6. IInv' /\ Queue!Forward' = u
  BY <1>5, RingNext
<1> QED
  BY <1>1, <1>2, <1>4, <1>6 DEF Queue!Contract!PopBack, Queue!Contract!Out, s, u

LEMMA DestroyStep ==
    ASSUME Queue!Destroy
    PROVE  IInv' /\ Queue!Contract!Clear
<1>1. NoArray'
  BY DEF Queue!Destroy, NoArray, Queue!Cells
<1>2. Queue!Forward' = <<>>
  BY <1>1 DEF NoArray, Queue!Forward, Queue!Length
<1> QED
  BY <1>1, <1>2 DEF IInv, Queue!Contract!Clear, Queue!Destroy

-----------------------------------------------------------------------------
(* The invariant, what it implies, and the refinement                      *)

LEMMA InitIInv ==
    ASSUME QueueSizes, Queue!Init
    PROVE  IInv /\ Queue!Contract!Init
<1>1. m_size = 0 /\ m_headI = 0 /\ m_tailI = 0 /\ popped = <<>> /\ m_pData = Queue!Cells(m_cap)
  BY DEF Queue!Init
<1>2. CASE m_cap = 0
  <2>1. qKind = "grow"
    BY <1>2 DEF Queue!Init, QueueSizes
  <2>2. NoArray
    BY <1>1, <1>2, <2>1 DEF NoArray
  <2> QED
    BY <1>1, <2>2, NothingThere DEF IInv, Queue!Contract!Init
<1>3. CASE m_cap # 0
  <2>1. m_cap \in Nat \ {0} /\ m_cap <= QueueMaxCap
    BY <1>3 DEF Queue!Init, QueueSizes
  <2>2. m_pData \in [0..(m_cap - 1) -> Cell] /\ 0 \in 0..(m_cap - 1)
    BY <1>1, <2>1 DEF Queue!Cells, Cell
  <2>3. 0 + Len(<<>>) = 0 /\ <<>> \in Seq(Elements)
    OBVIOUS
  <2>4. 0 % m_cap = 0
    BY <2>1, <2>2, SpotSmall
  <2>5. Holds(m_pData, m_cap, 0, <<>>)
    BY DEF Holds
  <2>6. IsRing(qKind, m_cap, m_pData, m_headI, m_tailI, m_size, <<>>)
    BY <1>1, <2>1, <2>2, <2>3, <2>4, <2>5 DEF IsRing, OnRing
  <2>7. Queue!Forward = <<>>
    BY <2>6, RingReads
  <2> QED
    BY <1>1, <2>6, <2>7 DEF IInv, Queue!Contract!Init
<1> QED
  BY <1>2, <1>3

(* Each step keeps the invariant and is one of a deque.                    *)
LEMMA NextIsDeque ==
    ASSUME QueueSizes, IInv, [Queue!Next]_(Queue!vars)
    PROVE  IInv' /\ [Queue!Contract!NextDeque]_(Queue!Contract!contractVars)
<1>1. CASE UNCHANGED Queue!vars
  <2>1. Queue!Forward' = Queue!Forward /\ Queue!Length' = Queue!Length
    BY <1>1 DEF Queue!vars, Queue!Forward, Queue!Length
  <2>2. IInv'
    BY <1>1, <2>1 DEF Queue!vars, IInv, NoArray
  <2> QED
    BY <1>1, <2>1, <2>2 DEF Queue!vars, Queue!Contract!contractVars
<1>2. ASSUME NEW x \in Elements, Queue!EmplaceBack(x)
      PROVE  IInv' /\ Queue!Contract!NextDeque
  BY <1>2, EmplaceBackStep DEF Queue!Contract!NextDeque
<1>3. ASSUME NEW x \in Elements, Queue!EmplaceFront(x)
      PROVE  IInv' /\ Queue!Contract!NextDeque
  BY <1>3, EmplaceFrontStep DEF Queue!Contract!NextDeque
<1>4. ASSUME NEW x \in Elements, Queue!EmplaceBackNoGrow(x) \/ Queue!PushBack(x)
      PROVE  IInv' /\ Queue!Contract!NextDeque
  BY <1>4, PushBackStep DEF Queue!Contract!NextDeque
<1>5. ASSUME NEW x \in Elements, Queue!EmplaceFrontNoGrow(x) \/ Queue!PushFront(x)
      PROVE  IInv' /\ Queue!Contract!NextDeque
  BY <1>5, PushFrontStep DEF Queue!Contract!NextDeque
<1>6. CASE Queue!PopFront
  BY <1>6, PopFrontStep DEF Queue!Contract!NextDeque
<1>7. CASE Queue!PopBack
  BY <1>7, PopBackStep DEF Queue!Contract!NextDeque
<1>8. CASE Queue!Destroy
  BY <1>8, DestroyStep DEF Queue!Contract!NextDeque
<1> QED
  BY <1>1, <1>2, <1>3, <1>4, <1>5, <1>6, <1>7, <1>8 DEF Queue!Next

(* A ring of s, iterated over backwards.                                   *)
LEMMA BackwardsToo ==
    ASSUME QueueSizes, IInv
    PROVE  Queue!TypeOK /\ Queue!BothWaysAgree
<1>1. CASE NoArray
  <2>1. Queue!Length = 0
    BY <1>1, NothingThere
  <2>2. Queue!BothWaysAgree
    BY <2>1 DEF Queue!BothWaysAgree
  <2> QED
    BY <1>1, <2>2 DEF NoArray, Queue!TypeOK, Queue!Cells, QueueSizes
<1>2. CASE IsRing(qKind, m_cap, m_pData, m_headI, m_tailI, m_size, Queue!Forward)
  <2> DEFINE s == Queue!Forward
  <2>1. /\ m_cap \in Nat \ {0} /\ m_cap <= QueueMaxCap /\ m_cap \in Int
        /\ m_pData \in [0..(m_cap - 1) -> Cell]
        /\ m_headI \in 0..(m_cap - 1) /\ m_headI \in Int
        /\ m_tailI = (m_headI + Len(s)) % m_cap
        /\ s \in Seq(Elements) /\ Len(s) \in Nat /\ Len(s) <= m_cap
        /\ m_size = IF qKind = "array" THEN 0 ELSE Len(s)
        /\ Holds(m_pData, m_cap, m_headI, s)
    BY <1>2 DEF IsRing, OnRing
  <2>2. Queue!Length = Len(s)
    BY <1>2, RingReads
  <2> HIDE DEF s
  <2>3. m_headI + Len(s) \in Int
    BY <2>1
  <2>4. m_tailI \in 0..(m_cap - 1)
    BY <2>1, <2>3, SpotIn
  <2>5. Queue!TypeOK
    BY <2>1, <2>4 DEF Queue!TypeOK, Cell, QueueSizes
  <2>6. ASSUME NEW n \in 1..Len(s)
        PROVE  Queue!Backward[n] = s[Len(s) + 1 - n] /\ s[Len(s) + 1 - n] \in Elements
    <3>1. /\ -n \in Int /\ Len(s) - n \in 0..(Len(s) - 1)
          /\ (Len(s) - n) + 1 = Len(s) + 1 - n /\ Len(s) + 1 - n \in 1..Len(s)
          /\ (m_headI + Len(s)) + -n = m_headI + (Len(s) - n)
          /\ m_tailI - n = m_tailI + -n
      BY <2>1, <2>4, <2>6
    <3>2. (m_tailI + -n) % m_cap = (m_headI + (Len(s) - n)) % m_cap
      <4>1. (m_tailI + -n) % m_cap = ((m_headI + Len(s)) + -n) % m_cap
        BY <2>1, <2>3, <3>1, ModAddMod
      <4> QED
        BY <3>1, <4>1
    <3>3. m_pData[(m_headI + (Len(s) - n)) % m_cap] = s[(Len(s) - n) + 1]
      BY <2>1, <3>1 DEF Holds
    <3>4. Queue!Backward[n] = m_pData[(m_tailI - n) % m_cap]
      BY <2>2, <2>6 DEF Queue!Backward
    <3>5. Queue!Backward[n] = s[Len(s) + 1 - n]
      BY <3>1, <3>2, <3>3, <3>4
    <3>6. s[Len(s) + 1 - n] \in Elements
      BY <2>1, <3>1
    <3> QED
      BY <3>5, <3>6
  <2>7. Queue!BothWaysAgree
    BY <2>2, <2>6 DEF Queue!BothWaysAgree, s, QueueSizes
  <2> QED
    BY <2>5, <2>7
<1> QED
  BY <1>1, <1>2 DEF IInv

-----------------------------------------------------------------------------


LEMMA Payload ==
    ASSUME RingSizes, NEW m \in Messages
    PROVE  /\ Ring!PayloadSize(m) \in Nat \ {0} /\ Lengths[m] \in Nat
           /\ Ring!PayloadSize(m) = HeaderSize + Lengths[m] /\ HeaderSize \in Nat \ {0}
BY DEF RingSizes, Ring!PayloadSize

-----------------------------------------------------------------------------
(* Where entries end                                                       *)

(* f counts the bytes of the first entries of q, up to n of them.          *)
IsUpTo(f, q, n) ==
    f = [i \in 0..n |-> IF i = 0 THEN 0 ELSE f[i - 1] + Ring!PayloadSize(q[i])]

LEMMA UpToExists ==
    ASSUME NEW q
    PROVE  \A n \in Nat : \E f : IsUpTo(f, q, n)
<1> DEFINE T == {n \in Nat : \E f : IsUpTo(f, q, n)}
<1>1. 0 \in T
  <2>1. IsUpTo([i \in 0..0 |-> 0], q, 0)
    BY DEF IsUpTo
  <2> QED
    BY <2>1
<1>2. ASSUME NEW n \in Nat, n \in T
      PROVE  n + 1 \in T
  <2>1. PICK f : IsUpTo(f, q, n)
    BY <1>2
  <2> DEFINE g == [i \in 0..(n + 1) |->
                     IF i <= n THEN f[i] ELSE f[i - 1] + Ring!PayloadSize(q[i])]
  <2>2. \A i \in 0..n : f[i] = IF i = 0 THEN 0 ELSE f[i - 1] + Ring!PayloadSize(q[i])
    BY <2>1 DEF IsUpTo
  <2>3. \A i \in 0..(n + 1) : g[i] = IF i = 0 THEN 0 ELSE g[i - 1] + Ring!PayloadSize(q[i])
    BY <2>2
  <2>4. IsUpTo(g, q, n + 1)
    BY <2>3 DEF IsUpTo
  <2> QED
    BY <2>4
<1> HIDE DEF T
<1>3. Nat \subseteq T
  BY <1>1, <1>2, NatSetInduction
<1> QED
  BY <1>3 DEF T

LEMMA EndsUnfold ==
    ASSUME NEW q \in Seq(Messages)
    PROVE  \A i \in 0..Len(q) :
              Ring!Ends(q)[i] = IF i = 0 THEN 0 ELSE Ring!Ends(q)[i - 1] + Ring!PayloadSize(q[i])
<1> DEFINE n == Len(q)
           f == CHOOSE f : IsUpTo(f, q, n)
<1>1. n \in Nat
  OBVIOUS
<1>2. IsUpTo(f, q, n)
  BY <1>1, UpToExists
<1>3. Ring!Ends(q) = f
  BY DEF Ring!Ends, IsUpTo
<1> HIDE DEF f, n
<1>4. \A i \in 0..n : f[i] = IF i = 0 THEN 0 ELSE f[i - 1] + Ring!PayloadSize(q[i])
  BY <1>2 DEF IsUpTo
<1> QED
  BY <1>3, <1>4 DEF n

(* Induction over the entries of a sequence.                               *)
LEMMA UpToInduction ==
    ASSUME NEW n \in Nat, NEW T, 0 \in T,
           \A i \in Nat : i \in T /\ i + 1 <= n => i + 1 \in T
    PROVE  0..n \subseteq T
<1> DEFINE S == {i \in Nat : i <= n => i \in T}
<1>1. 0 \in S
  OBVIOUS
<1>2. \A i \in Nat : i \in S => i + 1 \in S
  OBVIOUS
<1> HIDE DEF S
<1>3. Nat \subseteq S
  BY <1>1, <1>2, NatSetInduction
<1> QED
  BY <1>3 DEF S

LEMMA EndsAreNatural ==
    ASSUME RingSizes, NEW q \in Seq(Messages)
    PROVE  \A i \in 0..Len(q) : Ring!Ends(q)[i] \in Nat
<1> DEFINE n == Len(q)
           f == Ring!Ends(q)
           T == {i \in Nat : f[i] \in Nat}
<1>1. n \in Nat /\ \A i \in 1..n : q[i] \in Messages
  OBVIOUS
<1>2. \A i \in 0..n : f[i] = IF i = 0 THEN 0 ELSE f[i - 1] + Ring!PayloadSize(q[i])
  BY EndsUnfold
<1> HIDE DEF f, n
<1>3. 0 \in T
  BY <1>1, <1>2
<1>4. ASSUME NEW i \in Nat, i \in T, i + 1 <= n
      PROVE  i + 1 \in T
  <2>1. q[i + 1] \in Messages /\ i + 1 \in 0..n /\ i + 1 # 0 /\ (i + 1) - 1 = i
    BY <1>1, <1>4
  <2>2. f[i + 1] = f[i] + Ring!PayloadSize(q[i + 1])
    BY <1>2, <2>1
  <2>3. Ring!PayloadSize(q[i + 1]) \in Nat
    BY <2>1, Payload
  <2> QED
    BY <1>4, <2>2, <2>3
<1> HIDE DEF T
<1>5. 0..n \subseteq T
  BY <1>1, <1>3, <1>4, UpToInduction
<1> QED
  BY <1>5 DEF T, n, f

LEMMA EndsGrow ==
    ASSUME RingSizes, NEW q \in Seq(Messages), NEW j \in 0..Len(q)
    PROVE  \A i \in 0..j : Ring!Ends(q)[i] <= Ring!Ends(q)[j]
<1> DEFINE n == Len(q)
           f == Ring!Ends(q)
           T == {k \in Nat : \A i \in 0..k : f[i] <= f[k]}
<1>1. n \in Nat /\ \A i \in 1..n : q[i] \in Messages
  OBVIOUS
<1>2. \A i \in 0..n : f[i] = IF i = 0 THEN 0 ELSE f[i - 1] + Ring!PayloadSize(q[i])
  BY EndsUnfold
<1>3. \A i \in 0..n : f[i] \in Nat
  BY EndsAreNatural
<1> HIDE DEF f, n
<1>4. 0 \in T
  BY <1>1, <1>3
<1>5. ASSUME NEW k \in Nat, k \in T, k + 1 <= n
      PROVE  k + 1 \in T
  <2>1. q[k + 1] \in Messages /\ k + 1 \in 0..n /\ k + 1 # 0 /\ (k + 1) - 1 = k
    BY <1>1, <1>5
  <2>2. f[k + 1] = f[k] + Ring!PayloadSize(q[k + 1])
    BY <1>2, <2>1
  <2>3. Ring!PayloadSize(q[k + 1]) \in Nat
    BY <2>1, Payload
  <2>4. ASSUME NEW i \in 0..(k + 1)
        PROVE  f[i] <= f[k + 1]
    <3>1. f[i] \in Nat /\ f[k] \in Nat /\ f[k + 1] \in Nat
      BY <1>1, <1>3, <1>5, <2>4
    <3>2. CASE i = k + 1
      BY <3>1, <3>2
    <3>3. CASE i # k + 1
      <4>1. f[i] <= f[k]
        BY <1>5, <2>4, <3>3
      <4> QED
        BY <2>2, <2>3, <3>1, <4>1
    <3> QED
      BY <3>2, <3>3
  <2> QED
    BY <2>4
<1> HIDE DEF T
<1>6. 0..n \subseteq T
  BY <1>1, <1>4, <1>5, UpToInduction
<1> QED
  BY <1>6 DEF T, n, f

(* Entries before the last end where they did before it came.              *)
LEMMA EndsAppend ==
    ASSUME RingSizes, NEW q \in Seq(Messages), NEW m \in Messages
    PROVE  /\ \A i \in 0..Len(q) : Ring!Ends(Append(q, m))[i] = Ring!Ends(q)[i]
           /\ Ring!Used(Append(q, m)) = Ring!Used(q) + Ring!PayloadSize(m)
<1> DEFINE n == Len(q)
           r == Append(q, m)
           f == Ring!Ends(q)
           g == Ring!Ends(r)
           T == {i \in Nat : g[i] = f[i]}
<1>1. /\ n \in Nat /\ r \in Seq(Messages) /\ Len(r) = n + 1
      /\ \A i \in 1..n : r[i] = q[i]
      /\ r[n + 1] = m
  OBVIOUS
<1>2. \A i \in 0..n : f[i] = IF i = 0 THEN 0 ELSE f[i - 1] + Ring!PayloadSize(q[i])
  BY EndsUnfold
<1>3. \A i \in 0..(n + 1) : g[i] = IF i = 0 THEN 0 ELSE g[i - 1] + Ring!PayloadSize(r[i])
  BY <1>1, EndsUnfold
<1> HIDE DEF f, g, n, r
<1>4. 0 \in T
  <2>1. 0 \in 0..n /\ 0 \in 0..(n + 1)
    BY <1>1
  <2>2. f[0] = 0 /\ g[0] = 0
    BY <1>2, <1>3, <2>1
  <2> QED
    BY <2>2
<1>5. ASSUME NEW i \in Nat, i \in T, i + 1 <= n
      PROVE  i + 1 \in T
  <2>1. i + 1 \in 0..n /\ i + 1 \in 0..(n + 1) /\ i + 1 # 0 /\ (i + 1) - 1 = i
        /\ i + 1 \in 1..n
    BY <1>1, <1>5
  <2>2. f[i + 1] = f[i] + Ring!PayloadSize(q[i + 1])
    BY <1>2, <2>1
  <2>3. g[i + 1] = g[i] + Ring!PayloadSize(r[i + 1])
    BY <1>3, <2>1
  <2> QED
    BY <1>1, <1>5, <2>1, <2>2, <2>3
<1> HIDE DEF T
<1>6. 0..n \subseteq T
  BY <1>1, <1>4, <1>5, UpToInduction
<1>7. \A i \in 0..n : g[i] = f[i]
  BY <1>6 DEF T
<1>8. g[n + 1] = f[n] + Ring!PayloadSize(m)
  <2>1. n + 1 \in 0..(n + 1) /\ n + 1 # 0 /\ (n + 1) - 1 = n /\ n \in 0..n
    BY <1>1
  <2>2. g[n + 1] = g[n] + Ring!PayloadSize(r[n + 1])
    BY <1>3, <2>1
  <2> QED
    BY <1>1, <1>7, <2>1, <2>2
<1> QED
  BY <1>1, <1>7, <1>8 DEF Ring!Used, f, g, n, r

(* Without its first entry, all others end that much earlier.              *)
LEMMA EndsTail ==
    ASSUME RingSizes, NEW q \in Seq(Messages), q # <<>>
    PROVE  /\ \A i \in 0..(Len(q) - 1) :
                  Ring!Ends(Tail(q))[i] = Ring!Ends(q)[i + 1] - Ring!PayloadSize(q[1])
           /\ Ring!Used(Tail(q)) = Ring!Used(q) - Ring!PayloadSize(q[1])
<1> DEFINE n == Len(q) - 1
           r == Tail(q)
           f == Ring!Ends(q)
           g == Ring!Ends(r)
           T == {i \in Nat : g[i] = f[i + 1] - Ring!PayloadSize(q[1])}
<1>1. /\ n \in Nat /\ Len(q) = n + 1 /\ r \in Seq(Messages) /\ Len(r) = n
      /\ \A i \in 1..n : r[i] = q[i + 1]
      /\ \A i \in 1..(n + 1) : q[i] \in Messages
  BY HeadTailProperties
<1>2. \A i \in 0..(n + 1) : f[i] = IF i = 0 THEN 0 ELSE f[i - 1] + Ring!PayloadSize(q[i])
  BY <1>1, EndsUnfold
<1>3. \A i \in 0..n : g[i] = IF i = 0 THEN 0 ELSE g[i - 1] + Ring!PayloadSize(r[i])
  BY <1>1, EndsUnfold
<1>4. \A i \in 0..(n + 1) : f[i] \in Nat
  BY <1>1, EndsAreNatural
<1>5. \A i \in 1..(n + 1) : Ring!PayloadSize(q[i]) \in Nat
  BY <1>1, Payload
<1> HIDE DEF f, g, n, r
<1>6. 0 \in T
  <2>1. f[0] = 0 /\ f[1] = f[0] + Ring!PayloadSize(q[1]) /\ g[0] = 0
    BY <1>1, <1>2, <1>3
  <2> QED
    BY <1>1, <1>5, <2>1
<1>7. ASSUME NEW i \in Nat, i \in T, i + 1 <= n
      PROVE  i + 1 \in T
  <2>1. /\ i + 1 \in 0..n /\ i + 1 # 0 /\ (i + 1) - 1 = i /\ i + 1 \in 1..n
        /\ (i + 1) + 1 \in 0..(n + 1) /\ (i + 1) + 1 # 0 /\ ((i + 1) + 1) - 1 = i + 1
        /\ i + 1 \in 0..(n + 1) /\ (i + 1) + 1 \in 1..(n + 1) /\ 1 \in 1..(n + 1)
    BY <1>1, <1>7
  <2>2. f[(i + 1) + 1] = f[i + 1] + Ring!PayloadSize(q[(i + 1) + 1])
    BY <1>2, <2>1
  <2>3. g[i + 1] = g[i] + Ring!PayloadSize(r[i + 1]) /\ r[i + 1] = q[(i + 1) + 1]
    BY <1>1, <1>3, <2>1
  <2>4. /\ f[i + 1] \in Nat /\ Ring!PayloadSize(q[(i + 1) + 1]) \in Nat
        /\ Ring!PayloadSize(q[1]) \in Nat
    BY <1>4, <1>5, <2>1
  <2>5. g[i] = f[i + 1] - Ring!PayloadSize(q[1])
    BY <1>7
  <2> QED
    BY <2>2, <2>3, <2>4, <2>5
<1> HIDE DEF T
<1>8. 0..n \subseteq T
  BY <1>1, <1>6, <1>7, UpToInduction
<1>9. \A i \in 0..n : g[i] = f[i + 1] - Ring!PayloadSize(q[1])
  BY <1>8 DEF T
<1> QED
  BY <1>1, <1>9 DEF Ring!Used, f, g, n, r

-----------------------------------------------------------------------------
(* Places around the ring                                                  *)

LEMMA AdvanceIs ==
    ASSUME RingSizes, NEW b \in Ring!Places, NEW j \in 0..RingCap
    PROVE  /\ Ring!Advance(b, j) = IF b + j < RingCap THEN b + j ELSE b + j - RingCap
           /\ Ring!Advance(b, j) \in Ring!Places
<1>1. RingCap \in Nat \ {0} /\ b \in 0..(RingCap - 1) /\ b + j \in Int
  BY DEF RingSizes, Ring!Places
<1>2. CASE b + j < RingCap
  <2>1. b + j \in 0..(RingCap - 1)
    BY <1>1, <1>2
  <2> QED
    BY <1>1, <1>2, <2>1, SpotSmall DEF Ring!Advance, Ring!Places
<1>3. CASE ~(b + j < RingCap)
  <2>1. /\ b + j - RingCap \in 0..(RingCap - 1) /\ b + j - RingCap \in Int
        /\ (b + j - RingCap) + RingCap = b + j
    BY <1>1, <1>3
  <2>2. (b + j) % RingCap = b + j - RingCap
    BY <1>1, <2>1, ModAdd, SpotSmall
  <2> QED
    BY <1>1, <1>3, <2>1, <2>2 DEF Ring!Advance, Ring!Places
<1> QED
  BY <1>2, <1>3

LEMMA AdvanceTwice ==
    ASSUME RingSizes, NEW b \in Int, NEW i \in Int, NEW j \in Int
    PROVE  Ring!Advance(Ring!Advance(b, i), j) = Ring!Advance(b, i + j)
<1>1. RingCap \in Nat \ {0} /\ b + i \in Int /\ (b + i) + j = b + (i + j)
  BY DEF RingSizes
<1>2. (((b + i) % RingCap) + j) % RingCap = ((b + i) + j) % RingCap
  BY <1>1, ModAddMod
<1> QED
  BY <1>1, <1>2 DEF Ring!Advance

(* The bytes of an entry.                                                  *)
LEMMA EntryAt ==
    ASSUME RingSizes, NEW m \in Messages
    PROVE  /\ Len(Ring!Header(m)) = HeaderSize /\ Len(Ring!Text(m)) = Lengths[m]
           /\ \A k \in 1..HeaderSize : Ring!Header(m)[k] = <<m, "header", k>>
           /\ \A k \in 1..Lengths[m] : Ring!Text(m)[k] = <<m, "text", k>>
           /\ \A k \in 1..Ring!PayloadSize(m) :
                 Ring!Entry(m)[k] = IF k <= HeaderSize THEN Ring!Header(m)[k]
                               ELSE Ring!Text(m)[k - HeaderSize]
<1> DEFINE V == Messages \X {"header", "text"} \X Nat
           h == Ring!Header(m)
           t == Ring!Text(m)
<1>1. /\ Ring!PayloadSize(m) = HeaderSize + Lengths[m]
      /\ Lengths[m] \in Nat /\ HeaderSize \in Nat
  BY Payload
<1>2. /\ h \in Seq(V) /\ Len(h) = HeaderSize
      /\ \A k \in 1..HeaderSize : h[k] = <<m, "header", k>>
  BY <1>1 DEF Ring!Header
<1>3. /\ t \in Seq(V) /\ Len(t) = Lengths[m]
      /\ \A k \in 1..Lengths[m] : t[k] = <<m, "text", k>>
  BY <1>1 DEF Ring!Text
<1>4. Ring!Entry(m) = h \o t
  BY DEF Ring!Entry
<1> HIDE DEF h, t, V
<1>5. \A k \in 1..(Len(h) + Len(t)) :
         (h \o t)[k] = IF k <= Len(h) THEN h[k] ELSE t[k - Len(h)]
  BY <1>2, <1>3
<1> QED
  BY <1>1, <1>2, <1>3, <1>4, <1>5 DEF h, t

-----------------------------------------------------------------------------
(* push()                                                                  *)

LEMMA PutAt ==
    ASSUME NEW d, NEW at, NEW of, NEW from, NEW n, NEW i \in Ring!Places
    PROVE  Ring!Put(d, Ring!Copy(at, of, from, n))[i] =
              IF i \in at..(at + n - 1) THEN of[from + i - at + 1] ELSE d[i]
BY DEF Ring!Put, Ring!Copy

(* What push() knows of the ring.                                          *)
LEMMA PushRoom ==
    ASSUME RingSizes, Ring!TypeOK, lastI = Ring!Advance(firstI, size), NEW m \in Messages,
           Ring!Fits(m)
    PROVE  /\ lastI \in 0..(RingCap - 1) /\ RingCap \in Nat \ {0} /\ size \in Nat
           /\ HeaderSize \in Nat \ {0} /\ Lengths[m] \in Nat
           /\ Ring!PayloadSize(m) = HeaderSize + Lengths[m]
           /\ size + Ring!PayloadSize(m) <= RingCap
           /\ lastI < firstI => lastI + Ring!PayloadSize(m) < RingCap
<1>1. /\ firstI \in Ring!Places /\ size \in 0..RingCap /\ RingCap \in Nat \ {0}
      /\ firstI \in 0..(RingCap - 1) /\ lastI \in 0..(RingCap - 1)
  BY DEF Ring!TypeOK, Ring!Places, RingSizes
<1>2. lastI = IF firstI + size < RingCap THEN firstI + size ELSE firstI + size - RingCap
  BY <1>1, AdvanceIs
<1>3. /\ Ring!PayloadSize(m) \in Nat /\ Ring!PayloadSize(m) = HeaderSize + Lengths[m]
      /\ Lengths[m] \in Nat /\ HeaderSize \in Nat \ {0}
  BY Payload
<1>4. size + Ring!PayloadSize(m) <= RingCap
  BY DEF Ring!Fits
<1> QED
  BY <1>1, <1>2, <1>3, <1>4

(* m_pData after the copies of push().                                     *)
Stored(m) ==
    Ring!Put(Ring!Put(Ring!Put(data, Ring!Copies(m)[1]), Ring!Copies(m)[2]), Ring!Copies(m)[3])

(* Three copies, one after the other, seen from one place.                 *)
LEMMA ThreePuts ==
    ASSUME NEW at1, NEW of1, NEW from1, NEW n1, NEW at2, NEW of2, NEW from2, NEW n2,
           NEW at3, NEW of3, NEW from3, NEW n3, NEW i \in Ring!Places
    PROVE  Ring!Put(Ring!Put(Ring!Put(data, Ring!Copy(at1, of1, from1, n1)),
                              Ring!Copy(at2, of2, from2, n2)),
               Ring!Copy(at3, of3, from3, n3))[i] =
              IF i \in at3..(at3 + n3 - 1) THEN of3[from3 + i - at3 + 1]
              ELSE IF i \in at2..(at2 + n2 - 1) THEN of2[from2 + i - at2 + 1]
              ELSE IF i \in at1..(at1 + n1 - 1) THEN of1[from1 + i - at1 + 1]
              ELSE data[i]
BY PutAt

(* The j-th byte behind the last one is of the message, or as it was.      *)
Arrives(m, j, i) ==
    Stored(m)[i] = IF j < Ring!PayloadSize(m) THEN Ring!Entry(m)[j + 1] ELSE data[i]

LEMMA WholeArrives ==
    ASSUME RingSizes, Ring!TypeOK, lastI = Ring!Advance(firstI, size), NEW m \in Messages,
           Ring!Fits(m),
           lastI < firstI,
           NEW j \in 0..(RingCap - 1), NEW i \in Ring!Places,
           i = IF lastI + j < RingCap THEN lastI + j ELSE lastI + j - RingCap
    PROVE  Arrives(m, j, i)
<1> DEFINE a == lastI
           H == HeaderSize
           L == Lengths[m]
           P == Ring!PayloadSize(m)
           h == Ring!Header(m)
           t == Ring!Text(m)
<1>1. /\ a \in 0..(RingCap - 1) /\ RingCap \in Nat \ {0} /\ H \in Nat \ {0} /\ L \in Nat
      /\ P = H + L /\ a + P < RingCap
  BY PushRoom
<1>2. Stored(m) =
          Ring!Put(Ring!Put(Ring!Put(data, Ring!Copy(a, h, 0, H)), Ring!Copy(a + H, t, 0, L)),
                      Ring!Copy(0, <<>>, 0, 0))
  BY DEF Stored, Ring!Copies, Ring!Whole, Ring!Nothing
<1>3. Stored(m)[i] =
        IF i \in 0..(0 + 0 - 1) THEN <<>>[0 + i - 0 + 1]
        ELSE IF i \in (a + H)..(a + H + L - 1) THEN t[0 + i - (a + H) + 1]
        ELSE IF i \in a..(a + H - 1) THEN h[0 + i - a + 1] ELSE data[i]
  BY <1>2, ThreePuts
<1>4. j < P => Ring!Entry(m)[j + 1] = IF j + 1 <= H THEN h[j + 1] ELSE t[j + 1 - H]
  <2>1. j < P => j + 1 \in 1..P
    BY <1>1
  <2> QED
    BY <2>1, EntryAt
<1>5. i \in 0..(RingCap - 1) /\ i = IF a + j < RingCap THEN a + j ELSE a + j - RingCap
  BY DEF Ring!Places
<1> HIDE DEF a, H, L, P, h, t
<1>6. CASE j < H
  <2>1. i = a + j /\ 0 + i - a + 1 = j + 1 /\ j < P /\ j + 1 <= H
    BY <1>1, <1>5, <1>6
  <2>2. /\ ~(i \in 0..(0 + 0 - 1)) /\ ~(i \in (a + H)..(a + H + L - 1))
        /\ i \in a..(a + H - 1)
    BY <1>1, <1>5, <1>6, <2>1
  <2> QED
    BY <1>3, <1>4, <2>1, <2>2 DEF Arrives, P
<1>7. CASE ~(j < H) /\ j < P
  <2>1. i = a + j /\ 0 + i - (a + H) + 1 = j + 1 - H /\ ~(j + 1 <= H)
    BY <1>1, <1>5, <1>7
  <2>2. ~(i \in 0..(0 + 0 - 1)) /\ i \in (a + H)..(a + H + L - 1)
    BY <1>1, <1>5, <1>7, <2>1
  <2> QED
    BY <1>3, <1>4, <1>7, <2>1, <2>2 DEF Arrives, P
<1>8. CASE ~(j < P)
  <2>1. /\ ~(i \in 0..(0 + 0 - 1)) /\ ~(i \in (a + H)..(a + H + L - 1))
        /\ ~(i \in a..(a + H - 1))
    BY <1>1, <1>5, <1>8
  <2> QED
    BY <1>3, <1>8, <2>1 DEF Arrives, P
<1> QED
  BY <1>6, <1>7, <1>8

LEMMA CutHeaderArrives ==
    ASSUME RingSizes, Ring!TypeOK, lastI = Ring!Advance(firstI, size), NEW m \in Messages,
           Ring!Fits(m),
           ~(lastI < firstI), HeaderSize >= Ring!Smaller(Ring!PayloadSize(m), RingCap - lastI),
           NEW j \in 0..(RingCap - 1), NEW i \in Ring!Places,
           i = IF lastI + j < RingCap THEN lastI + j ELSE lastI + j - RingCap
    PROVE  Arrives(m, j, i)
<1> DEFINE a == lastI
           H == HeaderSize
           L == Lengths[m]
           P == Ring!PayloadSize(m)
           h == Ring!Header(m)
           t == Ring!Text(m)
           tail == Ring!Smaller(P, RingCap - a)
<1>1. /\ a \in 0..(RingCap - 1) /\ RingCap \in Nat \ {0} /\ H \in Nat \ {0} /\ L \in Nat
      /\ P = H + L /\ P <= RingCap
  BY PushRoom
<1>2. Stored(m) =
          Ring!Put(Ring!Put(Ring!Put(data, Ring!Copy(a, h, 0, tail)),
                             Ring!Copy(0, h, tail, H - tail)),
                      Ring!Copy(H - tail, t, 0, L))
  BY DEF Stored, Ring!Copies, Ring!CutHeader
<1>3. Stored(m)[i] =
        IF i \in (H - tail)..(H - tail + L - 1) THEN t[0 + i - (H - tail) + 1]
        ELSE IF i \in 0..(0 + (H - tail) - 1) THEN h[tail + i - 0 + 1]
        ELSE IF i \in a..(a + tail - 1) THEN h[0 + i - a + 1] ELSE data[i]
  BY <1>2, ThreePuts
<1>4. j < P => Ring!Entry(m)[j + 1] = IF j + 1 <= H THEN h[j + 1] ELSE t[j + 1 - H]
  <2>1. j < P => j + 1 \in 1..P
    BY <1>1
  <2> QED
    BY <2>1, EntryAt
<1>5. i \in 0..(RingCap - 1) /\ i = IF a + j < RingCap THEN a + j ELSE a + j - RingCap
  BY DEF Ring!Places
<1>6. /\ tail \in Nat /\ tail <= H
      /\ \/ P <= RingCap - a /\ tail = P /\ H = P /\ L = 0
         \/ P > RingCap - a /\ tail = RingCap - a
  BY <1>1 DEF Ring!Smaller
<1> HIDE DEF a, H, L, P, h, t, tail
<1>7. CASE j < tail
  <2>1. i = a + j /\ 0 + i - a + 1 = j + 1 /\ j < P /\ j + 1 <= H
    BY <1>1, <1>5, <1>6, <1>7
  <2>2. /\ ~(i \in (H - tail)..(H - tail + L - 1)) /\ ~(i \in 0..(0 + (H - tail) - 1))
        /\ i \in a..(a + tail - 1)
    BY <1>1, <1>5, <1>6, <1>7, <2>1
  <2> QED
    BY <1>3, <1>4, <2>1, <2>2 DEF Arrives, P
<1>8. CASE ~(j < tail) /\ j < H
  <2>1. /\ i = j - tail /\ tail + i - 0 + 1 = j + 1 /\ j < P /\ j + 1 <= H
    BY <1>1, <1>5, <1>6, <1>8
  <2>2. ~(i \in (H - tail)..(H - tail + L - 1)) /\ i \in 0..(0 + (H - tail) - 1)
    BY <1>1, <1>5, <1>6, <1>8, <2>1
  <2> QED
    BY <1>3, <1>4, <2>1, <2>2 DEF Arrives, P
<1>9. CASE ~(j < H) /\ j < P
  <2>1. i = j - tail /\ 0 + i - (H - tail) + 1 = j + 1 - H /\ ~(j + 1 <= H)
    BY <1>1, <1>5, <1>6, <1>9
  <2>2. i \in (H - tail)..(H - tail + L - 1)
    BY <1>1, <1>5, <1>6, <1>9, <2>1
  <2> QED
    BY <1>3, <1>4, <1>9, <2>1, <2>2 DEF Arrives, P
<1>10. CASE ~(j < P)
  <2>1. /\ ~(i \in (H - tail)..(H - tail + L - 1)) /\ ~(i \in 0..(0 + (H - tail) - 1))
        /\ ~(i \in a..(a + tail - 1))
    BY <1>1, <1>5, <1>6, <1>10
  <2> QED
    BY <1>3, <1>10, <2>1 DEF Arrives, P
<1> QED
  BY <1>6, <1>7, <1>8, <1>9, <1>10

LEMMA CutTextArrives ==
    ASSUME RingSizes, Ring!TypeOK, lastI = Ring!Advance(firstI, size), NEW m \in Messages,
           Ring!Fits(m),
           ~(lastI < firstI), ~(HeaderSize >= Ring!Smaller(Ring!PayloadSize(m), RingCap - lastI)),
           NEW j \in 0..(RingCap - 1), NEW i \in Ring!Places,
           i = IF lastI + j < RingCap THEN lastI + j ELSE lastI + j - RingCap
    PROVE  Arrives(m, j, i)
<1> DEFINE a == lastI
           H == HeaderSize
           L == Lengths[m]
           P == Ring!PayloadSize(m)
           h == Ring!Header(m)
           t == Ring!Text(m)
           tail == Ring!Smaller(P, RingCap - a)
           left == Ring!Smaller(tail - H, L)
<1>1. /\ a \in 0..(RingCap - 1) /\ RingCap \in Nat \ {0} /\ H \in Nat \ {0} /\ L \in Nat
      /\ P = H + L /\ P <= RingCap
  BY PushRoom
<1>2. Stored(m) =
          Ring!Put(Ring!Put(Ring!Put(data, Ring!Copy(a, h, 0, H)), Ring!Copy(a + H, t, 0, left)),
                      Ring!Copy(0, t, left, L - left))
  BY DEF Stored, Ring!Copies, Ring!CutText
<1>3. Stored(m)[i] =
        IF i \in 0..(0 + (L - left) - 1) THEN t[left + i - 0 + 1]
        ELSE IF i \in (a + H)..(a + H + left - 1) THEN t[0 + i - (a + H) + 1]
        ELSE IF i \in a..(a + H - 1) THEN h[0 + i - a + 1] ELSE data[i]
  BY <1>2, ThreePuts
<1>4. j < P => Ring!Entry(m)[j + 1] = IF j + 1 <= H THEN h[j + 1] ELSE t[j + 1 - H]
  <2>1. j < P => j + 1 \in 1..P
    BY <1>1
  <2> QED
    BY <2>1, EntryAt
<1>5. i \in 0..(RingCap - 1) /\ i = IF a + j < RingCap THEN a + j ELSE a + j - RingCap
  BY DEF Ring!Places
<1>6. /\ tail \in Nat /\ H < tail
      /\ \/ P <= RingCap - a /\ tail = P /\ left = L
         \/ P > RingCap - a /\ tail = RingCap - a /\ left = tail - H
      /\ left \in Nat
  BY <1>1 DEF Ring!Smaller
<1> HIDE DEF a, H, L, P, h, t, tail, left
<1>7. CASE j < H
  <2>1. i = a + j /\ 0 + i - a + 1 = j + 1 /\ j < P /\ j + 1 <= H
    BY <1>1, <1>5, <1>6, <1>7
  <2>2. /\ ~(i \in 0..(0 + (L - left) - 1)) /\ ~(i \in (a + H)..(a + H + left - 1))
        /\ i \in a..(a + H - 1)
    BY <1>1, <1>5, <1>6, <1>7, <2>1
  <2> QED
    BY <1>3, <1>4, <2>1, <2>2 DEF Arrives, P
<1>8. CASE ~(j < H) /\ j < H + left
  <2>1. /\ i = a + j /\ 0 + i - (a + H) + 1 = j + 1 - H /\ j < P /\ ~(j + 1 <= H)
    BY <1>1, <1>5, <1>6, <1>8
  <2>2. ~(i \in 0..(0 + (L - left) - 1)) /\ i \in (a + H)..(a + H + left - 1)
    BY <1>1, <1>5, <1>6, <1>8, <2>1
  <2> QED
    BY <1>3, <1>4, <2>1, <2>2 DEF Arrives, P
<1>9. CASE ~(j < H + left) /\ j < P
  <2>1. i = j - tail /\ left + i - 0 + 1 = j + 1 - H /\ ~(j + 1 <= H)
    BY <1>1, <1>5, <1>6, <1>9
  <2>2. i \in 0..(0 + (L - left) - 1)
    BY <1>1, <1>5, <1>6, <1>9, <2>1
  <2> QED
    BY <1>3, <1>4, <1>9, <2>1, <2>2 DEF Arrives, P
<1>10. CASE ~(j < P)
  <2>1. /\ ~(i \in 0..(0 + (L - left) - 1)) /\ ~(i \in (a + H)..(a + H + left - 1))
        /\ ~(i \in a..(a + H - 1))
    BY <1>1, <1>5, <1>6, <1>10
  <2> QED
    BY <1>3, <1>10, <2>1 DEF Arrives, P
<1> QED
  BY <1>1, <1>6, <1>7, <1>8, <1>9, <1>10

(* push() writes the entry, byte by byte around the end, and nothing else. *)
LEMMA PushWrites ==
    ASSUME RingSizes, Ring!TypeOK, lastI = Ring!Advance(firstI, size), NEW m \in Messages,
           Ring!Fits(m),
           NEW j \in 0..(RingCap - 1)
    PROVE  Stored(m)[Ring!Advance(lastI, j)] =
              IF j < Ring!PayloadSize(m) THEN Ring!Entry(m)[j + 1] ELSE data[Ring!Advance(lastI, j)]
<1> DEFINE i == Ring!Advance(lastI, j)
<1>1. i \in Ring!Places /\ i = IF lastI + j < RingCap THEN lastI + j ELSE lastI + j - RingCap
  BY AdvanceIs DEF Ring!TypeOK, RingSizes
<1> HIDE DEF i
<1>2. Arrives(m, j, i)
  BY <1>1, WholeArrives, CutHeaderArrives, CutTextArrives
<1> QED
  BY <1>2 DEF Arrives, i

(* The copies stay within m_pData and within the header and the text.      *)
LEMMA PushInBounds ==
    ASSUME RingSizes, Ring!TypeOK, lastI = Ring!Advance(firstI, size), NEW m \in Messages,
           Ring!Fits(m),
           NEW k \in 1..3
    PROVE  LET c == Ring!Copies(m)[k]
           IN  /\ Ring!InBounds(c.at, c.n)
               /\ 0 <= c.n /\ 0 <= c.from /\ c.from + c.n <= Len(c.of)
<1> DEFINE a == lastI
           H == HeaderSize
           L == Lengths[m]
           P == Ring!PayloadSize(m)
           h == Ring!Header(m)
           t == Ring!Text(m)
           tail == Ring!Smaller(P, RingCap - a)
           left == Ring!Smaller(tail - H, L)
<1>1. /\ a \in 0..(RingCap - 1) /\ RingCap \in Nat \ {0} /\ H \in Nat \ {0} /\ L \in Nat
      /\ P = H + L /\ P <= RingCap /\ (a < firstI => a + P < RingCap)
  BY PushRoom
<1>2. Len(h) = H /\ Len(t) = L /\ Len(<<>>) = 0
  BY EntryAt
<1>3. /\ tail \in Nat /\ tail <= P /\ tail <= RingCap - a
      /\ \/ tail = P
         \/ tail = RingCap - a
  BY <1>1 DEF Ring!Smaller
<1>4. tail > H => /\ left \in Nat /\ left <= L /\ left <= tail - H
                  /\ \/ left = L
                     \/ left = tail - H
  BY <1>1, <1>3 DEF Ring!Smaller
<1>5. CASE a < firstI
  <2>1. Ring!Copies(m) =
            <<Ring!Copy(a, h, 0, H), Ring!Copy(a + H, t, 0, L), Ring!Copy(0, <<>>, 0, 0)>>
    BY <1>5 DEF Ring!Copies, Ring!Whole, Ring!Nothing
  <2> HIDE DEF a, H, L, P, h, t, tail, left
  <2> QED
    BY <1>1, <1>2, <1>5, <2>1 DEF Ring!Copy, Ring!InBounds
<1>6. CASE ~(a < firstI) /\ H >= tail
  <2>1. Ring!Copies(m) = <<Ring!Copy(a, h, 0, tail), Ring!Copy(0, h, tail, H - tail),
                      Ring!Copy(H - tail, t, 0, L)>>
    BY <1>6 DEF Ring!Copies, Ring!CutHeader
  <2> HIDE DEF a, H, L, P, h, t, tail, left
  <2> QED
    BY <1>1, <1>2, <1>3, <1>6, <2>1 DEF Ring!Copy, Ring!InBounds
<1>7. CASE ~(a < firstI) /\ ~(H >= tail)
  <2>1. Ring!Copies(m) = <<Ring!Copy(a, h, 0, H), Ring!Copy(a + H, t, 0, left),
                      Ring!Copy(0, t, left, L - left)>>
    BY <1>7 DEF Ring!Copies, Ring!CutText
  <2> HIDE DEF a, H, L, P, h, t, tail, left
  <2> QED
    BY <1>1, <1>2, <1>3, <1>4, <1>7, <2>1 DEF Ring!Copy, Ring!InBounds
<1> QED
  BY <1>5, <1>6, <1>7

LEMMA EntryIsBytes ==
    ASSUME RingSizes, NEW m \in Messages, Ring!PayloadSize(m) <= RingCap,
           NEW k \in 1..Ring!PayloadSize(m)
    PROVE  Ring!Entry(m)[k] \in Ring!Byte
<1>1. /\ Ring!PayloadSize(m) = HeaderSize + Lengths[m] /\ Lengths[m] \in Nat
      /\ HeaderSize \in Nat \ {0} /\ RingCap \in Nat \ {0}
  BY Payload DEF RingSizes
<1>2. Ring!Entry(m)[k] = IF k <= HeaderSize THEN Ring!Header(m)[k] ELSE Ring!Text(m)[k - HeaderSize]
  BY EntryAt
<1>3. CASE k <= HeaderSize
  <2>1. k \in 1..HeaderSize /\ k \in 1..RingCap
    BY <1>1, <1>3
  <2>2. Ring!Header(m)[k] = <<m, "header", k>>
    BY <2>1, EntryAt
  <2> QED
    BY <1>2, <1>3, <2>1, <2>2 DEF Ring!Byte
<1>4. CASE ~(k <= HeaderSize)
  <2>1. k - HeaderSize \in 1..Lengths[m] /\ k - HeaderSize \in 1..RingCap
    BY <1>1, <1>4
  <2>2. Ring!Text(m)[k - HeaderSize] = <<m, "text", k - HeaderSize>>
    BY <2>1, EntryAt
  <2> QED
    BY <1>2, <1>4, <2>1, <2>2 DEF Ring!Byte
<1> QED
  BY <1>3, <1>4

(* Every place is some way behind the last.                                *)
LEMMA Behind ==
    ASSUME RingSizes, NEW b \in Ring!Places, NEW i \in Ring!Places
    PROVE  \E j \in 0..(RingCap - 1) : i = Ring!Advance(b, j)
<1> DEFINE j == IF b <= i THEN i - b ELSE i - b + RingCap
<1>1. RingCap \in Nat \ {0} /\ b \in 0..(RingCap - 1) /\ i \in 0..(RingCap - 1)
  BY DEF RingSizes, Ring!Places
<1>2. /\ j \in 0..(RingCap - 1) /\ j \in 0..RingCap
      /\ i = IF b + j < RingCap THEN b + j ELSE b + j - RingCap
  BY <1>1
<1> HIDE DEF j
<1> QED
  BY <1>2, AdvanceIs

(* After push(), counted from the first byte: what was queued is where it  *)
(* was, and the new entry follows.                                         *)
LEMMA PushFollows ==
    ASSUME RingSizes, Ring!TypeOK, lastI = Ring!Advance(firstI, size), NEW m \in Messages,
           Ring!Fits(m),
           NEW x \in 0..(size + Ring!PayloadSize(m) - 1)
    PROVE  Stored(m)[Ring!Advance(firstI, x)] =
              IF x < size THEN data[Ring!Advance(firstI, x)] ELSE Ring!Entry(m)[x - size + 1]
<1> DEFINE P == Ring!PayloadSize(m)
<1>1. /\ size \in Nat /\ P \in Nat \ {0} /\ size + P <= RingCap
      /\ RingCap \in Nat \ {0} /\ firstI \in Int
  BY PushRoom, Payload DEF Ring!TypeOK, Ring!Places
<1> HIDE DEF P
<1>2. x \in 0..(size + P - 1)
  BY DEF P
<1>3. CASE x < size
  <2> DEFINE j == x - size + RingCap
  <2>1. j \in 0..(RingCap - 1) /\ ~(j < P) /\ j \in Int /\ size + j = x + RingCap
    BY <1>1, <1>2, <1>3
  <2> HIDE DEF j
  <2>2. Ring!Advance(lastI, j) = Ring!Advance(firstI, size + j)
    BY <1>1, <2>1, AdvanceTwice
  <2>3. Ring!Advance(firstI, x + RingCap) = Ring!Advance(firstI, x)
    <3>1. firstI + x \in Int /\ firstI + (x + RingCap) = (firstI + x) + RingCap
      BY <1>1, <1>2
    <3> QED
      BY <1>1, <3>1, ModAdd DEF Ring!Advance
  <2>4. Stored(m)[Ring!Advance(lastI, j)] =
          IF j < Ring!PayloadSize(m) THEN Ring!Entry(m)[j + 1] ELSE data[Ring!Advance(lastI, j)]
    BY <2>1, PushWrites
  <2> QED
    BY <1>3, <2>1, <2>2, <2>3, <2>4 DEF P
<1>4. CASE ~(x < size)
  <2> DEFINE j == x - size
  <2>1. j \in 0..(RingCap - 1) /\ j < P /\ j \in Int /\ size + j = x
    BY <1>1, <1>2, <1>4
  <2>2. Ring!Advance(lastI, j) = Ring!Advance(firstI, x)
    BY <1>1, <2>1, AdvanceTwice
  <2>3. Stored(m)[Ring!Advance(lastI, j)] =
          IF j < Ring!PayloadSize(m) THEN Ring!Entry(m)[j + 1] ELSE data[Ring!Advance(lastI, j)]
    BY <2>1, PushWrites
  <2> QED
    BY <1>4, <2>1, <2>2, <2>3 DEF P
<1> QED
  BY <1>3, <1>4

LEMMA PushKeepsTypes ==
    ASSUME RingSizes, Ring!TypeOK, lastI = Ring!Advance(firstI, size), NEW m \in Messages,
           Ring!Push(m)
    PROVE  Ring!TypeOK'
<1>1. Ring!Fits(m) /\ data' = Stored(m)
  BY DEF Ring!Push, Stored
<1>2. /\ size \in Nat /\ Ring!PayloadSize(m) \in Nat /\ size + Ring!PayloadSize(m) <= RingCap
      /\ RingCap \in Nat \ {0} /\ lastI \in Ring!Places /\ Ring!PayloadSize(m) \in 0..RingCap
      /\ Ring!PayloadSize(m) <= RingCap /\ data \in [Ring!Places -> Ring!Byte]
  BY <1>1, PushRoom, Payload DEF Ring!TypeOK
<1>3. data' \in [Ring!Places -> Ring!Byte]
  <2>1. \A i \in Ring!Places : Stored(m)[i] \in Ring!Byte
    <3> TAKE i \in Ring!Places
    <3>1. PICK j \in 0..(RingCap - 1) : i = Ring!Advance(lastI, j)
      BY <1>2, Behind
    <3>2. Stored(m)[i] = IF j < Ring!PayloadSize(m) THEN Ring!Entry(m)[j + 1] ELSE data[i]
      BY <1>1, <3>1, PushWrites
    <3>3. j < Ring!PayloadSize(m) => Ring!Entry(m)[j + 1] \in Ring!Byte
      <4>1. j < Ring!PayloadSize(m) => j + 1 \in 1..Ring!PayloadSize(m)
        BY <1>2
      <4> QED
        BY <1>2, <4>1, EntryIsBytes
    <3> QED
      BY <1>2, <3>2, <3>3
  <2>2. Stored(m) = [i \in Ring!Places |-> Stored(m)[i]]
    BY DEF Stored, Ring!Put
  <2> QED
    BY <1>1, <2>1, <2>2
<1>4. lastI' \in Ring!Places
  BY <1>2, AdvanceIs DEF Ring!Push
<1>5. size' \in 0..RingCap /\ firstI' \in Ring!Places /\ messages' \in Seq(Messages)
  BY <1>2 DEF Ring!Push, Ring!TypeOK
<1> QED
  BY <1>3, <1>4, <1>5 DEF Ring!TypeOK

(* An entry lies within the bytes in use.                                  *)
LEMMA EntryWithin ==
    ASSUME RingSizes, NEW q \in Seq(Messages), NEW n \in 1..Len(q),
           NEW k \in 1..Ring!PayloadSize(q[n])
    PROVE  /\ Ring!Ends(q)[n - 1] + k - 1 \in 0..(Ring!Used(q) - 1)
           /\ Ring!Ends(q)[n - 1] \in Nat /\ Ring!Used(q) \in Nat
<1> DEFINE f == Ring!Ends(q)
           l == Len(q)
<1>1. /\ l \in Nat /\ n \in 0..l /\ n - 1 \in 0..l /\ n # 0 /\ l \in 0..l
      /\ q[n] \in Messages
  OBVIOUS
<1>2. f[n] = f[n - 1] + Ring!PayloadSize(q[n])
  BY <1>1, EndsUnfold
<1>3. f[n] <= f[l]
  BY <1>1, EndsGrow
<1>4. f[n - 1] \in Nat /\ f[n] \in Nat /\ f[l] \in Nat
  BY <1>1, EndsAreNatural
<1>5. Ring!PayloadSize(q[n]) \in Nat
  BY <1>1, Payload
<1>6. Ring!Used(q) = f[l]
  BY DEF Ring!Used
<1> HIDE DEF f, l
<1>7. f[n - 1] + k - 1 \in 0..(f[l] - 1)
  BY <1>2, <1>3, <1>4, <1>5
<1> QED
  BY <1>4, <1>6, <1>7 DEF f, l

LEMMA PushKeepsItems ==
    ASSUME RingSizes, Ring!RingHoldsItems, NEW m \in Messages, Ring!Push(m)
    PROVE  Ring!RingHoldsItems' /\ Ring!HasRoom(messages, m)
<1> DEFINE l == Len(messages)
           r == Append(messages, m)
           f == Ring!Ends(messages)
           g == Ring!Ends(r)
           P == Ring!PayloadSize(m)
<1>1. /\ Ring!TypeOK /\ size = Ring!Used(messages) /\ lastI = Ring!Advance(firstI, size)
      /\ messages \in Seq(Messages) /\ Ring!Fits(m)
      /\ messages' = r /\ data' = Stored(m) /\ firstI' = firstI
      /\ lastI' = Ring!Advance(lastI, P) /\ size' = size + P
  BY DEF Ring!RingHoldsItems, Ring!Push, Stored, Ring!TypeOK
<1>2. Ring!TypeOK'
  BY <1>1, PushKeepsTypes
<1>3. /\ size \in Nat /\ P \in Nat \ {0} /\ size + P <= RingCap
      /\ RingCap \in Nat \ {0} /\ firstI \in Int /\ P = Ring!PayloadSize(m)
  BY <1>1, PushRoom, Payload DEF Ring!TypeOK, Ring!Places
<1>4. /\ \A i \in 0..l : g[i] = f[i]
      /\ Ring!Used(r) = Ring!Used(messages) + P
  BY <1>1, EndsAppend
<1>5. /\ l \in Nat /\ r \in Seq(Messages) /\ Len(r) = l + 1
      /\ \A i \in 1..l : r[i] = messages[i]
      /\ r[l + 1] = m
  BY <1>1
<1>6. size' = Ring!Used(messages')
  BY <1>1, <1>4
<1>7. lastI' = Ring!Advance(firstI', size')
  BY <1>1, <1>3, AdvanceTwice
<1>8. f[l] = size
  BY <1>1 DEF Ring!Used
<1>9. ASSUME NEW n \in 1..(l + 1), NEW k \in 1..Ring!PayloadSize(r[n])
      PROVE  Stored(m)[Ring!Advance(firstI, g[n - 1] + k - 1)] = Ring!Entry(r[n])[k]
  <2>1. CASE n \in 1..l
    <3>1. r[n] = messages[n] /\ g[n - 1] = f[n - 1] /\ k \in 1..Ring!PayloadSize(messages[n])
      <4>1. n - 1 \in 0..l
        BY <1>5, <2>1
      <4> QED
        BY <1>4, <1>5, <1>9, <2>1, <4>1
    <3>2. f[n - 1] + k - 1 \in 0..(size - 1)
      BY <1>1, <2>1, <3>1, EntryWithin
    <3> DEFINE x == f[n - 1] + k - 1
    <3>3. data[Ring!Advance(firstI, x)] = Ring!Entry(messages[n])[k]
      BY <2>1, <3>1 DEF Ring!RingHoldsItems
    <3>4. x \in 0..(size - 1) /\ g[n - 1] + k - 1 = x
      BY <3>1, <3>2
    <3> HIDE DEF x, f, g, r, l, P
    <3>5. x \in 0..(size + P - 1) /\ x < size
      BY <1>3, <3>4
    <3>6. Stored(m)[Ring!Advance(firstI, x)] =
            IF x < size THEN data[Ring!Advance(firstI, x)] ELSE Ring!Entry(m)[x - size + 1]
      BY <1>1, <3>5, PushFollows DEF P
    <3> QED
      BY <3>1, <3>3, <3>4, <3>5, <3>6
  <2>2. CASE n = l + 1
    <3>1. r[n] = m /\ g[n - 1] = size /\ k \in 1..P
      <4>1. n - 1 = l /\ l \in 0..l
        BY <1>5, <2>2
      <4>2. g[n - 1] = size
        BY <1>4, <1>8, <4>1
      <4> QED
        BY <1>3, <1>5, <1>9, <2>2, <4>2
    <3> DEFINE x == g[n - 1] + k - 1
    <3> HIDE DEF f, g, r, l, P
    <3>2. x \in 0..(size + P - 1) /\ ~(x < size) /\ x - size + 1 = k
      BY <1>3, <3>1
    <3> HIDE DEF x
    <3>3. Stored(m)[Ring!Advance(firstI, x)] =
            IF x < size THEN data[Ring!Advance(firstI, x)] ELSE Ring!Entry(m)[x - size + 1]
      BY <1>1, <3>2, PushFollows DEF P
    <3>4. Stored(m)[Ring!Advance(firstI, x)] = Ring!Entry(r[n])[k]
      BY <3>1, <3>2, <3>3
    <3> QED
      BY <3>4 DEF x
  <2> QED
    BY <1>5, <2>1, <2>2
<1>10. \A n \in 1..Len(messages') : \A k \in 1..Ring!PayloadSize(messages'[n]) :
          data'[Ring!Advance(firstI', Ring!Ends(messages')[n - 1] + k - 1)] =
              Ring!Entry(messages'[n])[k]
  BY <1>1, <1>5, <1>9
<1>11. Ring!HasRoom(messages, m)
  BY <1>1, <1>3 DEF Ring!HasRoom
<1> QED
  BY <1>2, <1>6, <1>7, <1>10, <1>11 DEF Ring!RingHoldsItems

-----------------------------------------------------------------------------
(* pop()                                                                   *)

(* What pop() finds at the first place is the oldest entry.                *)
LEMMA PopSees ==
    ASSUME RingSizes, Ring!RingHoldsItems, size > 0
    PROVE  /\ messages # <<>> /\ messages[1] \in Messages /\ Head(messages) = messages[1]
           /\ Ring!PayloadSize(messages[1]) \in 1..size /\ size \in 1..RingCap
           /\ firstI \in 0..(RingCap - 1) /\ lastI \in 0..(RingCap - 1) /\ RingCap \in Nat \ {0}
           /\ firstI < lastI => firstI + size = lastI
           /\ \A k \in 1..Ring!PayloadSize(messages[1]) :
                 data[IF firstI + k - 1 < RingCap THEN firstI + k - 1 ELSE firstI + k - 1 - RingCap]
                    = Ring!Entry(messages[1])[k]
<1>1. /\ messages \in Seq(Messages) /\ firstI \in Ring!Places /\ lastI \in Ring!Places
      /\ size \in 0..RingCap
      /\ size = Ring!Used(messages) /\ lastI = Ring!Advance(firstI, size)
      /\ RingCap \in Nat \ {0} /\ firstI \in 0..(RingCap - 1) /\ lastI \in 0..(RingCap - 1)
  BY DEF Ring!RingHoldsItems, Ring!TypeOK, Ring!Places, RingSizes
<1>2. messages # <<>>
  <2>1. SUFFICES ASSUME messages = <<>> PROVE FALSE
    OBVIOUS
  <2>2. Len(messages) = 0 /\ 0 \in 0..Len(messages)
    BY <2>1
  <2>3. Ring!Ends(messages)[0] = 0
    BY <1>1, <2>2, EndsUnfold
  <2> QED
    BY <1>1, <2>2, <2>3 DEF Ring!Used
<1>3. 1 \in 1..Len(messages) /\ messages[1] \in Messages /\ Head(messages) = messages[1]
  BY <1>1, <1>2
<1> DEFINE f == Ring!Ends(messages)
           P == Ring!PayloadSize(messages[1])
<1>4. f[0] = 0 /\ f[1] = f[0] + P
  <2>1. 0 \in 0..Len(messages) /\ 1 \in 0..Len(messages)
    BY <1>1, <1>3
  <2> QED
    BY <1>1, <2>1, EndsUnfold
<1>5. P \in Nat \ {0}
  BY <1>3, Payload
<1>6. P \in 1..size
  <2>1. P \in 1..P
    BY <1>5
  <2>2. f[1 - 1] + P - 1 \in 0..(Ring!Used(messages) - 1) /\ f[1 - 1] \in Nat
    BY <1>1, <1>3, <2>1, EntryWithin
  <2>3. f[1 - 1] = f[0]
    OBVIOUS
  <2> HIDE DEF f, P
  <2> QED
    BY <1>1, <1>4, <1>5, <2>2, <2>3
<1>7. firstI < lastI => firstI + size = lastI
  <2>1. lastI = IF firstI + size < RingCap THEN firstI + size ELSE firstI + size - RingCap
    BY <1>1, AdvanceIs
  <2> QED
    BY <1>1, <2>1
<1>8. ASSUME NEW k \in 1..P
      PROVE  data[IF firstI + k - 1 < RingCap THEN firstI + k - 1 ELSE firstI + k - 1 - RingCap]
                = Ring!Entry(messages[1])[k]
  <2>1. data[Ring!Advance(firstI, f[1 - 1] + k - 1)] = Ring!Entry(messages[1])[k]
    BY <1>3, <1>8 DEF Ring!RingHoldsItems
  <2>2. f[1 - 1] = 0
    BY <1>4
  <2> HIDE DEF f, P
  <2>3. f[1 - 1] + k - 1 = k - 1 /\ k - 1 \in 0..RingCap /\ firstI + (k - 1) = firstI + k - 1
    BY <1>1, <1>5, <1>6, <1>8, <2>2
  <2>4. Ring!Advance(firstI, k - 1) =
          IF firstI + k - 1 < RingCap THEN firstI + k - 1 ELSE firstI + k - 1 - RingCap
    BY <1>1, <2>3, AdvanceIs
  <2> QED
    BY <2>1, <2>3, <2>4
<1>9. /\ messages # <<>> /\ Head(messages) = messages[1] /\ messages[1] \in Messages
      /\ P \in 1..size
  BY <1>2, <1>3, <1>6
<1>10. /\ firstI \in 0..(RingCap - 1) /\ lastI \in 0..(RingCap - 1) /\ RingCap \in Nat \ {0}
       /\ firstI < lastI => firstI + size = lastI
       /\ size \in 1..RingCap
  BY <1>1, <1>7
<1>11. \A k \in 1..P :
          data[IF firstI + k - 1 < RingCap THEN firstI + k - 1 ELSE firstI + k - 1 - RingCap]
             = Ring!Entry(messages[1])[k]
  BY <1>8
<1> QED
  BY <1>9, <1>10, <1>11, Zenon

(* The header it reads is the header of that entry, also around the end.   *)
LEMMA PopReadsHeader ==
    ASSUME RingSizes, Ring!RingHoldsItems, size > 0, NEW m \in Messages,
           Ring!HeaderAtFirst = Ring!Header(m)
    PROVE  m = messages[1]
<1> DEFINE P == Ring!PayloadSize(messages[1])
<1>1. /\ messages[1] \in Messages /\ P \in 1..size /\ size \in 1..RingCap
      /\ firstI \in 0..(RingCap - 1) /\ lastI \in 0..(RingCap - 1) /\ RingCap \in Nat \ {0}
      /\ firstI < lastI => firstI + size = lastI
      /\ \A k \in 1..P :
            data[IF firstI + k - 1 < RingCap THEN firstI + k - 1 ELSE firstI + k - 1 - RingCap]
               = Ring!Entry(messages[1])[k]
  BY PopSees
<1>2. HeaderSize \in Nat \ {0} /\ 1 \in 1..HeaderSize /\ 1 \in 1..P
  BY <1>1, Payload
<1>3. Ring!HeaderAtFirst[1] =
          data[IF Ring!HeaderIsCut /\ 1 > Ring!UntilEnd
              THEN 1 - Ring!UntilEnd - 1 ELSE firstI + 1 - 1]
  BY <1>2 DEF Ring!HeaderAtFirst
<1>4. ~(1 > Ring!UntilEnd)
  BY <1>1 DEF Ring!UntilEnd
<1>5. data[firstI] = Ring!Entry(messages[1])[1]
  BY <1>1, <1>2
<1>6. Ring!Entry(messages[1])[1] = <<messages[1], "header", 1>>
  BY <1>1, <1>2, EntryAt
<1>7. Ring!HeaderAtFirst[1] = <<m, "header", 1>>
  BY <1>2, EntryAt
<1>8. Ring!HeaderAtFirst[1] = data[firstI]
  <2>1. firstI + 1 - 1 = firstI
    BY <1>1
  <2> QED
    BY <1>3, <1>4, <2>1
<1> QED
  BY <1>5, <1>6, <1>7, <1>8

LEMMA PopFindsHeader ==
    ASSUME RingSizes, Ring!RingHoldsItems, size > 0
    PROVE  Ring!HeaderAtFirst = Ring!Header(messages[1])
<1> DEFINE m == messages[1]
           P == Ring!PayloadSize(m)
           H == HeaderSize
<1>1. /\ m \in Messages /\ P \in 1..size /\ size \in 1..RingCap
      /\ firstI \in 0..(RingCap - 1) /\ lastI \in 0..(RingCap - 1) /\ RingCap \in Nat \ {0}
      /\ firstI < lastI => firstI + size = lastI
      /\ \A k \in 1..P :
            data[IF firstI + k - 1 < RingCap THEN firstI + k - 1 ELSE firstI + k - 1 - RingCap]
               = Ring!Entry(m)[k]
  BY PopSees
<1>2. H \in Nat \ {0} /\ H <= P
  BY <1>1, Payload
<1>3. ASSUME NEW k \in 1..H
      PROVE  data[IF Ring!HeaderIsCut /\ k > Ring!UntilEnd
                 THEN k - Ring!UntilEnd - 1 ELSE firstI + k - 1]
                = Ring!Header(m)[k]
  <2>1. Ring!Entry(m)[k] = Ring!Header(m)[k] /\ k \in 1..P
    BY <1>1, <1>2, <1>3, EntryAt
  <2> HIDE DEF P, H, m
  <2>2. (IF Ring!HeaderIsCut /\ k > Ring!UntilEnd THEN k - Ring!UntilEnd - 1 ELSE firstI + k - 1) =
        (IF firstI + k - 1 < RingCap THEN firstI + k - 1 ELSE firstI + k - 1 - RingCap)
    BY <1>1, <1>2, <1>3 DEF Ring!HeaderIsCut, Ring!UntilEnd, H
  <2> QED
    BY <1>1, <2>1, <2>2
<1> QED
  BY <1>3 DEF Ring!HeaderAtFirst, Ring!Header

(* The pieces it hands out lie within m_pData and are the text, in order.  *)
LEMMA PopWrites ==
    ASSUME RingSizes, Ring!RingHoldsItems, size > 0, NEW m, m = messages[1]
    PROVE  /\ Ring!Written(m) = Ring!Text(m)
           /\ \A k \in 1..2 : Ring!InBounds(Ring!Views(m)[k].at, Ring!Views(m)[k].n)
<1> DEFINE P == Ring!PayloadSize(m)
           H == HeaderSize
           L == Lengths[m]
           F == firstI
<1>1. /\ m \in Messages /\ P \in 1..size /\ size \in 1..RingCap
      /\ F \in 0..(RingCap - 1) /\ lastI \in 0..(RingCap - 1) /\ RingCap \in Nat \ {0}
      /\ F < lastI => F + size = lastI
      /\ \A k \in 1..P :
            data[IF F + k - 1 < RingCap THEN F + k - 1 ELSE F + k - 1 - RingCap] = Ring!Entry(m)[k]
  BY PopSees
<1>2. H \in Nat \ {0} /\ L \in Nat /\ P = H + L
  BY <1>1, Payload
<1>3. ASSUME NEW k \in 1..L, NEW i,
             i = IF F + H + k - 1 < RingCap THEN F + H + k - 1 ELSE F + H + k - 1 - RingCap
      PROVE  data[i] = Ring!Text(m)[k]
  <2>1. H + k \in 1..P /\ F + (H + k) - 1 = F + H + k - 1 /\ ~(H + k <= H) /\ (H + k) - H = k
    BY <1>1, <1>2, <1>3
  <2>2. data[IF F + (H + k) - 1 < RingCap THEN F + (H + k) - 1 ELSE F + (H + k) - 1 - RingCap]
          = Ring!Entry(m)[H + k]
    BY <1>1, <2>1
  <2>3. Ring!Entry(m)[H + k] = Ring!Text(m)[(H + k) - H]
    BY <1>1, <2>1, EntryAt
  <2>4. Ring!Entry(m)[H + k] = Ring!Text(m)[k]
    BY <2>1, <2>3
  <2> HIDE DEF P, H, L, F
  <2>5. i = IF F + (H + k) - 1 < RingCap THEN F + (H + k) - 1 ELSE F + (H + k) - 1 - RingCap
    BY <1>1, <1>2, <1>3, <2>1
  <2> QED
    BY <2>2, <2>4, <2>5
<1>4. Ring!Text(m) = [k \in 1..L |-> Ring!Text(m)[k]]
  BY DEF Ring!Text
<1>5. ASSUME NEW a1, NEW n1, NEW a2, NEW n2,
             Ring!Views(m) = <<Ring!Piece(a1, n1), Ring!Piece(a2, n2)>>,
             Ring!InBounds(a1, n1), Ring!InBounds(a2, n2), n1 + n2 = L,
             \A k \in 1..L : (IF k <= n1 THEN a1 + k - 1 ELSE a2 + (k - n1) - 1) =
                IF F + H + k - 1 < RingCap THEN F + H + k - 1 ELSE F + H + k - 1 - RingCap
      PROVE  /\ Ring!Written(m) = Ring!Text(m)
             /\ \A k \in 1..2 : Ring!InBounds(Ring!Views(m)[k].at, Ring!Views(m)[k].n)
  <2>1. /\ Ring!Views(m)[1].at = a1 /\ Ring!Views(m)[1].n = n1
        /\ Ring!Views(m)[2].at = a2 /\ Ring!Views(m)[2].n = n2
    BY <1>5 DEF Ring!Piece
  <2>2. \A k \in 1..L : Ring!Drained(m, k) = Ring!Text(m)[k]
    <3> TAKE k \in 1..L
    <3>1. Ring!Drained(m, k) = data[IF k <= n1 THEN a1 + k - 1 ELSE a2 + (k - n1) - 1]
      BY <2>1 DEF Ring!Drained
    <3> QED
      BY <1>3, <1>5, <3>1
  <2>3. Ring!Written(m) = [k \in 1..L |-> Ring!Drained(m, k)]
    BY <1>5, <2>1 DEF Ring!Written
  <2> QED
    BY <1>4, <1>5, <2>1, <2>2, <2>3
<1>6. CASE Ring!HeaderIsCut
  <2>1. Ring!Views(m) = <<Ring!Piece(H - Ring!UntilEnd, L), Ring!Piece(0, 0)>>
    BY <1>6 DEF Ring!Views
  <2>2. F >= lastI /\ H >= RingCap - F /\ Ring!UntilEnd = RingCap - F
    BY <1>6 DEF Ring!HeaderIsCut, Ring!UntilEnd
  <2> HIDE DEF P, H, L, F
  <2>3. Ring!InBounds(H - Ring!UntilEnd, L) /\ Ring!InBounds(0, 0) /\ L + 0 = L
    BY <1>1, <1>2, <2>2 DEF Ring!InBounds
  <2>4. \A k \in 1..L : (IF k <= L THEN H - Ring!UntilEnd + k - 1 ELSE 0 + (k - L) - 1) =
                IF F + H + k - 1 < RingCap THEN F + H + k - 1 ELSE F + H + k - 1 - RingCap
    BY <1>1, <1>2, <2>2
  <2> QED
    BY <1>5, <2>1, <2>3, <2>4
<1>7. CASE ~Ring!HeaderIsCut /\ F >= lastI
  <2> DEFINE n == Ring!UntilEnd - H
  <2>1. Ring!Views(m) = <<Ring!Piece(F + H, n), Ring!Piece(0, L - n)>>
    BY <1>7 DEF Ring!Views
  <2>2. F >= lastI /\ H < RingCap - F /\ n = RingCap - F - H
    BY <1>1, <1>2, <1>7 DEF Ring!HeaderIsCut, Ring!UntilEnd
  <2> HIDE DEF P, H, L, F, n
  <2>3. Ring!InBounds(F + H, n) /\ Ring!InBounds(0, L - n) /\ n + (L - n) = L
    BY <1>1, <1>2, <2>2 DEF Ring!InBounds
  <2>4. \A k \in 1..L : (IF k <= n THEN F + H + k - 1 ELSE 0 + (k - n) - 1) =
                IF F + H + k - 1 < RingCap THEN F + H + k - 1 ELSE F + H + k - 1 - RingCap
    BY <1>1, <1>2, <2>2
  <2> QED
    BY <1>5, <2>1, <2>3, <2>4
<1>8. CASE ~(F >= lastI)
  <2>1. Ring!Views(m) = <<Ring!Piece(F + H, L), Ring!Piece(0, 0)>>
    BY <1>8 DEF Ring!Views, Ring!HeaderIsCut
  <2>2. F + size = lastI
    BY <1>1, <1>8
  <2> HIDE DEF P, H, L, F
  <2>3. Ring!InBounds(F + H, L) /\ Ring!InBounds(0, 0) /\ L + 0 = L
    BY <1>1, <1>2, <2>2 DEF Ring!InBounds
  <2>4. \A k \in 1..L : (IF k <= L THEN F + H + k - 1 ELSE 0 + (k - L) - 1) =
                IF F + H + k - 1 < RingCap THEN F + H + k - 1 ELSE F + H + k - 1 - RingCap
    BY <1>1, <1>2, <2>2
  <2> QED
    BY <1>5, <2>1, <2>3, <2>4
<1> QED
  BY <1>6, <1>7, <1>8

LEMMA PopKeepsItems ==
    ASSUME RingSizes, Ring!RingHoldsItems, NEW m \in Messages, Ring!Pop(m)
    PROVE  Ring!RingHoldsItems' /\ m = messages[1] /\ size > 0
<1> DEFINE l == Len(messages)
           r == Tail(messages)
           f == Ring!Ends(messages)
           g == Ring!Ends(r)
           P == Ring!PayloadSize(m)
<1>1. /\ Ring!TypeOK /\ size = Ring!Used(messages) /\ lastI = Ring!Advance(firstI, size)
      /\ messages \in Seq(Messages) /\ size > 0 /\ Ring!HeaderAtFirst = Ring!Header(m)
      /\ messages' = r /\ data' = data /\ lastI' = lastI
      /\ firstI' = Ring!Advance(firstI, P) /\ size' = size - P
  BY DEF Ring!RingHoldsItems, Ring!Pop, Ring!TypeOK
<1>2. m = messages[1]
  BY <1>1, PopReadsHeader
<1>3. /\ messages # <<>> /\ P \in 1..size /\ size \in 1..RingCap /\ size \in Int /\ P \in Int
      /\ firstI \in Int /\ firstI \in Ring!Places /\ P \in 0..RingCap /\ RingCap \in Nat
  <2>1. messages # <<>> /\ Ring!PayloadSize(messages[1]) \in 1..size /\ size \in 1..RingCap
    BY <1>1, PopSees
  <2> QED
    BY <1>1, <1>2, <2>1 DEF Ring!TypeOK, Ring!Places, RingSizes
<1>4. /\ \A i \in 0..(l - 1) : g[i] = f[i + 1] - P
      /\ Ring!Used(r) = Ring!Used(messages) - P
  BY <1>1, <1>2, <1>3, EndsTail
<1>5. /\ l \in Nat /\ r \in Seq(Messages) /\ Len(r) = l - 1
      /\ \A i \in 1..(l - 1) : r[i] = messages[i + 1]
  BY <1>1, <1>3, HeadTailProperties
<1>6. Ring!TypeOK'
  <2>1. firstI' \in Ring!Places
    BY <1>1, <1>3, AdvanceIs
  <2>2. size' \in 0..RingCap
    BY <1>1, <1>3
  <2> QED
    BY <1>1, <1>5, <2>1, <2>2 DEF Ring!TypeOK
<1>7. lastI' = Ring!Advance(firstI', size')
  <2>1. size - P \in Int /\ P + (size - P) = size
    BY <1>3
  <2> QED
    BY <1>1, <1>3, <2>1, AdvanceTwice
<1>8. ASSUME NEW n \in 1..(l - 1), NEW k \in 1..Ring!PayloadSize(r[n])
      PROVE  data[Ring!Advance(Ring!Advance(firstI, P), g[n - 1] + k - 1)] = Ring!Entry(r[n])[k]
  <2>1. /\ r[n] = messages[n + 1] /\ n + 1 \in 1..l /\ n - 1 \in 0..(l - 1)
        /\ (n - 1) + 1 = n /\ (n + 1) - 1 = n
    BY <1>5, <1>8
  <2>2. g[n - 1] = f[n] - P
    BY <1>4, <2>1
  <2>3. data[Ring!Advance(firstI, f[n] + k - 1)] = Ring!Entry(messages[n + 1])[k]
    <3>1. data[Ring!Advance(firstI, f[(n + 1) - 1] + k - 1)] = Ring!Entry(messages[n + 1])[k]
      BY <1>8, <2>1 DEF Ring!RingHoldsItems
    <3> QED
      BY <2>1, <3>1
  <2>4. f[n] \in Nat
    <3>1. f[(n + 1) - 1] \in Nat
      BY <1>1, <1>8, <2>1, EntryWithin
    <3> QED
      BY <2>1, <3>1
  <2>5. k \in Int
    <3>1. messages[n + 1] \in Messages
      BY <1>1, <2>1
    <3>2. Ring!PayloadSize(r[n]) \in Nat
      BY <2>1, <3>1, Payload
    <3> QED
      BY <1>8, <3>2
  <2> HIDE DEF f, g, l, P
  <2>6. g[n - 1] + k - 1 \in Int /\ P + (g[n - 1] + k - 1) = f[n] + k - 1
    BY <1>3, <2>2, <2>4, <2>5
  <2>7. Ring!Advance(Ring!Advance(firstI, P), g[n - 1] + k - 1) = Ring!Advance(firstI, f[n] + k - 1)
    BY <1>3, <2>6, AdvanceTwice
  <2> QED
    BY <2>1, <2>3, <2>7
<1>9. \A n \in 1..Len(messages') : \A k \in 1..Ring!PayloadSize(messages'[n]) :
          data'[Ring!Advance(firstI', Ring!Ends(messages')[n - 1] + k - 1)] =
              Ring!Entry(messages'[n])[k]
  BY <1>1, <1>5, <1>8
<1>10. size' = Ring!Used(messages')
  BY <1>1, <1>4
<1> QED
  BY <1>1, <1>2, <1>6, <1>7, <1>9, <1>10 DEF Ring!RingHoldsItems

-----------------------------------------------------------------------------
(* The ring                                                                *)

LEMMA InitHoldsItems ==
    ASSUME RingSizes, Ring!Init
    PROVE  Ring!RingHoldsItems /\ Ring!Queue!Init
<1>1. RingCap \in Nat \ {0} /\ 0 \in Ring!Places /\ 0 \in 0..RingCap
  BY DEF RingSizes, Ring!Places
<1>2. messages = <<>> /\ messages \in Seq(Messages) /\ Len(messages) = 0 /\ 0 \in 0..Len(messages)
  BY DEF Ring!Init
<1>3. Ring!Used(messages) = 0
  <2>1. Ring!Ends(messages)[0] = 0
    BY <1>2, EndsUnfold
  <2> QED
    BY <1>2, <2>1 DEF Ring!Used
<1>4. Ring!Advance(0, 0) = 0
  BY <1>1, AdvanceIs
<1>5. Ring!TypeOK
  BY <1>1, <1>2 DEF Ring!Init, Ring!TypeOK, Ring!Byte
<1> QED
  BY <1>2, <1>3, <1>4, <1>5 DEF Ring!Init, Ring!RingHoldsItems, Ring!Queue!Init

LEMMA StepHoldsItems ==
    ASSUME RingSizes, Ring!RingHoldsItems, [Ring!Next]_(Ring!vars)
    PROVE  Ring!RingHoldsItems'
<1>1. ASSUME NEW m \in Messages, Ring!Push(m)
      PROVE  Ring!RingHoldsItems'
  BY <1>1, PushKeepsItems
<1>2. ASSUME NEW m \in Messages, Ring!Pop(m)
      PROVE  Ring!RingHoldsItems'
  BY <1>2, PopKeepsItems
<1>3. CASE UNCHANGED Ring!vars
  BY <1>3 DEF Ring!vars, Ring!RingHoldsItems, Ring!TypeOK
<1> QED
  BY <1>1, <1>2, <1>3 DEF Ring!Next

LEMMA StepIsFifo ==
    ASSUME RingSizes, Ring!RingHoldsItems, [Ring!Next]_(Ring!vars)
    PROVE  [Ring!Queue!NextFifo]_(Ring!Queue!contractVars)
<1>1. ASSUME NEW m \in Messages, Ring!Push(m)
      PROVE  Ring!Queue!NextFifo
  <2>1. Ring!HasRoom(messages, m)
    BY <1>1, PushKeepsItems
  <2>2. messages' = Append(messages, m) /\ delivered' = delivered
    BY <1>1 DEF Ring!Push
  <2> QED
    BY <2>1, <2>2 DEF Ring!Queue!NextFifo, Ring!Queue!PushBack
<1>2. ASSUME NEW m \in Messages, Ring!Pop(m)
      PROVE  Ring!Queue!NextFifo
  <2>1. m = messages[1] /\ size > 0
    BY <1>2, PopKeepsItems
  <2>2. messages # <<>> /\ Head(messages) = messages[1]
    BY <2>1, PopSees
  <2>3. messages' = Tail(messages) /\ delivered' = <<m>>
    BY <1>2 DEF Ring!Pop
  <2> QED
    BY <2>1, <2>2, <2>3 DEF Ring!Queue!NextFifo, Ring!Queue!PopFront, Ring!Queue!Out
<1>3. CASE UNCHANGED Ring!vars
  BY <1>3 DEF Ring!vars, Ring!Queue!contractVars
<1> QED
  BY <1>1, <1>2, <1>3 DEF Ring!Next

(* What WritesTheMessage asks of a step.                                   *)
StepWrites ==
    \A m \in Messages :
       /\ Ring!Pop(m) => /\ m = Head(messages) /\ Ring!Written(m) = Ring!Text(m)
                         /\ \A k \in 1..2 : Ring!InBounds(Ring!Views(m)[k].at, Ring!Views(m)[k].n)
       /\ Ring!Push(m) => \A k \in 1..3 :
             LET c == Ring!Copies(m)[k]
             IN  /\ Ring!InBounds(c.at, c.n)
                 /\ 0 <= c.n /\ 0 <= c.from /\ c.from + c.n <= Len(c.of)

LEMMA StepIsExact ==
    ASSUME RingSizes, Ring!RingHoldsItems
    PROVE  StepWrites
<1>1. ASSUME NEW m \in Messages, Ring!Pop(m)
      PROVE  /\ m = Head(messages) /\ Ring!Written(m) = Ring!Text(m)
             /\ \A k \in 1..2 : Ring!InBounds(Ring!Views(m)[k].at, Ring!Views(m)[k].n)
  <2>1. m = messages[1] /\ size > 0
    BY <1>1, PopKeepsItems
  <2>2. Head(messages) = messages[1]
    BY <2>1, PopSees
  <2> QED
    BY <2>1, <2>2, PopWrites
<1>2. ASSUME NEW m \in Messages, Ring!Push(m), NEW k \in 1..3
      PROVE  LET c == Ring!Copies(m)[k]
             IN  /\ Ring!InBounds(c.at, c.n)
                 /\ 0 <= c.n /\ 0 <= c.from /\ c.from + c.n <= Len(c.of)
  <2>1. Ring!TypeOK /\ lastI = Ring!Advance(firstI, size) /\ Ring!Fits(m)
    BY <1>2 DEF Ring!RingHoldsItems, Ring!Push
  <2> QED
    BY <2>1, PushInBounds
<1> QED
  BY <1>1, <1>2 DEF StepWrites

-----------------------------------------------------------------------------
(* The batches of parallelFor()                                            *)

batch == Batch!batchSize

AFuture == [off : Nat, size : Nat, seen : Nat, signalled : BOOLEAN]

(* The call, and what its share for each thread comes to: nothing only if  *)
(* there is nothing.                                                       *)
IsCall ==
    /\ nThreads \in Nat \ {0} /\ spSize \in Nat /\ minBatchSize \in Nat
    /\ batch \in Nat /\ (batch = 0 => spSize = 0)

(* Batch f is the f-th share of the span, and the last one the rest.       *)
BatchIs(f) ==
    /\ vFutures[f].off = batch * (f - 1)
    /\ vFutures[f].size = IF f <= nThreads THEN batch ELSE spSize - batch * nThreads
    /\ vFutures[f].seen <= vFutures[f].size
    /\ vFutures[f].signalled => vFutures[f].seen = vFutures[f].size

(* The task of batch f has come past the element e.                        *)
Passed(F, f, e) == F[f].off <= e /\ e < F[f].off + F[f].seen

BatchInv ==
    /\ IsCall
    /\ vFutures \in Seq(AFuture) /\ Len(vFutures) <= Batch!Batches
    /\ nextI = batch * (IF Len(vFutures) <= nThreads THEN Len(vFutures) ELSE nThreads)
    /\ \A f \in 1..Len(vFutures) : BatchIs(f)
    /\ visits \in [0..(Batch!Reach - 1) -> Nat]
    /\ \A e \in 0..(Batch!Reach - 1) :
          visits[e] = IF \E f \in 1..Len(vFutures) : Passed(vFutures, f, e) THEN 1 ELSE 0
    /\ waited \in 0..Batch!Batches
    /\ waited > 0 => Len(vFutures) = Batch!Batches
    /\ \A f \in 1..waited : vFutures[f].signalled

(* A thread has at least one element, and the threads no more than all.    *)
LEMMA ShareIs ==
    ASSUME NEW n \in Nat \ {0}, NEW s \in Nat, n <= s
    PROVE  s \div n \in Nat \ {0} /\ (s \div n) * n <= s
<1> DEFINE q == s \div n
<1>1. q \in Int /\ n * q <= s /\ s < n * q + n
  OBVIOUS
<1> HIDE DEF q
<1>2. n * q = q * n
  BY <1>1
<1>3. ~(q <= 0)
  <2>1. SUFFICES ASSUME q <= 0 PROVE FALSE
    OBVIOUS
  <2>2. q < 1
    BY <1>1, <2>1
  <2>3. n * q + n <= n * 1
    BY <1>1, <2>2, MultiplesApart
  <2>4. n * 1 = n
    OBVIOUS
  <2>5. n * q \in Int
    BY <1>1
  <2> QED
    BY <1>1, <2>3, <2>4, <2>5
<1> QED
  BY <1>1, <1>2, <1>3 DEF q

LEMMA CallOfInit ==
    ASSUME BatchSizes, Batch!Init
    PROVE  IsCall
<1>1. nThreads \in Nat \ {0} /\ spSize \in Nat /\ minBatchSize \in Nat
  BY DEF Batch!Init, BatchSizes
<1> DEFINE q == spSize \div nThreads
<1>2. q \in Nat
  BY <1>1
<1>3. batch = LET div == IF q > 0 THEN q ELSE spSize
              IN IF div < minBatchSize THEN minBatchSize ELSE div
  BY DEF batch, Batch!batchSize
<1> HIDE DEF q
<1> QED
  BY <1>1, <1>2, <1>3 DEF IsCall

(* How many batches there are, and where they end.                         *)
LEMMA TailIs ==
    ASSUME IsCall
    PROVE  /\ batch * nThreads \in Nat
           /\ Batch!tailSize = spSize - batch * nThreads
           /\ Batch!Batches = IF batch = 0 THEN 0
                              ELSE IF batch * nThreads < spSize THEN nThreads + 1 ELSE nThreads
           /\ Batch!Batches \in Nat
           /\ Batch!Reach = IF batch * nThreads < spSize THEN spSize ELSE batch * nThreads
           /\ Batch!Reach \in Nat
<1>1. /\ nThreads \in Nat \ {0} /\ spSize \in Nat
      /\ batch \in Nat /\ (batch = 0 => spSize = 0)
  BY DEF IsCall
<1>2. batch * nThreads \in Nat /\ nThreads * batch = batch * nThreads
  BY <1>1
<1> DEFINE p == batch * nThreads
<1>3. Batch!tailSize = spSize - p
  BY <1>2 DEF batch, Batch!tailSize
<1>4. Batch!Reach = IF Batch!tailSize > 0 THEN spSize ELSE p
  BY <1>2 DEF batch, Batch!Reach
<1>5. batch = 0 => p = 0
  BY <1>1
<1> HIDE DEF p
<1>6. Batch!tailSize > 0 <=> p < spSize
  BY <1>1, <1>2, <1>3 DEF p
<1>7. Batch!Batches = (IF batch > 0 THEN nThreads ELSE 0) + (IF p < spSize THEN 1 ELSE 0)
  BY <1>6 DEF Batch!Batches, batch
<1>8. Batch!Batches = IF batch = 0 THEN 0 ELSE IF p < spSize THEN nThreads + 1 ELSE nThreads
  BY <1>1, <1>2, <1>5, <1>7
<1> QED
  BY <1>1, <1>2, <1>3, <1>4, <1>6, <1>8 DEF p

(* A batch there is has a size.                                            *)
LEMMA SomeBatch ==
    ASSUME BatchInv, NEW f \in 1..Len(vFutures)
    PROVE  /\ batch \in Nat \ {0} /\ f \in Nat \ {0}
           /\ f <= nThreads \/ (f = nThreads + 1 /\ batch * nThreads < spSize)
<1>1. /\ Len(vFutures) \in Nat /\ Len(vFutures) <= Batch!Batches
      /\ batch \in Nat /\ nThreads \in Nat \ {0}
  BY DEF BatchInv, IsCall
<1>2. Batch!Batches = IF batch = 0 THEN 0
                      ELSE IF batch * nThreads < spSize THEN nThreads + 1 ELSE nThreads
  BY TailIs DEF BatchInv
<1> QED
  BY <1>1, <1>2

(* Threads that each have a share of at least minBatchSize stay within.    *)
LEMMA SharesFit ==
    ASSUME IsCall, nThreads <= spSize, minBatchSize <= spSize \div nThreads
    PROVE  Batch!Reach = spSize
<1>1. nThreads \in Nat \ {0} /\ spSize \in Nat /\ minBatchSize \in Nat
  BY DEF IsCall
<1>2. spSize \div nThreads \in Nat \ {0} /\ (spSize \div nThreads) * nThreads <= spSize
  BY <1>1, ShareIs
<1>3. batch = spSize \div nThreads
  BY <1>1, <1>2 DEF batch, Batch!batchSize
<1>4. batch * nThreads <= spSize
  BY <1>2, <1>3
<1>5. batch * nThreads \in Nat
      /\ Batch!Reach = IF batch * nThreads < spSize THEN spSize ELSE batch * nThreads
  BY TailIs
<1> QED
  BY <1>1, <1>4, <1>5

(* Batches lie one behind the other, within the reach.                     *)
LEMMA BatchesApart ==
    ASSUME BatchInv, NEW f \in 1..Len(vFutures), NEW g \in 1..Len(vFutures), f < g
    PROVE  vFutures[f].off + vFutures[f].size <= vFutures[g].off
<1>1. /\ batch \in Nat \ {0} /\ f <= nThreads
      /\ f - 1 \in Int /\ g - 1 \in Int /\ f - 1 < g - 1
  <2>1. nThreads \in Nat /\ batch \in Nat \ {0} /\ f \in Nat \ {0} /\ g \in Nat \ {0}
    BY SomeBatch DEF BatchInv, IsCall
  <2>2. g <= nThreads + 1
    BY <2>1, SomeBatch
  <2> QED
    BY <2>1, <2>2
<1>2. vFutures[f].off = batch * (f - 1) /\ vFutures[f].size = batch
      /\ vFutures[g].off = batch * (g - 1)
  BY <1>1 DEF BatchInv, BatchIs
<1> QED
  BY <1>1, <1>2, MultiplesApart

LEMMA BatchWithin ==
    ASSUME BatchInv, NEW f \in 1..Len(vFutures)
    PROVE  /\ vFutures[f].off \in Nat /\ vFutures[f].size \in Nat
           /\ vFutures[f].off + vFutures[f].size <= Batch!Reach
<1>1. /\ nThreads \in Nat \ {0} /\ batch \in Nat \ {0} /\ spSize \in Nat
      /\ batch * nThreads \in Nat
      /\ Batch!Reach = IF batch * nThreads < spSize THEN spSize ELSE batch * nThreads
      /\ f \in Nat \ {0}
      /\ f <= nThreads \/ (f = nThreads + 1 /\ batch * nThreads < spSize)
      /\ vFutures[f] \in AFuture
  <2>1. nThreads \in Nat \ {0} /\ spSize \in Nat /\ vFutures[f] \in AFuture
    BY DEF BatchInv, IsCall
  <2>2. /\ batch * nThreads \in Nat
        /\ Batch!Reach = IF batch * nThreads < spSize THEN spSize ELSE batch * nThreads
    BY TailIs DEF BatchInv
  <2> QED
    BY <2>1, <2>2, SomeBatch
<1>2. /\ vFutures[f].off = batch * (f - 1)
      /\ vFutures[f].size = IF f <= nThreads THEN batch ELSE spSize - batch * nThreads
  BY DEF BatchInv, BatchIs
<1>3. CASE f <= nThreads
  <2>1. batch * (f - 1) + batch <= batch * nThreads
    BY <1>1, <1>3, MultiplesApart
  <2> QED
    BY <1>1, <1>2, <1>3, <2>1 DEF AFuture
<1>4. CASE f > nThreads
  <2>1. f - 1 = nThreads /\ batch * nThreads < spSize
    BY <1>1, <1>4
  <2> QED
    BY <1>1, <1>2, <1>4, <2>1 DEF AFuture
<1> QED
  BY <1>1, <1>3, <1>4

(* Once all are made, each element lies in one of them.                    *)
LEMMA BatchesCover ==
    ASSUME BatchInv, Len(vFutures) = Batch!Batches, NEW e \in 0..(spSize - 1)
    PROVE  \E f \in 1..Len(vFutures) :
              vFutures[f].off <= e /\ e < vFutures[f].off + vFutures[f].size
<1>1. /\ nThreads \in Nat \ {0} /\ batch \in Nat \ {0} /\ spSize \in Nat
      /\ batch * nThreads \in Nat
      /\ Len(vFutures) = IF batch * nThreads < spSize THEN nThreads + 1 ELSE nThreads
      /\ e \in Nat /\ e \in Int /\ e < spSize
  BY TailIs DEF BatchInv, IsCall
<1>2. ASSUME NEW f \in 1..Len(vFutures)
      PROVE  /\ vFutures[f].off = batch * (f - 1)
             /\ vFutures[f].size = IF f <= nThreads THEN batch ELSE spSize - batch * nThreads
  BY DEF BatchInv, BatchIs
<1>3. CASE e < batch * nThreads
  <2>1. PICK q \in Int, r \in 0..(batch - 1) : e = batch * q + r
    BY <1>1, DivMod
  <2>2. batch * q \in Int /\ r \in Int
    BY <1>1, <2>1
  <2>3. q < nThreads
    <3>1. SUFFICES ASSUME nThreads <= q PROVE FALSE
      BY <1>1, <2>1
    <3>2. batch * nThreads <= batch * q
      <4>1. CASE nThreads = q
        BY <2>2, <4>1
      <4>2. CASE nThreads < q
        <5>1. batch * nThreads + batch <= batch * q
          BY <1>1, <2>1, <4>2, MultiplesApart
        <5> QED
          BY <1>1, <2>2, <5>1
      <4> QED
        BY <1>1, <2>1, <3>1, <4>1, <4>2
    <3> QED
      BY <1>1, <1>3, <2>1, <2>2, <3>2
  <2>4. q >= 0
    <3>1. SUFFICES ASSUME q < 0 PROVE FALSE
      BY <2>1
    <3>2. batch * q + batch <= batch * 0
      BY <1>1, <2>1, <3>1, MultiplesApart
    <3>3. batch * 0 = 0
      BY <1>1
    <3> QED
      BY <1>1, <2>1, <2>2, <3>2, <3>3
  <2>5. q + 1 \in 1..Len(vFutures) /\ q + 1 <= nThreads /\ (q + 1) - 1 = q
    BY <1>1, <2>1, <2>3, <2>4
  <2>6. vFutures[q + 1].off = batch * q /\ vFutures[q + 1].size = batch
    BY <1>2, <2>5
  <2>7. batch * q <= e /\ e < batch * q + batch
    BY <1>1, <2>1, <2>2
  <2> QED
    BY <2>5, <2>6, <2>7
<1>4. CASE ~(e < batch * nThreads)
  <2>1. /\ nThreads + 1 \in 1..Len(vFutures) /\ ~(nThreads + 1 <= nThreads)
        /\ (nThreads + 1) - 1 = nThreads
    BY <1>1, <1>4
  <2>2. /\ vFutures[nThreads + 1].off = batch * nThreads
        /\ vFutures[nThreads + 1].size = spSize - batch * nThreads
    BY <1>2, <2>1
  <2>3. batch * nThreads <= e /\ e < batch * nThreads + (spSize - batch * nThreads)
    BY <1>1, <1>4
  <2> QED
    BY <2>1, <2>2, <2>3
<1> QED
  BY <1>3, <1>4

LEMMA InitBatchInv ==
    ASSUME BatchSizes, Batch!Init
    PROVE  BatchInv
<1>1. IsCall
  BY CallOfInit
<1>2. vFutures = <<>> /\ Len(vFutures) = 0 /\ vFutures \in Seq(AFuture)
  BY DEF Batch!Init
<1>3. batch * 0 = 0 /\ 0 <= nThreads /\ Batch!Batches \in Nat /\ Batch!Reach \in Nat
  BY <1>1, TailIs DEF IsCall
<1>4. nextI = 0 /\ waited = 0 /\ visits = [e \in 0..(Batch!Reach - 1) |-> 0]
  BY DEF Batch!Init
<1> QED
  BY <1>1, <1>2, <1>3, <1>4 DEF BatchInv

(* A new future changes no other one and has seen nothing.                 *)
LEMMA AddStep ==
    ASSUME BatchInv, Batch!AddBatch \/ Batch!AddTail
    PROVE  BatchInv'
<1> DEFINE n == Len(vFutures)
<1>1. /\ UNCHANGED <<nThreads, spSize, minBatchSize, visits, waited>>
      /\ batch' = batch /\ Batch!Batches' = Batch!Batches /\ Batch!tailSize' = Batch!tailSize
      /\ Batch!Reach' = Batch!Reach /\ IsCall /\ IsCall'
  BY DEF Batch!AddBatch, Batch!AddTail, Batch!clBatch, batch, Batch!batchSize, Batch!Batches,
         Batch!tailSize, Batch!Reach, BatchInv, IsCall
<1>2. /\ nThreads \in Nat \ {0} /\ batch \in Nat \ {0} /\ spSize \in Nat
      /\ batch * nThreads \in Nat
      /\ Batch!tailSize = spSize - batch * nThreads
      /\ Batch!AddTail => Batch!tailSize \in Nat
      /\ Batch!Batches = IF batch * nThreads < spSize THEN nThreads + 1 ELSE nThreads
      /\ Batch!Batches \in Nat \ {0}
  <2>1. /\ nThreads \in Nat \ {0} /\ batch \in Nat /\ spSize \in Nat
        /\ Len(vFutures) \in Nat
        /\ nextI = batch * (IF Len(vFutures) <= nThreads THEN Len(vFutures) ELSE nThreads)
    BY <1>1 DEF BatchInv, IsCall
  <2>2. /\ batch * nThreads \in Nat /\ Batch!tailSize = spSize - batch * nThreads
        /\ Batch!Batches = IF batch = 0 THEN 0
                           ELSE IF batch * nThreads < spSize THEN nThreads + 1 ELSE nThreads
    BY <1>1, TailIs
  <2>3. batch # 0
    <3>1. CASE Batch!AddBatch
      <4>1. SUFFICES ASSUME batch = 0 PROVE FALSE
        OBVIOUS
      <4>2. nextI < batch * nThreads
        BY <3>1 DEF Batch!AddBatch, batch
      <4>3. nextI = 0 /\ batch * nThreads = 0
        BY <2>1, <4>1
      <4> QED
        BY <4>2, <4>3
    <3>2. CASE Batch!AddTail
      BY <2>1, <2>2, <3>2 DEF Batch!AddTail
    <3> QED
      BY <3>1, <3>2
  <2>4. ASSUME Batch!AddTail PROVE Batch!tailSize \in Nat
    <3>1. nextI >= batch * nThreads /\ Len(vFutures) < Batch!Batches
      BY <2>4 DEF Batch!AddTail, batch
    <3>2. batch * nThreads < spSize
      <4>1. SUFFICES ASSUME ~(batch * nThreads < spSize) PROVE FALSE
        OBVIOUS
      <4>2. Len(vFutures) < nThreads
        BY <2>1, <2>2, <2>3, <3>1, <4>1
      <4>3. nextI = batch * Len(vFutures) /\ batch * Len(vFutures) \in Int
        BY <2>1, <4>2
      <4>4. batch * Len(vFutures) + batch <= batch * nThreads
        BY <2>1, <2>3, <4>2, MultiplesApart
      <4> QED
        BY <2>1, <2>2, <2>3, <3>1, <4>3, <4>4
    <3> QED
      BY <2>1, <2>2, <3>2
  <2> QED
    BY <2>1, <2>2, <2>3, <2>4
<1>3. /\ vFutures \in Seq(AFuture) /\ n \in Nat /\ n <= Batch!Batches
      /\ nextI = batch * (IF n <= nThreads THEN n ELSE nThreads)
  BY DEF BatchInv
<1>4. PICK new \in AFuture :
        /\ vFutures' = Append(vFutures, new) /\ new.seen = 0 /\ new.signalled = FALSE
        /\ new.off = nextI
        /\ \/ Batch!AddBatch /\ new.size = batch
           \/ Batch!AddTail /\ new.size = Batch!tailSize
  <2>1. nextI \in Nat
    BY <1>2, <1>3
  <2>2. CASE Batch!AddBatch
    <3> DEFINE w == [off |-> nextI, size |-> batch, seen |-> 0, signalled |-> FALSE]
    <3>1. w \in AFuture
      BY <1>2, <2>1 DEF AFuture
    <3>2. vFutures' = Append(vFutures, w)
      BY <2>2 DEF Batch!AddBatch, Batch!clBatch, batch
    <3>3. w.seen = 0 /\ w.signalled = FALSE /\ w.off = nextI /\ w.size = batch
      OBVIOUS
    <3> HIDE DEF w
    <3> QED
      BY <2>2, <3>1, <3>2, <3>3
  <2>3. CASE Batch!AddTail
    <3> DEFINE w == [off |-> nextI, size |-> Batch!tailSize, seen |-> 0, signalled |-> FALSE]
    <3>0. Batch!tailSize \in Nat
      BY <1>2, <2>3
    <3>1. w \in AFuture
      BY <3>0, <2>1 DEF AFuture
    <3>2. vFutures' = Append(vFutures, w)
      BY <2>3 DEF Batch!AddTail, Batch!clBatch, batch
    <3>3. w.seen = 0 /\ w.signalled = FALSE /\ w.off = nextI /\ w.size = Batch!tailSize
      OBVIOUS
    <3> HIDE DEF w
    <3> QED
      BY <2>3, <3>1, <3>2, <3>3
  <2> QED
    BY <2>2, <2>3
<1>5. /\ Len(vFutures') = n + 1 /\ vFutures'[n + 1] = new
      /\ vFutures' \in Seq(AFuture)
      /\ \A f \in 1..n : vFutures'[f] = vFutures[f]
  BY <1>3, <1>4
<1> HIDE DEF n
<1>6. \/ Batch!AddBatch /\ n < nThreads /\ new.size = batch /\ nextI' = nextI + batch
      \/ Batch!AddTail /\ n = nThreads /\ Batch!Batches = nThreads + 1
         /\ new.size = Batch!tailSize /\ nextI' = nextI
  <2>1. CASE Batch!AddBatch
    <3>1. nextI < batch * nThreads /\ nextI' = nextI + batch
      BY <2>1 DEF Batch!AddBatch, batch
    <3>2. n < nThreads
      BY <1>2, <1>3, <3>1
    <3>3. new.size = batch
      <4>1. vFutures'[n + 1].size = batch
        BY <1>3, <2>1 DEF Batch!AddBatch, Batch!clBatch, n, batch
      <4> QED
        BY <1>5, <4>1
    <3> QED
      BY <2>1, <3>1, <3>2, <3>3
  <2>2. CASE Batch!AddTail
    <3>1. nextI >= batch * nThreads /\ n < Batch!Batches /\ nextI' = nextI
      BY <2>2 DEF Batch!AddTail, batch, n
    <3>2. n >= nThreads
      <4>1. SUFFICES ASSUME n < nThreads PROVE FALSE
        BY <1>2, <1>3
      <4>2. nextI = batch * n /\ batch * n \in Int
        BY <1>2, <1>3, <4>1
      <4>3. batch * n + batch <= batch * nThreads
        BY <1>2, <1>3, <4>1, MultiplesApart
      <4> QED
        BY <1>2, <3>1, <4>2, <4>3
    <3>3. n = nThreads /\ Batch!Batches = nThreads + 1
      BY <1>2, <1>3, <3>1, <3>2
    <3>4. new.size = Batch!tailSize
      <4>1. vFutures'[n + 1].size = Batch!tailSize
        BY <1>3, <2>2 DEF Batch!AddTail, Batch!clBatch, n, batch
      <4> QED
        BY <1>5, <4>1
    <3> QED
      BY <2>2, <3>1, <3>3, <3>4
  <2> QED
    BY <1>4, <2>1, <2>2
<1>7. n <= nThreads /\ nextI = batch * n /\ n + 1 <= Batch!Batches
  BY <1>2, <1>3, <1>6
<1>8. nextI' = batch * (IF n + 1 <= nThreads THEN n + 1 ELSE nThreads)
  <2>1. batch * (n + 1) = batch * n + batch
    BY <1>2, <1>3
  <2> QED
    BY <1>2, <1>3, <1>6, <1>7, <2>1
<1>9. ASSUME NEW f \in 1..(n + 1)
      PROVE  BatchIs(f)'
  <2>1. CASE f \in 1..n
    <3>1. BatchIs(f)
      BY <2>1 DEF BatchInv, n
    <3> QED
      BY <1>1, <1>5, <2>1, <3>1 DEF BatchIs
  <2>2. CASE f = n + 1
    <3>1. f - 1 = n /\ (f <= nThreads <=> n < nThreads)
      BY <1>2, <1>3, <2>2
    <3>2. new.size = IF f <= nThreads THEN batch ELSE spSize - batch * nThreads
      BY <1>2, <1>6, <3>1
    <3>3. 0 <= new.size
      BY <1>4 DEF AFuture
    <3> QED
      BY <1>1, <1>4, <1>5, <1>7, <2>2, <3>1, <3>2, <3>3 DEF BatchIs
  <2> QED
    BY <1>3, <2>1, <2>2
<1>10. ASSUME NEW e \in 0..(Batch!Reach - 1)
        PROVE  (\E f \in 1..(n + 1) : Passed(vFutures', f, e))
                   <=> (\E f \in 1..n : Passed(vFutures, f, e))
  <2>1. ~Passed(vFutures', n + 1, e)
    <3>1. new.off \in Nat /\ new.off + new.seen = new.off
      BY <1>4 DEF AFuture
    <3> QED
      BY <1>4, <1>5, <3>1 DEF Passed
  <2>2. \A f \in 1..n : Passed(vFutures', f, e) <=> Passed(vFutures, f, e)
    BY <1>5 DEF Passed
  <2>3. \A f \in 1..(n + 1) : f \in 1..n \/ f = n + 1
    BY <1>3
  <2>4. \A f \in 1..n : f \in 1..(n + 1)
    BY <1>3
  <2> QED
    BY <2>1, <2>2, <2>3, <2>4
<1>11. visits' \in [0..(Batch!Reach - 1) -> Nat]
  BY <1>1 DEF BatchInv
<1>12. \A e \in 0..(Batch!Reach - 1) :
          visits'[e] = IF \E f \in 1..(n + 1) : Passed(vFutures', f, e) THEN 1 ELSE 0
  BY <1>1, <1>10 DEF BatchInv, n
<1>13. waited = 0
  BY <1>2, <1>3, <1>7 DEF BatchInv, n
<1> QED
  <2>1. Len(vFutures') = n + 1 /\ n + 1 <= Batch!Batches'
    BY <1>1, <1>5, <1>7
  <2>2. nextI' = batch' * (IF Len(vFutures') <= nThreads' THEN Len(vFutures') ELSE nThreads')
    BY <1>1, <1>8, <2>1
  <2>3. \A f \in 1..Len(vFutures') : BatchIs(f)'
    BY <1>9, <2>1
  <2>4. waited' \in 0..Batch!Batches' /\ ~(waited' > 0)
    BY <1>1, <1>2, <1>13
  <2>5. \A e \in 0..(Batch!Reach' - 1) :
          visits'[e] = IF \E f \in 1..Len(vFutures') : Passed(vFutures', f, e) THEN 1 ELSE 0
    BY <1>1, <1>12, <2>1
  <2>6. \A f \in 1..waited' : vFutures'[f].signalled
    BY <1>1, <1>13
  <2> QED
    BY <1>1, <1>5, <1>11, <2>1, <2>2, <2>3, <2>4, <2>5, <2>6 DEF BatchInv

LEMMA AFutureIs ==
    ASSUME NEW v \in AFuture
    PROVE  v.off \in Nat /\ v.size \in Nat /\ v.seen \in Nat /\ v.signalled \in BOOLEAN
BY DEF AFuture

LEMMA FutureChanged ==
    ASSUME NEW F \in Seq(AFuture), NEW f \in 1..Len(F), NEW w \in AFuture
    PROVE  /\ [F EXCEPT ![f] = w] \in Seq(AFuture) /\ Len([F EXCEPT ![f] = w]) = Len(F)
           /\ [F EXCEPT ![f] = w][f] = w
           /\ \A g \in 1..Len(F) : g # f => [F EXCEPT ![f] = w][g] = F[g]
OBVIOUS

(* The rest of a step that changes what the tasks have seen or signalled.   *)
LEMMA SameCall ==
    ASSUME BatchInv, UNCHANGED <<nThreads, spSize, minBatchSize, nextI>>
    PROVE  /\ batch' = batch /\ Batch!Batches' = Batch!Batches /\ Batch!Reach' = Batch!Reach
           /\ IsCall'
BY DEF batch, Batch!batchSize, Batch!Batches, Batch!Reach, Batch!tailSize, BatchInv, IsCall

(* A task gives the closure the element after those it has passed.          *)
LEMMA VisitStep ==
    ASSUME BatchInv, NEW f \in DOMAIN vFutures, Batch!Visit(f)
    PROVE  BatchInv'
<1> DEFINE v == vFutures[f]
           e0 == v.off + v.seen
<1>1. /\ UNCHANGED <<nThreads, spSize, minBatchSize, nextI, waited>>
      /\ v.seen < v.size
      /\ visits' = [visits EXCEPT ![e0] = @ + 1]
      /\ vFutures' = [vFutures EXCEPT ![f].seen = @ + 1]
  BY DEF Batch!Visit
<1>2. batch' = batch /\ Batch!Batches' = Batch!Batches /\ Batch!Reach' = Batch!Reach /\ IsCall'
  BY <1>1, SameCall
<1>3. /\ vFutures \in Seq(AFuture) /\ Len(vFutures) \in Nat /\ f \in 1..Len(vFutures)
      /\ v \in AFuture /\ v.seen \in Nat /\ v.off \in Nat /\ v.size \in Nat
      /\ Batch!Reach \in Nat /\ visits \in [0..(Batch!Reach - 1) -> Nat]
  <2>1. /\ vFutures \in Seq(AFuture) /\ Len(vFutures) \in Nat /\ f \in 1..Len(vFutures)
        /\ Batch!Reach \in Nat /\ visits \in [0..(Batch!Reach - 1) -> Nat]
    <3>1. vFutures \in Seq(AFuture)
      BY DEF BatchInv
    <3>2. visits \in [0..(Batch!Reach - 1) -> Nat] /\ IsCall
      BY DEF BatchInv
    <3>3. Batch!Reach \in Nat
      BY <3>2, TailIs DEF IsCall
    <3> QED
      BY <3>1, <3>2, <3>3
  <2>2. v \in AFuture
    BY <2>1
  <2>3. v.seen \in Nat /\ v.off \in Nat /\ v.size \in Nat
    BY <2>2, AFutureIs
  <2> QED
    BY <2>1, <2>2, <2>3
<1>4. v.off + v.size <= Batch!Reach
  BY <1>3, BatchWithin
<1>5. e0 \in 0..(Batch!Reach - 1)
  BY <1>1, <1>3, <1>4
<1>6. /\ vFutures' \in Seq(AFuture) /\ Len(vFutures') = Len(vFutures)
      /\ vFutures'[f].off = v.off /\ vFutures'[f].size = v.size
      /\ vFutures'[f].seen = v.seen + 1 /\ vFutures'[f].signalled = v.signalled
      /\ \A g \in 1..Len(vFutures) : g # f => vFutures'[g] = vFutures[g]
  <2> DEFINE w == [v EXCEPT !.seen = v.seen + 1]
  <2>1. vFutures' = [vFutures EXCEPT ![f] = w]
    BY <1>1, <1>3
  <2>2. /\ w \in AFuture /\ w.off = v.off /\ w.size = v.size /\ w.seen = v.seen + 1
        /\ w.signalled = v.signalled
    <3>1. v.seen + 1 \in Nat
      BY <1>3
    <3> HIDE DEF v
    <3> QED
      BY <1>3, <3>1 DEF AFuture
  <2> HIDE DEF w, v
  <2> QED
    BY <1>3, <2>1, <2>2, FutureChanged
<1>7. BatchIs(f) /\ ~v.signalled
  BY <1>1, <1>3 DEF BatchInv, BatchIs
<1>8. ASSUME NEW g \in 1..Len(vFutures)
      PROVE  BatchIs(g)'
  <2>1. BatchIs(g)
    BY DEF BatchInv
  <2>2. CASE g = f
    BY <1>1, <1>2, <1>3, <1>6, <1>7, <2>1, <2>2 DEF BatchIs
  <2>3. CASE g # f
    BY <1>1, <1>2, <1>6, <2>1, <2>3 DEF BatchIs
  <2> QED
    BY <2>2, <2>3
<1>9. ASSUME NEW g \in 1..Len(vFutures)
      PROVE  ~Passed(vFutures, g, e0)
  <2>1. /\ vFutures[g].off \in Nat /\ vFutures[g].size \in Nat /\ vFutures[g].seen \in Nat
        /\ vFutures[g].seen <= vFutures[g].size
    <3>1. vFutures[g] \in AFuture
      BY <1>3
    <3>2. BatchIs(g)
      BY DEF BatchInv
    <3> QED
      BY <3>1, <3>2, AFutureIs DEF BatchIs
  <2>2. CASE g = f
    BY <1>3, <2>2 DEF Passed
  <2>3. CASE g < f
    <3>1. vFutures[g].off + vFutures[g].size <= v.off
      BY <1>3, <2>3, BatchesApart
    <3> QED
      BY <1>3, <2>1, <3>1 DEF Passed
  <2>4. CASE f < g
    <3>1. v.off + v.size <= vFutures[g].off
      BY <1>3, <2>4, BatchesApart
    <3> QED
      BY <1>1, <1>3, <2>1, <3>1 DEF Passed
  <2> QED
    BY <1>3, <2>2, <2>3, <2>4
<1>10. ASSUME NEW e \in 0..(Batch!Reach - 1)
       PROVE  /\ \A g \in 1..Len(vFutures) :
                    g # f => (Passed(vFutures', g, e) <=> Passed(vFutures, g, e))
              /\ Passed(vFutures', f, e) <=> (Passed(vFutures, f, e) \/ e = e0)
  <2>1. \A g \in 1..Len(vFutures) :
           g # f => (Passed(vFutures', g, e) <=> Passed(vFutures, g, e))
    BY <1>6 DEF Passed
  <2>2. Passed(vFutures', f, e) <=> (Passed(vFutures, f, e) \/ e = e0)
    <3>1. Passed(vFutures, f, e) <=> (v.off <= e /\ e < v.off + v.seen)
      BY DEF Passed
    <3>2. Passed(vFutures', f, e) <=> (v.off <= e /\ e < v.off + (v.seen + 1))
      BY <1>6 DEF Passed
    <3> DEFINE o == v.off
               n == v.seen
    <3>3. e \in Int /\ o \in Int /\ n \in Int /\ n >= 0 /\ e0 = o + n
      BY <1>3
    <3> HIDE DEF o, n, e0, v
    <3>4. e < o + (n + 1) <=> (e < o + n \/ e = o + n)
      BY <3>3
    <3>5. (o <= e /\ e < o + (n + 1)) <=> ((o <= e /\ e < o + n) \/ e = e0)
      BY <3>3, <3>4
    <3> QED
      BY <3>1, <3>2, <3>5 DEF o, n
  <2> QED
    BY <2>1, <2>2
<1>11. /\ visits' \in [0..(Batch!Reach - 1) -> Nat] /\ visits'[e0] = visits[e0] + 1
       /\ \A e \in 0..(Batch!Reach - 1) : e # e0 => visits'[e] = visits[e]
  BY <1>1, <1>3, <1>5
<1> HIDE DEF v, e0
<1>12. ASSUME NEW e \in 0..(Batch!Reach - 1)
       PROVE  visits'[e] = IF \E g \in 1..Len(vFutures) : Passed(vFutures', g, e) THEN 1 ELSE 0
  <2>1. visits[e] = IF \E g \in 1..Len(vFutures) : Passed(vFutures, g, e) THEN 1 ELSE 0
    BY DEF BatchInv
  <2>2. CASE e = e0
    <3>1. visits[e] = 0
      BY <1>9, <2>1, <2>2
    <3>2. Passed(vFutures', f, e)
      BY <1>10, <2>2
    <3> QED
      BY <1>3, <1>11, <2>2, <3>1, <3>2
  <2>3. CASE e # e0
    <3>1. \A g \in 1..Len(vFutures) : Passed(vFutures', g, e) <=> Passed(vFutures, g, e)
      BY <1>10, <2>3
    <3> QED
      BY <1>11, <2>1, <2>3, <3>1
  <2> QED
    BY <2>2, <2>3
<1>13. \A g \in 1..waited : vFutures'[g].signalled
  <2> TAKE g \in 1..waited
  <2>1. vFutures[g].signalled /\ g \in 1..Len(vFutures)
    BY <1>3 DEF BatchInv
  <2> QED
    BY <1>6, <1>7, <2>1 DEF v
<1> QED
  BY <1>1, <1>2, <1>6, <1>8, <1>11, <1>12, <1>13 DEF BatchInv

LEMMA SignalStep ==
    ASSUME BatchInv, NEW f \in DOMAIN vFutures, Batch!Signal(f)
    PROVE  BatchInv'
<1>1. /\ UNCHANGED <<nThreads, spSize, minBatchSize, nextI, visits, waited>>
      /\ vFutures[f].seen = vFutures[f].size
      /\ vFutures' = [vFutures EXCEPT ![f].signalled = TRUE]
  BY DEF Batch!Signal
<1>2. batch' = batch /\ Batch!Batches' = Batch!Batches /\ Batch!Reach' = Batch!Reach /\ IsCall'
  BY <1>1, SameCall
<1>3. /\ vFutures \in Seq(AFuture) /\ Len(vFutures) \in Nat /\ f \in 1..Len(vFutures)
      /\ vFutures[f] \in AFuture
  BY DEF BatchInv
<1>4. /\ vFutures' \in Seq(AFuture) /\ Len(vFutures') = Len(vFutures)
      /\ vFutures'[f].off = vFutures[f].off /\ vFutures'[f].size = vFutures[f].size
      /\ vFutures'[f].seen = vFutures[f].seen /\ vFutures'[f].signalled = TRUE
      /\ \A g \in 1..Len(vFutures) : g # f => vFutures'[g] = vFutures[g]
  <2> DEFINE w == [vFutures[f] EXCEPT !.signalled = TRUE]
  <2>1. vFutures' = [vFutures EXCEPT ![f] = w]
    BY <1>1, <1>3
  <2>2. /\ w \in AFuture /\ w.off = vFutures[f].off /\ w.size = vFutures[f].size
        /\ w.seen = vFutures[f].seen /\ w.signalled = TRUE
    BY <1>3 DEF AFuture
  <2> HIDE DEF w
  <2> QED
    BY <1>3, <2>1, <2>2, FutureChanged
<1>5. ASSUME NEW g \in 1..Len(vFutures)
      PROVE  BatchIs(g)'
  <2>1. BatchIs(g)
    BY DEF BatchInv
  <2>2. CASE g = f
    BY <1>1, <1>2, <1>4, <2>1, <2>2 DEF BatchIs
  <2>3. CASE g # f
    BY <1>1, <1>2, <1>4, <2>1, <2>3 DEF BatchIs
  <2> QED
    BY <2>2, <2>3
<1>6. \A g \in 1..Len(vFutures), e \in 0..(Batch!Reach - 1) :
         Passed(vFutures', g, e) <=> Passed(vFutures, g, e)
  BY <1>4 DEF Passed
<1>7. \A e \in 0..(Batch!Reach - 1) :
         visits'[e] = IF \E g \in 1..Len(vFutures) : Passed(vFutures', g, e) THEN 1 ELSE 0
  <2> TAKE e \in 0..(Batch!Reach - 1)
  <2>1. visits[e] = IF \E g \in 1..Len(vFutures) : Passed(vFutures, g, e) THEN 1 ELSE 0
    BY DEF BatchInv
  <2> QED
    BY <1>1, <1>6, <2>1
<1>8. \A g \in 1..waited : vFutures'[g].signalled
  <2> TAKE g \in 1..waited
  <2>1. vFutures[g].signalled /\ g \in 1..Len(vFutures)
    BY <1>3 DEF BatchInv
  <2> QED
    BY <1>4, <2>1
<1>9. visits' \in [0..(Batch!Reach - 1) -> Nat]
  BY <1>1 DEF BatchInv
<1> QED
  BY <1>1, <1>2, <1>4, <1>5, <1>7, <1>8, <1>9 DEF BatchInv

LEMMA WaitStep ==
    ASSUME BatchInv, Batch!WaitNext
    PROVE  BatchInv'
<1>1. /\ UNCHANGED <<nThreads, spSize, minBatchSize, nextI, vFutures, visits>>
      /\ Len(vFutures) = Batch!Batches /\ waited < Batch!Batches
      /\ vFutures[waited + 1].signalled /\ waited' = waited + 1
  BY DEF Batch!WaitNext
<1>2. batch' = batch /\ Batch!Batches' = Batch!Batches /\ Batch!Reach' = Batch!Reach /\ IsCall'
  BY <1>1, SameCall
<1>3. waited \in 0..Batch!Batches /\ Batch!Batches \in Nat
  BY TailIs DEF BatchInv
<1>4. waited' \in 0..Batch!Batches /\ \A g \in 1..waited' : vFutures'[g].signalled
  <2>1. \A g \in 1..waited : vFutures[g].signalled
    BY DEF BatchInv
  <2>2. \A g \in 1..(waited + 1) : g \in 1..waited \/ g = waited + 1
    BY <1>3
  <2> QED
    BY <1>1, <1>3, <2>1, <2>2
<1>5. \A f \in 1..Len(vFutures) : BatchIs(f)'
  BY <1>1, <1>2 DEF BatchInv, BatchIs
<1> QED
  BY <1>1, <1>2, <1>4, <1>5 DEF BatchInv

LEMMA NextBatchInv ==
    ASSUME BatchInv, [Batch!Next]_(Batch!vars)
    PROVE  BatchInv'
<1>1. CASE Batch!AddBatch \/ Batch!AddTail
  BY <1>1, AddStep
<1>2. CASE Batch!WaitNext
  BY <1>2, WaitStep
<1>3. ASSUME NEW f \in DOMAIN vFutures, Batch!Visit(f) \/ Batch!Signal(f)
      PROVE  BatchInv'
  BY <1>3, VisitStep, SignalStep
<1>4. CASE UNCHANGED Batch!vars
  <2>1. batch' = batch /\ Batch!Batches' = Batch!Batches /\ Batch!Reach' = Batch!Reach /\ IsCall'
    BY <1>4, SameCall DEF Batch!vars
  <2>2. \A f \in 1..Len(vFutures) : BatchIs(f)'
    BY <1>4, <2>1 DEF Batch!vars, BatchInv, BatchIs
  <2> QED
    BY <1>4, <2>1, <2>2 DEF Batch!vars, BatchInv
<1> QED
  BY <1>1, <1>2, <1>3, <1>4 DEF Batch!Next

LEMMA EachOnce ==
    ASSUME BatchInv
    PROVE  Batch!VisitsOnce
<1>1. ASSUME nThreads <= spSize, minBatchSize <= spSize \div nThreads,
             NEW f \in DOMAIN vFutures
      PROVE  vFutures[f].off + vFutures[f].size <= spSize
  <2>1. f \in 1..Len(vFutures)
    BY DEF BatchInv
  <2>2. Batch!Reach = spSize
    BY <1>1, SharesFit DEF BatchInv
  <2> QED
    BY <2>1, <2>2, BatchWithin
<1>2. DOMAIN visits = 0..(Batch!Reach - 1)
  BY DEF BatchInv
<1>3. \A e \in DOMAIN visits : visits[e] <= 1
  BY <1>2 DEF BatchInv
<1>4. ASSUME waited = Batch!Batches, NEW e \in 0..(spSize - 1)
      PROVE  visits[e] = 1
  <2>1. Len(vFutures) = Batch!Batches /\ e \in DOMAIN visits
    <3>1. /\ spSize \in Nat /\ batch \in Nat /\ (batch = 0 => spSize = 0) /\ nThreads \in Nat \ {0}
          /\ (waited > 0 => Len(vFutures) = Batch!Batches)
      BY DEF BatchInv, IsCall
    <3>2. /\ batch * nThreads \in Nat
          /\ Batch!Batches = IF batch = 0 THEN 0
                             ELSE IF batch * nThreads < spSize THEN nThreads + 1 ELSE nThreads
          /\ Batch!Reach = IF batch * nThreads < spSize THEN spSize ELSE batch * nThreads
      BY TailIs DEF BatchInv
    <3>3. batch # 0 /\ e < spSize /\ 0 <= e /\ e \in Int
      BY <1>4, <3>1
    <3>4. waited > 0 /\ spSize <= Batch!Reach /\ Batch!Reach \in Nat
      BY <1>4, <3>1, <3>2, <3>3
    <3> QED
      BY <1>2, <3>1, <3>3, <3>4
  <2>2. PICK f \in 1..Len(vFutures) :
           vFutures[f].off <= e /\ e < vFutures[f].off + vFutures[f].size
    BY <1>4, <2>1, BatchesCover
  <2>3. vFutures[f].signalled
    BY <1>4, <2>1 DEF BatchInv
  <2>4. vFutures[f].seen = vFutures[f].size
    BY <2>3 DEF BatchInv, BatchIs
  <2>5. Passed(vFutures, f, e)
    BY <2>2, <2>4 DEF Passed
  <2> QED
    BY <1>2, <2>1, <2>5 DEF BatchInv
<1> QED
  BY <1>1, <1>3, <1>4 DEF Batch!VisitsOnce

-----------------------------------------------------------------------------
(* parallelFor() in every run                                              *)

BatchPart == part = "batches" => BatchInv

LEMMA BatchPartHolds == Spec => []BatchPart
<1>1. Init => BatchPart
  BY InitBatchInv, BatchAssumption DEF Init, BatchPart
<1>2. BatchPart /\ [Next]_specVars => BatchPart'
  <2> SUFFICES ASSUME BatchPart, [Next]_specVars, part' = "batches" PROVE BatchInv'
    BY DEF BatchPart
  <2>1. part = "batches"
    BY DEF Next, specVars
  <2>2. [Batch!Next]_(Batch!vars)
    BY <2>1 DEF Next, specVars, batchVars, Batch!vars
  <2> QED
    BY <2>1, <2>2, NextBatchInv DEF BatchPart
<1> QED
  BY <1>1, <1>2, PTL DEF Spec

-----------------------------------------------------------------------------
(* The queues in every run: a part that is not used stays as it was        *)

LEMMA QueueInRun ==
    /\ Init => IInv /\ Queue!Contract!Init
    /\ [Next]_specVars => [Queue!Next]_(Queue!vars)
<1>1. ASSUME Init, part # "queue"
      PROVE  IInv /\ Queue!Contract!Init
  <2>1. NoArray /\ popped = <<>>
    BY <1>1 DEF Init, NoArray
  <2> QED
    BY <2>1, NothingThere DEF IInv, Queue!Contract!Init
<1>2. ASSUME Init, part = "queue"
      PROVE  IInv /\ Queue!Contract!Init
  <2>1. Queue!Init
    BY <1>2 DEF Init
  <2> QED
    BY <2>1, InitIInv, QueueAssumption
<1>3. [Next]_specVars => [Queue!Next]_(Queue!vars)
  BY DEF Next, specVars, queueVars, Queue!vars
<1> QED
  BY <1>1, <1>2, <1>3

LEMMA QueueInvHolds == Spec => []IInv
<1>1. IInv /\ [Next]_specVars => IInv'
  BY QueueInRun, NextIsDeque, QueueAssumption
<1> QED
  BY <1>1, QueueInRun, PTL DEF Spec

(* Queue and QueueArray are deques of any elements, with any capacities:   *)
(* no push, pop or growth (Queue.hh:38-57, 253) loses, doubles or moves an *)
(* element, and a pop returns the one at its end.                          *)
THEOREM QueuesAreDeques == Spec => IsDeque
<1>1. Init => Queue!Contract!Init
  BY QueueInRun
<1>2. IInv /\ [Next]_specVars => [Queue!Contract!NextDeque]_(Queue!Contract!contractVars)
  BY QueueInRun, NextIsDeque, QueueAssumption
<1> QED
  BY <1>1, <1>2, QueueInvHolds, PTL DEF Spec, IsDeque, Queue!IsDeque, Queue!Contract!DequeSpec

(* Iterating a queue from either end shows the same elements, and never a  *)
(* cell in which there is none (Queue.hh:68-101); whatever its arguments,  *)
(* parallelFor() gives each element of the span to the closure once, and   *)
(* has when its futures have been waited on, and nothing behind the span   *)
(* if the threads have a share of at least minBatchSize                    *)
(* (ThreadPool.hh:366-408).                                                *)
THEOREM IterationIsOnce == Spec => []IterationIsExact
<1>1. IInv => Queue!TypeOK /\ Queue!BothWaysAgree
  BY BackwardsToo, QueueAssumption
<1>2. BatchPart => (part = "batches" => Batch!VisitsOnce)
  BY EachOnce DEF BatchPart
<1>3. IInv /\ BatchPart => IterationIsExact
  BY <1>1, <1>2 DEF IterationIsExact
<1> QED
  BY <1>3, QueueInvHolds, BatchPartHolds, PTL

-----------------------------------------------------------------------------
(* The ring of messages in every run                                       *)

LEMMA RingInRun ==
    /\ Init => Ring!RingHoldsItems /\ Ring!Queue!Init
    /\ [Next]_specVars => [Ring!Next]_(Ring!vars)
<1>1. Init => Ring!RingHoldsItems /\ Ring!Queue!Init
  BY InitHoldsItems, RingAssumption DEF Init
<1>2. [Next]_specVars => [Ring!Next]_(Ring!vars)
  BY DEF Next, specVars, ringVars, Ring!vars
<1> QED
  BY <1>1, <1>2

(* The queued messages lie whole and in order between the two indices: no  *)
(* push() overwrites a byte that has not been popped (Logger.hh:405-443).  *)
THEOREM ItemsAreHeld == Spec => []Ring!RingHoldsItems
<1>1. Ring!RingHoldsItems /\ [Next]_specVars => Ring!RingHoldsItems'
  BY RingInRun, StepHoldsItems, RingAssumption
<1> QED
  BY <1>1, RingInRun, PTL DEF Spec

(* While there are bytes, pop() finds the header of the oldest message,    *)
(* even one that the end of the ring cuts.                                 *)
THEOREM OldestIsFound ==
    Spec => [](size > 0 => messages # <<>> /\ Ring!HeaderAtFirst = Ring!Header(Head(messages)))
<1>1. Ring!RingHoldsItems =>
          (size > 0 => messages # <<>> /\ Ring!HeaderAtFirst = Ring!Header(Head(messages)))
  BY PopSees, PopFindsHeader, RingAssumption
<1> QED
  BY <1>1, ItemsAreHeld, PTL

(* The ring is a first-in first-out queue of messages, full when a message *)
(* and its header no longer fit; every message comes out as it was pushed, *)
(* byte by byte, and no memcpy and no view of push() and pop() reaches     *)
(* outside what it is of (Logger.hh:405-491).                              *)
THEOREM RingIsExact == Spec => RingIsQueue
<1>1. Init => Ring!Queue!Init
  BY RingInRun
<1>2. Ring!RingHoldsItems /\ [Next]_specVars => [Ring!Queue!NextFifo]_(Ring!Queue!contractVars)
  BY RingInRun, StepIsFifo, RingAssumption
<1>3. Spec => Ring!IsMessageQueue
  BY <1>1, <1>2, ItemsAreHeld, PTL DEF Spec, Ring!IsMessageQueue, Ring!Queue!FifoSpec
<1>4. Ring!RingHoldsItems /\ [Next]_specVars => [StepWrites]_(Ring!vars)
  BY RingInRun, StepIsExact, RingAssumption
<1>5. Spec => [][StepWrites]_(Ring!vars)
  BY <1>4, ItemsAreHeld, PTL DEF Spec
<1>6. Spec => Ring!WritesTheMessage
  BY <1>5 DEF Ring!WritesTheMessage, StepWrites
<1> QED
  BY <1>3, <1>6, ItemsAreHeld, PTL DEF RingIsQueue, Ring!RingIsQueue

-----------------------------------------------------------------------------
(* Vectors                                                                 *)

VecCell == Values \cup {Junk}

(* The first cells of D hold the elements of s.                            *)
Begins(D, s) ==
    /\ D \in Seq(VecCell) /\ s \in Seq(Values) /\ Len(s) <= Len(D)
    /\ \A k \in 1..Len(s) : D[k] = s[k]

VecInv == Begins(vecData, items) /\ Len(items) = vecSize /\ Len(vecData) <= VecMaxCap

LEMMA VecMinMax ==
    ASSUME NEW x \in Int, NEW y \in Int
    PROVE  /\ Vec!Min({x, y}) = IF x <= y THEN x ELSE y
           /\ Vec!Max({x, y}) = IF x >= y THEN x ELSE y
<1>1. PICK m \in {x, y} : \A k \in {x, y} : m <= k
  OBVIOUS
<1>2. PICK n \in {x, y} : \A k \in {x, y} : n >= k
  OBVIOUS
<1>3. Vec!Min({x, y}) \in {x, y} /\ \A k \in {x, y} : Vec!Min({x, y}) <= k
  BY <1>1 DEF Vec!Min
<1>4. Vec!Max({x, y}) \in {x, y} /\ \A k \in {x, y} : Vec!Max({x, y}) >= k
  BY <1>2 DEF Vec!Max
<1> QED
  BY <1>3, <1>4

(* What memMove() and memCopy() leave, inside the two ranges of memory.    *)
LEMMA VecCopied ==
    ASSUME NEW dst \in Seq(VecCell), NEW src \in Seq(VecCell), NEW to \in Nat,
           NEW from \in Nat, NEW n \in Nat, from + n <= Len(src)
    PROVE  /\ Vec!Copied(dst, to, src, from, n) \in Seq(VecCell)
           /\ Len(Vec!Copied(dst, to, src, from, n)) = Len(dst)
           /\ \A k \in 1..Len(dst) :
                 Vec!Copied(dst, to, src, from, n)[k] =
                     IF to < k /\ k <= to + n THEN src[k - to + from] ELSE dst[k]
<1> DEFINE out == Vec!Copied(dst, to, src, from, n)
<1>1. DOMAIN dst = 1..Len(dst) /\ Len(dst) \in Nat
  OBVIOUS
<1>2. \A k \in 1..Len(dst) : k \in (to + 1)..(to + n) <=> to < k /\ k <= to + n
  BY <1>1
<1>3. out = [k \in 1..Len(dst) |->
                IF k \in (to + 1)..(to + n) THEN src[k - to + from] ELSE dst[k]]
  BY <1>1 DEF Vec!Copied
<1>4. \A k \in 1..Len(dst) :
         out[k] = IF to < k /\ k <= to + n THEN src[k - to + from] ELSE dst[k]
  BY <1>2, <1>3
<1>5. ASSUME NEW k \in 1..Len(dst) PROVE out[k] \in VecCell
  <2>1. CASE to < k /\ k <= to + n
    <3>1. k - to + from \in 1..Len(src)
      BY <2>1
    <3> QED
      BY <1>4, <2>1, <3>1
  <2>2. CASE ~(to < k /\ k <= to + n)
    BY <1>4, <2>2
  <2> QED
    BY <2>1, <2>2
<1>6. out \in [1..Len(dst) -> VecCell]
  BY <1>3, <1>5
<1>7. out \in Seq(VecCell) /\ Len(out) = Len(dst)
  BY <1>1, <1>6
<1> QED
  BY <1>4, <1>7

LEMMA VecAt ==
    ASSUME NEW dst \in Seq(VecCell), NEW i \in Nat, NEW v \in Values
    PROVE  /\ Vec!At(dst, i, v) \in Seq(VecCell) /\ Len(Vec!At(dst, i, v)) = Len(dst)
           /\ \A k \in 1..Len(dst) : Vec!At(dst, i, v)[k] = IF k = i + 1 THEN v ELSE dst[k]
<1> DEFINE src == <<v>>
<1>1. src \in Seq(VecCell) /\ Len(src) = 1 /\ src[1] = v
  BY DEF VecCell
<1>2. Vec!At(dst, i, v) = Vec!Copied(dst, i, src, 0, 1)
  BY DEF Vec!At
<1> HIDE DEF src
<1>3. /\ Vec!Copied(dst, i, src, 0, 1) \in Seq(VecCell)
      /\ Len(Vec!Copied(dst, i, src, 0, 1)) = Len(dst)
      /\ \A k \in 1..Len(dst) :
            Vec!Copied(dst, i, src, 0, 1)[k] =
                IF i < k /\ k <= i + 1 THEN src[k - i + 0] ELSE dst[k]
  <2>1. ASSUME NEW n \in Nat, NEW c \in Seq(VecCell), n <= Len(c)
        PROVE  /\ Vec!Copied(dst, i, c, 0, n) \in Seq(VecCell)
               /\ Len(Vec!Copied(dst, i, c, 0, n)) = Len(dst)
               /\ \A k \in 1..Len(dst) :
                     Vec!Copied(dst, i, c, 0, n)[k] =
                         IF i < k /\ k <= i + n THEN c[k - i + 0] ELSE dst[k]
    <3>1. 0 \in Nat /\ 0 + n <= Len(c)
      BY <2>1
    <3> QED
      BY <2>1, <3>1, VecCopied
  <2>2. 1 \in Nat /\ 1 <= Len(src)
    BY <1>1
  <2> QED
    BY <1>1, <2>1, <2>2
<1>4. ASSUME NEW k \in 1..Len(dst)
      PROVE  Vec!Copied(dst, i, src, 0, 1)[k] = IF k = i + 1 THEN v ELSE dst[k]
  <2>1. CASE k = i + 1
    <3>1. k - i + 0 = 1 /\ i < k /\ k <= i + 1
      BY <2>1
    <3> QED
      BY <1>1, <1>3, <2>1, <3>1
  <2>2. CASE k # i + 1
    <3>1. ~(i < k /\ k <= i + 1)
      BY <2>2
    <3> QED
      BY <1>3, <2>2, <3>1
  <2> QED
    BY <2>1, <2>2
<1> QED
  BY <1>2, <1>3, <1>4

(* A new block of memory, and what relocate() copies into it.              *)
LEMMA VecUninit ==
    ASSUME NEW n \in Nat
    PROVE  Vec!Uninit(n) \in Seq(VecCell) /\ Len(Vec!Uninit(n)) = n
<1>1. Vec!Uninit(n) \in [1..n -> VecCell]
  BY DEF Vec!Uninit, VecCell
<1> QED
  BY <1>1

LEMMA VecRelocate ==
    ASSUME VecInv, NEW cap \in Nat
    PROVE  /\ Vec!relocate(cap) \in Seq(VecCell) /\ Len(Vec!relocate(cap)) = cap
           /\ \A k \in 1..Len(items) : k <= cap => Vec!relocate(cap)[k] = items[k]
<1>1. /\ vecData \in Seq(VecCell) /\ items \in Seq(Values) /\ Len(items) <= Len(vecData)
      /\ Len(vecData) \in Nat /\ Len(items) \in Nat
      /\ \A k \in 1..Len(items) : vecData[k] = items[k]
  BY DEF VecInv, Begins
<1> DEFINE n == IF cap <= Len(vecData) THEN cap ELSE Len(vecData)
<1>2. Vec!relocate(cap) = Vec!Copied(Vec!Uninit(cap), 0, vecData, 0, n)
  <2>1. cap \in Int /\ Len(vecData) \in Int
    BY <1>1
  <2>2. Vec!Min({cap, Len(vecData)}) = n
    BY <2>1, VecMinMax
  <2> QED
    BY <2>2 DEF Vec!relocate, Vec!m_capacity
<1>3. n \in Nat /\ 0 + n <= Len(vecData) /\ 0 \in Nat
  BY <1>1
<1>4. \A k \in 1..Len(items) : k <= cap => k <= n
  BY <1>1
<1> DEFINE new == Vec!Uninit(cap)
<1>5. /\ Vec!relocate(cap) \in Seq(VecCell) /\ Len(Vec!relocate(cap)) = cap
      /\ \A k \in 1..cap : Vec!relocate(cap)[k] =
             IF 0 < k /\ k <= 0 + n THEN vecData[k - 0 + 0] ELSE new[k]
  <2>1. new \in Seq(VecCell) /\ Len(new) = cap
    BY VecUninit
  <2>2. Vec!relocate(cap) = Vec!Copied(new, 0, vecData, 0, n)
    BY <1>2
  <2> HIDE DEF n, new
  <2> QED
    BY <1>1, <1>3, <2>1, <2>2, VecCopied
<1> HIDE DEF n, new
<1>6. ASSUME NEW k \in 1..Len(items), k <= cap
      PROVE  Vec!relocate(cap)[k] = items[k]
  <2>1. k \in 1..cap /\ 0 < k /\ k <= 0 + n /\ k - 0 + 0 = k
    BY <1>1, <1>3, <1>4, <1>6
  <2> QED
    BY <1>1, <1>5, <2>1
<1> QED
  BY <1>5, <1>6

(* What a push finds: the elements, and a cell behind them.                *)
LEMMA VecRoom ==
    ASSUME VecInv, Vec!HasRoom, vecKind \in {"Vec", "Array"}
    PROVE  Begins(Vec!growIfNeeded, items) /\ Len(items) < Len(Vec!growIfNeeded)
<1>1. /\ vecData \in Seq(VecCell) /\ items \in Seq(Values) /\ Len(items) <= Len(vecData)
      /\ Len(vecData) \in Nat /\ Len(items) \in Nat /\ vecSize = Len(items)
      /\ \A k \in 1..Len(items) : vecData[k] = items[k]
  BY DEF VecInv, Begins
<1>2. CASE vecSize < Len(vecData)
  <2>1. Vec!growIfNeeded = vecData
    BY <1>1, <1>2 DEF Vec!growIfNeeded, Vec!m_capacity
  <2> QED
    BY <1>1, <1>2, <2>1 DEF Begins
<1>3. CASE ~(vecSize < Len(vecData))
  <2>1. vecKind = "Vec" /\ vecSize >= Len(vecData)
    BY <1>1, <1>3 DEF Vec!HasRoom, Vec!m_capacity
  <2> DEFINE c == IF 2 >= Len(vecData) * 2 THEN 2 ELSE Len(vecData) * 2
  <2>2. c \in Nat /\ c > Len(items)
    BY <1>1, <2>1
  <2>3. Vec!Max({Vec!SIZE_MIN, Len(vecData) * 2}) = c
    <3>1. 2 \in Int /\ Len(vecData) * 2 \in Int
      BY <1>1
    <3>2. Vec!Max({2, Len(vecData) * 2}) = c
      BY <3>1, VecMinMax
    <3> QED
      BY <3>2 DEF Vec!SIZE_MIN
  <2>4. Vec!growIfNeeded = Vec!relocate(c)
    BY <2>1, <2>3 DEF Vec!growIfNeeded, Vec!grown, Vec!m_capacity
  <2> HIDE DEF c
  <2>5. /\ Vec!relocate(c) \in Seq(VecCell) /\ Len(Vec!relocate(c)) = c
        /\ \A k \in 1..Len(items) : k <= c => Vec!relocate(c)[k] = items[k]
    BY <2>2, VecRelocate
  <2>6. \A k \in 1..Len(items) : k <= c
    BY <1>1, <2>2
  <2> QED
    BY <1>1, <2>2, <2>4, <2>5, <2>6 DEF Begins
<1> QED
  BY <1>2, <1>3

LEMMA VecSpanRoom ==
    ASSUME VecInv, vecKind = "Vec", NEW n \in Nat
    PROVE  Begins(Vec!growOnSpanPush(n), items) /\ Len(items) + n <= Len(Vec!growOnSpanPush(n))
<1>1. /\ vecData \in Seq(VecCell) /\ items \in Seq(Values) /\ Len(items) <= Len(vecData)
      /\ Len(vecData) \in Nat /\ Len(items) \in Nat /\ vecSize = Len(items)
      /\ \A k \in 1..Len(items) : vecData[k] = items[k]
  BY DEF VecInv, Begins
<1>2. CASE ~(vecSize + n > Len(vecData))
  <2>1. Vec!growOnSpanPush(n) = vecData
    BY <1>2 DEF Vec!growOnSpanPush, Vec!m_capacity
  <2> QED
    BY <1>1, <1>2, <2>1 DEF Begins
<1>3. CASE vecSize + n > Len(vecData)
  <2> DEFINE c == (vecSize + n + 1) * 2
  <2>1. c \in Nat /\ c >= Len(items) + n
    BY <1>1
  <2>2. Vec!growOnSpanPush(n) = Vec!relocate(c)
    BY <1>3 DEF Vec!growOnSpanPush, Vec!grown, Vec!m_capacity
  <2> HIDE DEF c
  <2>3. /\ Vec!relocate(c) \in Seq(VecCell) /\ Len(Vec!relocate(c)) = c
        /\ \A k \in 1..Len(items) : k <= c => Vec!relocate(c)[k] = items[k]
    BY <2>1, VecRelocate
  <2>4. \A k \in 1..Len(items) : k <= c
    BY <1>1, <2>1
  <2> QED
    BY <1>1, <2>1, <2>2, <2>3, <2>4 DEF Begins
<1> QED
  BY <1>2, <1>3

LEMMA VecBecomes ==
    ASSUME NEW cells, NEW n, NEW seq, Vec!Becomes(cells, n, seq),
           Begins(cells, seq), Len(seq) = n
    PROVE  VecInv'
  BY DEF Vec!Becomes, VecInv, Begins

(* The sequences the client expects.                                       *)
LEMMA Joined ==
    ASSUME NEW S, NEW l \in Seq(S), NEW r \in Seq(S)
    PROVE  /\ l \o r \in Seq(S) /\ Len(l \o r) = Len(l) + Len(r)
           /\ \A k \in 1..(Len(l) + Len(r)) :
                 (l \o r)[k] = IF k <= Len(l) THEN l[k] ELSE r[k - Len(l)]
  OBVIOUS

LEMMA Parted ==
    ASSUME NEW S, NEW s \in Seq(S), NEW i \in 0..Len(s), NEW j \in 0..Len(s), i <= j
    PROVE  /\ SubSeq(s, 1, i) \in Seq(S) /\ Len(SubSeq(s, 1, i)) = i
           /\ \A k \in 1..i : SubSeq(s, 1, i)[k] = s[k]
           /\ SubSeq(s, j + 1, Len(s)) \in Seq(S) /\ Len(SubSeq(s, j + 1, Len(s))) = Len(s) - j
           /\ \A k \in 1..(Len(s) - j) : SubSeq(s, j + 1, Len(s))[k] = s[k + j]
<1>1. /\ SubSeq(s, 1, i) \in Seq(S) /\ Len(SubSeq(s, 1, i)) = i
      /\ \A k \in 1..i : SubSeq(s, 1, i)[k] = s[k]
  OBVIOUS
<1>2. SubSeq(s, j + 1, Len(s)) \in Seq(S) /\ Len(SubSeq(s, j + 1, Len(s))) = Len(s) - j
  OBVIOUS
<1>3. ASSUME NEW k \in 1..(Len(s) - j) PROVE SubSeq(s, j + 1, Len(s))[k] = s[k + j]
  <2>1. (j + 1) + k - 1 = k + j
    OBVIOUS
  <2>2. SubSeq(s, j + 1, Len(s))[k] = s[(j + 1) + k - 1]
    OBVIOUS
  <2> QED
    BY <2>1, <2>2
<1> QED
  BY <1>1, <1>2, <1>3

(* The sequence s with m put behind its first i elements.                  *)
Splice(s, i, m) == SubSeq(s, 1, i) \o m \o SubSeq(s, i + 1, Len(s))

LEMMA SplicedAt ==
    ASSUME NEW S, NEW s \in Seq(S), NEW i \in 0..Len(s), NEW m \in Seq(S)
    PROVE  /\ Splice(s, i, m) \in Seq(S)
           /\ Len(Splice(s, i, m)) = Len(s) + Len(m)
           /\ \A k \in 1..(Len(s) + Len(m)) :
                 Splice(s, i, m)[k] =
                     IF k <= i THEN s[k]
                     ELSE IF k <= i + Len(m) THEN m[k - i] ELSE s[k - Len(m)]
<1> DEFINE l == SubSeq(s, 1, i)
           r == SubSeq(s, i + 1, Len(s))
<1>1. /\ l \in Seq(S) /\ Len(l) = i /\ \A k \in 1..i : l[k] = s[k]
      /\ r \in Seq(S) /\ Len(r) = Len(s) - i /\ \A k \in 1..(Len(s) - i) : r[k] = s[k + i]
  BY Parted
<1> HIDE DEF l, r
<1> DEFINE lm == l \o m
<1>2. /\ lm \in Seq(S) /\ Len(lm) = i + Len(m)
      /\ \A k \in 1..(i + Len(m)) : lm[k] = IF k <= i THEN l[k] ELSE m[k - i]
  <2>1. /\ lm \in Seq(S) /\ Len(lm) = Len(l) + Len(m)
        /\ \A k \in 1..(Len(l) + Len(m)) : lm[k] = IF k <= Len(l) THEN l[k] ELSE m[k - Len(l)]
    <3>1. l \in Seq(S)
      BY <1>1
    <3> QED
      BY <3>1, Joined, Zenon
  <2> QED
    BY <1>1, <2>1
<1> DEFINE t == lm \o r
<1> HIDE DEF lm
<1>3. /\ t \in Seq(S) /\ Len(t) = Len(s) + Len(m)
      /\ \A k \in 1..(Len(s) + Len(m)) :
            t[k] = IF k <= i + Len(m) THEN lm[k] ELSE r[k - (i + Len(m))]
  <2>1. /\ t \in Seq(S) /\ Len(t) = Len(lm) + Len(r)
        /\ \A k \in 1..(Len(lm) + Len(r)) : t[k] = IF k <= Len(lm) THEN lm[k] ELSE r[k - Len(lm)]
    <3>1. lm \in Seq(S) /\ r \in Seq(S)
      BY <1>1, <1>2
    <3> QED
      BY <3>1, Joined, Zenon
  <2>2. Len(lm) + Len(r) = Len(s) + Len(m) /\ Len(lm) = i + Len(m)
    BY <1>1, <1>2
  <2> QED
    BY <2>1, <2>2
<1> HIDE DEF t
<1>4. ASSUME NEW k \in 1..(Len(s) + Len(m))
      PROVE  t[k] = IF k <= i THEN s[k]
                    ELSE IF k <= i + Len(m) THEN m[k - i] ELSE s[k - Len(m)]
  <2>1. k \in Int /\ Len(m) \in Nat /\ i \in Nat
    OBVIOUS
  <2>2. CASE k <= i + Len(m)
    <3>1. k \in 1..(i + Len(m)) /\ (k <= i => k \in 1..i)
      BY <2>1, <2>2
    <3> QED
      BY <1>1, <1>2, <1>3, <2>2, <3>1
  <2>3. CASE k > i + Len(m)
    <3>1. /\ k - (i + Len(m)) \in 1..(Len(s) - i) /\ (k - (i + Len(m))) + i = k - Len(m)
          /\ ~(k <= i) /\ ~(k <= i + Len(m))
      BY <2>1, <2>3
    <3> QED
      BY <1>1, <1>3, <3>1
  <2> QED
    BY <2>1, <2>2, <2>3
<1>5. Splice(s, i, m) = t
  BY DEF Splice, t, lm, l, r
<1> QED
  BY <1>3, <1>4, <1>5

LEMMA InsertedAt ==
    ASSUME NEW S, NEW s \in Seq(S), NEW i \in 0..Len(s), NEW v \in S
    PROVE  /\ Vec!InsertAt(s, i + 1, v) \in Seq(S)
           /\ Len(Vec!InsertAt(s, i + 1, v)) = Len(s) + 1
           /\ \A k \in 1..(Len(s) + 1) :
                 Vec!InsertAt(s, i + 1, v)[k] =
                     IF k <= i THEN s[k] ELSE IF k = i + 1 THEN v ELSE s[k - 1]
<1> DEFINE m == <<v>>
           t == Splice(s, i, m)
<1>1. m \in Seq(S) /\ Len(m) = 1 /\ m[1] = v
  OBVIOUS
<1>2. Vec!InsertAt(s, i + 1, v) = t
  <2>1. (i + 1) - 1 = i
    OBVIOUS
  <2> QED
    BY <2>1 DEF Vec!InsertAt, Splice
<1> HIDE DEF m
<1>3. /\ t \in Seq(S) /\ Len(t) = Len(s) + Len(m)
      /\ \A k \in 1..(Len(s) + Len(m)) :
            t[k] = IF k <= i THEN s[k]
                   ELSE IF k <= i + Len(m) THEN m[k - i] ELSE s[k - Len(m)]
  BY <1>1, SplicedAt
<1> HIDE DEF t
<1>4. ASSUME NEW k \in 1..(Len(s) + 1)
      PROVE  t[k] = IF k <= i THEN s[k] ELSE IF k = i + 1 THEN v ELSE s[k - 1]
  <2>1. t[k] = IF k <= i THEN s[k] ELSE IF k <= i + 1 THEN m[k - i] ELSE s[k - 1]
    BY <1>1, <1>3
  <2>2. CASE k = i + 1
    <3>1. k - i = 1 /\ ~(k <= i) /\ k <= i + 1
      BY <2>2
    <3> QED
      BY <1>1, <2>1, <2>2, <3>1
  <2>3. CASE k # i + 1
    <3>1. k <= i + 1 <=> k <= i
      BY <2>3
    <3> QED
      BY <2>1, <2>3, <3>1
  <2> QED
    BY <2>2, <2>3
<1> QED
  BY <1>1, <1>2, <1>3, <1>4

LEMMA RemovedAt ==
    ASSUME NEW S, NEW s \in Seq(S), NEW i \in Nat, i < Len(s)
    PROVE  /\ Vec!RemoveAt(s, i + 1) \in Seq(S) /\ Len(Vec!RemoveAt(s, i + 1)) = Len(s) - 1
           /\ \A k \in 1..(Len(s) - 1) :
                 Vec!RemoveAt(s, i + 1)[k] = IF k <= i THEN s[k] ELSE s[k + 1]
<1> DEFINE j == i + 1
           l == SubSeq(s, 1, i)
           r == SubSeq(s, j + 1, Len(s))
<1>1. i \in 0..Len(s) /\ j \in 0..Len(s) /\ i <= j
  OBVIOUS
<1>2. Vec!RemoveAt(s, i + 1) = l \o r
  <2>1. (i + 1) - 1 = i
    OBVIOUS
  <2> QED
    BY <2>1 DEF Vec!RemoveAt
<1>3. j = i + 1
  OBVIOUS
<1> HIDE DEF j
<1>4. /\ l \in Seq(S) /\ Len(l) = i /\ \A k \in 1..i : l[k] = s[k]
      /\ r \in Seq(S) /\ Len(r) = Len(s) - j /\ \A k \in 1..(Len(s) - j) : r[k] = s[k + j]
  BY <1>1, Parted
<1> DEFINE t == l \o r
<1> HIDE DEF l, r
<1>5. /\ t \in Seq(S) /\ Len(t) = Len(s) - 1
      /\ \A k \in 1..(Len(s) - 1) : t[k] = IF k <= i THEN l[k] ELSE r[k - i]
  <2>1. /\ t \in Seq(S) /\ Len(t) = Len(l) + Len(r)
        /\ \A k \in 1..(Len(l) + Len(r)) : t[k] = IF k <= Len(l) THEN l[k] ELSE r[k - Len(l)]
    BY <1>4, Joined
  <2>2. Len(l) + Len(r) = Len(s) - 1 /\ Len(l) = i
    BY <1>3, <1>4
  <2> QED
    BY <2>1, <2>2
<1>6. ASSUME NEW k \in 1..(Len(s) - 1)
      PROVE  t[k] = IF k <= i THEN s[k] ELSE s[k + 1]
  <2>1. CASE k <= i
    <3>1. k \in 1..i
      BY <2>1
    <3> QED
      BY <1>4, <1>5, <2>1, <3>1
  <2>2. CASE ~(k <= i)
    <3>1. k - i \in 1..(Len(s) - j) /\ (k - i) + j = k + 1
      BY <1>3, <2>2
    <3> QED
      BY <1>4, <1>5, <2>2, <3>1
  <2> QED
    BY <2>1, <2>2
<1> QED
  BY <1>2, <1>5, <1>6

LEMMA VecHolds ==
    ASSUME VecInv
    PROVE  /\ vecData \in Seq(VecCell) /\ items \in Seq(Values) /\ Len(items) <= Len(vecData)
           /\ Len(vecData) \in Nat /\ Len(items) \in Nat /\ vecSize = Len(items)
           /\ \A k \in 1..Len(items) : vecData[k] = items[k]
  BY DEF VecInv, Begins

-----------------------------------------------------------------------------
LEMMA VecPush ==
    ASSUME VecInv, vecKind \in {"Vec", "Array"}, NEW v \in Values,
           Vec!push(v) \/ Vec!fakePush(v)
    PROVE  VecInv'
<1> DEFINE d == Vec!growIfNeeded
           e == Vec!At(d, vecSize, v)
           t == Append(items, v)
<1>1. Vec!HasRoom /\ Vec!Becomes(e, vecSize + 1, t)
  BY DEF Vec!push, Vec!fakePush
<1>2. Begins(d, items) /\ Len(items) < Len(d)
  BY <1>1, VecRoom
<1>3. /\ t \in Seq(Values) /\ Len(t) = Len(items) + 1 /\ t[Len(items) + 1] = v
      /\ \A k \in 1..Len(items) : t[k] = items[k]
  BY VecHolds
<1>4. /\ d \in Seq(VecCell) /\ Len(d) \in Nat
      /\ \A k \in 1..Len(items) : d[k] = items[k]
  BY <1>2 DEF Begins
<1> HIDE DEF d, t
<1>5. /\ e \in Seq(VecCell) /\ Len(e) = Len(d)
      /\ \A k \in 1..Len(d) : e[k] = IF k = vecSize + 1 THEN v ELSE d[k]
  <2>1. vecSize \in Nat
    BY VecHolds
  <2> QED
    BY <1>4, <2>1, VecAt
<1> HIDE DEF e
<1>6. Begins(e, t)
  BY <1>2, <1>3, <1>4, <1>5, VecHolds DEF Begins
<1> QED
  BY <1>1, <1>3, <1>6, VecHolds, VecBecomes

LEMMA VecEmplaceAt ==
    ASSUME VecInv, vecKind \in {"Vec", "Array"}, NEW v \in Values, NEW i \in Nat,
           Vec!emplaceAt(i, v)
    PROVE  VecInv'
<1> DEFINE d == Vec!growIfNeeded
           n == vecSize - i
           e == Vec!Copied(d, i + 1, d, i, n)
           f == Vec!At(e, i, v)
           t == Vec!InsertAt(items, i + 1, v)
<1>1. Vec!HasRoom /\ i < vecSize /\ Vec!Becomes(f, vecSize + 1, t)
  BY DEF Vec!emplaceAt
<1>2. Begins(d, items) /\ Len(items) < Len(d)
  BY <1>1, VecRoom
<1>3. i \in 0..Len(items) /\ i + 1 \in Nat /\ n \in Nat /\ i + n <= Len(d) /\ i + n = Len(items)
  BY <1>1, <1>2, VecHolds
<1>4. /\ d \in Seq(VecCell) /\ Len(d) \in Nat
      /\ \A k \in 1..Len(items) : d[k] = items[k]
  BY <1>2 DEF Begins
<1>5. /\ t \in Seq(Values) /\ Len(t) = Len(items) + 1
      /\ \A k \in 1..Len(t) :
            t[k] = IF k <= i THEN items[k] ELSE IF k = i + 1 THEN v ELSE items[k - 1]
  <2>1. items \in Seq(Values) /\ i \in 0..Len(items)
    BY <1>3, VecHolds
  <2>2. /\ t \in Seq(Values) /\ Len(t) = Len(items) + 1
        /\ \A k \in 1..(Len(items) + 1) :
              t[k] = IF k <= i THEN items[k] ELSE IF k = i + 1 THEN v ELSE items[k - 1]
    BY <2>1, InsertedAt
  <2> QED
    BY <2>2
<1> HIDE DEF d, n, t
<1>6. /\ e \in Seq(VecCell) /\ Len(e) = Len(d)
      /\ \A k \in 1..Len(d) :
            e[k] = IF i + 1 < k /\ k <= i + 1 + n THEN d[k - (i + 1) + i] ELSE d[k]
  BY <1>3, <1>4, VecCopied
<1> HIDE DEF e
<1>7. /\ f \in Seq(VecCell) /\ Len(f) = Len(d)
      /\ \A k \in 1..Len(d) : f[k] = IF k = i + 1 THEN v ELSE e[k]
  <2>1. e \in Seq(VecCell) /\ Len(e) = Len(d)
    BY <1>6
  <2>2. /\ f \in Seq(VecCell) /\ Len(f) = Len(e)
        /\ \A k \in 1..Len(e) : f[k] = IF k = i + 1 THEN v ELSE e[k]
    BY <2>1, VecAt
  <2> QED
    BY <2>1, <2>2
<1> HIDE DEF f
<1>8. ASSUME NEW k \in 1..Len(t)
      PROVE  f[k] = t[k]
  <2>1. k \in 1..Len(d) /\ k <= Len(items) + 1 /\ k \in Int
    BY <1>2, <1>4, <1>5, VecHolds
  <2>2. CASE k <= i
    <3>1. k \in 1..Len(items) /\ k # i + 1 /\ ~(i + 1 < k)
      BY <1>3, <2>1, <2>2
    <3> QED
      BY <1>4, <1>5, <1>6, <1>7, <2>1, <2>2, <3>1
  <2>3. CASE k = i + 1
    <3>1. ~(k <= i)
      BY <1>3, <2>3
    <3> QED
      BY <1>5, <1>7, <2>1, <2>3, <3>1
  <2>4. CASE k > i + 1
    <3>1. /\ k # i + 1 /\ ~(k <= i) /\ i + 1 < k /\ k <= i + 1 + n
          /\ k - (i + 1) + i = k - 1 /\ k - 1 \in 1..Len(items)
      <4>1. Len(items) \in Nat
        BY VecHolds
      <4> QED
        BY <1>3, <2>1, <2>4, <4>1
    <3> QED
      BY <1>4, <1>5, <1>6, <1>7, <2>1, <3>1
  <2> QED
    BY <1>3, <2>1, <2>2, <2>3, <2>4
<1>9. Begins(f, t) /\ Len(t) = vecSize + 1
  BY <1>2, <1>5, <1>7, <1>8, VecHolds DEF Begins
<1> QED
  BY <1>1, <1>9, VecBecomes

(* Copying a span behind the elements that were moved out of its way.      *)
LEMMA VecSpan ==
    ASSUME VecInv, vecKind = "Vec", NEW sp \in Seq(Values), NEW i \in Nat, i <= vecSize,
           Vec!Becomes(Vec!Copied(Vec!Copied(Vec!growOnSpanPush(Len(sp)), i + Len(sp),
                                             Vec!growOnSpanPush(Len(sp)), i, vecSize - i),
                                  i, sp, 0, Len(sp)),
                       vecSize + Len(sp),
                       SubSeq(items, 1, i) \o sp \o SubSeq(items, i + 1, vecSize))
    PROVE  VecInv'
<1> DEFINE d == Vec!growOnSpanPush(Len(sp))
           n == vecSize - i
           z == Len(sp)
           to == i + z
           e == Vec!Copied(d, to, d, i, n)
           f == Vec!Copied(e, i, sp, 0, z)
           t == Splice(items, i, sp)
<1>1. Vec!Becomes(f, vecSize + z, t)
  BY VecHolds DEF Splice
<1>2. z \in Nat /\ sp \in Seq(VecCell)
  BY DEF VecCell
<1>3. Begins(d, items) /\ Len(items) + z <= Len(d)
  BY <1>2, VecSpanRoom
<1>4. /\ i \in 0..Len(items) /\ to \in Nat /\ n \in Nat /\ i + n <= Len(d)
      /\ i + n = Len(items) /\ 0 \in Nat
  BY <1>2, <1>3, VecHolds
<1>5. /\ d \in Seq(VecCell) /\ Len(d) \in Nat
      /\ \A k \in 1..Len(items) : d[k] = items[k]
  BY <1>3 DEF Begins
<1>6. /\ t \in Seq(Values) /\ Len(t) = Len(items) + z
      /\ \A k \in 1..Len(t) :
            t[k] = IF k <= i THEN items[k]
                   ELSE IF k <= i + z THEN sp[k - i] ELSE items[k - z]
  <2>1. items \in Seq(Values) /\ i \in 0..Len(items)
    BY <1>4, VecHolds
  <2>2. /\ t \in Seq(Values) /\ Len(t) = Len(items) + Len(sp)
        /\ \A k \in 1..(Len(items) + Len(sp)) :
              t[k] = IF k <= i THEN items[k]
                     ELSE IF k <= i + Len(sp) THEN sp[k - i] ELSE items[k - Len(sp)]
    BY <2>1, SplicedAt
  <2> QED
    BY <2>2
<1> HIDE DEF d, n, t
<1>7. /\ e \in Seq(VecCell) /\ Len(e) = Len(d)
      /\ \A k \in 1..Len(d) :
            e[k] = IF to < k /\ k <= to + n THEN d[k - to + i] ELSE d[k]
  BY <1>4, <1>5, VecCopied
<1> HIDE DEF e
<1>8. /\ f \in Seq(VecCell) /\ Len(f) = Len(d)
      /\ \A k \in 1..Len(d) :
            f[k] = IF i < k /\ k <= i + z THEN sp[k - i + 0] ELSE e[k]
  <2>1. 0 + z <= Len(sp)
    BY <1>2
  <2> HIDE DEF z
  <2> QED
    BY <1>2, <1>4, <1>7, <2>1, VecCopied
<1> HIDE DEF f
<1>9. ASSUME NEW k \in 1..Len(t)
      PROVE  f[k] = t[k]
  <2>1. k \in 1..Len(d) /\ k <= Len(items) + z /\ k \in Int
    BY <1>3, <1>5, <1>6, VecHolds
  <2>2. CASE k <= i
    <3>1. k \in 1..Len(items) /\ ~(i < k) /\ ~(to < k)
      BY <1>2, <1>4, <2>1, <2>2
    <3> QED
      BY <1>5, <1>6, <1>7, <1>8, <2>1, <2>2, <3>1
  <2>3. CASE i < k /\ k <= i + z
    <3>1. ~(k <= i) /\ k - i + 0 = k - i
      BY <1>4, <2>1, <2>3
    <3> QED
      BY <1>6, <1>8, <2>1, <2>3, <3>1
  <2>4. CASE k > i + z
    <3>1. /\ ~(k <= i) /\ ~(k <= i + z) /\ to < k /\ k <= to + n
          /\ k - to + i = k - z /\ k - z \in 1..Len(items)
      <4>1. Len(items) \in Nat
        BY VecHolds
      <4> QED
        BY <1>2, <1>4, <2>1, <2>4, <4>1
    <3> QED
      BY <1>5, <1>6, <1>7, <1>8, <2>1, <3>1
  <2> QED
    BY <1>2, <1>4, <2>1, <2>2, <2>3, <2>4
<1>10. Begins(f, t) /\ Len(t) = vecSize + z
  BY <1>3, <1>6, <1>8, <1>9, VecHolds DEF Begins
<1> QED
  BY <1>1, <1>10, VecBecomes

LEMMA VecPushSpanAt ==
    ASSUME VecInv, NEW sp \in Seq(Values), NEW i \in Nat, Vec!pushSpanAt(i, sp)
    PROVE  VecInv'
  BY VecSpan DEF Vec!pushSpanAt

LEMMA VecPushSpan ==
    ASSUME VecInv, NEW sp \in Seq(Values), Vec!pushSpan(sp)
    PROVE  VecInv'
<1> DEFINE z == Len(sp)
           d == Vec!growOnSpanPush(z)
           f == Vec!Copied(d, vecSize, sp, 0, z)
           t == items \o sp
<1>1. vecKind = "Vec" /\ Vec!Becomes(f, vecSize + z, t)
  BY DEF Vec!pushSpan
<1>2. z \in Nat /\ sp \in Seq(VecCell) /\ 0 \in Nat /\ 0 + z <= Len(sp)
  BY DEF VecCell
<1>3. Begins(d, items) /\ Len(items) + z <= Len(d)
  BY <1>1, <1>2, VecSpanRoom
<1>4. /\ d \in Seq(VecCell) /\ Len(d) \in Nat
      /\ \A k \in 1..Len(items) : d[k] = items[k]
  BY <1>3 DEF Begins
<1>5. /\ t \in Seq(Values) /\ Len(t) = Len(items) + Len(sp)
      /\ \A k \in 1..(Len(items) + Len(sp)) :
            t[k] = IF k <= Len(items) THEN items[k] ELSE sp[k - Len(items)]
  <2>1. items \in Seq(Values)
    BY VecHolds
  <2> QED
    BY <2>1, Joined, Zenon
<1>6. Len(t) = Len(items) + z
  BY <1>5
<1> HIDE DEF d, t
<1>7. /\ f \in Seq(VecCell) /\ Len(f) = Len(d)
      /\ \A k \in 1..Len(d) :
            f[k] = IF vecSize < k /\ k <= vecSize + z THEN sp[k - vecSize + 0] ELSE d[k]
  <2>1. vecSize \in Nat
    BY VecHolds
  <2> HIDE DEF z
  <2> QED
    BY <1>2, <1>4, <2>1, VecCopied
<1> HIDE DEF f
<1>8. ASSUME NEW k \in 1..Len(t)
      PROVE  f[k] = t[k]
  <2>1. /\ k \in 1..Len(d) /\ k <= Len(items) + z /\ k \in Int /\ z = Len(sp)
        /\ Len(items) \in Nat /\ vecSize = Len(items) /\ k \in 1..(Len(items) + Len(sp))
    BY <1>3, <1>4, <1>6, VecHolds
  <2>2. CASE k <= Len(items)
    <3>1. k \in 1..Len(items) /\ ~(vecSize < k)
      BY <2>1, <2>2
    <3> QED
      BY <1>4, <1>5, <1>7, <2>1, <2>2, <3>1
  <2>3. CASE ~(k <= Len(items))
    <3>1. vecSize < k /\ k <= vecSize + z /\ k - vecSize + 0 = k - Len(items)
      BY <2>1, <2>3
    <3> QED
      BY <1>5, <1>7, <2>1, <2>3, <3>1
  <2> QED
    BY <2>2, <2>3
<1>9. Begins(f, t) /\ Len(t) = vecSize + z
  BY <1>3, <1>5, <1>6, <1>7, <1>8, VecHolds DEF Begins
<1> QED
  BY <1>1, <1>9, VecBecomes

(* A vector that is cut to n of its elements.                              *)
LEMMA Cut ==
    ASSUME NEW D, NEW s, Begins(D, s), NEW n \in Nat, n <= Len(s)
    PROVE  Begins(D, SubSeq(s, 1, n)) /\ Len(SubSeq(s, 1, n)) = n
<1>1. /\ s \in Seq(Values) /\ D \in Seq(VecCell) /\ Len(s) <= Len(D) /\ n \in 0..Len(s)
      /\ \A k \in 1..Len(s) : D[k] = s[k]
  BY DEF Begins
<1> DEFINE t == SubSeq(s, 1, n)
<1>2. t \in Seq(Values) /\ Len(t) = n /\ \A k \in 1..n : t[k] = s[k]
  BY <1>1
<1> HIDE DEF t
<1>3. Len(s) \in Nat /\ Len(D) \in Nat /\ \A k \in 1..n : k \in 1..Len(s)
  BY <1>1
<1>4. Begins(D, t)
  BY <1>1, <1>2, <1>3 DEF Begins
<1> QED
  BY <1>2, <1>4 DEF t

LEMMA VecPop ==
    ASSUME VecInv, Vec!pop
    PROVE  VecInv'
<1>1. vecSize > 0 /\ Vec!Becomes(vecData, vecSize - 1, SubSeq(items, 1, Len(items) - 1))
  BY DEF Vec!pop, Vec!Front
<1>2. Begins(vecData, items) /\ vecSize - 1 \in Nat /\ vecSize - 1 <= Len(items)
      /\ vecSize = Len(items)
  BY <1>1, VecHolds DEF VecInv
<1>3. /\ Begins(vecData, SubSeq(items, 1, Len(items) - 1))
      /\ Len(SubSeq(items, 1, Len(items) - 1)) = vecSize - 1
  BY <1>2, Cut
<1> QED
  BY <1>1, <1>3, VecBecomes

LEMMA VecSwapWithLast ==
    ASSUME VecInv, NEW i \in Nat, i < vecSize, Vec!swapWithLast(i)
    PROVE  VecInv'
<1> DEFINE j == vecSize - 1
           d == Vec!At(vecData, j, vecData[i + 1])
           e == Vec!At(d, i, vecData[vecSize])
           t == [items EXCEPT ![i + 1] = items[vecSize], ![vecSize] = items[i + 1]]
<1>1. Vec!Becomes(e, vecSize, t)
  BY DEF Vec!swapWithLast
<1>2. /\ vecData \in Seq(VecCell) /\ items \in Seq(Values) /\ Len(items) <= Len(vecData)
      /\ Len(vecData) \in Nat /\ Len(items) \in Nat /\ vecSize = Len(items)
      /\ \A k \in 1..Len(items) : vecData[k] = items[k]
  BY VecHolds
<1>3. /\ i + 1 \in 1..Len(items) /\ vecSize \in 1..Len(items) /\ j \in Nat /\ j + 1 = vecSize
  BY <1>2
<1>4. /\ vecData[i + 1] = items[i + 1] /\ vecData[vecSize] = items[vecSize]
      /\ vecData[i + 1] \in Values /\ vecData[vecSize] \in Values
  BY <1>2, <1>3
<1>5. /\ t \in Seq(Values) /\ Len(t) = Len(items)
      /\ \A k \in 1..Len(items) :
            t[k] = IF k = vecSize THEN items[i + 1]
                   ELSE IF k = i + 1 THEN items[vecSize] ELSE items[k]
  BY <1>2, <1>3
<1> HIDE DEF j, t
<1>6. /\ d \in Seq(VecCell) /\ Len(d) = Len(vecData)
      /\ \A k \in 1..Len(vecData) :
            d[k] = IF k = j + 1 THEN vecData[i + 1] ELSE vecData[k]
  BY <1>2, <1>3, <1>4, VecAt
<1> HIDE DEF d
<1>7. /\ e \in Seq(VecCell) /\ Len(e) = Len(vecData)
      /\ \A k \in 1..Len(vecData) : e[k] = IF k = i + 1 THEN vecData[vecSize] ELSE d[k]
  <2>1. /\ e \in Seq(VecCell) /\ Len(e) = Len(d)
        /\ \A k \in 1..Len(d) : e[k] = IF k = i + 1 THEN vecData[vecSize] ELSE d[k]
    BY <1>4, <1>6, VecAt
  <2> QED
    BY <1>6, <2>1
<1> HIDE DEF e
<1>8. \A k \in 1..Len(items) : k \in 1..Len(vecData)
  BY <1>2
<1>9. ASSUME NEW k \in 1..Len(items)
      PROVE  e[k] = t[k]
  BY <1>2, <1>3, <1>4, <1>5, <1>6, <1>7, <1>8, <1>9
<1>10. Begins(e, t)
  BY <1>2, <1>5, <1>7, <1>9 DEF Begins
<1> QED
  BY <1>1, <1>2, <1>5, <1>10, VecBecomes

LEMMA VecPopAsLast ==
    ASSUME VecInv, NEW i \in Nat, i < vecSize, Vec!popAsLast(i)
    PROVE  VecInv'
<1> DEFINE e == Vec!At(vecData, i, vecData[vecSize])
           t == [items EXCEPT ![i + 1] = items[vecSize]]
<1>1. Vec!Becomes(e, vecSize - 1, SubSeq(t, 1, Len(t) - 1))
  BY DEF Vec!popAsLast, Vec!Front
<1>2. /\ vecData \in Seq(VecCell) /\ items \in Seq(Values) /\ Len(items) <= Len(vecData)
      /\ Len(vecData) \in Nat /\ Len(items) \in Nat /\ vecSize = Len(items)
      /\ \A k \in 1..Len(items) : vecData[k] = items[k]
  BY VecHolds
<1>3. i + 1 \in 1..Len(items) /\ vecSize \in 1..Len(items)
  BY <1>2
<1>4. vecData[vecSize] = items[vecSize] /\ vecData[vecSize] \in Values
  BY <1>2, <1>3
<1>5. /\ t \in Seq(Values) /\ Len(t) = Len(items)
      /\ \A k \in 1..Len(items) : t[k] = IF k = i + 1 THEN items[vecSize] ELSE items[k]
  BY <1>2, <1>3
<1> HIDE DEF t
<1>6. /\ e \in Seq(VecCell) /\ Len(e) = Len(vecData)
      /\ \A k \in 1..Len(vecData) : e[k] = IF k = i + 1 THEN vecData[vecSize] ELSE vecData[k]
  BY <1>2, <1>4, VecAt
<1> HIDE DEF e
<1>7. \A k \in 1..Len(items) : k \in 1..Len(vecData)
  BY <1>2
<1>8. Begins(e, t)
  BY <1>2, <1>4, <1>5, <1>6, <1>7 DEF Begins
<1>9. Len(t) - 1 \in Nat /\ Len(t) - 1 <= Len(t) /\ Len(t) - 1 = vecSize - 1
  BY <1>2, <1>3, <1>5
<1>10. Begins(e, SubSeq(t, 1, Len(t) - 1)) /\ Len(SubSeq(t, 1, Len(t) - 1)) = vecSize - 1
  BY <1>8, <1>9, Cut
<1> QED
  BY <1>1, <1>10, VecBecomes

LEMMA VecRemoveAndShift ==
    ASSUME VecInv, NEW i \in Nat, i < vecSize, Vec!removeAndShift(i)
    PROVE  VecInv'
<1> DEFINE j == i + 1
           n == vecSize - i - 1
           e == Vec!Copied(vecData, i, vecData, j, n)
           t == Vec!RemoveAt(items, i + 1)
<1>1. Vec!Becomes(e, vecSize - 1, t)
  BY DEF Vec!removeAndShift
<1>2. /\ vecData \in Seq(VecCell) /\ items \in Seq(Values) /\ Len(items) <= Len(vecData)
      /\ Len(vecData) \in Nat /\ Len(items) \in Nat /\ vecSize = Len(items)
      /\ \A k \in 1..Len(items) : vecData[k] = items[k]
  BY VecHolds
<1>3. /\ i < Len(items) /\ j \in Nat /\ n \in Nat /\ j = i + 1 /\ j + n = Len(items)
      /\ j + n <= Len(vecData)
  BY <1>2
<1>4. /\ t \in Seq(Values) /\ Len(t) = Len(items) - 1
      /\ \A k \in 1..(Len(items) - 1) : t[k] = IF k <= i THEN items[k] ELSE items[k + 1]
  BY <1>2, <1>3, RemovedAt
<1> HIDE DEF j, n, t
<1>5. /\ e \in Seq(VecCell) /\ Len(e) = Len(vecData)
      /\ \A k \in 1..Len(vecData) :
            e[k] = IF i < k /\ k <= i + n THEN vecData[k - i + j] ELSE vecData[k]
  BY <1>2, <1>3, VecCopied
<1> HIDE DEF e
<1>6. ASSUME NEW k \in 1..Len(t)
      PROVE  e[k] = t[k]
  <2>1. k \in 1..(Len(items) - 1) /\ k \in 1..Len(vecData) /\ k \in 1..Len(items)
    BY <1>2, <1>4
  <2>2. CASE k <= i
    <3>1. ~(i < k)
      BY <2>1, <2>2
    <3> QED
      BY <1>2, <1>4, <1>5, <2>1, <2>2, <3>1
  <2>3. CASE ~(k <= i)
    <3>1. i < k /\ k <= i + n /\ k - i + j = k + 1 /\ k + 1 \in 1..Len(items)
      BY <1>2, <1>3, <2>1, <2>3
    <3> QED
      BY <1>2, <1>4, <1>5, <2>1, <2>3, <3>1
  <2> QED
    BY <2>2, <2>3
<1>7. Begins(e, t) /\ Len(t) = vecSize - 1
  BY <1>2, <1>4, <1>5, <1>6 DEF Begins
<1> QED
  BY <1>1, <1>7, VecBecomes

LEMMA VecSetCap ==
    ASSUME VecInv, NEW cap \in Nat, Vec!setCap(cap)
    PROVE  VecInv'
<1> DEFINE d == IF cap = 0 THEN <<>> ELSE Vec!relocate(cap)
           n == IF cap <= Len(items) THEN cap ELSE Len(items)
           t == SubSeq(items, 1, n)
<1>1. Vec!Becomes(d, n, t)
  <2>1. Vec!Becomes(d, Vec!Min({cap, vecSize}), SubSeq(items, 1, Vec!Min({cap, vecSize})))
    BY DEF Vec!setCap
  <2>2. cap \in Int /\ Len(items) \in Int /\ vecSize = Len(items)
    BY VecHolds
  <2>3. Vec!Min({cap, vecSize}) = n
    BY <2>2, VecMinMax
  <2> QED
    BY <2>1, <2>3
<1>2. items \in Seq(Values) /\ Len(items) \in Nat
  BY VecHolds
<1>3. /\ d \in Seq(VecCell) /\ Len(d) = cap
      /\ \A k \in 1..Len(items) : k <= cap => d[k] = items[k]
  <2>1. CASE cap = 0
    <3>1. \A k \in 1..Len(items) : ~(k <= cap)
      BY <1>2, <2>1
    <3>2. d = <<>>
      BY <2>1
    <3> QED
      BY <2>1, <3>1, <3>2
  <2>2. CASE cap # 0
    BY <2>2, VecRelocate
  <2> QED
    BY <2>1, <2>2
<1>4. n \in 0..Len(items) /\ n <= cap /\ n \in Nat
  BY <1>2
<1> HIDE DEF d, n
<1>5. t \in Seq(Values) /\ Len(t) = n /\ \A k \in 1..n : t[k] = items[k]
  BY <1>2, <1>4
<1> HIDE DEF t
<1>6. \A k \in 1..n : k \in 1..Len(items) /\ k <= cap
  BY <1>2, <1>4
<1>7. Begins(d, t)
  BY <1>3, <1>4, <1>5, <1>6 DEF Begins
<1> QED
  BY <1>1, <1>5, <1>7, VecBecomes

LEMMA VecClone ==
    ASSUME VecInv, Vec!clone
    PROVE  VecInv'
<1>1. /\ vecData \in Seq(VecCell) /\ items \in Seq(Values) /\ Len(items) <= Len(vecData)
      /\ Len(vecData) \in Nat /\ Len(items) \in Nat /\ vecSize = Len(items)
      /\ \A k \in 1..Len(items) : vecData[k] = items[k]
  BY VecHolds
<1>2. PICK cap \in {Len(vecData), vecSize} :
         Vec!Becomes(Vec!Copied(Vec!Uninit(cap), 0, vecData, 0, vecSize), vecSize, items)
  BY DEF Vec!clone, Vec!m_capacity
<1> DEFINE d == Vec!Uninit(cap)
           e == Vec!Copied(d, 0, vecData, 0, vecSize)
<1>3. cap \in Nat /\ vecSize <= cap /\ vecSize \in Nat /\ 0 \in Nat /\ 0 + vecSize <= Len(vecData)
  BY <1>1, <1>2
<1>4. d \in Seq(VecCell) /\ Len(d) = cap
  BY <1>3, VecUninit
<1>5. Vec!Becomes(e, vecSize, items)
  BY <1>2
<1> HIDE DEF d
<1>6. /\ e \in Seq(VecCell) /\ Len(e) = Len(d)
      /\ \A k \in 1..Len(d) :
            e[k] = IF 0 < k /\ k <= 0 + vecSize THEN vecData[k - 0 + 0] ELSE d[k]
  BY <1>1, <1>3, <1>4, VecCopied
<1> HIDE DEF e
<1>7. ASSUME NEW k \in 1..Len(items)
      PROVE  e[k] = items[k]
  <2>1. k \in 1..Len(d) /\ 0 < k /\ k <= 0 + vecSize /\ k - 0 + 0 = k
    BY <1>1, <1>3, <1>4
  <2> QED
    BY <1>1, <1>6, <2>1
<1>8. Begins(e, items)
  BY <1>1, <1>3, <1>4, <1>6, <1>7 DEF Begins
<1> QED
  BY <1>1, <1>5, <1>8, VecBecomes

LEMMA VecSetSize ==
    ASSUME VecInv, vecKind \in {"Vec", "Array"}, NEW n \in Nat, NEW v \in Values,
           Vec!setSize(n, v)
    PROVE  VecInv'
<1>1. /\ vecData \in Seq(VecCell) /\ items \in Seq(Values) /\ Len(items) <= Len(vecData)
      /\ Len(vecData) \in Nat /\ Len(items) \in Nat /\ vecSize = Len(items)
      /\ \A k \in 1..Len(items) : vecData[k] = items[k]
  BY VecHolds
<1> DEFINE z == IF n <= Len(items) THEN 0 ELSE n - Len(items)
           kept == IF n <= Len(items) THEN n ELSE Len(items)
           fill == [k \in 1..z |-> v]
           d == IF Len(vecData) < n THEN Vec!grown(n) ELSE vecData
           e == Vec!Copied(d, vecSize, fill, 0, z)
           s == SubSeq(items, 1, kept)
           t == s \o fill
<1>2. /\ z \in Nat /\ kept \in 0..Len(items) /\ kept \in Nat /\ n = kept + z /\ z \in Int
      /\ z > 0 => kept = Len(items)
  BY <1>1
<1>3. fill \in Seq(Values) /\ fill \in Seq(VecCell) /\ Len(fill) = z /\ \A k \in 1..z : fill[k] = v
  <2>1. fill \in [1..z -> Values] /\ fill \in [1..z -> VecCell] /\ \A k \in 1..z : fill[k] = v
    BY DEF VecCell
  <2>2. z \in Nat
    BY <1>2
  <2> HIDE DEF z, fill
  <2> QED
    BY <2>1, <2>2
<1>4. Vec!Becomes(e, n, t) /\ (vecKind = "Array" => n <= Len(vecData))
  <2>1. Vec!Max({0, n - vecSize}) = z /\ Vec!Min({n, vecSize}) = kept
    <3>1. 0 \in Int /\ n - Len(items) \in Int /\ n \in Int /\ Len(items) \in Int
      BY <1>1
    <3>2. /\ Vec!Max({0, n - Len(items)}) = IF 0 >= n - Len(items) THEN 0 ELSE n - Len(items)
          /\ Vec!Min({n, Len(items)}) = IF n <= Len(items) THEN n ELSE Len(items)
      BY <3>1, VecMinMax
    <3>3. 0 >= n - Len(items) <=> n <= Len(items)
      BY <3>1
    <3> QED
      BY <1>1, <3>2, <3>3
  <2> HIDE DEF z, kept
  <2>2. [k \in 1..Vec!Max({0, n - vecSize}) |-> v] = fill
    BY <2>1
  <2> QED
    BY <1>3, <2>1, <2>2 DEF Vec!setSize, Vec!m_capacity
<1>5. /\ d \in Seq(VecCell) /\ Len(d) \in Nat /\ n <= Len(d)
      /\ \A k \in 1..Len(items) : k <= n => d[k] = items[k]
  <2>1. CASE Len(vecData) < n
    <3>1. vecKind = "Vec"
      BY <1>1, <1>4, <2>1
    <3>2. d = Vec!relocate(n)
      BY <2>1, <3>1 DEF Vec!grown
    <3>3. /\ Vec!relocate(n) \in Seq(VecCell) /\ Len(Vec!relocate(n)) = n
          /\ \A k \in 1..Len(items) : k <= n => Vec!relocate(n)[k] = items[k]
      BY VecRelocate
    <3> HIDE DEF d
    <3>4. d \in Seq(VecCell) /\ Len(d) = n
      BY <3>2, <3>3
    <3>5. \A k \in 1..Len(items) : k <= n => d[k] = items[k]
      BY <3>2, <3>3
    <3> QED
      BY <3>4, <3>5
  <2>2. CASE ~(Len(vecData) < n)
    BY <1>1, <2>2
  <2> QED
    BY <2>1, <2>2
<1> HIDE DEF z, kept, fill, d
<1>6. s \in Seq(Values) /\ Len(s) = kept /\ \A k \in 1..kept : s[k] = items[k]
  BY <1>1, <1>2
<1> HIDE DEF s
<1>7. /\ t \in Seq(Values) /\ Len(t) = Len(s) + Len(fill)
      /\ \A k \in 1..(Len(s) + Len(fill)) :
            t[k] = IF k <= Len(s) THEN s[k] ELSE fill[k - Len(s)]
  <2>1. s \in Seq(Values) /\ fill \in Seq(Values)
    BY <1>3, <1>6
  <2> QED
    BY <2>1, Joined, Zenon
<1> HIDE DEF t
<1>8. /\ e \in Seq(VecCell) /\ Len(e) = Len(d)
      /\ \A k \in 1..Len(d) :
            e[k] = IF vecSize < k /\ k <= vecSize + z THEN fill[k - vecSize + 0] ELSE d[k]
  <2>1. vecSize \in Nat /\ 0 \in Nat /\ 0 + z <= Len(fill)
    BY <1>1, <1>2, <1>3
  <2> QED
    BY <1>2, <1>3, <1>5, <2>1, VecCopied
<1> HIDE DEF e
<1>9. ASSUME NEW k \in 1..Len(t)
      PROVE  e[k] = t[k]
  <2>1. /\ k \in 1..(Len(s) + Len(fill)) /\ k \in Nat /\ k >= 1 /\ k <= kept + z
        /\ k \in 1..Len(d) /\ Len(s) = kept /\ Len(fill) = z
    BY <1>2, <1>3, <1>5, <1>6, <1>7
  <2>2. CASE k <= kept
    <3>1. k \in 1..Len(items) /\ k \in 1..kept /\ k <= n /\ ~(vecSize < k)
      BY <1>1, <1>2, <2>1, <2>2
    <3> QED
      BY <1>5, <1>6, <1>7, <1>8, <2>1, <2>2, <3>1
  <2>3. CASE ~(k <= kept)
    <3>1. z > 0 /\ kept = vecSize
      BY <1>1, <1>2, <2>1, <2>3
    <3>2. /\ vecSize < k /\ k <= vecSize + z /\ k - vecSize + 0 = k - kept
          /\ k - kept \in 1..z
      BY <1>2, <2>1, <2>3, <3>1
    <3> QED
      BY <1>3, <1>7, <1>8, <2>1, <2>3, <3>2
  <2> QED
    BY <2>2, <2>3
<1>10. Begins(e, t) /\ Len(t) = n
  BY <1>2, <1>3, <1>5, <1>6, <1>7, <1>8, <1>9 DEF Begins
<1> QED
  BY <1>4, <1>10, VecBecomes

LEMMA VecDestroy ==
    ASSUME VecInv, Vec!destroy
    PROVE  VecInv'
<1>1. Begins(<<>>, <<>>) /\ Len(<<>>) = 0
  BY DEF Begins
<1> QED
  BY <1>1, VecBecomes DEF Vec!destroy

LEMMA VecStep ==
    ASSUME VecInv, vecKind \in {"Vec", "Array"}, Vec!Next
    PROVE  VecInv' /\ vecKind' = vecKind
<1>1. vecKind' = vecKind
  BY DEF Vec!Next, Vec!push, Vec!fakePush, Vec!emplaceAt, Vec!setSize, Vec!pushSpan,
         Vec!pushSpanAt, Vec!swapWithLast, Vec!popAsLast, Vec!removeAndShift, Vec!setCap,
         Vec!pop, Vec!clone, Vec!destroy, Vec!Becomes
<1>2. ASSUME NEW sp \in Vec!BoundedSeq(Values, 2) PROVE sp \in Seq(Values)
  <2>1. PICK m \in 0..2 : sp \in [1..m -> Values]
    BY <1>2 DEF Vec!BoundedSeq, Vec!SeqOf
  <2> QED
    BY <2>1
<1>3. ASSUME NEW v \in Values, Vec!push(v) \/ Vec!fakePush(v) PROVE VecInv'
  BY <1>3, VecPush
<1>4. ASSUME NEW v \in Values, NEW i \in 0..VecMaxCap, Vec!emplaceAt(i, v) \/ Vec!setSize(i, v)
      PROVE  VecInv'
  <2>1. i \in Nat
    BY <1>4
  <2> QED
    BY <1>4, <2>1, VecEmplaceAt, VecSetSize
<1>5. ASSUME NEW sp \in Vec!BoundedSeq(Values, 2),
             Vec!pushSpan(sp) \/ \E i \in 0..VecMaxCap : Vec!pushSpanAt(i, sp)
      PROVE  VecInv'
  <2>1. \A i \in 0..VecMaxCap : i \in Nat
    OBVIOUS
  <2> QED
    BY <1>2, <1>5, <2>1, VecPushSpan, VecPushSpanAt
<1>6. ASSUME NEW i \in 0..(vecSize - 1),
             Vec!swapWithLast(i) \/ Vec!popAsLast(i) \/ Vec!removeAndShift(i)
      PROVE  VecInv'
  <2>1. i \in Nat /\ i < vecSize
    BY <1>6, VecHolds
  <2> QED
    BY <1>6, <2>1, VecSwapWithLast, VecPopAsLast, VecRemoveAndShift
<1>7. ASSUME NEW cap \in 0..VecMaxCap, Vec!setCap(cap) PROVE VecInv'
  <2>1. cap \in Nat
    BY <1>7
  <2> QED
    BY <1>7, <2>1, VecSetCap
<1> QED
  BY <1>1, <1>3, <1>4, <1>5, <1>6, <1>7, VecPop, VecClone, VecDestroy DEF Vec!Next

LEMMA VecIsSequence ==
    ASSUME VecInv, VectorSizes
    PROVE  VectorsAreSequences
<1>1. /\ vecData \in Seq(VecCell) /\ items \in Seq(Values) /\ Len(items) <= Len(vecData)
      /\ Len(vecData) \in Nat /\ Len(items) \in Nat /\ vecSize = Len(items)
      /\ \A k \in 1..Len(items) : vecData[k] = items[k]
  BY VecHolds
<1>2. Vec!TypeOK
  <2>1. Len(vecData) \in 0..VecMaxCap
    BY <1>1 DEF VectorSizes, VecInv
  <2>2. vecData \in [1..Len(vecData) -> VecCell]
    BY <1>1
  <2>3. vecData \in Vec!BoundedSeq(Values \cup {Junk}, VecMaxCap)
    BY <2>1, <2>2 DEF Vec!BoundedSeq, Vec!SeqOf, VecCell
  <2> QED
    BY <1>1, <2>3 DEF Vec!TypeOK, Vec!m_capacity
<1>3. Vec!Forward = items
  <2>1. items = [k \in 1..Len(items) |-> items[k]]
    BY <1>1
  <2> QED
    BY <1>1, <2>1 DEF Vec!Forward
<1>4. Vec!Backward = Vec!Reverse(items)
  <2>1. \A k \in 1..Len(items) : /\ vecSize + 1 - k = (Len(items) - k) + 1
                                 /\ (Len(items) - k) + 1 \in 1..Len(items)
    BY <1>1
  <2>2. \A k \in 1..Len(items) : vecData[vecSize + 1 - k] = items[(Len(items) - k) + 1]
    BY <1>1, <2>1
  <2> QED
    BY <1>1, <2>2 DEF Vec!Backward, Vec!Reverse
<1> QED
  BY <1>2, <1>3, <1>4 DEF VectorsAreSequences, Vec!IsSequence

(* Vec, VecManaged, Array: whatever elements they hold and whatever their  *)
(* capacities, over pushes, insertions and removals in the middle, growing *)
(* and shrinking they are the sequence of the client's elements, from both *)
(* ends, and no cell without an element is part of it.                     *)
THEOREM VectorsHoldSequences == Spec => []VectorsAreSequences
<1> USE VectorAssumption
<1> DEFINE Kept == VecInv /\ vecKind \in {"Vec", "Array"}
<1>1. Init => Kept
  <2> SUFFICES ASSUME Init PROVE Kept
    OBVIOUS
  <2>1. CASE part = "vector"
    <3>1. PICK n \in VecPreallocs : vecData = Vec!Uninit(n)
      BY <2>1 DEF Init, Vec!Init
    <3>2. n \in Nat /\ n <= VecMaxCap
      BY DEF VectorSizes
    <3>3. vecData \in Seq(VecCell) /\ Len(vecData) = n
      BY <3>1, <3>2, VecUninit
    <3>4. vecSize = 0 /\ items = <<>> /\ vecKind \in VecKinds
      BY <2>1 DEF Init, Vec!Init
    <3>5. VecInv
      BY <3>2, <3>3, <3>4 DEF VecInv, Begins
    <3> QED
      BY <3>4, <3>5 DEF VectorSizes
  <2>2. CASE part # "vector"
    <3>1. vecKind = "Vec" /\ vecData = <<>> /\ vecSize = 0 /\ items = <<>>
      BY <2>2 DEF Init
    <3> QED
      BY <3>1 DEF VecInv, Begins, VectorSizes
  <2> QED
    BY <2>1, <2>2
<1>2. Kept /\ [Next]_specVars => Kept'
  <2> SUFFICES ASSUME Kept, [Next]_specVars PROVE Kept'
    OBVIOUS
  <2>1. CASE part = "vector" /\ Next
    <3>1. Vec!Next
      BY <2>1 DEF Next
    <3> QED
      BY <3>1, VecStep
  <2>2. CASE UNCHANGED vecVars
    BY <2>2 DEF vecVars, VecInv
  <2>3. Next \/ UNCHANGED vecVars
    BY DEF specVars
  <2>4. Next /\ part # "vector" => UNCHANGED vecVars
    BY DEF Next
  <2> QED
    BY <2>1, <2>2, <2>3, <2>4
<1>3. Kept => VectorsAreSequences
  BY VecIsSequence
<1> QED
  BY <1>1, <1>2, <1>3, PTL DEF Spec

-----------------------------------------------------------------------------
(* The pools                                                               *)

Members(s) == {s[i] : i \in 1..Len(s)}
Distinct(s) == \A i, j \in 1..Len(s) : s[i] = s[j] => i = j

(* What is left of a list of distinct handles when its last is taken.       *)
LEMMA LastTaken ==
    ASSUME NEW S, NEW s \in Seq(S), s # <<>>, Distinct(s)
    PROVE  /\ Pool!Last(s) \in S /\ Pool!Last(s) \in Members(s)
           /\ Pool!Front(s) \in Seq(S) /\ Distinct(Pool!Front(s))
           /\ Members(Pool!Front(s)) = Members(s) \ {Pool!Last(s)}
<1> DEFINE n == Len(s)
           t == SubSeq(s, 1, n - 1)
<1>1. n \in Nat \ {0} /\ n \in 1..n /\ \A i \in 1..n : s[i] \in S
  OBVIOUS
<1>2. t \in Seq(S) /\ Len(t) = n - 1 /\ \A i \in 1..(n - 1) : t[i] = s[i]
  <2>1. n - 1 \in Nat /\ n - 1 <= n
    BY <1>1
  <2>2. t = [i \in 1..(n - 1) |-> s[i]]
    BY <1>1, <2>1
  <2>3. \A i \in 1..(n - 1) : i \in 1..n
    BY <1>1
  <2>4. \A i \in 1..(n - 1) : t[i] = s[i]
    BY <2>2, Zenon
  <2>5. Len(t) = n - 1
    <3> HIDE DEF n
    <3> QED
      BY <2>1, <2>2
  <2>6. t \in Seq(S)
    BY <1>1, <2>1, <2>2, <2>3
  <2> QED
    BY <2>4, <2>5, <2>6
<1> HIDE DEF t
<1>3. Distinct(t)
  BY <1>1, <1>2 DEF Distinct
<1>4. ASSUME NEW x \in Members(t)
      PROVE  x \in Members(s) \ {s[n]}
  <2>1. PICK i \in 1..(n - 1) : x = s[i]
    BY <1>2, <1>4 DEF Members
  <2>2. i \in 1..n /\ i # n
    BY <1>1, <2>1
  <2> QED
    BY <1>1, <2>1, <2>2 DEF Members, Distinct
<1>5. ASSUME NEW x \in Members(s) \ {s[n]}
      PROVE  x \in Members(t)
  <2>1. PICK i \in 1..n : x = s[i]
    BY <1>5 DEF Members
  <2>2. i \in 1..Len(t) /\ t[i] = x
    BY <1>1, <1>2, <1>5, <2>1
  <2> QED
    BY <2>2 DEF Members
<1>6. s[n] \in Members(s)
  BY <1>1 DEF Members
<1>7. Pool!Last(s) = s[n] /\ Pool!Front(s) = t
  BY DEF Pool!Last, Pool!Front, t
<1>8. Members(t) = Members(s) \ {s[n]}
  BY <1>4, <1>5
<1> QED
  BY <1>1, <1>2, <1>3, <1>6, <1>7, <1>8

(* What is left of a list of distinct handles when its first is taken.      *)
LEMMA FirstTaken ==
    ASSUME NEW S, NEW s \in Seq(S), s # <<>>, Distinct(s)
    PROVE  /\ Head(s) \in S /\ Head(s) \in Members(s)
           /\ Tail(s) \in Seq(S) /\ Distinct(Tail(s))
           /\ Members(Tail(s)) = Members(s) \ {Head(s)}
<1> DEFINE n == Len(s)
           t == Tail(s)
<1>1. n \in Nat \ {0} /\ 1 \in 1..n /\ \A i \in 1..n : s[i] \in S
  OBVIOUS
<1>2. t \in Seq(S) /\ Len(t) = n - 1 /\ \A i \in 1..(n - 1) : t[i] = s[i + 1]
  BY <1>1
<1>3. Head(s) = s[1]
  BY <1>1
<1> HIDE DEF t
<1>4. Distinct(t)
  BY <1>1, <1>2 DEF Distinct
<1>5. ASSUME NEW x \in Members(t)
      PROVE  x \in Members(s) \ {s[1]}
  <2>1. PICK i \in 1..(n - 1) : x = s[i + 1]
    BY <1>2, <1>5 DEF Members
  <2>2. i + 1 \in 1..n /\ i + 1 # 1
    BY <1>1, <2>1
  <2> QED
    BY <1>1, <2>1, <2>2 DEF Members, Distinct
<1>6. ASSUME NEW x \in Members(s) \ {s[1]}
      PROVE  x \in Members(t)
  <2>1. PICK i \in 1..n : x = s[i]
    BY <1>6 DEF Members
  <2>2. i - 1 \in 1..Len(t) /\ t[i - 1] = x
    BY <1>1, <1>2, <1>6, <2>1
  <2> QED
    BY <2>2 DEF Members
<1>7. s[1] \in Members(s)
  BY <1>1 DEF Members
<1> QED
  BY <1>1, <1>2, <1>3, <1>4, <1>5, <1>6, <1>7 DEF t

(* A list of distinct handles to which a new one is given back, at the end   *)
(* or at the start.                                                         *)
LEMMA LastGiven ==
    ASSUME NEW S, NEW s \in Seq(S), NEW x \in S, Distinct(s), x \notin Members(s)
    PROVE  /\ Append(s, x) \in Seq(S) /\ Distinct(Append(s, x))
           /\ Members(Append(s, x)) = Members(s) \cup {x}
<1> DEFINE n == Len(s)
           t == Append(s, x)
<1>1. /\ n \in Nat /\ t \in Seq(S) /\ Len(t) = n + 1 /\ t[n + 1] = x
      /\ \A i \in 1..n : t[i] = s[i]
  OBVIOUS
<1>2. \A i \in 1..n : s[i] # x
  BY DEF Members
<1> HIDE DEF t
<1>3. Distinct(t)
  BY <1>1, <1>2 DEF Distinct
<1>4. Members(t) = Members(s) \cup {x}
  <2>1. \A y \in Members(t) : y \in Members(s) \cup {x}
    BY <1>1 DEF Members
  <2>2. x \in Members(t)
    <3>1. n + 1 \in 1..Len(t)
      BY <1>1
    <3> QED
      BY <1>1, <3>1 DEF Members
  <2>3. \A y \in Members(s) : y \in Members(t)
    <3>1. \A i \in 1..n : i \in 1..Len(t)
      BY <1>1
    <3> QED
      BY <1>1, <3>1 DEF Members
  <2> QED
    BY <2>1, <2>2, <2>3
<1> QED
  BY <1>1, <1>3, <1>4 DEF t

LEMMA FirstGiven ==
    ASSUME NEW S, NEW s \in Seq(S), NEW x \in S, Distinct(s), x \notin Members(s)
    PROVE  /\ <<x>> \o s \in Seq(S) /\ Distinct(<<x>> \o s)
           /\ Members(<<x>> \o s) = Members(s) \cup {x}
<1> DEFINE n == Len(s)
           t == <<x>> \o s
<1>1. /\ n \in Nat /\ t \in Seq(S) /\ Len(t) = n + 1 /\ t[1] = x
      /\ \A i \in 1..n : t[i + 1] = s[i]
  OBVIOUS
<1>2. \A i \in 1..n : s[i] # x
  BY DEF Members
<1> HIDE DEF t
<1>3. \A i \in 1..Len(t) : i # 1 => i - 1 \in 1..n /\ t[i] = s[i - 1]
  <2>1. SUFFICES ASSUME NEW i \in 1..Len(t), i # 1
                 PROVE  i - 1 \in 1..n /\ t[i] = s[i - 1]
    BY Zenon
  <2>2. i - 1 \in 1..n /\ (i - 1) + 1 = i
    BY <1>1, <2>1
  <2> QED
    BY <1>1, <2>2
<1>4. Distinct(t)
  <2>1. SUFFICES ASSUME NEW i \in 1..Len(t), NEW j \in 1..Len(t), t[i] = t[j] PROVE i = j
    BY DEF Distinct
  <2>2. CASE i = 1 \/ j = 1
    BY <1>1, <1>2, <1>3, <2>1, <2>2
  <2>3. CASE i # 1 /\ j # 1
    <3>1. i - 1 \in 1..n /\ j - 1 \in 1..n /\ s[i - 1] = s[j - 1]
      BY <1>3, <2>1, <2>3
    <3>2. i - 1 = j - 1
      BY <3>1 DEF Distinct
    <3> QED
      BY <1>1, <2>1, <3>2
  <2> QED
    BY <2>2, <2>3
<1>5. Members(t) = Members(s) \cup {x}
  <2>1. \A y \in Members(t) : y \in Members(s) \cup {x}
    BY <1>1, <1>3 DEF Members
  <2>2. x \in Members(t)
    <3>1. 1 \in 1..Len(t)
      BY <1>1
    <3> QED
      BY <1>1, <3>1 DEF Members
  <2>3. \A y \in Members(s) : y \in Members(t)
    <3>1. \A i \in 1..n : i + 1 \in 1..Len(t)
      BY <1>1
    <3> QED
      BY <1>1, <3>1 DEF Members
  <2> QED
    BY <2>1, <2>2, <2>3
<1> QED
  BY <1>1, <1>4, <1>5 DEF t

(* The handles a pool has given out at some time.                           *)
Handles == IF poolKind = "Pool" THEN Pool!Slots ELSE 0..(m_nOccupied - 1)

PoolInv ==
    /\ poolKind \in {"Pool", "PoolSOA"}
    /\ DOMAIN slots = Pool!Slots
    /\ occupied = DOMAIN held /\ occupied \subseteq Handles
    /\ \A i \in occupied : slots[i] = held[i]
    /\ free \in Seq(Pool!Slots) /\ Distinct(free)
    /\ Members(free) = Handles \ occupied
    /\ IF poolKind = "Pool" THEN m_nOccupied = Cardinality(occupied)
       ELSE m_nOccupied \in 0..CAP

LEMMA PoolCardinality == \A S : Pool!Cardinality(S) = Cardinality(S)
  BY DEF Pool!Cardinality, Cardinality

LEMMA PoolInvHolds ==
    ASSUME PoolInv
    PROVE  Pool!HandlesAreHeld
<1>1. DOMAIN free = 1..Len(free)
  BY DEF PoolInv
<1>2. Pool!IsInjective(free)
  BY <1>1 DEF PoolInv, Distinct, Pool!IsInjective
<1>3. Pool!ToSet(free) = Members(free)
  BY <1>1 DEF Pool!ToSet, Members
<1>4. /\ occupied = DOMAIN held
      /\ \A i \in DOMAIN held : slots[i] = held[i]
      /\ poolKind = "Pool" => m_nOccupied = Pool!Cardinality(DOMAIN held)
  BY PoolCardinality DEF PoolInv
<1>5. Pool!ToSet(free)
        = (IF poolKind = "Pool" THEN Pool!Slots ELSE 0..(m_nOccupied - 1)) \ occupied
  BY <1>3 DEF PoolInv, Handles
<1> QED
  BY <1>2, <1>4, <1>5 DEF Pool!HandlesAreHeld

LEMMA PoolInvInit ==
    ASSUME PoolSizes, Pool!Init
    PROVE  PoolInv
<1>1. CAP \in Nat
  BY DEF PoolSizes
<1>2. /\ poolKind \in {"Pool", "PoolSOA"} /\ DOMAIN slots = Pool!Slots
      /\ occupied = {} /\ m_nOccupied = 0 /\ held = <<>>
      /\ free = IF poolKind = "Pool" THEN [i \in 1..CAP |-> CAP - i] ELSE <<>>
  BY DEF Pool!Init
<1>3. occupied = DOMAIN held
  BY <1>2
<1>4. m_nOccupied = Cardinality(occupied) /\ m_nOccupied \in 0..CAP
  BY <1>1, <1>2, FS_EmptySet
<1>5. /\ free \in Seq(Pool!Slots) /\ Distinct(free)
      /\ Members(free) = Handles \ occupied
  <2>1. CASE poolKind = "Pool"
    <3>1. free = [i \in 1..CAP |-> CAP - i]
      BY <1>2, <2>1
    <3>2. Len(free) = CAP /\ \A i \in 1..CAP : free[i] = CAP - i /\ free[i] \in Pool!Slots
      BY <1>1, <3>1 DEF Pool!Slots
    <3>3. free \in Seq(Pool!Slots)
      BY <1>1, <3>1, <3>2
    <3>4. Distinct(free)
      BY <1>1, <3>2 DEF Distinct
    <3>5. \A x \in Pool!Slots : x \in Members(free)
      <4>1. \A x \in Pool!Slots : CAP - x \in 1..CAP /\ free[CAP - x] = x
        BY <1>1, <3>2 DEF Pool!Slots
      <4> QED
        BY <3>2, <4>1 DEF Members
    <3>6. Members(free) = Pool!Slots
      BY <3>2, <3>5 DEF Members
    <3> QED
      BY <1>2, <2>1, <3>3, <3>4, <3>6 DEF Handles
  <2>2. CASE poolKind = "PoolSOA"
    <3>1. free = <<>> /\ Handles = {} /\ Len(<<>>) = 0
      BY <1>2, <2>2 DEF Handles
    <3>2. free \in Seq(Pool!Slots)
      BY <3>1
    <3>3. Distinct(free) /\ Members(free) = {}
      BY <3>1 DEF Distinct, Members
    <3> QED
      BY <1>2, <3>1, <3>2, <3>3
  <2> QED
    BY <1>2, <2>1, <2>2
<1> QED
  BY <1>2, <1>3, <1>4, <1>5 DEF PoolInv

(* What is held is finite.                                                  *)
LEMMA HeldIsFinite ==
    ASSUME PoolSizes, PoolInv
    PROVE  /\ CAP \in Nat /\ Handles \subseteq Pool!Slots
           /\ IsFiniteSet(occupied) /\ Cardinality(occupied) \in Nat
<1>1. CAP \in Nat /\ CAP - 1 \in Int /\ 0 \in Int
  BY DEF PoolSizes
<1>2. Handles \subseteq Pool!Slots
  BY <1>1 DEF PoolInv, Handles, Pool!Slots
<1>3. IsFiniteSet(0..(CAP - 1))
  BY <1>1, FS_Interval
<1>4. occupied \in SUBSET (0..(CAP - 1))
  BY <1>2 DEF PoolInv, Pool!Slots
<1>5. IsFiniteSet(occupied)
  BY <1>3, <1>4, FS_Subset
<1> QED
  BY <1>1, <1>2, <1>5, FS_CardinalityType

(* A slot that is not held is taken.                                        *)
LEMMA SlotTaken ==
    ASSUME PoolSizes, PoolInv, NEW i \in Pool!Slots, i \notin occupied, NEW v, Pool!Occupy(i, v)
    PROVE  /\ DOMAIN slots' = Pool!Slots
           /\ occupied' = occupied \cup {i} /\ occupied' = DOMAIN held'
           /\ \A j \in occupied' : slots'[j] = held'[j]
           /\ Cardinality(occupied') = Cardinality(occupied) + 1
<1>1. /\ slots' = [slots EXCEPT ![i] = v]
      /\ occupied' = occupied \cup {i}
      /\ held' = [j \in DOMAIN held \cup {i} |-> IF j = i THEN v ELSE held[j]]
  BY DEF Pool!Occupy
<1>2. Handles \subseteq Pool!Slots /\ IsFiniteSet(occupied)
  BY HeldIsFinite
<1>3. Cardinality(occupied') = Cardinality(occupied) + 1
  BY <1>1, <1>2, FS_AddElement
<1>4. \A j \in occupied' : slots'[j] = held'[j]
  BY <1>1, <1>2 DEF PoolInv
<1> QED
  BY <1>1, <1>3, <1>4 DEF PoolInv

LEMMA PoolReuses ==
    ASSUME PoolSizes, PoolInv, NEW v, Pool!insertReused(v)
    PROVE  PoolInv'
<1> DEFINE i == Pool!Last(free)
<1>1. /\ free # <<>> /\ Pool!Occupy(i, v) /\ free' = Pool!Front(free)
      /\ poolKind' = poolKind
      /\ m_nOccupied' = IF poolKind = "Pool" THEN m_nOccupied + 1 ELSE m_nOccupied
  BY DEF Pool!insertReused
<1>3. free \in Seq(Pool!Slots) /\ Distinct(free)
  BY DEF PoolInv
<1>4. /\ i \in Pool!Slots /\ i \in Members(free)
      /\ free' \in Seq(Pool!Slots) /\ Distinct(free') /\ Members(free') = Members(free) \ {i}
  BY <1>1, <1>3, LastTaken
<1> HIDE DEF i
<1>5. i \in Handles /\ i \notin occupied /\ Members(free) = Handles \ occupied
  BY <1>4 DEF PoolInv
<1>6. /\ DOMAIN slots' = Pool!Slots
      /\ occupied' = occupied \cup {i} /\ occupied' = DOMAIN held'
      /\ \A j \in occupied' : slots'[j] = held'[j]
      /\ Cardinality(occupied') = Cardinality(occupied) + 1
  BY <1>1, <1>4, <1>5, SlotTaken
<1>7. Handles' = Handles
  BY <1>1 DEF Handles, Pool!Slots
<1>8. Members(free') = Handles' \ occupied' /\ occupied' \subseteq Handles'
  BY <1>4, <1>5, <1>6, <1>7 DEF PoolInv
<1>9. IF poolKind' = "Pool" THEN m_nOccupied' = Cardinality(occupied')
      ELSE m_nOccupied' \in 0..CAP
  BY <1>1, <1>6 DEF PoolInv
<1> QED
  BY <1>1, <1>4, <1>6, <1>8, <1>9 DEF PoolInv, Pool!Slots

LEMMA PoolGrows ==
    ASSUME PoolSizes, PoolInv, NEW v, Pool!insertFresh(v)
    PROVE  PoolInv'
<1> DEFINE i == m_nOccupied
<1>1. /\ poolKind = "PoolSOA" /\ free = <<>> /\ i # CAP /\ Pool!Occupy(i, v)
      /\ m_nOccupied' = i + 1 /\ poolKind' = poolKind /\ free' = free
  BY DEF Pool!insertFresh
<1>2. CAP \in Nat /\ i \in 0..CAP /\ Handles = 0..(i - 1)
  BY <1>1, HeldIsFinite DEF PoolInv, Handles
<1>3. i \in Pool!Slots /\ i \notin occupied /\ m_nOccupied' \in 0..CAP
  BY <1>1, <1>2 DEF PoolInv, Pool!Slots
<1>4. Members(free) = {}
  BY <1>1 DEF Members
<1>5. occupied = 0..(i - 1)
  BY <1>2, <1>4 DEF PoolInv
<1>6. /\ DOMAIN slots' = Pool!Slots
      /\ occupied' = occupied \cup {i} /\ occupied' = DOMAIN held'
      /\ \A j \in occupied' : slots'[j] = held'[j]
  BY <1>1, <1>3, SlotTaken
<1>7. Handles' = 0..i
  BY <1>1, <1>2 DEF Handles
<1>8. occupied' = 0..i
  BY <1>2, <1>5, <1>6
<1>9. Members(free') = Handles' \ occupied' /\ occupied' \subseteq Handles'
  BY <1>1, <1>4, <1>7, <1>8
<1> QED
  BY <1>1, <1>3, <1>6, <1>9 DEF PoolInv, Pool!Slots

LEMMA PoolRemoves ==
    ASSUME PoolSizes, PoolInv, NEW i \in DOMAIN held, Pool!remove(i)
    PROVE  PoolInv'
<1>1. /\ free' = Append(free, i) /\ occupied' = occupied \ {i}
      /\ m_nOccupied' = IF poolKind = "Pool" THEN m_nOccupied - 1 ELSE m_nOccupied
      /\ held' = [j \in DOMAIN held \ {i} |-> held[j]]
      /\ poolKind' = poolKind /\ slots' = slots
  BY DEF Pool!remove, Pool!Restrict
<1>2. /\ Handles \subseteq Pool!Slots /\ IsFiniteSet(occupied) /\ Cardinality(occupied) \in Nat
      /\ i \in occupied /\ occupied \subseteq Handles
      /\ Members(free) = Handles \ occupied
      /\ free \in Seq(Pool!Slots) /\ Distinct(free)
  BY HeldIsFinite DEF PoolInv
<1>3. i \in Pool!Slots /\ i \notin Members(free)
  BY <1>2
<1>4. free' \in Seq(Pool!Slots) /\ Distinct(free') /\ Members(free') = Members(free) \cup {i}
  BY <1>1, <1>2, <1>3, LastGiven
<1>5. Handles' = Handles
  BY <1>1 DEF Handles, Pool!Slots
<1>6. Members(free') = Handles' \ occupied' /\ occupied' \subseteq Handles'
  BY <1>1, <1>2, <1>4, <1>5
<1>7. Cardinality(occupied') = Cardinality(occupied) - 1
  BY <1>1, <1>2, FS_RemoveElement
<1>8. IF poolKind' = "Pool" THEN m_nOccupied' = Cardinality(occupied')
      ELSE m_nOccupied' \in 0..CAP
  BY <1>1, <1>7 DEF PoolInv
<1>9. occupied' = DOMAIN held' /\ \A j \in occupied' : slots'[j] = held'[j]
  BY <1>1 DEF PoolInv
<1> QED
  BY <1>1, <1>4, <1>6, <1>8, <1>9 DEF PoolInv, Pool!Slots

LEMMA PoolStep ==
    ASSUME PoolSizes, PoolInv, Pool!Next \/ UNCHANGED poolVars
    PROVE  PoolInv'
<1>1. CASE UNCHANGED poolVars
  BY <1>1 DEF poolVars, PoolInv, Handles, Pool!Slots
<1>2. CASE \E v \in Values : Pool!insertReused(v)
  BY <1>2, PoolReuses
<1>3. CASE \E v \in Values : Pool!insertFresh(v)
  BY <1>3, PoolGrows
<1>4. CASE \E i \in DOMAIN held : Pool!remove(i)
  BY <1>4, PoolRemoves
<1> QED
  BY <1>1, <1>2, <1>3, <1>4 DEF Pool!Next

(* The chunks that fit a block, and the ones of block b the client has.     *)
PerBlock == m_blockCap \div m_chunkSize
Mine(b) == {c \in Nat : <<b, c>> \in chunks}

ChainBlock == [head : Seq(Nat), used : Int]

(* Of the chunks of the block x, `mine' are the client's and the others on  *)
(* its list.                                                                *)
Shared(x, mine) ==
    /\ Distinct(x.head) /\ Members(x.head) \cap mine = {}
    /\ Members(x.head) \cup mine = 0..(PerBlock - 1)
    /\ x.used = m_chunkSize * Cardinality(mine)

ChunkSizesFit ==
    m_chunkSize \in Nat \ {0} /\ m_blockCap \in Nat /\ m_chunkSize <= m_blockCap

(* The shapes of which free() finds every chunk.                            *)
LongChunks == 32 < m_chunkSize + (m_blockCap % m_chunkSize)

ChunkInv ==
    /\ ChunkSizesFit
    /\ chain \in Seq(ChainBlock)
    /\ chunks \subseteq (1..Len(chain)) \X Nat
    /\ badPointer => ~LongChunks
    /\ \A b \in 1..Len(chain) : Shared(chain[b], Mine(b))

LEMMA BlockHasChunks ==
    ASSUME ChunkSizesFit
    PROVE  /\ m_chunkSize \in Int /\ PerBlock \in Nat \ {0}
           /\ m_blockCap % m_chunkSize \in 0..(m_chunkSize - 1)
           /\ m_chunkSize * PerBlock \in Int
           /\ m_blockCap = m_chunkSize * PerBlock + (m_blockCap % m_chunkSize)
<1> DEFINE c == m_chunkSize
           n == PerBlock
           r == m_blockCap % c
<1>1. c \in Nat \ {0} /\ c \in Int /\ m_blockCap \in Int /\ c <= m_blockCap
  BY DEF ChunkSizesFit
<1>2. n \in Int /\ n >= 0
  BY <1>1 DEF PerBlock, ChunkSizesFit
<1>3. m_blockCap = c * n + r /\ r \in 0..(c - 1)
  BY <1>1 DEF PerBlock
<1>4. n # 0
  <2>1. ASSUME n = 0 PROVE FALSE
    <3>1. c * n = 0
      BY <1>1, <2>1
    <3> QED
      BY <1>1, <1>3, <3>1
  <2> QED
    BY <2>1
<1> QED
  BY <1>1, <1>2, <1>3, <1>4

(* Every chunk of a block lies in it, and free() finds a long one there.    *)
LEMMA ChunkInRange ==
    ASSUME ChunkSizesFit, NEW c \in 0..(PerBlock - 1)
    PROVE  /\ LongChunks => Chunks!InRange(c)
           /\ Chunks!Offset(c) + m_chunkSize - Chunks!SizeofNode
                  <= Chunks!SizeofBlock + m_blockCap
<1> DEFINE s == m_chunkSize
           n == PerBlock
           r == m_blockCap % s
<1>1. /\ s \in Nat \ {0} /\ n \in Nat \ {0} /\ r \in Int /\ 0 <= r /\ s * n \in Int
      /\ m_blockCap = s * n + r
      /\ LongChunks => 32 < s + r
  BY BlockHasChunks DEF ChunkSizesFit, LongChunks
<1>2. s * c + s <= s * n /\ s * c \in Nat
  BY <1>1, MultiplesApart
<1>3. Chunks!Offset(c) = 24 + s * c + 8
  BY <1>1 DEF Chunks!Offset, Chunks!SizeofBlock, Chunks!SizeofNode
<1> HIDE DEF s, n, r
<1>4. 24 < 24 + s * c + 8 /\ (LongChunks => 24 + s * c + 8 < m_blockCap)
  BY <1>1, <1>2
<1>5. 24 + s * c + 8 + s - 8 <= 24 + m_blockCap
  BY <1>1, <1>2
<1> QED
  BY <1>3, <1>4, <1>5 DEF Chunks!InRange, Chunks!SizeofBlock, Chunks!SizeofNode, s

(* What the client has of a block is finite.                                *)
LEMMA MineIsFinite ==
    ASSUME ChunkSizesFit, NEW x, NEW mine, Shared(x, mine)
    PROVE  /\ IsFiniteSet(mine) /\ Cardinality(mine) \in 0..PerBlock
           /\ mine # 0..(PerBlock - 1) => Cardinality(mine) < PerBlock
<1> DEFINE all == 0..(PerBlock - 1)
<1>1. PerBlock \in Nat \ {0} /\ PerBlock - 1 \in Int /\ 0 \in Int
  BY BlockHasChunks
<1>2. IsFiniteSet(all) /\ Cardinality(all) = PerBlock
  BY <1>1, FS_Interval
<1>3. mine \in SUBSET all
  BY DEF Shared
<1>4. /\ IsFiniteSet(mine) /\ Cardinality(mine) <= PerBlock
      /\ Cardinality(mine) = PerBlock => mine = all
  <2> HIDE DEF all
  <2> QED
    BY <1>2, <1>3, FS_Subset
<1>5. Cardinality(mine) \in Nat
  BY <1>4, FS_CardinalityType
<1> QED
  BY <1>1, <1>4, <1>5

(* A block with room has a chunk on its list.                               *)
LEMMA RoomIsFree ==
    ASSUME ChunkSizesFit, NEW x \in ChainBlock, NEW mine, Shared(x, mine), Chunks!HasRoom(x)
    PROVE  x.head # <<>>
<1> DEFINE s == m_chunkSize
           n == PerBlock
           u == Cardinality(mine)
<1>1. /\ s \in Nat \ {0} /\ n \in Nat \ {0} /\ s * n \in Int
      /\ m_blockCap = s * n + (m_blockCap % s) /\ m_blockCap % s \in 0..(s - 1)
  BY BlockHasChunks DEF ChunkSizesFit
<1>2. m_blockCap - s * u >= s
  BY DEF Chunks!HasRoom, Shared
<1>3. u # n
  BY <1>1, <1>2
<1>4. mine # 0..(n - 1)
  <2>1. Cardinality(0..(n - 1)) = n
    <3>1. n - 1 \in Int /\ 0 \in Int /\ ~(0 > n - 1) /\ (n - 1) - 0 + 1 = n
      BY <1>1
    <3> HIDE DEF n
    <3> QED
      BY <3>1, FS_Interval
  <2> QED
    BY <1>3, <2>1
<1>5. x.head = <<>> => Members(x.head) = {}
  BY DEF Members
<1> QED
  BY <1>4, <1>5 DEF Shared

(* A chunk is taken from the list of a block.                               *)
LEMMA ChunkTaken ==
    ASSUME ChunkSizesFit, NEW x \in ChainBlock, NEW mine, Shared(x, mine), x.head # <<>>,
           NEW y \in ChainBlock, y.head = Tail(x.head), y.used = x.used + m_chunkSize
    PROVE  /\ Head(x.head) \in Nat /\ Head(x.head) \notin mine
           /\ Shared(y, mine \cup {Head(x.head)})
<1> DEFINE h == Head(x.head)
           u == Cardinality(mine)
<1>1. x.head \in Seq(Nat) /\ Distinct(x.head)
  BY DEF ChainBlock, Shared
<1>2. /\ h \in Nat /\ h \in Members(x.head) /\ Distinct(y.head)
      /\ Members(y.head) = Members(x.head) \ {h}
  BY <1>1, FirstTaken
<1> HIDE DEF h
<1>3. /\ h \notin mine /\ Members(y.head) \cap (mine \cup {h}) = {}
      /\ Members(y.head) \cup (mine \cup {h}) = 0..(PerBlock - 1)
  BY <1>2 DEF Shared
<1>4. IsFiniteSet(mine) /\ u \in Nat
  BY MineIsFinite
<1>5. Cardinality(mine \cup {h}) = u + 1
  BY <1>3, <1>4, FS_AddElement
<1>6. m_chunkSize * (u + 1) = m_chunkSize * u + m_chunkSize
  BY <1>4, BlockHasChunks
<1>7. y.used = m_chunkSize * Cardinality(mine \cup {h})
  BY <1>5, <1>6 DEF Shared
<1> QED
  BY <1>2, <1>3, <1>7 DEF Shared, h

(* A chunk goes back on the list of its block.                              *)
LEMMA ChunkGiven ==
    ASSUME ChunkSizesFit, NEW x \in ChainBlock, NEW mine, Shared(x, mine),
           NEW c \in mine, c \in Nat,
           NEW y \in ChainBlock, y.head = <<c>> \o x.head, y.used = x.used - m_chunkSize
    PROVE  Shared(y, mine \ {c})
<1> DEFINE u == Cardinality(mine)
<1>1. x.head \in Seq(Nat) /\ Distinct(x.head) /\ c \notin Members(x.head)
  BY DEF ChainBlock, Shared
<1>2. Distinct(y.head) /\ Members(y.head) = Members(x.head) \cup {c}
  BY <1>1, FirstGiven
<1>3. /\ Members(y.head) \cap (mine \ {c}) = {}
      /\ Members(y.head) \cup (mine \ {c}) = 0..(PerBlock - 1)
  BY <1>1, <1>2 DEF Shared
<1>4. IsFiniteSet(mine) /\ u \in Nat
  BY MineIsFinite
<1>5. Cardinality(mine \ {c}) = u - 1
  BY <1>4, FS_RemoveElement
<1>6. m_chunkSize * (u - 1) = m_chunkSize * u - m_chunkSize
  BY <1>4, BlockHasChunks
<1>7. y.used = m_chunkSize * Cardinality(mine \ {c})
  BY <1>5, <1>6 DEF Shared
<1> QED
  BY <1>2, <1>3, <1>7 DEF Shared

(* A new block has all its chunks on its list.                              *)
LEMMA NewBlock ==
    ASSUME ChunkSizesFit
    PROVE  /\ Chunks!allocBlock(m_blockCap, m_chunkSize) \in ChainBlock
           /\ Shared(Chunks!allocBlock(m_blockCap, m_chunkSize), {})
<1> DEFINE n == PerBlock
           x == Chunks!allocBlock(m_blockCap, m_chunkSize)
           h == [i \in 1..n |-> i - 1]
<1>1. n \in Nat \ {0} /\ m_chunkSize \in Int
  BY BlockHasChunks
<1>2. x = [head |-> h, used |-> 0]
  BY <1>1 DEF Chunks!allocBlock, PerBlock
<1>3. h \in Seq(Nat) /\ Len(h) = n /\ \A i \in 1..n : h[i] = i - 1
  BY <1>1
<1> HIDE DEF h
<1>4. Distinct(h)
  BY <1>1, <1>3 DEF Distinct
<1>5. Members(h) = 0..(n - 1)
  <2>1. \A c \in 0..(n - 1) : c + 1 \in 1..n /\ h[c + 1] = c
    BY <1>1, <1>3
  <2>2. \A c \in 0..(n - 1) : c \in Members(h)
    BY <1>3, <2>1 DEF Members
  <2>3. \A c \in Members(h) : c \in 0..(n - 1)
    BY <1>1, <1>3 DEF Members
  <2> QED
    BY <2>2, <2>3
<1>6. x.used = m_chunkSize * Cardinality({})
  BY <1>1, <1>2, FS_EmptySet
<1>7. x \in ChainBlock /\ x.head = h
  BY <1>2, <1>3 DEF ChainBlock
<1> QED
  BY <1>4, <1>5, <1>6, <1>7 DEF Shared

LEMMA BlockOf ==
    ASSUME NEW c \in Seq(ChainBlock), NEW k \in 1..Len(c)
    PROVE  /\ c[k] \in ChainBlock /\ c[k] = [head |-> c[k].head, used |-> c[k].used]
           /\ c[k].head \in Seq(Nat) /\ c[k].used \in Int
<1>1. c[k] \in ChainBlock
  OBVIOUS
<1> QED
  BY <1>1 DEF ChainBlock

(* The list and the count of block k of the chain c change.                 *)
ChainWith(c, k, h, u) == [c EXCEPT ![k].head = h, ![k].used = u]

LEMMA BlockChanges ==
    ASSUME NEW c \in Seq(ChainBlock), NEW k \in 1..Len(c), NEW h \in Seq(Nat), NEW u \in Int
    PROVE  /\ ChainWith(c, k, h, u) \in Seq(ChainBlock)
           /\ Len(ChainWith(c, k, h, u)) = Len(c)
           /\ ChainWith(c, k, h, u)[k] \in ChainBlock
           /\ ChainWith(c, k, h, u)[k].head = h /\ ChainWith(c, k, h, u)[k].used = u
           /\ \A b \in 1..Len(c) : b # k => ChainWith(c, k, h, u)[b] = c[b]
<1> DEFINE y == [head |-> h, used |-> u]
           d == ChainWith(c, k, h, u)
<1>1. DOMAIN c = 1..Len(c) /\ Len(c) \in Nat /\ \A b \in 1..Len(c) : c[b] \in ChainBlock
  OBVIOUS
<1>2. c[k] = [head |-> c[k].head, used |-> c[k].used]
  BY BlockOf
<1>3. d = [b \in 1..Len(c) |-> d[b]]
  BY <1>1 DEF ChainWith
<1>4. d[k] = y
  BY <1>1, <1>2 DEF ChainWith
<1>5. \A b \in 1..Len(c) : b # k => d[b] = c[b]
  BY <1>1 DEF ChainWith
<1>6. y \in ChainBlock /\ y.head = h /\ y.used = u
  BY DEF ChainBlock
<1> HIDE DEF y, d
<1>7. \A b \in 1..Len(c) : d[b] \in ChainBlock
  BY <1>1, <1>4, <1>5, <1>6
<1>8. d \in Seq(ChainBlock)
  BY <1>1, <1>3, <1>7
<1>9. Len(d) = Len(c)
  BY <1>1, <1>3
<1> QED
  BY <1>4, <1>5, <1>6, <1>8, <1>9 DEF d

LEMMA ChunkInvHolds ==
    ASSUME ChunkInv
    PROVE  Chunks!ChunksApart /\ Chunks!FreeFindsBlock
<1>1. SUFFICES ASSUME NEW b \in DOMAIN chain
               PROVE  LET mine == {c[2] : c \in {d \in chunks : d[1] = b}}
                          head == chain[b].head
                      IN /\ Chunks!IsInjective(head) /\ Chunks!ToSet(head) \cap mine = {}
                         /\ Chunks!ToSet(head) \cup mine
                                = 0..(m_blockCap \div m_chunkSize) - 1
                         /\ chain[b].used = m_chunkSize * Chunks!Cardinality(mine)
                         /\ \A c \in mine :
                               Chunks!Offset(c) + m_chunkSize - Chunks!SizeofNode
                                   <= Chunks!SizeofBlock + m_blockCap
  <2>1. Chunks!FreeFindsBlock
    <3>1. m_chunkSize + (m_blockCap % m_chunkSize) \in Int
      BY BlockHasChunks DEF ChunkInv
    <3> QED
      BY <3>1 DEF ChunkInv, LongChunks, Chunks!FreeFindsBlock, Chunks!SizeofBlock,
                  Chunks!SizeofNode
  <2> QED
    BY <2>1 DEF Chunks!ChunksApart
<1> DEFINE mine == {c[2] : c \in {d \in chunks : d[1] = b}}
           head == chain[b].head
<1>2. b \in 1..Len(chain) /\ ChunkSizesFit /\ Shared(chain[b], Mine(b))
  BY DEF ChunkInv
<1>3. mine = Mine(b)
  BY DEF ChunkInv, Mine
<1> HIDE DEF mine
<1>4. head \in Seq(Nat)
  BY <1>2, BlockOf DEF ChunkInv
<1>5. Chunks!IsInjective(head) /\ Chunks!ToSet(head) = Members(head)
  <2>1. DOMAIN head = 1..Len(head) /\ Distinct(head)
    BY <1>2, <1>4 DEF Shared
  <2> HIDE DEF head
  <2> QED
    BY <2>1 DEF Chunks!IsInjective, Chunks!ToSet, Members, Distinct
<1>6. Chunks!Cardinality(mine) = Cardinality(mine)
  BY DEF Chunks!Cardinality, Cardinality
<1>7. \A c \in mine : Chunks!Offset(c) + m_chunkSize - Chunks!SizeofNode
                          <= Chunks!SizeofBlock + m_blockCap
  <2>1. \A c \in mine : c \in 0..(PerBlock - 1)
    BY <1>2, <1>3 DEF Shared
  <2> QED
    BY <1>2, <2>1, ChunkInRange
<1>8. /\ Chunks!ToSet(head) \cap mine = {}
      /\ Chunks!ToSet(head) \cup mine = 0..(m_blockCap \div m_chunkSize) - 1
      /\ chain[b].used = m_chunkSize * Chunks!Cardinality(mine)
  BY <1>2, <1>3, <1>5, <1>6 DEF Shared, PerBlock
<1> QED
  BY <1>5, <1>7, <1>8 DEF mine

LEMMA ChunkInvInit ==
    ASSUME PoolSizes, Chunks!Init
    PROVE  ChunkInv
<1>1. ChunkSizesFit
  <2>1. PICK s \in Shapes :
           /\ m_chunkSize = s[1] + Chunks!SizeofNode
           /\ m_blockCap = Chunks!alignUpPO2(s[2], s[1] + Chunks!SizeofNode)
    BY DEF Chunks!Init
  <2> QED
    BY <2>1 DEF PoolSizes, ChunkSizesFit, Chunks!SizeofNode, Chunks!SizeofBlock
<1> DEFINE x == Chunks!allocBlock(m_blockCap, m_chunkSize)
<1>2. chain = <<x>> /\ chunks = {} /\ badPointer = FALSE
  BY DEF Chunks!Init
<1>3. x \in ChainBlock /\ Shared(x, {})
  BY <1>1, NewBlock
<1> HIDE DEF x
<1>4. chain \in Seq(ChainBlock) /\ Len(chain) = 1 /\ chain[1] = x
  BY <1>2, <1>3
<1>5. Mine(1) = {}
  BY <1>2 DEF Mine
<1> QED
  BY <1>1, <1>2, <1>3, <1>4, <1>5 DEF ChunkInv

(* The first block with room, if there is one, has room.                    *)
LEMMA FindsRoom ==
    ASSUME NEW i, i = Chunks!SelectInSeq(chain, Chunks!HasRoom), i # 0
    PROVE  i \in 1..Len(chain) /\ Chunks!HasRoom(chain[i])
<1> DEFINE I == {k \in 1..Len(chain) : Chunks!HasRoom(chain[k])}
<1>1. i = IF I # {} THEN Chunks!Min(I) ELSE 0
  BY DEF Chunks!SelectInSeq
<1>2. I # {} /\ I \in SUBSET Nat
  BY <1>1
<1>3. \E a \in I : \A c \in I : a <= c
  <2> HIDE DEF I
  <2> QED
    BY <1>2, NatMin
<1>4. i \in I
  <2> HIDE DEF I
  <2> QED
    BY <1>1, <1>2, <1>3 DEF Chunks!Min
<1> QED
  BY <1>4

(* A chunk of block k of the chain c becomes the client's.                  *)
LEMMA ChunkLeaves ==
    ASSUME ChunkSizesFit, NEW c \in Seq(ChainBlock), NEW k \in 1..Len(c), c[k].head # <<>>,
           chunks \subseteq (1..Len(c)) \X Nat,
           \A b \in 1..Len(c) : Shared(c[b], Mine(b)),
           chain' = ChainWith(c, k, Tail(c[k].head), c[k].used + m_chunkSize),
           chunks' = chunks \cup {<<k, Head(c[k].head)>>},
           badPointer => ~LongChunks, UNCHANGED <<m_chunkSize, m_blockCap, badPointer>>
    PROVE  ChunkInv'
<1> DEFINE x == c[k]
           h == Head(x.head)
           y == chain'[k]
           rest == Tail(x.head)
           more == x.used + m_chunkSize
<1>1. x \in ChainBlock /\ x.head \in Seq(Nat) /\ x.used \in Int /\ m_chunkSize \in Int
  BY BlockOf, BlockHasChunks
<1>2. rest \in Seq(Nat) /\ more \in Int
  BY <1>1
<1>3. chain' = ChainWith(c, k, rest, more)
  OBVIOUS
<1> HIDE DEF rest, more
<1>4. y \in ChainBlock /\ y.head = rest /\ y.used = more
  BY <1>2, <1>3, BlockChanges
<1>5. /\ chain' \in Seq(ChainBlock) /\ Len(chain') = Len(c)
      /\ \A b \in 1..Len(c) : b # k => chain'[b] = c[b]
  BY <1>2, <1>3, BlockChanges
<1>6. h \in Nat /\ Shared(y, Mine(k) \cup {h})
  BY <1>1, <1>4, ChunkTaken DEF rest, more
<1> HIDE DEF x, h, y
<1>7. chunks' = chunks \cup {<<k, h>>}
  BY DEF h, x
<1>8. Mine(k)' = Mine(k) \cup {h} /\ \A b \in 1..Len(c) : b # k => Mine(b)' = Mine(b)
  BY <1>6, <1>7 DEF Mine
<1>9. \A b \in 1..Len(chain') : Shared(chain'[b], Mine(b)')
  BY <1>5, <1>6, <1>8 DEF y
<1>10. ASSUME NEW b \in 1..Len(chain')
       PROVE  Shared(chain[b], Mine(b))'
  BY <1>9 DEF Shared, PerBlock
<1>11. chunks' \subseteq (1..Len(chain')) \X Nat
  BY <1>5, <1>6, <1>7
<1>12. ChunkSizesFit' /\ (badPointer' => ~LongChunks')
  BY DEF ChunkSizesFit, LongChunks
<1> QED
  BY <1>5, <1>10, <1>11, <1>12 DEF ChunkInv, ChainBlock

LEMMA ChunkMalloc ==
    ASSUME ChunkInv, Chunks!malloc
    PROVE  ChunkInv'
<1> DEFINE i == Chunks!SelectInSeq(chain, Chunks!HasRoom)
           x == Chunks!allocBlock(m_blockCap, m_chunkSize)
           c == IF i # 0 THEN chain ELSE Append(chain, x)
           k == IF i # 0 THEN i ELSE Len(c)
<1>1. /\ ChunkSizesFit /\ chain \in Seq(ChainBlock) /\ Len(chain) \in Nat
      /\ chunks \subseteq (1..Len(chain)) \X Nat /\ (badPointer => ~LongChunks)
      /\ \A b \in 1..Len(chain) : Shared(chain[b], Mine(b))
  BY DEF ChunkInv
<1>2. /\ chain' = ChainWith(c, k, Tail(c[k].head), c[k].used + m_chunkSize)
      /\ chunks' = chunks \cup {<<k, Head(c[k].head)>>}
      /\ UNCHANGED <<m_chunkSize, m_blockCap, badPointer>>
  BY <1>1 DEF Chunks!malloc, ChainWith
<1> HIDE DEF i
<1>3. /\ c \in Seq(ChainBlock) /\ k \in 1..Len(c) /\ c[k].head # <<>>
      /\ chunks \subseteq (1..Len(c)) \X Nat
      /\ \A b \in 1..Len(c) : Shared(c[b], Mine(b))
  <2>1. CASE i # 0
    <3>1. i \in 1..Len(chain) /\ Chunks!HasRoom(chain[i])
      BY <2>1, FindsRoom DEF i
    <3>2. chain[i] \in ChainBlock /\ Shared(chain[i], Mine(i))
      BY <1>1, <3>1
    <3>3. chain[i].head # <<>>
      BY <1>1, <3>1, <3>2, RoomIsFree
    <3> QED
      BY <1>1, <2>1, <3>1, <3>3
  <2>2. CASE i = 0
    <3>1. x \in ChainBlock /\ Shared(x, {})
      BY <1>1, NewBlock
    <3> HIDE DEF x
    <3>2. /\ c = Append(chain, x) /\ c \in Seq(ChainBlock) /\ Len(c) = Len(chain) + 1
          /\ k = Len(c) /\ k \in 1..Len(c) /\ c[k] = x
          /\ \A b \in 1..Len(chain) : c[b] = chain[b]
      BY <1>1, <2>2, <3>1
    <3>3. Mine(k) = {}
      BY <1>1, <3>2 DEF Mine
    <3>4. Chunks!HasRoom(x)
      <4>1. x.used = 0
        BY DEF x, Chunks!allocBlock
      <4> QED
        BY <1>1, <4>1 DEF Chunks!HasRoom, ChunkSizesFit
    <3>5. x.head # <<>>
      BY <1>1, <3>1, <3>4, RoomIsFree
    <3>6. chunks \subseteq (1..Len(c)) \X Nat
      BY <1>1, <3>2
    <3>7. \A b \in 1..Len(c) : b = k \/ b \in 1..Len(chain)
      BY <1>1, <3>2
    <3>8. \A b \in 1..Len(c) : Shared(c[b], Mine(b))
      BY <1>1, <3>1, <3>2, <3>3, <3>7
    <3> QED
      BY <3>2, <3>5, <3>6, <3>8
  <2> QED
    BY <2>1, <2>2
<1> HIDE DEF c, k
<1> QED
  BY <1>1, <1>2, <1>3, ChunkLeaves

LEMMA ChunkFree ==
    ASSUME ChunkInv, NEW b, NEW c, Chunks!free(b, c)
    PROVE  ChunkInv'
<1> DEFINE x == chain[b]
           y == chain'[b]
           more == <<c>> \o x.head
           less == x.used - m_chunkSize
<1>1. /\ ChunkSizesFit /\ chain \in Seq(ChainBlock) /\ Len(chain) \in Nat
      /\ chunks \subseteq (1..Len(chain)) \X Nat /\ (badPointer => ~LongChunks)
      /\ \A d \in 1..Len(chain) : Shared(chain[d], Mine(d))
  BY DEF ChunkInv
<1>2. <<b, c>> \in chunks /\ chunks' = chunks \ {<<b, c>>}
  BY DEF Chunks!free
<1>3. b \in 1..Len(chain) /\ c \in Nat /\ c \in Mine(b)
  BY <1>1, <1>2 DEF Mine
<1>4. Shared(x, Mine(b)) /\ x \in ChainBlock /\ x.head \in Seq(Nat) /\ x.used \in Int
  BY <1>1, <1>3, BlockOf
<1>6. /\ chain' = ChainWith(chain, b, more, less)
      /\ UNCHANGED <<m_chunkSize, m_blockCap, badPointer>>
  BY <1>1 DEF Chunks!free, ChainWith
<1>7. m_chunkSize \in Int /\ <<c>> \in Seq(Nat)
  BY <1>1, <1>3, BlockHasChunks
<1>8. more \in Seq(Nat) /\ less \in Int
  BY <1>4, <1>7
<1> HIDE DEF more, less
<1>9. y \in ChainBlock /\ y.head = more /\ y.used = less
  BY <1>1, <1>3, <1>6, <1>8, BlockChanges
<1>10. /\ chain' \in Seq(ChainBlock) /\ Len(chain') = Len(chain)
       /\ \A d \in 1..Len(chain) : d # b => chain'[d] = chain[d]
  BY <1>1, <1>3, <1>6, <1>8, BlockChanges
<1>11. Shared(y, Mine(b) \ {c})
  BY <1>1, <1>3, <1>4, <1>9, ChunkGiven DEF more, less
<1> HIDE DEF x, y
<1>12. /\ Mine(b)' = Mine(b) \ {c}
       /\ \A d \in 1..Len(chain) : d # b => Mine(d)' = Mine(d)
  BY <1>2 DEF Mine
<1>13. \A d \in 1..Len(chain') : Shared(chain'[d], Mine(d)')
  <2>1. Shared(chain'[b], Mine(b)')
    BY <1>11, <1>12 DEF y
  <2>2. \A d \in 1..Len(chain) : d # b => Shared(chain'[d], Mine(d)')
    BY <1>1, <1>10, <1>12
  <2> QED
    BY <1>10, <2>1, <2>2
<1>14. ASSUME NEW d \in 1..Len(chain')
       PROVE  Shared(chain[d], Mine(d))'
  BY <1>6, <1>13 DEF Shared, PerBlock
<1>15. chunks' \subseteq (1..Len(chain')) \X Nat
  BY <1>1, <1>2, <1>10
<1>16. ChunkSizesFit' /\ (badPointer' => ~LongChunks')
  BY <1>1, <1>6 DEF ChunkSizesFit, LongChunks
<1> QED
  BY <1>6, <1>10, <1>14, <1>15, <1>16 DEF ChunkInv, ChainBlock

(* Where free() finds no block the chunks are not long.                     *)
LEMMA ChunkFreeFails ==
    ASSUME ChunkInv, NEW b, NEW c, Chunks!freeFails(b, c)
    PROVE  ChunkInv'
<1>1. /\ ChunkSizesFit /\ chunks \subseteq (1..Len(chain)) \X Nat
      /\ \A d \in 1..Len(chain) : Shared(chain[d], Mine(d))
  BY DEF ChunkInv
<1>2. /\ <<b, c>> \in chunks /\ ~Chunks!InRange(c)
      /\ chain' = chain /\ chunks' = chunks /\ UNCHANGED <<m_chunkSize, m_blockCap>>
  BY DEF Chunks!freeFails
<1>3. b \in 1..Len(chain) /\ c \in Mine(b)
  BY <1>1, <1>2 DEF Mine
<1>4. c \in 0..(PerBlock - 1)
  BY <1>1, <1>3 DEF Shared
<1>5. ~LongChunks
  BY <1>1, <1>2, <1>4, ChunkInRange
<1>6. ASSUME NEW d \in 1..Len(chain')
      PROVE  Shared(chain[d], Mine(d))'
  <2>1. Mine(d)' = Mine(d)
    BY <1>2 DEF Mine
  <2>2. Shared(chain'[d], Mine(d)')
    BY <1>1, <1>2, <2>1
  <2> QED
    BY <1>2, <2>2 DEF Shared, PerBlock
<1>7. ChunkSizesFit' /\ (badPointer' => ~LongChunks')
  BY <1>1, <1>2, <1>5 DEF ChunkSizesFit, LongChunks
<1>8. /\ chain' \in Seq(ChainBlock)'
      /\ chunks' \subseteq (1..Len(chain')) \X Nat
  BY <1>1, <1>2 DEF ChunkInv, ChainBlock
<1> QED
  BY <1>6, <1>7, <1>8 DEF ChunkInv

LEMMA ChunkFreeAll ==
    ASSUME ChunkInv, Chunks!freeAll
    PROVE  ChunkInv'
<1>1. /\ chain' = <<>> /\ chunks' = {}
      /\ UNCHANGED <<m_chunkSize, m_blockCap, badPointer>>
  BY DEF Chunks!freeAll
<1>2. chain' \in Seq(ChainBlock) /\ Len(chain') = 0
  BY <1>1
<1>3. ChunkSizesFit' /\ (badPointer' => ~LongChunks')
  BY <1>1 DEF ChunkInv, ChunkSizesFit, LongChunks
<1> QED
  BY <1>1, <1>2, <1>3 DEF ChunkInv, ChainBlock

LEMMA ChunkStep ==
    ASSUME ChunkInv, Chunks!Next \/ UNCHANGED chunkVars
    PROVE  ChunkInv'
<1>1. CASE UNCHANGED chunkVars
  <2>1. /\ chain' = chain /\ chunks' = chunks /\ badPointer' = badPointer
        /\ m_chunkSize' = m_chunkSize /\ m_blockCap' = m_blockCap
    BY <1>1 DEF chunkVars
  <2> QED
    BY <2>1 DEF ChunkInv, ChunkSizesFit, LongChunks, ChainBlock, Shared, PerBlock, Mine
<1>2. CASE Chunks!malloc
  BY <1>2, ChunkMalloc
<1>3. CASE \E c \in chunks : Chunks!free(c[1], c[2])
  BY <1>3, ChunkFree
<1>4. CASE \E c \in chunks : Chunks!freeFails(c[1], c[2])
  BY <1>4, ChunkFreeFails
<1>5. CASE Chunks!freeAll
  BY <1>5, ChunkFreeAll
<1> QED
  BY <1>1, <1>2, <1>3, <1>4, <1>5 DEF Chunks!Next

(* PoolsAreSound: over inserting, reusing and removing, no two of a client's *)
(* handles are of the same slot and each has the client's value; and over    *)
(* any number of blocks, a chunk is the client's or on its block's list,    *)
(* once, and `used' counts what the client has.  free() finds the block of  *)
(* every chunk, for every shape whose last chunk, with what is left of the  *)
(* capacity behind it, is longer than the headers.                          *)
THEOREM PoolsStaySound == Spec => []PoolsAreSound
<1> DEFINE Inv == (part = "pool" => PoolInv) /\ (part = "chunks" => ChunkInv)
<1> USE PoolAssumption
<1>1. Init => Inv
  BY PoolInvInit, ChunkInvInit DEF Init
<1>2. Inv /\ [Next]_specVars => Inv'
  <2>1. SUFFICES ASSUME Inv, [Next]_specVars PROVE Inv'
    OBVIOUS
  <2>2. /\ part' = part
        /\ part = "pool" => Pool!Next \/ UNCHANGED poolVars
        /\ part = "chunks" => Chunks!Next \/ UNCHANGED chunkVars
    BY <2>1 DEF Next, specVars
  <2>3. ASSUME part = "pool" PROVE PoolInv'
    BY <2>1, <2>2, <2>3, PoolStep
  <2>4. ASSUME part = "chunks" PROVE ChunkInv'
    BY <2>1, <2>2, <2>4, ChunkStep
  <2> QED
    BY <2>2, <2>3, <2>4
<1>3. Inv => PoolsAreSound
  BY PoolInvHolds, ChunkInvHolds DEF PoolsAreSound
<1> QED
  BY <1>1, <1>2, <1>3, PTL DEF Spec
=============================================================================
