-------------------------- MODULE QueueSPSCProofs --------------------------
(***************************************************************************)
(* Proofs about QueueSPSC, for every capacity above one and any number of  *)
(* pushes: no thread touches a slot before it has seen what the other did  *)
(* to it, and the ring is a FIFO queue.                                    *)
(*                                                                         *)
(* Positions count for ever: the p-th value pushed, p from 0, is p + 1 and *)
(* goes to slot p % CAP. H and T are the positions of the head and of the  *)
(* tail. The (p+2)-nd store to the tail publishes the value at p, the      *)
(* (p+2)-nd store to the head gives its slot back.                         *)
(***************************************************************************)
EXTENDS QueueSPSC, ProofLemmas

H == Len(headMo) - 1

T == Len(tailMo) - 1

(* A view that misses nothing of what it rests on: whoever has seen a      *)
(* store has seen all that the store carries.                              *)
Closed(v, hs, ts, sl) ==
    /\ v \in View
    /\ v.head \in 1..Len(hs)
    /\ v.tail \in 1..Len(ts)
    /\ \A i \in Slots : v.slot[i] <= sl[i].ver
    /\ \A m \in 1..v.head, i \in Slots : hs[m].view.slot[i] <= v.slot[i]
    /\ \A m \in 1..v.tail, i \in Slots : ts[m].view.slot[i] <= v.slot[i]

ViewsAreClosed ==
    /\ \A t \in Threads : Closed(view[t], headMo, tailMo, slot)
    /\ Closed(lock.view, headMo, tailMo, slot)
    /\ \A m \in 1..Len(headMo) : Closed(headMo[m].view, headMo, tailMo, slot)
    /\ \A m \in 1..Len(tailMo) : Closed(tailMo[m].view, headMo, tailMo, slot)

(* The stores to an index go round the ring one by one.                    *)
StoresInOrder ==
    /\ \A m \in 1..Len(headMo) : headMo[m].val = (m - 1) % CAP /\ headMo[m].view.head = m
    /\ \A m \in 1..Len(tailMo) : tailMo[m].val = (m - 1) % CAP /\ tailMo[m].view.tail = m

Counts ==
    /\ Len(headMo) >= 1 /\ Len(tailMo) >= 1
    /\ T - H \in 0..(CAP - 1)
    /\ pushes = IF pc["producer"] = "storeTail" THEN T + 1 ELSE T
    /\ Len(popped) + bumps = H
    /\ bumps <= IF pc["producer"] = "write" THEN pushes + 1 ELSE pushes

(* From the head to the tail the slots hold values, the last access to     *)
(* each is the write that the store of the tail published.                 *)
FullSlots ==
    \A p \in H..(T - 1) :
        \/ p = H /\ pc["consumer"] = "storeHead"
        \/ /\ slot[p % CAP].val = p + 1
           /\ slot[p % CAP].ver = tailMo[p + 2].view.slot[p % CAP]

(* The last access to the other slots is one that a store of the head      *)
(* published, if there was one at all.                                     *)
EmptySlots ==
    \A p \in T..(H + CAP - 1) :
        \/ p = T /\ pc["producer"] = "storeTail"
        \/ p < CAP /\ slot[p % CAP].ver = 0
        \/ p >= CAP /\ slot[p % CAP].ver = headMo[p - CAP + 2].view.slot[p % CAP]

(* Knows the head, and the tail well enough to tell whether it is empty.   *)
Knows(v) == v.head = Len(headMo) /\ v.tail >= Len(headMo)

Producing ==
    /\ pc["producer"] \in {"idle", "bump", "bumpStore", "write", "storeTail"}
    /\ view["producer"].tail = Len(tailMo)
    /\ T + 1 - view["producer"].head \in 0..(CAP - 1)
    /\ pc["producer"] \notin {"idle", "storeTail"} => pushes < MaxPushes
    /\ pc["producer"] \in {"bump", "bumpStore"} =>
          /\ Forces = "locked" /\ lock.owner = "producer"
          /\ T - H = CAP - 1
    /\ pc["producer"] = "bumpStore" => reg["producer"] = H % CAP
    /\ pc["producer"] \in {"write", "storeTail"} =>
          /\ reg["producer"] = T % CAP
          /\ T + 1 - view["producer"].head <= CAP - 2
    /\ pc["producer"] = "storeTail" =>
          /\ slot[T % CAP].val = T + 1
          /\ slot[T % CAP].ver = view["producer"].slot[T % CAP]

Consuming ==
    /\ pc["consumer"] \in {"idle", "loadTail", "move", "storeHead"}
    /\ pc["consumer"] # "idle" =>
          /\ Knows(view["consumer"])
          /\ reg["consumer"] = H % CAP
          /\ Forces = "locked" => lock.owner = "consumer"
    /\ pc["consumer"] \in {"move", "storeHead"} => view["consumer"].tail >= H + 2
    /\ pc["consumer"] = "storeHead" =>
          /\ moved = H + 1
          /\ slot[H % CAP].ver = view["consumer"].slot[H % CAP]

Locking ==
    /\ Forces = "never" =>
          lock.owner = "none" /\ bumps = 0 /\ Knows(view["consumer"])
    /\ Forces = "locked" /\ lock.owner = "none" => Knows(lock.view)
    /\ Forces = "locked" /\ lock.owner = "producer" => Knows(view["producer"])

IInv ==
    /\ TypeOK
    /\ ViewsAreClosed
    /\ StoresInOrder
    /\ Counts
    /\ FullSlots
    /\ EmptySlots
    /\ Producing
    /\ Consuming
    /\ Locking

-----------------------------------------------------------------------------
(* Places in the ring                                                      *)

LEMMA SlotsAreIndices ==
    /\ CAP \in Nat \ {0} /\ MaxPushes \in Nat
    /\ \A p \in Nat : p % CAP \in Slots /\ nextI(p % CAP) = (p + 1) % CAP
    /\ 0 \in Slots /\ 0 % CAP = 0
<1>1. CAP \in Nat \ {0} /\ MaxPushes \in Nat
  BY CapAssumption, MaxPushesAssumption
<1>2. ASSUME NEW p \in Nat
      PROVE  p % CAP \in Slots /\ nextI(p % CAP) = (p + 1) % CAP
  <2>1. p % CAP \in Slots
    BY <1>1, DivMod DEF Slots
  <2>2. ((p % CAP) + 1) % CAP = (p + 1) % CAP
    <3>1. p \in Int /\ 1 \in Int
      OBVIOUS
    <3> QED
      BY <1>1, <3>1, ModAddMod
  <2> QED
    BY <2>1, <2>2 DEF nextI
<1>3. 0 \in Slots /\ 0 % CAP = 0
  <2>1. 0 = CAP * 0 + 0 /\ 0 \in 0..(CAP - 1)
    BY <1>1
  <2> QED
    BY <1>1, <2>1, ModIs DEF Slots
<1> QED
  BY <1>1, <1>2, <1>3

(* Positions less than CAP apart have slots of their own.                  *)
LEMMA SlotsApart ==
    ASSUME NEW p \in Nat, NEW q \in Nat, p < q, q < p + CAP
    PROVE  p % CAP # q % CAP
<1>1. SUFFICES ASSUME p % CAP = q % CAP PROVE FALSE
  OBVIOUS
<1>0. p <= q /\ p \in Int /\ q \in Int
  OBVIOUS
<1>2. p = q
  BY <1>0, <1>1, CapAssumption, ModInj, Zenon
<1> QED
  BY <1>2

-----------------------------------------------------------------------------
(* Views                                                                   *)

LEMMA JoinTyped ==
    ASSUME NEW v \in View, NEW w \in View
    PROVE  /\ Join(v, w) \in View
           /\ Join(v, w).head = Later(v.head, w.head)
           /\ Join(v, w).tail = Later(v.tail, w.tail)
           /\ \A i \in Slots : Join(v, w).slot[i] = Later(v.slot[i], w.slot[i])
BY DEF View, Join, Later

LEMMA JoinClosed ==
    ASSUME NEW hs, NEW ts, NEW sl, NEW v, NEW w,
           sl \in [Slots -> [val : Values \cup {NoValue}, ver : Nat]],
           Closed(v, hs, ts, sl), Closed(w, hs, ts, sl),
           \A m \in 1..Len(hs) : hs[m].view \in View,
           \A m \in 1..Len(ts) : ts[m].view \in View,
           Len(hs) \in Nat, Len(ts) \in Nat
    PROVE  Closed(Join(v, w), hs, ts, sl)
<1> DEFINE j == Join(v, w)
<1>0. v \in View /\ w \in View
  BY DEF Closed
<1>1. /\ j \in View /\ j.head = Later(v.head, w.head) /\ j.tail = Later(v.tail, w.tail)
      /\ \A i \in Slots : j.slot[i] = Later(v.slot[i], w.slot[i])
  BY <1>0, JoinTyped
<1> HIDE DEF j
<1>2. /\ v.head \in Nat /\ v.tail \in Nat /\ w.head \in Nat /\ w.tail \in Nat
      /\ \A i \in Slots : v.slot[i] \in Nat /\ w.slot[i] \in Nat
  BY <1>0 DEF View
<1>3. j.head \in 1..Len(hs) /\ j.tail \in 1..Len(ts)
  BY <1>1, <1>2 DEF Closed, Later
<1>4. \A i \in Slots : j.slot[i] <= sl[i].ver
  BY <1>1, <1>2 DEF Closed, Later
<1>5. ASSUME NEW m \in 1..j.head, NEW i \in Slots
      PROVE  hs[m].view.slot[i] <= j.slot[i]
  <2>1. hs[m].view.slot[i] \in Nat
    BY <1>3 DEF View
  <2>2. m \in 1..v.head \/ m \in 1..w.head
    BY <1>1, <1>2 DEF Later
  <2>3. hs[m].view.slot[i] <= v.slot[i] \/ hs[m].view.slot[i] <= w.slot[i]
    BY <2>2 DEF Closed
  <2> QED
    BY <1>1, <1>2, <2>1, <2>3 DEF Later
<1>6. ASSUME NEW m \in 1..j.tail, NEW i \in Slots
      PROVE  ts[m].view.slot[i] <= j.slot[i]
  <2>1. ts[m].view.slot[i] \in Nat
    BY <1>3 DEF View
  <2>2. m \in 1..v.tail \/ m \in 1..w.tail
    BY <1>1, <1>2 DEF Later
  <2>3. ts[m].view.slot[i] <= v.slot[i] \/ ts[m].view.slot[i] <= w.slot[i]
    BY <2>2 DEF Closed
  <2> QED
    BY <1>1, <1>2, <2>1, <2>3 DEF Later
<1>7. Closed(j, hs, ts, sl)
  BY <1>1, <1>3, <1>4, <1>5, <1>6 DEF Closed
<1> QED
  BY <1>7 DEF j

(* New stores and new accesses leave a view closed.                        *)
LEMMA ClosedKept ==
    ASSUME NEW hs, NEW ts, NEW sl, NEW hs2, NEW ts2, NEW sl2, NEW v,
           Closed(v, hs, ts, sl),
           sl \in [Slots -> [val : Values \cup {NoValue}, ver : Nat]],
           sl2 \in [Slots -> [val : Values \cup {NoValue}, ver : Nat]],
           Len(hs) \in Nat, Len(ts) \in Nat, Len(hs2) \in Nat, Len(ts2) \in Nat,
           Len(hs) <= Len(hs2), Len(ts) <= Len(ts2),
           \A m \in 1..Len(hs) : hs2[m] = hs[m],
           \A m \in 1..Len(ts) : ts2[m] = ts[m],
           \A i \in Slots : sl[i].ver <= sl2[i].ver
    PROVE  Closed(v, hs2, ts2, sl2)
<1>1. /\ v.head \in 1..Len(hs) /\ v.tail \in 1..Len(ts) /\ v \in View
      /\ \A i \in Slots : v.slot[i] \in Nat /\ v.slot[i] <= sl[i].ver
  BY DEF Closed, View
<1>2. \A i \in Slots : v.slot[i] <= sl2[i].ver
  BY <1>1
<1>3. ASSUME NEW m \in 1..v.head, NEW i \in Slots
      PROVE  hs2[m].view.slot[i] <= v.slot[i]
  <2>1. m \in 1..Len(hs)
    BY <1>1
  <2> QED
    BY <2>1 DEF Closed
<1>4. ASSUME NEW m \in 1..v.tail, NEW i \in Slots
      PROVE  ts2[m].view.slot[i] <= v.slot[i]
  <2>1. m \in 1..Len(ts)
    BY <1>1
  <2> QED
    BY <2>1 DEF Closed
<1> QED
  BY <1>1, <1>2, <1>3, <1>4 DEF Closed

(* A thread that has seen every store to an index may make the next one.   *)
LEMMA ClosedByHeadStore ==
    ASSUME NEW hs \in Seq(Message), NEW ts, NEW sl, NEW v, NEW x \in Slots,
           Closed(v, hs, ts, sl), v.head = Len(hs)
    PROVE  LET w == [v EXCEPT !.head = Len(hs) + 1]
           IN  /\ Closed(w, Append(hs, [val |-> x, view |-> w]), ts, sl)
               /\ Append(hs, [val |-> x, view |-> w]) \in Seq(Message)
<1> DEFINE w == [v EXCEPT !.head = Len(hs) + 1]
           hs2 == Append(hs, [val |-> x, view |-> w])
<1>1. v \in View /\ Len(hs) \in Nat
  BY DEF Closed
<1>2. w \in View /\ w.head = Len(hs) + 1 /\ w.tail = v.tail /\ w.slot = v.slot
  BY <1>1 DEF View
<1> HIDE DEF w
<1>3. /\ hs2 \in Seq(Message) /\ Len(hs2) = Len(hs) + 1
      /\ \A m \in 1..Len(hs) : hs2[m] = hs[m]
      /\ hs2[Len(hs) + 1].view = w
  BY <1>1, <1>2 DEF Message
<1> HIDE DEF hs2
<1>4. ASSUME NEW m \in 1..w.head, NEW i \in Slots
      PROVE  hs2[m].view.slot[i] <= w.slot[i]
  <2>1. CASE m = Len(hs) + 1
    <3>1. w.slot[i] \in Nat
      BY <1>2 DEF View
    <3> QED
      BY <1>3, <2>1, <3>1
  <2>2. CASE m # Len(hs) + 1
    <3>1. m \in 1..v.head
      BY <1>1, <1>2, <2>2
    <3> QED
      BY <1>2, <1>3, <3>1 DEF Closed
  <2> QED
    BY <2>1, <2>2
<1>5. Closed(w, hs2, ts, sl)
  BY <1>1, <1>2, <1>3, <1>4 DEF Closed
<1> QED
  BY <1>3, <1>5 DEF w, hs2

LEMMA ClosedByTailStore ==
    ASSUME NEW hs, NEW ts \in Seq(Message), NEW sl, NEW v, NEW x \in Slots,
           Closed(v, hs, ts, sl), v.tail = Len(ts)
    PROVE  LET w == [v EXCEPT !.tail = Len(ts) + 1]
           IN  /\ Closed(w, hs, Append(ts, [val |-> x, view |-> w]), sl)
               /\ Append(ts, [val |-> x, view |-> w]) \in Seq(Message)
<1> DEFINE w == [v EXCEPT !.tail = Len(ts) + 1]
           ts2 == Append(ts, [val |-> x, view |-> w])
<1>1. v \in View /\ Len(ts) \in Nat
  BY DEF Closed
<1>2. w \in View /\ w.tail = Len(ts) + 1 /\ w.head = v.head /\ w.slot = v.slot
  BY <1>1 DEF View
<1> HIDE DEF w
<1>3. /\ ts2 \in Seq(Message) /\ Len(ts2) = Len(ts) + 1
      /\ \A m \in 1..Len(ts) : ts2[m] = ts[m]
      /\ ts2[Len(ts) + 1].view = w
  BY <1>1, <1>2 DEF Message
<1> HIDE DEF ts2
<1>4. ASSUME NEW m \in 1..w.tail, NEW i \in Slots
      PROVE  ts2[m].view.slot[i] <= w.slot[i]
  <2>1. CASE m = Len(ts) + 1
    <3>1. w.slot[i] \in Nat
      BY <1>2 DEF View
    <3> QED
      BY <1>3, <2>1, <3>1
  <2>2. CASE m # Len(ts) + 1
    <3>1. m \in 1..v.tail
      BY <1>1, <1>2, <2>2
    <3> QED
      BY <1>2, <1>3, <3>1 DEF Closed
  <2> QED
    BY <2>1, <2>2
<1>5. Closed(w, hs, ts2, sl)
  BY <1>1, <1>2, <1>3, <1>4 DEF Closed
<1> QED
  BY <1>3, <1>5 DEF w, ts2

(* Touching a slot.                                                        *)
LEMMA ClosedByTouch ==
    ASSUME NEW hs, NEW ts, NEW sl, NEW sl2, NEW v, NEW i \in Slots, NEW n \in Nat,
           Closed(v, hs, ts, sl),
           \A m \in 1..Len(hs) : hs[m].view \in View,
           \A m \in 1..Len(ts) : ts[m].view \in View,
           sl \in [Slots -> [val : Values \cup {NoValue}, ver : Nat]],
           sl2 \in [Slots -> [val : Values \cup {NoValue}, ver : Nat]],
           \A j \in Slots : sl[j].ver <= sl2[j].ver,
           sl[i].ver <= n, n <= sl2[i].ver,
           Len(hs) \in Nat, Len(ts) \in Nat
    PROVE  Closed([v EXCEPT !.slot[i] = n], hs, ts, sl2)
<1> DEFINE w == [v EXCEPT !.slot[i] = n]
<1>1. /\ v \in View /\ v.head \in 1..Len(hs) /\ v.tail \in 1..Len(ts)
      /\ \A j \in Slots : v.slot[j] \in Nat /\ v.slot[j] <= sl[j].ver
  BY DEF Closed, View
<1>2. /\ w \in View /\ w.head = v.head /\ w.tail = v.tail
      /\ w.slot[i] = n /\ \A j \in Slots : j # i => w.slot[j] = v.slot[j]
  BY <1>1 DEF View
<1> HIDE DEF w
<1>0. \A j \in Slots : sl[j].ver \in Nat /\ sl2[j].ver \in Nat
  OBVIOUS
<1>3. ASSUME NEW j \in Slots
      PROVE  v.slot[j] <= w.slot[j] /\ w.slot[j] \in Nat /\ w.slot[j] <= sl2[j].ver
  <2>1. CASE j = i
    BY <1>0, <1>1, <1>2, <2>1
  <2>2. CASE j # i
    <3>1. w.slot[j] = v.slot[j]
      BY <1>2, <2>2
    <3> QED
      BY <1>0, <1>1, <3>1
  <2> QED
    BY <2>1, <2>2
<1>4. \A j \in Slots : w.slot[j] <= sl2[j].ver
  BY <1>3
<1>5. ASSUME NEW m \in 1..w.head, NEW j \in Slots
      PROVE  hs[m].view.slot[j] <= w.slot[j]
  <2>1. hs[m].view.slot[j] \in Nat /\ hs[m].view.slot[j] <= v.slot[j]
    BY <1>1, <1>2 DEF Closed, View
  <2> QED
    BY <1>1, <1>3, <2>1
<1>6. ASSUME NEW m \in 1..w.tail, NEW j \in Slots
      PROVE  ts[m].view.slot[j] <= w.slot[j]
  <2>1. ts[m].view.slot[j] \in Nat /\ ts[m].view.slot[j] <= v.slot[j]
    BY <1>1, <1>2, SMTT(30) DEF Closed, View
  <2> QED
    BY <1>1, <1>3, <2>1, SMTT(30)
<1>7. Closed(w, hs, ts, sl2)
  BY <1>1, <1>2, <1>4, <1>5, <1>6 DEF Closed
<1> QED
  BY <1>7 DEF w

-----------------------------------------------------------------------------
(* What the invariant says of the types                                    *)

LEMMA Facts ==
    ASSUME IInv
    PROVE  /\ Len(headMo) \in Nat \ {0} /\ Len(tailMo) \in Nat \ {0}
           /\ H \in Nat /\ T \in Nat /\ H <= T /\ T <= H + CAP - 1
           /\ Len(headMo) = H + 1 /\ Len(tailMo) = T + 1
           /\ \A m \in 1..Len(headMo) : headMo[m] \in Message /\ headMo[m].view \in View
           /\ \A m \in 1..Len(tailMo) : tailMo[m] \in Message /\ tailMo[m].view \in View
           /\ OwnTail = T % CAP /\ headMo[Len(headMo)].val = H % CAP
           /\ view["producer"] \in View /\ view["consumer"] \in View /\ lock.view \in View
           /\ view["producer"].head \in 1..(H + 1)
           /\ view["consumer"].tail \in 1..(T + 1)
<1>0. CAP \in Nat \ {0}
  BY CapAssumption
<1>1. Len(headMo) \in Nat \ {0} /\ Len(tailMo) \in Nat \ {0}
  BY DEF IInv, TypeOK, Counts
<1>2. H \in Nat /\ T \in Nat /\ Len(headMo) = H + 1 /\ Len(tailMo) = T + 1
  BY <1>1 DEF H, T
<1>3. H <= T /\ T <= H + CAP - 1
  BY <1>0, <1>2 DEF IInv, Counts
<1>4. ASSUME NEW m \in 1..Len(headMo)
      PROVE  headMo[m] \in Message /\ headMo[m].view \in View
  <2>1. headMo[m] \in Message
    BY <1>1, ElementOfSeq DEF IInv, TypeOK
  <2> QED
    BY <2>1 DEF Message
<1>5. ASSUME NEW m \in 1..Len(tailMo)
      PROVE  tailMo[m] \in Message /\ tailMo[m].view \in View
  <2>1. tailMo[m] \in Message
    BY <1>1, ElementOfSeq DEF IInv, TypeOK
  <2> QED
    BY <2>1 DEF Message
<1>6. OwnTail = T % CAP /\ headMo[Len(headMo)].val = H % CAP
  <2>1. Len(tailMo) \in 1..Len(tailMo) /\ Len(headMo) \in 1..Len(headMo)
    BY <1>1
  <2> QED
    BY <2>1 DEF IInv, StoresInOrder, OwnTail, H, T
<1>7. view["producer"] \in View /\ view["consumer"] \in View /\ lock.view \in View
  BY DEF IInv, TypeOK, Threads
<1>8. view["producer"].head \in 1..(H + 1) /\ view["consumer"].tail \in 1..(T + 1)
  BY <1>2 DEF IInv, ViewsAreClosed, Closed, Threads
<1> QED
  BY <1>1, <1>2, <1>3, <1>4, <1>5, <1>6, <1>7, <1>8

LEMMA Bounds ==
    ASSUME IInv
    PROVE  /\ CAP \in Nat /\ CAP >= 1
           /\ H \in Nat /\ T \in Nat /\ H <= T /\ T <= H + CAP - 1
           /\ Len(headMo) = H + 1 /\ Len(tailMo) = T + 1
           /\ view["producer"].head \in Nat
           /\ 1 <= view["producer"].head /\ view["producer"].head <= H + 1
           /\ view["consumer"].tail \in Nat /\ view["consumer"].tail <= T + 1
BY Facts, CapAssumption

(* What is left of the room the producer last saw: arithmetic, stated      *)
(* apart from the state.                                                   *)
LEMMA RoomShrinks ==
    ASSUME NEW t \in Nat, NEW c \in Nat, NEW h \in Nat, NEW m \in Nat,
           t + 1 - h \in 0..(c - 1), h <= m, 1 <= m, m <= t + 1
    PROVE  t + 1 - m \in 0..(c - 1) /\ m - 1 \in Nat
OBVIOUS

LEMMA RoomIsUsed ==
    ASSUME NEW t \in Nat, NEW c \in Nat, NEW h \in Nat,
           h <= t + 1, t + 1 - h <= c - 2
    PROVE  t + 1 + 1 - h \in 0..(c - 1)
OBVIOUS

(* A view taken over from a message.                                       *)
LEMMA TakeOver ==
    ASSUME IInv, NEW v, Closed(v, headMo, tailMo, slot)
    PROVE  /\ \A m \in 1..Len(headMo) :
                 LET w == Join(v, [headMo[m].view EXCEPT !.head = m])
                 IN  /\ Closed(w, headMo, tailMo, slot)
                     /\ w.head = Later(v.head, m)
                     /\ v.tail = Len(tailMo) => w.tail = Len(tailMo)
           /\ \A m \in 1..Len(tailMo) :
                 LET w == Join(v, [tailMo[m].view EXCEPT !.tail = m])
                 IN  /\ Closed(w, headMo, tailMo, slot)
                     /\ w.tail = Later(v.tail, m)
                     /\ v.head = Len(headMo) => w.head = Len(headMo)
           /\ LET w == Join(v, lock.view)
              IN  /\ Closed(w, headMo, tailMo, slot)
                  /\ w.head = Later(v.head, lock.view.head)
                  /\ w.tail = Later(v.tail, lock.view.tail)
                  /\ v.tail = Len(tailMo) => w.tail = Len(tailMo)
<1>1. /\ slot \in [Slots -> [val : Values \cup {NoValue}, ver : Nat]]
      /\ Len(headMo) \in Nat /\ Len(tailMo) \in Nat
      /\ \A m \in 1..Len(headMo) : headMo[m].view \in View
      /\ \A m \in 1..Len(tailMo) : tailMo[m].view \in View
  BY Facts DEF IInv, TypeOK
<1>2. v \in View /\ v.head \in 1..Len(headMo) /\ v.tail \in 1..Len(tailMo)
  BY DEF Closed
<1>3. ASSUME NEW w, Closed(w, headMo, tailMo, slot)
      PROVE  /\ Closed(Join(v, w), headMo, tailMo, slot)
             /\ Join(v, w).head = Later(v.head, w.head)
             /\ Join(v, w).tail = Later(v.tail, w.tail)
             /\ v.head = Len(headMo) => Join(v, w).head = Len(headMo)
             /\ v.tail = Len(tailMo) => Join(v, w).tail = Len(tailMo)
  <2>1. Closed(Join(v, w), headMo, tailMo, slot)
    BY <1>1, <1>3, JoinClosed
  <2>2. w \in View /\ w.head \in 1..Len(headMo) /\ w.tail \in 1..Len(tailMo)
    BY <1>3 DEF Closed
  <2>3. Join(v, w).head = Later(v.head, w.head) /\ Join(v, w).tail = Later(v.tail, w.tail)
    BY <1>2, <2>2, JoinTyped
  <2> QED
    BY <1>1, <1>2, <2>1, <2>2, <2>3 DEF Later
<1>4. ASSUME NEW m \in 1..Len(headMo)
      PROVE  LET w == Join(v, [headMo[m].view EXCEPT !.head = m])
             IN  /\ Closed(w, headMo, tailMo, slot)
                 /\ w.head = Later(v.head, m)
                 /\ v.tail = Len(tailMo) => w.tail = Len(tailMo)
  <2>1. headMo[m].view.head = m /\ headMo[m].view \in View
    BY <1>1 DEF IInv, StoresInOrder
  <2>2. [headMo[m].view EXCEPT !.head = m] = headMo[m].view
    BY <2>1 DEF View
  <2>3. Closed(headMo[m].view, headMo, tailMo, slot)
    BY DEF IInv, ViewsAreClosed
  <2> QED
    BY <1>3, <2>1, <2>2, <2>3
<1>5. ASSUME NEW m \in 1..Len(tailMo)
      PROVE  LET w == Join(v, [tailMo[m].view EXCEPT !.tail = m])
             IN  /\ Closed(w, headMo, tailMo, slot)
                 /\ w.tail = Later(v.tail, m)
                 /\ v.head = Len(headMo) => w.head = Len(headMo)
  <2>1. tailMo[m].view.tail = m /\ tailMo[m].view \in View
    BY <1>1 DEF IInv, StoresInOrder
  <2>2. [tailMo[m].view EXCEPT !.tail = m] = tailMo[m].view
    BY <2>1 DEF View
  <2>3. Closed(tailMo[m].view, headMo, tailMo, slot)
    BY DEF IInv, ViewsAreClosed
  <2> QED
    BY <1>3, <2>1, <2>2, <2>3
<1>6. Closed(lock.view, headMo, tailMo, slot)
  BY DEF IInv, ViewsAreClosed
<1> QED
  BY <1>3, <1>4, <1>5, <1>6

(* Steps that only look.                                                   *)
LEMMA LookingKeeps ==
    ASSUME IInv, UNCHANGED <<headMo, tailMo, slot, moved, pushes, bumps, popped>>,
           \A t \in Threads : Closed(view'[t], headMo, tailMo, slot),
           Closed(lock'.view, headMo, tailMo, slot),
           pc'["consumer"] = "storeHead" <=> pc["consumer"] = "storeHead",
           pc'["producer"] = "storeTail" <=> pc["producer"] = "storeTail"
    PROVE  ViewsAreClosed' /\ StoresInOrder' /\ FullSlots' /\ EmptySlots'
<1>1. ViewsAreClosed'
  BY DEF IInv, ViewsAreClosed
<1>2. StoresInOrder'
  BY DEF IInv, StoresInOrder
<1>3. H' = H /\ T' = T
  BY DEF H, T
<1>4. FullSlots'
  BY <1>3 DEF IInv, FullSlots
<1>5. EmptySlots'
  BY <1>3 DEF IInv, EmptySlots
<1> QED
  BY <1>1, <1>2, <1>4, <1>5

-----------------------------------------------------------------------------
(* The producer's steps                                                    *)

LEMMA PushFindsFacts ==
    ASSUME IInv, NEW m \in 1..Len(headMo), NEW n \in {"idle", "write", "bump"},
           NEW seen, Closed(seen, headMo, tailMo, slot), seen.tail = Len(tailMo),
           PushFinds(m, seen, n)
    PROVE  /\ view' \in [Threads -> View] /\ view'["consumer"] = view["consumer"]
           /\ Closed(view'["producer"], headMo, tailMo, slot)
           /\ view'["producer"].head = m /\ view'["producer"].tail = Len(tailMo)
           /\ reg' \in [Threads -> Slots] /\ reg'["producer"] = T % CAP
           /\ reg'["consumer"] = reg["consumer"]
           /\ pc'["producer"] = n /\ pc'["consumer"] = pc["consumer"]
           /\ pc' \in [Threads -> {"idle", "bump", "bumpStore", "write", "storeTail",
                                   "loadTail", "move", "storeHead"}]
           /\ pc["producer"] = "idle" /\ pushes < MaxPushes /\ seen.head <= m
<1> DEFINE w == Join(seen, [headMo[m].view EXCEPT !.head = m])
<1>1. Closed(w, headMo, tailMo, slot) /\ w.head = Later(seen.head, m) /\ w.tail = Len(tailMo)
  BY TakeOver
<1>2. view' = [view EXCEPT !["producer"] = w]
  BY DEF PushFinds
<1> HIDE DEF w
<1>3. w \in View /\ seen.head \in Nat
  BY <1>1, Facts DEF Closed
<1>4. w.head = m /\ seen.head <= m
  BY <1>1, <1>3 DEF PushFinds, Later
<1>5. view \in [Threads -> View] /\ "producer" \in Threads /\ "consumer" \in Threads
  BY DEF IInv, TypeOK, Threads
<1>6. T % CAP \in Slots /\ OwnTail = T % CAP
  BY Facts, SlotsAreIndices
<1> QED
  BY <1>1, <1>2, <1>3, <1>4, <1>5, <1>6 DEF IInv, TypeOK, PushFinds

LEMMA PushRefusedKeeps ==
    ASSUME IInv, PushRefused
    PROVE  IInv'
<1>0. PICK m \in 1..Len(headMo) : SeesFull(m) /\ PushFinds(m, view["producer"], "idle")
  BY DEF PushRefused
<1>1. Closed(view["producer"], headMo, tailMo, slot) /\ view["producer"].tail = Len(tailMo)
  BY DEF IInv, ViewsAreClosed, Producing, Threads
<1>2. /\ view' \in [Threads -> View] /\ view'["consumer"] = view["consumer"]
      /\ Closed(view'["producer"], headMo, tailMo, slot)
      /\ view'["producer"].head = m /\ view'["producer"].tail = Len(tailMo)
      /\ reg' \in [Threads -> Slots] /\ reg'["producer"] = T % CAP
      /\ reg'["consumer"] = reg["consumer"]
      /\ pc'["producer"] = "idle" /\ pc'["consumer"] = pc["consumer"]
      /\ pc' \in [Threads -> {"idle", "bump", "bumpStore", "write", "storeTail",
                              "loadTail", "move", "storeHead"}]
      /\ pc["producer"] = "idle" /\ pushes < MaxPushes /\ view["producer"].head <= m
  BY <1>0, <1>1, PushFindsFacts
<1>3. UNCHANGED <<headMo, tailMo, slot, moved, pushes, bumps, popped, lock>>
  BY <1>0 DEF PushRefused, PushFinds
<1>4. H' = H /\ T' = T
  BY <1>3 DEF H, T
<1>5. TypeOK'
  BY <1>2, <1>3 DEF IInv, TypeOK
<1>6. ViewsAreClosed' /\ StoresInOrder' /\ FullSlots' /\ EmptySlots'
  BY <1>2, <1>3, LookingKeeps DEF IInv, ViewsAreClosed, Threads
<1>7. Counts'
  BY <1>2, <1>3, <1>4 DEF IInv, Counts
<1>8. Producing'
  <2>0. T + 1 - view["producer"].head \in 0..(CAP - 1)
    BY DEF IInv, Producing
  <2>10. /\ H \in Nat /\ T \in Nat /\ CAP \in Nat /\ H <= T
        /\ m \in Nat /\ 1 <= m /\ m <= H + 1
        /\ view["producer"].head \in Nat /\ view["producer"].head <= m
    BY <1>0, <1>2, Bounds
  <2>11. m <= T + 1
    BY <2>10
  <2>1. T + 1 - m \in 0..(CAP - 1)
    BY <2>0, <2>10, <2>11, RoomShrinks
  <2> QED
    BY <1>2, <1>3, <1>4, <2>1 DEF Producing
<1>9. Consuming'
  BY <1>2, <1>3, <1>4 DEF IInv, Consuming, Knows
<1>10. Locking'
  BY <1>2, <1>3, Facts DEF IInv, Locking, Knows
<1> QED
  BY <1>5, <1>6, <1>7, <1>8, <1>9, <1>10 DEF IInv

LEMMA PushHasRoomKeeps ==
    ASSUME IInv, NEW m \in 1..Len(headMo), PushHasRoom(m)
    PROVE  IInv'
<1>1. Closed(view["producer"], headMo, tailMo, slot) /\ view["producer"].tail = Len(tailMo)
  BY DEF IInv, ViewsAreClosed, Producing, Threads
<1>2. /\ view' \in [Threads -> View] /\ view'["consumer"] = view["consumer"]
      /\ Closed(view'["producer"], headMo, tailMo, slot)
      /\ view'["producer"].head = m /\ view'["producer"].tail = Len(tailMo)
      /\ reg' \in [Threads -> Slots] /\ reg'["producer"] = T % CAP
      /\ reg'["consumer"] = reg["consumer"]
      /\ pc'["producer"] = "write" /\ pc'["consumer"] = pc["consumer"]
      /\ pc' \in [Threads -> {"idle", "bump", "bumpStore", "write", "storeTail",
                              "loadTail", "move", "storeHead"}]
      /\ pc["producer"] = "idle" /\ pushes < MaxPushes /\ view["producer"].head <= m
  BY <1>1, PushFindsFacts DEF PushHasRoom
<1>3. UNCHANGED <<headMo, tailMo, slot, moved, pushes, bumps, popped, lock>>
  BY DEF PushHasRoom, PushFinds
<1>4. H' = H /\ T' = T
  BY <1>3 DEF H, T
<1>5. TypeOK'
  BY <1>2, <1>3 DEF IInv, TypeOK
<1>6. ViewsAreClosed' /\ StoresInOrder' /\ FullSlots' /\ EmptySlots'
  BY <1>2, <1>3, LookingKeeps DEF IInv, ViewsAreClosed, Threads
<1>7. Counts'
  BY <1>2, <1>3, <1>4 DEF IInv, Counts, TypeOK
<1>8. Producing'
  <2>0. T + 1 - view["producer"].head \in 0..(CAP - 1)
    BY DEF IInv, Producing
  <2>10. /\ H \in Nat /\ T \in Nat /\ CAP \in Nat /\ H <= T
        /\ m \in Nat /\ 1 <= m /\ m <= H + 1
        /\ view["producer"].head \in Nat /\ view["producer"].head <= m
    BY <1>2, Bounds
  <2>11. m <= T + 1
    BY <2>10
  <2>1. T + 1 - m \in 0..(CAP - 1) /\ m - 1 \in Nat
    BY <2>0, <2>10, <2>11, RoomShrinks
  <2>2. (T + 1) % CAP # (m - 1) % CAP
    <3>1. OwnTail = T % CAP /\ headMo[m].val = (m - 1) % CAP
      BY Facts DEF IInv, StoresInOrder
    <3> QED
      BY <3>1, Facts, SlotsAreIndices DEF PushHasRoom, SeesFull
  <2>3. T + 1 # (m - 1) + CAP
    <3>1. m - 1 \in Int
      BY <2>1
    <3> QED
      BY <2>2, <3>1, ModAdd, CapAssumption
  <2>4. T + 1 - m <= CAP - 2
    <3>1. ASSUME NEW t \in Nat, NEW c \in Nat, NEW k \in Nat,
                 t + 1 - k \in 0..(c - 1), t + 1 # (k - 1) + c
          PROVE  t + 1 - k <= c - 2
      BY <3>1
    <3> QED
      BY <2>1, <2>3, <2>10, <3>1
  <2> QED
    BY <1>2, <1>3, <1>4, <2>1, <2>4 DEF Producing
<1>9. Consuming'
  BY <1>2, <1>3, <1>4 DEF IInv, Consuming, Knows
<1>10. Locking'
  BY <1>2, <1>3, Facts DEF IInv, Locking, Knows
<1> QED
  BY <1>5, <1>6, <1>7, <1>8, <1>9, <1>10 DEF IInv

(* What a thread knows when it has the lock, or needs none.                *)
LEMMA EntryKnows ==
    ASSUME IInv, NEW t \in Threads
    PROVE  /\ Closed(Entry(t), headMo, tailMo, slot)
           /\ view[t].tail = Len(tailMo) => Entry(t).tail = Len(tailMo)
           /\ Knows(lock.view) => Entry(t).head = Len(headMo) /\ Entry(t).tail >= Len(headMo)
           /\ Knows(view[t]) => Entry(t).head = Len(headMo) /\ Entry(t).tail >= Len(headMo)
<1>1. Closed(view[t], headMo, tailMo, slot)
  BY DEF IInv, ViewsAreClosed
<1>2. Closed(lock.view, headMo, tailMo, slot)
  BY DEF IInv, ViewsAreClosed
<1>3. /\ Closed(Entry(t), headMo, tailMo, slot)
      /\ Entry(t).head = Later(view[t].head, lock.view.head)
      /\ Entry(t).tail = Later(view[t].tail, lock.view.tail)
      /\ view[t].tail = Len(tailMo) => Entry(t).tail = Len(tailMo)
  BY <1>1, TakeOver DEF Entry
<1>4. /\ view[t].head \in 1..Len(headMo) /\ view[t].tail \in 1..Len(tailMo)
      /\ lock.view.head \in 1..Len(headMo) /\ lock.view.tail \in 1..Len(tailMo)
      /\ Len(headMo) \in Nat /\ Len(tailMo) \in Nat
  BY <1>1, <1>2, Facts DEF Closed
<1> QED
  BY <1>3, <1>4 DEF Knows, Later

LEMMA ForceFindsFullKeeps ==
    ASSUME IInv, Forces # "unlocked", ForceFindsFull
    PROVE  IInv'
<1>a. Forces = "locked" /\ lock.owner = "none" /\ lock' = [lock EXCEPT !.owner = "producer"]
  BY ForcesAssumption DEF ForceFindsFull, Acquires
<1>b. Entry("producer").head = Len(headMo) /\ Entry("producer").tail = Len(tailMo)
  BY <1>a, EntryKnows DEF IInv, Locking, Producing, Threads
<1>c. Closed(Entry("producer"), headMo, tailMo, slot)
  BY EntryKnows DEF Threads
<1>0. PICK m \in 1..Len(headMo) : SeesFull(m) /\ PushFinds(m, Entry("producer"), "bump")
  BY DEF ForceFindsFull
<1>2. /\ view' \in [Threads -> View] /\ view'["consumer"] = view["consumer"]
      /\ Closed(view'["producer"], headMo, tailMo, slot)
      /\ view'["producer"].head = m /\ view'["producer"].tail = Len(tailMo)
      /\ reg' \in [Threads -> Slots] /\ reg'["producer"] = T % CAP
      /\ reg'["consumer"] = reg["consumer"]
      /\ pc'["producer"] = "bump" /\ pc'["consumer"] = pc["consumer"]
      /\ pc' \in [Threads -> {"idle", "bump", "bumpStore", "write", "storeTail",
                              "loadTail", "move", "storeHead"}]
      /\ pc["producer"] = "idle" /\ pushes < MaxPushes /\ Entry("producer").head <= m
  BY <1>0, <1>b, <1>c, PushFindsFacts
<1>3. UNCHANGED <<headMo, tailMo, slot, moved, pushes, bumps, popped>>
  BY <1>0 DEF PushFinds
<1>4. H' = H /\ T' = T
  BY <1>3 DEF H, T
<1>d. m = H + 1
  BY <1>2, <1>b, Facts
<1>e. /\ lock' \in [owner : Threads \cup {"none"}, view : View]
      /\ lock'.owner = "producer" /\ lock'.view = lock.view
  BY <1>a DEF IInv, TypeOK, Threads
<1>f. pc["consumer"] = "idle"
  BY <1>a DEF IInv, Consuming
<1>5. TypeOK'
  BY <1>2, <1>3, <1>e DEF IInv, TypeOK
<1>6. ViewsAreClosed' /\ StoresInOrder' /\ FullSlots' /\ EmptySlots'
  <2>1. Closed(lock'.view, headMo, tailMo, slot)
    BY <1>e DEF IInv, ViewsAreClosed
  <2>2. \A t \in Threads : Closed(view'[t], headMo, tailMo, slot)
    BY <1>2 DEF IInv, ViewsAreClosed, Threads
  <2> QED
    BY <1>2, <1>3, <2>1, <2>2, LookingKeeps
<1>7. Counts'
  BY <1>2, <1>3, <1>4 DEF IInv, Counts, TypeOK
<1>8. Producing'
  <2>1. T + 1 - m \in 0..(CAP - 1)
    BY <1>d, Bounds
  <2>2. (T + 1) % CAP = H % CAP
    <3>1. OwnTail = T % CAP /\ headMo[m].val = H % CAP
      BY <1>d, Facts DEF IInv, StoresInOrder
    <3> QED
      BY <1>0, <3>1, Facts, SlotsAreIndices DEF SeesFull
  <2>3. ~(T + 1 < H + CAP)
    BY <2>2, Facts, SlotsApart
  <2>4. T - H = CAP - 1
    BY <2>3, Bounds
  <2> QED
    BY <1>a, <1>2, <1>3, <1>4, <1>e, <2>1, <2>4 DEF Producing
<1>9. Consuming'
  BY <1>2, <1>3, <1>4, <1>f DEF Consuming
<1>10. Locking'
  BY <1>a, <1>e, <1>2, <1>3, <1>d, Facts DEF Locking, Knows
<1> QED
  BY <1>5, <1>6, <1>7, <1>8, <1>9, <1>10 DEF IInv

LEMMA ForceLoadsHeadKeeps ==
    ASSUME IInv, ForceLoadsHead
    PROVE  IInv'
<1>1. /\ pc["producer"] = "bump" /\ pc' = [pc EXCEPT !["producer"] = "bumpStore"]
      /\ UNCHANGED <<headMo, tailMo, slot, moved, pushes, bumps, popped, lock>>
  BY DEF ForceLoadsHead
<1>2. /\ Forces = "locked" /\ lock.owner = "producer" /\ view["producer"].head = Len(headMo)
  BY <1>1 DEF IInv, Producing, Locking, Knows
<1>3. PICK m \in view["producer"].head..Len(headMo) :
          /\ view' = [view EXCEPT !["producer"].head = m]
          /\ reg' = [reg EXCEPT !["producer"] = headMo[m].val]
  BY DEF ForceLoadsHead
<1>4. m = Len(headMo) /\ view["producer"].head = m
  BY <1>2, <1>3, Facts
<1>5. view' = view
  <2>1. view \in [Threads -> View] /\ "producer" \in Threads
    BY DEF IInv, TypeOK, Threads
  <2>2. [view["producer"] EXCEPT !.head = m] = view["producer"]
    BY <1>4, <2>1 DEF View
  <2>3. view' = [view EXCEPT !["producer"] = [view["producer"] EXCEPT !.head = m]]
    BY <1>3
  <2> QED
    BY <2>1, <2>2, <2>3
<1>6. /\ reg' \in [Threads -> Slots] /\ reg'["producer"] = H % CAP
      /\ reg'["consumer"] = reg["consumer"]
  BY <1>3, <1>4, Facts, SlotsAreIndices DEF IInv, TypeOK, Threads
<1>7. /\ pc'["producer"] = "bumpStore" /\ pc'["consumer"] = pc["consumer"]
      /\ pc' \in [Threads -> {"idle", "bump", "bumpStore", "write", "storeTail",
                              "loadTail", "move", "storeHead"}]
  BY <1>1 DEF IInv, TypeOK, Threads
<1>8. H' = H /\ T' = T
  BY <1>1 DEF H, T
<1>9. TypeOK'
  BY <1>1, <1>5, <1>6, <1>7 DEF IInv, TypeOK
<1>10. ViewsAreClosed' /\ StoresInOrder' /\ FullSlots' /\ EmptySlots'
  BY <1>1, <1>5, <1>7, LookingKeeps DEF IInv, ViewsAreClosed
<1>11. Counts'
  BY <1>1, <1>7, <1>8 DEF IInv, Counts
<1>12. Producing'
  BY <1>1, <1>5, <1>6, <1>7, <1>8 DEF IInv, Producing
<1>13. Consuming'
  BY <1>1, <1>5, <1>6, <1>7, <1>8 DEF IInv, Consuming, Knows
<1>14. Locking'
  BY <1>1, <1>5 DEF IInv, Locking, Knows
<1> QED
  BY <1>9, <1>10, <1>11, <1>12, <1>13, <1>14 DEF IInv

(* Storing the head frees one more slot for the producer.                  *)
LEMMA HeadStored ==
    ASSUME IInv, NEW t \in Threads, NEW x,
           StoreHead(t, x), x = (H + 1) % CAP,
           view[t].head = Len(headMo), H < T,
           slot[H % CAP].ver = view[t].slot[H % CAP],
           UNCHANGED <<tailMo, slot>>,
           lock'.view \in {lock.view, view'[t]},
           pc'["consumer"] # "storeHead",
           pc["producer"] = "storeTail" => pc'["producer"] = "storeTail"
    PROVE  /\ ViewsAreClosed' /\ StoresInOrder' /\ FullSlots' /\ EmptySlots'
           /\ H' = H + 1 /\ T' = T
           /\ headMo' \in Seq(Message) /\ Len(headMo') = Len(headMo) + 1
           /\ view' \in [Threads -> View]
           /\ view'[t].head = Len(headMo) + 1 /\ view'[t].tail = view[t].tail
           /\ \A s \in Threads : s # t => view'[s] = view[s]
<1> DEFINE v == [view[t] EXCEPT !.head = Len(headMo) + 1]
<1>1. /\ headMo' = Append(headMo, [val |-> x, view |-> v])
      /\ view' = [view EXCEPT ![t] = v]
  BY DEF StoreHead
<1>2. x \in Slots /\ headMo \in Seq(Message) /\ view \in [Threads -> View]
  BY Facts, SlotsAreIndices DEF IInv, TypeOK
<1>3. /\ v \in View /\ v.head = Len(headMo) + 1 /\ v.tail = view[t].tail
      /\ v.slot = view[t].slot
  <2>1. Len(headMo) + 1 \in Nat /\ view[t] \in View
    BY <1>2, Bounds
  <2> QED
    BY <2>1 DEF View
<1>4. Closed(v, headMo', tailMo, slot) /\ headMo' \in Seq(Message)
  BY <1>1, <1>2, ClosedByHeadStore DEF IInv, ViewsAreClosed
<1> HIDE DEF v
<1>5. /\ Len(headMo') = Len(headMo) + 1
      /\ \A m \in 1..Len(headMo) : headMo'[m] = headMo[m]
      /\ headMo'[Len(headMo) + 1] = [val |-> x, view |-> v]
  BY <1>1, <1>2, Facts
<1>6. H' = H + 1 /\ T' = T
  BY <1>5, Facts DEF H, T
<1>7. /\ view' \in [Threads -> View] /\ view'[t] = v
      /\ \A s \in Threads : s # t => view'[s] = view[s]
  BY <1>1, <1>2, <1>3
<1>8. ASSUME NEW w, Closed(w, headMo, tailMo, slot)
      PROVE  Closed(w, headMo', tailMo, slot)
  <2>1. /\ slot \in [Slots -> [val : Values \cup {NoValue}, ver : Nat]]
        /\ \A i \in Slots : slot[i].ver <= slot[i].ver
    BY DEF IInv, TypeOK
  <2>2. Len(headMo) \in Nat /\ Len(tailMo) \in Nat /\ Len(headMo') \in Nat
        /\ Len(headMo) <= Len(headMo') /\ Len(tailMo) <= Len(tailMo)
    BY <1>5, Facts
  <2> QED
    BY <1>5, <1>8, <2>1, <2>2, ClosedKept
<1>9. ViewsAreClosed'
  <2>1. \A s \in Threads : Closed(view'[s], headMo', tailMo, slot)
    BY <1>4, <1>7, <1>8 DEF IInv, ViewsAreClosed
  <2>2. Closed(lock'.view, headMo', tailMo, slot)
    BY <1>4, <1>7, <1>8 DEF IInv, ViewsAreClosed
  <2>3. ASSUME NEW m \in 1..Len(headMo')
        PROVE  Closed(headMo'[m].view, headMo', tailMo, slot)
    <3>1. CASE m = Len(headMo) + 1
      BY <1>4, <1>5, <3>1
    <3>2. CASE m # Len(headMo) + 1
      <4>1. m \in 1..Len(headMo)
        BY <1>5, <3>2, Facts
      <4> QED
        BY <1>5, <1>8, <4>1 DEF IInv, ViewsAreClosed
    <3> QED
      BY <3>1, <3>2
  <2>4. \A m \in 1..Len(tailMo) : Closed(tailMo[m].view, headMo', tailMo, slot)
    BY <1>8 DEF IInv, ViewsAreClosed
  <2> QED
    BY <2>1, <2>2, <2>3, <2>4 DEF ViewsAreClosed
<1>10. StoresInOrder'
  <2>1. ASSUME NEW m \in 1..Len(headMo')
        PROVE  headMo'[m].val = (m - 1) % CAP /\ headMo'[m].view.head = m
    <3>1. CASE m = Len(headMo) + 1
      <4>1. m - 1 = H + 1
        BY <3>1, Facts
      <4> QED
        BY <1>3, <1>5, <3>1, <4>1
    <3>2. CASE m # Len(headMo) + 1
      <4>1. m \in 1..Len(headMo)
        BY <1>5, <3>2, Facts
      <4> QED
        BY <1>5, <4>1 DEF IInv, StoresInOrder
    <3> QED
      BY <3>1, <3>2
  <2> QED
    BY <2>1 DEF IInv, StoresInOrder
<1>11. FullSlots'
  <2>1. ASSUME NEW p \in (H + 1)..(T - 1)
        PROVE  /\ slot[p % CAP].val = p + 1
               /\ slot[p % CAP].ver = tailMo[p + 2].view.slot[p % CAP]
    <3>1. p \in H..(T - 1) /\ p # H
      BY Facts
    <3> QED
      BY <3>1 DEF IInv, FullSlots
  <2> QED
    BY <1>6, <2>1 DEF FullSlots
<1>12. EmptySlots'
  <2>1. ASSUME NEW p \in T..(H + 1 + CAP - 1)
        PROVE  \/ p = T /\ pc'["producer"] = "storeTail"
               \/ p < CAP /\ slot[p % CAP].ver = 0
               \/ p >= CAP /\ slot[p % CAP].ver = headMo'[p - CAP + 2].view.slot[p % CAP]
    <3>1. CASE p = H + CAP
      <4>1. p % CAP = H % CAP
        <5>1. H \in Int
          BY Bounds
        <5> QED
          BY <3>1, <5>1, ModAdd, CapAssumption
      <4>2. p - CAP + 2 = Len(headMo) + 1 /\ p >= CAP
        BY <3>1, Bounds, SMTT(30)
      <4> QED
        BY <1>3, <1>5, <4>1, <4>2
    <3>2. CASE p # H + CAP
      <4>0. p \in Int /\ T <= p /\ p <= H + CAP
        BY Bounds
      <4>2. H \in Nat /\ T \in Nat /\ CAP \in Nat
        BY Bounds
      <4>1. p \in T..(H + CAP - 1)
        BY <3>2, <4>0, <4>2
      <4>3. p >= CAP => p - CAP + 2 \in 1..Len(headMo)
        BY <4>1, Bounds, SMTT(30)
      <4> QED
        BY <1>5, <4>1, <4>3 DEF IInv, EmptySlots
    <3> QED
      BY <3>1, <3>2
  <2> QED
    BY <1>6, <2>1 DEF EmptySlots
<1> QED
  BY <1>3, <1>4, <1>5, <1>6, <1>7, <1>9, <1>10, <1>11, <1>12

LEMMA ForceStoresHeadKeeps ==
    ASSUME IInv, CAP > 1, ForceStoresHead
    PROVE  IInv' /\ H' = H + 1 /\ T' = T /\ H < T
<1>1. /\ pc["producer"] = "bumpStore" /\ pc' = [pc EXCEPT !["producer"] = "write"]
      /\ StoreHead("producer", nextI(reg["producer"]))
      /\ reg' = [reg EXCEPT !["producer"] = OwnTail]
      /\ bumps' = bumps + 1
      /\ UNCHANGED <<tailMo, slot, moved, pushes, popped, lock>>
  BY DEF ForceStoresHead
<1>2. /\ Forces = "locked" /\ lock.owner = "producer" /\ T - H = CAP - 1
      /\ view["producer"].head = Len(headMo) /\ reg["producer"] = H % CAP
      /\ view["producer"].tail = Len(tailMo) /\ pushes < MaxPushes
  BY <1>1 DEF IInv, Producing, Locking, Knows
<1>3. pc["consumer"] = "idle"
  BY <1>2 DEF IInv, Consuming
<1>4. H < T /\ T - H - 1 \in 0..(CAP - 1)
  BY <1>2, Bounds
<1>5. nextI(reg["producer"]) = (H + 1) % CAP
  BY <1>2, Facts, SlotsAreIndices
<1>6. slot[H % CAP].ver = view["producer"].slot[H % CAP]
  <2>1. Closed(view["producer"], headMo, tailMo, slot) /\ H % CAP \in Slots
    BY Facts, SlotsAreIndices DEF IInv, ViewsAreClosed, Threads
  <2>2. H \in H..(T - 1) /\ H + 2 \in 1..view["producer"].tail
    BY <1>2, <1>4, Facts
  <2>3. slot[H % CAP].ver = tailMo[H + 2].view.slot[H % CAP]
    BY <1>3, <2>2 DEF IInv, FullSlots
  <2>4. tailMo[H + 2].view.slot[H % CAP] <= view["producer"].slot[H % CAP]
    BY <2>1, <2>2 DEF Closed
  <2>5. view["producer"].slot[H % CAP] <= slot[H % CAP].ver
    BY <2>1 DEF Closed
  <2>6. view["producer"].slot[H % CAP] \in Nat /\ slot[H % CAP].ver \in Nat
    BY <2>1, Facts DEF IInv, TypeOK, View
  <2> QED
    BY <2>3, <2>4, <2>5, <2>6
<1>7. /\ pc'["producer"] = "write" /\ pc'["consumer"] = "idle"
      /\ pc' \in [Threads -> {"idle", "bump", "bumpStore", "write", "storeTail",
                              "loadTail", "move", "storeHead"}]
  BY <1>1, <1>3 DEF IInv, TypeOK, Threads
<1>8. /\ ViewsAreClosed' /\ StoresInOrder' /\ FullSlots' /\ EmptySlots'
      /\ H' = H + 1 /\ T' = T
      /\ headMo' \in Seq(Message) /\ Len(headMo') = Len(headMo) + 1
      /\ view' \in [Threads -> View]
      /\ view'["producer"].head = Len(headMo) + 1
      /\ view'["producer"].tail = view["producer"].tail
      /\ view'["consumer"] = view["consumer"]
  BY <1>1, <1>2, <1>4, <1>5, <1>6, <1>7, HeadStored DEF Threads
<1>9. /\ reg' \in [Threads -> Slots] /\ reg'["producer"] = T % CAP
      /\ reg'["consumer"] = reg["consumer"]
  BY <1>1, Facts, SlotsAreIndices DEF IInv, TypeOK, Threads
<1>10. bumps <= pushes /\ bumps \in Nat /\ pushes \in Nat /\ pushes = T
  BY <1>1, Facts DEF IInv, Counts, TypeOK
<1>11. TypeOK'
  BY <1>1, <1>2, <1>7, <1>8, <1>9, <1>10, MaxPushesAssumption DEF IInv, TypeOK
<1>12. Counts'
  <2>1. Len(popped') + bumps' = H'
    BY <1>1, <1>8, <1>10, Facts DEF IInv, Counts, TypeOK
  <2> QED
    BY <1>1, <1>4, <1>7, <1>8, <1>10, <2>1, Facts DEF Counts
<1>13. Producing'
  <2>1. T + 1 - (H + 2) = CAP - 2 /\ CAP - 2 \in 0..(CAP - 1)
    BY <1>2, <1>4, Bounds
  <2>2. Len(headMo) + 1 = H + 2
    BY Bounds
  <2> QED
    BY <1>1, <1>2, <1>7, <1>8, <1>9, <2>1, <2>2, Bounds DEF Producing
<1>14. Consuming'
  BY <1>7 DEF Consuming
<1>15. Locking'
  BY <1>1, <1>2, <1>4, <1>8, Facts DEF Locking, Knows
<1> QED
  BY <1>4, <1>8, <1>11, <1>12, <1>13, <1>14, <1>15 DEF IInv

(* Touching a slot leaves what is said of the other slots alone.           *)
LEMMA SlotTouched ==
    ASSUME IInv, NEW t \in Threads, NEW i \in Slots, NEW x \in Values \cup {NoValue},
           Touch(t, i, x), UNCHANGED <<headMo, tailMo, lock>>
    PROVE  /\ ViewsAreClosed' /\ StoresInOrder' /\ H' = H /\ T' = T
           /\ view' \in [Threads -> View]
           /\ slot' \in [Slots -> [val : Values \cup {NoValue}, ver : Nat]]
           /\ slot'[i].val = x /\ slot'[i].ver = view'[t].slot[i]
           /\ view'[t].head = view[t].head /\ view'[t].tail = view[t].tail
           /\ \A j \in Slots : j # i => slot'[j] = slot[j]
           /\ \A s \in Threads : s # t => view'[s] = view[s]
<1> DEFINE n == slot[i].ver + 1
           v == [view[t] EXCEPT !.slot[i] = n]
<1>1. /\ slot' = [slot EXCEPT ![i] = [val |-> x, ver |-> n]]
      /\ view' = [view EXCEPT ![t] = v]
  BY DEF Touch
<1>2. /\ slot \in [Slots -> [val : Values \cup {NoValue}, ver : Nat]]
      /\ view \in [Threads -> View]
  BY DEF IInv, TypeOK
<1>3. n \in Nat /\ slot[i].ver \in Nat /\ slot[i].ver <= n
  BY <1>2
<1>4. /\ v \in View /\ v.head = view[t].head /\ v.tail = view[t].tail /\ v.slot[i] = n
  BY <1>2, <1>3 DEF View
<1>5. /\ slot' \in [Slots -> [val : Values \cup {NoValue}, ver : Nat]]
      /\ slot'[i] = [val |-> x, ver |-> n]
      /\ \A j \in Slots : j # i => slot'[j] = slot[j]
  BY <1>1, <1>2, <1>3
<1>6. \A j \in Slots : slot[j].ver <= slot'[j].ver
  BY <1>2, <1>3, <1>5
<1>7. /\ Len(headMo) \in Nat /\ Len(tailMo) \in Nat
      /\ \A m \in 1..Len(headMo) : headMo[m].view \in View
      /\ \A m \in 1..Len(tailMo) : tailMo[m].view \in View
  BY Facts
<1>8. n <= slot'[i].ver
  BY <1>3, <1>5
<1>9. Closed(v, headMo, tailMo, slot')
  <2>1. Closed(view[t], headMo, tailMo, slot)
    BY DEF IInv, ViewsAreClosed
  <2> HIDE DEF n
  <2> QED
    BY <1>2, <1>3, <1>5, <1>6, <1>7, <1>8, <2>1, ClosedByTouch
<1> HIDE DEF v, n
<1>10. /\ view' \in [Threads -> View] /\ view'[t] = v
       /\ \A s \in Threads : s # t => view'[s] = view[s]
  BY <1>1, <1>2, <1>4
<1>11. ASSUME NEW w, Closed(w, headMo, tailMo, slot)
       PROVE  Closed(w, headMo, tailMo, slot')
  <2>1. Len(headMo) <= Len(headMo) /\ Len(tailMo) <= Len(tailMo)
    BY <1>7
  <2> QED
    BY <1>2, <1>5, <1>6, <1>7, <1>11, <2>1, ClosedKept
<1>12. ViewsAreClosed'
  BY <1>9, <1>10, <1>11 DEF IInv, ViewsAreClosed
<1>13. StoresInOrder' /\ H' = H /\ T' = T
  BY DEF IInv, StoresInOrder, H, T
<1> QED
  BY <1>4, <1>5, <1>10, <1>12, <1>13

LEMMA PushWritesKeeps ==
    ASSUME IInv, PushWrites
    PROVE  IInv' /\ UNCHANGED <<headMo, tailMo, popped>>
<1>1. /\ pc["producer"] = "write" /\ pc' = [pc EXCEPT !["producer"] = "storeTail"]
      /\ Touch("producer", reg["producer"], pushes + 1)
      /\ pushes' = pushes + 1
      /\ UNCHANGED <<headMo, tailMo, reg, moved, bumps, popped, lock>>
  BY DEF PushWrites
<1>2. /\ pushes < MaxPushes /\ reg["producer"] = T % CAP /\ pushes = T
      /\ view["producer"].tail = Len(tailMo)
      /\ T + 1 - view["producer"].head \in 0..(CAP - 1)
      /\ T + 1 - view["producer"].head <= CAP - 2
  BY <1>1 DEF IInv, Producing, Counts
<1>3. T % CAP \in Slots /\ H % CAP \in Slots /\ \A p \in Nat : p % CAP \in Slots
  BY Facts, SlotsAreIndices
<1>4. pushes + 1 \in Values /\ pushes + 1 = T + 1
  BY <1>2, Bounds, MaxPushesAssumption DEF Values
<1>5. /\ ViewsAreClosed' /\ StoresInOrder' /\ H' = H /\ T' = T
      /\ view' \in [Threads -> View]
      /\ slot' \in [Slots -> [val : Values \cup {NoValue}, ver : Nat]]
      /\ slot'[T % CAP].val = pushes + 1
      /\ slot'[T % CAP].ver = view'["producer"].slot[T % CAP]
      /\ view'["producer"].head = view["producer"].head
      /\ view'["producer"].tail = view["producer"].tail
      /\ \A j \in Slots : j # T % CAP => slot'[j] = slot[j]
      /\ view'["consumer"] = view["consumer"]
  BY <1>1, <1>2, <1>3, <1>4, SlotTouched, SMTT(30) DEF Threads
<1>6. /\ pc'["producer"] = "storeTail" /\ pc'["consumer"] = pc["consumer"]
      /\ pc' \in [Threads -> {"idle", "bump", "bumpStore", "write", "storeTail",
                              "loadTail", "move", "storeHead"}]
  BY <1>1 DEF IInv, TypeOK, Threads
<1>7. TypeOK'
  <2>1. pushes' \in 0..MaxPushes
    BY <1>1, <1>2, Bounds, MaxPushesAssumption
  <2> QED
    BY <1>1, <1>5, <1>6, <2>1 DEF IInv, TypeOK
<1>8. Counts'
  BY <1>1, <1>2, <1>5, <1>6 DEF IInv, Counts
<1>9. FullSlots'
  <2>1. ASSUME NEW p \in H..(T - 1)
        PROVE  slot'[p % CAP] = slot[p % CAP]
    <3>1. p \in Nat /\ p < T /\ T < p + CAP
      BY Bounds
    <3> QED
      BY <1>3, <1>5, <3>1, Bounds, SlotsApart
  <2> QED
    BY <1>1, <1>5, <1>6, <2>1 DEF IInv, FullSlots
<1>10. EmptySlots'
  <2>1. ASSUME NEW p \in T..(H + CAP - 1), p # T
        PROVE  slot'[p % CAP] = slot[p % CAP]
    <3>1. p \in Nat /\ T < p /\ p < T + CAP
      BY <2>1, Bounds
    <3> QED
      BY <1>3, <1>5, <3>1, Bounds, SlotsApart
  <2> QED
    BY <1>1, <1>5, <1>6, <2>1 DEF IInv, EmptySlots
<1>11. Producing'
  BY <1>1, <1>2, <1>4, <1>5, <1>6 DEF Producing
<1>12. Consuming'
  <2>1. ASSUME pc["consumer"] = "storeHead"
        PROVE  slot'[H % CAP] = slot[H % CAP]
    <3>1. view["consumer"].tail >= H + 2
      BY <2>1 DEF IInv, Consuming
    <3>2. H < T /\ T < H + CAP
      BY <3>1, Bounds
    <3> QED
      BY <1>3, <1>5, <3>2, Bounds, SlotsApart
  <2> QED
    BY <1>1, <1>5, <1>6, <2>1 DEF IInv, Consuming, Knows
<1>13. Locking'
  BY <1>1, <1>5 DEF IInv, Locking, Knows
<1> QED
  BY <1>1, <1>5, <1>7, <1>8, <1>9, <1>10, <1>11, <1>12, <1>13 DEF IInv

LEMMA PushStoresTailKeeps ==
    ASSUME IInv, PushStoresTail
    PROVE  IInv' /\ H' = H /\ T' = T + 1
<1> DEFINE x == nextI(reg["producer"])
           v == [view["producer"] EXCEPT !.tail = Len(tailMo) + 1]
<1>1. /\ pc["producer"] = "storeTail" /\ pc' = [pc EXCEPT !["producer"] = "idle"]
      /\ tailMo' = Append(tailMo, [val |-> x, view |-> v])
      /\ view' = [view EXCEPT !["producer"] = v]
      /\ UNCHANGED <<headMo, slot, reg, moved, pushes, bumps, popped>>
      /\ Releases("producer")
  BY DEF PushStoresTail, StoreTail
<1>2. /\ reg["producer"] = T % CAP /\ pushes = T + 1
      /\ view["producer"].tail = Len(tailMo)
      /\ T + 1 - view["producer"].head \in 0..(CAP - 1)
      /\ T + 1 - view["producer"].head <= CAP - 2
      /\ slot[T % CAP].val = T + 1
      /\ slot[T % CAP].ver = view["producer"].slot[T % CAP]
  BY <1>1 DEF IInv, Producing, Counts
<1>3. x = (T + 1) % CAP /\ x \in Slots
  <2>1. T + 1 \in Nat
    BY Bounds
  <2> QED
    BY <1>2, <2>1, Bounds, SlotsAreIndices
<1>4. tailMo \in Seq(Message) /\ view \in [Threads -> View]
  BY DEF IInv, TypeOK
<1>5. /\ v \in View /\ v.tail = Len(tailMo) + 1 /\ v.head = view["producer"].head
      /\ v.slot = view["producer"].slot
  <2>1. Len(tailMo) + 1 \in Nat /\ view["producer"] \in View
    BY Facts
  <2> QED
    BY <2>1 DEF View
<1>6. Closed(v, headMo, tailMo', slot) /\ tailMo' \in Seq(Message)
  <2>1. Closed(view["producer"], headMo, tailMo, slot)
    BY DEF IInv, ViewsAreClosed, Threads
  <2> QED
    BY <1>1, <1>2, <1>3, <1>4, <2>1, ClosedByTailStore
<1> HIDE DEF v, x
<1>7. /\ Len(tailMo') = Len(tailMo) + 1
      /\ \A m \in 1..Len(tailMo) : tailMo'[m] = tailMo[m]
      /\ tailMo'[Len(tailMo) + 1] = [val |-> x, view |-> v]
  BY <1>1, <1>4, Bounds
<1>8. H' = H /\ T' = T + 1
  BY <1>1, <1>7, Bounds DEF H, T
<1>9. /\ view' \in [Threads -> View] /\ view'["producer"] = v
      /\ view'["consumer"] = view["consumer"]
  BY <1>1, <1>4, <1>5 DEF Threads
<1>10. \/ lock.owner = "producer" /\ lock' = [owner |-> "none", view |-> v]
       \/ lock.owner # "producer" /\ lock' = lock
  BY <1>1, <1>9 DEF Releases
<1>11. /\ pc'["producer"] = "idle" /\ pc'["consumer"] = pc["consumer"]
       /\ pc' \in [Threads -> {"idle", "bump", "bumpStore", "write", "storeTail",
                               "loadTail", "move", "storeHead"}]
  BY <1>1 DEF IInv, TypeOK, Threads
<1>12. TypeOK'
  BY <1>1, <1>5, <1>6, <1>9, <1>10, <1>11 DEF IInv, TypeOK
<1>13. ASSUME NEW w, Closed(w, headMo, tailMo, slot)
       PROVE  Closed(w, headMo, tailMo', slot)
  <2>1. /\ slot \in [Slots -> [val : Values \cup {NoValue}, ver : Nat]]
        /\ \A i \in Slots : slot[i].ver <= slot[i].ver
    BY DEF IInv, TypeOK
  <2>2. Len(headMo) \in Nat /\ Len(tailMo) \in Nat /\ Len(tailMo') \in Nat
        /\ Len(tailMo) <= Len(tailMo') /\ Len(headMo) <= Len(headMo)
    BY <1>7, Bounds
  <2> QED
    BY <1>7, <1>13, <2>1, <2>2, ClosedKept
<1>14. ViewsAreClosed'
  <2>1. \A s \in Threads : Closed(view'[s], headMo, tailMo', slot)
    BY <1>6, <1>9, <1>13 DEF IInv, ViewsAreClosed, Threads
  <2>2. Closed(lock'.view, headMo, tailMo', slot)
    BY <1>6, <1>10, <1>13 DEF IInv, ViewsAreClosed
  <2>3. ASSUME NEW m \in 1..Len(tailMo')
        PROVE  Closed(tailMo'[m].view, headMo, tailMo', slot)
    <3>1. CASE m = Len(tailMo) + 1
      BY <1>6, <1>7, <3>1
    <3>2. CASE m # Len(tailMo) + 1
      <4>1. m \in 1..Len(tailMo)
        BY <1>7, <3>2, Bounds
      <4> QED
        BY <1>7, <1>13, <4>1 DEF IInv, ViewsAreClosed
    <3> QED
      BY <3>1, <3>2
  <2>4. \A m \in 1..Len(headMo) : Closed(headMo[m].view, headMo, tailMo', slot)
    BY <1>13 DEF IInv, ViewsAreClosed
  <2> QED
    BY <1>1, <2>1, <2>2, <2>3, <2>4 DEF ViewsAreClosed
<1>15. StoresInOrder'
  <2>1. ASSUME NEW m \in 1..Len(tailMo')
        PROVE  tailMo'[m].val = (m - 1) % CAP /\ tailMo'[m].view.tail = m
    <3>1. CASE m = Len(tailMo) + 1
      <4>1. m - 1 = T + 1
        BY <3>1, Bounds
      <4> QED
        BY <1>3, <1>5, <1>7, <3>1, <4>1
    <3>2. CASE m # Len(tailMo) + 1
      <4>1. m \in 1..Len(tailMo)
        BY <1>7, <3>2, Bounds
      <4> QED
        BY <1>7, <4>1 DEF IInv, StoresInOrder
    <3> QED
      BY <3>1, <3>2
  <2> QED
    BY <1>1, <2>1 DEF IInv, StoresInOrder
<1>16. T - H <= CAP - 2
  BY <1>2, Bounds, SMTT(30)
<1>17. Counts'
  <2>1. T + 1 - H \in 0..(CAP - 1) /\ Len(tailMo') >= 1
    BY <1>7, <1>16, Bounds
  <2>2. Len(popped) + bumps = H /\ bumps <= pushes /\ Len(headMo) >= 1
    BY <1>1 DEF IInv, Counts
  <2>3. Len(headMo') >= 1 /\ Len(popped') + bumps' = H' /\ T' - H' \in 0..(CAP - 1)
    BY <1>1, <1>8, <2>1, <2>2, Bounds
  <2>4. pushes' = T' /\ bumps' <= pushes'
    BY <1>1, <1>2, <1>8, <2>2
  <2> QED
    BY <1>11, <2>1, <2>3, <2>4 DEF Counts
<1>18. FullSlots'
  <2>1. ASSUME NEW p \in H..T
        PROVE  \/ p = H /\ pc["consumer"] = "storeHead"
               \/ /\ slot[p % CAP].val = p + 1
                  /\ slot[p % CAP].ver = tailMo'[p + 2].view.slot[p % CAP]
    <3>1. CASE p = T
      <4>1. p + 2 = Len(tailMo) + 1
        BY <3>1, Bounds
      <4> QED
        BY <1>2, <1>5, <1>7, <3>1, <4>1
    <3>2. CASE p # T
      <4>1. p \in H..(T - 1) /\ p + 2 \in 1..Len(tailMo)
        BY <3>2, Bounds
      <4> QED
        BY <1>7, <4>1 DEF IInv, FullSlots
    <3> QED
      BY <3>1, <3>2
  <2>2. T' - 1 = T
    BY <1>8, Bounds
  <2> QED
    BY <1>1, <1>8, <1>11, <2>1, <2>2 DEF FullSlots
<1>19. EmptySlots'
  <2>1. ASSUME NEW p \in (T + 1)..(H + CAP - 1)
        PROVE  p \in T..(H + CAP - 1) /\ p # T
    BY Bounds
  <2> QED
    BY <1>1, <1>8, <1>11, <2>1 DEF IInv, EmptySlots
<1>20. Producing'
  <2>2. /\ H \in Nat /\ T \in Nat /\ CAP \in Nat /\ H <= T
        /\ view["producer"].head \in Nat /\ view["producer"].head <= H + 1
    BY Bounds
  <2>3. view["producer"].head <= T + 1
    BY <2>2
  <2>4. T + 1 - view["producer"].head <= CAP - 2
    BY <1>2
  <2>1. T + 1 + 1 - view["producer"].head \in 0..(CAP - 1)
    BY <2>2, <2>3, <2>4, RoomIsUsed
  <2> QED
    BY <1>5, <1>7, <1>8, <1>9, <1>11, <2>1, Bounds DEF Producing
<1>21. Consuming'
  <2>1. Forces = "locked" /\ pc["consumer"] # "idle" => lock' = lock
    BY <1>10 DEF IInv, Consuming
  <2> QED
    BY <1>1, <1>8, <1>9, <1>11, <2>1 DEF IInv, Consuming, Knows
<1>22. Locking'
  <2>1. ASSUME Forces = "locked", lock.owner = "producer"
        PROVE  v.head = Len(headMo) /\ v.tail >= Len(headMo)
    BY <1>5, <2>1, Bounds DEF IInv, Locking, Knows
  <2> QED
    BY <1>1, <1>9, <1>10, <2>1 DEF IInv, Locking, Knows
<1> QED
  BY <1>8, <1>12, <1>14, <1>15, <1>17, <1>18, <1>19, <1>20, <1>21, <1>22 DEF IInv

-----------------------------------------------------------------------------
(* The consumer's steps                                                    *)

LEMMA PopLoadsHeadKeeps ==
    ASSUME IInv, Forces # "unlocked", PopLoadsHead
    PROVE  IInv'
<1> DEFINE w == Entry("consumer")
<1>1. /\ pc["consumer"] = "idle" /\ pc' = [pc EXCEPT !["consumer"] = "loadTail"]
      /\ UNCHANGED <<headMo, tailMo, slot, moved, pushes, bumps, popped>>
  BY DEF PopLoadsHead
<1>2. \/ /\ Forces = "locked" /\ lock.owner = "none"
         /\ lock' = [lock EXCEPT !.owner = "consumer"]
      \/ Forces = "never" /\ lock' = lock
  BY ForcesAssumption DEF PopLoadsHead, Acquires
<1>3. w.head = Len(headMo) /\ w.tail >= Len(headMo) /\ Closed(w, headMo, tailMo, slot)
  BY <1>2, EntryKnows DEF IInv, Locking, Threads
<1>4. PICK m \in w.head..Len(headMo) :
          /\ view' = [view EXCEPT !["consumer"] = [w EXCEPT !.head = m]]
          /\ reg' = [reg EXCEPT !["consumer"] = headMo[m].val]
  BY DEF PopLoadsHead
<1> HIDE DEF w
<1>5. w \in View
  BY <1>3 DEF Closed
<1>6. m = Len(headMo) /\ [w EXCEPT !.head = m] = w
  <2>1. m = Len(headMo)
    BY <1>3, <1>4, Bounds
  <2> QED
    BY <1>3, <1>5, <2>1 DEF View
<1>7. /\ view' \in [Threads -> View] /\ view'["consumer"] = w
      /\ view'["producer"] = view["producer"]
  BY <1>4, <1>5, <1>6 DEF IInv, TypeOK, Threads
<1>8. /\ reg' \in [Threads -> Slots] /\ reg'["consumer"] = H % CAP
      /\ reg'["producer"] = reg["producer"]
  <2>1. headMo[m].val = H % CAP /\ H % CAP \in Slots
    BY <1>6, Facts, SlotsAreIndices
  <2> QED
    BY <1>4, <2>1 DEF IInv, TypeOK, Threads
<1>9. /\ pc'["producer"] = pc["producer"] /\ pc'["consumer"] = "loadTail"
      /\ pc' \in [Threads -> {"idle", "bump", "bumpStore", "write", "storeTail",
                              "loadTail", "move", "storeHead"}]
  BY <1>1 DEF IInv, TypeOK, Threads
<1>10. /\ lock' \in [owner : Threads \cup {"none"}, view : View]
       /\ lock'.view = lock.view
       /\ \/ Forces = "locked" /\ lock.owner = "none" /\ lock'.owner = "consumer"
          \/ Forces = "never" /\ lock' = lock
  BY <1>2 DEF IInv, TypeOK, Threads
<1>11. H' = H /\ T' = T
  BY <1>1 DEF H, T
<1>12. TypeOK'
  BY <1>1, <1>7, <1>8, <1>9, <1>10 DEF IInv, TypeOK
<1>13. ViewsAreClosed' /\ StoresInOrder' /\ FullSlots' /\ EmptySlots'
  <2>1. \A t \in Threads : Closed(view'[t], headMo, tailMo, slot)
    BY <1>3, <1>7 DEF IInv, ViewsAreClosed, Threads
  <2>2. Closed(lock'.view, headMo, tailMo, slot)
    BY <1>10 DEF IInv, ViewsAreClosed
  <2> QED
    BY <1>1, <1>9, <2>1, <2>2, LookingKeeps
<1>14. Counts'
  BY <1>1, <1>9, <1>11 DEF IInv, Counts
<1>15. Producing'
  BY <1>1, <1>7, <1>8, <1>9, <1>10, <1>11 DEF IInv, Producing
<1>16. Consuming'
  BY <1>1, <1>3, <1>7, <1>8, <1>9, <1>10, <1>11 DEF Consuming, Knows
<1>17. Locking'
  BY <1>1, <1>3, <1>7, <1>10 DEF IInv, Locking, Knows
<1> QED
  BY <1>12, <1>13, <1>14, <1>15, <1>16, <1>17 DEF IInv

LEMMA PopLoadsTailKeeps ==
    ASSUME IInv, Forces # "unlocked", NEW m \in 1..Len(tailMo), PopLoadsTail(m)
    PROVE  IInv'
<1> DEFINE w == Join(view["consumer"], [tailMo[m].view EXCEPT !.tail = m])
           n == IF tailMo[m].val = reg["consumer"] THEN "idle" ELSE "move"
<1>1. /\ pc["consumer"] = "loadTail" /\ pc' = [pc EXCEPT !["consumer"] = n]
      /\ view' = [view EXCEPT !["consumer"] = w]
      /\ m \in view["consumer"].tail..Len(tailMo)
      /\ UNCHANGED <<headMo, tailMo, slot, reg, moved, pushes, bumps, popped>>
  BY DEF PopLoadsTail
<1>2. /\ Knows(view["consumer"]) /\ reg["consumer"] = H % CAP
      /\ Forces = "locked" => lock.owner = "consumer"
      /\ Closed(view["consumer"], headMo, tailMo, slot)
  BY <1>1 DEF IInv, Consuming, ViewsAreClosed, Threads
<1>3. /\ Closed(w, headMo, tailMo, slot) /\ w.head = Len(headMo)
      /\ w.tail = Later(view["consumer"].tail, m)
  BY <1>2, TakeOver DEF Knows
<1> HIDE DEF w
<1>4. w \in View /\ w.tail = m /\ m >= H + 1 /\ m <= T + 1
  <2>1. view["consumer"].tail <= m /\ view["consumer"].tail >= H + 1
    BY <1>1, <1>2, Bounds DEF Knows
  <2> QED
    BY <1>3, <2>1, Bounds DEF Closed, Later
<1>5. /\ view' \in [Threads -> View] /\ view'["consumer"] = w
      /\ view'["producer"] = view["producer"]
  BY <1>1, <1>4 DEF IInv, TypeOK, Threads
<1>6. n = "move" => m >= H + 2
  <2>1. tailMo[m].val = (m - 1) % CAP
    BY DEF IInv, StoresInOrder
  <2>2. m = H + 1 => m - 1 = H
    BY Bounds
  <2> QED
    BY <1>2, <1>4, <2>1, <2>2, Bounds
<1>7. n \in {"idle", "move"}
  OBVIOUS
<1>8. /\ pc'["producer"] = pc["producer"] /\ pc'["consumer"] = n
      /\ pc' \in [Threads -> {"idle", "bump", "bumpStore", "write", "storeTail",
                              "loadTail", "move", "storeHead"}]
  BY <1>1, <1>7 DEF IInv, TypeOK, Threads
<1>9. \/ /\ n = "idle" /\ lock.owner = "consumer"
         /\ lock' = [owner |-> "none", view |-> w]
      \/ lock' = lock /\ n = "idle" /\ lock.owner # "consumer"
      \/ lock' = lock /\ n = "move"
  BY <1>5, <1>7, <1>8 DEF PopLoadsTail, Releases
<1> HIDE DEF n
<1>10. H' = H /\ T' = T
  BY <1>1 DEF H, T
<1>11. TypeOK'
  <2>1. lock' \in [owner : Threads \cup {"none"}, view : View]
    BY <1>4, <1>9 DEF IInv, TypeOK
  <2> QED
    BY <1>1, <1>5, <1>8, <2>1 DEF IInv, TypeOK
<1>12. ViewsAreClosed' /\ StoresInOrder' /\ FullSlots' /\ EmptySlots'
  <2>1. \A t \in Threads : Closed(view'[t], headMo, tailMo, slot)
    BY <1>3, <1>5 DEF IInv, ViewsAreClosed, Threads
  <2>2. Closed(lock'.view, headMo, tailMo, slot)
    BY <1>3, <1>9 DEF IInv, ViewsAreClosed
  <2> QED
    BY <1>1, <1>7, <1>8, <2>1, <2>2, LookingKeeps
<1>13. Counts'
  BY <1>1, <1>8, <1>10 DEF IInv, Counts
<1>14. Producing'
  BY <1>1, <1>2, <1>5, <1>8, <1>9, <1>10 DEF IInv, Producing
<1>15. Knows(w)
  BY <1>3, <1>4, Bounds DEF Knows
<1>16. Consuming'
  BY <1>1, <1>2, <1>4, <1>5, <1>6, <1>7, <1>8, <1>9, <1>10, <1>15 DEF Consuming, Knows
<1>17. Locking'
  BY <1>1, <1>5, <1>9, <1>15 DEF IInv, Locking, Knows
<1> QED
  BY <1>11, <1>12, <1>13, <1>14, <1>16, <1>17 DEF IInv

LEMMA PopMovesKeeps ==
    ASSUME IInv, PopMoves
    PROVE  IInv' /\ UNCHANGED <<headMo, tailMo, popped>>
<1>1. /\ pc["consumer"] = "move" /\ pc' = [pc EXCEPT !["consumer"] = "storeHead"]
      /\ moved' = slot[reg["consumer"]].val
      /\ Touch("consumer", reg["consumer"], NoValue)
      /\ UNCHANGED <<headMo, tailMo, reg, pushes, bumps, popped, lock>>
  BY DEF PopMoves
<1>2. /\ Knows(view["consumer"]) /\ reg["consumer"] = H % CAP
      /\ Forces = "locked" => lock.owner = "consumer"
      /\ view["consumer"].tail >= H + 2
  BY <1>1 DEF IInv, Consuming
<1>3. /\ T % CAP \in Slots /\ H % CAP \in Slots /\ \A p \in Nat : p % CAP \in Slots
  BY Facts, SlotsAreIndices
<1>4. H < T
  BY <1>2, Bounds
<1>5. /\ ViewsAreClosed' /\ StoresInOrder' /\ H' = H /\ T' = T
      /\ view' \in [Threads -> View]
      /\ slot' \in [Slots -> [val : Values \cup {NoValue}, ver : Nat]]
      /\ slot'[H % CAP].ver = view'["consumer"].slot[H % CAP]
      /\ view'["consumer"].head = view["consumer"].head
      /\ view'["consumer"].tail = view["consumer"].tail
      /\ \A j \in Slots : j # H % CAP => slot'[j] = slot[j]
      /\ view'["producer"] = view["producer"]
  BY <1>1, <1>2, <1>3, SlotTouched DEF Threads
<1>6. moved' = H + 1 /\ moved' \in Values \cup {NoValue}
  <2>1. H \in H..(T - 1)
    BY <1>4, Bounds
  <2>2. slot[H % CAP].val = H + 1
    BY <1>1, <2>1 DEF IInv, FullSlots
  <2> QED
    BY <1>1, <1>2, <1>3, <2>2 DEF IInv, TypeOK
<1>7. /\ pc'["producer"] = pc["producer"] /\ pc'["consumer"] = "storeHead"
      /\ pc' \in [Threads -> {"idle", "bump", "bumpStore", "write", "storeTail",
                              "loadTail", "move", "storeHead"}]
  BY <1>1 DEF IInv, TypeOK, Threads
<1>8. TypeOK'
  BY <1>1, <1>5, <1>6, <1>7 DEF IInv, TypeOK
<1>9. Counts'
  BY <1>1, <1>5, <1>7 DEF IInv, Counts
<1>10. ASSUME NEW p \in Nat, H < p, p < H + CAP
       PROVE  slot'[p % CAP] = slot[p % CAP]
  BY <1>3, <1>5, <1>10, Bounds, SlotsApart
<1>11. FullSlots'
  <2>1. ASSUME NEW p \in H..(T - 1), p # H
        PROVE  slot'[p % CAP] = slot[p % CAP]
    <3>1. p \in Nat /\ H < p /\ p < H + CAP
      BY <2>1, Bounds
    <3> QED
      BY <1>10, <3>1
  <2> QED
    BY <1>1, <1>5, <1>7, <2>1 DEF IInv, FullSlots
<1>12. EmptySlots'
  <2>1. ASSUME NEW p \in T..(H + CAP - 1)
        PROVE  slot'[p % CAP] = slot[p % CAP]
    <3>1. p \in Nat /\ H < p /\ p < H + CAP
      BY <1>4, <2>1, Bounds
    <3> QED
      BY <1>10, <3>1
  <2> QED
    BY <1>1, <1>5, <1>7, <2>1 DEF IInv, EmptySlots
<1>13. Producing'
  <2>1. slot'[T % CAP] = slot[T % CAP]
    <3>1. T \in Nat /\ T < H + CAP
      BY Bounds
    <3> QED
      BY <1>4, <1>10, <3>1
  <2> QED
    BY <1>1, <1>5, <1>7, <2>1 DEF IInv, Producing
<1>14. Consuming'
  BY <1>1, <1>2, <1>5, <1>6, <1>7 DEF Consuming, Knows
<1>15. Locking'
  BY <1>1, <1>5 DEF IInv, Locking, Knows
<1> QED
  BY <1>1, <1>5, <1>8, <1>9, <1>11, <1>12, <1>13, <1>14, <1>15 DEF IInv

LEMMA PopStoresHeadKeeps ==
    ASSUME IInv, Forces # "unlocked", PopStoresHead
    PROVE  IInv' /\ H' = H + 1 /\ T' = T /\ H < T
<1>1. /\ pc["consumer"] = "storeHead" /\ pc' = [pc EXCEPT !["consumer"] = "idle"]
      /\ StoreHead("consumer", nextI(reg["consumer"]))
      /\ popped' = Append(popped, moved) /\ moved' = NoValue
      /\ UNCHANGED <<tailMo, slot, reg, pushes, bumps>>
      /\ Releases("consumer")
  BY DEF PopStoresHead
<1>2. /\ Knows(view["consumer"]) /\ reg["consumer"] = H % CAP
      /\ Forces = "locked" => lock.owner = "consumer"
      /\ view["consumer"].tail >= H + 2
      /\ slot[H % CAP].ver = view["consumer"].slot[H % CAP]
  BY <1>1 DEF IInv, Consuming
<1>3. H < T /\ nextI(reg["consumer"]) = (H + 1) % CAP
  <2>1. H < T /\ H \in Nat
    BY <1>2, Bounds
  <2> QED
    BY <1>2, <2>1, SlotsAreIndices
<1>4. \/ /\ lock.owner = "consumer"
         /\ lock' = [owner |-> "none", view |-> view'["consumer"]]
      \/ lock.owner # "consumer" /\ lock' = lock
  BY <1>1 DEF Releases
<1>5. /\ pc'["producer"] = pc["producer"] /\ pc'["consumer"] = "idle"
      /\ pc' \in [Threads -> {"idle", "bump", "bumpStore", "write", "storeTail",
                              "loadTail", "move", "storeHead"}]
  BY <1>1 DEF IInv, TypeOK, Threads
<1>6. /\ ViewsAreClosed' /\ StoresInOrder' /\ FullSlots' /\ EmptySlots'
      /\ H' = H + 1 /\ T' = T
      /\ headMo' \in Seq(Message) /\ Len(headMo') = Len(headMo) + 1
      /\ view' \in [Threads -> View]
      /\ view'["consumer"].head = Len(headMo) + 1
      /\ view'["consumer"].tail = view["consumer"].tail
      /\ view'["producer"] = view["producer"]
  <2>1. lock'.view \in {lock.view, view'["consumer"]}
    BY <1>4
  <2> QED
    BY <1>1, <1>2, <1>3, <1>5, <2>1, HeadStored DEF Knows, Threads
<1>7. /\ popped' \in Seq(Values \cup {NoValue}) /\ Len(popped') = Len(popped) + 1
      /\ Len(popped) \in Nat /\ bumps \in Nat
  BY <1>1, MaxPushesAssumption DEF IInv, TypeOK
<1>8. TypeOK'
  <2>1. lock' \in [owner : Threads \cup {"none"}, view : View]
    BY <1>4, <1>6 DEF IInv, TypeOK, Threads
  <2>2. moved' \in Values \cup {NoValue}
    BY <1>1
  <2> QED
    BY <1>1, <1>5, <1>6, <1>7, <2>1, <2>2 DEF IInv, TypeOK
<1>9. Counts'
  <2>1. Len(popped') + bumps' = H'
    BY <1>1, <1>6, <1>7, Bounds DEF IInv, Counts
  <2>2. T' - H' \in 0..(CAP - 1) /\ Len(headMo') >= 1
    BY <1>3, <1>6, Bounds
  <2> QED
    BY <1>1, <1>5, <1>6, <2>1, <2>2 DEF IInv, Counts
<1>10. Producing'
  <2>1. pc["producer"] \notin {"bump", "bumpStore"}
    BY <1>2 DEF IInv, Producing
  <2> QED
    BY <1>1, <1>5, <1>6, <2>1 DEF IInv, Producing
<1>11. Consuming'
  BY <1>5 DEF Consuming
<1>12. Locking'
  <2>1. view'["consumer"].head = Len(headMo') /\ view'["consumer"].tail >= Len(headMo')
    BY <1>2, <1>6, Bounds
  <2>2. Forces = "locked" => lock'.owner = "none" /\ lock'.view = view'["consumer"]
    BY <1>2, <1>4
  <2>3. Forces = "never" => lock' = lock
    BY <1>4 DEF IInv, Locking
  <2> QED
    BY <1>1, <2>1, <2>2, <2>3 DEF IInv, Locking, Knows
<1> QED
  BY <1>3, <1>6, <1>8, <1>9, <1>10, <1>11, <1>12 DEF IInv

-----------------------------------------------------------------------------
(* The invariant                                                           *)

LEMMA InitIsInv ==
    ASSUME Init
    PROVE  IInv
<1>1. /\ CAP \in Nat /\ CAP >= 1 /\ 0 \in Slots /\ 0 % CAP = 0
      /\ \A p \in Nat : p % CAP \in Slots
  <2>1. CAP \in Nat /\ CAP >= 1
    BY CapAssumption
  <2> QED
    BY <2>1, SlotsAreIndices
<1>2. NoView \in View /\ NoView.head = 1 /\ NoView.tail = 1
      /\ \A i \in Slots : NoView.slot[i] = 0
  BY DEF NoView, View
<1> DEFINE m0 == [val |-> 0, view |-> NoView]
<1>3. m0 \in Message /\ m0.val = 0 /\ m0.view = NoView
  BY <1>1, <1>2 DEF Message
<1> HIDE DEF m0
<1>4. /\ headMo = <<m0>> /\ tailMo = <<m0>> /\ Len(headMo) = 1 /\ Len(tailMo) = 1
      /\ headMo \in Seq(Message) /\ tailMo \in Seq(Message)
      /\ \A m \in 1..1 : headMo[m] = m0 /\ tailMo[m] = m0
  BY <1>3 DEF Init, m0
<1>5. H = 0 /\ T = 0
  BY <1>4 DEF H, T
<1>6. TypeOK
  <2>1. <<>> \in Seq(Values \cup {NoValue})
    BY EmptySeq
  <2>2. /\ slot \in [Slots -> [val : Values \cup {NoValue}, ver : Nat]]
        /\ view \in [Threads -> View] /\ reg \in [Threads -> Slots]
    BY <1>1, <1>2 DEF Init
  <2>3. /\ pushes \in 0..MaxPushes /\ bumps \in 0..MaxPushes
        /\ moved \in Values \cup {NoValue}
        /\ lock \in [owner : Threads \cup {"none"}, view : View]
        /\ pc \in [Threads -> {"idle", "bump", "bumpStore", "write", "storeTail",
                               "loadTail", "move", "storeHead"}]
    BY <1>2, MaxPushesAssumption DEF Init
  <2> QED
    BY <1>4, <2>1, <2>2, <2>3 DEF TypeOK, Init
<1>7. Closed(NoView, headMo, tailMo, slot)
  <2>1. \A i \in Slots : NoView.slot[i] <= slot[i].ver
    BY <1>2 DEF Init
  <2>2. \A m \in 1..1, i \in Slots : headMo[m].view.slot[i] <= NoView.slot[i]
    BY <1>2, <1>3, <1>4
  <2>3. \A m \in 1..1, i \in Slots : tailMo[m].view.slot[i] <= NoView.slot[i]
    BY <1>2, <1>3, <1>4
  <2> QED
    BY <1>2, <1>4, <2>1, <2>2, <2>3 DEF Closed
<1>8. ViewsAreClosed
  BY <1>3, <1>4, <1>7 DEF ViewsAreClosed, Init
<1>9. StoresInOrder
  BY <1>1, <1>2, <1>3, <1>4 DEF StoresInOrder
<1>10. Counts
  BY <1>1, <1>4, <1>5 DEF Counts, Init, Threads
<1>11. FullSlots
  BY <1>5 DEF FullSlots
<1>12. EmptySlots
  <2>1. ASSUME NEW p \in 0..(0 + CAP - 1)
        PROVE  p < CAP /\ slot[p % CAP].ver = 0
    <3>1. p \in Nat /\ p < CAP
      BY <1>1
    <3> QED
      BY <1>1, <3>1 DEF Init
  <2> QED
    BY <1>5, <2>1 DEF EmptySlots
<1>13. Producing
  <2>1. 0 + 1 - 1 \in 0..(CAP - 1)
    BY <1>1
  <2>2. pc["producer"] = "idle" /\ view["producer"] = NoView
    BY DEF Init, Threads
  <2> QED
    BY <1>2, <1>4, <1>5, <2>1, <2>2 DEF Producing
<1>14. Consuming
  BY DEF Consuming, Init, Threads
<1>15. Locking
  BY <1>2, <1>4 DEF Locking, Knows, Init, Threads
<1> QED
  BY <1>6, <1>8, <1>9, <1>10, <1>11, <1>12, <1>13, <1>14, <1>15 DEF IInv

(* What a step does to the queue.                                          *)
Looks == H' = H /\ T' = T /\ popped' = popped

Pushes == H' = H /\ T' = T + 1 /\ popped' = popped /\ T - H <= CAP - 2

Pops == H' = H + 1 /\ T' = T /\ popped' = Append(popped, H + 1) /\ H < T

Drops == H' = H + 1 /\ T' = T /\ popped' = popped /\ H < T

LEMMA StepOutcome ==
    ASSUME IInv, CAP > 1, Forces # "unlocked", [Next]_vars
    PROVE  IInv' /\ (Looks \/ Pushes \/ Pops \/ Drops)
<1>1. CASE PushRefused
  BY <1>1, PushRefusedKeeps DEF PushRefused, PushFinds, Looks, H, T
<1>2. ASSUME NEW m \in 1..Len(headMo), PushHasRoom(m)
      PROVE  IInv' /\ Looks
  BY <1>2, PushHasRoomKeeps DEF PushHasRoom, PushFinds, Looks, H, T
<1>3. CASE ForceFindsFull
  BY <1>3, ForceFindsFullKeeps DEF ForceFindsFull, PushFinds, Looks, H, T
<1>4. CASE ForceLoadsHead
  BY <1>4, ForceLoadsHeadKeeps DEF ForceLoadsHead, Looks, H, T
<1>5. CASE ForceStoresHead
  <2>1. IInv' /\ H' = H + 1 /\ T' = T /\ H < T
    BY <1>5, ForceStoresHeadKeeps
  <2>2. popped' = popped
    BY <1>5 DEF ForceStoresHead
  <2> QED
    BY <2>1, <2>2 DEF Drops
<1>6. CASE PushWrites
  BY <1>6, PushWritesKeeps DEF Looks, H, T
<1>7. CASE PushStoresTail
  <2>1. IInv' /\ H' = H /\ T' = T + 1
    BY <1>7, PushStoresTailKeeps
  <2>2. popped' = popped /\ pc["producer"] = "storeTail"
    BY <1>7 DEF PushStoresTail
  <2>3. T + 1 - view["producer"].head <= CAP - 2
    BY <2>2 DEF IInv, Producing
  <2>4. T - H <= CAP - 2
    BY <2>3, Bounds
  <2> QED
    BY <2>1, <2>2, <2>4 DEF Pushes
<1>8. CASE PopLoadsHead
  BY <1>8, PopLoadsHeadKeeps DEF PopLoadsHead, Looks, H, T
<1>9. ASSUME NEW m \in 1..Len(tailMo), PopLoadsTail(m)
      PROVE  IInv' /\ Looks
  BY <1>9, PopLoadsTailKeeps DEF PopLoadsTail, Looks, H, T
<1>10. CASE PopMoves
  BY <1>10, PopMovesKeeps DEF Looks, H, T
<1>11. CASE PopStoresHead
  <2>1. IInv' /\ H' = H + 1 /\ T' = T /\ H < T
    BY <1>11, PopStoresHeadKeeps
  <2>2. popped' = Append(popped, moved) /\ pc["consumer"] = "storeHead"
    BY <1>11 DEF PopStoresHead
  <2>3. moved = H + 1
    BY <2>2 DEF IInv, Consuming
  <2> QED
    BY <2>1, <2>2, <2>3 DEF Pops
<1>12. CASE UNCHANGED vars
  <2>1. /\ UNCHANGED <<headMo, tailMo, slot, view, pc, reg>>
        /\ UNCHANGED <<moved, pushes, bumps, popped, lock>>
    BY <1>12 DEF vars
  <2>2. Looks
    BY <2>1 DEF Looks, H, T
  <2>3. H' = H /\ T' = T
    BY <2>2 DEF Looks
  <2>4. TypeOK' /\ ViewsAreClosed' /\ StoresInOrder'
    BY <2>1 DEF IInv, TypeOK, ViewsAreClosed, StoresInOrder
  <2>5. Counts' /\ FullSlots' /\ EmptySlots'
    BY <2>1, <2>3 DEF IInv, Counts, FullSlots, EmptySlots
  <2>6. Producing' /\ Consuming' /\ Locking'
    BY <2>1, <2>3 DEF IInv, Producing, Consuming, Locking, Knows
  <2> QED
    BY <2>2, <2>4, <2>5, <2>6 DEF IInv
<1> QED
  BY <1>1, <1>2, <1>3, <1>4, <1>5, <1>6, <1>7, <1>8, <1>9, <1>10, <1>11, <1>12
     DEF Next, ProducerStep, ConsumerStep

LEMMA AlwaysInv ==
    (CAP > 1 /\ Forces # "unlocked") => (Spec => []IInv)
<1> SUFFICES ASSUME CAP > 1, Forces # "unlocked"
             PROVE  Spec => []IInv
  OBVIOUS
<1>1. Init => IInv
  BY InitIsInv
<1>2. IInv /\ [Next]_vars => IInv'
  BY StepOutcome
<1> QED
  BY <1>1, <1>2, PTL DEF Spec

-----------------------------------------------------------------------------
(* No data race                                                            *)

LEMMA InvHasNoRace ==
    ASSUME IInv
    PROVE  NoDataRace
<1>1. TypeOK
  BY DEF IInv
<1>2. ASSUME pc["producer"] = "write"
      PROVE  view["producer"].slot[reg["producer"]] = slot[reg["producer"]].ver
  <2>1. /\ reg["producer"] = T % CAP
        /\ T + 1 - view["producer"].head <= CAP - 2
        /\ Closed(view["producer"], headMo, tailMo, slot)
    BY <1>2 DEF IInv, Producing, ViewsAreClosed, Threads
  <2>2. T % CAP \in Slots
    BY Facts, SlotsAreIndices
  <2>3. T \in T..(H + CAP - 1)
    BY Bounds
  <2>4. view["producer"].slot[T % CAP] \in Nat /\ slot[T % CAP].ver \in Nat
    BY <1>1, <2>2, Facts DEF View, TypeOK
  <2>5. view["producer"].slot[T % CAP] <= slot[T % CAP].ver
    BY <2>1, <2>2 DEF Closed
  <2>6. CASE slot[T % CAP].ver = 0
    BY <2>1, <2>4, <2>5, <2>6
  <2>7. CASE T >= CAP /\ slot[T % CAP].ver = headMo[T - CAP + 2].view.slot[T % CAP]
    <3>1. T - CAP + 2 \in 1..view["producer"].head
      BY <2>1, <2>7, Bounds, SMTT(30)
    <3>2. headMo[T - CAP + 2].view.slot[T % CAP] <= view["producer"].slot[T % CAP]
      BY <2>1, <2>2, <3>1 DEF Closed
    <3> QED
      BY <2>1, <2>4, <2>5, <2>7, <3>2
  <2> QED
    BY <1>2, <2>3, <2>6, <2>7 DEF IInv, EmptySlots
<1>3. ASSUME pc["consumer"] = "move"
      PROVE  view["consumer"].slot[reg["consumer"]] = slot[reg["consumer"]].ver
  <2>1. /\ reg["consumer"] = H % CAP /\ view["consumer"].tail >= H + 2
        /\ Closed(view["consumer"], headMo, tailMo, slot)
    BY <1>3 DEF IInv, Consuming, ViewsAreClosed, Threads
  <2>2. H % CAP \in Slots
    BY Facts, SlotsAreIndices
  <2>3. H \in H..(T - 1) /\ H + 2 \in 1..view["consumer"].tail
    BY <2>1, Bounds
  <2>4. view["consumer"].slot[H % CAP] \in Nat /\ slot[H % CAP].ver \in Nat
    BY <1>1, <2>2, Facts DEF View, TypeOK
  <2>5. view["consumer"].slot[H % CAP] <= slot[H % CAP].ver
    BY <2>1, <2>2 DEF Closed
  <2>6. slot[H % CAP].ver = tailMo[H + 2].view.slot[H % CAP]
    BY <1>3, <2>3 DEF IInv, FullSlots
  <2>7. tailMo[H + 2].view.slot[H % CAP] <= view["consumer"].slot[H % CAP]
    BY <2>1, <2>2, <2>3 DEF Closed
  <2> QED
    BY <2>1, <2>4, <2>5, <2>6, <2>7
<1> QED
  BY <1>1, <1>2, <1>3 DEF NoDataRace

(* Neither thread touches a slot before it has seen the last access of the *)
(* other to it, whatever stale indices both of them read, in a ring of any *)
(* size that can hold a value; forced pushes take the lock of the pops.    *)
THEOREM SlotsAreNotShared ==
    (CAP > 1 /\ Forces # "unlocked") => (Spec => []NoDataRace)
<1> SUFFICES ASSUME CAP > 1, Forces # "unlocked"
             PROVE  Spec => []NoDataRace
  OBVIOUS
<1>1. IInv => NoDataRace
  BY InvHasNoRace
<1> QED
  BY <1>1, AlwaysInv, PTL

-----------------------------------------------------------------------------
(* The ring is a queue                                                     *)

Queued == Between(H, T)

LEMMA ContentsAre ==
    ASSUME IInv
    PROVE  Contents = Between(H, T)
<1>1. OwnTail = T % CAP /\ headMo[Len(headMo)].val = H % CAP
  BY Facts
<1>2. ((T % CAP) + CAP - (H % CAP)) % CAP = T - H
  <2>1. H <= T /\ T < H + CAP /\ H \in Nat /\ T \in Nat
    BY Bounds
  <2> QED
    BY <2>1, CapAssumption, ModDiff
<1>3. ASSUME NEW k \in 1..(T - H)
      PROVE  (IF k = 1 /\ pc["consumer"] = "storeHead"
              THEN moved ELSE slot[((H % CAP) + k - 1) % CAP].val) = H + k
  <2>1. CASE k = 1 /\ pc["consumer"] = "storeHead"
    BY <2>1 DEF IInv, Consuming
  <2>2. CASE ~(k = 1 /\ pc["consumer"] = "storeHead")
    <3>1. /\ H + (k - 1) \in H..(T - 1) /\ k - 1 \in Nat
          /\ H + (k - 1) = H <=> k = 1
          /\ H + (k - 1) + 1 = H + k
      BY Bounds, SMTT(30)
    <3>2. slot[(H + (k - 1)) % CAP].val = H + k
      BY <2>2, <3>1 DEF IInv, FullSlots
    <3>3. (H % CAP) + k - 1 = (H % CAP) + (k - 1)
      <4>1. H % CAP \in Nat
        <5>1. H % CAP \in Slots
          BY Bounds, SlotsAreIndices
        <5> QED
          BY <5>1, Bounds DEF Slots
      <4> QED
        BY <4>1, Bounds
    <3>4. ((H % CAP) + (k - 1)) % CAP = (H + (k - 1)) % CAP
      <4>1. H \in Int /\ k - 1 \in Int
        BY <3>1, Bounds
      <4> QED
        BY <4>1, CapAssumption, ModAddMod
    <3> QED
      BY <2>2, <3>2, <3>3, <3>4
  <2> QED
    BY <2>1, <2>2
<1> QED
  BY <1>1, <1>2, <1>3 DEF Contents, Between

LEMMA ContentsAlways ==
    IInv => Contents = Queued
BY ContentsAre DEF Queued

(* A forced push costs the oldest value and no other: every value pushed   *)
(* has been popped, or is in the ring, or a bump of its own has paid.      *)
THEOREM ForcedPushCostsOne ==
    (CAP > 1 /\ Forces # "unlocked") => (Spec => []BumpDropsOne)
<1> SUFFICES ASSUME CAP > 1, Forces # "unlocked"
             PROVE  Spec => []BumpDropsOne
  OBVIOUS
<1>1. ASSUME IInv
      PROVE  BumpDropsOne
  <2>1. Len(Contents) = T - H
    BY <1>1, ContentsAre, BetweenIsSeq, Bounds
  <2>2. /\ pushes = IF pc["producer"] = "storeTail" THEN T + 1 ELSE T
        /\ Len(popped) + bumps = H
        /\ Len(popped) \in Nat /\ bumps \in Nat
    BY <1>1, MaxPushesAssumption DEF IInv, Counts, TypeOK
  <2>3. H \in Nat /\ T \in Nat
    BY <1>1, Bounds
  <2> QED
    BY <1>1, <2>1, <2>2, <2>3 DEF BumpDropsOne
<1> QED
  BY <1>1, AlwaysInv, PTL

LEMMA StepIsFifo ==
    ASSUME IInv, CAP > 1, Forces # "unlocked", [Next]_vars
    PROVE  [Fifo!NextForced]_(Fifo!contractVars)
<1>1. IInv' /\ (Looks \/ Pushes \/ Pops \/ Drops)
  BY StepOutcome
<1>2. Contents = Between(H, T) /\ Contents' = Between(H', T')
  <2>1. Contents = Between(H, T)
    BY ContentsAre
  <2>2. IInv'
    BY <1>1
  <2>3. (Contents = Queued)'
    BY <2>2, ContentsAlways, PTL
  <2> QED
    BY <2>1, <2>3 DEF Queued, Between
<1>3. /\ H \in Nat /\ T \in Nat /\ H <= T
      /\ Len(Between(H, T)) = T - H
      /\ Append(Between(H, T), T + 1) = Between(H, T + 1)
      /\ H < T => /\ Between(H, T) # <<>> /\ Head(Between(H, T)) = H + 1
                  /\ Tail(Between(H, T)) = Between(H + 1, T)
  BY Bounds, BetweenIsSeq
<1>4. CASE Looks
  BY <1>2, <1>4 DEF Looks, Fifo!contractVars
<1>5. CASE Pushes
  <2>1. T + 1 \in Values
    <3>1. pushes' \in 0..MaxPushes /\ T' <= pushes'
      BY <1>1, <1>3, <1>5, SMTT(30) DEF IInv, TypeOK, Counts, Pushes
    <3> QED
      BY <1>3, <1>5, <3>1, MaxPushesAssumption DEF Values, Pushes
  <2>2. T - H < CAP - 1
    BY <1>5, Bounds DEF Pushes
  <2>3. HasRoom(Contents, T + 1) /\ Fifo!PushBack(T + 1)
    BY <1>2, <1>3, <1>5, <2>2 DEF Pushes, Fifo!PushBack, HasRoom
  <2> QED
    BY <2>1, <2>3 DEF Fifo!NextForced, Fifo!NextFifo
<1>6. CASE Pops
  <2>1. Fifo!PopFront
    BY <1>2, <1>3, <1>6 DEF Pops, Fifo!PopFront, Fifo!Out
  <2> QED
    BY <2>1 DEF Fifo!NextForced, Fifo!NextFifo
<1>7. CASE Drops
  <2>1. Fifo!DropOldest
    BY <1>2, <1>3, <1>7 DEF Drops, Fifo!DropOldest
  <2> QED
    BY <2>1 DEF Fifo!NextForced
<1> QED
  BY <1>1, <1>4, <1>5, <1>6, <1>7

(* QueueSPSC implements the bounded queue of CAP - 1 values: the store of  *)
(* the tail is the push, the store of the head the pop, or, by a forced    *)
(* push, the loss of the oldest; everything else changes nothing.          *)
THEOREM ImplementsFifo ==
    (CAP > 1 /\ Forces # "unlocked") => (Spec => IsForcedFifo)
<1> SUFFICES ASSUME CAP > 1, Forces # "unlocked"
             PROVE  Spec => IsForcedFifo
  OBVIOUS
<1>1. Init => Fifo!Init
  <2>1. ASSUME Init
        PROVE  Contents = <<>> /\ popped = <<>>
    <3>1. IInv /\ H = 0 /\ T = 0
      BY <2>1, InitIsInv DEF Init, H, T
    <3>2. Len(Between(0, 0)) = 0 /\ Between(0, 0) \in Seq(Nat)
      BY BetweenIsSeq, SMTT(30)
    <3>3. Between(0, 0) = <<>>
      BY <3>2
    <3> QED
      BY <2>1, <3>1, <3>3, ContentsAre DEF Init
  <2> QED
    BY <2>1 DEF Fifo!Init
<1>2. IInv /\ [Next]_vars => [Fifo!NextForced]_(Fifo!contractVars)
  BY StepIsFifo
<1> QED
  BY <1>1, <1>2, AlwaysInv, PTL DEF Spec, IsForcedFifo, Fifo!ForcedSpec

=============================================================================
