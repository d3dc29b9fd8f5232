----------------------------- MODULE QueueSPSC -----------------------------
(***************************************************************************)
(* adt::QueueSPSC (include/adt/QueueSPSC.hh): the ring of one producer     *)
(* and one consumer, without locks.                                        *)
(*                                                                         *)
(* The memory is C++'s release and acquire. An index has a history of      *)
(* stores; a load returns any store its thread has not yet seen past, so   *)
(* it may be stale. A store carries the view of the thread that made it,   *)
(* and an acquiring load that reads it takes that view over. A slot is not *)
(* atomic: whoever touches it must have seen the last thing done to it.    *)
(***************************************************************************)
EXTENDS Naturals, Sequences, FiniteSets

CONSTANTS
    CAP,         \* the template parameter
    MaxPushes,   \* bound: values pushed
    Forces       \* does the producer also call forcePushBack(), and if it
                 \* does, under a lock that popFront() is called under, too?

ASSUME CapAssumption == CAP \in Nat \ {0}

ASSUME MaxPushesAssumption == MaxPushes \in Nat

ASSUME ForcesAssumption == Forces \in {"never", "locked", "unlocked"}

Slots == 0..(CAP - 1)

Values == 1..MaxPushes

NoValue == 0

Threads == {"producer", "consumer"}

VARIABLES
    headMo,      \* the stores to m_atomHeadI, in modification order
    tailMo,      \* the stores to m_atomTailI
    slot,        \* m_pData, each with the number of accesses so far
    view,        \* thread -> the latest it has seen of each location
    pc,          \* thread -> where it is
    reg,         \* thread -> the index it works with
    moved,       \* the value popFront() has moved out
    pushes,      \* number of values stored so far
    bumps,       \* how often forcePushBack() has moved the head
    popped,      \* what popFront() returned, in order
    lock         \* the callers' lock: its owner and the view it passes on

vars == <<headMo, tailMo, slot, view, pc, reg, moved, pushes, bumps, popped, lock>>

View == [head : Nat, tail : Nat, slot : [Slots -> Nat]]

Message == [val : Slots, view : View]

TypeOK ==
    /\ headMo \in Seq(Message)
    /\ tailMo \in Seq(Message)
    /\ slot \in [Slots -> [val : Values \cup {NoValue}, ver : Nat]]
    /\ view \in [Threads -> View]
    /\ pc \in [Threads -> {"idle", "bump", "bumpStore", "write", "storeTail",
                           "loadTail", "move", "storeHead"}]
    /\ reg \in [Threads -> Slots]
    /\ moved \in Values \cup {NoValue}
    /\ pushes \in 0..MaxPushes
    /\ bumps \in 0..MaxPushes
    /\ popped \in Seq(Values \cup {NoValue})
    /\ lock \in [owner : Threads \cup {"none"}, view : View]

NoView == [head |-> 1, tail |-> 1, slot |-> [i \in Slots |-> 0]]

Init ==
    /\ headMo = <<[val |-> 0, view |-> NoView]>>
    /\ tailMo = <<[val |-> 0, view |-> NoView]>>
    /\ slot = [i \in Slots |-> [val |-> NoValue, ver |-> 0]]
    /\ view = [t \in Threads |-> NoView]
    /\ pc = [t \in Threads |-> "idle"]
    /\ reg = [t \in Threads |-> 0]
    /\ moved = NoValue
    /\ pushes = 0
    /\ bumps = 0
    /\ popped = <<>>
    /\ lock = [owner |-> "none", view |-> NoView]

-----------------------------------------------------------------------------
nextI(i) == (i + 1) % CAP

Later(m, n) == IF m >= n THEN m ELSE n

Join(v, w) ==
    [head |-> Later(v.head, w.head),
     tail |-> Later(v.tail, w.tail),
     slot |-> [i \in Slots |-> Later(v.slot[i], w.slot[i])]]

Newest == [head |-> Len(headMo), tail |-> Len(tailMo),
           slot |-> [i \in Slots |-> slot[i].ver]]

(* The callers' lock around popFront() and forcePushBack(), if any.        *)
Acquires(t) ==
    IF Forces = "locked"
    THEN /\ lock.owner = "none"
         /\ lock' = [lock EXCEPT !.owner = t]
    ELSE UNCHANGED lock

Releases(t) ==
    lock' = IF lock.owner = t THEN [owner |-> "none", view |-> view[t]'] ELSE lock

(* What a thread has seen once it has that lock.                           *)
Entry(t) == Join(view[t], lock.view)

(* Touching a slot is ordered after everything done to it before.          *)
Touch(t, i, x) ==
    /\ slot' = [slot EXCEPT ![i] = [val |-> x, ver |-> @.ver + 1]]
    /\ view' = [view EXCEPT ![t].slot[i] = slot[i].ver + 1]

StoreHead(t, i) ==
    LET v == [view[t] EXCEPT !.head = Len(headMo) + 1]
    IN  /\ headMo' = Append(headMo, [val |-> i, view |-> v])
        /\ view' = [view EXCEPT ![t] = v]

StoreTail(t, i) ==
    LET v == [view[t] EXCEPT !.tail = Len(tailMo) + 1]
    IN  /\ tailMo' = Append(tailMo, [val |-> i, view |-> v])
        /\ view' = [view EXCEPT ![t] = v]

-----------------------------------------------------------------------------
(* The producer                                                            *)

(* The producer alone stores the tail, so its relaxed load is never stale. *)
OwnTail == tailMo[Len(tailMo)].val

(* As SeesFull, the comparison lost.                                       *)
NeverSeesFull(m) == FALSE

SeesFull(m) == nextI(OwnTail) = headMo[m].val

(* Both pushes first test the head, at the m-th store to it.               *)
PushFinds(m, seen, pcNext) ==
    /\ pc["producer"] = "idle" /\ pushes < MaxPushes
    /\ m \in seen.head..Len(headMo)
    /\ view' = [view EXCEPT !["producer"] = Join(seen, [headMo[m].view EXCEPT !.head = m])]
    /\ reg' = [reg EXCEPT !["producer"] = OwnTail]
    /\ pc' = [pc EXCEPT !["producer"] = pcNext]
    /\ UNCHANGED <<headMo, tailMo, slot, moved, pushes, bumps, popped>>

PushRefused ==
    /\ \E m \in 1..Len(headMo) : SeesFull(m) /\ PushFinds(m, view["producer"], "idle")
    /\ UNCHANGED lock

PushHasRoom(m) ==
    /\ ~SeesFull(m) /\ PushFinds(m, view["producer"], "write")
    /\ UNCHANGED lock

(* A forced push that finds room goes on as PushHasRoom does.              *)
ForceFindsFull ==
    /\ Forces # "never"
    /\ Acquires("producer")
    /\ \E m \in 1..Len(headMo) : SeesFull(m) /\ PushFinds(m, Entry("producer"), "bump")

(* The head is loaded again, relaxed.                                      *)
ForceLoadsHead ==
    /\ pc["producer"] = "bump"
    /\ \E m \in view["producer"].head..Len(headMo) :
          /\ view' = [view EXCEPT !["producer"].head = m]
          /\ reg' = [reg EXCEPT !["producer"] = headMo[m].val]
    /\ pc' = [pc EXCEPT !["producer"] = "bumpStore"]
    /\ UNCHANGED <<headMo, tailMo, slot, moved, pushes, bumps, popped, lock>>

(* As ForceStoresHead, the head moved twice.                               *)
ForceSkipsTwo ==
    /\ pc["producer"] = "bumpStore"
    /\ StoreHead("producer", nextI(nextI(reg["producer"])))
    /\ reg' = [reg EXCEPT !["producer"] = OwnTail]
    /\ bumps' = bumps + 1
    /\ pc' = [pc EXCEPT !["producer"] = "write"]
    /\ UNCHANGED <<tailMo, slot, moved, pushes, popped, lock>>

ForceStoresHead ==
    /\ pc["producer"] = "bumpStore"
    /\ StoreHead("producer", nextI(reg["producer"]))
    /\ reg' = [reg EXCEPT !["producer"] = OwnTail]
    /\ bumps' = bumps + 1
    /\ pc' = [pc EXCEPT !["producer"] = "write"]
    /\ UNCHANGED <<tailMo, slot, moved, pushes, popped, lock>>

PushWrites ==
    /\ pc["producer"] = "write"
    /\ Touch("producer", reg["producer"], pushes + 1)
    /\ pushes' = pushes + 1
    /\ pc' = [pc EXCEPT !["producer"] = "storeTail"]
    /\ UNCHANGED <<headMo, tailMo, reg, moved, bumps, popped, lock>>

PushStoresTail ==
    /\ pc["producer"] = "storeTail"
    /\ StoreTail("producer", nextI(reg["producer"]))
    /\ pc' = [pc EXCEPT !["producer"] = "idle"]
    /\ UNCHANGED <<headMo, slot, reg, moved, pushes, bumps, popped>>
    /\ Releases("producer")

-----------------------------------------------------------------------------
(* The consumer: popFront()                                                *)

PopLoadsHead ==
    /\ pc["consumer"] = "idle"
    /\ Acquires("consumer")
    /\ \E m \in Entry("consumer").head..Len(headMo) :
          /\ view' = [view EXCEPT !["consumer"] = [Entry("consumer") EXCEPT !.head = m]]
          /\ reg' = [reg EXCEPT !["consumer"] = headMo[m].val]
    /\ pc' = [pc EXCEPT !["consumer"] = "loadTail"]
    /\ UNCHANGED <<headMo, tailMo, slot, moved, pushes, bumps, popped>>

(* As PopLoadsTail, with a relaxed load.                                   *)
PopLoadsTailRelaxed(m) ==
    /\ pc["consumer"] = "loadTail"
    /\ m \in view["consumer"].tail..Len(tailMo)
    /\ view' = [view EXCEPT !["consumer"].tail = m]
    /\ pc' = [pc EXCEPT !["consumer"] =
                IF tailMo[m].val = reg["consumer"] THEN "idle" ELSE "move"]
    /\ UNCHANGED <<headMo, tailMo, slot, reg, moved, pushes, bumps, popped>>
    /\ IF pc'["consumer"] = "idle" THEN Releases("consumer") ELSE UNCHANGED lock

(* As PopLoadsTail, the consumer keeping the tail it saw first.            *)
PopLoadsCachedTail(m) ==
    /\ pc["consumer"] = "loadTail"
    /\ m = view["consumer"].tail
    /\ pc' = [pc EXCEPT !["consumer"] =
                IF tailMo[m].val = reg["consumer"] THEN "idle" ELSE "move"]
    /\ UNCHANGED <<headMo, tailMo, slot, view, reg, moved, pushes, bumps, popped>>
    /\ IF pc'["consumer"] = "idle" THEN Releases("consumer") ELSE UNCHANGED lock

PopLoadsTail(m) ==
    /\ pc["consumer"] = "loadTail"
    /\ m \in view["consumer"].tail..Len(tailMo)
    /\ view' = [view EXCEPT !["consumer"] = Join(@, [tailMo[m].view EXCEPT !.tail = m])]
    /\ pc' = [pc EXCEPT !["consumer"] =
                IF tailMo[m].val = reg["consumer"] THEN "idle" ELSE "move"]
    /\ UNCHANGED <<headMo, tailMo, slot, reg, moved, pushes, bumps, popped>>
    /\ IF pc'["consumer"] = "idle" THEN Releases("consumer") ELSE UNCHANGED lock

(* Moves the value out of its slot and destroys what is left of it.        *)
PopMoves ==
    /\ pc["consumer"] = "move"
    /\ moved' = slot[reg["consumer"]].val
    /\ Touch("consumer", reg["consumer"], NoValue)
    /\ pc' = [pc EXCEPT !["consumer"] = "storeHead"]
    /\ UNCHANGED <<headMo, tailMo, reg, pushes, bumps, popped, lock>>

PopStoresHead ==
    /\ pc["consumer"] = "storeHead"
    /\ StoreHead("consumer", nextI(reg["consumer"]))
    /\ popped' = Append(popped, moved)
    /\ moved' = NoValue
    /\ pc' = [pc EXCEPT !["consumer"] = "idle"]
    /\ UNCHANGED <<tailMo, slot, reg, pushes, bumps>>
    /\ Releases("consumer")

-----------------------------------------------------------------------------
ProducerStep ==
    \/ PushRefused
    \/ \E m \in 1..Len(headMo) : PushHasRoom(m)
    \/ ForceFindsFull
    \/ ForceLoadsHead
    \/ ForceStoresHead
    \/ PushWrites
    \/ PushStoresTail

ConsumerStep ==
    \/ PopLoadsHead
    \/ \E m \in 1..Len(tailMo) : PopLoadsTail(m)
    \/ PopMoves
    \/ PopStoresHead

Next == ProducerStep \/ ConsumerStep

Spec == Init /\ [][Next]_vars

(* Both threads run; a store becomes visible sooner or later.              *)
FairSpec ==
    /\ Spec
    /\ WF_vars(ProducerStep)
    /\ WF_vars(ConsumerStep)
    /\ SF_vars(PopLoadsTail(Len(tailMo)))
    /\ SF_vars(PushHasRoom(Len(headMo)))
-----------------------------------------------------------------------------
(* Nobody touches a slot before seeing what the other did to it last: the  *)
(* producer never overwrites a value being moved out, the consumer never   *)
(* moves out one being written. The indices stay within the array.        *)
NoDataRace ==
    /\ TypeOK
    /\ pc["producer"] = "write" =>
          view["producer"].slot[reg["producer"]] = slot[reg["producer"]].ver
    /\ pc["consumer"] = "move" =>
          view["consumer"].slot[reg["consumer"]] = slot[reg["consumer"]].ver

(* What is in the ring, oldest first; the oldest may already have been     *)
(* moved out by a popFront() that has not stored the head yet.             *)
Contents ==
    LET head == headMo[Len(headMo)].val
    IN  [k \in 1..((OwnTail + CAP - head) % CAP) |->
            IF k = 1 /\ pc["consumer"] = "storeHead"
            THEN moved ELSE slot[(head + k - 1) % CAP].val]

(* One slot stays free.                                                    *)
HasRoom(q, v) == Len(q) < CAP - 1

Fifo == INSTANCE QueueContract
            WITH Value <- Values, History <- TRUE, items <- Contents, out <- popped

(* The ring is a FIFO queue of CAP - 1 values, whatever stale indices its  *)
(* two threads read; a forced push drops its oldest values.                *)
IsForcedFifo == Fifo!ForcedSpec

(* A forced push costs the oldest value and no other: what was pushed has  *)
(* been popped, or is in the ring, or was dropped by a bump of its own.    *)
BumpDropsOne ==
    LET written == IF pc["producer"] = "storeTail" THEN 1 ELSE 0
    IN  pushes - written <= Len(popped) + Len(Contents) + bumps

(* With a producer that retries and a consumer that polls, every value     *)
(* pushed is popped in the end, those apart that a forced push paid with.  *)
EveryValuePassed == <>(Len(popped) + bumps = MaxPushes)
=============================================================================
