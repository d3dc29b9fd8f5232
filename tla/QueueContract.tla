--------------------------- MODULE QueueContract ---------------------------
(***************************************************************************)
(* What the queues of the library promise: a sequence of values that are   *)
(* popped as they were pushed. Most are first-in first-out; all refuse a   *)
(* push when there is no room, but for a forced one, which makes room by   *)
(* dropping the oldest value. Queue and QueueArray work at both ends       *)
(* (src/include/adt/Queue.hh:38-57).                                       *)
(***************************************************************************)
EXTENDS Naturals, Sequences

CONSTANTS Value,
          HasRoom(_, _),  \* for a value behind those of a sequence?
          History         \* is every value popped remembered, or only the last?

VARIABLES
    items,                \* what is in the queue, oldest or front first
    out                   \* what was popped

contractVars == <<items, out>>

Out(v) == IF History THEN Append(out, v) ELSE <<v>>

Init == items = <<>> /\ out = <<>>

PushBack(v) == items' = Append(items, v) /\ UNCHANGED out

PushFront(v) == items' = <<v>> \o items /\ UNCHANGED out

PopFront == items # <<>> /\ items' = Tail(items) /\ out' = Out(Head(items))

PopBack == items # <<>> /\ items' = SubSeq(items, 1, Len(items) - 1) /\ out' = Out(items[Len(items)])

(* The room a forced push needs.                                           *)
DropOldest == items # <<>> /\ items' = Tail(items) /\ UNCHANGED out

Clear == items' = <<>> /\ UNCHANGED out

-----------------------------------------------------------------------------
NextFifo ==
    \/ \E v \in Value : HasRoom(items, v) /\ PushBack(v)
    \/ PopFront

NextForced == NextFifo \/ DropOldest

NextDeque ==
    \/ \E v \in Value : HasRoom(items, v) /\ (PushBack(v) \/ PushFront(v))
    \/ PopFront \/ PopBack \/ Clear

FifoSpec == Init /\ [][NextFifo]_contractVars

ForcedSpec == Init /\ [][NextForced]_contractVars

DequeSpec == Init /\ [][NextDeque]_contractVars
=============================================================================
