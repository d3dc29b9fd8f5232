----------------------------- MODULE QueueMPMC -----------------------------
(***************************************************************************)
(* adt::QueueMPMC (src/WIP/QueueMPMC.hh): a bounded ring of cells for many *)
(* producers and many consumers. A cell's sequence number says whose turn  *)
(* it is: pos for the producer of that position, pos + 1 for its consumer, *)
(* pos + m_cap for the producer of the next round.                         *)
(*                                                                         *)
(* Every atomic access is a step of its own, and so is the access to the   *)
(* data of a cell. Positions and sequence numbers are ints of Width bits   *)
(* that wrap around.                                                       *)
(***************************************************************************)
EXTENDS Integers, Sequences, FiniteSets

CONSTANTS
    Cap,         \* m_cap, a power of two
    Width,       \* bits of an int
    Producers,   \* threads that call emplace()
    Consumers,   \* threads that call pop() and empty()
    MaxPushes    \* bound: values pushed

ASSUME CapAssumption == Cap \in Nat \ {0}

ASSUME WidthAssumption == Width \in Nat \ {0} /\ Cap < 2^(Width - 1)

(* What powers of two give: as many ints below zero as above, and as many  *)
(* of each for every cell.                                                 *)
ASSUME PowersAssumption ==
    /\ 2^(Width - 1) \in Nat
    /\ 2^Width = 2 * 2^(Width - 1)
    /\ 2^(Width - 1) % Cap = 0

ASSUME MaxPushesAssumption == MaxPushes \in Nat

ASSUME ThreadsAssumption == Producers \cap Consumers = {}

Threads == Producers \cup Consumers

Cells == 0..(Cap - 1)

Ints == (0 - 2^(Width - 1))..(2^(Width - 1) - 1)

Values == 1..MaxPushes

NoValue == 0

VARIABLES
    sequence,    \* cell -> its sequence number
    data,        \* cell -> its value
    enqueuePos,  \* m_enqueuePos
    dequeuePos,  \* m_dequeuePos
    pc,          \* thread -> where it is
    pos,         \* thread -> its local pos
    ticket,      \* thread -> number of its position, from 1, without wrapping
    claimed,     \* positions given to producers so far
    taken,       \* positions given to consumers so far
    returned     \* number of a position -> the value popped there

vars == <<sequence, data, enqueuePos, dequeuePos, pc, pos, ticket, claimed, taken, returned>>

ghosts == <<claimed, taken, returned>>

TypeOK ==
    /\ sequence \in [Cells -> Ints]
    /\ data \in [Cells -> Values \cup {NoValue}]
    /\ enqueuePos \in Ints
    /\ dequeuePos \in Ints
    /\ pc \in [Threads -> {"idle", "seq", "cas", "load", "access", "publish", "empty", "emptyLate"}]
    /\ pos \in [Threads -> Ints]
    /\ ticket \in [Threads -> 0..(MaxPushes + 1)]
    /\ claimed \in 0..MaxPushes
    /\ taken \in 0..MaxPushes
    /\ returned \in [Values -> Values \cup {NoValue}]

Init ==
    /\ sequence = [i \in Cells |-> i]
    /\ data = [i \in Cells |-> NoValue]
    /\ enqueuePos = 0
    /\ dequeuePos = 0
    /\ pc = [t \in Threads |-> "idle"]
    /\ pos = [t \in Threads |-> 0]
    /\ ticket = [t \in Threads |-> 0]
    /\ claimed = 0
    /\ taken = 0
    /\ returned = [v \in Values |-> NoValue]

-----------------------------------------------------------------------------
(* The value of an int after an operation that may overflow.               *)
Wrap(n) == ((n + 2^(Width - 1)) % (2^Width)) - 2^(Width - 1)

(* pos & (m_cap - 1)                                                       *)
Cell(t) == pos[t] % Cap

(* Bound: no thread sleeps inside a call through so many pushes that the   *)
(* difference of two live numbers no longer fits an int.                   *)
NobodyLags ==
    \A t \in Threads :
        pc[t] # "idle" => claimed + 1 - ticket[t] < 2^(Width - 1) - Cap

Goto(t, label) == pc' = [pc EXCEPT ![t] = label]

-----------------------------------------------------------------------------
(* emplace()                                                               *)

EmplaceLoadsPos(t) ==
    /\ \/ pc[t] = "idle" /\ claimed < MaxPushes
       \/ pc[t] = "load"
    /\ pos' = [pos EXCEPT ![t] = enqueuePos]
    /\ ticket' = [ticket EXCEPT ![t] = claimed + 1]
    /\ Goto(t, "seq")
    /\ UNCHANGED <<sequence, data, enqueuePos, dequeuePos, ghosts>>

(* Another producer took the position, or the queue is full.               *)
EmplaceLoadsSeq(t) ==
    LET diff == Wrap(sequence[Cell(t)] - pos[t])
    IN  /\ pc[t] = "seq"
        /\ \/ diff = 0 /\ Goto(t, "cas")
           \/ diff < 0 /\ Goto(t, "idle")
           \/ diff > 0 /\ Goto(t, "load")
        /\ UNCHANGED <<sequence, data, enqueuePos, dequeuePos, pos, ticket, ghosts>>

(* As EmplaceClaims, a plain store for the exchange.                       *)
EmplaceClaimsUnchecked(t) ==
    /\ pc[t] = "cas" /\ claimed < MaxPushes /\ NobodyLags
    /\ enqueuePos' = Wrap(pos[t] + 1)
    /\ claimed' = claimed + 1
    /\ Goto(t, "access")
    /\ UNCHANGED <<sequence, data, dequeuePos, pos, ticket, taken, returned>>

(* As EmplaceClaims, the cell published before it is written.              *)
EmplaceClaimsPublished(t) ==
    /\ pc[t] = "cas" /\ claimed < MaxPushes /\ NobodyLags
    /\ enqueuePos = pos[t]
    /\ enqueuePos' = Wrap(pos[t] + 1)
    /\ sequence' = [sequence EXCEPT ![Cell(t)] = Wrap(pos[t] + 1)]
    /\ claimed' = claimed + 1
    /\ Goto(t, "access")
    /\ UNCHANGED <<data, dequeuePos, pos, ticket, taken, returned>>

EmplaceClaims(t) ==
    /\ pc[t] = "cas" /\ claimed < MaxPushes /\ NobodyLags
    /\ enqueuePos = pos[t]
    /\ enqueuePos' = Wrap(pos[t] + 1)
    /\ claimed' = claimed + 1
    /\ Goto(t, "access")
    /\ UNCHANGED <<sequence, data, dequeuePos, pos, ticket, taken, returned>>

(* The weak exchange may also fail although the positions are equal.       *)
EmplaceFailsToClaim(t) ==
    /\ pc[t] = "cas"
    /\ pos' = [pos EXCEPT ![t] = enqueuePos]
    /\ ticket' = [ticket EXCEPT ![t] = claimed + 1]
    /\ Goto(t, "seq")
    /\ UNCHANGED <<sequence, data, enqueuePos, dequeuePos, ghosts>>

EmplaceWrites(t) ==
    /\ pc[t] = "access"
    /\ data' = [data EXCEPT ![Cell(t)] = ticket[t]]
    /\ Goto(t, "publish")
    /\ UNCHANGED <<sequence, enqueuePos, dequeuePos, pos, ticket, ghosts>>

EmplacePublishes(t) ==
    /\ pc[t] = "publish"
    /\ sequence' = [sequence EXCEPT ![Cell(t)] = Wrap(pos[t] + 1)]
    /\ Goto(t, "idle")
    /\ UNCHANGED <<data, enqueuePos, dequeuePos, pos, ticket, ghosts>>

-----------------------------------------------------------------------------
(* pop()                                                                   *)

PopLoadsPos(t) ==
    /\ pc[t] \in {"idle", "load"}
    /\ pos' = [pos EXCEPT ![t] = dequeuePos]
    /\ ticket' = [ticket EXCEPT ![t] = taken + 1]
    /\ Goto(t, "seq")
    /\ UNCHANGED <<sequence, data, enqueuePos, dequeuePos, ghosts>>

(* Another consumer took the position, or nothing is published there.      *)
PopLoadsSeq(t) ==
    LET diff == Wrap(sequence[Cell(t)] - Wrap(pos[t] + 1))
    IN  /\ pc[t] = "seq"
        /\ \/ diff = 0 /\ Goto(t, "cas")
           \/ diff < 0 /\ Goto(t, "idle")
           \/ diff > 0 /\ Goto(t, "load")
        /\ UNCHANGED <<sequence, data, enqueuePos, dequeuePos, pos, ticket, ghosts>>

PopTakes(t) ==
    /\ pc[t] = "cas"
    /\ dequeuePos = pos[t]
    /\ dequeuePos' = Wrap(pos[t] + 1)
    /\ taken' = taken + 1
    /\ Goto(t, "access")
    /\ UNCHANGED <<sequence, data, enqueuePos, pos, ticket, claimed, returned>>

PopFailsToTake(t) ==
    /\ pc[t] = "cas"
    /\ pos' = [pos EXCEPT ![t] = dequeuePos]
    /\ ticket' = [ticket EXCEPT ![t] = taken + 1]
    /\ Goto(t, "seq")
    /\ UNCHANGED <<sequence, data, enqueuePos, dequeuePos, ghosts>>

(* Moves the value out and destroys what is left in the cell.              *)
PopMoves(t) ==
    /\ pc[t] = "access"
    /\ returned' = [returned EXCEPT ![ticket[t]] = data[Cell(t)]]
    /\ data' = [data EXCEPT ![Cell(t)] = NoValue]
    /\ Goto(t, "publish")
    /\ UNCHANGED <<sequence, enqueuePos, dequeuePos, pos, ticket, claimed, taken>>

PopReleases(t) ==
    /\ pc[t] = "publish"
    /\ sequence' = [sequence EXCEPT ![Cell(t)] = Wrap(pos[t] + (Cap - 1) + 1)]
    /\ Goto(t, "idle")
    /\ UNCHANGED <<data, enqueuePos, dequeuePos, pos, ticket, ghosts>>

-----------------------------------------------------------------------------
(* empty() compares two loads whose order C++ leaves to the compiler: the  *)
(* dequeue position first ("empty"), or the enqueue position ("emptyLate").*)

EmptyLoadsDequeue(t) ==
    /\ pc[t] = "idle"
    /\ pos' = [pos EXCEPT ![t] = dequeuePos]
    /\ ticket' = [ticket EXCEPT ![t] = taken + 1]
    /\ Goto(t, "empty")
    /\ UNCHANGED <<sequence, data, enqueuePos, dequeuePos, ghosts>>

EmptyLoadsEnqueue(t) ==
    /\ pc[t] = "idle"
    /\ pos' = [pos EXCEPT ![t] = enqueuePos]
    /\ ticket' = [ticket EXCEPT ![t] = claimed + 1]
    /\ Goto(t, "emptyLate")
    /\ UNCHANGED <<sequence, data, enqueuePos, dequeuePos, ghosts>>

(* As EmptyReturns, the next cell tested instead of the positions.         *)
EmptyTestsCell(t, empty) ==
    /\ pc[t] = "empty"
    /\ empty = (sequence[Cell(t)] # Wrap(pos[t] + 1))
    /\ Goto(t, "idle")
    /\ UNCHANGED <<sequence, data, enqueuePos, dequeuePos, pos, ticket, ghosts>>

EmptyReturns(t, empty) ==
    /\ \/ pc[t] = "empty" /\ empty = (pos[t] = enqueuePos)
       \/ pc[t] = "emptyLate" /\ empty = (dequeuePos = pos[t])
    /\ Goto(t, "idle")
    /\ UNCHANGED <<sequence, data, enqueuePos, dequeuePos, pos, ticket, ghosts>>

ProducerStep(t) ==
    \/ EmplaceLoadsPos(t)
    \/ EmplaceLoadsSeq(t)
    \/ EmplaceClaims(t)
    \/ EmplaceFailsToClaim(t)
    \/ EmplaceWrites(t)
    \/ EmplacePublishes(t)

ConsumerStep(t) ==
    \/ PopLoadsPos(t)
    \/ PopLoadsSeq(t)
    \/ PopTakes(t)
    \/ PopFailsToTake(t)
    \/ PopMoves(t)
    \/ PopReleases(t)
    \/ EmptyLoadsDequeue(t)
    \/ EmptyLoadsEnqueue(t)
    \/ \E empty \in BOOLEAN : EmptyReturns(t, empty)

Next ==
    \/ \E t \in Producers : ProducerStep(t)
    \/ \E t \in Consumers : ConsumerStep(t)

Spec == Init /\ [][Next]_vars

-----------------------------------------------------------------------------
InCell(t) == pc[t] \in {"access", "publish"}

(* Between its exchange and its store of the sequence number a thread has  *)
(* the cell to itself: no value is overwritten or read half written.       *)
ExclusiveCell ==
    /\ TypeOK
    /\ \A t, u \in Threads : InCell(t) /\ InCell(u) /\ Cell(t) = Cell(u) => t = u

(* The value at the n-th position: in the hands of its producer, or in the *)
(* cell, or popped.                                                        *)
ValueAt(n) ==
    IF \E t \in Producers : ticket[t] = n /\ pc[t] = "access" THEN n
    ELSE IF returned[n] # NoValue THEN returned[n]
    ELSE data[(n - 1) % Cap]

HasRoom(q, v) == Len(q) < Cap

Fifo == INSTANCE QueueContract
            WITH Value <- Values, History <- TRUE,
                 items <- [k \in 1..(claimed - taken) |-> ValueAt(taken + k)],
                 out <- [k \in 1..taken |-> ValueAt(k)]

(* A FIFO queue of Cap values: a push takes effect at its exchange, a pop  *)
(* at its own, and the value a consumer reads later is the one that was    *)
(* pushed there.                                                           *)
IsFifo == Fifo!FifoSpec

(* emplace() refuses only while the value m_cap positions back is in the   *)
(* queue or a consumer is still moving it out; pop() refuses only when no  *)
(* position is claimed or a producer is still writing the oldest one; and  *)
(* when empty() says so the queue is empty, although it loads the two      *)
(* positions one after the other. Compiled to load the enqueue position    *)
(* first it promises less: all that was in the queue at that load has been *)
(* taken, but other values may be there, and may have been all the time.   *)
AnswersAreTrue ==
    [][/\ \A t \in Producers : pc[t] = "seq" /\ pc'[t] = "idle" =>
            LET back == claimed - Cap + 1
            IN  taken < back \/ \E u \in Consumers : InCell(u) /\ ticket[u] = back
       /\ \A t \in Consumers : pc[t] = "seq" /\ pc'[t] = "idle" =>
            \/ taken = claimed
            \/ \E u \in Producers : InCell(u) /\ ticket[u] = taken + 1
       /\ \A t \in Consumers : EmptyReturns(t, TRUE) =>
            taken = IF pc[t] = "empty" THEN claimed ELSE ticket[t] - 1]_vars
=============================================================================
