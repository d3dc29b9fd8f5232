-------------------------------- MODULE Pool --------------------------------
(***************************************************************************)
(* The pools of fixed capacity of Pool.hh and PoolSOA.hh (`kind').  Pool   *)
(* starts with every slot on its stack of free handles; PoolSOA takes      *)
(* fresh slots from the end until it is full, and reuses freed ones first. *)
(* `held' is what the client holds: the value behind each of its handles.  *)
(* A client removes only handles it holds.                                 *)
(***************************************************************************)
EXTENDS Integers, Sequences, SequencesExt, FiniteSets, Functions

CONSTANTS Kinds, CAP, Vals

VARIABLES kind,
          slots,         \* m_aSlots, the arrays of the members
          free,          \* m_aFreeSlots, m_aFreeHandles
          occupied,      \* m_aOccupied, m_aOccupiedIdxs: the indices set in it
          m_size,        \* m_nOccupied; m_size of PoolSOA
          held

vars == <<kind, slots, free, occupied, m_size, held>>

Slots == 0..CAP - 1
NPOS == -1

Init ==
    /\ kind \in Kinds
    /\ slots = [i \in Slots |-> CHOOSE v \in Vals : TRUE]
    /\ free = IF kind = "Pool" THEN [i \in 1..CAP |-> CAP - i] ELSE <<>>
    /\ occupied = {}
    /\ m_size = 0
    /\ held = <<>>

Occupy(i, v) ==
    /\ slots' = [slots EXCEPT ![i] = v]
    /\ occupied' = occupied \cup {i}
    /\ held' = [j \in DOMAIN held \cup {i} |-> IF j = i THEN v ELSE held[j]]

(* A full pool answers -1; a client that emplaces a value checks first.    *)
insertReused(v) ==
    /\ free # <<>>
    /\ Occupy(Last(free), v)
    /\ free' = Front(free)
    /\ m_size' = IF kind = "Pool" THEN m_size + 1 ELSE m_size
    /\ UNCHANGED kind

insertFresh(v) ==
    /\ kind = "PoolSOA" /\ free = <<>>
    /\ m_size # CAP
    /\ Occupy(m_size, v)
    /\ m_size' = m_size + 1
    /\ UNCHANGED <<kind, free>>

remove(i) ==
    /\ free' = Append(free, i)
    /\ occupied' = occupied \ {i}
    /\ m_size' = IF kind = "Pool" THEN m_size - 1 ELSE m_size
    /\ held' = Restrict(held, DOMAIN held \ {i})
    /\ UNCHANGED <<kind, slots>>

Next ==
    \/ \E v \in Vals : insertReused(v) \/ insertFresh(v)
    \/ \E i \in DOMAIN held : remove(i)

Spec == Init /\ [][Next]_vars

-----------------------------------------------------------------------------
(* Iteration.  Pool looks at every slot, unless all are free; PoolSOA at   *)
(* those below m_size, and ends one past the last that is occupied.        *)
Bound == IF kind = "Pool" THEN CAP ELSE m_size
Least(S, otherwise) == IF S = {} THEN otherwise ELSE CHOOSE i \in S : \A j \in S : i <= j
Greatest(S, otherwise) == IF S = {} THEN otherwise ELSE CHOOSE i \in S : \A j \in S : i >= j

firstI ==
    IF kind = "Pool" /\ Len(free) >= CAP THEN NPOS
    ELSE Least({i \in occupied : i < Bound}, NPOS)
lastI ==
    IF kind = "Pool" /\ Len(free) >= CAP THEN NPOS
    ELSE Greatest({i \in occupied : i < Bound}, NPOS)
nextI(i) ==
    Least({j \in occupied : j > i /\ j < Bound},
          IF kind = "Pool" THEN NPOS ELSE IF i < Bound THEN Bound ELSE i + 1)
(* prevI() of Pool counts up: it finds the next slot that is occupied, and *)
(* past the last one reads on behind its arrays.                           *)
prevI(i) ==
    IF kind = "Pool" THEN Least({j \in occupied : j > i}, CAP)
    ELSE Greatest({j \in occupied : j < i}, NPOS)
end ==
    IF kind = "Pool" \/ m_size = 0 THEN NPOS ELSE lastI + 1

(* The handles `for (auto& x : pool)' dereferences, and those a walk from  *)
(* the last one back does, while there is a slot at that place.            *)
Visited ==
    LET Walk[n \in 0..CAP + 1] ==
            IF n = 0 THEN <<firstI>>
            ELSE LET w == Walk[n - 1]
                 IN IF Last(w) = end \/ Last(w) \notin Slots THEN w
                    ELSE Append(w, nextI(Last(w)))
        all == Walk[CAP + 1]
    IN IF Last(all) = end THEN Front(all) ELSE all

VisitedBack ==
    LET Walk[n \in 0..CAP + 1] ==
            IF n = 0 THEN <<lastI>>
            ELSE LET w == Walk[n - 1]
                 IN IF Last(w) \notin Slots THEN w ELSE Append(w, prevI(Last(w)))
        all == Walk[CAP + 1]
    IN IF Last(all) = NPOS THEN Front(all) ELSE all

-----------------------------------------------------------------------------
(* A handle stays the client's until it removes it: no two inserts in      *)
(* between give the same one, and its value is the client's.               *)
HandlesAreHeld ==
    /\ occupied = DOMAIN held
    /\ \A i \in DOMAIN held : slots[i] = held[i]
    /\ IsInjective(free)
    /\ ToSet(free) = (IF kind = "Pool" THEN Slots ELSE 0..m_size - 1) \ occupied
    /\ kind = "Pool" => m_size = Cardinality(DOMAIN held)

(* Iteration meets the held handles, each once and in order.  Forward,    *)
(* Pool does so always, and PoolSOA exactly while its last slot is held:   *)
(* once that is free, end() is a place the walk does not come by, and it   *)
(* goes on into slots nobody holds.  Backward, PoolSOA does so always, and *)
(* Pool only when nothing is held: it runs off its arrays.                 *)
IteratesHeld ==
    /\ Visited = SetToSortSeq(DOMAIN held, <)
          <=> (kind = "Pool" \/ m_size = 0 \/ m_size - 1 \in DOMAIN held)
    /\ VisitedBack = SetToSortSeq(DOMAIN held, >) <=> (kind = "PoolSOA" \/ held = <<>>)
=============================================================================
