------------------------------- MODULE Arena --------------------------------
(***************************************************************************)
(* The reserve and commit arena of Arena.hh: one range of addresses, a     *)
(* position that only moves by allocation, reallocation of the last object *)
(* and scopes, and a committed prefix that grows by pages.  A call that    *)
(* throws changes nothing and is not a step.                               *)
(***************************************************************************)
EXTENDS IArena

CONSTANTS PageSize,   \* in units
          Reserved,   \* the pages a new arena reserves
          Commits     \* the pages it may commit at the start

VARIABLES m_pos, m_reserved, m_commited, m_pLastAlloc

memoryVars == <<m_pos, m_reserved, m_commited, m_pLastAlloc>>
vars == <<iArenaVars, memoryVars>>

INVALID_PTR == -1

Init ==
    /\ IArenaInit
    /\ m_pos = 0
    /\ m_reserved = Reserved * PageSize
    /\ m_commited \in {n * PageSize : n \in Commits}
    /\ m_pLastAlloc = INVALID_PTR

alignUpPage(n) == ((n + PageSize - 1) \div PageSize) * PageSize

Larger(m, n) == IF m > n THEN m ELSE n

(* What growIfNeeded() commits for a position.                             *)
Committed(newPos) ==
    IF newPos > m_commited THEN Larger(alignUpPage(newPos), m_commited * 2) ELSE m_commited

(* It throws rather than commit more than what was reserved.               *)
growIfNeeded(newPos) ==
    /\ Committed(newPos) <= m_reserved
    /\ m_commited' = Committed(newPos)
    /\ m_pos' = newPos

(* A new object at the position.                                           *)
Allocate(size, depth, role) ==
    /\ growIfNeeded(m_pos + size)
    /\ m_pLastAlloc' = m_pos
    /\ live' = Put(Fresh, Object(0, m_pos, size, depth, role))
    /\ UNCHANGED m_reserved

malloc ==
    /\ Unused # {}
    /\ \E n \in Sizes : Allocate(n, Depth, "data")
    /\ NothingRan
    /\ UNCHANGED <<scopes, lists, m_pLCurrentDeleters>>

initPtr ==
    /\ Unused # {} /\ ListExists
    /\ \E n \in Sizes : Allocate(n, Depth, "ptr")
    /\ Register(Fresh)
    /\ NothingRan
    /\ UNCHANGED <<scopes, m_pLCurrentDeleters>>

(* The last object grows or shrinks where it is, any other that grows moves, *)
(* and what was there is not reused.                                       *)
realloc(o, n) ==
    /\ live[o].role = "data"
    /\ \/ /\ live[o].at = m_pLastAlloc
          /\ growIfNeeded(m_pLastAlloc + n)
          /\ live' = [live EXCEPT ![o].size = n, ![o].depth = Depth]
          /\ UNCHANGED m_pLastAlloc
       \/ /\ live[o].at # m_pLastAlloc
          /\ n <= live[o].size
          /\ live' = [live EXCEPT ![o].size = n, ![o].depth = Depth]
          /\ UNCHANGED <<m_pos, m_commited, m_pLastAlloc>>
       \/ /\ live[o].at # m_pLastAlloc
          /\ n > live[o].size
          /\ growIfNeeded(m_pos + n)
          /\ m_pLastAlloc' = m_pos
          /\ live' = [live EXCEPT ![o] = Object(0, m_pos, n, Depth, "data")]
    /\ NothingRan
    /\ UNCHANGED <<m_reserved, scopes, lists, m_pLCurrentDeleters>>

State == [pos |-> m_pos, last |-> m_pLastAlloc, current |-> m_pLCurrentDeleters]

(* Entering a scope captures the state and redirects the deleters.         *)
Enter ==
    /\ Depth < MaxDepth
    /\ scopes' = Append(scopes, State)
    /\ lists' = Append(lists, <<>>)
    /\ m_pLCurrentDeleters' = Len(lists) + 1
    /\ NothingRan

ArenaScope ==
    /\ Enter
    /\ UNCHANGED <<live, memoryVars>>

(* The scope object lies in the arena itself, above the state it captured. *)
restoreAfterScope ==
    /\ Unused # {}
    /\ Enter
    /\ Allocate(1, Depth + 1, "scope")

EndScope ==
    /\ scopes # <<>> /\ ListExists
    /\ LET state == scopes[Depth]
       IN /\ m_pos' = state.pos
          /\ m_pLastAlloc' = state.last
          /\ m_pLCurrentDeleters' = state.current
    /\ RunsDeleters
    /\ lists' = Outer(Deleted)
    /\ scopes' = Outer(scopes)
    /\ live' = Outliving
    /\ UNCHANGED <<m_reserved, m_commited>>

(* A client resets and frees an arena outside of its scopes.               *)
Clear ==
    /\ scopes = <<>> /\ ListExists
    /\ RunsDeleters
    /\ lists' = Deleted
    /\ live' = <<>>
    /\ m_pos' = 0
    /\ m_pLastAlloc' = INVALID_PTR
    /\ UNCHANGED scopes

reset ==
    /\ Clear
    /\ UNCHANGED <<m_commited, m_reserved, m_pLCurrentDeleters>>

resetDecommit ==
    /\ Clear
    /\ m_commited' = 0
    /\ UNCHANGED <<m_reserved, m_pLCurrentDeleters>>

resetToPage(nthPage) ==
    /\ nthPage * PageSize <= m_reserved
    /\ Clear
    /\ m_commited' = nthPage * PageSize
    /\ UNCHANGED <<m_reserved, m_pLCurrentDeleters>>

(* The arena becomes a default constructed one, for which all throws.      *)
freeAll ==
    /\ Clear
    /\ m_commited' = 0
    /\ m_reserved' = 0
    /\ m_pLCurrentDeleters' = 0

Next ==
    \/ malloc
    \/ initPtr
    \/ \E o \in DOMAIN live, n \in Sizes : realloc(o, n)
    \/ ArenaScope
    \/ restoreAfterScope
    \/ EndScope
    \/ reset
    \/ resetDecommit
    \/ \E n \in 0..Reserved + 1 : resetToPage(n)
    \/ freeAll

Spec == Init /\ [][Next]_vars

-----------------------------------------------------------------------------
(* Whatever was reallocated in place, moved, or given back by a scope, the *)
(* objects of the client lie apart, below the position, in committed       *)
(* memory.                                                                 *)
LiveIntact ==
    /\ AreDisjoint
    /\ \A o \in DOMAIN live : End(o) <= m_pos
    /\ 0 <= m_pos /\ m_pos <= m_commited /\ m_commited <= m_reserved

(* The current list is the innermost scope's, over any nesting.            *)
CurrentListIsOpen == m_pLCurrentDeleters \in {Len(lists), 0}

(* Every object with a destructor is registered with the scope it dies     *)
(* with, in every list.                                                    *)
IsRegistered == \A i \in DOMAIN lists : IsExact(i)

(* The deleters that run in a step are those of the objects that die in it, *)
(* once each and youngest first: at a scope's end, in reset(), in          *)
(* resetDecommit(), in resetToPage() and in freeAll().                     *)
DestructsDead == DiesOnce
=============================================================================
