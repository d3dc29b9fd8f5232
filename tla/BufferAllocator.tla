--------------------------- MODULE BufferAllocator --------------------------
(***************************************************************************)
(* The bump allocator over a fixed buffer of BufferAllocator.hh.  Like     *)
(* ArenaList it leaves the current list of deleters dangling after a scope, *)
(* until another one is entered.                                           *)
(* restoreAfterScope() captures nothing but the allocator itself: its end  *)
(* takes everything back.  The careful client calls it on an empty buffer. *)
(***************************************************************************)
EXTENDS IArena

CONSTANTS m_cap       \* in units

VARIABLES m_size, m_pLastAlloc

memoryVars == <<m_size, m_pLastAlloc>>
vars == <<iArenaVars, memoryVars>>

nullptr == -1

Init ==
    /\ IArenaInit
    /\ m_size = 0
    /\ m_pLastAlloc = nullptr

(* It throws when the buffer is too small.                                 *)
Allocate(o, size, depth, role) ==
    /\ m_size + size <= m_cap
    /\ m_size' = m_size + size
    /\ m_pLastAlloc' = m_size
    /\ live' = Put(o, Object(0, m_size, size, depth, role))

malloc ==
    /\ Unused # {}
    /\ \E n \in Sizes : Allocate(Fresh, n, Depth, "data")
    /\ NothingRan
    /\ UNCHANGED <<scopes, lists, m_pLCurrentDeleters>>

initPtr ==
    /\ Unused # {}
    /\ \E n \in Sizes : Allocate(Fresh, n, Depth, "ptr")
    /\ Register(Fresh)
    /\ NothingRan
    /\ UNCHANGED <<scopes, m_pLCurrentDeleters>>

realloc(o, n) ==
    /\ live[o].role = "data"
    /\ \/ /\ live[o].at = m_pLastAlloc
          /\ m_pLastAlloc + n <= m_cap
          /\ m_size' = m_pLastAlloc + n
          /\ live' = [live EXCEPT ![o].size = n, ![o].depth = Depth]
          /\ UNCHANGED m_pLastAlloc
       \/ /\ live[o].at # m_pLastAlloc /\ n <= live[o].size
          /\ live' = [live EXCEPT ![o].size = n, ![o].depth = Depth]
          /\ UNCHANGED memoryVars
       \/ /\ live[o].at # m_pLastAlloc /\ n > live[o].size
          /\ Allocate(o, n, Depth, "data")
    /\ NothingRan
    /\ UNCHANGED <<scopes, lists, m_pLCurrentDeleters>>

Enter(state) ==
    /\ Depth < MaxDepth
    /\ scopes' = Append(scopes, state)
    /\ lists' = Append(lists, <<>>)
    /\ m_pLCurrentDeleters' = Len(lists) + 1
    /\ NothingRan

BufferAllocatorScope ==
    /\ Enter([size |-> m_size, last |-> m_pLastAlloc])
    /\ UNCHANGED <<live, memoryVars>>

restoreAfterScope ==
    /\ Unused # {} /\ m_size = 0
    /\ Enter([size |-> 0, last |-> nullptr])
    /\ Allocate(Fresh, 1, Depth + 1, "scope")

restore ==
    /\ scopes # <<>>
    /\ RunsDeleters
    /\ lists' = Outer(Deleted)
    /\ m_size' = scopes[Depth].size
    /\ m_pLastAlloc' = scopes[Depth].last
    /\ scopes' = Outer(scopes)
    /\ live' = Outliving
    /\ UNCHANGED m_pLCurrentDeleters

(* freeAll() is the same.                                                  *)
reset ==
    /\ scopes = <<>>
    /\ RunsDeleters
    /\ lists' = Deleted
    /\ m_size' = 0
    /\ m_pLastAlloc' = nullptr
    /\ live' = <<>>
    /\ UNCHANGED <<scopes, m_pLCurrentDeleters>>

Next ==
    \/ malloc
    \/ initPtr
    \/ \E o \in DOMAIN live, n \in Sizes : realloc(o, n)
    \/ BufferAllocatorScope
    \/ restoreAfterScope
    \/ restore
    \/ reset

Spec == Init /\ [][Next]_vars

-----------------------------------------------------------------------------
(* The client's objects lie apart, in the used part of the buffer.         *)
LiveIntact ==
    /\ AreDisjoint
    /\ \A o \in DOMAIN live : End(o) <= m_size
    /\ m_size <= m_cap

(* While the pointer does not dangle the list it points to is exact.       *)
IsRegistered == ListExists => IsExact(m_pLCurrentDeleters)

(* A scope's end, reset() and freeAll() run the deleters of the objects    *)
(* that die, once each and youngest first, as long as the current list     *)
(* does not dangle.  Nothing is claimed of one that does.                  *)
DestructsDead == ListExists => DiesOnce
=============================================================================
