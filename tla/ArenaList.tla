----------------------------- MODULE ArenaList ------------------------------
(***************************************************************************)
(* The arena of chained blocks of ArenaList.hh.  m_pBlocks is the chain,   *)
(* newest block first; `block' holds every block the backing allocator has *)
(* given and not got back, so a block may be there and not in the chain.   *)
(*                                                                         *)
(* ArenaListState captures no list of deleters: after a scope's end the    *)
(* current one dangles, until another scope is entered.  Objects registered *)
(* then stray, and the list that the outer scope's end runs is not its own. *)
(***************************************************************************)
EXTENDS IArena, SequencesExt

CONSTANTS Blocks,            \* addresses of blocks, in the order they are given
          defaultCapacity    \* in bytes, rounded by alignUp8()

VARIABLES block, m_pBlocks

memoryVars == <<block, m_pBlocks>>
vars == <<iArenaVars, memoryVars>>

NewBlock(cap) == [cap |-> cap, occupied |-> 0, pLastAlloc |-> 0]

Init ==
    /\ IArenaInit
    /\ block = [b \in {1} |-> NewBlock(defaultCapacity)]
    /\ m_pBlocks = <<1>>

(* The first block of the chain with more room than that.                  *)
Fits(b, size) == 8 * size < block[b].cap - 8 * block[b].occupied
findFittingBlock(size) == SelectInSeq(m_pBlocks, LAMBDA b : Fits(b, size))

(* Half as long again as a block that is too small, in whole bytes.        *)
BlockSize(size) ==
    LET bytes == (8 * size * 133) \div 100
    IN IF bytes > defaultCapacity THEN bytes ELSE defaultCapacity

(* The block of an allocation, and where the chain and the blocks are then. *)
Placed(size) ==
    LET i == findFittingBlock(size)
        b == CHOOSE c \in Blocks \ DOMAIN block :
                \A d \in Blocks \ DOMAIN block : c <= d
    IN IF i # 0
       THEN [in |-> m_pBlocks[i], chain |-> m_pBlocks, blocks |-> block]
       ELSE [in |-> b, chain |-> <<b>> \o m_pBlocks,
             blocks |-> [c \in DOMAIN block \cup {b} |->
                           IF c = b THEN NewBlock(BlockSize(size)) ELSE block[c]]]

(* The backing allocator throws when it is out of blocks.                  *)
Allocate(o, size, depth, role) ==
    /\ findFittingBlock(size) # 0 \/ Blocks \ DOMAIN block # {}
    /\ LET p == Placed(size)
           at == p.blocks[p.in].occupied
       IN /\ block' = [p.blocks EXCEPT ![p.in].occupied = at + size,
                                       ![p.in].pLastAlloc = at]
          /\ m_pBlocks' = p.chain
          /\ live' = Put(o, Object(p.in, at, size, depth, role))

malloc ==
    /\ Unused # {}
    /\ \E n \in Sizes : Allocate(Fresh, n, Depth, "data")
    /\ NothingRan
    /\ UNCHANGED <<scopes, lists, m_pLCurrentDeleters>>

initPtr ==
    /\ Unused # {}
    /\ \E n \in Sizes : Allocate(Fresh, n, Depth, "ptr")
    /\ Register(Fresh)
    /\ NothingRan
    /\ UNCHANGED <<scopes, m_pLCurrentDeleters>>

(* Mutant: the last object grows in place, whatever its block holds.       *)
BumpsAlways(o, n) ==
    LET b == block[live[o].block]
    IN live[o].at = b.pLastAlloc

(* Growing in place is for the last object of a block, within the block.   *)
Bumps(o, n) ==
    LET b == block[live[o].block]
    IN live[o].at = b.pLastAlloc /\ 8 * (b.pLastAlloc + n) <= b.cap

(* It throws for an object whose block is not in the chain.                *)
realloc(o, n) ==
    /\ live[o].role = "data"
    /\ live[o].block \in ToSet(m_pBlocks)
    /\ \/ /\ Bumps(o, n)
          /\ block' = [block EXCEPT ![live[o].block].occupied = live[o].at + n]
          /\ live' = [live EXCEPT ![o].size = n, ![o].depth = Depth]
          /\ UNCHANGED m_pBlocks
       \/ /\ ~Bumps(o, n) /\ n <= live[o].size
          /\ live' = [live EXCEPT ![o].size = n, ![o].depth = Depth]
          /\ UNCHANGED memoryVars
       \/ /\ ~Bumps(o, n) /\ n > live[o].size
          /\ Allocate(o, n, Depth, "data")
    /\ NothingRan
    /\ UNCHANGED <<scopes, lists, m_pLCurrentDeleters>>

ArenaListState ==
    LET b == Head(m_pBlocks)
    IN [last |-> b, occupied |-> block[b].occupied, pLastAlloc |-> block[b].pLastAlloc]

Enter ==
    /\ Depth < MaxDepth /\ m_pBlocks # <<>>
    /\ scopes' = Append(scopes, ArenaListState)
    /\ lists' = Append(lists, <<>>)
    /\ m_pLCurrentDeleters' = Len(lists) + 1
    /\ NothingRan

ArenaListScope ==
    /\ Enter
    /\ UNCHANGED <<live, memoryVars>>

restoreAfterScope ==
    /\ Unused # {}
    /\ Enter
    /\ Allocate(Fresh, 1, Depth + 1, "scope")

(* The blocks before the captured one go back to the allocator, and those  *)
(* behind it are cut off.  When an inner scope's end has cut off the       *)
(* captured one the walk ends in a null pointer: no step.                  *)
EndScope ==
    /\ scopes # <<>> /\ scopes[Depth].last \in ToSet(m_pBlocks)
    /\ LET state == scopes[Depth]
           newer == {m_pBlocks[i] : i \in 1..SelectInSeq(m_pBlocks, LAMBDA b : b = state.last) - 1}
       IN /\ block' = [Restrict(block, DOMAIN block \ newer) EXCEPT
                           ![state.last].occupied = state.occupied,
                           ![state.last].pLastAlloc = state.pLastAlloc]
          /\ m_pBlocks' = <<state.last>>
    /\ RunsDeleters
    /\ lists' = Outer(Deleted)
    /\ scopes' = Outer(scopes)
    /\ live' = Outliving
    /\ UNCHANGED m_pLCurrentDeleters

(* reset(), shrinkToFirstBlock() and freeAll() run no deleters, and leave  *)
(* the nodes of what dies where they are linked.  A client calls them      *)
(* outside of its scopes.                                                  *)
reset ==
    /\ scopes = <<>>
    /\ block' = [b \in DOMAIN block |->
                    IF b \in ToSet(m_pBlocks)
                    THEN [block[b] EXCEPT !.occupied = 0, !.pLastAlloc = 0] ELSE block[b]]
    /\ live' = <<>>
    /\ NothingRan
    /\ UNCHANGED <<m_pBlocks, scopes, lists, m_pLCurrentDeleters>>

(* The oldest block of the chain and what lies in it stay.                 *)
shrinkToFirstBlock ==
    /\ scopes = <<>> /\ m_pBlocks # <<>>
    /\ m_pBlocks' = <<Last(m_pBlocks)>>
    /\ block' = Restrict(block, DOMAIN block \ ToSet(Front(m_pBlocks)))
    /\ live' = Restrict(live, {o \in DOMAIN live : live[o].block \notin ToSet(Front(m_pBlocks))})
    /\ NothingRan
    /\ UNCHANGED <<scopes, lists, m_pLCurrentDeleters>>

freeAll ==
    /\ scopes = <<>>
    /\ m_pBlocks' = <<>>
    /\ block' = Restrict(block, DOMAIN block \ ToSet(m_pBlocks))
    /\ live' = <<>>
    /\ NothingRan
    /\ UNCHANGED <<scopes, lists, m_pLCurrentDeleters>>

Next ==
    \/ malloc
    \/ initPtr
    \/ \E o \in DOMAIN live, n \in Sizes : realloc(o, n)
    \/ ArenaListScope
    \/ restoreAfterScope
    \/ EndScope
    \/ reset
    \/ shrinkToFirstBlock
    \/ freeAll

Spec == Init /\ [][Next]_vars

-----------------------------------------------------------------------------
(* The client's objects lie apart, in blocks the arena has not given back, *)
(* below what their block counts as occupied, which the block can hold.    *)
LiveIntact ==
    /\ AreDisjoint
    /\ \A o \in DOMAIN live :
        /\ live[o].block \in DOMAIN block
        /\ End(o) <= block[live[o].block].occupied
    /\ \A b \in DOMAIN block : 8 * block[b].occupied <= block[b].cap
    /\ ToSet(m_pBlocks) \subseteq DOMAIN block /\ IsInjective(m_pBlocks)

(* "Switch and restore current list on scope changes": the current list is *)
(* that of the innermost open scope.                                       *)
CurrentListIsOpen == m_pLCurrentDeleters = Len(lists)

(* While the pointer does not dangle and a scope is open, its list is exact. *)
IsRegistered == ListExists /\ scopes # <<>> => IsExact(m_pLCurrentDeleters)

(* A scope's end in whose scope no other scope ended runs the deleters of  *)
(* the objects that die, once each and youngest first in a block.  Nothing *)
(* else runs a deleter.  Nothing is claimed of a list that dangles.        *)
DestructsDead ==
    ListExists => IF Len(scopes') < Depth THEN DiesOnce ELSE NothingRan
=============================================================================
