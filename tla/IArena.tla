------------------------------- MODULE IArena -------------------------------
(***************************************************************************)
(* What the arenas share: the lists of deleters that IArena::Ptr registers *)
(* its objects in, and the client's view of the memory: the objects it     *)
(* holds, where they lie, and the scope in which each was allocated or     *)
(* last reallocated.  A scope's end takes the objects of that scope away.  *)
(*                                                                         *)
(* Sizes and addresses count units of 8 bytes, what alignUp8() rounds to.  *)
(***************************************************************************)
EXTENDS Integers, Sequences, FiniteSets, Functions

CONSTANTS Objects,   \* identities of the objects a client holds at a time
          Sizes,     \* the sizes it asks for
          MaxDepth   \* how deep it nests scopes

VARIABLES live,      \* the objects held: block, at, size, depth and role
          scopes,    \* the states captured by the open scopes
          lists,     \* m_lDeleters of the arena, then of every open scope
          m_pLCurrentDeleters,   \* which list that points to; 0 is nullptr
          ran        \* the objects whose deleter the last step ran, in order

iArenaVars == <<live, scopes, lists, m_pLCurrentDeleters, ran>>

IArenaInit ==
    /\ live = <<>>
    /\ scopes = <<>>
    /\ lists = << <<>> >>
    /\ m_pLCurrentDeleters = 1
    /\ ran = <<>>

Roles == {"data", "ptr", "scope"}
Depth == Len(scopes)

(* The Ptrs that a list of deleters still links: one that died without its *)
(* deleter stays in its list, and the client makes it no second time.      *)
Linked == UNION {Range(lists[i]) : i \in DOMAIN lists}
Unused == Objects \ (DOMAIN live \cup Linked)
Fresh == CHOOSE o \in Unused : \A p \in Unused : o <= p

Object(block, at, size, depth, role) ==
    [block |-> block, at |-> at, size |-> size, depth |-> depth, role |-> role]

(* The client's objects with that one.                                     *)
Put(o, object) == [p \in DOMAIN live \cup {o} |-> IF p = o THEN object ELSE live[p]]

(* The pointer does not dangle: the list is the arena's, or an open scope's. *)
ListExists == m_pLCurrentDeleters \in DOMAIN lists

(* Mutant: the node is appended.                                           *)
RegisterLast(o) ==
    lists' = IF ListExists THEN [lists EXCEPT ![m_pLCurrentDeleters] = Append(@, o)] ELSE lists

(* Ptr's constructor prepends its node to the current list, once the       *)
(* allocation has not thrown.  Through a pointer that dangles the node is  *)
(* linked to what is left of an ended scope, which no list here is.        *)
Register(o) ==
    lists' = IF ListExists THEN [lists EXCEPT ![m_pLCurrentDeleters] = <<o>> \o @] ELSE lists

(* The lists with the current one emptied.                                 *)
Deleted == IF ListExists THEN [lists EXCEPT ![m_pLCurrentDeleters] = <<>>] ELSE lists

(* The objects linked to what is left of ended scopes.                     *)
Stray == {o \in DOMAIN live : live[o].role = "ptr" /\ o \notin Linked}

(* The current list's deleters run.  A list that dangles may still hold    *)
(* what strayed into it, or be overwritten: any of those run, in any order. *)
RunsDeleters ==
    \/ ListExists /\ ran' = lists[m_pLCurrentDeleters]
    \/ /\ ~ListExists
       /\ \E n \in 0..Cardinality(Stray) :
             ran' \in {s \in [1..n -> Stray] : IsInjective(s)}

NothingRan == ran' = <<>>

(* The scopes, or the lists of deleters, without the innermost scope's.    *)
Outer(s) == SubSeq(s, 1, Len(s) - 1)

(* The client's objects once the innermost scope has ended.                *)
Outliving == Restrict(live, {o \in DOMAIN live : live[o].depth < Depth})

-----------------------------------------------------------------------------
End(o) == live[o].at + live[o].size

(* No two of the client's objects share memory.                            *)
AreDisjoint ==
    \A o, p \in DOMAIN live :
        o # p /\ live[o].block = live[p].block => End(o) <= live[p].at \/ End(p) <= live[o].at

(* A list holds every object with a destructor that dies with its scope,   *)
(* once, and nothing else.                                                 *)
IsExact(i) ==
    /\ IsInjective(lists[i])
    /\ Range(lists[i]) = {o \in DOMAIN live : live[o].role = "ptr" /\ live[o].depth = i - 1}

(* Objects are destructed exactly when they die, youngest first.           *)
DiesOnce ==
    LET dead == {o \in DOMAIN live : o \notin DOMAIN live' /\ live[o].role = "ptr"}
    IN /\ Range(ran') = dead
       /\ IsInjective(ran')
       /\ \A i, j \in DOMAIN ran' :
             i < j /\ live[ran'[i]].block = live[ran'[j]].block
                => live[ran'[i]].at > live[ran'[j]].at
=============================================================================
