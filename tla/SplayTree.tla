----------------------------- MODULE SplayTree -----------------------------
(***************************************************************************)
(* SplayTree (src/src/WIP/SplayTree.hh): every operation first brings the  *)
(* key, or the last node on the way to it, to the root.  The code writes   *)
(* each case twice, for left and right; here a side is a parameter.        *)
(***************************************************************************)
EXTENDS Integers, Sequences, FiniteSetsExt, SequencesExt

CONSTANTS Nodes,    \* what the client allocates: positive numbers
          Data      \* m_data of each, an integer

VARIABLES tree,
          keys,     \* history: the values the client has in the tree
          answer    \* history: the search just made, what it returned, what it should have

vars == <<tree, keys, answer>>

Nil == 0
Sides == {"left", "right"}
Other(s) == IF s = "left" THEN "right" ELSE "left"

(* The local `node' of splay(), whose two children are the trees it sets   *)
(* aside.                                                                  *)
Header == -1

EmptyTree == [root |-> Nil, child |-> [s \in Sides |-> [n \in Nodes |-> Nil]]]
NoAnswer == [key |-> 0, node |-> Nil, among |-> FALSE]

(* The side of the root where the key is; it is not the root's.            *)
SideOf(t, key) == IF key < Data[t.root] THEN "left" ELSE "right"
IsBeyond(key, n, s) == IF s = "left" THEN key < Data[n] ELSE key > Data[n]

(* rotateRight() of the left child, rotateLeft() of the right one.         *)
RotateUp(t, s) ==
    LET p == t.child[s][t.root]
    IN [t EXCEPT !.child[s][t.root] = t.child[Other(s)][p],
                 !.child[Other(s)][p] = t.root, !.root = p]

(* linkLeft(), linkRight(): the root goes to the tree set aside on the     *)
(* other side, under its last node.                                        *)
Link(t, s) ==
    LET o == Other(s)
    IN [t EXCEPT !.child[s][t.last[o]] = t.root, !.last[o] = t.root,
                 !.root = t.child[s][t.root]]

assemble(t) ==
    LET l == t.child["left"][t.root]
        r == t.child["right"][t.root]
        c1 == [t.child EXCEPT !["right"][t.last["left"]] = l]
        c2 == [c1 EXCEPT !["left"][t.last["right"]] = r]
        c3 == [c2 EXCEPT !["left"][t.root] = c2["right"][Header],
                         !["right"][t.root] = c2["left"][Header]]
    IN [root |-> t.root, child |-> [s \in Sides |-> [n \in Nodes |-> c3[s][n]]]]

RECURSIVE Descend(_, _)
Descend(t, key) ==
    LET s == SideOf(t, key)
        tmp == t.child[s][t.root]
        t1 == IF IsBeyond(key, tmp, s) THEN RotateUp(t, s) ELSE t
    IN IF key = Data[t.root] \/ tmp = Nil THEN assemble(t)
       ELSE IF t1.child[s][t1.root] = Nil THEN assemble(t1)
       ELSE Descend(Link(t1, s), key)

splay(t, key) ==
    Descend([root |-> t.root,
             child |-> [s \in Sides |-> [n \in Nodes \cup {Header} |->
                           IF n = Header THEN Nil ELSE t.child[s][n]]],
             last |-> [s \in Sides |-> Header]], key)

-----------------------------------------------------------------------------
(* What hangs in no tree is the client's again: its pointers are not read. *)
Freed(t, n) == [t EXCEPT !.child = [s \in Sides |-> [@[s] EXCEPT ![n] = Nil]]]

Init == tree = EmptyTree /\ keys = {} /\ answer = NoAnswer

(* Whether a node hangs in the tree: the client does not insert it again.  *)
RECURSIVE Subtree(_, _)
Subtree(t, n) ==
    IF n = Nil THEN {}
    ELSE {n} \cup Subtree(t, t.child["left"][n]) \cup Subtree(t, t.child["right"][n])

(* A node whose value is in the tree already is not linked in.             *)
insertNode(p) ==
    /\ p \notin Subtree(tree, tree.root)
    /\ LET t == splay(tree, Data[p])
           s == SideOf(t, Data[p])
       IN tree' = IF tree.root = Nil
                  THEN [tree EXCEPT !.root = p, !.child["left"][p] = Nil,
                                    !.child["right"][p] = Nil]
                  ELSE IF Data[p] = Data[t.root] THEN t
                  ELSE [t EXCEPT !.child[s][p] = t.child[s][t.root],
                                 !.child[Other(s)][p] = t.root,
                                 !.child[s][t.root] = Nil, !.root = p]
    /\ keys' = keys \cup {Data[p]}
    /\ answer' = NoAnswer

search(key) ==
    /\ tree.root # Nil
    /\ LET t == splay(tree, key)
       IN /\ tree' = t
          /\ answer' = [key |-> key, among |-> key \in keys,
                        node |-> IF key = Data[t.root] THEN t.root ELSE Nil]
    /\ UNCHANGED keys

(* Mutant: the right subtree is not hung under the left one's maximum.     *)
removeLosingRight(p) ==
    /\ tree.root # Nil
    /\ LET t == splay(tree, Data[p])
       IN IF Data[p] # Data[t.root] THEN tree' = t /\ UNCHANGED keys
          ELSE /\ tree' = Freed(IF t.child["left"][t.root] = Nil
                                THEN [t EXCEPT !.root = t.child["right"][t.root]]
                                ELSE splay([t EXCEPT !.root = t.child["left"][t.root]], Data[p]),
                                t.root)
               /\ keys' = keys \ {Data[p]}
    /\ answer' = NoAnswer

(* The node in the tree with p's value goes, be it p or an equal one.      *)
remove(p) ==
    /\ tree.root # Nil
    /\ LET t == splay(tree, Data[p])
           left == t.child["left"][t.root]
           right == t.child["right"][t.root]
           l == splay([t EXCEPT !.root = left], Data[p])
       IN IF Data[p] # Data[t.root] THEN tree' = t /\ UNCHANGED keys
          ELSE /\ tree' = Freed(IF left = Nil THEN [t EXCEPT !.root = right]
                                ELSE [l EXCEPT !.child["right"][l.root] = right], t.root)
               /\ keys' = keys \ {Data[p]}
    /\ answer' = NoAnswer

Next ==
    \/ \E p \in Nodes : insertNode(p) \/ remove(p)
    \/ \E p \in Nodes : search(Data[p])

Spec == Init /\ [][Next]_vars

-----------------------------------------------------------------------------
RECURSIVE InOrder(_, _)
InOrder(t, n) ==
    IF n = Nil THEN <<>>
    ELSE InOrder(t, t.child["left"][n]) \o <<Data[n]>> \o InOrder(t, t.child["right"][n])

(* However often it was splayed apart and put together, the tree holds the *)
(* client's values, each once and in order, and a search found its key     *)
(* exactly when it was there.                                              *)
IsSearchTree ==
    /\ InOrder(tree, tree.root) = SetToSortSeq(keys, <)
    /\ answer.node # Nil => answer.key = Data[answer.node]
    /\ (answer.node # Nil) = answer.among
=============================================================================
