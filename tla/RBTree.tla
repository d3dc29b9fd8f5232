------------------------------- MODULE RBTree -------------------------------
(***************************************************************************)
(* RBTree (src/include/adt/RBTree.hh): nodes linked to their children and  *)
(* parent, recoloured and rotated on the way up after an insertion or a    *)
(* removal. The code writes every case twice, for left and right; here a   *)
(* side is a parameter.                                                    *)
(*                                                                         *)
(* A tree is a record of m_pRoot and, for every node the client has        *)
(* allocated, its children, its parent and whether it is red.              *)
(***************************************************************************)
EXTENDS Integers, Sequences, FiniteSets

CONSTANTS Nodes,    \* the nodes a client allocates: positive numbers
          Data      \* m_data of each, an integer

Nil == 0

VARIABLES tree,
          m_size,
          inserted  \* history: the nodes insertNode() took and remove() has not returned

vars == <<tree, m_size, inserted>>

Sides == {"left", "right"}
Other(s) == IF s = "left" THEN "right" ELSE "left"

EmptyTree == [root |-> Nil,
              child |-> [s \in Sides |-> [n \in Nodes |-> Nil]],
              parent |-> [n \in Nodes |-> Nil],
              red |-> [n \in Nodes |-> FALSE]]

\* `p && p->color() == RB_COLOR::RED`
Red(t, n) == n # Nil /\ t.red[n]

\* setParent() and setColor() behind a test for null.
SetParent(t, n, p) == IF n = Nil THEN t ELSE [t EXCEPT !.parent[n] = p]
SetColor(t, n, isRed) == IF n = Nil THEN t ELSE [t EXCEPT !.red[n] = isRed]
setBlackRed(t, black, red) == [t EXCEPT !.red[black] = FALSE, !.red[red] = TRUE]

\* Hangs `new` where `old` hung under p, or makes it the root.
SideOf(t, p, n) == IF t.child["left"][p] = n THEN "left" ELSE "right"
Relink(t, p, old, new) ==
    IF p = Nil THEN [t EXCEPT !.root = new]
    ELSE [t EXCEPT !.child[SideOf(t, p, old)][p] = new]

\* rotateLeft() for s = "left", rotateRight() for s = "right".
Rotate(t, elm, s) ==
    LET tmp == t.child[Other(s)][elm]
        mid == t.child[s][tmp]
        t1 == SetParent([t EXCEPT !.child[Other(s)][elm] = mid], mid, elm)
        t2 == Relink(SetParent(t1, tmp, t1.parent[elm]), t1.parent[elm], elm, tmp)
    IN [t2 EXCEPT !.child[s][tmp] = elm, !.parent[elm] = tmp]

RECURSIVE insertColor(_, _)
insertColor(t, elm) ==
    LET parent == t.parent[elm]
        gparent == t.parent[parent]
        s == SideOf(t, gparent, parent)
        uncle == t.child[Other(s)][gparent]
        inner == t.child[Other(s)][parent] = elm
        t1 == IF inner THEN Rotate(t, parent, s) ELSE t
        upper == IF inner THEN elm ELSE parent
        lower == IF inner THEN parent ELSE elm
    IN IF ~Red(t, parent) THEN [t EXCEPT !.red[t.root] = FALSE]
       ELSE IF Red(t, uncle)
            THEN insertColor(setBlackRed(SetColor(t, uncle, FALSE), parent, gparent), gparent)
       ELSE insertColor(Rotate(setBlackRed(t1, upper, gparent), gparent, Other(s)), lower)

RECURSIVE removeColor(_, _, _)
removeColor(t, parent, elm) ==
    LET s == SideOf(t, parent, elm)
        o == Other(s)
        sibling == t.child[o][parent]
        t1 == IF Red(t, sibling) THEN Rotate(setBlackRed(t, sibling, parent), parent, s) ELSE t
        tmp == t1.child[o][parent]
        near == t1.child[s][tmp]
        far == t1.child[o][tmp]
        t2 == IF Red(t1, far) THEN t1
              ELSE Rotate(SetColor(SetColor(t1, near, FALSE), tmp, TRUE), tmp, o)
        top == t2.child[o][parent]
        t3 == SetColor([t2 EXCEPT !.red[top] = t2.red[parent], !.red[parent] = FALSE],
                       t2.child[o][top], FALSE)
        t4 == Rotate(t3, parent, s)
    IN IF Red(t, elm) \/ elm = t.root THEN SetColor(t, elm, FALSE)
       ELSE IF ~Red(t1, near) /\ ~Red(t1, far)
            THEN removeColor(SetColor(t1, tmp, TRUE), t1.parent[parent], parent)
       ELSE SetColor(t4, t4.root, FALSE)

\* leftMost() and rightMost() of the subtree at n, which is not null.
RECURSIVE Outermost(_, _, _)
Outermost(t, n, s) ==
    IF t.child[s][n] = Nil THEN n ELSE Outermost(t, t.child[s][n], s)

\* remove() of a node with at most one child: the child takes its place.
Splice(t, elm, child) ==
    Relink(SetParent(t, child, t.parent[elm]), t.parent[elm], elm, child)

removeLeaf(t, elm) ==
    LET child == IF t.child["left"][elm] = Nil THEN t.child["right"][elm]
                 ELSE t.child["left"][elm]
        t1 == Splice(t, elm, child)
    IN IF t.red[elm] THEN t1 ELSE removeColor(t1, t.parent[elm], child)

\* Mutant: only the left child learns of its new parent.
AdoptLeft(t, elm) == SetParent(t, t.child["left"][elm], elm)

AdoptChildren(t, elm) ==
    SetParent(SetParent(t, t.child["left"][elm], elm), t.child["right"][elm], elm)

\* remove() of a node with two children: its successor is taken out of its
\* place and gets the links and the colour of the node.
removeInner(t, old) ==
    LET elm == Outermost(t, t.child["right"][old], "left")
        child == t.child["right"][elm]
        t1 == Splice(t, elm, child)
        t2 == [t1 EXCEPT !.child["left"][elm] = t1.child["left"][old],
                         !.child["right"][elm] = t1.child["right"][old],
                         !.parent[elm] = t1.parent[old],
                         !.red[elm] = t1.red[old]]
        t3 == Relink(t2, t2.parent[old], old, elm)
        t4 == AdoptChildren(t3, elm)
        parent == IF t.parent[elm] = old THEN elm ELSE t.parent[elm]
    IN IF t.red[elm] THEN t4 ELSE removeColor(t4, parent, child)

\* Where insertNode() ends: the last node it passed and the side it left it
\* by, or the equal node at which it returns when duplicates are not allowed.
RECURSIVE Descend(_, _, _, _, _)
Descend(t, data, dup, parent, s) ==
    LET n == IF parent = Nil THEN t.root ELSE t.child[s][parent]
    IN IF n = Nil THEN [at |-> parent, side |-> s, equal |-> FALSE]
       ELSE IF Data[n] = data /\ ~dup THEN [at |-> n, side |-> s, equal |-> TRUE]
       ELSE Descend(t, data, dup, n, IF data <= Data[n] THEN "left" ELSE "right")

\* search()
RECURSIVE SearchFrom(_, _, _)
SearchFrom(t, n, data) ==
    IF n = Nil \/ Data[n] = data THEN n
    ELSE SearchFrom(t, t.child[IF data < Data[n] THEN "left" ELSE "right"][n], data)

\* successor() for s = "right", predecessor() for s = "left".
RECURSIVE Climb(_, _, _)
Climb(t, n, s) ==
    LET p == t.parent[n]
    IN IF p # Nil /\ t.child[s][p] = n THEN Climb(t, p, s) ELSE p
Step(t, n, s) ==
    IF t.child[s][n] # Nil THEN Outermost(t, t.child[s][n], Other(s)) ELSE Climb(t, n, s)

\* traverseIn(): the nodes of a subtree in order.
RECURSIVE InOrder(_, _)
InOrder(t, n) ==
    IF n = Nil THEN <<>>
    ELSE InOrder(t, t.child["left"][n]) \o <<n>> \o InOrder(t, t.child["right"][n])

----------------------------------------------------------------------------
Init == tree = EmptyTree /\ m_size = 0 /\ inserted = {}

insertNode(n, dup) ==
    /\ n \notin inserted
    /\ LET d == Descend(tree, Data[n], dup, Nil, "left")
           new == [tree EXCEPT !.parent[n] = d.at, !.red[n] = TRUE,
                               !.child["left"][n] = Nil, !.child["right"][n] = Nil]
           linked == IF d.at = Nil THEN [new EXCEPT !.root = n]
                     ELSE [new EXCEPT !.child[d.side][d.at] = n]
       IN /\ ~d.equal
          /\ tree' = insertColor(linked, n)
    /\ m_size' = m_size + 1
    /\ inserted' = inserted \cup {n}

\* The links that remove() leaves in the node it returns are never read.
Forget(t, n) == [t EXCEPT !.parent[n] = Nil, !.red[n] = FALSE,
                          !.child["left"][n] = Nil, !.child["right"][n] = Nil]

remove(n) ==
    /\ n \in inserted
    /\ tree' = Forget(IF Nil \in {tree.child["left"][n], tree.child["right"][n]}
                      THEN removeLeaf(tree, n) ELSE removeInner(tree, n), n)
    /\ m_size' = m_size - 1
    /\ inserted' = inserted \ {n}

\* removeAndFree(p, data): the node that search() finds.
removeData(data) ==
    LET n == SearchFrom(tree, tree.root, data) IN n # Nil /\ remove(n)

\* destroy(), release()
destroy == tree' = EmptyTree /\ m_size' = 0 /\ inserted' = {}

Next == \/ \E n \in Nodes, dup \in BOOLEAN : insertNode(n, dup)
        \/ \E n \in Nodes : remove(n) \/ removeData(Data[n])
        \/ destroy

Spec == Init /\ [][Next]_vars

----------------------------------------------------------------------------
TypeOK == /\ tree.root \in Nodes \cup {Nil}
          /\ tree.child \in [Sides -> [Nodes -> Nodes \cup {Nil}]]
          /\ tree.parent \in [Nodes -> Nodes \cup {Nil}]
          /\ tree.red \in [Nodes -> BOOLEAN]
          /\ m_size \in 0 .. Cardinality(Nodes)

RECURSIVE BlackHeights(_)
BlackHeights(n) ==
    IF n = Nil THEN {0}
    ELSE {h + (IF tree.red[n] THEN 0 ELSE 1) :
             h \in BlackHeights(tree.child["left"][n]) \cup BlackHeights(tree.child["right"][n])}

\* After every insertion and removal the root is black, no red node has a red
\* child, and all paths down have the same number of black nodes: what keeps
\* the depth logarithmic.
IsRedBlack ==
    /\ ~Red(tree, tree.root)
    /\ \A n \in inserted : tree.red[n] => \A s \in Sides : ~Red(tree, tree.child[s][n])
    /\ Cardinality(BlackHeights(tree.root)) = 1

\* The tree holds exactly the nodes the client put in and did not take out,
\* in order of their data, and search() finds each value that is in it.
IsSearchTree ==
    LET nodes == InOrder(tree, tree.root)
    IN /\ Len(nodes) = m_size
       /\ {nodes[i] : i \in DOMAIN nodes} = inserted
       /\ m_size = Cardinality(inserted)
       /\ \A i, j \in DOMAIN nodes : i < j => Data[nodes[i]] <= Data[nodes[j]]
       /\ \A n \in Nodes : SearchFrom(tree, tree.root, Data[n]) # Nil
                           <=> \E i \in inserted : Data[i] = Data[n]

\* The iterators, which climb by the parent links, go through the nodes in
\* order, both ways.
WalksInOrder ==
    LET nodes == InOrder(tree, tree.root)
        At(i) == IF i \in DOMAIN nodes THEN nodes[i] ELSE Nil
    IN \A i \in DOMAIN nodes : /\ Step(tree, nodes[i], "right") = At(i + 1)
                               /\ Step(tree, nodes[i], "left") = At(i - 1)
============================================================================
