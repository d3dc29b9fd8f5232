-------------------------------- MODULE Rope --------------------------------
(***************************************************************************)
(* Rope (src/src/WIP/Rope.hh): a text as a binary tree.  A leaf is a piece *)
(* of a reference counted buffer, an inner node knows the size of the text *)
(* under its left child (`weight'), which every insertion keeps up to date *)
(* on the way to the root.  Nodes are numbered as they are allocated.  A   *)
(* cell of a text is the buffer it came with and its index there.          *)
(***************************************************************************)
EXTENDS Integers, Sequences, SequencesExt, FiniteSetsExt

CONSTANTS MaxInserts, MaxSize    \* bounds: insertions, and the size of each

VARIABLES nodes,         \* a sequence of records
          m_pRoot,
          m_totalSize,
          refs,          \* the count of each buffer
          text, freed    \* history

vars == <<nodes, m_pRoot, m_totalSize, refs, text, freed>>

Nil == 0
Leaf(b, first, last) ==
    [parent |-> Nil, left |-> Nil, right |-> Nil, weight |-> 0,
     buf |-> b, firstI |-> first, lastI |-> last]
Inner(parent, l, r, weight) ==
    [parent |-> parent, left |-> l, right |-> r, weight |-> weight,
     buf |-> 0, firstI |-> 0, lastI |-> 0]

isLeaf(t, n) == t[n].left = Nil
weightOf(leaf) == leaf.lastI - leaf.firstI + 1
piece(leaf) == [i \in 1..weightOf(leaf) |-> <<leaf.buf, leaf.firstI + i>>]

Init ==
    /\ nodes = <<>> /\ m_pRoot = Nil /\ m_totalSize = 0
    /\ refs = <<>> /\ text = <<>> /\ freed = FALSE

(* The leaf that position i falls into, and the position in it; one on a   *)
(* boundary falls to the right of it.                                      *)
RECURSIVE LeafAt(_, _)
LeafAt(n, i) ==
    IF isLeaf(nodes, n) THEN [leaf |-> n, i |-> i]
    ELSE IF i < nodes[n].weight THEN LeafAt(nodes[n].left, i)
    ELSE LeafAt(nodes[n].right, i - nodes[n].weight)

charAt(i) == LET at == LeafAt(m_pRoot, i) IN piece(nodes[at.leaf])[at.i + 1]

(* Mutant: the weights above are increased whichever side grew.            *)
RECURSIVE fixWeightsAll(_, _, _)
fixWeightsAll(t, n, added) ==
    LET p == t[n].parent
    IN IF p = Nil THEN t ELSE fixWeightsAll([t EXCEPT ![p].weight = @ + added], p, added)

RECURSIVE fixWeights(_, _, _)
fixWeights(t, n, added) ==
    LET p == t[n].parent
    IN IF p = Nil THEN t
       ELSE fixWeights(IF t[p].left = n THEN [t EXCEPT ![p].weight = @ + added] ELSE t, p, added)

(* `new' hangs where `old' hung under p.                                   *)
Relink(t, p, old, new) ==
    IF p = Nil THEN t
    ELSE IF t[p].left = old THEN [t EXCEPT ![p].left = new]
    ELSE [t EXCEPT ![p].right = new]

(* insertAppend(), insertPrepend(): a new inner node over the two leaves.  *)
Joined(t, leaf, new, l, r) ==
    LET w == Len(t) + 1
        p == t[leaf].parent
        t1 == Relink(Append(t, Inner(p, l, r, weightOf(t[l]))), p, leaf, w)
    IN fixWeights([t1 EXCEPT ![leaf].parent = w, ![new].parent = w], w, weightOf(t[new]))

(* insertSplit(): the leaf keeps what is left of the position, and two new *)
(* inner nodes hold it, the new leaf and the rest.                         *)
Split(t, leaf, new, i) ==
    LET top == Len(t) + 1
        left == Len(t) + 2
        rest == Len(t) + 3
        old == t[leaf]
        t1 == t \o << Inner(old.parent, left, rest, i + weightOf(t[new])),
                      Inner(top, leaf, new, i),
                      [Leaf(old.buf, old.firstI + i, old.lastI) EXCEPT !.parent = top] >>
        t2 == Relink(t1, old.parent, leaf, top)
    IN fixWeights([t2 EXCEPT ![leaf].lastI = old.firstI + i - 1,
                             ![leaf].parent = left, ![new].parent = left],
                  top, weightOf(t[new]))

(* insert(), which a view without characters leaves at once; insertNode(). *)
insert(size, atI) ==
    LET b == Len(refs) + 1
        new == Len(nodes) + 1
        t == Append(nodes, Leaf(b, 0, size - 1))
        at == LeafAt(m_pRoot, atI)
        w == weightOf(nodes[at.leaf])
    IN /\ ~freed /\ b <= MaxInserts
       /\ IF m_pRoot = Nil
          THEN /\ nodes' = t /\ m_pRoot' = new /\ refs' = Append(refs, 1)
          ELSE /\ nodes' = IF at.i = w THEN Joined(t, at.leaf, new, at.leaf, new)
                           ELSE IF at.i = 0 THEN Joined(t, at.leaf, new, new, at.leaf)
                           ELSE Split(t, at.leaf, new, at.i)
               /\ m_pRoot' = IF at.leaf = m_pRoot THEN new + 1 ELSE m_pRoot
               /\ refs' = Append(IF at.i \in 1..w - 1
                                 THEN [refs EXCEPT ![nodes[at.leaf].buf] = @ + 1] ELSE refs, 1)
       /\ m_totalSize' = m_totalSize + size
       /\ text' = SubSeq(text, 1, atI) \o [i \in 1..size |-> <<b, i>>]
                     \o SubSeq(text, atI + 1, Len(text))
       /\ UNCHANGED freed

(* traverseIn(): the leaves, in order.                                     *)
RECURSIVE Leaves(_)
Leaves(n) ==
    IF n = Nil THEN <<>>
    ELSE IF isLeaf(nodes, n) THEN <<n>>
    ELSE Leaves(nodes[n].left) \o Leaves(nodes[n].right)

(* Every leaf gives up its reference; the root is left as it was, and the  *)
(* rope is not to be used again.                                           *)
destroy ==
    /\ ~freed /\ m_pRoot # Nil
    /\ LET gone(b) == Cardinality({i \in DOMAIN Leaves(m_pRoot) :
                                       nodes[Leaves(m_pRoot)[i]].buf = b})
       IN refs' = [b \in DOMAIN refs |-> refs[b] - gone(b)]
    /\ freed' = TRUE
    /\ UNCHANGED <<nodes, m_pRoot, m_totalSize, text>>

Next ==
    \/ \E size \in 1..MaxSize, atI \in 0..m_totalSize : insert(size, atI)
    \/ destroy

Spec == Init /\ [][Next]_vars

-----------------------------------------------------------------------------
(* Wherever texts were inserted, each position has its character, and the  *)
(* pieces spell the text.                                                  *)
SpellsText ==
    ~freed =>
        /\ m_totalSize = Len(text)
        /\ FlattenSeq([i \in DOMAIN Leaves(m_pRoot) |-> piece(nodes[Leaves(m_pRoot)[i]])]) = text
        /\ \A i \in 1..Len(text) :
              LET at == LeafAt(m_pRoot, i - 1)
              IN at.i < weightOf(nodes[at.leaf]) /\ charAt(i - 1) = text[i]

(* A buffer goes with the last of the leaves that share it.                *)
FreesBuffers == freed => \A b \in DOMAIN refs : refs[b] = 0
=============================================================================
