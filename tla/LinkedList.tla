----------------------------- MODULE LinkedList -----------------------------
(***************************************************************************)
(* List (src/include/adt/List.hh), doubly linked, with its bottom-up merge *)
(* sort, and SList (src/include/adt/SList.hh), singly linked. The links of *)
(* a node that is in no list are never read; the model clears them.        *)
(***************************************************************************)
EXTENDS Integers, Sequences, SequencesExt

CONSTANTS Nodes,    \* the nodes the client allocates: positive numbers
          Data,     \* the data of each, an integer
          Kinds     \* of the client's list: "List", "SList"

Nil == 0

VARIABLES kind,
          list,     \* m_pFirst (m_pHead), m_pLast, and each node's pNext and pPrev
          order     \* history: the nodes in the order the calls put them in

vars == <<kind, list, order>>

EmptyList == [first |-> Nil, last |-> Nil,
              next |-> [n \in Nodes |-> Nil], prev |-> [n \in Nodes |-> Nil]]

SetNext(l, n, x) == IF n = Nil THEN l ELSE [l EXCEPT !.next[n] = x]
SetPrev(l, n, x) == IF n = Nil THEN l ELSE [l EXCEPT !.prev[n] = x]

Init == kind \in Kinds /\ list = EmptyList /\ order = <<>>

Forget(l, n) == [l EXCEPT !.next[n] = Nil, !.prev[n] = Nil]

IsIn(n) == \E i \in DOMAIN order : order[i] = n
At(n) == CHOOSE i \in DOMAIN order : order[i] = n

\* pushFront() and pushBack(), under the emplaces.
pushFront(n) ==
    /\ kind = "List" /\ ~IsIn(n)
    /\ LET l == [list EXCEPT !.next[n] = list.first, !.prev[n] = Nil, !.first = n]
       IN list' = IF list.first = Nil THEN [l EXCEPT !.last = n] ELSE SetPrev(l, list.first, n)
    /\ order' = <<n>> \o order
    /\ UNCHANGED kind

pushBack(n) ==
    /\ kind = "List" /\ ~IsIn(n)
    /\ LET l == [list EXCEPT !.next[n] = Nil,
                             !.prev[n] = IF list.first = Nil THEN Nil ELSE list.last,
                             !.last = n]
       IN list' = IF list.first = Nil THEN [l EXCEPT !.first = n] ELSE SetNext(l, list.last, n)
    /\ order' = Append(order, n)
    /\ UNCHANGED kind

\* Mutant: the link back to the removed node stays.
UnlinkedForward(l, n) ==
    IF n = l.first /\ n = l.last THEN [l EXCEPT !.first = Nil, !.last = Nil]
    ELSE IF n = l.first THEN [l EXCEPT !.first = l.next[n], !.prev[l.next[n]] = Nil]
    ELSE IF n = l.last THEN [l EXCEPT !.last = l.prev[n], !.next[l.prev[n]] = Nil]
    ELSE [l EXCEPT !.next[l.prev[n]] = l.next[n]]

\* remove()
Unlinked(l, n) ==
    IF n = l.first /\ n = l.last THEN [l EXCEPT !.first = Nil, !.last = Nil]
    ELSE IF n = l.first THEN [l EXCEPT !.first = l.next[n], !.prev[l.next[n]] = Nil]
    ELSE IF n = l.last THEN [l EXCEPT !.last = l.prev[n], !.next[l.prev[n]] = Nil]
    ELSE [l EXCEPT !.next[l.prev[n]] = l.next[n], !.prev[l.next[n]] = l.prev[n]]

remove(n) ==
    /\ kind = "List" /\ IsIn(n)
    /\ list' = Forget(Unlinked(list, n), n)
    /\ order' = RemoveAt(order, At(n))
    /\ UNCHANGED kind

insertAfter(after, n) ==
    /\ kind = "List" /\ IsIn(after) /\ ~IsIn(n)
    /\ LET l == SetPrev([list EXCEPT !.prev[n] = after, !.next[n] = list.next[after]],
                        list.next[after], n)
       IN list' = [l EXCEPT !.next[after] = n, !.last = IF after = @ THEN n ELSE @]
    /\ order' = InsertAt(order, At(after) + 1, n)
    /\ UNCHANGED kind

insertBefore(before, n) ==
    /\ kind = "List" /\ IsIn(before) /\ ~IsIn(n)
    /\ LET l == SetNext([list EXCEPT !.next[n] = before, !.prev[n] = list.prev[before]],
                        list.prev[before], n)
       IN list' = [l EXCEPT !.prev[before] = n, !.first = IF before = @ THEN n ELSE @]
    /\ order' = InsertAt(order, At(before), n)
    /\ UNCHANGED kind

\* sort() compares with utils::compare(): p goes behind q.
Above(p, q) == Data[p] > Data[q]

\* sort(): one merge of pSize nodes from p and up to qSize nodes from q, hung
\* behind m.tail.
RECURSIVE Merge(_, _, _, _, _, _, _)
Merge(l, p, pSize, q, qSize, head, tail) ==
    LET qEmpty == qSize = 0 \/ q = Nil
        fromQ == pSize = 0 \/ (~qEmpty /\ Above(p, q))
        e == IF fromQ THEN q ELSE p
        linked == SetPrev(SetNext(l, tail, e), e, tail)
        newHead == IF tail = Nil THEN e ELSE head
    IN IF pSize = 0 /\ qEmpty THEN [list |-> l, q |-> q, head |-> head, tail |-> tail]
       ELSE IF fromQ THEN Merge(linked, p, pSize, l.next[q], qSize - 1, newHead, e)
       ELSE Merge(linked, l.next[p], pSize - 1, q, qSize, newHead, e)

\* Steps up to n places along from q.
RECURSIVE Along(_, _, _)
Along(l, q, n) == IF n = 0 \/ q = Nil THEN [q |-> q, steps |-> 0]
                  ELSE LET a == Along(l, l.next[q], n - 1) IN [a EXCEPT !.steps = @ + 1]

\* One pass of merges over the list from p on.
RECURSIVE MergePass(_, _, _, _, _, _)
MergePass(l, p, inSize, head, tail, nMerges) ==
    IF p = Nil
    THEN [list |-> SetNext(l, tail, Nil), head |-> head, tail |-> tail, nMerges |-> nMerges]
    ELSE LET a == Along(l, p, inSize)
             m == Merge(l, p, a.steps, a.q, inSize, head, tail)
         IN MergePass(m.list, m.q, inSize, m.head, m.tail, nMerges + 1)

RECURSIVE SortFrom(_, _, _)
SortFrom(l, head, inSize) ==
    LET m == MergePass(l, head, inSize, Nil, Nil, 0)
    IN IF m.nMerges <= 1 THEN [m.list EXCEPT !.first = m.head, !.last = m.tail]
       ELSE SortFrom(m.list, m.head, 2 * inSize)

\* The order a stable sort gives: a node goes behind the smaller ones, and
\* behind the equal ones that were in front of it.
StablySorted(s) ==
    LET Before(i, j) == Data[s[i]] < Data[s[j]] \/ (Data[s[i]] = Data[s[j]] /\ i < j)
        Rank(j) == Len(SelectSeq([i \in DOMAIN s |-> i], LAMBDA i : Before(i, j))) + 1
    IN [r \in DOMAIN s |-> s[CHOOSE j \in DOMAIN s : Rank(j) = r]]

sort ==
    /\ kind = "List"
    /\ list' = IF list.first = Nil THEN list ELSE SortFrom(list, list.first, 1)
    /\ order' = StablySorted(order)
    /\ UNCHANGED kind

\* destroy(), release(), of both lists.
destroy == list' = EmptyList /\ order' = <<>> /\ UNCHANGED kind

\* SList: insertNode() and the two removals, one of which looks for the node
\* before while the other is told it.  insertAfter() (142-147) has no return
\* statement: what a call does is undefined, and it is not modelled.
InsertNode(n) ==
    /\ kind = "SList" /\ ~IsIn(n)
    /\ list' = [list EXCEPT !.next[n] = list.first, !.first = n]
    /\ order' = <<n>> \o order
    /\ UNCHANGED kind

RECURSIVE Preceding(_, _, _)
Preceding(l, prev, n) ==
    LET curr == IF prev = Nil THEN l.first ELSE l.next[prev]
    IN IF curr = n THEN prev ELSE Preceding(l, curr, n)

RemoveSearching(n) ==
    /\ kind = "SList" /\ IsIn(n)
    /\ LET prev == Preceding(list, Nil, n)
       IN list' = Forget(IF prev = Nil THEN [list EXCEPT !.first = list.next[n]]
                         ELSE [list EXCEPT !.next[prev] = list.next[n]], n)
    /\ order' = RemoveAt(order, At(n))
    /\ UNCHANGED kind

RemoveBehind(prev, n) ==
    /\ kind = "SList" /\ IsIn(n)
    /\ IF At(n) = 1 THEN prev = Nil ELSE prev = order[At(n) - 1]
    /\ list' = Forget(IF n = list.first THEN [list EXCEPT !.first = list.next[n]]
                      ELSE [list EXCEPT !.next[prev] = list.next[n]], n)
    /\ order' = RemoveAt(order, At(n))
    /\ UNCHANGED kind

Next ==
    \/ \E n \in Nodes : \/ pushFront(n) \/ pushBack(n) \/ remove(n)
                        \/ InsertNode(n) \/ RemoveSearching(n)
    \/ \E a, n \in Nodes : insertAfter(a, n) \/ insertBefore(a, n)
    \/ \E p \in Nodes \cup {Nil}, n \in Nodes : RemoveBehind(p, n)
    \/ sort \/ destroy

Spec == Init /\ [][Next]_vars

----------------------------------------------------------------------------
TypeOK == /\ list.first \in Nodes \cup {Nil} /\ list.last \in Nodes \cup {Nil}
          /\ list.next \in [Nodes -> Nodes \cup {Nil}]
          /\ list.prev \in [Nodes -> Nodes \cup {Nil}]

\* Follows a link from n for at most k steps.
RECURSIVE Walk(_, _, _)
Walk(link, n, k) == IF n = Nil \/ k = 0 THEN <<>> ELSE <<n>> \o Walk(link, link[n], k - 1)

\* Forward iteration sees the nodes in the order the calls put them in, each
\* once, and ends; so does sort(), which is stable.
ForwardIsOrder == Walk(list.next, list.first, Len(order) + 1) = order

\* Backward iteration is the reverse of it after any mix of the operations.
BackwardIsReverse ==
    kind = "List" => Walk(list.prev, list.last, Len(order) + 1) = Reverse(order)
============================================================================
