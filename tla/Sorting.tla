------------------------------ MODULE Sorting ------------------------------
(***************************************************************************)
(* The algorithms of src/include/adt/sort.hh: insertion(), quick(), push() *)
(* and quickParallel(), run on every array of the bound.  Small arrays go  *)
(* straight to insertion() in quick(), by a constant of the code; the      *)
(* instance makes it small enough for the partition to run.                *)
(*                                                                         *)
(* quickParallel() runs in strands: the caller's and one for each closure  *)
(* it adds to the pool, which may refuse it.  A strand is a stack of       *)
(* calls; a pass over the elements between two bounds is one step, which   *)
(* StrandsApart justifies.                                                 *)
(***************************************************************************)
EXTENDS Integers, Sequences, SequencesExt, FiniteSets

CONSTANTS Vals,         \* T: integers
          MaxLen,       \* bound: the longest array
          SMALL,        \* 32 at sort.hh:104
          ALONE         \* SIZE_1K*8 at sort.hh:154

VARIABLES input,    \* the array as it was given
          a,        \* the array, indexed from 0
          done,     \* the algorithm that ran, "" before it
          strands   \* of quickParallel(): the stacks of calls

vars == <<input, a, done, strands>>

Arrays == UNION {[0 .. n - 1 -> Vals] : n \in 0 .. MaxLen}
Size(arr) == Cardinality(DOMAIN arr)
Swap(arr, i, j) == [arr EXCEPT ![i] = arr[j], ![j] = arr[i]]

\* The inner loop of insertion(): moves up what is greater than the key.
RECURSIVE Sink(_, _, _, _)
Sink(arr, l, j, key) ==
    IF j > l /\ arr[j - 1] > key THEN Sink([arr EXCEPT ![j] = arr[j - 1]], l, j - 1, key)
    ELSE [arr EXCEPT ![j] = key]

RECURSIVE InsertFrom(_, _, _, _)
InsertFrom(arr, l, h, i) ==
    IF i > h THEN arr ELSE InsertFrom(Sink(arr, l, i, arr[i]), l, h, i + 1)
\* Mutant: the last element is left where it is.
insertionButLast(arr, l, h) == InsertFrom(arr, l, h - 1, l + 1)

insertion(arr, l, h) == InsertFrom(arr, l, h, l + 1)

median3(x, y, z) == IF (x < y /\ y < z) \/ (z < y /\ y < x) THEN y
                    ELSE IF (y < x /\ x < z) \/ (z < x /\ x < y) THEN x
                    ELSE z

\* The scans of the partition, which trust the pivot to stop them.
RECURSIVE ScanUp(_, _, _)
ScanUp(arr, i, pivot) == IF arr[i] < pivot THEN ScanUp(arr, i + 1, pivot) ELSE i
RECURSIVE ScanDown(_, _, _)
ScanDown(arr, j, pivot) == IF arr[j] > pivot THEN ScanDown(arr, j - 1, pivot) ELSE j

RECURSIVE Partition(_, _, _, _)
Partition(arr, i, j, pivot) ==
    LET up == ScanUp(arr, i, pivot)
        down == ScanDown(arr, j, pivot)
    IN IF i > j THEN [arr |-> arr, i |-> i, j |-> j]
       ELSE IF up <= down THEN Partition(Swap(arr, up, down), up + 1, down - 1, pivot)
       ELSE [arr |-> arr, i |-> up, j |-> down]

RECURSIVE quick(_, _, _)
quick(arr, l, r) ==
    LET pivot == arr[median3(l, (l + r) \div 2, r)]
        p == Partition(arr, l, r, pivot)
    IN IF l >= r THEN arr
       ELSE IF r - l + 1 <= SMALL THEN insertion(arr, l, r)
       ELSE quick(quick(p.arr, l, p.j), p.i, r)

\* push<INC>() and push<DEC>() of x into a sorted array.
PushAt(arr, i, x) ==
    [n \in 0 .. Size(arr) |-> IF n < i THEN arr[n] ELSE IF n = i THEN x ELSE arr[n - 1]]
FirstOr(s, n) == IF s = {} THEN n ELSE CHOOSE i \in s : \A j \in s : i <= j
push(arr, x, isInc) ==
    PushAt(arr, FirstOr({i \in DOMAIN arr : IF isInc THEN x <= arr[i] ELSE x >= arr[i]},
                        Size(arr)), x)

\* sorted()
sorted(arr, isInc) ==
    \A i \in 1 .. Size(arr) - 1 : IF isInc THEN arr[i - 1] <= arr[i] ELSE arr[i] <= arr[i - 1]

Init == input \in Arrays /\ a = input /\ done = "" /\ strands = <<>>

Insertion == /\ done = ""
             /\ a' = IF Size(a) <= 1 THEN a ELSE insertion(a, 0, Size(a) - 1)
             /\ done' = "insertion"
             /\ UNCHANGED <<input, strands>>

Quick == /\ done = ""
         /\ a' = IF Size(a) <= 1 THEN a ELSE quick(a, 0, Size(a) - 1)
         /\ done' = "quick"
         /\ UNCHANGED <<input, strands>>

Push(x, isInc) ==
    /\ done = "" /\ sorted(a, isInc) /\ Size(a) < MaxLen
    /\ a' = push(a, x, isInc)
    /\ input' = PushAt(input, Size(input), x)
    /\ done' = IF isInc THEN "pushInc" ELSE "pushDec"
    /\ UNCHANGED strands

\* push() with the order as an argument: both branches call push<INC>().
PushInOrder(x, isInc) ==
    /\ done = "" /\ sorted(a, isInc) /\ Size(a) < MaxLen
    /\ a' = push(a, x, TRUE)
    /\ input' = PushAt(input, Size(input), x)
    /\ done' = IF isInc THEN "pushInc" ELSE "pushAsDec"
    /\ UNCHANGED strands

(* A call of quickParallel(): the bounds it was given, where it is, the    *)
(* bounds i and j the partition left, and the strand of its future.        *)
Call(l, r) == [l |-> l, r |-> r, pc |-> "split", i |-> l, j |-> r, fut |-> 0]
Top(s) == Last(strands[s])
Goto(s, call) == Append(Front(strands[s]), call)

QuickParallel ==
    /\ done = ""
    /\ strands' = IF Size(a) <= 1 THEN <<>> ELSE <<<<Call(0, Size(a) - 1)>>>>
    /\ done' = IF Size(a) <= 1 THEN "parallel" ELSE "running"
    /\ UNCHANGED <<input, a>>

(* The return of the first call is that of quickParallel().                *)
Return(s) ==
    /\ strands' = [strands EXCEPT ![s] = Front(@)]
    /\ done' = IF s = 1 /\ Len(strands[s]) = 1 THEN "parallel" ELSE done

SortSmall(s) ==
    LET c == Top(s) IN
    /\ c.pc = "split" /\ c.r - c.l + 1 <= SMALL
    /\ a' = IF c.l < c.r THEN insertion(a, c.l, c.r) ELSE a
    /\ Return(s) /\ UNCHANGED input

Split(s) ==
    LET c == Top(s)
        p == Partition(a, c.l, c.r, a[median3(c.l, (c.l + c.r) \div 2, c.r)])
    IN /\ c.pc = "split" /\ c.r - c.l + 1 > SMALL
       /\ a' = p.arr
       /\ strands' = [strands EXCEPT ![s] = Goto(s, [c EXCEPT !.pc = "left", !.i = p.i, !.j = p.j])]
       /\ UNCHANGED <<input, done>>

SortLeft(s) ==
    LET c == Top(s) IN
    /\ c.pc = "left" /\ c.j - c.l + 1 <= ALONE
    /\ a' = quick(a, c.l, c.j)
    /\ strands' = [strands EXCEPT ![s] = Goto(s, [c EXCEPT !.pc = "right"])]
    /\ UNCHANGED <<input, done>>

Spawn(s) ==
    LET c == Top(s) IN
    /\ c.pc = "left" /\ c.j - c.l + 1 > ALONE
    /\ strands' = Append([strands EXCEPT
                            ![s] = Goto(s, [c EXCEPT !.pc = "right", !.fut = Len(strands) + 1])],
                         <<Call(c.l, c.j)>>)
    /\ UNCHANGED <<input, a, done>>

CallLeft(s) ==
    LET c == Top(s) IN
    /\ c.pc = "left" /\ c.j - c.l + 1 > ALONE
    /\ strands' = [strands EXCEPT
                     ![s] = Append(Goto(s, [c EXCEPT !.pc = "right"]), Call(c.l, c.j))]
    /\ UNCHANGED <<input, a, done>>

CallRight(s) ==
    LET c == Top(s) IN
    /\ c.pc = "right"
    /\ strands' = [strands EXCEPT
                     ![s] = Append(Goto(s, [c EXCEPT !.pc = "join"]), Call(c.i, c.r))]
    /\ UNCHANGED <<input, a, done>>

(* Mutant: the future is not waited on.                                    *)
NoJoin(s) == Top(s).pc = "join" /\ Return(s) /\ UNCHANGED <<input, a>>

(* Future::wait(): a strand has ended when its stack is empty.             *)
JoinLeft(s) ==
    LET c == Top(s) IN
    /\ c.pc = "join"
    /\ c.fut # 0 => strands[c.fut] = <<>>
    /\ Return(s) /\ UNCHANGED <<input, a>>

StrandStep(s) ==
    /\ strands[s] # <<>>
    /\ \/ SortSmall(s) \/ Split(s) \/ SortLeft(s) \/ Spawn(s) \/ CallLeft(s)
       \/ CallRight(s) \/ JoinLeft(s)

Next ==
    \/ Insertion \/ Quick \/ QuickParallel
    \/ \E x \in Vals, isInc \in BOOLEAN : Push(x, isInc) \/ PushInOrder(x, isInc)
    \/ \E s \in DOMAIN strands : StrandStep(s)

Spec == Init /\ [][Next]_vars

-----------------------------------------------------------------------------
Copies(arr, x) == Cardinality({i \in DOMAIN arr : arr[i] = x})

\* Each algorithm leaves the elements it was given, in order; only a push
\* whose decreasing order is an argument does so for nothing but a value as
\* great as the first.
SortsPermutation ==
    done \notin {"", "running"} =>
        /\ IF done = "pushAsDec" THEN sorted(a, FALSE) <=> input[Size(input) - 1] = input[0]
           ELSE sorted(a, done # "pushDec")
        /\ DOMAIN a = DOMAIN input
        /\ \A x \in Vals : Copies(a, x) = Copies(input, x)

(* No two strands of a parallel sort have an element in common: what one   *)
(* of them has yet to sort no other touches, and nobody is still at work   *)
(* when it returns.                                                        *)
Bounds(c) ==
    CASE c.pc \in {"split", "left"} -> c.l..c.r
      [] c.pc = "right" -> c.i..c.r
      [] OTHER -> {}
Territory(s) == UNION {Bounds(strands[s][n]) : n \in DOMAIN strands[s]}
StrandsApart ==
    /\ \A s, t \in DOMAIN strands : s # t => Territory(s) \cap Territory(t) = {}
    /\ done = "parallel" => \A s \in DOMAIN strands : strands[s] = <<>>
============================================================================
