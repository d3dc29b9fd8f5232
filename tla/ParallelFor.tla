---------------------------- MODULE ParallelFor ----------------------------
(***************************************************************************)
(* parallelFor() of src/include/adt/ThreadPool.hh: a span is cut into one  *)
(* batch for each thread of the pool and one for the remainder, each a     *)
(* task with a future, and the caller waits on the futures, as             *)
(* src/src/ParallelFor.cc does.  The pool runs the tasks in any order and  *)
(* at once, an element at a time.                                          *)
(*                                                                         *)
(* Fewer elements than threads, or a minBatchSize above the share of a     *)
(* thread, make the batches of the threads reach beyond the span: the      *)
(* closure is then given what lies in memory behind it, `Reach' elements   *)
(* from where the span starts.                                             *)
(***************************************************************************)
EXTENDS Integers, Sequences

CONSTANTS MaxThreads,   \* bound: the threads of the pool
          MaxSize,      \* bound: the elements of the span
          MaxBatch      \* bound: minBatchSize

VARIABLES nThreads, spSize, minBatchSize,   \* the call
          i,            \* where the next batch starts
          vFutures,     \* a batch and how far its task has come
          visits,       \* how often each element was given to the closure
          waited        \* the futures the caller has waited on

vars == <<nThreads, spSize, minBatchSize, i, vFutures, visits, waited>>

\* Mutant: the share of a thread is rounded up.
batchSizeUp == (spSize + nThreads - 1) \div nThreads
batchSize ==
    LET len == spSize \div nThreads
        div == IF len > 0 THEN len ELSE spSize
    IN IF div < minBatchSize THEN minBatchSize ELSE div

\* Mutant: what is left when as many batches run as fit.
tailOfFit == spSize % batchSize
tailSize == spSize - nThreads * batchSize
Batches ==
    (IF batchSize > 0 THEN nThreads ELSE 0) + (IF tailSize > 0 THEN 1 ELSE 0)
Reach == IF tailSize > 0 THEN spSize ELSE nThreads * batchSize

Init ==
    /\ nThreads \in 1..MaxThreads /\ spSize \in 0..MaxSize /\ minBatchSize \in 0..MaxBatch
    /\ i = 0 /\ vFutures = <<>> /\ waited = 0
    /\ visits = [e \in 0..Reach - 1 |-> 0]

clBatch(off, size) ==
    /\ vFutures' = Append(vFutures, [off |-> off, size |-> size, seen |-> 0, signalled |-> FALSE])
    /\ UNCHANGED <<nThreads, spSize, minBatchSize, visits, waited>>

AddBatch == i < batchSize * nThreads /\ clBatch(i, batchSize) /\ i' = i + batchSize

AddTail ==
    /\ i >= batchSize * nThreads /\ Len(vFutures) < Batches
    /\ clBatch(i, tailSize) /\ UNCHANGED i

(* A task: the closure of the caller over its batch, then its signal.      *)
Visit(f) ==
    LET batch == vFutures[f]
    IN /\ batch.seen < batch.size
       /\ visits' = [visits EXCEPT ![batch.off + batch.seen] = @ + 1]
       /\ vFutures' = [vFutures EXCEPT ![f].seen = @ + 1]
       /\ UNCHANGED <<nThreads, spSize, minBatchSize, i, waited>>

Signal(f) ==
    /\ vFutures[f].seen = vFutures[f].size /\ ~vFutures[f].signalled
    /\ vFutures' = [vFutures EXCEPT ![f].signalled = TRUE]
    /\ UNCHANGED <<nThreads, spSize, minBatchSize, i, visits, waited>>

WaitNext ==
    /\ i >= batchSize * nThreads /\ Len(vFutures) = Batches
    /\ waited < Batches /\ vFutures[waited + 1].signalled
    /\ waited' = waited + 1
    /\ UNCHANGED <<nThreads, spSize, minBatchSize, i, vFutures, visits>>

Next ==
    \/ AddBatch \/ AddTail \/ WaitNext
    \/ \E f \in DOMAIN vFutures : Visit(f) \/ Signal(f)

Spec == Init /\ [][Next]_vars

-----------------------------------------------------------------------------
(* Whatever the call, nothing is given to the closure twice, and when the  *)
(* caller has waited on every future each element was given to it once. No *)
(* batch reaches beyond the span as long as every thread has an element    *)
(* and minBatchSize is no more than its share; the code asserts neither.   *)
VisitsOnce ==
    /\ \A e \in DOMAIN visits : visits[e] <= 1
    /\ waited = Batches => \A e \in 0..spSize - 1 : visits[e] = 1
    /\ nThreads <= spSize /\ minBatchSize <= spSize \div nThreads =>
          \A f \in DOMAIN vFutures : vFutures[f].off + vFutures[f].size <= spSize
=============================================================================
