---------------------------- MODULE MCThreadPool ----------------------------
(* Instances of ThreadPool for TLC: who adds which closure, and how.       *)
EXTENDS ThreadPool, TLC

CONSTANTS w1, w2, c1, c2, a, b, p, q, r

(* A client adds a and b.  b forks p and q and joins them, as              *)
(* sort::quickParallel does; a adds r and does not wait for it.  A second  *)
(* client only waits, or destroys the pool.                                *)
ForkJoin == [f \in Frames |-> CASE f = c1 -> {a, b}
                                [] f = b  -> {p, q}
                                [] f = a  -> {r}
                                [] OTHER  -> {}]

(* The closures that run inside the pool fall back to a direct call when   *)
(* the queue is full; the client spins.                                    *)
ForkJoinPolicy == [t \in Tasks |-> CASE t = a -> "retry"
                                     [] t = b -> "retry"
                                     [] t = r -> "orDo"
                                     [] t = q -> "orDoFut"
                                     [] OTHER -> "inline"]

(* Both a and b fork, b by a call that may leave its future unsignalled.   *)
TwoForks == [f \in Frames |-> CASE f = c1 -> {a, b}
                                [] f = a  -> {p}
                                [] f = b  -> {q}
                                [] OTHER  -> {}]

TwoForksPolicy == [t \in Tasks |-> CASE t = p -> "inline"
                                     [] t = q -> "orDoFut"
                                     [] OTHER -> "retry"]

WorkerSymmetry == Permutations(Workers)
=============================================================================
