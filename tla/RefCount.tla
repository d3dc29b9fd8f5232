------------------------------ MODULE RefCount ------------------------------
(***************************************************************************)
(* Reference counting of RefCount.hh, by one thread.  An object may hold a *)
(* strong and a weak pointer to others, which its destructor gives up:     *)
(* unref() enters itself through destroyData(), and an object may hold a   *)
(* weak pointer to itself.  `calls' is the call stack of such an unref():  *)
(* what is left to execute, innermost first.                               *)
(***************************************************************************)
EXTENDS Integers, Sequences, FiniteSets

CONSTANTS Blocks,      \* control blocks, each with its object
          MaxHandles   \* pointers to one block the client holds at a time

VARIABLES m_count, m_weakCount,
          control,     \* the control block's memory
          data,        \* the object: its life, and the blocks it points to
          strong, weak,        \* how many pointers the client holds
          calls

vars == <<m_count, m_weakCount, control, data, strong, weak, calls>>

Nobody == 0

Init ==
    /\ m_count = [b \in Blocks |-> 0]
    /\ m_weakCount = [b \in Blocks |-> 0]
    /\ control = [b \in Blocks |-> "none"]
    /\ data = [b \in Blocks |-> [life |-> "none", holds |-> Nobody, knows |-> Nobody]]
    /\ strong = [b \in Blocks |-> 0]
    /\ weak = [b \in Blocks |-> 0]
    /\ calls = <<>>

Idle == calls = <<>>
IsAlive(b) == control[b] = "alive" /\ m_count[b] > 0

(* alloc(), allocWithDeleter() and the constructors: one strong pointer.   *)
alloc(b) ==
    /\ Idle /\ control[b] = "none"
    /\ m_count' = [m_count EXCEPT ![b] = 1]
    /\ m_weakCount' = [m_weakCount EXCEPT ![b] = 1]
    /\ control' = [control EXCEPT ![b] = "alive"]
    /\ data' = [data EXCEPT ![b].life = "alive"]
    /\ strong' = [strong EXCEPT ![b] = 1]
    /\ UNCHANGED <<weak, calls>>

(* ref(), and RefScope, which takes one through a weak pointer too while   *)
(* the object is there.                                                    *)
ref(b) ==
    /\ Idle
    /\ strong[b] > 0 \/ (weak[b] > 0 /\ IsAlive(b))
    /\ strong[b] < MaxHandles
    /\ m_count' = [m_count EXCEPT ![b] = @ + 1]
    /\ m_weakCount' = [m_weakCount EXCEPT ![b] = @ + 1]
    /\ strong' = [strong EXCEPT ![b] = @ + 1]
    /\ UNCHANGED <<control, data, weak, calls>>

weakRef(b) ==
    /\ Idle
    /\ strong[b] > 0 /\ weak[b] < MaxHandles
    /\ m_weakCount' = [m_weakCount EXCEPT ![b] = @ + 1]
    /\ weak' = [weak EXCEPT ![b] = @ + 1]
    /\ UNCHANGED <<m_count, control, data, strong, calls>>

(* The client moves a pointer into an object it holds.  Strong pointers go *)
(* to later blocks: a cycle of them would never be freed.                  *)
HoldIn(b, c) ==
    /\ Idle /\ b < c
    /\ strong[b] > 0 /\ strong[c] > 0 /\ data[b].holds = Nobody
    /\ data' = [data EXCEPT ![b].holds = c]
    /\ strong' = [strong EXCEPT ![c] = @ - 1]
    /\ UNCHANGED <<m_count, m_weakCount, control, weak, calls>>

KnowIn(b, c) ==
    /\ Idle
    /\ strong[b] > 0 /\ weak[c] > 0 /\ data[b].knows = Nobody
    /\ data' = [data EXCEPT ![b].knows = c]
    /\ weak' = [weak EXCEPT ![c] = @ - 1]
    /\ UNCHANGED <<m_count, m_weakCount, control, strong, calls>>

clientUnref(b) ==
    /\ Idle /\ strong[b] > 0
    /\ strong' = [strong EXCEPT ![b] = @ - 1]
    /\ calls' = << <<"unref", b>> >>
    /\ UNCHANGED <<m_count, m_weakCount, control, data, weak>>

clientWeakUnref(b) ==
    /\ Idle /\ weak[b] > 0
    /\ weak' = [weak EXCEPT ![b] = @ - 1]
    /\ calls' = << <<"weakUnref", b>> >>
    /\ UNCHANGED <<m_count, m_weakCount, control, data, strong>>

-----------------------------------------------------------------------------
Executes(call, b) == calls # <<>> /\ Head(calls) = <<call, b>>

(* Mutant: the control block goes before the object.                       *)
unrefWeakFirst(b) ==
    /\ Executes("unref", b)
    /\ m_count' = [m_count EXCEPT ![b] = @ - 1]
    /\ calls' = << <<"weakUnref", b>> >>
                   \o (IF m_count[b] - 1 <= 0 THEN << <<"destroyData", b>> >> ELSE <<>>)
                   \o Tail(calls)
    /\ UNCHANGED <<m_weakCount, control, data, strong, weak>>

unref(b) ==
    /\ Executes("unref", b)
    /\ m_count' = [m_count EXCEPT ![b] = @ - 1]
    /\ calls' = (IF m_count[b] - 1 <= 0 THEN << <<"destroyData", b>> >> ELSE <<>>)
                   \o << <<"weakUnref", b>> >> \o Tail(calls)
    /\ UNCHANGED <<m_weakCount, control, data, strong, weak>>

(* The destructor gives up the object's own pointers.                      *)
destroyData(b) ==
    /\ Executes("destroyData", b)
    /\ data' = [data EXCEPT ![b] = [life |-> "destroyed", holds |-> Nobody, knows |-> Nobody]]
    /\ calls' = (IF data[b].holds = Nobody THEN <<>> ELSE << <<"unref", data[b].holds>> >>)
                   \o (IF data[b].knows = Nobody THEN <<>> ELSE << <<"weakUnref", data[b].knows>> >>)
                   \o Tail(calls)
    /\ UNCHANGED <<m_count, m_weakCount, control, strong, weak>>

(* destroy() frees the control block.                                      *)
weakUnref(b) ==
    /\ Executes("weakUnref", b)
    /\ m_weakCount' = [m_weakCount EXCEPT ![b] = @ - 1]
    /\ control' = IF m_weakCount[b] - 1 <= 0 THEN [control EXCEPT ![b] = "freed"] ELSE control
    /\ calls' = Tail(calls)
    /\ UNCHANGED <<m_count, data, strong, weak>>

Next ==
    \E b \in Blocks :
        \/ alloc(b)
        \/ ref(b)
        \/ weakRef(b)
        \/ \E c \in Blocks : HoldIn(b, c) \/ KnowIn(b, c)
        \/ clientUnref(b)
        \/ clientWeakUnref(b)
        \/ unref(b)
        \/ destroyData(b)
        \/ weakUnref(b)

Spec == Init /\ [][Next]_vars

-----------------------------------------------------------------------------
Pending(call, b) == Cardinality({i \in DOMAIN calls : calls[i] = <<call, b>>})
Holding(b) == Cardinality({c \in Blocks : data[c].holds = b})
Knowing(b) == Cardinality({c \in Blocks : data[c].knows = b})

(* At every point of every nested unref() the counts are those of the      *)
(* pointers there are: an object is destroyed when, and only when, its     *)
(* last strong pointer goes, once, and nothing touches a control block     *)
(* that has been freed.                                                    *)
CountsPointers ==
    /\ \A b \in Blocks : control[b] = "alive" =>
        /\ m_count[b] = strong[b] + Holding(b) + Pending("unref", b)
        /\ m_weakCount[b] = m_count[b] + weak[b] + Knowing(b) + Pending("weakUnref", b)
        /\ (data[b].life = "alive") = (m_count[b] > 0 \/ Pending("destroyData", b) = 1)
    /\ \A i \in DOMAIN calls :
        /\ control[calls[i][2]] = "alive"
        /\ calls[i][1] = "destroyData" => data[calls[i][2]].life = "alive"

(* Without cycles of strong pointers, a client that has given up all its   *)
(* pointers has given back all memory.                                     *)
NothingLeaks ==
    Idle /\ (\A b \in Blocks : strong[b] = 0 /\ weak[b] = 0) =>
        \A b \in Blocks : control[b] # "alive" /\ data[b].life # "alive"
=============================================================================
