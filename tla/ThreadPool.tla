----------------------------- MODULE ThreadPool -----------------------------
(***************************************************************************)
(* adt::ThreadPool (include/adt/ThreadPool.hh) with the closures, futures  *)
(* and work stealing of IThreadPool.hh that run on it.                     *)
(*                                                                         *)
(* A *thread* is a worker of m_spThreads or a client, a thread of the      *)
(* program that uses the pool.  A *frame* is an invocation on a thread's   *)
(* call stack that may call into the pool: a task's closure, or, at the    *)
(* bottom of a client's stack, the client's own program.  A thread that    *)
(* steals a task (tryStealTask, wait(bHelp)) or that calls a closure       *)
(* inline pushes a frame on its own stack; only the top frame runs.        *)
(*                                                                         *)
(* Everything m_mtxQ protects is read and written only while it is held,   *)
(* except m_atomNActiveTasks and m_atomBDone, so each critical section is  *)
(* one action, and each access to an atomic outside of one is an action of *)
(* its own.  A thread blocked in a condition variable is a member of its   *)
(* wait set; waking up is leaving the set, after which the thread          *)
(* evaluates its predicate again with the mutex held.                      *)
(***************************************************************************)
EXTENDS Integers, Sequences, FiniteSets

CONSTANTS
    Workers,     \* the threads of m_spThreads
    Clients,     \* the other threads that use the pool
    Tasks,       \* closures, each of which the program creates once
    NoTask,      \* no closure
    Children,    \* frame -> the closures that frame gives to the pool
    Detached,    \* closures nobody holds a future for
    AddPolicy,   \* closure -> how its creator adds it, see AddPolicies
    QueueCap,    \* m_qTasks.cap()
    Spurious     \* may a condition variable wake up without a signal?

Threads == Workers \cup Clients
Frames  == Tasks \cup Clients

(***************************************************************************)
(* "retry":   addRetry(cl), spins until there is room.                     *)
(* "inline":  if (!add(cl)) cl(), as sort::quickParallel does.             *)
(* "orDo":    addRetryOrDo(cl).                                            *)
(* "orDoFut": addRetryOrDo(pFut, cl), whose inline branch calls cl() and   *)
(*            never signals pFut.                                          *)
(***************************************************************************)
AddPolicies == {"retry", "inline", "orDo", "orDoFut"}

(* The constructor asserts nothing about nThreads, but with no workers     *)
(* every operation that waits returns at once and a task never runs.       *)
ASSUME WorkersAssumption == IsFiniteSet(Workers) /\ Workers # {}

ASSUME DisjointAssumption ==
    /\ Workers \cap Clients = {}
    /\ Workers \cap Tasks = {}
    /\ Clients \cap Tasks = {}
    /\ NoTask \notin Tasks

(* Each closure is created, and added, by one frame.                       *)
ASSUME ChildrenAssumption ==
    /\ Children \in [Frames -> SUBSET Tasks]
    /\ \A f, g \in Frames : f # g => Children[f] \cap Children[g] = {}

ASSUME PolicyAssumption ==
    /\ Detached \subseteq Tasks
    /\ AddPolicy \in [Tasks -> AddPolicies]

ASSUME CapAssumption == QueueCap \in Nat \ {0}

VARIABLES
    queue,       \* m_qTasks
    nActive,     \* m_atomNActiveTasks
    bDone,       \* m_atomBDone
    cndQ,        \* the workers blocked in m_cndQ
    cndWait,     \* the clients blocked in m_cndWait
    stack,       \* thread -> the closures it is executing, innermost last
    pc,          \* where each worker, and each frame, is
    target,      \* frame -> the closure it is adding or waiting for
    future,      \* closure -> state of its future
    destroying   \* has a client called destroy()?

vars == <<queue, nActive, bDone, cndQ, cndWait, stack, pc, target, future,
          destroying>>

WorkerPc == {"start", "take", "run", "dec", "notify", "exited"}
TaskPc   == {"new", "queued", "body", "adding", "signal", "steal", "blocked",
             "return", "done"}
ClientPc == {"starting", "body", "adding", "signal", "steal", "blocked",
             "help", "wait", "setDone", "broadcast", "join", "destroyed"}

(* "none": never added with a future.  "never": the closure runs without   *)
(* anybody ever signalling it.  "joined": its owner has waited for it.     *)
FutureStates == {"none", "pending", "never", "signalled", "joined"}

TypeOK ==
    /\ queue \in Seq(Tasks)
    /\ nActive \in Nat
    /\ bDone \in BOOLEAN
    /\ cndQ \subseteq Workers
    /\ cndWait \subseteq Clients
    /\ stack \in [Threads -> Seq(Tasks)]
    /\ pc \in [Workers \cup Frames -> WorkerPc \cup TaskPc \cup ClientPc]
    /\ \A w \in Workers : pc[w] \in WorkerPc
    /\ \A t \in Tasks : pc[t] \in TaskPc
    /\ \A c \in Clients : pc[c] \in ClientPc
    /\ target \in [Frames -> Tasks \cup {NoTask}]
    /\ future \in [Tasks -> FutureStates]
    /\ destroying \in BOOLEAN

Init ==
    /\ queue = <<>>
    /\ nActive = 0
    /\ bDone = FALSE
    /\ cndQ = {}
    /\ cndWait = {}
    /\ stack = [th \in Threads |-> <<>>]
    /\ pc = [x \in Workers \cup Frames |->
                IF x \in Workers THEN "start"
                ELSE IF x \in Tasks THEN "new" ELSE "starting"]
    /\ target = [f \in Frames |-> NoTask]
    /\ future = [t \in Tasks |-> "none"]
    /\ destroying = FALSE

-----------------------------------------------------------------------------
(* The call stack and the queue                                            *)

(* The frame a thread is executing; a worker between tasks is in loop().   *)
Top(th) == IF stack[th] = <<>> THEN th ELSE stack[th][Len(stack[th])]

Push(th, t) == stack' = [stack EXCEPT ![th] = Append(@, t)]

Pop(th) == stack' = [stack EXCEPT ![th] = SubSeq(@, 1, Len(@) - 1)]

(* emplaceBackNoGrow keeps one slot of the ring unused.                    *)
HasRoom == Len(queue) < QueueCap - 1

ToAdd(f) == {t \in Children[f] : pc[t] = "new"}

Unjoined(f) == {t \in Children[f] : future[t] \in {"pending", "never", "signalled"}}

(* A client starts nothing new once somebody is destroying the pool.       *)
MayCall(f) == pc[f] = "body" /\ (f \in Clients => ~destroying)

-----------------------------------------------------------------------------
(* start(): the workers take their ids, the creator spins until all have.  *)

WorkerStarts(w) ==
    /\ pc[w] = "start"
    /\ pc' = [pc EXCEPT ![w] = "take"]
    /\ UNCHANGED <<queue, nActive, bDone, cndQ, cndWait, stack, target, future,
                   destroying>>

StartReturns(c) ==
    /\ pc[c] = "starting"
    /\ \A w \in Workers : pc[w] # "start"
    /\ pc' = [pc EXCEPT ![c] = "body"]
    /\ UNCHANGED <<queue, nActive, bDone, cndQ, cndWait, stack, target, future,
                   destroying>>

-----------------------------------------------------------------------------
(* addTask() and the wrappers around it, called by the frame f             *)

(* Mutant: the queue takes the closure and nobody is told.                 *)
AcceptSilently(f, t) ==
    /\ HasRoom
    /\ queue' = Append(queue, t)
    /\ pc' = [pc EXCEPT ![f] = "body", ![t] = "queued"]
    /\ target' = [target EXCEPT ![f] = NoTask]
    /\ future' = [future EXCEPT ![t] = IF t \in Detached THEN "none" ELSE "pending"]
    /\ UNCHANGED <<nActive, bDone, cndQ, cndWait, stack, destroying>>

(* The queue takes the closure; m_cndQ is signalled after the unlock.      *)
Accept(f, t) ==
    /\ HasRoom
    /\ queue' = Append(queue, t)
    /\ pc' = [pc EXCEPT ![f] = "signal", ![t] = "queued"]
    /\ target' = [target EXCEPT ![f] = NoTask]
    /\ future' = [future EXCEPT ![t] = IF t \in Detached THEN "none" ELSE "pending"]
    /\ UNCHANGED <<nActive, bDone, cndQ, cndWait, stack, destroying>>

CallInline(th, f, t, fut) ==
    /\ Push(th, t)
    /\ pc' = [pc EXCEPT ![t] = "body"]
    /\ future' = [future EXCEPT ![t] = fut]
    /\ UNCHANGED <<queue, nActive, bDone, cndQ, cndWait, target, destroying>>

(* addTask() that succeeds; addRetry()'s failed attempts change nothing.   *)
AddTask(f, t) ==
    /\ MayCall(f)
    /\ t \in ToAdd(f)
    /\ AddPolicy[t] \in {"retry", "inline"}
    /\ Accept(f, t)

AddFailsInline(th, f, t) ==
    /\ MayCall(f)
    /\ t \in ToAdd(f)
    /\ AddPolicy[t] = "inline"
    /\ ~HasRoom
    /\ CallInline(th, f, t, "none")

(* addRetryOrDo reads m_atomNActiveTasks without the lock, then commits.   *)
OrDoInline(th, f, t) ==
    /\ MayCall(f)
    /\ t \in ToAdd(f)
    /\ AddPolicy[t] \in {"orDo", "orDoFut"}
    /\ nActive >= Cardinality(Workers)
    /\ CallInline(th, f, t,
                  IF AddPolicy[t] = "orDo" \/ t \in Detached THEN "none" ELSE "never")

OrDoRetry(f, t) ==
    /\ MayCall(f)
    /\ t \in ToAdd(f)
    /\ AddPolicy[t] \in {"orDo", "orDoFut"}
    /\ nActive < Cardinality(Workers)
    /\ pc' = [pc EXCEPT ![f] = "adding"]
    /\ target' = [target EXCEPT ![f] = t]
    /\ UNCHANGED <<queue, nActive, bDone, cndQ, cndWait, stack, future, destroying>>

RetryAdd(f) ==
    /\ pc[f] = "adding"
    /\ Accept(f, target[f])

SignalQ(f) ==
    /\ pc[f] = "signal"
    /\ IF cndQ = {} THEN cndQ' = cndQ ELSE \E w \in cndQ : cndQ' = cndQ \ {w}
    /\ pc' = [pc EXCEPT ![f] = "body"]
    /\ UNCHANGED <<queue, nActive, bDone, cndWait, stack, target, future, destroying>>

-----------------------------------------------------------------------------
(* IThreadPool::Future<T>::wait(): steal until the queue is empty, then    *)
(* block.  The future's own mutex and condition variable have one waiter   *)
(* and are modelled as a latch.                                            *)

FutureWait(f, t) ==
    /\ MayCall(f)
    /\ t \in Unjoined(f)
    /\ pc' = [pc EXCEPT ![f] = "steal"]
    /\ target' = [target EXCEPT ![f] = t]
    /\ UNCHANGED <<queue, nActive, bDone, cndQ, cndWait, stack, future, destroying>>

(* Mutant: the thief copies the front task and leaves it in the queue.     *)
PeekAndCall(th) ==
    /\ queue # <<>>
    /\ Push(th, Head(queue))
    /\ pc' = [pc EXCEPT ![Head(queue)] = "body"]
    /\ UNCHANGED <<queue, nActive, bDone, cndQ, cndWait, target, future, destroying>>

(* tryStealTask() that returns a task: it is not counted in nActive.       *)
PopAndCall(th) ==
    /\ queue # <<>>
    /\ queue' = Tail(queue)
    /\ Push(th, Head(queue))
    /\ pc' = [pc EXCEPT ![Head(queue)] = "body"]
    /\ UNCHANGED <<nActive, bDone, cndQ, cndWait, target, future, destroying>>

TryStealTask(th, f) ==
    /\ pc[f] = "steal"
    /\ PopAndCall(th)

StealNothing(f) ==
    /\ pc[f] = "steal"
    /\ queue = <<>>
    /\ pc' = [pc EXCEPT ![f] = "blocked"]
    /\ UNCHANGED <<queue, nActive, bDone, cndQ, cndWait, stack, target, future,
                   destroying>>

FutureWaitReturns(f) ==
    /\ pc[f] = "blocked"
    /\ future[target[f]] = "signalled"
    /\ future' = [future EXCEPT ![target[f]] = "joined"]
    /\ target' = [target EXCEPT ![f] = NoTask]
    /\ pc' = [pc EXCEPT ![f] = "body"]
    /\ UNCHANGED <<queue, nActive, bDone, cndQ, cndWait, stack, destroying>>

(* Mutant: the closure returns without signalling its future.              *)
CallDoneSilently(t) ==
    /\ pc[t] = "body"
    /\ ToAdd(t) = {}
    /\ Unjoined(t) = {}
    /\ pc' = [pc EXCEPT ![t] = "return"]
    /\ UNCHANGED <<queue, nActive, bDone, cndQ, cndWait, stack, target, future,
                   destroying>>

(* A closure that has added its children and waited for those it holds     *)
(* futures of signals its own future, then returns to whoever called it.   *)
CallDone(t) ==
    /\ pc[t] = "body"
    /\ ToAdd(t) = {}
    /\ Unjoined(t) = {}
    /\ pc' = [pc EXCEPT ![t] = "return"]
    /\ future' = [future EXCEPT ![t] = IF @ = "pending" THEN "signalled" ELSE @]
    /\ UNCHANGED <<queue, nActive, bDone, cndQ, cndWait, stack, target, destroying>>

(* Mutant: a worker counts down for the tasks it steals too.               *)
CallReturnsToLoop(th, t) ==
    /\ pc[t] = "return"
    /\ Pop(th)
    /\ pc' = IF th \in Workers
             THEN [pc EXCEPT ![t] = "done", ![th] = "dec"]
             ELSE [pc EXCEPT ![t] = "done"]
    /\ UNCHANGED <<queue, nActive, bDone, cndQ, cndWait, target, future, destroying>>

CallReturns(th, t) ==
    /\ pc[t] = "return"
    /\ Pop(th)
    /\ pc' = IF th \in Workers /\ Len(stack[th]) = 1
             THEN [pc EXCEPT ![t] = "done", ![th] = "dec"]
             ELSE [pc EXCEPT ![t] = "done"]
    /\ UNCHANGED <<queue, nActive, bDone, cndQ, cndWait, target, future, destroying>>

-----------------------------------------------------------------------------
(* loop(): the worker w                                                    *)

TakeWaits(w) ==
    /\ pc[w] = "take" /\ w \notin cndQ
    /\ queue = <<>> /\ ~bDone
    /\ cndQ' = cndQ \cup {w}
    /\ UNCHANGED <<queue, nActive, bDone, cndWait, stack, pc, target, future,
                   destroying>>

(* Mutant: the worker takes a task without counting itself active.         *)
TakeTaskUncounted(w) ==
    /\ pc[w] = "take" /\ w \notin cndQ
    /\ queue # <<>> /\ ~bDone
    /\ queue' = Tail(queue)
    /\ Push(w, Head(queue))
    /\ pc' = [pc EXCEPT ![w] = "run", ![Head(queue)] = "body"]
    /\ UNCHANGED <<nActive, bDone, cndQ, cndWait, target, future, destroying>>

TakeTask(w) ==
    /\ pc[w] = "take" /\ w \notin cndQ
    /\ queue # <<>> /\ ~bDone
    /\ nActive' = nActive + 1
    /\ queue' = Tail(queue)
    /\ Push(w, Head(queue))
    /\ pc' = [pc EXCEPT ![w] = "run", ![Head(queue)] = "body"]
    /\ UNCHANGED <<bDone, cndQ, cndWait, target, future, destroying>>

(* The worker leaves as soon as it sees m_atomBDone, tasks or no tasks.    *)
TakeExits(w) ==
    /\ pc[w] = "take" /\ w \notin cndQ
    /\ bDone
    /\ pc' = [pc EXCEPT ![w] = "exited"]
    /\ UNCHANGED <<queue, nActive, bDone, cndQ, cndWait, stack, target, future,
                   destroying>>

(* Mutant: the worker goes for its next task without notifying.            *)
DecActiveOnly(w) ==
    /\ pc[w] = "dec"
    /\ nActive' = nActive - 1
    /\ pc' = [pc EXCEPT ![w] = "take"]
    /\ UNCHANGED <<queue, bDone, cndQ, cndWait, stack, target, future, destroying>>

DecActive(w) ==
    /\ pc[w] = "dec"
    /\ nActive' = nActive - 1
    /\ pc' = [pc EXCEPT ![w] = "notify"]
    /\ UNCHANGED <<queue, bDone, cndQ, cndWait, stack, target, future, destroying>>

(* m_cndWait.signal() wakes one waiter at most.                            *)
Notify(w) ==
    /\ pc[w] = "notify"
    /\ IF queue = <<>> /\ nActive <= 0 /\ cndWait # {}
       THEN \E c \in cndWait : cndWait' = cndWait \ {c}
       ELSE cndWait' = cndWait
    /\ pc' = [pc EXCEPT ![w] = "take"]
    /\ UNCHANGED <<queue, nActive, bDone, cndQ, stack, target, future, destroying>>

-----------------------------------------------------------------------------
(* wait(bHelp) and destroy(), called by a client outside of any task       *)

Wait(c, bHelp) ==
    /\ MayCall(c)
    /\ stack[c] = <<>>
    /\ pc' = [pc EXCEPT ![c] = IF bHelp THEN "help" ELSE "wait"]
    /\ UNCHANGED <<queue, nActive, bDone, cndQ, cndWait, stack, target, future,
                   destroying>>

WaitHelps(c) ==
    /\ pc[c] = "help" /\ stack[c] = <<>>
    /\ PopAndCall(c)

WaitStopsHelping(c) ==
    /\ pc[c] = "help" /\ stack[c] = <<>>
    /\ queue = <<>>
    /\ pc' = [pc EXCEPT ![c] = "wait"]
    /\ UNCHANGED <<queue, nActive, bDone, cndQ, cndWait, stack, target, future,
                   destroying>>

WaitBlocks(c) ==
    /\ pc[c] = "wait" /\ c \notin cndWait
    /\ queue # <<>> \/ nActive > 0
    /\ cndWait' = cndWait \cup {c}
    /\ UNCHANGED <<queue, nActive, bDone, cndQ, stack, pc, target, future, destroying>>

(* Mutant: wait() looks at the queue and forgets the running tasks.        *)
WaitReturnsOnEmpty(c) ==
    /\ pc[c] = "wait" /\ c \notin cndWait
    /\ queue = <<>>
    /\ pc' = [pc EXCEPT ![c] = IF destroying THEN "setDone" ELSE "body"]
    /\ UNCHANGED <<queue, nActive, bDone, cndQ, cndWait, stack, target, future,
                   destroying>>

WaitReturns(c) ==
    /\ pc[c] = "wait" /\ c \notin cndWait
    /\ queue = <<>> /\ nActive <= 0
    /\ pc' = [pc EXCEPT ![c] = IF destroying THEN "setDone" ELSE "body"]
    /\ UNCHANGED <<queue, nActive, bDone, cndQ, cndWait, stack, target, future,
                   destroying>>

(* Mutant: destroy() does not wait for the tasks first.                    *)
DestroyNow(c) ==
    /\ ~destroying
    /\ \A d \in Clients : pc[d] = "body" /\ stack[d] = <<>>
    /\ destroying' = TRUE
    /\ pc' = [pc EXCEPT ![c] = "setDone"]
    /\ UNCHANGED <<queue, nActive, bDone, cndQ, cndWait, stack, target, future>>

(* The program calls destroy() once, when no other client is in the pool.  *)
Destroy(c) ==
    /\ ~destroying
    /\ \A d \in Clients : pc[d] = "body" /\ stack[d] = <<>>
    /\ destroying' = TRUE
    /\ pc' = [pc EXCEPT ![c] = "help"]
    /\ UNCHANGED <<queue, nActive, bDone, cndQ, cndWait, stack, target, future>>

SetDone(c) ==
    /\ pc[c] = "setDone"
    /\ bDone' = TRUE
    /\ pc' = [pc EXCEPT ![c] = "broadcast"]
    /\ UNCHANGED <<queue, nActive, cndQ, cndWait, stack, target, future, destroying>>

BroadcastQ(c) ==
    /\ pc[c] = "broadcast"
    /\ cndQ' = {}
    /\ pc' = [pc EXCEPT ![c] = "join"]
    /\ UNCHANGED <<queue, nActive, bDone, cndWait, stack, target, future, destroying>>

JoinAll(c) ==
    /\ pc[c] = "join"
    /\ \A w \in Workers : pc[w] = "exited"
    /\ pc' = [pc EXCEPT ![c] = "destroyed"]
    /\ UNCHANGED <<queue, nActive, bDone, cndQ, cndWait, stack, target, future,
                   destroying>>

-----------------------------------------------------------------------------
SpuriousWakeup ==
    /\ Spurious
    /\ \/ \E w \in cndQ : cndQ' = cndQ \ {w} /\ UNCHANGED cndWait
       \/ \E c \in cndWait : cndWait' = cndWait \ {c} /\ UNCHANGED cndQ
    /\ UNCHANGED <<queue, nActive, bDone, stack, pc, target, future, destroying>>

(* Steps a thread has committed to by the call it is in.                   *)
FrameStep(th, f) ==
    /\ f = Top(th)
    /\ \/ RetryAdd(f)
       \/ SignalQ(f)
       \/ TryStealTask(th, f)
       \/ StealNothing(f)
       \/ FutureWaitReturns(f)

(* Mutant: a frame may wait for a closure that somebody else has added.    *)
FrameCallWaitsForAny(th, f) ==
    /\ f = Top(th)
    /\ \/ \E t \in Children[f] :
             AddTask(f, t) \/ AddFailsInline(th, f, t)
       \/ \E t \in Tasks :
             /\ MayCall(f)
             /\ future[t] \in {"pending", "signalled"}
             /\ pc' = [pc EXCEPT ![f] = "steal"]
             /\ target' = [target EXCEPT ![f] = t]
             /\ UNCHANGED <<queue, nActive, bDone, cndQ, cndWait, stack, future,
                            destroying>>

(* The calls a frame may choose to make next.                              *)
FrameCall(th, f) ==
    /\ f = Top(th)
    /\ \E t \in Children[f] :
          \/ AddTask(f, t)
          \/ AddFailsInline(th, f, t)
          \/ OrDoInline(th, f, t)
          \/ OrDoRetry(f, t)
          \/ FutureWait(f, t)

TaskStep(th, t) ==
    \/ FrameStep(th, t)
    \/ FrameCall(th, t)
    \/ t = Top(th) /\ (CallDone(t) \/ CallReturns(th, t))

WorkerStep(w) ==
    \/ WorkerStarts(w)
    \/ TakeWaits(w)
    \/ TakeTask(w)
    \/ TakeExits(w)
    \/ DecActive(w)
    \/ Notify(w)
    \/ \E t \in Tasks : TaskStep(w, t)

(* What a client must do once it is inside a call.                         *)
ClientStep(c) ==
    \/ StartReturns(c)
    \/ FrameStep(c, c)
    \/ WaitHelps(c)
    \/ WaitStopsHelping(c)
    \/ WaitBlocks(c)
    \/ WaitReturns(c)
    \/ SetDone(c)
    \/ BroadcastQ(c)
    \/ JoinAll(c)
    \/ \E t \in Tasks : TaskStep(c, t)

(* What a client may do, or never do.                                      *)
ClientCall(c) ==
    \/ FrameCall(c, c)
    \/ \E bHelp \in BOOLEAN : Wait(c, bHelp)
    \/ Destroy(c)

Destroyed == \E c \in Clients : pc[c] = "destroyed"

(* Nothing happens after destroy() has returned.                           *)
Terminated == Destroyed /\ UNCHANGED vars

Next ==
    \/ \E w \in Workers : WorkerStep(w)
    \/ \E c \in Clients : ClientStep(c) \/ ClientCall(c)
    \/ SpuriousWakeup
    \/ Terminated

Spec == Init /\ [][Next]_vars

(* Every runnable thread is eventually scheduled; a client need not call.  *)
FairSpec ==
    /\ Spec
    /\ \A w \in Workers : WF_vars(WorkerStep(w))
    /\ \A c \in Clients : WF_vars(ClientStep(c))

-----------------------------------------------------------------------------
InQueue(t) == \E i \in 1..Len(queue) : queue[i] = t

OnStack(t, th) == \E i \in 1..Len(stack[th]) : stack[th][i] = t

Called(t) == pc[t] \notin {"new", "queued", "done"}

(* Accounting: every accepted closure is in exactly one place.  A queued   *)
(* one is in the queue once, a called one on one stack once, and no other  *)
(* is in either: popFront and the stealing paths neither lose a task nor   *)
(* run one twice.                                                          *)
NoTaskLostOrDoubled ==
    /\ \A t \in Tasks : pc[t] = "queued" <=> InQueue(t)
    /\ \A i, j \in 1..Len(queue) : queue[i] = queue[j] => i = j
    /\ \A t \in Tasks : Called(t) <=> \E th \in Threads : OnStack(t, th)
    /\ \A th1, th2 \in Threads : \A i \in 1..Len(stack[th1]), j \in 1..Len(stack[th2]) :
          stack[th1][i] = stack[th2][j] => th1 = th2 /\ i = j

(* m_atomNActiveTasks counts the workers between taking a task and the     *)
(* fetchSub after it, however deep they steal meanwhile.                   *)
ActiveIsCounted ==
    /\ nActive = Cardinality({w \in Workers : pc[w] \in {"run", "dec"}})
    /\ \A w \in Workers : stack[w] # <<>> <=> pc[w] = "run"

(* m_cndQ: the workers never all sleep over a task, unless the adder still *)
(* has its signal to send; loop()'s predicate and addTask()'s signal after *)
(* the unlock lose no wakeup.                                              *)
NoSleepOverTask ==
    queue # <<>> /\ cndQ = Workers => \E th \in Threads : pc[Top(th)] = "signal"

(* m_cndWait: when everything has run, a client blocked in wait() has a    *)
(* worker that is about to notify.  It holds for one client: two waiters,  *)
(* or a client that steals the last task, break it (see the README).       *)
WaiterWillBeNotified ==
    queue = <<>> /\ nActive = 0 /\ cndWait # {} => \E w \in Workers : pc[w] = "notify"

(* wait() returns only when every accepted task has run, except those      *)
(* that another client is itself executing after stealing them.            *)
WaitMeansDone ==
    [][\A c \in Clients : WaitReturns(c) =>
          \A t \in Tasks : \/ pc[t] \in {"new", "done"}
                           \/ \E d \in Clients \ {c} : OnStack(t, d)]_vars

(* What destroy() asserts after the joins, and what its caller relies on:  *)
(* no active task, no task left behind in the queue it frees, nobody in a  *)
(* condition variable it destroys, no closure half way.                    *)
DestroyIsClean ==
    Destroyed => /\ nActive = 0
                 /\ queue = <<>>
                 /\ cndQ = {} /\ cndWait = {}
                 /\ \A t \in Tasks : pc[t] \in {"new", "done"}

(* Work stealing puts unrelated closures on top of one that will wait, so  *)
(* threads blocked in Future::wait() could wait for closures buried on     *)
(* each other's stacks.  When frames wait only for closures they have      *)
(* added, as sort::quickParallel and parallelFor do, they never form a     *)
(* cycle, and no thread waits for a closure on its own stack.              *)
NoJoinCycle ==
    \A S \in (SUBSET Threads) \ {{}} : \E th \in S :
        \/ pc[Top(th)] # "blocked"
        \/ \A th2 \in S : ~OnStack(target[Top(th)], th2)

(* Waiting for a closure that addRetryOrDo(pFut, cl) has called inline,    *)
(* and whose future nobody will signal.                                    *)
Abandoned == \E f \in Frames : pc[f] = "blocked" /\ future[target[f]] = "never"

(* Every task the queue accepted is eventually started, and executed to    *)
(* its end unless there is an abandoned frame, which may lie above it on   *)
(* its stack or above what it waits for.  Clients abandon fewer frames     *)
(* than there are workers, so that one is left to start every task.        *)
AcceptedTasksRun ==
    \A t \in Tasks : pc[t] = "queued" ~> pc[t] = "done" \/ (Called(t) /\ Abandoned)

(* A call to wait(), a Future::wait() and destroy() eventually return:     *)
(* there is no other reason to hang than an abandoned frame.               *)
EveryCallReturns ==
    /\ \A c \in Clients :
          pc[c] \in {"help", "wait"} ~> pc[c] \in {"body", "setDone"} \/ Abandoned
    /\ \A f \in Frames : pc[f] \in {"steal", "blocked"} ~> pc[f] = "body" \/ Abandoned
    /\ destroying ~> Destroyed \/ Abandoned
=============================================================================
