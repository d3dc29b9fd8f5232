-------------------------- MODULE ThreadPoolProofs --------------------------
(***************************************************************************)
(* Safety of the thread pool for any number of workers, clients, closures  *)
(* and queue slots.                                                        *)
(***************************************************************************)
EXTENDS ThreadPool, ProofLemmas, FiniteSetTheorems, SequenceTheorems, TLAPS

Active == {w \in Workers : pc[w] \in {"run", "dec"}}

(* A frame that retries an add is adding a closure of its own, which is    *)
(* still new.                                                              *)
AddingIsOwn ==
    \A f \in Frames : pc[f] = "adding" =>
        target[f] \in Children[f] /\ pc[target[f]] = "new"

(* A client past the helping loop of wait() is executing nothing else.     *)
WaitingIsIdle ==
    \A c \in Clients : pc[c] \in {"wait", "setDone", "broadcast", "join"} =>
        stack[c] = <<>>

(* The parts of NoTaskLostOrDoubled.                                       *)
QueuedIsInQueue == \A t \in Tasks : pc[t] = "queued" <=> InQueue(t)

QueueIsDistinct == \A i, j \in 1..Len(queue) : queue[i] = queue[j] => i = j

CalledIsOnStack ==
    \A t \in Tasks : Called(t) <=> \E th \in Threads : OnStack(t, th)

StacksAreDistinct ==
    \A th1, th2 \in Threads : \A i \in 1..Len(stack[th1]), j \in 1..Len(stack[th2]) :
        stack[th1][i] = stack[th2][j] => th1 = th2 /\ i = j

IInv ==
    /\ TypeOK
    /\ AddingIsOwn
    /\ ActiveIsCounted
    /\ NoTaskLostOrDoubled
    /\ WaitingIsIdle

-----------------------------------------------------------------------------
(* The steps of the pool, by who takes them.                               *)

(* A step of the frame f on top of the stack of th.                        *)
CallStep(th, f) ==
    \/ RetryAdd(f)
    \/ SignalQ(f)
    \/ TryStealTask(th, f)
    \/ StealNothing(f)
    \/ FutureWaitReturns(f)
    \/ f \in Tasks /\ CallDone(f)
    \/ f \in Tasks /\ CallReturns(th, f)
    \/ \E t \in Children[f] :
          \/ AddTask(f, t)
          \/ AddFailsInline(th, f, t)
          \/ OrDoInline(th, f, t)
          \/ OrDoRetry(f, t)
          \/ FutureWait(f, t)

(* A step of loop() itself.                                                *)
LoopStep(w) ==
    \/ WorkerStarts(w)
    \/ TakeWaits(w)
    \/ TakeTask(w)
    \/ TakeExits(w)
    \/ DecActive(w)
    \/ Notify(w)

(* A step of start(), wait() or destroy() itself.                          *)
WaitStep(c) ==
    \/ StartReturns(c)
    \/ \E bHelp \in BOOLEAN : Wait(c, bHelp)
    \/ WaitHelps(c)
    \/ WaitStopsHelping(c)
    \/ WaitBlocks(c)
    \/ WaitReturns(c)
    \/ Destroy(c)
    \/ SetDone(c)
    \/ BroadcastQ(c)
    \/ JoinAll(c)

(* Every step of the system is one of these.                               *)
LEMMA StepCases ==
    ASSUME [Next]_vars
    PROVE  \/ \E th \in Threads, f \in Frames : f = Top(th) /\ CallStep(th, f)
           \/ \E w \in Workers : LoopStep(w)
           \/ \E c \in Clients : WaitStep(c)
           \/ SpuriousWakeup
           \/ UNCHANGED vars
<1>1. ASSUME NEW th \in Threads, NEW t \in Tasks, TaskStep(th, t)
      PROVE  t \in Frames /\ t = Top(th) /\ CallStep(th, t)
  BY <1>1 DEF TaskStep, FrameStep, FrameCall, CallStep, Frames
<1>2. ASSUME NEW c \in Clients, FrameStep(c, c) \/ FrameCall(c, c)
      PROVE  c \in Threads /\ c \in Frames /\ c = Top(c) /\ CallStep(c, c)
  BY <1>2 DEF FrameStep, FrameCall, CallStep, Frames, Threads
<1>3. ASSUME NEW w \in Workers, WorkerStep(w)
      PROVE  LoopStep(w) \/ \E t \in Tasks : TaskStep(w, t)
  BY <1>3 DEF WorkerStep, LoopStep
<1>4. ASSUME NEW c \in Clients, ClientStep(c) \/ ClientCall(c)
      PROVE  \/ WaitStep(c)
             \/ FrameStep(c, c) \/ FrameCall(c, c)
             \/ \E t \in Tasks : TaskStep(c, t)
  BY <1>4 DEF ClientStep, ClientCall, WaitStep
<1> QED
  BY <1>1, <1>2, <1>3, <1>4 DEF Next, Terminated, Threads

-----------------------------------------------------------------------------
(* Facts about the call stack and the queue.                               *)

(* The top frame of a thread is the last closure on its stack, or the      *)
(* thread's own program.                                                   *)
LEMMA TopOfStack ==
    ASSUME TypeOK, NEW th \in Threads, NEW f \in Frames, f = Top(th)
    PROVE  /\ f \in Tasks => stack[th] # <<>> /\ stack[th][Len(stack[th])] = f
           /\ f \in Clients => stack[th] = <<>> /\ th = f
           /\ th \in Workers => f \in Tasks
<1>1. stack[th] \in Seq(Tasks)
  BY DEF TypeOK
<1>2. CASE stack[th] = <<>>
  BY <1>2, DisjointAssumption DEF Top, Frames, Threads
<1>3. CASE stack[th] # <<>>
  <2>1. stack[th][Len(stack[th])] \in Tasks
    BY <1>1, <1>3
  <2> QED
    BY <1>3, <2>1, DisjointAssumption DEF Top, Frames, Threads
<1> QED
  BY <1>2, <1>3

(* What popping a stack leaves: the same frames without the last.          *)
LEMMA PopOfSeq ==
    ASSUME NEW S, NEW s \in Seq(S), s # <<>>
    PROVE  /\ SubSeq(s, 1, Len(s) - 1) \in Seq(S)
           /\ Len(SubSeq(s, 1, Len(s) - 1)) = Len(s) - 1
           /\ \A i \in 1..(Len(s) - 1) : SubSeq(s, 1, Len(s) - 1)[i] = s[i]
<1> DEFINE n == Len(s) - 1
<1>1. n \in Nat
  OBVIOUS
<1>2. \A i \in 1..n : s[i] \in S
  OBVIOUS
<1> HIDE DEF n
<1>3. /\ SubSeq(s, 1, n) \in Seq(S)
      /\ Len(SubSeq(s, 1, n)) = IF 1 <= n THEN n - 1 + 1 ELSE 0
      /\ \A i \in 1..(n - 1 + 1) : SubSeq(s, 1, n)[i] = s[1 + i - 1]
  BY <1>1, <1>2, SubSeqProperties, Z3
<1>4. Len(SubSeq(s, 1, n)) = n /\ \A i \in 1..n : SubSeq(s, 1, n)[i] = s[i]
  BY <1>1, <1>3
<1> QED
  BY <1>3, <1>4 DEF n

(* What popFront leaves in the queue: the same elements, one place nearer. *)
LEMMA TailOfSeq ==
    ASSUME NEW S, NEW s \in Seq(S), s # <<>>
    PROVE  /\ Tail(s) \in Seq(S)
           /\ Head(s) \in S
           /\ Head(s) = s[1]
           /\ Len(Tail(s)) = Len(s) - 1
           /\ \A i \in 1..Len(Tail(s)) : Tail(s)[i] = s[i + 1]
  BY HeadTailProperties

-----------------------------------------------------------------------------
(* Type correctness of the steps, but for the range of nActive.            *)

(* addTask keeps the types, and the future's state is set as the owner     *)
(* holds one.                                                              *)
LEMMA AcceptType ==
    ASSUME TypeOK, NEW f \in Frames, NEW t \in Tasks, Accept(f, t),
           f # t
    PROVE  TypeOK'
<1>1. queue' \in Seq(Tasks) /\ target' \in [Frames -> Tasks \cup {NoTask}]
  BY DEF TypeOK, Accept
<1>2. future' \in [Tasks -> FutureStates]
  BY DEF TypeOK, Accept, FutureStates
<1>3. /\ pc' = [pc EXCEPT ![f] = "signal", ![t] = "queued"]
      /\ f \notin Workers /\ t \notin Workers
      /\ f \in Workers \cup Frames /\ t \in Workers \cup Frames
  BY DisjointAssumption DEF Accept, Frames
<1>4. /\ pc' \in [Workers \cup Frames -> WorkerPc \cup TaskPc \cup ClientPc]
      /\ \A w \in Workers : pc'[w] \in WorkerPc
  BY <1>3 DEF TypeOK, TaskPc
<1>5. \A u \in Tasks : pc'[u] \in TaskPc
  BY <1>3 DEF TypeOK, TaskPc, Frames
<1>6. \A c \in Clients : pc'[c] \in ClientPc
  BY <1>3, DisjointAssumption DEF TypeOK, ClientPc, Frames
<1> QED
  BY <1>1, <1>2, <1>4, <1>5, <1>6 DEF TypeOK, Accept

(* A direct call keeps the types.                                          *)
LEMMA CallInlineType ==
    ASSUME TypeOK, NEW th \in Threads, NEW f \in Frames, NEW t \in Tasks,
           NEW fut \in FutureStates, CallInline(th, f, t, fut)
    PROVE  TypeOK'
  BY DisjointAssumption DEF TypeOK, CallInline, Push, Frames, Threads, TaskPc

(* popFront and the call of its result keep the types.                     *)
LEMMA PopAndCallType ==
    ASSUME TypeOK, NEW th \in Threads, PopAndCall(th)
    PROVE  TypeOK'
<1>1. Head(queue) \in Tasks /\ Tail(queue) \in Seq(Tasks)
  BY TailOfSeq DEF TypeOK, PopAndCall
<1> QED
  BY <1>1, DisjointAssumption DEF TypeOK, PopAndCall, Push, Frames, Threads, TaskPc

(* The return of a closure keeps the types.                                *)
LEMMA CallReturnsType ==
    ASSUME TypeOK, NEW th \in Threads, NEW t \in Tasks, t = Top(th), CallReturns(th, t)
    PROVE  TypeOK'
<1>1. stack[th] \in Seq(Tasks) /\ stack[th] # <<>>
  BY TopOfStack DEF TypeOK, Frames
<1>2. stack' \in [Threads -> Seq(Tasks)]
  BY <1>1, PopOfSeq DEF TypeOK, CallReturns, Pop
<1>3. /\ pc' \in [Workers \cup Frames -> WorkerPc \cup TaskPc \cup ClientPc]
      /\ \A w \in Workers : pc'[w] \in WorkerPc
      /\ \A u \in Tasks : pc'[u] \in TaskPc
      /\ \A c \in Clients : pc'[c] \in ClientPc
  <2>1. \/ pc' = [pc EXCEPT ![t] = "done"]
        \/ th \in Workers /\ pc' = [pc EXCEPT ![t] = "done", ![th] = "dec"]
    BY DEF CallReturns
  <2>2. pc' \in [Workers \cup Frames -> WorkerPc \cup TaskPc \cup ClientPc]
    BY <2>1 DEF TypeOK, WorkerPc, TaskPc
  <2>3. \A x \in Workers \cup Frames :
           pc'[x] = pc[x] \/ (x = t /\ pc'[x] = "done")
           \/ (x \in Workers /\ pc'[x] = "dec")
    BY <2>1 DEF TypeOK
  <2>4. (\A w \in Workers : pc'[w] \in WorkerPc) /\ (\A u \in Tasks : pc'[u] \in TaskPc)
    BY <2>3, DisjointAssumption DEF TypeOK, Frames, WorkerPc, TaskPc
  <2>5. \A c \in Clients : pc'[c] \in ClientPc
    BY <2>3, DisjointAssumption DEF TypeOK, Frames
  <2> QED
    BY <2>2, <2>4, <2>5
<1> QED
  BY <1>2, <1>3 DEF TypeOK, CallReturns

(* Each thread has at most one frame, so a frame that calls is not new.    *)
LEMMA CallStepType ==
    ASSUME TypeOK, AddingIsOwn, NEW th \in Threads, NEW f \in Frames,
           f = Top(th), CallStep(th, f)
    PROVE  TypeOK'
<1>1. CASE RetryAdd(f)
  <2>1. target[f] \in Tasks /\ pc[target[f]] = "new" /\ pc[f] = "adding"
    BY <1>1, ChildrenAssumption DEF RetryAdd, AddingIsOwn
  <2> QED
    BY <1>1, <2>1, AcceptType DEF RetryAdd
<1>2. CASE SignalQ(f)
  BY <1>2, DisjointAssumption DEF TypeOK, SignalQ, Frames, TaskPc, ClientPc
<1>3. CASE TryStealTask(th, f)
  BY <1>3, PopAndCallType DEF TryStealTask
<1>4. CASE StealNothing(f)
  BY <1>4, DisjointAssumption DEF TypeOK, StealNothing, Frames, TaskPc, ClientPc
<1>5. CASE FutureWaitReturns(f)
  <2>1. future' \in [Tasks -> FutureStates]
    BY <1>5 DEF TypeOK, FutureWaitReturns, FutureStates
  <2>2. target' \in [Frames -> Tasks \cup {NoTask}]
    BY <1>5 DEF TypeOK, FutureWaitReturns
  <2>3. /\ pc' = [pc EXCEPT ![f] = "body"]
        /\ f \notin Workers
    BY <1>5, DisjointAssumption DEF FutureWaitReturns, Frames
  <2>4. /\ pc' \in [Workers \cup Frames -> WorkerPc \cup TaskPc \cup ClientPc]
        /\ \A w \in Workers : pc'[w] \in WorkerPc
        /\ \A u \in Tasks : pc'[u] \in TaskPc
        /\ \A c \in Clients : pc'[c] \in ClientPc
    BY <2>3 DEF TypeOK, Frames, TaskPc, ClientPc
  <2> QED
    BY <1>5, <2>1, <2>2, <2>4 DEF TypeOK, FutureWaitReturns
<1>6. CASE f \in Tasks /\ CallDone(f)
  <2>1. future' \in [Tasks -> FutureStates]
    BY <1>6 DEF TypeOK, CallDone, FutureStates
  <2> QED
    BY <1>6, <2>1, DisjointAssumption DEF TypeOK, CallDone, Frames, TaskPc
<1>7. CASE f \in Tasks /\ CallReturns(th, f)
  BY <1>7, CallReturnsType
<1>8. ASSUME NEW t \in Children[f], AddTask(f, t)
      PROVE  TypeOK'
  <2>1. t \in Tasks /\ pc[t] = "new" /\ pc[f] = "body"
    BY <1>8, ChildrenAssumption DEF AddTask, MayCall, ToAdd
  <2> QED
    BY <1>8, <2>1, AcceptType DEF AddTask
<1>9. ASSUME NEW t \in Children[f], AddFailsInline(th, f, t) \/ OrDoInline(th, f, t)
      PROVE  TypeOK'
  <2>1. t \in Tasks
    BY <1>9, ChildrenAssumption
  <2>2. PICK fut \in FutureStates : CallInline(th, f, t, fut)
    BY <1>9 DEF AddFailsInline, OrDoInline, FutureStates
  <2> QED
    BY <2>1, <2>2, CallInlineType
<1>10. ASSUME NEW t \in Children[f], OrDoRetry(f, t) \/ FutureWait(f, t)
       PROVE  TypeOK'
  <2>1. t \in Tasks
    BY <1>10, ChildrenAssumption
  <2>2. CASE OrDoRetry(f, t)
    BY <2>1, <2>2, DisjointAssumption DEF TypeOK, OrDoRetry, Frames, TaskPc, ClientPc
  <2>3. CASE FutureWait(f, t)
    BY <2>1, <2>3, DisjointAssumption DEF TypeOK, FutureWait, Frames, TaskPc, ClientPc
  <2> QED
    BY <1>10, <2>2, <2>3
<1> QED
  BY <1>1, <1>2, <1>3, <1>4, <1>5, <1>6, <1>7, <1>8, <1>9, <1>10 DEF CallStep

(* The steps of ThreadPool::loop keep the types.                           *)
LEMMA LoopStepType ==
    ASSUME TypeOK, ActiveIsCounted, NEW w \in Workers, LoopStep(w),
           nActive' \in Nat
    PROVE  TypeOK'
<1>1. CASE WorkerStarts(w)
  BY <1>1, DisjointAssumption DEF TypeOK, WorkerStarts, Frames, WorkerPc
<1>2. CASE TakeWaits(w)
  BY <1>2 DEF TypeOK, TakeWaits
<1>3. CASE TakeTask(w)
  <2>1. Head(queue) \in Tasks /\ Tail(queue) \in Seq(Tasks)
    BY <1>3, TailOfSeq DEF TypeOK, TakeTask
  <2>2. stack' \in [Threads -> Seq(Tasks)]
    BY <1>3, <2>1 DEF TypeOK, TakeTask, Push, Threads
  <2>3. /\ pc' \in [Workers \cup Frames -> WorkerPc \cup TaskPc \cup ClientPc]
        /\ \A v \in Workers : pc'[v] \in WorkerPc
        /\ \A t \in Tasks : pc'[t] \in TaskPc
        /\ \A c \in Clients : pc'[c] \in ClientPc
    <3>1. pc' = [pc EXCEPT ![w] = "run", ![Head(queue)] = "body"]
      BY <1>3 DEF TakeTask
    <3>2. pc' \in [Workers \cup Frames -> WorkerPc \cup TaskPc \cup ClientPc]
      BY <3>1 DEF TypeOK, WorkerPc, TaskPc
    <3>3. \A x \in Workers \cup Frames :
             pc'[x] = pc[x] \/ (x = w /\ pc'[x] = "run")
             \/ (x = Head(queue) /\ pc'[x] = "body")
      BY <3>1 DEF TypeOK
    <3>4. (\A v \in Workers : pc'[v] \in WorkerPc) /\ (\A t \in Tasks : pc'[t] \in TaskPc)
      BY <2>1, <3>3, DisjointAssumption DEF TypeOK, Frames, WorkerPc, TaskPc
    <3>5. \A c \in Clients : pc'[c] \in ClientPc
      BY <2>1, <3>3, DisjointAssumption DEF TypeOK, Frames
    <3> QED
      BY <3>2, <3>4, <3>5
  <2> QED
    BY <1>3, <2>1, <2>2, <2>3 DEF TypeOK, TakeTask
<1>4. CASE TakeExits(w)
  BY <1>4, DisjointAssumption DEF TypeOK, TakeExits, Frames, WorkerPc
<1>5. CASE DecActive(w)
  BY <1>5, DisjointAssumption DEF TypeOK, DecActive, Frames, WorkerPc
<1>6. CASE Notify(w)
  BY <1>6, DisjointAssumption DEF TypeOK, Notify, Frames, WorkerPc
<1> QED
  BY <1>1, <1>2, <1>3, <1>4, <1>5, <1>6 DEF LoopStep

(* The steps of start, wait and destroy keep the types.                    *)
LEMMA WaitStepType ==
    ASSUME TypeOK, NEW c \in Clients, WaitStep(c)
    PROVE  TypeOK'
<1>1. CASE WaitHelps(c)
  BY <1>1, PopAndCallType DEF WaitHelps, Threads
<1>2. CASE WaitBlocks(c)
  BY <1>2 DEF TypeOK, WaitBlocks
<1>3. ASSUME NEW v \in ClientPc, pc' = [pc EXCEPT ![c] = v]
      PROVE  /\ pc' \in [Workers \cup Frames -> WorkerPc \cup TaskPc \cup ClientPc]
             /\ \A w \in Workers : pc'[w] \in WorkerPc
             /\ \A u \in Tasks : pc'[u] \in TaskPc
             /\ \A d \in Clients : pc'[d] \in ClientPc
  BY <1>3, DisjointAssumption DEF TypeOK, Frames
<1>4. ASSUME \/ StartReturns(c)
             \/ \E bHelp \in BOOLEAN : Wait(c, bHelp)
             \/ WaitStopsHelping(c)
             \/ WaitReturns(c)
             \/ Destroy(c)
             \/ SetDone(c)
             \/ BroadcastQ(c)
             \/ JoinAll(c)
      PROVE  TypeOK'
  <2>1. PICK v \in ClientPc : pc' = [pc EXCEPT ![c] = v]
    BY <1>4 DEF ClientPc, StartReturns, Wait, WaitStopsHelping, WaitReturns,
                Destroy, SetDone, BroadcastQ, JoinAll
  <2> QED
    BY <1>4, <1>3, <2>1 DEF TypeOK, StartReturns, Wait, WaitStopsHelping,
                WaitReturns, Destroy, SetDone, BroadcastQ, JoinAll
<1> QED
  BY <1>1, <1>2, <1>4 DEF WaitStep

-----------------------------------------------------------------------------
(* What the operations on the queue and the stacks do to membership.       *)

(* emplaceBackNoGrow puts one closure in the queue and leaves the others.  *)
LEMMA EnqueueEffect ==
    ASSUME queue \in Seq(Tasks), NEW t \in Tasks, queue' = Append(queue, t),
           ~InQueue(t), QueueIsDistinct
    PROVE  /\ \A u \in Tasks : InQueue(u)' <=> InQueue(u) \/ u = t
           /\ QueueIsDistinct'
<1>1. /\ Len(queue') = Len(queue) + 1
      /\ Len(queue) \in Nat
      /\ \A i \in 1..Len(queue) : queue'[i] = queue[i]
      /\ queue'[Len(queue) + 1] = t
  OBVIOUS
<1>2. \A u \in Tasks : InQueue(u)' <=> InQueue(u) \/ u = t
  BY <1>1 DEF InQueue
<1>3. QueueIsDistinct'
  BY <1>1 DEF QueueIsDistinct, InQueue
<1> QED
  BY <1>2, <1>3

(* popFront takes one closure out of a queue without repetitions.          *)
LEMMA DequeueEffect ==
    ASSUME queue \in Seq(Tasks), queue # <<>>, queue' = Tail(queue), QueueIsDistinct
    PROVE  /\ InQueue(Head(queue))
           /\ \A u \in Tasks : InQueue(u)' <=> InQueue(u) /\ u # Head(queue)
           /\ QueueIsDistinct'
<1>1. /\ Head(queue) = queue[1]
      /\ Len(queue) \in Nat \ {0}
      /\ Len(queue') = Len(queue) - 1
      /\ \A i \in 1..(Len(queue) - 1) : queue'[i] = queue[i + 1]
  BY TailOfSeq
<1>2. InQueue(Head(queue))
  BY <1>1 DEF InQueue
<1>3. ASSUME NEW u \in Tasks
      PROVE  InQueue(u)' <=> InQueue(u) /\ u # Head(queue)
  <2>1. ASSUME InQueue(u)'
        PROVE  InQueue(u) /\ u # Head(queue)
    <3>1. PICK i \in 1..(Len(queue) - 1) : queue[i + 1] = u
      BY <1>1, <2>1 DEF InQueue
    <3> QED
      BY <1>1, <3>1 DEF InQueue, QueueIsDistinct
  <2>2. ASSUME InQueue(u), u # Head(queue)
        PROVE  InQueue(u)'
    <3>1. PICK i \in 1..Len(queue) : queue[i] = u
      BY <2>2 DEF InQueue
    <3>2. i - 1 \in 1..(Len(queue) - 1) /\ queue'[i - 1] = u
      BY <1>1, <2>2, <3>1
    <3> QED
      BY <1>1, <3>2 DEF InQueue
  <2> QED
    BY <2>1, <2>2
<1>4. QueueIsDistinct'
  BY <1>1 DEF QueueIsDistinct
<1> QED
  BY <1>2, <1>3, <1>4

(* A call puts one closure on one stack.                                   *)
LEMMA PushEffect ==
    ASSUME stack \in [Threads -> Seq(Tasks)], NEW th \in Threads, NEW t \in Tasks,
           Push(th, t), \A x \in Threads : ~OnStack(t, x), StacksAreDistinct
    PROVE  /\ \A u \in Tasks, x \in Threads :
                 OnStack(u, x)' <=> OnStack(u, x) \/ (u = t /\ x = th)
           /\ StacksAreDistinct'
<1>1. /\ Len(stack'[th]) = Len(stack[th]) + 1
      /\ Len(stack[th]) \in Nat
      /\ \A i \in 1..Len(stack[th]) : stack'[th][i] = stack[th][i]
      /\ stack'[th][Len(stack[th]) + 1] = t
      /\ \A x \in Threads \ {th} : stack'[x] = stack[x]
  BY DEF Push
<1>2. ASSUME NEW u \in Tasks, NEW x \in Threads
      PROVE  OnStack(u, x)' <=> OnStack(u, x) \/ (u = t /\ x = th)
  <2>1. OnStack(u, th)' <=> OnStack(u, th) \/ u = t
    <3>1. \A i \in 1..(Len(stack[th]) + 1) : i \in 1..Len(stack[th]) \/ i = Len(stack[th]) + 1
      BY <1>1
    <3>2. \A i \in 1..Len(stack[th]) : i \in 1..(Len(stack[th]) + 1)
      BY <1>1
    <3>3. Len(stack[th]) + 1 \in 1..(Len(stack[th]) + 1)
      BY <1>1
    <3> QED
      BY <1>1, <3>1, <3>2, <3>3, Zenon DEF OnStack
  <2>2. CASE x # th
    <3>1. stack'[x] = stack[x]
      BY <1>1, <2>2
    <3> QED
      BY <2>2, <3>1, Zenon DEF OnStack
  <2> QED
    BY <2>1, <2>2, Zenon
<1>3. ASSUME NEW x \in Threads, NEW y \in Threads,
             NEW i \in 1..Len(stack'[x]), NEW j \in 1..Len(stack'[y]),
             stack'[x][i] = stack'[y][j]
      PROVE  x = y /\ i = j
  <2>1. ASSUME NEW z \in Threads, NEW k \in 1..Len(stack'[z])
        PROVE  \/ k \in 1..Len(stack[z]) /\ stack'[z][k] = stack[z][k]
               \/ z = th /\ k = Len(stack[th]) + 1 /\ stack'[z][k] = t
    <3>1. CASE z # th
      BY <1>1, <3>1
    <3>2. CASE z = th
      <4>1. k \in 1..(Len(stack[th]) + 1)
        BY <1>1, <2>1, <3>2, Zenon
      <4>2. k \in 1..Len(stack[th]) \/ k = Len(stack[th]) + 1
        BY <1>1, <4>1
      <4> QED
        BY <1>1, <3>2, <4>2, Zenon
    <3> QED
      BY <3>1, <3>2
  <2>2. CASE i \in 1..Len(stack[x]) /\ stack'[x][i] = stack[x][i]
    <3>1. stack[x][i] # t
      BY <2>2 DEF OnStack
    <3>2. j \in 1..Len(stack[y]) /\ stack'[y][j] = stack[y][j]
      BY <1>3, <2>1, <2>2, <3>1
    <3>3. stack[x][i] = stack[y][j]
      BY <1>3, <2>2, <3>2, Zenon
    <3> QED
      BY <2>2, <3>2, <3>3 DEF StacksAreDistinct
  <2>3. CASE x = th /\ i = Len(stack[th]) + 1 /\ stack'[x][i] = t
    <3>1. ~(j \in 1..Len(stack[y]) /\ stack'[y][j] = stack[y][j])
      BY <1>3, <2>3 DEF OnStack
    <3> QED
      BY <2>1, <2>3, <3>1
  <2> QED
    BY <2>1, <2>2, <2>3
<1>4. StacksAreDistinct'
  BY <1>3 DEF StacksAreDistinct
<1> QED
  BY <1>2, <1>4

(* A return takes one closure off its stack.                               *)
LEMMA PopEffect ==
    ASSUME stack \in [Threads -> Seq(Tasks)], NEW th \in Threads, NEW t \in Tasks,
           Pop(th), stack[th] # <<>>, stack[th][Len(stack[th])] = t, StacksAreDistinct
    PROVE  /\ OnStack(t, th)
           /\ \A u \in Tasks, x \in Threads :
                 OnStack(u, x)' <=> OnStack(u, x) /\ u # t
           /\ StacksAreDistinct'
<1>1. /\ Len(stack[th]) \in Nat \ {0}
      /\ Len(stack'[th]) = Len(stack[th]) - 1
      /\ \A i \in 1..(Len(stack[th]) - 1) : stack'[th][i] = stack[th][i]
      /\ \A x \in Threads \ {th} : stack'[x] = stack[x]
  <2>1. stack'[th] = SubSeq(stack[th], 1, Len(stack[th]) - 1)
    BY DEF Pop
  <2>2. stack[th] \in Seq(Tasks)
    OBVIOUS
  <2>3. \A x \in Threads \ {th} : stack'[x] = stack[x]
    BY DEF Pop
  <2>4. Len(stack[th]) \in Nat \ {0}
    BY <2>2
  <2> QED
    BY <2>1, <2>2, <2>3, <2>4, PopOfSeq
<1>2. OnStack(t, th)
  BY <1>1 DEF OnStack
<1>3. ASSUME NEW u \in Tasks, NEW x \in Threads
      PROVE  OnStack(u, x)' <=> OnStack(u, x) /\ u # t
  <2>1. CASE x = th
    <3>1. \A i \in 1..Len(stack[th]) : stack[th][i] = t <=> i = Len(stack[th])
      BY <1>1 DEF StacksAreDistinct
    <3>2. \A i \in 1..Len(stack[th]) : i \in 1..(Len(stack[th]) - 1) <=> i # Len(stack[th])
      BY <1>1
    <3>3. \A i \in 1..(Len(stack[th]) - 1) : i \in 1..Len(stack[th])
      BY <1>1
    <3>4. OnStack(u, th)' <=> OnStack(u, th) /\ u # t
      BY <1>1, <3>1, <3>2, <3>3, Zenon DEF OnStack
    <3> QED
      BY <2>1, <3>4, Zenon
  <2>2. CASE x # th
    <3>1. stack'[x] = stack[x]
      BY <1>1, <2>2
    <3>2. Len(stack[th]) \in 1..Len(stack[th])
      BY <1>1
    <3>3. \A i \in 1..Len(stack[x]) : stack[x][i] # t
      BY <2>2, <3>2, Zenon DEF StacksAreDistinct
    <3> QED
      BY <3>1, <3>3, Zenon DEF OnStack
  <2> QED
    BY <2>1, <2>2
<1>4. \A x \in Threads : /\ Len(stack'[x]) \in Nat
                         /\ Len(stack'[x]) <= Len(stack[x])
                         /\ \A i \in 1..Len(stack'[x]) : stack'[x][i] = stack[x][i]
  <2>1. \A x \in Threads : Len(stack[x]) \in Nat
    OBVIOUS
  <2> QED
    BY SMTT(30), <1>1, <2>1
<1>5. ASSUME NEW x \in Threads, NEW i \in 1..Len(stack'[x])
      PROVE  i \in 1..Len(stack[x]) /\ stack'[x][i] = stack[x][i]
  <2>1. Len(stack[x]) \in Nat
    OBVIOUS
  <2> QED
    BY <1>4, <2>1
<1>6. ASSUME NEW x \in Threads, NEW y \in Threads,
             NEW i \in 1..Len(stack'[x]), NEW j \in 1..Len(stack'[y]),
             stack'[x][i] = stack'[y][j]
      PROVE  x = y /\ i = j
  <2>1. i \in 1..Len(stack[x]) /\ j \in 1..Len(stack[y]) /\ stack[x][i] = stack[y][j]
    BY <1>5, <1>6, Zenon
  <2> QED
    BY <2>1, Zenon DEF StacksAreDistinct
<1>7. StacksAreDistinct'
  BY <1>6, Zenon DEF StacksAreDistinct
<1> QED
  BY <1>2, <1>3, <1>7

-----------------------------------------------------------------------------
(* Conservation of tasks and the count of active workers.                  *)

(* Steps that move nobody between the queue, the stacks and the count.     *)
LEMMA SilentStep ==
    ASSUME ActiveIsCounted, NoTaskLostOrDoubled,
           queue' = queue, stack' = stack, nActive' = nActive,
           \A w \in Workers : /\ pc'[w] = "run" <=> pc[w] = "run"
                              /\ pc'[w] = "dec" <=> pc[w] = "dec",
           \A t \in Tasks : pc'[t] = pc[t] \/ (Called(t) /\ Called(t)')
    PROVE  ActiveIsCounted' /\ NoTaskLostOrDoubled'
<1>1. Active' = Active
  BY DEF Active
<1>2. ActiveIsCounted'
  BY <1>1 DEF ActiveIsCounted, Active
<1>3. \A t \in Tasks : /\ pc'[t] = "queued" <=> pc[t] = "queued"
                       /\ Called(t)' <=> Called(t)
  BY DEF Called
<1>4. \A t \in Tasks : /\ InQueue(t)' <=> InQueue(t)
                       /\ \A th \in Threads : OnStack(t, th)' <=> OnStack(t, th)
  BY DEF InQueue, OnStack
<1>5. QueuedIsInQueue'
  BY <1>3, <1>4, Zenon DEF NoTaskLostOrDoubled, QueuedIsInQueue
<1>6. CalledIsOnStack'
  BY <1>3, <1>4, Zenon DEF NoTaskLostOrDoubled, CalledIsOnStack
<1>7. QueueIsDistinct' /\ StacksAreDistinct'
  BY DEF NoTaskLostOrDoubled, QueueIsDistinct, StacksAreDistinct
<1>8. NoTaskLostOrDoubled'
  BY <1>5, <1>6, <1>7, Zenon
     DEF NoTaskLostOrDoubled, QueuedIsInQueue, QueueIsDistinct, CalledIsOnStack,
         StacksAreDistinct
<1> QED
  BY <1>2, <1>8

(* An accepted closure is in the queue, once.                              *)
LEMMA AcceptConserves ==
    ASSUME TypeOK, ActiveIsCounted, NoTaskLostOrDoubled,
           NEW f \in Frames, NEW t \in Tasks, Accept(f, t),
           pc[t] = "new", f \in Tasks => Called(f)
    PROVE  ActiveIsCounted' /\ NoTaskLostOrDoubled'
<1>1. /\ t \notin Workers /\ f \notin Workers /\ f # t
      /\ pc'[t] = "queued"
      /\ \A x \in Workers \cup Frames : x \notin {f, t} => pc'[x] = pc[x]
      /\ f \in Tasks => Called(f)'
  BY DisjointAssumption DEF TypeOK, Accept, Frames, Called
<1>2. Active' = Active
  BY <1>1 DEF Active
<1>3. ActiveIsCounted'
  BY <1>1, <1>2 DEF ActiveIsCounted, Active, Accept
<1>4. /\ \A u \in Tasks : InQueue(u)' <=> InQueue(u) \/ u = t
      /\ QueueIsDistinct'
  <2>1. ~InQueue(t)
    BY DEF NoTaskLostOrDoubled
  <2> QED
    BY <2>1, EnqueueEffect DEF NoTaskLostOrDoubled, QueueIsDistinct, TypeOK, Accept
<1>5. QueuedIsInQueue'
  BY <1>1, <1>4 DEF NoTaskLostOrDoubled, QueuedIsInQueue, Called, Frames
<1>6. stack' = stack /\ \A u \in Tasks : Called(u)' <=> Called(u)
  BY <1>1 DEF Accept, Called, Frames
<1>7. CalledIsOnStack' /\ StacksAreDistinct'
  BY <1>6 DEF NoTaskLostOrDoubled, CalledIsOnStack, StacksAreDistinct, OnStack
<1> QED
  BY <1>3, <1>4, <1>5, <1>7, Zenon
     DEF NoTaskLostOrDoubled, QueuedIsInQueue, QueueIsDistinct, CalledIsOnStack,
         StacksAreDistinct

(* A closure that was nowhere, or at the front of the queue, is called.    *)
LEMMA PushConserves ==
    ASSUME TypeOK, NoTaskLostOrDoubled, NEW th \in Threads, NEW t \in Tasks,
           Push(th, t), ~Called(t), pc'[t] = "body",
           \A u \in Tasks \ {t} : pc'[u] = pc[u]
    PROVE  CalledIsOnStack' /\ StacksAreDistinct'
<1>1. /\ \A u \in Tasks, x \in Threads :
            OnStack(u, x)' <=> OnStack(u, x) \/ (u = t /\ x = th)
      /\ StacksAreDistinct'
  <2>1. \A x \in Threads : ~OnStack(t, x)
    BY DEF NoTaskLostOrDoubled
  <2> QED
    BY <2>1, PushEffect DEF NoTaskLostOrDoubled, StacksAreDistinct, TypeOK
<1>2. Called(t)' /\ \A u \in Tasks \ {t} : Called(u)' <=> Called(u)
  BY DEF Called
<1>3. CalledIsOnStack'
  BY <1>1, <1>2, Zenon DEF NoTaskLostOrDoubled, CalledIsOnStack
<1> QED
  BY <1>1, <1>3

(* A directly called closure is on one stack, once.                        *)
LEMMA CallInlineConserves ==
    ASSUME TypeOK, ActiveIsCounted, NoTaskLostOrDoubled,
           NEW th \in Threads, NEW f \in Frames, f = Top(th),
           NEW t \in Tasks, NEW fut, CallInline(th, f, t, fut), pc[t] = "new"
    PROVE  ActiveIsCounted' /\ NoTaskLostOrDoubled'
<1>1. /\ t \notin Workers
      /\ pc'[t] = "body"
      /\ \A x \in Workers \cup Frames : x # t => pc'[x] = pc[x]
      /\ queue' = queue /\ nActive' = nActive
  BY DisjointAssumption DEF TypeOK, CallInline, Frames
<1>2. CalledIsOnStack' /\ StacksAreDistinct'
  BY <1>1, PushConserves DEF CallInline, Called, Frames
<1>3. QueuedIsInQueue' /\ QueueIsDistinct'
  BY <1>1 DEF NoTaskLostOrDoubled, QueuedIsInQueue, QueueIsDistinct, InQueue, Frames
<1>4. \A w \in Workers : stack'[w] # <<>> <=> stack[w] # <<>>
  <2>1. th \in Workers => stack[th] # <<>>
    BY TopOfStack
  <2>2. stack[th] \in Seq(Tasks)
    BY DEF TypeOK
  <2>3. Append(stack[th], t) # <<>>
    BY <2>2, AppendProperties
  <2> QED
    BY <2>1, <2>3 DEF TypeOK, CallInline, Push, Threads
<1>5. Active' = Active
  BY <1>1 DEF Active
<1>6. ActiveIsCounted'
  BY <1>1, <1>4, <1>5 DEF ActiveIsCounted, Active
<1> QED
  BY <1>2, <1>3, <1>6, Zenon
     DEF NoTaskLostOrDoubled, QueuedIsInQueue, QueueIsDistinct, CalledIsOnStack,
         StacksAreDistinct

(* popFront and the call of what it returns.                               *)
LEMMA DequeueConserves ==
    ASSUME TypeOK, NoTaskLostOrDoubled, NEW th \in Threads,
           queue # <<>>, queue' = Tail(queue), Push(th, Head(queue)),
           pc'[Head(queue)] = "body",
           \A u \in Tasks \ {Head(queue)} : pc'[u] = pc[u]
    PROVE  /\ pc[Head(queue)] = "queued"
           /\ NoTaskLostOrDoubled'
<1>1. Head(queue) \in Tasks
  BY TailOfSeq DEF TypeOK
<1>2. /\ InQueue(Head(queue))
      /\ \A u \in Tasks : InQueue(u)' <=> InQueue(u) /\ u # Head(queue)
      /\ QueueIsDistinct'
  BY DequeueEffect DEF TypeOK, NoTaskLostOrDoubled, QueueIsDistinct
<1>3. pc[Head(queue)] = "queued"
  BY <1>1, <1>2 DEF NoTaskLostOrDoubled
<1>4. CalledIsOnStack' /\ StacksAreDistinct'
  BY <1>1, <1>3, PushConserves DEF Called
<1>5. QueuedIsInQueue'
  BY <1>1, <1>2 DEF NoTaskLostOrDoubled, QueuedIsInQueue
<1> QED
  BY <1>2, <1>3, <1>4, <1>5, Zenon
     DEF NoTaskLostOrDoubled, QueuedIsInQueue, QueueIsDistinct, CalledIsOnStack,
         StacksAreDistinct

(* A stolen closure moves from the queue to the thief's stack.             *)
LEMMA PopAndCallConserves ==
    ASSUME TypeOK, ActiveIsCounted, NoTaskLostOrDoubled, NEW th \in Threads,
           PopAndCall(th), th \in Workers => stack[th] # <<>>
    PROVE  /\ pc[Head(queue)] = "queued"
           /\ ActiveIsCounted' /\ NoTaskLostOrDoubled'
<1>1. Head(queue) \in Tasks
  BY TailOfSeq DEF TypeOK, PopAndCall
<1>2. /\ Head(queue) \notin Workers
      /\ pc'[Head(queue)] = "body"
      /\ \A x \in Workers \cup Frames : x # Head(queue) => pc'[x] = pc[x]
      /\ nActive' = nActive
  BY <1>1, DisjointAssumption DEF TypeOK, PopAndCall, Frames
<1>3. pc[Head(queue)] = "queued" /\ NoTaskLostOrDoubled'
  BY <1>2, DequeueConserves DEF PopAndCall, Frames
<1>4. \A w \in Workers : stack'[w] # <<>> <=> stack[w] # <<>>
  <2>1. stack[th] \in Seq(Tasks) /\ stack' = [stack EXCEPT ![th] = Append(@, Head(queue))]
    BY DEF TypeOK, PopAndCall, Push
  <2>2. stack'[th] # <<>>
    BY <1>1, <2>1 DEF TypeOK
  <2> QED
    BY <2>1, <2>2 DEF TypeOK, Threads
<1>5. Active' = Active
  BY <1>2 DEF Active
<1>6. ActiveIsCounted'
  BY <1>2, <1>4, <1>5 DEF ActiveIsCounted, Active
<1> QED
  BY <1>3, <1>6

(* A closure that returns is nowhere but done.                             *)
LEMMA CallReturnsConserves ==
    ASSUME TypeOK, ActiveIsCounted, NoTaskLostOrDoubled,
           NEW th \in Threads, NEW t \in Tasks, t = Top(th), CallReturns(th, t)
    PROVE  ActiveIsCounted' /\ NoTaskLostOrDoubled'
<1>1. /\ stack[th] \in Seq(Tasks) /\ stack[th] # <<>>
      /\ stack[th][Len(stack[th])] = t
      /\ t \notin Workers /\ th \notin Tasks
  BY TopOfStack, DisjointAssumption DEF TypeOK, Frames, Threads
<1>2. /\ \A u \in Tasks, x \in Threads : OnStack(u, x)' <=> OnStack(u, x) /\ u # t
      /\ StacksAreDistinct'
  BY <1>1, PopEffect DEF TypeOK, CallReturns, NoTaskLostOrDoubled, StacksAreDistinct
<1>3. /\ pc[t] = "return" /\ pc'[t] = "done"
      /\ \A u \in Tasks \ {t} : pc'[u] = pc[u]
      /\ queue' = queue /\ nActive' = nActive
  BY <1>1 DEF TypeOK, CallReturns, Frames
<1>4. QueuedIsInQueue' /\ QueueIsDistinct'
  BY <1>3 DEF NoTaskLostOrDoubled, QueuedIsInQueue, QueueIsDistinct, InQueue
<1>5. CalledIsOnStack'
  BY <1>2, <1>3 DEF NoTaskLostOrDoubled, CalledIsOnStack, Called
<1>6. /\ \A w \in Workers \ {th} : pc'[w] = pc[w] /\ stack'[w] = stack[w]
      /\ th \in Workers => pc'[th] = IF Len(stack[th]) = 1 THEN "dec" ELSE pc[th]
  BY <1>1, DisjointAssumption DEF TypeOK, CallReturns, Pop, Threads, Frames
<1>7. stack'[th] # <<>> <=> Len(stack[th]) # 1
  <2>1. stack'[th] = SubSeq(stack[th], 1, Len(stack[th]) - 1)
    BY DEF TypeOK, CallReturns, Pop
  <2>2. stack'[th] \in Seq(Tasks) /\ Len(stack'[th]) = Len(stack[th]) - 1
    BY <1>1, <2>1, PopOfSeq
  <2>3. stack'[th] = <<>> <=> Len(stack'[th]) = 0
    BY <2>2, EmptySeq
  <2>4. Len(stack[th]) \in Nat
    BY <1>1
  <2> QED
    BY <2>2, <2>3, <2>4
<1>8. th \in Workers => pc[th] = "run"
  BY <1>1 DEF ActiveIsCounted
<1>9. \A w \in Workers : stack'[w] # <<>> <=> pc'[w] = "run"
  BY <1>6, <1>7, <1>8 DEF ActiveIsCounted
<1>10. Active' = Active
  BY <1>6, <1>8 DEF Active
<1>11. ActiveIsCounted'
  BY <1>3, <1>9, <1>10 DEF ActiveIsCounted, Active
<1> QED
  BY <1>2, <1>4, <1>5, <1>11, Zenon
     DEF NoTaskLostOrDoubled, QueuedIsInQueue, QueueIsDistinct, CalledIsOnStack,
         StacksAreDistinct

(* The workers in a task can be counted.                                   *)
LEMMA ActiveIsFinite == IsFiniteSet(Active) /\ Cardinality(Active) \in Nat
<1>1. IsFiniteSet(Active)
  BY WorkersAssumption, FS_Subset DEF Active
<1> QED
  BY <1>1, FS_CardinalityType

(* A worker that takes a task is counted in the same critical section.     *)
LEMMA TakeTaskConserves ==
    ASSUME TypeOK, ActiveIsCounted, NoTaskLostOrDoubled, NEW w \in Workers, TakeTask(w)
    PROVE  /\ pc[Head(queue)] = "queued"
           /\ ActiveIsCounted' /\ NoTaskLostOrDoubled'
<1>1. Head(queue) \in Tasks
  BY TailOfSeq DEF TypeOK, TakeTask
<1>2. /\ Head(queue) \notin Workers /\ w \notin Tasks
      /\ pc'[Head(queue)] = "body" /\ pc'[w] = "run"
      /\ \A x \in Workers \cup Frames : x \notin {w, Head(queue)} => pc'[x] = pc[x]
      /\ nActive' = nActive + 1
  BY <1>1, DisjointAssumption DEF TypeOK, TakeTask, Frames
<1>3. pc[Head(queue)] = "queued" /\ NoTaskLostOrDoubled'
  <2>1. \A u \in Tasks \ {Head(queue)} : pc'[u] = pc[u]
    BY <1>2 DEF Frames
  <2> QED
    BY <1>2, <2>1, DequeueConserves DEF TakeTask, Threads
<1>4. \A v \in Workers : stack'[v] # <<>> <=> pc'[v] = "run"
  <2>1. stack'[w] # <<>> /\ \A v \in Workers \ {w} : stack'[v] = stack[v]
    BY <1>1 DEF TypeOK, TakeTask, Push, Threads
  <2> QED
    BY <1>2, <2>1 DEF ActiveIsCounted
<1>5. Active' = Active \cup {w} /\ w \notin Active
  BY <1>2 DEF Active, TakeTask
<1>6. Cardinality(Active') = Cardinality(Active) + 1
  BY <1>5, ActiveIsFinite, FS_AddElement
<1>7. ActiveIsCounted'
  BY <1>2, <1>4, <1>6 DEF ActiveIsCounted, Active
<1> QED
  BY <1>3, <1>7

(* A worker that ends a task is counted down once.                         *)
LEMMA DecActiveConserves ==
    ASSUME TypeOK, ActiveIsCounted, NoTaskLostOrDoubled, NEW w \in Workers, DecActive(w)
    PROVE  ActiveIsCounted' /\ NoTaskLostOrDoubled'
<1>1. /\ w \notin Tasks
      /\ pc[w] = "dec" /\ pc'[w] = "notify"
      /\ \A x \in Workers \cup Frames : x # w => pc'[x] = pc[x]
      /\ nActive' = nActive - 1
      /\ queue' = queue /\ stack' = stack
  BY DisjointAssumption DEF TypeOK, DecActive, Frames
<1>2. Active' = Active \ {w} /\ w \in Active
  BY <1>1 DEF Active
<1>3. Cardinality(Active') = Cardinality(Active) - 1
  BY <1>2, ActiveIsFinite, FS_RemoveElement
<1>4. ActiveIsCounted'
  BY <1>1, <1>3 DEF ActiveIsCounted, Active
<1>5. \A t \in Tasks : pc'[t] = pc[t]
  BY <1>1 DEF Frames
<1>6. /\ \A t \in Tasks : InQueue(t)' <=> InQueue(t)
      /\ \A t \in Tasks, th \in Threads : OnStack(t, th)' <=> OnStack(t, th)
      /\ \A t \in Tasks : Called(t)' <=> Called(t)
  BY <1>1, <1>5 DEF InQueue, OnStack, Called
<1>7. QueuedIsInQueue'
  BY <1>5, <1>6, Zenon DEF NoTaskLostOrDoubled, QueuedIsInQueue
<1>8. CalledIsOnStack'
  BY <1>6, Zenon DEF NoTaskLostOrDoubled, CalledIsOnStack
<1>9. QueueIsDistinct' /\ StacksAreDistinct'
  BY <1>1 DEF NoTaskLostOrDoubled, QueueIsDistinct, StacksAreDistinct
<1>10. NoTaskLostOrDoubled'
  BY <1>7, <1>8, <1>9, Zenon
     DEF NoTaskLostOrDoubled, QueuedIsInQueue, QueueIsDistinct, CalledIsOnStack,
         StacksAreDistinct
<1> QED
  BY <1>4, <1>10

-----------------------------------------------------------------------------
(* Each kind of step conserves tasks and keeps the count.                  *)

(* No step of a frame disturbs conservation or the counter.                *)
LEMMA CallStepConserves ==
    ASSUME IInv, NEW th \in Threads, NEW f \in Frames, f = Top(th), CallStep(th, f)
    PROVE  ActiveIsCounted' /\ NoTaskLostOrDoubled'
<1> USE DEF IInv
<1>1. th \in Workers => stack[th] # <<>>
  BY TopOfStack
<1>2. CASE RetryAdd(f)
  <2>1. target[f] \in Tasks /\ pc[target[f]] = "new" /\ Called(f)
    BY <1>2, ChildrenAssumption DEF RetryAdd, AddingIsOwn, Called
  <2> QED
    BY <1>2, <2>1, AcceptConserves DEF RetryAdd
<1>3. CASE TryStealTask(th, f)
  BY <1>1, <1>3, PopAndCallConserves DEF TryStealTask
<1>4. CASE f \in Tasks /\ CallReturns(th, f)
  BY <1>4, CallReturnsConserves
<1>5. ASSUME NEW t \in Children[f], AddTask(f, t)
      PROVE  ActiveIsCounted' /\ NoTaskLostOrDoubled'
  <2>1. t \in Tasks /\ pc[t] = "new" /\ Called(f)
    BY <1>5, ChildrenAssumption DEF AddTask, MayCall, ToAdd, Called
  <2> QED
    BY <1>5, <2>1, AcceptConserves DEF AddTask
<1>6. ASSUME NEW t \in Children[f], AddFailsInline(th, f, t) \/ OrDoInline(th, f, t)
      PROVE  ActiveIsCounted' /\ NoTaskLostOrDoubled'
  <2>1. t \in Tasks /\ pc[t] = "new"
    BY <1>6, ChildrenAssumption DEF AddFailsInline, OrDoInline, ToAdd
  <2>2. \E fut : CallInline(th, f, t, fut)
    BY <1>6 DEF AddFailsInline, OrDoInline
  <2> QED
    BY <2>1, <2>2, CallInlineConserves
<1>7. ASSUME UNCHANGED <<queue, stack, nActive>>,
             NEW v \in {"body", "adding", "steal", "blocked", "return"},
             pc' = [pc EXCEPT ![f] = v],
             f \in Tasks => Called(f)
      PROVE  ActiveIsCounted' /\ NoTaskLostOrDoubled'
  <2>1. f \notin Workers /\ \A x \in Workers \cup Frames : x # f => pc'[x] = pc[x]
    BY <1>7, DisjointAssumption DEF TypeOK, Frames
  <2>2. f \in Tasks => Called(f)'
    BY <1>7 DEF TypeOK, Called, Frames
  <2>3. \A w \in Workers : pc'[w] = pc[w]
    BY <2>1
  <2>4. \A t \in Tasks : pc'[t] = pc[t] \/ (Called(t) /\ Called(t)')
    BY <1>7, <2>1, <2>2 DEF Frames
  <2>5. queue' = queue /\ stack' = stack /\ nActive' = nActive
    BY <1>7
  <2> QED
    BY <2>3, <2>4, <2>5, SilentStep
<1>8. CASE SignalQ(f)
  BY <1>7, <1>8 DEF SignalQ, Called
<1>9. CASE StealNothing(f)
  BY <1>7, <1>9 DEF StealNothing, Called
<1>10. CASE FutureWaitReturns(f)
  BY <1>7, <1>10 DEF FutureWaitReturns, Called
<1>11. CASE f \in Tasks /\ CallDone(f)
  BY <1>7, <1>11 DEF CallDone, Called
<1>12. ASSUME NEW t \in Children[f], OrDoRetry(f, t) \/ FutureWait(f, t)
       PROVE  ActiveIsCounted' /\ NoTaskLostOrDoubled'
  BY <1>7, <1>12 DEF OrDoRetry, FutureWait, MayCall, Called
<1> QED
  BY <1>2, <1>3, <1>4, <1>5, <1>6, <1>8, <1>9, <1>10, <1>11, <1>12 DEF CallStep

(* No step of loop() disturbs conservation or the counter.                 *)
LEMMA LoopStepConserves ==
    ASSUME IInv, NEW w \in Workers, LoopStep(w)
    PROVE  ActiveIsCounted' /\ NoTaskLostOrDoubled'
<1> USE DEF IInv
<1>1. CASE TakeTask(w)
  BY <1>1, TakeTaskConserves
<1>2. CASE DecActive(w)
  BY <1>2, DecActiveConserves
<1>3. ASSUME UNCHANGED <<queue, stack, nActive>>,
             NEW v \in {"take", "exited"}, pc' = [pc EXCEPT ![w] = v],
             pc[w] \notin {"run", "dec"}
      PROVE  ActiveIsCounted' /\ NoTaskLostOrDoubled'
  <2>1. w \notin Tasks /\ pc'[w] = v /\ \A x \in Workers \cup Frames : x # w => pc'[x] = pc[x]
    BY <1>3, DisjointAssumption DEF TypeOK, Frames
  <2>2. \A x \in Workers : /\ pc'[x] = "run" <=> pc[x] = "run"
                           /\ pc'[x] = "dec" <=> pc[x] = "dec"
    BY <1>3, <2>1
  <2>3. \A t \in Tasks : pc'[t] = pc[t]
    BY <2>1 DEF Frames
  <2>4. queue' = queue /\ stack' = stack /\ nActive' = nActive
    BY <1>3
  <2> QED
    BY <2>2, <2>3, <2>4, SilentStep
<1>4. CASE WorkerStarts(w)
  BY <1>3, <1>4 DEF WorkerStarts
<1>5. CASE TakeWaits(w)
  <2>1. pc' = pc /\ queue' = queue /\ stack' = stack /\ nActive' = nActive
    BY <1>5 DEF TakeWaits
  <2> QED
    BY <2>1, SilentStep
<1>6. CASE TakeExits(w)
  BY <1>3, <1>6 DEF TakeExits
<1>7. CASE Notify(w)
  BY <1>3, <1>7 DEF Notify
<1> QED
  BY <1>1, <1>2, <1>4, <1>5, <1>6, <1>7 DEF LoopStep

(* What the client's own steps do to its place in the code.                *)
LEMMA WaitStepPc ==
    ASSUME TypeOK, NEW c \in Clients, WaitStep(c), ~WaitHelps(c)
    PROVE  /\ UNCHANGED <<queue, stack, nActive, target>>
           /\ \A x \in Workers \cup Frames : x # c => pc'[x] = pc[x]
           /\ pc'[c] # "adding"
           /\ pc'[c] \in {"wait", "setDone", "broadcast", "join"} =>
                 \/ pc[c] \in {"wait", "setDone", "broadcast", "join"}
                 \/ stack[c] = <<>>
<1>1. c \in Workers \cup Frames
  BY DEF Frames
<1>2. CASE StartReturns(c)
  BY <1>1, <1>2 DEF TypeOK, StartReturns
<1>3. ASSUME NEW bHelp \in BOOLEAN, Wait(c, bHelp)
      PROVE  /\ UNCHANGED <<queue, stack, nActive, target>>
             /\ \A x \in Workers \cup Frames : x # c => pc'[x] = pc[x]
             /\ pc'[c] # "adding" /\ stack[c] = <<>>
  BY <1>1, <1>3 DEF TypeOK, Wait
<1>4. CASE WaitStopsHelping(c)
  BY <1>1, <1>4 DEF TypeOK, WaitStopsHelping
<1>5. CASE WaitBlocks(c)
  BY <1>1, <1>5 DEF TypeOK, WaitBlocks
<1>6. CASE WaitReturns(c)
  BY <1>1, <1>6 DEF TypeOK, WaitReturns
<1>7. CASE Destroy(c)
  BY <1>1, <1>7 DEF TypeOK, Destroy
<1>8. CASE SetDone(c) \/ BroadcastQ(c) \/ JoinAll(c)
  BY <1>1, <1>8 DEF TypeOK, SetDone, BroadcastQ, JoinAll
<1> QED
  BY <1>2, <1>3, <1>4, <1>5, <1>6, <1>7, <1>8 DEF WaitStep

(* No step of start, wait or destroy disturbs conservation or the counter. *)
LEMMA WaitStepConserves ==
    ASSUME IInv, NEW c \in Clients, WaitStep(c)
    PROVE  ActiveIsCounted' /\ NoTaskLostOrDoubled'
<1> USE DEF IInv
<1>1. c \in Threads /\ c \notin Workers /\ c \notin Tasks
  BY DisjointAssumption DEF Threads
<1>2. CASE WaitHelps(c)
  BY <1>1, <1>2, PopAndCallConserves DEF WaitHelps
<1>3. CASE ~WaitHelps(c)
  <2>1. /\ UNCHANGED <<queue, stack, nActive>>
        /\ \A x \in Workers \cup Frames : x # c => pc'[x] = pc[x]
    BY <1>3, WaitStepPc
  <2>2. (\A w \in Workers : pc'[w] = pc[w]) /\ (\A t \in Tasks : pc'[t] = pc[t])
    BY <1>1, <2>1 DEF Frames
  <2>3. queue' = queue /\ stack' = stack /\ nActive' = nActive
    BY <2>1
  <2> QED
    BY <2>2, <2>3, SilentStep
<1> QED
  BY <1>2, <1>3

-----------------------------------------------------------------------------
(* A frame that retries an add, and a client that waits.                   *)

(* A step that moves no frame into or out of adding keeps AddingIsOwn.     *)
LEMMA AddingKept ==
    ASSUME AddingIsOwn, ChildrenAssumption,
           \A f \in Frames : pc'[f] = "adding" => pc[f] = "adding" /\ target'[f] = target[f],
           \A t \in Tasks : pc[t] = "new" => pc'[t] = "new"
    PROVE  AddingIsOwn'
  BY DEF AddingIsOwn, ChildrenAssumption

(* The closure that the frame f has just given away was its own.           *)
LEMMA AddingKeptByOwner ==
    ASSUME AddingIsOwn, NEW f \in Frames, NEW t \in Children[f],
           pc[f] # "new", pc'[f] # "adding", pc'[t] # "adding",
           \A x \in Frames \ {f, t} : pc'[x] = pc[x],
           \A x \in Frames \ {f} : target'[x] = target[x]
    PROVE  AddingIsOwn'
<1> SUFFICES ASSUME NEW g \in Frames, pc'[g] = "adding"
             PROVE  target'[g] \in Children[g] /\ pc'[target'[g]] = "new"
  BY DEF AddingIsOwn
<1>1. g \notin {f, t} /\ pc[g] = "adding" /\ target'[g] = target[g]
  OBVIOUS
<1>2. target[g] \in Children[g] /\ pc[target[g]] = "new" /\ target[g] \in Frames
  BY <1>1, ChildrenAssumption DEF AddingIsOwn, Frames
<1>3. target[g] # t
  BY <1>1, <1>2, ChildrenAssumption
<1>4. target[g] # f
  BY <1>2
<1> QED
  BY <1>1, <1>2, <1>3, <1>4

(* After addTask the closure is not its creator's to add any more.         *)
LEMMA AcceptKeepsAdding ==
    ASSUME TypeOK, AddingIsOwn, NEW f \in Frames, NEW t \in Children[f], Accept(f, t),
           pc[f] # "new"
    PROVE  AddingIsOwn'
<1>1. t \in Frames
  BY ChildrenAssumption DEF Frames
<1>2. /\ pc'[f] # "adding" /\ pc'[t] # "adding"
      /\ \A x \in Frames \ {f, t} : pc'[x] = pc[x]
      /\ \A x \in Frames \ {f} : target'[x] = target[x]
  BY <1>1 DEF TypeOK, Accept
<1> QED
  BY <1>2, AddingKeptByOwner

(* After a direct call the closure is not its creator's to add any more.   *)
LEMMA CallInlineKeepsAdding ==
    ASSUME TypeOK, AddingIsOwn, NEW th, NEW f \in Frames, NEW t \in Children[f],
           NEW fut, CallInline(th, f, t, fut), pc[f] = "body"
    PROVE  AddingIsOwn'
<1>1. t \in Frames
  BY ChildrenAssumption DEF Frames
<1>2. /\ pc'[f] # "adding" /\ pc'[t] # "adding"
      /\ \A x \in Frames \ {f, t} : pc'[x] = pc[x]
      /\ \A x \in Frames \ {f} : target'[x] = target[x]
  BY <1>1 DEF TypeOK, CallInline
<1> QED
  BY <1>2, AddingKeptByOwner

(* addRetryOrDo, once it has chosen to retry, still adds its own closure.  *)
LEMMA OrDoRetryKeepsAdding ==
    ASSUME TypeOK, AddingIsOwn, NEW f \in Frames, NEW t \in Children[f], OrDoRetry(f, t)
    PROVE  AddingIsOwn'
<1>1. t \in Tasks /\ pc[t] = "new" /\ pc[f] = "body"
  BY ChildrenAssumption DEF OrDoRetry, ToAdd, MayCall
<1>2. /\ pc'[t] = "new"
      /\ target'[f] = t
      /\ \A x \in Frames \ {f} : pc'[x] = pc[x] /\ target'[x] = target[x]
  BY <1>1 DEF TypeOK, OrDoRetry, Frames
<1> SUFFICES ASSUME NEW g \in Frames, pc'[g] = "adding"
             PROVE  target'[g] \in Children[g] /\ pc'[target'[g]] = "new"
  BY DEF AddingIsOwn
<1>3. CASE g = f
  BY <1>2, <1>3
<1>4. CASE g # f
  <2>1. target[g] \in Children[g] /\ pc[target[g]] = "new" /\ target[g] \in Frames
    BY <1>2, <1>4, ChildrenAssumption DEF AddingIsOwn, Frames
  <2> QED
    BY <1>1, <1>2, <1>4, <2>1
<1> QED
  BY <1>3, <1>4

(* A closure taken from the queue is nobody's to add.                      *)
LEMMA PopAndCallKeepsAdding ==
    ASSUME TypeOK, AddingIsOwn, NEW th, PopAndCall(th), pc[Head(queue)] = "queued"
    PROVE  AddingIsOwn'
<1>1. Head(queue) \in Tasks
  BY TailOfSeq DEF TypeOK, PopAndCall
<1>2. /\ pc'[Head(queue)] = "body" /\ target' = target
      /\ \A x \in Frames \ {Head(queue)} : pc'[x] = pc[x]
  BY <1>1 DEF TypeOK, PopAndCall, Frames
<1> QED
  BY <1>1, <1>2, ChildrenAssumption, AddingKept DEF Frames

(* No step of a frame lets it add a closure of another.                    *)
LEMMA CallStepKeepsAdding ==
    ASSUME IInv, NEW th \in Threads, NEW f \in Frames, f = Top(th), CallStep(th, f)
    PROVE  AddingIsOwn'
<1> USE DEF IInv
<1>1. CASE RetryAdd(f)
  <2>1. target[f] \in Children[f] /\ pc[f] = "adding"
    BY <1>1 DEF RetryAdd, AddingIsOwn
  <2> QED
    BY <1>1, <2>1, AcceptKeepsAdding DEF RetryAdd
<1>2. CASE TryStealTask(th, f)
  <2>1. th \in Workers => stack[th] # <<>>
    BY TopOfStack
  <2>2. PopAndCall(th) /\ pc[Head(queue)] = "queued"
    BY <1>2, <2>1, PopAndCallConserves DEF TryStealTask
  <2> QED
    BY <2>2, PopAndCallKeepsAdding
<1>3. CASE f \in Tasks /\ CallReturns(th, f)
  <2>1. /\ target' = target
        /\ \A x \in Frames : pc'[x] = pc[x] \/ (x = f /\ pc'[x] = "done")
        /\ pc[f] = "return"
    BY <1>3, DisjointAssumption DEF TypeOK, CallReturns, Frames
  <2> QED
    BY <2>1, ChildrenAssumption, AddingKept DEF Frames
<1>4. ASSUME NEW t \in Children[f], AddTask(f, t)
      PROVE  AddingIsOwn'
  BY <1>4, AcceptKeepsAdding DEF AddTask, MayCall
<1>5. ASSUME NEW t \in Children[f], AddFailsInline(th, f, t) \/ OrDoInline(th, f, t)
      PROVE  AddingIsOwn'
  BY <1>5, CallInlineKeepsAdding DEF AddFailsInline, OrDoInline, MayCall
<1>6. ASSUME NEW t \in Children[f], OrDoRetry(f, t)
      PROVE  AddingIsOwn'
  BY <1>6, OrDoRetryKeepsAdding
<1>7. ASSUME NEW v \in {"body", "steal", "blocked", "return"},
             pc' = [pc EXCEPT ![f] = v], pc[f] # "new",
             \A x \in Frames \ {f} : target'[x] = target[x]
      PROVE  AddingIsOwn'
  <2>1. \A x \in Frames : pc'[x] = IF x = f THEN v ELSE pc[x]
    BY <1>7 DEF TypeOK
  <2>2. \A x \in Frames : pc'[x] = "adding" => pc[x] = "adding" /\ target'[x] = target[x]
    BY <1>7, <2>1
  <2>3. \A t \in Tasks : pc[t] = "new" => pc'[t] = "new"
    BY <1>7, <2>1 DEF Frames
  <2> QED
    BY <2>2, <2>3, ChildrenAssumption, AddingKept
<1>8. CASE SignalQ(f)
  BY <1>7, <1>8 DEF SignalQ
<1>9. CASE StealNothing(f)
  BY <1>7, <1>9 DEF StealNothing
<1>10. CASE FutureWaitReturns(f)
  <2>1. \A x \in Frames \ {f} : target'[x] = target[x]
    BY <1>10 DEF TypeOK, FutureWaitReturns
  <2> QED
    BY <1>7, <1>10, <2>1 DEF FutureWaitReturns
<1>11. CASE f \in Tasks /\ CallDone(f)
  BY <1>7, <1>11 DEF CallDone
<1>12. ASSUME NEW t \in Children[f], FutureWait(f, t)
       PROVE  AddingIsOwn'
  <2>1. \A x \in Frames \ {f} : target'[x] = target[x]
    BY <1>12 DEF TypeOK, FutureWait
  <2> QED
    BY <1>7, <1>12, <2>1 DEF FutureWait, MayCall
<1> QED
  BY <1>1, <1>2, <1>3, <1>4, <1>5, <1>6, <1>8, <1>9, <1>10, <1>11, <1>12 DEF CallStep

(* No step of loop() changes who adds what.                                *)
LEMMA LoopStepKeepsAdding ==
    ASSUME IInv, NEW w \in Workers, LoopStep(w)
    PROVE  AddingIsOwn'
<1> USE DEF IInv
<1>1. w \notin Frames /\ target' = target
  BY DisjointAssumption DEF LoopStep, WorkerStarts, TakeWaits, TakeTask, TakeExits,
                            DecActive, Notify, Frames
<1>2. CASE TakeTask(w)
  <2>1. Head(queue) \in Tasks /\ pc[Head(queue)] = "queued"
    BY <1>2, TailOfSeq, TakeTaskConserves DEF TypeOK, TakeTask
  <2>2. /\ pc'[Head(queue)] = "body"
        /\ \A x \in Frames \ {Head(queue)} : pc'[x] = pc[x]
    BY <1>1, <1>2, <2>1 DEF TypeOK, TakeTask, Frames
  <2> QED
    BY <1>1, <2>1, <2>2, ChildrenAssumption, AddingKept DEF Frames
<1>3. CASE ~TakeTask(w)
  <2>1. \A x \in Frames : pc'[x] = pc[x]
    BY <1>1, <1>3 DEF TypeOK, LoopStep, WorkerStarts, TakeWaits, TakeExits,
                      DecActive, Notify
  <2> QED
    BY <1>1, <2>1, ChildrenAssumption, AddingKept DEF Frames
<1> QED
  BY <1>2, <1>3

(* No step of start, wait or destroy changes who adds what.                *)
LEMMA WaitStepKeepsAdding ==
    ASSUME IInv, NEW c \in Clients, WaitStep(c)
    PROVE  AddingIsOwn'
<1> USE DEF IInv
<1>1. c \in Threads /\ c \notin Workers /\ c \notin Tasks
  BY DisjointAssumption DEF Threads
<1>2. CASE WaitHelps(c)
  <2>1. PopAndCall(c) /\ pc[Head(queue)] = "queued"
    BY <1>1, <1>2, PopAndCallConserves DEF WaitHelps
  <2> QED
    BY <2>1, PopAndCallKeepsAdding
<1>3. CASE ~WaitHelps(c)
  <2>1. /\ target' = target /\ pc'[c] # "adding"
        /\ \A x \in Workers \cup Frames : x # c => pc'[x] = pc[x]
    BY <1>3, WaitStepPc
  <2> QED
    BY <1>1, <2>1, ChildrenAssumption, AddingKept DEF Frames
<1> QED
  BY <1>2, <1>3

-----------------------------------------------------------------------------
(* A step of a frame touches its own thread's stack and the places of      *)
(* frames that are not past the helping loop of wait().                    *)

Waiting == {"wait", "setDone", "broadcast", "join"}

(* What a step of a frame does to the places of clients and workers.       *)
LEMMA CallStepPc ==
    ASSUME IInv, NEW th \in Threads, NEW f \in Frames, f = Top(th), CallStep(th, f)
    PROVE  /\ \A c \in Clients : c # f => pc'[c] = pc[c]
           /\ pc[f] \notin Waiting /\ (f \in Clients => pc'[f] \notin Waiting \cup {"destroyed"})
           /\ \A x \in Threads : x # th => stack'[x] = stack[x]
           /\ \A x \in Workers \cup Frames : pc[x] = "signal" => x = f \/ pc'[x] = "signal"
           /\ pc[f] = "signal" => SignalQ(f)
           /\ \/ SignalQ(f)
              \/ cndQ' = cndQ /\ pc'[f] = "signal" /\ stack' = stack
              \/ cndQ' = cndQ /\ (queue' # <<>> => queue # <<>>)
<1> USE DEF IInv
<1>1. ASSUME NEW t \in Tasks, Accept(f, t), pc[f] \in {"adding", "body"}, pc[t] = "new"
      PROVE  /\ \A c \in Clients : c # f => pc'[c] = pc[c]
             /\ pc'[f] = "signal" /\ stack' = stack /\ cndQ' = cndQ
             /\ \A x \in Workers \cup Frames : pc[x] = "signal" => pc'[x] = "signal"
  BY <1>1, DisjointAssumption DEF TypeOK, Accept, Frames
<1>2. ASSUME NEW t \in Tasks, NEW fut, CallInline(th, f, t, fut), pc[t] = "new", pc[f] = "body"
      PROVE  /\ \A c \in Clients : pc'[c] = pc[c]
             /\ \A x \in Threads : x # th => stack'[x] = stack[x]
             /\ \A x \in Workers \cup Frames : pc[x] = "signal" => pc'[x] = "signal"
             /\ queue' = queue /\ cndQ' = cndQ
  BY <1>2, DisjointAssumption DEF TypeOK, CallInline, Push, Frames
<1>3. CASE RetryAdd(f)
  <2>1. target[f] \in Tasks /\ pc[target[f]] = "new" /\ pc[f] = "adding"
    BY <1>3, ChildrenAssumption DEF RetryAdd, AddingIsOwn
  <2>2. Accept(f, target[f])
    BY <1>3 DEF RetryAdd
  <2> QED
    BY <1>1, <2>1, <2>2 DEF Waiting
<1>4. CASE TryStealTask(th, f)
  <2>1. th \in Workers => stack[th] # <<>>
    BY TopOfStack
  <2>2. PopAndCall(th) /\ pc[f] = "steal"
    BY <1>4 DEF TryStealTask
  <2>3. Head(queue) \in Tasks /\ pc[Head(queue)] = "queued"
    BY <2>1, <2>2, PopAndCallConserves, TailOfSeq DEF TypeOK, PopAndCall
  <2> QED
    BY <2>2, <2>3, DisjointAssumption DEF TypeOK, PopAndCall, Push, Frames, Waiting
<1>5. CASE f \in Tasks /\ CallReturns(th, f)
  <2>1. th \in Workers => pc[th] = "run"
    BY TopOfStack DEF ActiveIsCounted
  <2> QED
    BY <1>5, <2>1, DisjointAssumption DEF TypeOK, CallReturns, Pop, Frames, Waiting
<1>6. ASSUME NEW t \in Children[f], AddTask(f, t)
      PROVE  /\ \A c \in Clients : c # f => pc'[c] = pc[c]
             /\ pc[f] = "body" /\ pc'[f] = "signal" /\ stack' = stack /\ cndQ' = cndQ
             /\ \A x \in Workers \cup Frames : pc[x] = "signal" => pc'[x] = "signal"
  <2>1. t \in Tasks /\ pc[t] = "new" /\ pc[f] = "body" /\ Accept(f, t)
    BY <1>6, ChildrenAssumption DEF AddTask, MayCall, ToAdd
  <2> QED
    BY <1>1, <2>1
<1>7. ASSUME NEW t \in Children[f], AddFailsInline(th, f, t) \/ OrDoInline(th, f, t)
      PROVE  /\ \A c \in Clients : pc'[c] = pc[c]
             /\ \A x \in Threads : x # th => stack'[x] = stack[x]
             /\ \A x \in Workers \cup Frames : pc[x] = "signal" => pc'[x] = "signal"
             /\ queue' = queue /\ cndQ' = cndQ /\ pc[f] = "body"
  <2>1. t \in Tasks /\ pc[t] = "new" /\ pc[f] = "body"
    BY <1>7, ChildrenAssumption DEF AddFailsInline, OrDoInline, MayCall, ToAdd
  <2>2. \E fut : CallInline(th, f, t, fut)
    BY <1>7 DEF AddFailsInline, OrDoInline
  <2> QED
    BY <1>2, <2>1, <2>2
<1>8. CASE SignalQ(f)
  BY <1>8, DisjointAssumption DEF TypeOK, SignalQ, Frames, Waiting
<1>9. ASSUME \/ StealNothing(f)
             \/ FutureWaitReturns(f)
             \/ f \in Tasks /\ CallDone(f)
             \/ \E t \in Children[f] : OrDoRetry(f, t) \/ FutureWait(f, t)
      PROVE  /\ pc[f] \in {"steal", "blocked", "body"}
             /\ \E v \in {"body", "adding", "steal", "blocked", "return"} :
                   pc' = [pc EXCEPT ![f] = v]
             /\ stack' = stack /\ queue' = queue /\ cndQ' = cndQ
  BY <1>9 DEF StealNothing, FutureWaitReturns, CallDone, OrDoRetry, FutureWait, MayCall
<1>10. ASSUME pc[f] \in {"steal", "blocked", "body"},
              NEW v \in {"body", "adding", "steal", "blocked", "return"},
              pc' = [pc EXCEPT ![f] = v]
       PROVE  /\ \A c \in Clients : c # f => pc'[c] = pc[c]
              /\ pc[f] \notin Waiting /\ (f \in Clients => pc'[f] \notin Waiting \cup {"destroyed"})
              /\ \A x \in Workers \cup Frames : pc[x] = "signal" => pc'[x] = "signal"
  BY <1>10 DEF TypeOK, Waiting, Frames
<1> QED
  BY <1>3, <1>4, <1>5, <1>6, <1>7, <1>8, <1>9, <1>10 DEF CallStep, Waiting

(* A frame's step leaves the waiting clients without closures.             *)
LEMMA CallStepKeepsIdle ==
    ASSUME IInv, NEW th \in Threads, NEW f \in Frames, f = Top(th), CallStep(th, f)
    PROVE  WaitingIsIdle'
<1> SUFFICES ASSUME NEW c \in Clients, pc'[c] \in Waiting
             PROVE  stack'[c] = <<>>
  BY DEF WaitingIsIdle, Waiting
<1>1. c # f /\ pc[c] \in Waiting
  BY CallStepPc
<1>2. stack[c] = <<>> /\ c \in Threads
  BY <1>1 DEF IInv, WaitingIsIdle, Waiting, Threads
<1>3. c # th
  BY <1>1, <1>2 DEF Top
<1> QED
  BY <1>2, <1>3, CallStepPc

(* A worker's step leaves the waiting clients without closures.            *)
LEMMA LoopStepKeepsIdle ==
    ASSUME IInv, NEW w \in Workers, LoopStep(w)
    PROVE  WaitingIsIdle'
<1> USE DEF IInv
<1>1. w \notin Clients
  BY DisjointAssumption
<1>2. CASE TakeTask(w)
  <2>1. Head(queue) \in Tasks
    BY <1>2, TailOfSeq DEF TypeOK, TakeTask
  <2>2. \A c \in Clients : pc'[c] = pc[c] /\ stack'[c] = stack[c]
    BY <1>1, <1>2, <2>1, DisjointAssumption DEF TypeOK, TakeTask, Push, Frames, Threads
  <2> QED
    BY <2>2 DEF WaitingIsIdle
<1>3. CASE ~TakeTask(w)
  <2>1. \A c \in Clients : pc'[c] = pc[c] /\ stack'[c] = stack[c]
    BY <1>1, <1>3 DEF TypeOK, LoopStep, WorkerStarts, TakeWaits, TakeExits, DecActive,
                      Notify, Frames
  <2> QED
    BY <2>1 DEF WaitingIsIdle
<1> QED
  BY <1>2, <1>3

(* A client waits only after the closures it helped with have returned.    *)
LEMMA WaitStepKeepsIdle ==
    ASSUME IInv, NEW c \in Clients, WaitStep(c)
    PROVE  WaitingIsIdle'
<1> USE DEF IInv
<1>1. CASE WaitHelps(c)
  <2>1. Head(queue) \in Tasks
    BY <1>1, TailOfSeq DEF TypeOK, WaitHelps, PopAndCall
  <2>2. /\ pc'[c] = "help"
        /\ \A d \in Clients \ {c} : pc'[d] = pc[d] /\ stack'[d] = stack[d]
    BY <1>1, <2>1, DisjointAssumption
       DEF TypeOK, WaitHelps, PopAndCall, Push, Frames, Threads
  <2> QED
    BY <2>2 DEF WaitingIsIdle
<1>2. CASE ~WaitHelps(c)
  BY <1>2, WaitStepPc DEF WaitingIsIdle, Frames
<1> QED
  BY <1>1, <1>2

(* A spurious wakeup disturbs nothing the invariant speaks of.             *)
LEMMA WakeupKeepsIInv ==
    ASSUME IInv, SpuriousWakeup
    PROVE  IInv'
<1>1. /\ UNCHANGED <<queue, nActive, bDone, stack, pc, target, future, destroying>>
      /\ cndQ' \subseteq cndQ /\ cndWait' \subseteq cndWait
  BY DEF SpuriousWakeup
<1>2. TypeOK'
  BY <1>1 DEF IInv, TypeOK
<1> QED
  BY <1>1, <1>2 DEF IInv, AddingIsOwn, ActiveIsCounted, NoTaskLostOrDoubled,
                    WaitingIsIdle, InQueue, OnStack, Called

-----------------------------------------------------------------------------
(* The invariant holds after the constructor.                              *)
LEMMA InitIInv == Init => IInv
<1> SUFFICES ASSUME Init PROVE IInv
  OBVIOUS
<1>1. TypeOK
  <2>1. /\ pc \in [Workers \cup Frames -> WorkerPc \cup TaskPc \cup ClientPc]
        /\ \A w \in Workers : pc[w] \in WorkerPc
        /\ \A t \in Tasks : pc[t] \in TaskPc
        /\ \A c \in Clients : pc[c] \in ClientPc
    BY DisjointAssumption DEF Init, Frames, WorkerPc, TaskPc, ClientPc
  <2>2. /\ queue \in Seq(Tasks)
        /\ stack \in [Threads -> Seq(Tasks)]
        /\ target \in [Frames -> Tasks \cup {NoTask}]
        /\ future \in [Tasks -> FutureStates]
    BY DEF Init, FutureStates
  <2> QED
    BY <2>1, <2>2 DEF Init, TypeOK
<1>2. /\ \A w \in Workers : pc[w] = "start" /\ stack[w] = <<>>
      /\ \A t \in Tasks : pc[t] = "new"
      /\ \A c \in Clients : pc[c] = "starting"
      /\ \A th \in Threads : stack[th] = <<>>
  BY DisjointAssumption DEF Init, Frames, Threads
<1>3. Active = {}
  BY <1>2 DEF Active
<1>4. ActiveIsCounted
  BY <1>2, <1>3, FS_EmptySet DEF Init, ActiveIsCounted, Active
<1>5. Len(queue) = 0 /\ \A th \in Threads : Len(stack[th]) = 0
  BY <1>2 DEF Init
<1>6. NoTaskLostOrDoubled
  BY <1>2, <1>5 DEF NoTaskLostOrDoubled, InQueue, OnStack, Called
<1>7. AddingIsOwn /\ WaitingIsIdle
  BY <1>2 DEF AddingIsOwn, WaitingIsIdle, Frames
<1> QED
  BY <1>1, <1>4, <1>6, <1>7 DEF IInv

(* Every step keeps the invariant.                                         *)
LEMMA NextIInv == IInv /\ [Next]_vars => IInv'
<1> SUFFICES ASSUME IInv, [Next]_vars PROVE IInv'
  OBVIOUS
<1>1. ASSUME NEW th \in Threads, NEW f \in Frames, f = Top(th), CallStep(th, f)
      PROVE  IInv'
  <2>1. TypeOK'
    BY <1>1, CallStepType DEF IInv
  <2> QED
    BY <1>1, <2>1, CallStepConserves, CallStepKeepsAdding, CallStepKeepsIdle DEF IInv
<1>2. ASSUME NEW w \in Workers, LoopStep(w)
      PROVE  IInv'
  <2>1. ActiveIsCounted' /\ NoTaskLostOrDoubled'
    BY <1>2, LoopStepConserves
  <2>2. nActive' \in Nat
    <3>1. IsFiniteSet({v \in Workers : pc'[v] \in {"run", "dec"}})
      BY WorkersAssumption, FS_Subset
    <3> QED
      BY <2>1, <3>1, FS_CardinalityType DEF ActiveIsCounted
  <2>3. TypeOK'
    BY <1>2, <2>2, LoopStepType DEF IInv
  <2> QED
    BY <1>2, <2>1, <2>3, LoopStepKeepsAdding, LoopStepKeepsIdle DEF IInv
<1>3. ASSUME NEW c \in Clients, WaitStep(c)
      PROVE  IInv'
  <2>1. TypeOK'
    BY <1>3, WaitStepType DEF IInv
  <2> QED
    BY <1>3, <2>1, WaitStepConserves, WaitStepKeepsAdding, WaitStepKeepsIdle DEF IInv
<1>4. CASE SpuriousWakeup
  BY <1>4, WakeupKeepsIInv
<1>5. CASE UNCHANGED vars
  BY <1>5 DEF vars, IInv, TypeOK, AddingIsOwn, ActiveIsCounted, NoTaskLostOrDoubled,
              WaitingIsIdle, InQueue, OnStack, Called
<1> QED
  BY <1>1, <1>2, <1>3, <1>4, <1>5, StepCases

(* The inductive invariant holds in every reachable state.                 *)
THEOREM Invariance == Spec => []IInv
  BY InitIInv, NextIInv, PTL DEF Spec

(* Every variable keeps its type; m_atomNActiveTasks never goes negative.  *)
THEOREM TypeCorrectness == Spec => []TypeOK
<1>1. IInv => TypeOK
  BY DEF IInv
<1> QED
  BY Invariance, <1>1, PTL

(* popFront by workers, helpers and thieves loses no task and runs none    *)
(* twice.                                                                  *)
THEOREM Conservation == Spec => []NoTaskLostOrDoubled
<1>1. IInv => NoTaskLostOrDoubled
  BY DEF IInv
<1> QED
  BY Invariance, <1>1, PTL

(* m_atomNActiveTasks is the number of workers busy with a task.           *)
THEOREM ActiveCount == Spec => []ActiveIsCounted
<1>1. IInv => ActiveIsCounted
  BY DEF IInv
<1> QED
  BY Invariance, <1>1, PTL

(* When wait() returns, every accepted task has run, or another client is  *)
(* running it: wait()'s predicate, evaluated with the mutex held, is       *)
(* enough for any number of workers and any tree of closures.              *)
THEOREM WaitIsSound == Spec => WaitMeansDone
<1>1. ASSUME IInv, NEW c \in Clients, WaitReturns(c), NEW t \in Tasks,
             pc[t] \notin {"new", "done"}
      PROVE  \E d \in Clients \ {c} : OnStack(t, d)
  <2>1. queue = <<>> /\ nActive <= 0 /\ pc[c] = "wait"
    BY <1>1 DEF WaitReturns
  <2>2. Active = {}
    <3>1. nActive = Cardinality(Active) /\ IsFiniteSet(Active)
      BY <1>1, ActiveIsFinite DEF IInv, ActiveIsCounted, Active
    <3> QED
      BY <2>1, <3>1, ActiveIsFinite, FS_EmptySet
  <2>3. \A w \in Workers : stack[w] = <<>>
    BY <1>1, <2>2 DEF IInv, ActiveIsCounted, Active
  <2>4. stack[c] = <<>>
    BY <1>1, <2>1 DEF IInv, WaitingIsIdle
  <2>5. ~InQueue(t)
    BY <2>1 DEF InQueue
  <2>6. Called(t)
    BY <1>1, <2>5 DEF IInv, NoTaskLostOrDoubled, Called
  <2>7. PICK th \in Threads : OnStack(t, th)
    BY <1>1, <2>6 DEF IInv, NoTaskLostOrDoubled
  <2>8. stack[th] # <<>>
    BY <2>7 DEF OnStack
  <2> QED
    BY <2>3, <2>4, <2>7, <2>8 DEF Threads
<1>2. IInv /\ [Next]_vars =>
        [\A c \in Clients : WaitReturns(c) =>
            \A t \in Tasks : \/ pc[t] \in {"new", "done"}
                             \/ \E d \in Clients \ {c} : OnStack(t, d)]_vars
  BY <1>1
<1> QED
  BY Invariance, <1>2, PTL DEF Spec, WaitMeansDone

-----------------------------------------------------------------------------
(* m_cndQ loses no wakeup.                                                 *)

Signalling(th) == pc[Top(th)] = "signal"

(* A frame that queues a task signals the workers, or leaves one awake.    *)
LEMMA CallStepWakes ==
    ASSUME IInv, NoSleepOverTask, NEW th \in Threads, NEW f \in Frames,
           f = Top(th), CallStep(th, f)
    PROVE  NoSleepOverTask'
<1> SUFFICES ASSUME queue' # <<>>, cndQ' = Workers
             PROVE  \E x \in Threads : Signalling(x)'
  BY DEF NoSleepOverTask, Signalling
<1>1. CASE SignalQ(f)
  BY <1>1, WorkersAssumption DEF SignalQ, IInv, TypeOK
<1>2. CASE cndQ' = cndQ /\ pc'[f] = "signal" /\ stack' = stack
  BY <1>2 DEF Signalling, Top
<1>3. CASE ~SignalQ(f) /\ cndQ' = cndQ /\ (queue' # <<>> => queue # <<>>)
  <2>1. PICK x \in Threads : pc[Top(x)] = "signal"
    BY <1>3 DEF NoSleepOverTask
  <2>2. x # th /\ Top(x) # f
    BY <1>3, <2>1, CallStepPc
  <2>3. stack'[x] = stack[x]
    BY <2>2, CallStepPc
  <2>4. Top(x) \in Workers \cup Frames
    BY <2>1 DEF IInv, TypeOK, Top, Threads, Frames
  <2>5. pc'[Top(x)] = "signal"
    BY <2>1, <2>2, <2>4, CallStepPc
  <2> QED
    BY <2>3, <2>5 DEF Signalling, Top
<1> QED
  BY <1>1, <1>2, <1>3, CallStepPc

(* A worker that goes to sleep has seen the queue empty.                   *)
LEMMA LoopStepWakes ==
    ASSUME IInv, NoSleepOverTask, NEW w \in Workers, LoopStep(w)
    PROVE  NoSleepOverTask'
<1> SUFFICES ASSUME queue' # <<>>, cndQ' = Workers
             PROVE  \E x \in Threads : Signalling(x)'
  BY DEF NoSleepOverTask, Signalling
<1>1. queue' = queue /\ stack' = stack /\ cndQ' = cndQ
  BY DEF LoopStep, WorkerStarts, TakeWaits, TakeTask, TakeExits, DecActive, Notify
<1>2. PICK x \in Threads : pc[Top(x)] = "signal"
  BY <1>1 DEF NoSleepOverTask
<1>3. Top(x) \in Workers \cup Frames
  BY DEF IInv, TypeOK, Top, Threads, Frames
<1>4. pc[w] # "signal" /\ \A y \in Workers \cup Frames : y # w => pc'[y] = pc[y]
  BY <1>1 DEF IInv, TypeOK, WorkerPc, LoopStep, WorkerStarts, TakeWaits, TakeTask,
              TakeExits, DecActive, Notify
<1> QED
  BY <1>1, <1>2, <1>3, <1>4 DEF Signalling, Top

(* The steps of start, wait and destroy put no worker to sleep.            *)
LEMMA WaitStepWakes ==
    ASSUME IInv, NoSleepOverTask, NEW c \in Clients, WaitStep(c)
    PROVE  NoSleepOverTask'
<1> SUFFICES ASSUME queue' # <<>>, cndQ' = Workers
             PROVE  \E x \in Threads : Signalling(x)'
  BY DEF NoSleepOverTask, Signalling
<1>1. cndQ' = cndQ /\ (queue' # <<>> => queue # <<>>)
  BY WorkersAssumption
     DEF WaitStep, StartReturns, Wait, WaitHelps, PopAndCall, WaitStopsHelping,
         WaitBlocks, WaitReturns, Destroy, SetDone, BroadcastQ, JoinAll
<1>2. PICK x \in Threads : pc[Top(x)] = "signal"
  BY <1>1 DEF NoSleepOverTask
<1>3. Top(x) \in Workers \cup Frames
  BY DEF IInv, TypeOK, Top, Threads, Frames
<1>4. CASE WaitHelps(c)
  <2>1. pc[c] = "help" /\ stack[c] = <<>> /\ c \in Threads /\ PopAndCall(c)
    BY <1>4 DEF WaitHelps, Threads
  <2>2. x # c
    BY <1>2, <2>1 DEF Top
  <2>3. Head(queue) \in Tasks /\ pc[Head(queue)] = "queued"
    BY <2>1, PopAndCallConserves, TailOfSeq, DisjointAssumption DEF IInv, TypeOK, PopAndCall
  <2>4. stack'[x] = stack[x] /\ pc'[Top(x)] = pc[Top(x)]
    BY <1>2, <1>3, <2>1, <2>2, <2>3 DEF IInv, TypeOK, PopAndCall, Push
  <2> QED
    BY <1>2, <2>4 DEF Signalling, Top
<1>5. CASE ~WaitHelps(c)
  <2>1. Top(x) # c
    <3>1. pc[c] # "signal"
      BY <1>1, <1>5 DEF WaitStep, StartReturns, Wait, MayCall, WaitStopsHelping,
         WaitBlocks, WaitReturns, Destroy, SetDone, BroadcastQ, JoinAll
    <3> QED
      BY <1>2, <3>1
  <2>2. stack' = stack /\ pc'[Top(x)] = pc[Top(x)]
    BY <1>3, <1>5, <2>1, WaitStepPc DEF IInv
  <2> QED
    BY <1>2, <2>2 DEF Signalling, Top
<1> QED
  BY <1>4, <1>5

(* Accepted work is never left to workers that are all asleep with no      *)
(* signal on its way.                                                      *)
THEOREM NoLostWork == Spec => []NoSleepOverTask
<1>1. Init => NoSleepOverTask
  BY DEF Init, NoSleepOverTask
<1>2. IInv /\ NoSleepOverTask /\ [Next]_vars => NoSleepOverTask'
  <2> SUFFICES ASSUME IInv, NoSleepOverTask, [Next]_vars PROVE NoSleepOverTask'
    OBVIOUS
  <2>1. CASE SpuriousWakeup
    <3>1. UNCHANGED <<queue, stack, pc>> /\ (cndQ' = Workers => cndQ = Workers)
      BY <2>1 DEF SpuriousWakeup, IInv, TypeOK
    <3> QED
      BY <3>1 DEF NoSleepOverTask, Top
  <2>2. CASE UNCHANGED vars
    BY <2>2 DEF vars, NoSleepOverTask, Top
  <2> QED
    BY <2>1, <2>2, StepCases, CallStepWakes, LoopStepWakes, WaitStepWakes
<1> QED
  BY <1>1, <1>2, Invariance, PTL DEF Spec

-----------------------------------------------------------------------------
(* Shutting down.                                                          *)

PastWait == {"setDone", "broadcast", "join", "destroyed"}

(* One client destroys the pool, and no other is in it.                    *)
OneDestroyer ==
    /\ destroying => \E c \in Clients : \A d \in Clients \ {c} :
                        pc[d] = "body" /\ stack[d] = <<>>
    /\ \A c \in Clients : pc[c] \in PastWait => destroying

(* Nothing runs any more once destroy() is past its wait().                *)
QuietPastWait ==
    (\E c \in Clients : pc[c] \in PastWait) =>
        /\ queue = <<>> /\ nActive = 0
        /\ \A th \in Threads : stack[th] = <<>>

SleepersAreWaiting ==
    /\ \A c \in cndWait : pc[c] = "wait"
    /\ \A w \in cndQ : pc[w] = "take"

DestroyedHaveExited == Destroyed => \A w \in Workers : pc[w] = "exited"

ShutdownInv == OneDestroyer /\ QuietPastWait /\ SleepersAreWaiting /\ DestroyedHaveExited

(* What a step of a frame does to the workers and the condition variables. *)
LEMMA CallStepWorkers ==
    ASSUME IInv, NEW th \in Threads, NEW f \in Frames, f = Top(th), CallStep(th, f)
    PROVE  /\ UNCHANGED <<cndWait, destroying>> /\ cndQ' \subseteq cndQ
           /\ \A w \in Workers : pc'[w] = pc[w] \/ pc[w] = "run"
<1> USE DEF IInv
<1>0. f \notin Workers
  BY DisjointAssumption DEF Frames
<1>1. ASSUME NEW t \in Tasks, Accept(f, t)
      PROVE  /\ UNCHANGED <<cndWait, destroying>> /\ cndQ' = cndQ
             /\ \A w \in Workers : pc'[w] = pc[w]
  BY <1>0, <1>1, DisjointAssumption DEF TypeOK, Accept
<1>2. ASSUME NEW t \in Tasks, NEW fut, CallInline(th, f, t, fut)
      PROVE  /\ UNCHANGED <<cndWait, destroying>> /\ cndQ' = cndQ
             /\ \A w \in Workers : pc'[w] = pc[w]
  BY <1>2, DisjointAssumption DEF TypeOK, CallInline
<1>3. CASE RetryAdd(f)
  <2>1. target[f] \in Tasks
    BY <1>3, ChildrenAssumption DEF RetryAdd, AddingIsOwn
  <2> QED
    BY <1>1, <1>3, <2>1 DEF RetryAdd
<1>4. CASE TryStealTask(th, f)
  <2>1. PopAndCall(th) /\ Head(queue) \in Tasks
    BY <1>4, TailOfSeq DEF TryStealTask, TypeOK, PopAndCall
  <2> QED
    BY <2>1, DisjointAssumption DEF TypeOK, PopAndCall
<1>5. CASE f \in Tasks /\ CallReturns(th, f)
  <2>1. th \in Workers => pc[th] = "run"
    BY TopOfStack DEF ActiveIsCounted
  <2> QED
    BY <1>0, <1>5, <2>1 DEF TypeOK, CallReturns
<1>6. ASSUME NEW t \in Children[f], AddTask(f, t)
      PROVE  /\ UNCHANGED <<cndWait, destroying>> /\ cndQ' = cndQ
             /\ \A w \in Workers : pc'[w] = pc[w]
  BY <1>1, <1>6, ChildrenAssumption DEF AddTask
<1>7. ASSUME NEW t \in Children[f], AddFailsInline(th, f, t) \/ OrDoInline(th, f, t)
      PROVE  /\ UNCHANGED <<cndWait, destroying>> /\ cndQ' = cndQ
             /\ \A w \in Workers : pc'[w] = pc[w]
  <2>1. t \in Tasks /\ \E fut : CallInline(th, f, t, fut)
    BY <1>7, ChildrenAssumption DEF AddFailsInline, OrDoInline
  <2> QED
    BY <1>2, <2>1
<1>8. CASE SignalQ(f)
  BY <1>0, <1>8 DEF TypeOK, SignalQ
<1>9. CASE \/ StealNothing(f)
           \/ FutureWaitReturns(f)
           \/ f \in Tasks /\ CallDone(f)
           \/ \E t \in Children[f] : OrDoRetry(f, t) \/ FutureWait(f, t)
  BY <1>0, <1>9 DEF TypeOK, StealNothing, FutureWaitReturns, CallDone, OrDoRetry, FutureWait
<1> QED
  BY <1>3, <1>4, <1>5, <1>6, <1>7, <1>8, <1>9 DEF CallStep

(* A client that is neither in a call nor executing a closure takes no     *)
(* step of a frame while the pool is being destroyed, nor does one past    *)
(* its wait().                                                             *)
LEMMA OutsideTakesNoStep ==
    ASSUME IInv, NEW c \in Clients, stack[c] = <<>>,
           (destroying /\ pc[c] = "body") \/ pc[c] \in PastWait
    PROVE  ~CallStep(c, c)
<1>1. c \notin Tasks /\ c \in Frames
  BY DisjointAssumption DEF Frames
<1>2. ~MayCall(c) /\ pc[c] \notin {"adding", "signal", "steal", "blocked"}
  BY DEF MayCall, PastWait
<1> QED
  BY <1>1, <1>2 DEF CallStep, RetryAdd, SignalQ, TryStealTask, StealNothing,
                    FutureWaitReturns, AddTask, AddFailsInline, OrDoInline, OrDoRetry,
                    FutureWait

(* Clients that are not the destroyer stay where they are.                 *)
LEMMA OutsideStaysOutside ==
    ASSUME IInv, NEW th \in Threads, NEW f \in Frames, f = Top(th), CallStep(th, f),
           NEW d \in Clients, pc[d] = "body" /\ stack[d] = <<>>, destroying
    PROVE  pc'[d] = "body" /\ stack'[d] = <<>>
<1>1. d \in Threads /\ Top(d) = d
  BY DEF Threads, Top
<1>2. th # d
  BY <1>1, OutsideTakesNoStep
<1>3. f # d
  BY <1>2, TopOfStack DEF IInv
<1> QED
  BY <1>1, <1>2, <1>3, CallStepPc

LEMMA CallStepShutsDown ==
    ASSUME IInv, ShutdownInv, NEW th \in Threads, NEW f \in Frames, f = Top(th),
           CallStep(th, f)
    PROVE  ShutdownInv'
<1> USE DEF ShutdownInv
<1>1. /\ \A c \in Clients : c # f => pc'[c] = pc[c]
      /\ pc[f] # "wait" /\ (f \in Clients => pc'[f] \notin PastWait)
      /\ \A x \in Threads : x # th => stack'[x] = stack[x]
  BY CallStepPc DEF Waiting, PastWait
<1>2. /\ UNCHANGED <<cndWait, destroying>> /\ cndQ' \subseteq cndQ
      /\ \A w \in Workers : pc'[w] = pc[w] \/ pc[w] = "run"
  BY CallStepWorkers
<1>3. \A c \in Clients : pc'[c] \in PastWait => pc[c] \in PastWait
  BY <1>1
<1>4. OneDestroyer'
  BY <1>2, <1>3, OutsideStaysOutside DEF OneDestroyer
<1>5. \A c \in Clients : pc[c] \notin PastWait
  <2> SUFFICES ASSUME NEW c \in Clients, pc[c] \in PastWait PROVE FALSE
    OBVIOUS
  <2>1. destroying /\ \A x \in Threads : stack[x] = <<>>
    BY DEF OneDestroyer, QuietPastWait
  <2>2. th \in Clients /\ f = th
    BY <2>1, TopOfStack, DisjointAssumption DEF Threads, IInv, Top
  <2>3. pc[th] = "body" \/ pc[th] \in PastWait
    BY <2>2 DEF OneDestroyer, PastWait
  <2> QED
    BY <2>1, <2>2, <2>3, OutsideTakesNoStep
<1>6. QuietPastWait' /\ DestroyedHaveExited'
  BY <1>3, <1>5 DEF QuietPastWait, DestroyedHaveExited, Destroyed, PastWait
<1>7. SleepersAreWaiting'
  <2>1. cndWait \subseteq Clients /\ cndQ \subseteq Workers
    BY DEF IInv, TypeOK
  <2> QED
    BY <1>1, <1>2, <2>1 DEF SleepersAreWaiting
<1> QED
  BY <1>4, <1>6, <1>7

LEMMA LoopStepShutsDown ==
    ASSUME IInv, ShutdownInv, NEW w \in Workers, LoopStep(w)
    PROVE  ShutdownInv'
<1> USE DEF ShutdownInv
<1>1. /\ \A c \in Clients : pc'[c] = pc[c] /\ stack'[c] = stack[c]
      /\ destroying' = destroying
  <2>1. TakeTask(w) => Head(queue) \in Tasks
    BY TailOfSeq DEF IInv, TypeOK, TakeTask
  <2> QED
    BY <2>1, DisjointAssumption
       DEF IInv, TypeOK, Frames, Threads, LoopStep, WorkerStarts, TakeWaits, TakeTask, Push,
           TakeExits, DecActive, Notify
<1>2. OneDestroyer'
  BY <1>1 DEF OneDestroyer
<1>3. QuietPastWait'
  <2> SUFFICES ASSUME NEW c \in Clients, pc[c] \in PastWait
               PROVE  /\ queue' = <<>> /\ nActive' = 0
                      /\ \A th \in Threads : stack'[th] = <<>>
    BY <1>1 DEF QuietPastWait
  <2>1. queue = <<>> /\ nActive = 0 /\ \A th \in Threads : stack[th] = <<>>
    BY DEF QuietPastWait
  <2>2. ~TakeTask(w)
    BY <2>1 DEF TakeTask
  <2>3. ~DecActive(w)
    <3>1. Active = {}
      BY <2>1, ActiveIsFinite, FS_EmptySet DEF IInv, ActiveIsCounted, Active
    <3> QED
      BY <3>1 DEF DecActive, Active
  <2> QED
    BY <2>1, <2>2, <2>3 DEF LoopStep, WorkerStarts, TakeWaits, TakeExits, Notify
<1>4. /\ cndWait' \subseteq cndWait
      /\ \A x \in Workers \ {w} : pc'[x] = pc[x] /\ (x \in cndQ' => x \in cndQ)
      /\ pc[w] # "exited"
      /\ w \in cndQ' => pc'[w] = "take"
  <2>1. TakeTask(w) => Head(queue) \in Tasks
    BY TailOfSeq DEF IInv, TypeOK, TakeTask
  <2> QED
    BY <2>1, DisjointAssumption
       DEF IInv, TypeOK, Frames, Threads, LoopStep, WorkerStarts, TakeWaits, TakeTask,
           TakeExits, DecActive, Notify, SleepersAreWaiting
<1>5. SleepersAreWaiting'
  <2>1. cndWait \subseteq Clients /\ cndQ' \subseteq Workers
    BY DEF IInv, TypeOK, LoopStep, WorkerStarts, TakeWaits, TakeTask, TakeExits, DecActive,
           Notify
  <2> QED
    BY <1>1, <1>4, <2>1 DEF SleepersAreWaiting
<1>6. DestroyedHaveExited'
  BY <1>1, <1>4 DEF DestroyedHaveExited, Destroyed
<1> QED
  BY <1>2, <1>3, <1>5, <1>6

(* When the helping client waits and the queue is empty and no worker is   *)
(* in a task, nothing runs at all.                                         *)
LEMMA WaitStepShutsDown ==
    ASSUME IInv, ShutdownInv, NEW c \in Clients, WaitStep(c)
    PROVE  ShutdownInv'
<1> USE DEF ShutdownInv
<1>0. /\ c \in Threads /\ c \notin Workers /\ c \notin Tasks /\ c \in Frames
      /\ cndWait \subseteq Clients /\ cndQ \subseteq Workers
  BY DisjointAssumption DEF Threads, Frames, IInv, TypeOK
<1>1. CASE WaitHelps(c)
  <2>1. /\ pc'[c] = "help" /\ pc[c] = "help"
        /\ \A d \in Clients \ {c} : pc'[d] = pc[d] /\ stack'[d] = stack[d]
        /\ \A w \in Workers : pc'[w] = pc[w]
        /\ UNCHANGED <<destroying, cndQ, cndWait>>
    <3>1. Head(queue) \in Tasks
      BY <1>1, TailOfSeq DEF IInv, TypeOK, WaitHelps, PopAndCall
    <3> QED
      BY <1>1, <3>1, DisjointAssumption
         DEF IInv, TypeOK, WaitHelps, PopAndCall, Push, Frames, Threads
  <2>2. OneDestroyer'
    BY <2>1 DEF OneDestroyer, PastWait
  <2>3. \A d \in Clients : pc[d] \notin PastWait
    BY <1>1 DEF QuietPastWait, WaitHelps, PopAndCall
  <2>4. QuietPastWait' /\ DestroyedHaveExited'
    BY <2>1, <2>3 DEF QuietPastWait, DestroyedHaveExited, Destroyed, PastWait
  <2>5. SleepersAreWaiting'
    BY <1>0, <2>1 DEF SleepersAreWaiting
  <2> QED
    BY <2>2, <2>4, <2>5
<1>2. CASE ~WaitHelps(c)
  <2>1. /\ UNCHANGED <<queue, stack, nActive>>
        /\ \A w \in Workers : pc'[w] = pc[w]
        /\ \A d \in Clients \ {c} : pc'[d] = pc[d]
    BY <1>0, <1>2, WaitStepPc DEF IInv, Frames
  <2>2. SleepersAreWaiting'
    <3>1. /\ cndQ' \subseteq cndQ
          /\ cndWait' = cndWait \/ (cndWait' = cndWait \cup {c} /\ pc'[c] = "wait")
          /\ c \in cndWait => pc'[c] = pc[c]
      BY <1>0, <1>2 DEF IInv, TypeOK, SleepersAreWaiting, WaitStep, StartReturns, Wait, MayCall,
             WaitStopsHelping, WaitBlocks, WaitReturns, Destroy, SetDone, BroadcastQ, JoinAll
    <3> QED
      BY <1>0, <2>1, <3>1 DEF SleepersAreWaiting
  <2>3. DestroyedHaveExited'
    <3>1. pc'[c] = "destroyed" => JoinAll(c) \/ pc[c] = "destroyed"
      BY <1>0, <1>2 DEF IInv, TypeOK, WaitStep, StartReturns, Wait, MayCall,
             WaitStopsHelping, WaitBlocks, WaitReturns, Destroy, SetDone, BroadcastQ
    <3> QED
      BY <2>1, <3>1 DEF DestroyedHaveExited, Destroyed, JoinAll
  <2>4. CASE Destroy(c)
    <3>1. /\ pc'[c] = "help" /\ destroying' /\ \A d \in Clients : pc[d] = "body" /\ stack[d] = <<>>
      BY <1>0, <2>4 DEF Destroy, IInv, TypeOK
    <3>2. OneDestroyer' /\ QuietPastWait'
      BY <2>1, <3>1 DEF OneDestroyer, QuietPastWait, PastWait
    <3> QED
      BY <2>2, <2>3, <3>2
  <2>5. CASE WaitReturns(c) /\ destroying
    <3>1. /\ queue = <<>> /\ nActive = 0 /\ stack[c] = <<>> /\ pc[c] = "wait"
          /\ destroying'
      BY <2>5 DEF WaitReturns, IInv, TypeOK, WaitingIsIdle
    <3>2. \A d \in Clients \ {c} : pc[d] = "body" /\ stack[d] = <<>>
      BY <2>5, <3>1 DEF OneDestroyer
    <3>3. \A w \in Workers : stack[w] = <<>>
      <4>1. Active = {}
        BY <3>1, ActiveIsFinite, FS_EmptySet DEF IInv, ActiveIsCounted, Active
      <4> QED
        BY <4>1 DEF IInv, ActiveIsCounted, Active
    <3>4. OneDestroyer' /\ QuietPastWait'
      BY <2>1, <3>1, <3>2, <3>3 DEF OneDestroyer, QuietPastWait, Threads
    <3> QED
      BY <2>2, <2>3, <3>4
  <2>6. CASE ~Destroy(c) /\ ~(WaitReturns(c) /\ destroying)
    <3>1. /\ destroying' = destroying /\ (pc'[c] \in PastWait => pc[c] \in PastWait)
          /\ destroying => pc[c] # "body"
      BY <1>0, <1>2, <2>6 DEF PastWait, IInv, TypeOK, WaitStep, StartReturns, Wait, MayCall,
             WaitStopsHelping, WaitBlocks, WaitReturns, SetDone, BroadcastQ, JoinAll
    <3>2. OneDestroyer' /\ QuietPastWait'
      BY <2>1, <3>1 DEF OneDestroyer, QuietPastWait
    <3> QED
      BY <2>2, <2>3, <3>2
  <2> QED
    BY <2>4, <2>5, <2>6
<1> QED
  BY <1>1, <1>2

LEMMA ShutdownInvariance == Spec => []ShutdownInv
<1>1. Init => ShutdownInv
  <2> SUFFICES ASSUME Init PROVE ShutdownInv
    OBVIOUS
  <2>1. (\A c \in Clients : pc[c] = "starting") /\ ~destroying /\ cndQ = {} /\ cndWait = {}
    BY DisjointAssumption DEF Init, Frames
  <2> QED
    BY <2>1 DEF ShutdownInv, OneDestroyer, QuietPastWait, SleepersAreWaiting,
                DestroyedHaveExited, Destroyed, PastWait
<1>2. IInv /\ ShutdownInv /\ [Next]_vars => ShutdownInv'
  <2> SUFFICES ASSUME IInv, ShutdownInv, [Next]_vars PROVE ShutdownInv'
    OBVIOUS
  <2>1. CASE SpuriousWakeup \/ UNCHANGED vars
    <3>1. /\ UNCHANGED <<queue, nActive, stack, pc, destroying>>
          /\ cndQ' \subseteq cndQ /\ cndWait' \subseteq cndWait
      BY <2>1 DEF SpuriousWakeup, vars
    <3> QED
      BY <3>1 DEF ShutdownInv, OneDestroyer, QuietPastWait, SleepersAreWaiting,
                  DestroyedHaveExited, Destroyed
  <2> QED
    BY <2>1, StepCases, CallStepShutsDown, LoopStepShutsDown, WaitStepShutsDown
<1> QED
  BY <1>1, <1>2, Invariance, PTL DEF Spec

(* What destroy() asserts after the joins holds, and it frees a queue and  *)
(* condition variables nobody uses, for any number of workers and clients. *)
THEOREM DestroyIsSound == Spec => []DestroyIsClean
<1>1. IInv /\ ShutdownInv => DestroyIsClean
  <2> SUFFICES ASSUME IInv, ShutdownInv, Destroyed
               PROVE  /\ nActive = 0 /\ queue = <<>> /\ cndQ = {} /\ cndWait = {}
                      /\ \A t \in Tasks : pc[t] \in {"new", "done"}
    BY DEF DestroyIsClean
  <2>1. PICK c \in Clients : pc[c] = "destroyed"
    BY DEF Destroyed
  <2>2. queue = <<>> /\ nActive = 0 /\ destroying /\ \A th \in Threads : stack[th] = <<>>
    BY <2>1 DEF ShutdownInv, QuietPastWait, OneDestroyer, PastWait
  <2>3. cndQ = {}
    BY DEF ShutdownInv, SleepersAreWaiting, DestroyedHaveExited, IInv, TypeOK
  <2>4. cndWait = {}
    <3>1. \A d \in Clients : pc[d] # "wait"
      BY <2>1, <2>2 DEF ShutdownInv, OneDestroyer
    <3> QED
      BY <3>1 DEF ShutdownInv, SleepersAreWaiting, IInv, TypeOK
  <2>5. ASSUME NEW t \in Tasks
        PROVE  pc[t] \in {"new", "done"}
    <3>1. ~InQueue(t) /\ \A th \in Threads : ~OnStack(t, th)
      BY <2>2 DEF InQueue, OnStack
    <3> QED
      BY <3>1 DEF IInv, NoTaskLostOrDoubled, Called
  <2> QED
    BY <2>2, <2>3, <2>4, <2>5
<1> QED
  BY <1>1, Invariance, ShutdownInvariance, PTL

-----------------------------------------------------------------------------
(* Notifying.                                                              *)

(* Nobody adds or steals when all is done and the only client is waiting.  *)
LEMMA CallStepNotifies ==
    ASSUME IInv, ShutdownInv, WaiterWillBeNotified, \A c, d \in Clients : c = d,
           NEW th \in Threads, NEW f \in Frames, f = Top(th), CallStep(th, f)
    PROVE  WaiterWillBeNotified'
<1> SUFFICES ASSUME queue' = <<>>, nActive' = 0, cndWait' # {}
             PROVE  \E w \in Workers : pc'[w] = "notify"
  BY DEF WaiterWillBeNotified
<1>1. cndWait' = cndWait /\ \A w \in Workers : pc'[w] = pc[w] \/ pc[w] = "run"
  BY CallStepWorkers
<1>2. nActive' = nActive /\ (queue = <<>> \/ TryStealTask(th, f))
  <2>1. ASSUME NEW t \in Tasks, Accept(f, t)
        PROVE  FALSE
    <3>1. queue' = Append(queue, t) /\ queue \in Seq(Tasks)
      BY <2>1 DEF Accept, IInv, TypeOK
    <3> QED
      BY <3>1
  <2>2. CASE RetryAdd(f)
    <3>1. target[f] \in Tasks
      BY <2>2, ChildrenAssumption DEF RetryAdd, IInv, AddingIsOwn
    <3> QED
      BY <2>1, <2>2, <3>1 DEF RetryAdd
  <2>3. ASSUME NEW t \in Children[f], AddTask(f, t)
        PROVE  FALSE
    <3>1. t \in Tasks
      BY ChildrenAssumption
    <3> QED
      BY <2>1, <2>3, <3>1 DEF AddTask
  <2>4. CASE \/ SignalQ(f) \/ StealNothing(f) \/ FutureWaitReturns(f)
             \/ CallDone(f) \/ CallReturns(th, f)
    BY <2>4 DEF SignalQ, StealNothing, FutureWaitReturns, CallDone, CallReturns
  <2>5. CASE TryStealTask(th, f)
    BY <2>5 DEF TryStealTask, PopAndCall
  <2>6. ASSUME NEW t \in Children[f],
               \/ AddFailsInline(th, f, t) \/ OrDoInline(th, f, t)
               \/ OrDoRetry(f, t) \/ FutureWait(f, t)
        PROVE  nActive' = nActive /\ queue = <<>>
    BY <2>6 DEF AddFailsInline, OrDoInline, CallInline, OrDoRetry, FutureWait
  <2> QED
    BY <2>2, <2>3, <2>4, <2>5, <2>6 DEF CallStep
<1>3. CASE queue = <<>>
  <2>1. PICK w \in Workers : pc[w] = "notify"
    BY <1>1, <1>2, <1>3 DEF WaiterWillBeNotified
  <2> QED
    BY <1>1, <2>1
<1>4. CASE TryStealTask(th, f)
  <2>1. pc[f] = "steal"
    BY <1>4 DEF TryStealTask
  <2>2. CASE th \in Workers
    <3>1. stack[th] # <<>>
      BY <2>2, DisjointAssumption DEF Top, Frames
    <3>2. th \in Active
      BY <2>2, <3>1 DEF IInv, ActiveIsCounted, Active
    <3>3. Cardinality(Active) # 0
      BY <3>2, ActiveIsFinite, FS_EmptySet
    <3> QED
      BY <1>2, <3>3 DEF IInv, ActiveIsCounted, Active
  <2>3. CASE th \in Clients
    <3>1. th \in cndWait
      BY <1>1, <2>3 DEF IInv, TypeOK
    <3>2. pc[th] = "wait" /\ stack[th] = <<>>
      BY <2>3, <3>1 DEF ShutdownInv, SleepersAreWaiting, IInv, WaitingIsIdle
    <3> QED
      BY <2>1, <3>2 DEF Top
  <2> QED
    BY <2>2, <2>3 DEF Threads
<1> QED
  BY <1>2, <1>3, <1>4

(* A worker that has counted itself out goes on to notify, and that is     *)
(* enough for one waiter.                                                  *)
LEMMA LoopStepNotifies ==
    ASSUME IInv, WaiterWillBeNotified, \A c, d \in Clients : c = d,
           NEW w \in Workers, LoopStep(w)
    PROVE  WaiterWillBeNotified'
<1> SUFFICES ASSUME queue' = <<>>, nActive' = 0, cndWait' # {}
             PROVE  \E x \in Workers : pc'[x] = "notify"
  BY DEF WaiterWillBeNotified
<1>0. nActive \in Nat /\ pc \in [Workers \cup Frames -> WorkerPc \cup TaskPc \cup ClientPc]
      /\ cndWait \subseteq Clients
  BY DEF IInv, TypeOK
<1>1. CASE DecActive(w)
  BY <1>0, <1>1 DEF DecActive
<1>2. CASE Notify(w)
  <2>1. queue = <<>> /\ nActive = 0 /\ cndWait # {}
    BY <1>2 DEF Notify
  <2>2. PICK c \in cndWait : cndWait' = cndWait \ {c}
    BY <1>2, <2>1 DEF Notify
  <2>3. cndWait' = {}
    BY <1>0, <2>2
  <2> QED
    BY <2>3
<1>3. CASE TakeTask(w)
  BY <1>0, <1>3 DEF TakeTask
<1>4. CASE WorkerStarts(w) \/ TakeWaits(w) \/ TakeExits(w)
  <2>1. PICK x \in Workers : pc[x] = "notify"
    BY <1>4 DEF WaiterWillBeNotified, WorkerStarts, TakeWaits, TakeExits
  <2>2. pc'[x] = "notify"
    BY <1>0, <1>4, <2>1 DEF WorkerStarts, TakeWaits, TakeExits
  <2> QED
    BY <2>2
<1> QED
  BY <1>1, <1>2, <1>3, <1>4 DEF LoopStep

(* A client falls asleep only over work that is left.                      *)
LEMMA WaitStepNotifies ==
    ASSUME IInv, ShutdownInv, WaiterWillBeNotified, \A c, d \in Clients : c = d,
           NEW c \in Clients, WaitStep(c)
    PROVE  WaiterWillBeNotified'
<1> SUFFICES ASSUME queue' = <<>>, nActive' = 0, cndWait' # {}
             PROVE  \E x \in Workers : pc'[x] = "notify"
  BY DEF WaiterWillBeNotified
<1>1. CASE WaitBlocks(c)
  BY <1>1 DEF WaitBlocks, IInv, TypeOK
<1>2. CASE WaitHelps(c)
  <2>1. c \in cndWait /\ pc[c] = "help"
    BY <1>2 DEF WaitHelps, PopAndCall, IInv, TypeOK
  <2> QED
    BY <2>1 DEF ShutdownInv, SleepersAreWaiting
<1>3. CASE ~WaitBlocks(c) /\ ~WaitHelps(c)
  <2>1. UNCHANGED <<queue, nActive, cndWait>>
    BY <1>3 DEF WaitStep, StartReturns, Wait, WaitStopsHelping, WaitReturns, Destroy,
                SetDone, BroadcastQ, JoinAll
  <2>2. PICK x \in Workers : pc[x] = "notify"
    BY <2>1 DEF WaiterWillBeNotified
  <2>3. c # x
    BY DisjointAssumption
  <2>4. pc'[x] = pc[x]
    BY <1>3, <2>3 DEF IInv, TypeOK, WaitStep, StartReturns, Wait, WaitStopsHelping,
                WaitReturns, Destroy, SetDone, BroadcastQ, JoinAll
  <2> QED
    BY <2>2, <2>4
<1> QED
  BY <1>1, <1>2, <1>3

(* A program with one client: when everything has run, a client blocked in *)
(* wait() has a worker about to notify, for any number of workers. With    *)
(* more clients it is false, as m_cndWait.signal() wakes one of them.      *)
THEOREM SoleClientIsNotified ==
    (\A c, d \in Clients : c = d) => (Spec => []WaiterWillBeNotified)
<1> SUFFICES ASSUME \A c, d \in Clients : c = d
             PROVE  Spec => []WaiterWillBeNotified
  OBVIOUS
<1>1. Init => WaiterWillBeNotified
  BY DEF Init, WaiterWillBeNotified
<1>2. IInv /\ ShutdownInv /\ WaiterWillBeNotified /\ [Next]_vars => WaiterWillBeNotified'
  <2> SUFFICES ASSUME IInv, ShutdownInv, WaiterWillBeNotified, [Next]_vars
               PROVE  WaiterWillBeNotified'
    OBVIOUS
  <2>1. CASE SpuriousWakeup \/ UNCHANGED vars
    <3>1. UNCHANGED <<queue, nActive, pc>> /\ cndWait' \subseteq cndWait
      BY <2>1 DEF SpuriousWakeup, vars
    <3> QED
      BY <3>1 DEF WaiterWillBeNotified
  <2> QED
    BY <2>1, StepCases, CallStepNotifies, LoopStepNotifies, WaitStepNotifies
<1> QED
  BY <1>1, <1>2, Invariance, ShutdownInvariance, PTL DEF Spec

-----------------------------------------------------------------------------
(* Joining.                                                                *)

Started(f) == pc[f] \notin {"new", "queued"}

WaitsForOwn ==
    \A f \in Frames : pc[f] \in {"steal", "blocked"} => target[f] \in Children[f]

(* A closure is added by a frame that has started.                         *)
ParentsStarted ==
    \A f \in Frames : \A t \in Children[f] : pc[t] # "new" => Started(f)

(* The frames in the order they were started in: a stack grows with it,    *)
(* and a closure is younger than the frame that added it.                  *)
AreAges(age, n) ==
    /\ \A f \in Frames : age[f] <= n
    /\ \A th \in Threads : \A i, j \in 1..Len(stack[th]) :
          i < j => age[stack[th][i]] < age[stack[th][j]]
    /\ \A f \in Frames : \A t \in Children[f] : Started(t) => age[f] < age[t]

AgesExist == \E age \in [Frames -> Nat], n \in Nat : AreAges(age, n)

JoinInv == WaitsForOwn /\ ParentsStarted /\ AgesExist

(* A step starts no closure; at most it pops frames.                       *)
StartsNone ==
    /\ \A x \in Frames : Started(x)' <=> Started(x)
    /\ \A th \in Threads :
          \/ stack'[th] = stack[th]
          \/ stack[th] # <<>> /\ stack'[th] = SubSeq(stack[th], 1, Len(stack[th]) - 1)

(* A step starts the closure t on th.                                      *)
Starts(th, t) ==
    /\ ~Started(t) /\ t \notin Children[t]
    /\ stack' = [stack EXCEPT ![th] = Append(@, t)]
    /\ \A x \in Frames : Started(x)' <=> Started(x) \/ x = t

(* What the steps do to the waits, the places and the stacks.              *)
KeepsWaits ==
    \A f \in Frames : pc'[f] \in {"steal", "blocked"} =>
        \/ target'[f] \in Children[f]
        \/ pc[f] \in {"steal", "blocked"} /\ target'[f] = target[f]

AddedByStarted ==
    \A f \in Frames : \A t \in Children[f] : pc'[t] # "new" => pc[t] # "new" \/ Started(f)

JoinStep ==
    /\ KeepsWaits /\ AddedByStarted
    /\ StartsNone \/ \E th \in Threads, t \in Tasks : Starts(th, t)

(* Ages are kept when frames return.                                       *)
LEMMA AgesOfRest ==
    ASSUME IInv, AgesExist, StartsNone
    PROVE  AgesExist'
<1>1. PICK age \in [Frames -> Nat], n \in Nat : AreAges(age, n)
  BY DEF AgesExist
<1>2. ASSUME NEW th \in Threads, NEW i \in 1..Len(stack'[th]), NEW j \in 1..Len(stack'[th]), i < j
      PROVE  age[stack'[th][i]] < age[stack'[th][j]]
  <2>1. stack[th] \in Seq(Tasks)
    BY DEF IInv, TypeOK
  <2>2. CASE stack'[th] = stack[th]
    BY <1>1, <1>2, <2>2 DEF AreAges
  <2>3. CASE stack[th] # <<>> /\ stack'[th] = SubSeq(stack[th], 1, Len(stack[th]) - 1)
    <3>1. /\ i \in 1..Len(stack[th]) /\ j \in 1..Len(stack[th])
          /\ stack'[th][i] = stack[th][i] /\ stack'[th][j] = stack[th][j]
      BY <1>2, <2>1, <2>3, PopOfSeq
    <3> QED
      BY <1>1, <1>2, <3>1 DEF AreAges
  <2> QED
    BY <2>2, <2>3 DEF StartsNone
<1>3. \A f \in Frames : \A t \in Children[f] : Started(t)' => age[f] < age[t]
  BY <1>1, ChildrenAssumption DEF AreAges, StartsNone, Frames
<1>4. AreAges(age, n)'
  BY <1>1, <1>2, <1>3 DEF AreAges
<1> QED
  BY <1>4 DEF AgesExist

(* A closure that starts gets the next age.                                *)
LEMMA AgesOfStart ==
    ASSUME IInv, ParentsStarted, AgesExist, NEW th \in Threads, NEW t \in Tasks, Starts(th, t)
    PROVE  AgesExist'
<1>1. PICK age \in [Frames -> Nat], n \in Nat : AreAges(age, n)
  BY DEF AgesExist
<1>2. t \in Frames /\ \A x \in Threads : stack[x] \in Seq(Tasks)
  BY DEF IInv, TypeOK, Frames
<1>3. \A x \in Threads : ~OnStack(t, x)
  BY DEF IInv, NoTaskLostOrDoubled, Called, Starts, Started
<1>4. \A u \in Children[t] : ~Started(u)
  BY <1>2 DEF ParentsStarted, Starts, Started
<1> DEFINE new == [age EXCEPT ![t] = n + 1]
<1>5. /\ new \in [Frames -> Nat] /\ new[t] = n + 1
      /\ \A f \in Frames : f # t => new[f] = age[f]
  BY <1>2
<1> HIDE DEF new
<1>6. \A f \in Frames : new[f] <= n + 1
  BY <1>1, <1>5 DEF AreAges
<1>7. ASSUME NEW x \in Threads, NEW i \in 1..Len(stack'[x]), NEW j \in 1..Len(stack'[x]), i < j
      PROVE  new[stack'[x][i]] < new[stack'[x][j]]
  <2>1. \A k \in 1..Len(stack[x]) : stack[x][k] \in Frames /\ stack[x][k] # t
    BY <1>2, <1>3 DEF OnStack, Frames
  <2>2. CASE i \in 1..Len(stack[x]) /\ j \in 1..Len(stack[x])
             /\ stack'[x][i] = stack[x][i] /\ stack'[x][j] = stack[x][j]
    BY <1>1, <1>5, <1>7, <2>1, <2>2 DEF AreAges
  <2>3. CASE x # th
    <3>1. stack'[x] = stack[x]
      BY <2>3 DEF Starts, IInv, TypeOK
    <3> QED
      BY <1>7, <2>2, <3>1
  <2>4. CASE x = th
    <3> DEFINE q == stack[x]
    <3>1. q \in Seq(Tasks) /\ stack'[x] = Append(q, t)
      BY <1>2, <2>4 DEF Starts, IInv, TypeOK
    <3>2. /\ Len(stack'[x]) = Len(q) + 1 /\ stack'[x][Len(q) + 1] = t
          /\ \A k \in 1..Len(q) : stack'[x][k] = q[k]
      BY <3>1
    <3>3. i \in 1..Len(q)
      BY <1>7, <3>1, <3>2
    <3>4. CASE j \in 1..Len(q)
      BY <2>2, <3>2, <3>3, <3>4
    <3>5. CASE j = Len(q) + 1
      <4>1. q[i] \in Frames /\ q[i] # t /\ age[q[i]] <= n /\ age[q[i]] \in Nat
        BY <1>1, <2>1, <3>3 DEF AreAges
      <4> QED
        BY <1>5, <3>2, <3>3, <3>5, <4>1
    <3> QED
      BY <1>7, <3>1, <3>2, <3>4, <3>5
  <2> QED
    BY <2>3, <2>4
<1>8. ASSUME NEW f \in Frames, NEW u \in Children[f], Started(u)'
      PROVE  new[f] < new[u]
  <2>1. u \in Frames /\ (Started(u) \/ u = t)
    BY <1>8, ChildrenAssumption DEF Starts, Frames
  <2>2. CASE u = t
    <3>1. f # t
      BY <2>2 DEF Starts
    <3> QED
      BY <1>1, <1>5, <2>2, <3>1 DEF AreAges
  <2>3. CASE u # t
    <3>1. Started(u) /\ f # t
      BY <1>4, <2>1, <2>3
    <3>2. age[f] < age[u]
      BY <1>1, <3>1 DEF AreAges
    <3> QED
      BY <1>5, <2>1, <2>3, <3>1, <3>2
  <2> QED
    BY <2>2, <2>3
<1>9. AreAges(new, n + 1)'
  BY <1>6, <1>7, <1>8 DEF AreAges
<1> QED
  BY <1>5, <1>9 DEF AgesExist

LEMMA JoinStepKeeps ==
    ASSUME IInv, JoinInv, JoinStep
    PROVE  JoinInv'
<1>1. AgesExist'
  BY AgesOfRest, AgesOfStart DEF JoinInv, JoinStep
<1>2. \A f \in Frames : Started(f) => Started(f)'
  BY DEF JoinStep, StartsNone, Starts
<1>3. ParentsStarted'
  BY <1>2 DEF JoinInv, JoinStep, ParentsStarted, AddedByStarted
<1>4. WaitsForOwn'
  BY DEF JoinInv, JoinStep, WaitsForOwn, KeepsWaits
<1> QED
  BY <1>1, <1>3, <1>4 DEF JoinInv

(* A closure taken from the queue starts.                                  *)
LEMMA PopStarts ==
    ASSUME IInv, ParentsStarted, NEW th \in Threads, NEW t \in Tasks, pc[t] = "queued",
           stack' = [stack EXCEPT ![th] = Append(@, t)],
           \A x \in Frames : x # t => pc'[x] = pc[x], pc'[t] = "body", target' = target
    PROVE  JoinStep
<1>1. t \in Frames /\ t \notin Children[t]
  BY DEF ParentsStarted, Started, Frames
<1>2. Starts(th, t)
  BY <1>1 DEF Starts, Started
<1>3. KeepsWaits /\ AddedByStarted
  BY ChildrenAssumption DEF KeepsWaits, AddedByStarted, Frames
<1> QED
  BY <1>2, <1>3 DEF JoinStep

(* A frame moves on.                                                       *)
LEMMA MoveStartsNone ==
    ASSUME IInv, stack' = stack,
           NEW f \in Frames, Started(f), pc'[f] \notin {"new", "queued"},
           pc'[f] \in {"steal", "blocked"} =>
              \/ target'[f] \in Children[f]
              \/ pc[f] \in {"steal", "blocked"} /\ target'[f] = target[f],
           \A x \in Frames : x # f => pc'[x] = pc[x] /\ target'[x] = target[x]
    PROVE  JoinStep
<1>1. StartsNone
  BY DEF StartsNone, Started
<1>2. KeepsWaits /\ AddedByStarted
  BY ChildrenAssumption DEF KeepsWaits, AddedByStarted, Frames, Started
<1> QED
  BY <1>1, <1>2 DEF JoinStep

LEMMA CallStepJoins ==
    ASSUME IInv, JoinInv, NEW th \in Threads, NEW f \in Frames, f = Top(th), CallStep(th, f)
    PROVE  JoinStep
<1> USE DEF IInv
<1>0. f \notin Workers /\ WaitsForOwn /\ ParentsStarted
  BY DisjointAssumption DEF Frames, JoinInv
<1>1. ASSUME NEW t \in Children[f], Accept(f, t), pc[f] \in {"adding", "body"}, pc[t] = "new"
      PROVE  JoinStep
  <2>1. t \in Tasks /\ t \in Frames /\ t # f
    BY <1>1, ChildrenAssumption DEF Frames
  <2>2. /\ pc'[f] = "signal" /\ pc'[t] = "queued" /\ stack' = stack
        /\ \A x \in Frames : x \notin {f, t} => pc'[x] = pc[x]
        /\ \A x \in Frames : x # f => target'[x] = target[x]
    BY <1>1, <2>1 DEF Accept, TypeOK
  <2>3. StartsNone
    BY <1>1, <2>1, <2>2 DEF StartsNone, Started
  <2>4. KeepsWaits
    BY <1>1, <2>1, <2>2 DEF KeepsWaits
  <2>5. AddedByStarted
    BY <1>1, <2>1, <2>2, ChildrenAssumption DEF AddedByStarted, Started, Frames
  <2> QED
    BY <2>3, <2>4, <2>5 DEF JoinStep
<1>2. ASSUME NEW t \in Children[f], NEW fut, CallInline(th, f, t, fut), pc[f] = "body", pc[t] = "new"
      PROVE  JoinStep
  <2>1. t \in Tasks /\ t \in Frames /\ t # f
    BY <1>2, ChildrenAssumption DEF Frames
  <2>2. /\ pc'[t] = "body" /\ stack' = [stack EXCEPT ![th] = Append(@, t)] /\ target' = target
        /\ \A x \in Frames : x # t => pc'[x] = pc[x]
    BY <1>2, <2>1 DEF CallInline, Push, TypeOK
  <2>3. t \notin Children[t]
    BY <2>1, ChildrenAssumption
  <2>4. Starts(th, t)
    BY <1>2, <2>1, <2>2, <2>3 DEF Starts, Started
  <2>5. KeepsWaits
    BY <1>2, <2>2 DEF KeepsWaits
  <2>6. AddedByStarted
    BY <1>2, <2>1, <2>2, ChildrenAssumption DEF AddedByStarted, Started, Frames
  <2> QED
    BY <2>1, <2>4, <2>5, <2>6 DEF JoinStep
<1>3. CASE RetryAdd(f)
  <2>1. target[f] \in Children[f] /\ pc[target[f]] = "new" /\ pc[f] = "adding" /\ Accept(f, target[f])
    BY <1>3 DEF RetryAdd, AddingIsOwn
  <2> QED
    BY <1>1, <2>1
<1>4. CASE TryStealTask(th, f)
  <2>1. th \in Workers => stack[th] # <<>>
    BY TopOfStack
  <2>2. PopAndCall(th)
    BY <1>4 DEF TryStealTask
  <2>3. Head(queue) \in Tasks /\ pc[Head(queue)] = "queued"
    BY <2>1, <2>2, PopAndCallConserves, TailOfSeq DEF TypeOK, PopAndCall
  <2> DEFINE t == Head(queue)
  <2>4. /\ stack' = [stack EXCEPT ![th] = Append(@, t)] /\ pc'[t] = "body" /\ target' = target
        /\ \A x \in Frames : x # t => pc'[x] = pc[x]
    BY <2>2, <2>3 DEF PopAndCall, Push, TypeOK, Frames
  <2> QED
    BY <1>0, <2>3, <2>4, PopStarts
<1>5. CASE f \in Tasks /\ CallReturns(th, f)
  <2>1. stack[th] # <<>> /\ pc[f] = "return" /\ target' = target
    BY <1>5, TopOfStack DEF CallReturns
  <2>2. pc'[f] = "done" /\ \A x \in Frames : x # f => pc'[x] = pc[x]
    BY <1>0, <1>5, DisjointAssumption DEF CallReturns, TypeOK, Frames
  <2>3. StartsNone
    BY <1>5, <2>1, <2>2 DEF StartsNone, Started, CallReturns, Pop, TypeOK
  <2>4. KeepsWaits /\ AddedByStarted
    BY <2>1, <2>2, ChildrenAssumption DEF KeepsWaits, AddedByStarted, Frames
  <2> QED
    BY <2>3, <2>4 DEF JoinStep
<1>6. ASSUME NEW t \in Children[f], AddTask(f, t)
      PROVE  JoinStep
  BY <1>1, <1>6 DEF AddTask, MayCall, ToAdd
<1>7. ASSUME NEW t \in Children[f], AddFailsInline(th, f, t) \/ OrDoInline(th, f, t)
      PROVE  JoinStep
  <2>1. pc[t] = "new" /\ pc[f] = "body" /\ \E fut : CallInline(th, f, t, fut)
    BY <1>7 DEF AddFailsInline, OrDoInline, MayCall, ToAdd
  <2> QED
    BY <1>2, <2>1
<1>8. CASE SignalQ(f) \/ StealNothing(f) \/ (f \in Tasks /\ CallDone(f))
  <2>1. /\ pc[f] \in {"signal", "steal", "body"} /\ pc'[f] \in {"body", "blocked", "return"}
        /\ pc'[f] = "blocked" => pc[f] = "steal"
        /\ target' = target /\ stack' = stack
        /\ \A x \in Frames : x # f => pc'[x] = pc[x]
    BY <1>8 DEF SignalQ, StealNothing, CallDone, TypeOK
  <2> QED
    BY <2>1, MoveStartsNone DEF Started
<1>9. ASSUME FutureWaitReturns(f) \/ \E t \in Children[f] : OrDoRetry(f, t) \/ FutureWait(f, t)
      PROVE  JoinStep
  <2>1. /\ pc[f] \in {"blocked", "body"} /\ pc'[f] \in {"body", "adding", "steal"}
        /\ pc'[f] = "steal" => target'[f] \in Children[f]
        /\ stack' = stack
        /\ \A x \in Frames : x # f => pc'[x] = pc[x] /\ target'[x] = target[x]
    BY <1>9 DEF FutureWaitReturns, OrDoRetry, FutureWait, MayCall, TypeOK
  <2> QED
    BY <2>1, MoveStartsNone DEF Started
<1> QED
  BY <1>3, <1>4, <1>5, <1>6, <1>7, <1>8, <1>9 DEF CallStep

(* A step that moves no frame.                                             *)
LEMMA StillJoins ==
    ASSUME stack' = stack, target' = target, \A x \in Frames : pc'[x] = pc[x]
    PROVE  JoinStep
<1>1. StartsNone /\ KeepsWaits
  BY DEF StartsNone, Started, KeepsWaits
<1>2. AddedByStarted
  BY ChildrenAssumption DEF AddedByStarted, Frames
<1> QED
  BY <1>1, <1>2 DEF JoinStep

LEMMA LoopStepJoins ==
    ASSUME IInv, JoinInv, NEW w \in Workers, LoopStep(w)
    PROVE  JoinStep
<1>0. w \in Threads /\ w \notin Frames /\ ParentsStarted
  BY DisjointAssumption DEF Threads, Frames, JoinInv
<1>1. CASE TakeTask(w)
  <2> DEFINE t == Head(queue)
  <2>1. t \in Tasks /\ InQueue(t)
    BY <1>1, TailOfSeq DEF IInv, TypeOK, TakeTask, InQueue
  <2>2. pc[t] = "queued"
    BY <2>1 DEF IInv, NoTaskLostOrDoubled
  <2>3. /\ stack' = [stack EXCEPT ![w] = Append(@, t)] /\ pc'[t] = "body" /\ target' = target
        /\ \A x \in Frames : x # t => pc'[x] = pc[x]
    BY <1>0, <1>1, <2>1 DEF TakeTask, Push, IInv, TypeOK, Frames
  <2> QED
    BY <1>0, <2>1, <2>2, <2>3, PopStarts
<1>2. CASE ~TakeTask(w)
  <2>1. stack' = stack /\ target' = target /\ \A x \in Frames : pc'[x] = pc[x]
    BY <1>0, <1>2 DEF LoopStep, WorkerStarts, TakeWaits, TakeExits, DecActive, Notify, IInv, TypeOK
  <2> QED
    BY <2>1, StillJoins
<1> QED
  BY <1>1, <1>2

LEMMA WaitStepJoins ==
    ASSUME IInv, JoinInv, NEW c \in Clients, WaitStep(c)
    PROVE  JoinStep
<1>0. /\ c \in Threads /\ c \in Frames /\ c \notin Workers /\ c \notin Tasks
      /\ ParentsStarted
  BY DisjointAssumption DEF Threads, Frames, JoinInv
<1>1. CASE WaitHelps(c)
  <2> DEFINE t == Head(queue)
  <2>1. t \in Tasks /\ InQueue(t)
    BY <1>1, TailOfSeq DEF IInv, TypeOK, WaitHelps, PopAndCall, InQueue
  <2>2. pc[t] = "queued"
    BY <2>1 DEF IInv, NoTaskLostOrDoubled
  <2>3. /\ stack' = [stack EXCEPT ![c] = Append(@, t)] /\ pc'[t] = "body" /\ target' = target
        /\ \A x \in Frames : x # t => pc'[x] = pc[x]
    BY <1>0, <1>1, <2>1 DEF WaitHelps, PopAndCall, Push, IInv, TypeOK, Frames
  <2> QED
    BY <1>0, <2>1, <2>2, <2>3, PopStarts
<1>2. CASE ~WaitHelps(c)
  <2>1. /\ stack' = stack /\ target' = target
        /\ \A x \in Frames : x # c => pc'[x] = pc[x]
    BY <1>2, WaitStepPc DEF IInv
  <2>2. \/ pc[c] \in ClientPc /\ pc'[c] \in ClientPc \ {"steal", "blocked"}
       \/ pc'[c] = pc[c]
    BY <1>0, <1>2 DEF IInv, TypeOK, WaitStep, StartReturns, Wait, WaitStopsHelping, WaitBlocks,
           WaitReturns, Destroy, SetDone, BroadcastQ, JoinAll, ClientPc
  <2>3. pc[c] \in ClientPc
    BY DEF IInv, TypeOK
  <2> QED
    BY <1>0, <2>1, <2>2, <2>3, MoveStartsNone DEF Started, ClientPc
<1> QED
  BY <1>1, <1>2

LEMMA JoinInvariance == Spec => []JoinInv
<1>1. Init => JoinInv
  <2> SUFFICES ASSUME Init PROVE JoinInv
    OBVIOUS
  <2>1. /\ \A t \in Tasks : pc[t] = "new"
        /\ \A c \in Clients : pc[c] = "starting"
        /\ \A th \in Threads : stack[th] = <<>>
    BY DisjointAssumption DEF Init, Frames, Threads
  <2>2. WaitsForOwn
    BY <2>1 DEF WaitsForOwn, Frames
  <2>3. ParentsStarted
    BY <2>1, ChildrenAssumption DEF ParentsStarted
  <2>4. AreAges([f \in Frames |-> 0], 0)
    BY <2>1, ChildrenAssumption DEF AreAges, Started
  <2>5. AgesExist
    <3>1. [f \in Frames |-> 0] \in [Frames -> Nat]
      OBVIOUS
    <3> QED
      BY <2>4, <3>1 DEF AgesExist
  <2> QED
    BY <2>2, <2>3, <2>5 DEF JoinInv
<1>2. IInv /\ JoinInv /\ [Next]_vars => JoinInv'
  <2> SUFFICES ASSUME IInv, JoinInv, [Next]_vars PROVE JoinInv'
    OBVIOUS
  <2>1. CASE SpuriousWakeup \/ UNCHANGED vars
    <3>1. stack' = stack /\ target' = target /\ pc' = pc
      BY <2>1 DEF SpuriousWakeup, vars
    <3> QED
      BY <3>1, StillJoins, JoinStepKeeps
  <2>2. JoinStep => JoinInv'
    BY JoinStepKeeps
  <2> QED
    BY <2>1, <2>2, StepCases, CallStepJoins, LoopStepJoins, WaitStepJoins
<1> QED
  BY <1>1, <1>2, Invariance, PTL DEF Spec

(* However closures pile up on the stacks of threads that steal while they *)
(* wait, no set of threads waits for itself: the youngest frame that waits *)
(* waits for a closure younger still.                                      *)
THEOREM JoinsAreAcyclic == Spec => []NoJoinCycle
<1>1. IInv /\ JoinInv => NoJoinCycle
  <2> SUFFICES ASSUME IInv, JoinInv, NEW S \in SUBSET Threads, S # {},
                      \A th \in S : /\ pc[Top(th)] = "blocked"
                                    /\ \E th2 \in S : OnStack(target[Top(th)], th2)
               PROVE  FALSE
    BY DEF NoJoinCycle
  <2>1. PICK age \in [Frames -> Nat], n \in Nat : AreAges(age, n)
    BY DEF JoinInv, AgesExist
  <2>2. ASSUME NEW th \in S
        PROVE  Top(th) \in Frames
    <3>1. pc[Top(th)] = "blocked" /\ stack[th] \in Seq(Tasks)
      BY DEF IInv, TypeOK
    <3>2. th \in Workers => stack[th] # <<>>
      BY <3>1 DEF Top, IInv, TypeOK, WorkerPc
    <3> QED
      BY <3>1, <3>2 DEF Top, Frames, Threads
  <2> DEFINE R == {n - age[Top(th)] : th \in S}
  <2>3. R \in SUBSET Nat /\ R # {}
    <3>1. \A th \in S : n - age[Top(th)] \in Nat
      BY <2>1, <2>2 DEF AreAges
    <3> QED
      BY <3>1
  <2> HIDE DEF R
  <2>4. PICK m \in R : \A k \in R : m <= k
    BY <2>3, NatMin
  <2>5. PICK th \in S : m = n - age[Top(th)]
    BY DEF R
  <2> DEFINE f == Top(th)
             t == target[f]
  <2>6. PICK th2 \in S : OnStack(t, th2)
    OBVIOUS
  <2> DEFINE q == stack[th2]
  <2>7. q \in Seq(Tasks)
    BY DEF IInv, TypeOK
  <2>8. PICK i \in 1..Len(q) : q[i] = t
    BY <2>6 DEF OnStack
  <2>9. q # <<>> /\ Top(th2) = q[Len(q)] /\ Len(q) \in 1..Len(q)
    BY <2>7, <2>8 DEF Top
  <2>10. age[f] < age[t] /\ t \in Frames
    <3>1. t \in Tasks /\ Started(t)
      BY <2>6, <2>7, <2>8 DEF IInv, NoTaskLostOrDoubled, Called, Started
    <3>2. f \in Frames /\ pc[f] = "blocked"
      BY <2>2
    <3>3. t \in Children[f]
      BY <3>2 DEF JoinInv, WaitsForOwn
    <3> QED
      BY <2>1, <3>1, <3>2, <3>3 DEF AreAges, Frames
  <2>11. age[t] <= age[Top(th2)]
    <3>1. CASE i = Len(q)
      BY <2>1, <2>8, <2>9, <2>10, <3>1
    <3>2. CASE i < Len(q)
      <4>1. age[q[i]] < age[q[Len(q)]]
        BY <2>1, <2>8, <2>9, <3>2 DEF AreAges
      <4>2. Top(th2) \in Frames
        BY <2>2
      <4> QED
        BY <2>1, <2>8, <2>9, <2>10, <4>1, <4>2
    <3> QED
      BY <2>7, <2>8, <3>1, <3>2
  <2>12. m <= n - age[Top(th2)]
    BY <2>4 DEF R
  <2>13. age[f] \in Nat /\ age[t] \in Nat /\ age[Top(th2)] \in Nat
    BY <2>1, <2>2, <2>10
  <2> HIDE DEF f, t, q
  <2> QED
    BY <2>5, <2>10, <2>11, <2>12, <2>13 DEF f
<1> QED
  BY <1>1, Invariance, JoinInvariance, PTL
=============================================================================
