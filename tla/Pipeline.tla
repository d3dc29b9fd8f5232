------------------------------ MODULE Pipeline ------------------------------
(***************************************************************************)
(* adt::Pipeline (include/adt/Pipeline.hh): a chain of stages, each with   *)
(* an input queue, a mutex, a condition variable and one thread that runs  *)
(* the stage's function on every package and hands it to the next stage.   *)
(*                                                                         *)
(* A stage's critical sections are single actions, with one exception: a   *)
(* thread that has found its predicate false holds the mutex until         *)
(* CndVar::wait() releases it, and m_atomBDone and m_atomNEnqueued may     *)
(* change in between because their writers do not take that mutex.         *)
(***************************************************************************)
EXTENDS Integers, Sequences, FiniteSets

CONSTANTS
    NStages,      \* number of stages given to the constructor
    Packages,     \* the inputs, each added once
    Callers,      \* threads that call add(), wait() and destroy()
    NoPackage,    \* no input (pPackage == nullptr)
    AllocFails,   \* may emplaceBack() throw AllocException?
    Spurious      \* may a condition variable wake up without a signal?

Stages == 1..NStages

ASSUME StagesAssumption == NStages \in Nat \ {0}

ASSUME NoPackageAssumption == NoPackage \notin Packages

VARIABLES
    input,       \* stage -> qInput
    log,         \* stage -> the packages its pfn was called with, in order
    held,        \* stage -> the package its thread is working on
    spc,         \* stage -> where its thread is in stageLoop()
    nEnqueued,   \* m_atomNEnqueued
    bDone,       \* m_atomBDone
    adding,      \* caller -> the package it is adding
    cpc,         \* caller -> where it is
    destroying,  \* has a caller called destroy()?
    cur,         \* the stage destroy() is working on; those below are freed
    lost         \* stage -> packages dropped because its qInput could not grow

vars == <<input, log, held, spc, nEnqueued, bDone, adding, cpc, destroying, cur, lost>>

StagePc == {"take", "sleepy", "asleep", "run", "out", "signalNext",
            "sub", "load", "signalWait", "exited"}

CallerPc == {"idle", "add", "signal", "wait", "waitSleepy", "waitAsleep",
             "setDone", "kick", "join", "destroyed"}

TypeOK ==
    /\ input \in [Stages -> Seq(Packages)]
    /\ log \in [Stages -> Seq(Packages)]
    /\ held \in [Stages -> Packages \cup {NoPackage}]
    /\ spc \in [Stages -> StagePc]
    /\ nEnqueued \in Nat
    /\ bDone \in BOOLEAN
    /\ adding \in [Callers -> Packages \cup {NoPackage}]
    /\ cpc \in [Callers -> CallerPc]
    /\ destroying \in BOOLEAN
    /\ cur \in 1..(NStages + 1)
    /\ lost \in [Stages -> SUBSET Packages]

Init ==
    /\ input = [s \in Stages |-> <<>>]
    /\ log = [s \in Stages |-> <<>>]
    /\ held = [s \in Stages |-> NoPackage]
    /\ spc = [s \in Stages |-> "take"]
    /\ nEnqueued = 0
    /\ bDone = FALSE
    /\ adding = [c \in Callers |-> NoPackage]
    /\ cpc = [c \in Callers |-> "idle"]
    /\ destroying = FALSE
    /\ cur = 1
    /\ lost = [s \in Stages |-> {}]

-----------------------------------------------------------------------------
InSeq(p, q) == \E i \in 1..Len(q) : q[i] = p

(* The package has not been given to add() yet.                            *)
IsNew(p) ==
    /\ p \notin lost[1]
    /\ \A c \in Callers : adding[c] # p
    /\ ~InSeq(p, input[1]) /\ held[1] # p /\ ~InSeq(p, log[1])

(* The stage's mutex is free, seen by another thread between its sections. *)
MutexFree(s) == spc[s] # "sleepy"

(* stage.cnd.signal(): only a thread that is already asleep hears it.      *)
WakeStage(s) == spc' = [spc EXCEPT ![s] = IF @ = "asleep" THEN "take" ELSE @]

-----------------------------------------------------------------------------
(* add(): count, enqueue at the head stage, signal it                      *)

AddCounts(c, p) ==
    /\ cpc[c] = "idle" /\ ~destroying
    /\ IsNew(p)
    /\ nEnqueued' = nEnqueued + 1
    /\ adding' = [adding EXCEPT ![c] = p]
    /\ cpc' = [cpc EXCEPT ![c] = "add"]
    /\ UNCHANGED <<input, log, held, spc, bDone, destroying, cur, lost>>

AddEnqueues(c) ==
    /\ cpc[c] = "add"
    /\ MutexFree(1)
    /\ input' = [input EXCEPT ![1] = Append(@, adding[c])]
    /\ adding' = [adding EXCEPT ![c] = NoPackage]
    /\ cpc' = [cpc EXCEPT ![c] = "signal"]
    /\ UNCHANGED <<log, held, spc, nEnqueued, bDone, destroying, cur, lost>>

(* The exception leaves add() after the package was counted.               *)
AddThrows(c) ==
    /\ AllocFails
    /\ cpc[c] = "add"
    /\ MutexFree(1)
    /\ lost' = [lost EXCEPT ![1] = @ \cup {adding[c]}]
    /\ adding' = [adding EXCEPT ![c] = NoPackage]
    /\ cpc' = [cpc EXCEPT ![c] = "idle"]
    /\ UNCHANGED <<input, log, held, spc, nEnqueued, bDone, destroying, cur>>

AddSignals(c) ==
    /\ cpc[c] = "signal"
    /\ WakeStage(1)
    /\ cpc' = [cpc EXCEPT ![c] = "idle"]
    /\ UNCHANGED <<input, log, held, nEnqueued, bDone, adding, destroying, cur, lost>>

-----------------------------------------------------------------------------
(* stageLoop()                                                             *)

(* The predicate is false: the thread is about to wait, mutex held.        *)
TakeFindsNothing(s) ==
    /\ spc[s] = "take"
    /\ input[s] = <<>> /\ ~bDone
    /\ spc' = [spc EXCEPT ![s] = "sleepy"]
    /\ UNCHANGED <<input, log, held, nEnqueued, bDone, adding, cpc, destroying, cur, lost>>

FallsAsleep(s) ==
    /\ spc[s] = "sleepy"
    /\ spc' = [spc EXCEPT ![s] = "asleep"]
    /\ UNCHANGED <<input, log, held, nEnqueued, bDone, adding, cpc, destroying, cur, lost>>

TakeExits(s) ==
    /\ spc[s] = "take"
    /\ bDone
    /\ spc' = [spc EXCEPT ![s] = "exited"]
    /\ UNCHANGED <<input, log, held, nEnqueued, bDone, adding, cpc, destroying, cur, lost>>

(* As TakePackage, the package read but not popped.                        *)
PeekPackage(s) ==
    /\ spc[s] = "take"
    /\ input[s] # <<>> /\ ~bDone
    /\ held' = [held EXCEPT ![s] = Head(input[s])]
    /\ spc' = [spc EXCEPT ![s] = "run"]
    /\ UNCHANGED <<input, log, nEnqueued, bDone, adding, cpc, destroying, cur, lost>>

TakePackage(s) ==
    /\ spc[s] = "take"
    /\ input[s] # <<>> /\ ~bDone
    /\ held' = [held EXCEPT ![s] = Head(input[s])]
    /\ input' = [input EXCEPT ![s] = Tail(@)]
    /\ spc' = [spc EXCEPT ![s] = "run"]
    /\ UNCHANGED <<log, nEnqueued, bDone, adding, cpc, destroying, cur, lost>>

(* stage.pfn(pPackage)                                                     *)
RunStage(s) ==
    /\ spc[s] = "run"
    /\ log' = [log EXCEPT ![s] = Append(@, held[s])]
    /\ IF s < NStages
       THEN /\ spc' = [spc EXCEPT ![s] = "out"]
            /\ UNCHANGED held
       ELSE /\ spc' = [spc EXCEPT ![s] = "sub"]
            /\ held' = [held EXCEPT ![s] = NoPackage]
    /\ UNCHANGED <<input, nEnqueued, bDone, adding, cpc, destroying, cur, lost>>

(* As HandOver, to the front of the next queue.                            *)
HandOverFirst(s) ==
    /\ spc[s] = "out"
    /\ MutexFree(s + 1)
    /\ input' = [input EXCEPT ![s + 1] = <<held[s]>> \o @]
    /\ held' = [held EXCEPT ![s] = NoPackage]
    /\ spc' = [spc EXCEPT ![s] = "signalNext"]
    /\ UNCHANGED <<log, nEnqueued, bDone, adding, cpc, destroying, cur, lost>>

HandOver(s) ==
    /\ spc[s] = "out"
    /\ MutexFree(s + 1)
    /\ input' = [input EXCEPT ![s + 1] = Append(@, held[s])]
    /\ held' = [held EXCEPT ![s] = NoPackage]
    /\ spc' = [spc EXCEPT ![s] = "signalNext"]
    /\ UNCHANGED <<log, nEnqueued, bDone, adding, cpc, destroying, cur, lost>>

(* The catch block logs the error and goes for the next package.           *)
HandOverThrows(s) ==
    /\ AllocFails
    /\ spc[s] = "out"
    /\ MutexFree(s + 1)
    /\ lost' = [lost EXCEPT ![s + 1] = @ \cup {held[s]}]
    /\ held' = [held EXCEPT ![s] = NoPackage]
    /\ spc' = [spc EXCEPT ![s] = "take"]
    /\ UNCHANGED <<input, log, nEnqueued, bDone, adding, cpc, destroying, cur>>

(* As SignalNext, the next stage not signalled.                            *)
NextUnsignalled(s) ==
    /\ spc[s] = "signalNext"
    /\ spc' = [spc EXCEPT ![s] = "take"]
    /\ UNCHANGED <<input, log, held, nEnqueued, bDone, adding, cpc, destroying, cur, lost>>

SignalNext(s) ==
    /\ spc[s] = "signalNext"
    /\ spc' = [spc EXCEPT ![s] = "take",
                          ![s + 1] = IF @ = "asleep" THEN "take" ELSE @]
    /\ UNCHANGED <<input, log, held, nEnqueued, bDone, adding, cpc, destroying, cur, lost>>

LastSubtracts(s) ==
    /\ spc[s] = "sub"
    /\ nEnqueued' = nEnqueued - 1
    /\ spc' = [spc EXCEPT ![s] = "load"]
    /\ UNCHANGED <<input, log, held, bDone, adding, cpc, destroying, cur, lost>>

LastLoads(s) ==
    /\ spc[s] = "load"
    /\ spc' = [spc EXCEPT ![s] = IF nEnqueued <= 0 THEN "signalWait" ELSE "take"]
    /\ UNCHANGED <<input, log, held, nEnqueued, bDone, adding, cpc, destroying, cur, lost>>

(* m_cndWait.signal(), without m_mtxWait: it may come too early.           *)
LastSignals(s) ==
    /\ spc[s] = "signalWait"
    /\ \/ \E c \in Callers : /\ cpc[c] = "waitAsleep"
                             /\ cpc' = [cpc EXCEPT ![c] = "wait"]
       \/ /\ \A c \in Callers : cpc[c] # "waitAsleep"
          /\ UNCHANGED cpc
    /\ spc' = [spc EXCEPT ![s] = "take"]
    /\ UNCHANGED <<input, log, held, nEnqueued, bDone, adding, destroying, cur, lost>>

-----------------------------------------------------------------------------
(* wait() and destroy()                                                    *)

WaitMutexFree == \A c \in Callers : cpc[c] # "waitSleepy"

Wait(c) ==
    /\ cpc[c] = "idle" /\ ~destroying
    /\ cpc' = [cpc EXCEPT ![c] = "wait"]
    /\ UNCHANGED <<input, log, held, spc, nEnqueued, bDone, adding, destroying, cur, lost>>

WaitFindsWork(c) ==
    /\ cpc[c] = "wait" /\ WaitMutexFree
    /\ nEnqueued > 0
    /\ cpc' = [cpc EXCEPT ![c] = "waitSleepy"]
    /\ UNCHANGED <<input, log, held, spc, nEnqueued, bDone, adding, destroying, cur, lost>>

WaitFallsAsleep(c) ==
    /\ cpc[c] = "waitSleepy"
    /\ cpc' = [cpc EXCEPT ![c] = "waitAsleep"]
    /\ UNCHANGED <<input, log, held, spc, nEnqueued, bDone, adding, destroying, cur, lost>>

(* As WaitReturns, one package short.                                      *)
WaitReturnsEarly(c) ==
    /\ cpc[c] = "wait" /\ WaitMutexFree
    /\ nEnqueued <= 1
    /\ cpc' = [cpc EXCEPT ![c] = IF destroying THEN "setDone" ELSE "idle"]
    /\ UNCHANGED <<input, log, held, spc, nEnqueued, bDone, adding, destroying, cur, lost>>

WaitReturns(c) ==
    /\ cpc[c] = "wait" /\ WaitMutexFree
    /\ nEnqueued <= 0
    /\ cpc' = [cpc EXCEPT ![c] = IF destroying THEN "setDone" ELSE "idle"]
    /\ UNCHANGED <<input, log, held, spc, nEnqueued, bDone, adding, destroying, cur, lost>>

(* As Destroy, without its wait().                                         *)
DestroyAtOnce(c) ==
    /\ ~destroying
    /\ \A d \in Callers : cpc[d] = "idle"
    /\ destroying' = TRUE
    /\ cpc' = [cpc EXCEPT ![c] = "setDone"]
    /\ UNCHANGED <<input, log, held, spc, nEnqueued, bDone, adding, cur, lost>>

(* The program calls destroy() once, when nobody else uses the pipeline.   *)
Destroy(c) ==
    /\ ~destroying
    /\ \A d \in Callers : cpc[d] = "idle"
    /\ destroying' = TRUE
    /\ cpc' = [cpc EXCEPT ![c] = "wait"]
    /\ UNCHANGED <<input, log, held, spc, nEnqueued, bDone, adding, cur, lost>>

(* The store takes no mutex of any stage.                                  *)
SetDone(c) ==
    /\ cpc[c] = "setDone"
    /\ bDone' = TRUE
    /\ cpc' = [cpc EXCEPT ![c] = "kick"]
    /\ UNCHANGED <<input, log, held, spc, nEnqueued, adding, destroying, cur, lost>>

SignalStage(c) ==
    /\ cpc[c] = "kick"
    /\ WakeStage(cur)
    /\ cpc' = [cpc EXCEPT ![c] = "join"]
    /\ UNCHANGED <<input, log, held, nEnqueued, bDone, adding, destroying, cur, lost>>

(* join(), then the stage is freed with its queue, mutex and condition.    *)
JoinStage(c) ==
    /\ cpc[c] = "join"
    /\ spc[cur] = "exited"
    /\ cur' = cur + 1
    /\ cpc' = [cpc EXCEPT ![c] = IF cur = NStages THEN "destroyed" ELSE "kick"]
    /\ UNCHANGED <<input, log, held, spc, nEnqueued, bDone, adding, destroying, lost>>

-----------------------------------------------------------------------------
SpuriousWakeup ==
    /\ Spurious
    /\ \/ /\ \E s \in Stages : spc[s] = "asleep" /\ spc' = [spc EXCEPT ![s] = "take"]
          /\ UNCHANGED cpc
       \/ /\ \E c \in Callers : cpc[c] = "waitAsleep" /\ cpc' = [cpc EXCEPT ![c] = "wait"]
          /\ UNCHANGED spc
    /\ UNCHANGED <<input, log, held, nEnqueued, bDone, adding, destroying, cur, lost>>

StageStep(s) ==
    \/ TakeFindsNothing(s)
    \/ FallsAsleep(s)
    \/ TakeExits(s)
    \/ TakePackage(s)
    \/ RunStage(s)
    \/ HandOver(s)
    \/ HandOverThrows(s)
    \/ SignalNext(s)
    \/ LastSubtracts(s)
    \/ LastLoads(s)
    \/ LastSignals(s)

(* What a caller must do once it is inside a call.                         *)
CallerStep(c) ==
    \/ AddEnqueues(c)
    \/ AddThrows(c)
    \/ AddSignals(c)
    \/ WaitFindsWork(c)
    \/ WaitFallsAsleep(c)
    \/ WaitReturns(c)
    \/ SetDone(c)
    \/ SignalStage(c)
    \/ JoinStage(c)

CallerCall(c) ==
    \/ \E p \in Packages : AddCounts(c, p)
    \/ Wait(c)
    \/ Destroy(c)

Destroyed == \E c \in Callers : cpc[c] = "destroyed"

Terminated == Destroyed /\ UNCHANGED vars

Next ==
    \/ \E s \in Stages : StageStep(s)
    \/ \E c \in Callers : CallerStep(c) \/ CallerCall(c)
    \/ SpuriousWakeup
    \/ Terminated

Spec == Init /\ [][Next]_vars

(* Every runnable thread is eventually scheduled, and one that keeps asking *)
(* for a mutex gets it; a caller need not call.                            *)
FairSpec ==
    /\ Spec
    /\ \A s \in Stages : WF_vars(StageStep(s)) /\ SF_vars(HandOver(s) \/ HandOverThrows(s))
    /\ \A c \in Callers : WF_vars(CallerStep(c)) /\ SF_vars(AddEnqueues(c) \/ AddThrows(c))

-----------------------------------------------------------------------------
(* The packages of q that are not in L, in their order: SelectSeq, as a    *)
(* recursive function.                                                     *)
Kept(q, L) ==
    LET kept[i \in 0..Len(q)] ==
            IF i = 0 THEN <<>>
            ELSE IF q[i] \in L THEN kept[i - 1] ELSE Append(kept[i - 1], q[i])
    IN  kept[Len(q)]

(* A held package waiting to be handed over has been through the stage.    *)
Leaving(s) == IF spc[s] = "out" THEN <<held[s]>> ELSE <<>>

Entering(s) == IF spc[s] = "run" THEN <<held[s]>> ELSE <<>>

(* What a stage has done, in order, less what was dropped, is what the     *)
(* next stage has done, is doing and will do, in the same order: packages  *)
(* neither overtake one another nor are lost, duplicated or skipped        *)
(* between two stages.                                                     *)
StagesAreFifo ==
    \A s \in 1..(NStages - 1) :
        Kept(log[s], lost[s + 1])
          = log[s + 1] \o Entering(s + 1) \o input[s + 1] \o Leaving(s)

InFlight(p) ==
    \/ \E c \in Callers : adding[c] = p
    \/ \E s \in Stages : InSeq(p, input[s]) \/ held[s] = p

IsLost(p) == \E s \in Stages : p \in lost[s]

(* m_atomNEnqueued counts the packages on their way, those the last stage  *)
(* is about to subtract, and, for ever, those that were dropped.           *)
CountIsInFlight ==
    nEnqueued = Cardinality({p \in Packages : InFlight(p) \/ IsLost(p)})
                + (IF spc[NStages] = "sub" THEN 1 ELSE 0)

(* wait() returns only when every package given to add() before has been   *)
(* through the last stage.                                                 *)
WaitMeansProcessed ==
    [][\A c \in Callers : WaitReturns(c) =>
          \A p \in Packages : IsNew(p) \/ InSeq(p, log[NStages])]_vars

(* destroy() frees a stage only when nobody will use it again: its queue   *)
(* is empty, its own thread has left and so has the thread that feeds it.  *)
FreedIsUnused ==
    /\ TypeOK
    /\ \A s \in Stages : s < cur =>
          /\ input[s] = <<>>
          /\ spc[s] = "exited"
          /\ s > 1 => spc[s - 1] = "exited"
          /\ \A c \in Callers : cpc[c] \notin {"add", "signal"}

(* Every package that add() enqueues is eventually processed by the last   *)
(* stage, unless a queue on its way could not grow.                        *)
PackagesGetThrough ==
    \A p \in Packages : InSeq(p, input[1]) ~> InSeq(p, log[NStages]) \/ IsLost(p)

(* destroy() returns: its wait() ends when the counter is down, and every  *)
(* stage it joins has heard that it should stop.                           *)
DestroyTerminates == destroying ~> Destroyed
=============================================================================
