------------------------------- MODULE Logger -------------------------------
(***************************************************************************)
(* adt::Logger (include/adt/Logger.hh): threads construct Log objects,     *)
(* which add() their message to the ring and spin while it is full; one    *)
(* thread drains the ring to the file; destroy() stops that thread after   *)
(* it has drained the rest. The ring is the queue of messages LoggerRing   *)
(* implements.                                                             *)
(***************************************************************************)
EXTENDS Integers, Sequences

CONSTANTS
    Writers,     \* threads that log
    Main,        \* the writer that constructs and destroys the logger
    Messages,    \* the texts that are logged, each once
    Farewell,    \* the message destroy() logs
    HeaderSize,  \* sizeof(MsgHeader)
    Cap,         \* m_ring.m_cap
    FixedSize,   \* size of the fallback buffer of Log()
    Pooled,      \* is there a thread pool with an arena for Log()?
    Racing,      \* may others log while destroy() runs, and after it?
    StackByte,   \* what the memory of m_bDead may hold before it is set
    Spurious     \* may a condition variable wake up without a signal?

ASSUME WritersAssumption == Main \in Writers

ASSUME MessagesAssumption ==
    /\ Farewell \notin Messages
    /\ \A m \in Messages \cup {Farewell} : Len(m) \in Nat

(* A ring without room for a header has a negative cap().                  *)
ASSUME SizesAssumption ==
    /\ HeaderSize \in Nat /\ Cap \in Nat /\ FixedSize \in Nat
    /\ HeaderSize <= Cap

ASSUME StackByteAssumption == StackByte \in SUBSET BOOLEAN /\ StackByte # {}

VARIABLES
    ring,        \* m_ring, as a queue of entries
    dead,        \* m_bDead
    freed,       \* have the ring and the mutex been destroyed?
    logged,      \* messages given to Log() so far
    entry,       \* writer -> what it is adding
    wpc,         \* writer -> where it is in Log()
    dpc,         \* where the drain thread is in loop()
    hand,        \* what the drain thread has popped and not written
    mpc,         \* how far the logger's life has got
    accepted,    \* every entry add() took, in order
    output       \* every entry written to the file, in order

vars == <<ring, dead, freed, logged, entry, wpc, dpc, hand, mpc, accepted, output>>

life == <<dead, freed, mpc>>

Entry == [from : Writers, msg : Messages \cup {Farewell},
          size : (0 - HeaderSize)..(Cap + FixedSize)]

(* What may be in the ring: a message that fits in it.                     *)
RingEntry == {e \in Entry : e.size \in 0..(Cap - HeaderSize)}

TypeOK ==
    /\ ring \in Seq(RingEntry)
    /\ dead \in BOOLEAN
    /\ freed \in BOOLEAN
    /\ logged \subseteq Messages \cup {Farewell}
    /\ entry \in [Writers -> Seq(Entry)]
    /\ wpc \in [Writers -> {"idle", "add", "locked", "signal"}]
    /\ dpc \in {"take", "asleep", "write", "exited"}
    /\ hand \in Seq(RingEntry)
    /\ mpc \in {"ctor", "run", "dying", "join", "free", "done"}
    /\ accepted \in Seq(RingEntry)
    /\ output \in Seq(RingEntry)

(* The drain thread starts before m_bDead, the last member, is set.        *)
Init ==
    /\ ring = <<>>
    /\ dead \in StackByte
    /\ freed = FALSE
    /\ logged = {}
    /\ entry = [w \in Writers |-> <<>>]
    /\ wpc = [w \in Writers |-> "idle"]
    /\ dpc = "take"
    /\ hand = <<>>
    /\ mpc = "ctor"
    /\ accepted = <<>>
    /\ output = <<>>

-----------------------------------------------------------------------------
Smaller(a, b) == IF a <= b THEN a ELSE b

(* cap(), which reads m_cap without the mutex                              *)
CapNow == (IF freed THEN 0 ELSE Cap) - HeaderSize

(* The message cut to the ring, or what the fallback buffer holds of it.   *)
SizeLogged(m) ==
    IF Pooled THEN Smaller(CapNow, Len(m)) ELSE Smaller(FixedSize, Len(m))

(* What the entries of q take up in the ring, headers included.            *)
Bytes(q) ==
    LET upTo[i \in 0..Len(q)] ==
            IF i = 0 THEN 0 ELSE upTo[i - 1] + HeaderSize + q[i].size
    IN  upTo[Len(q)]

Fits(e) == Bytes(ring) + HeaderSize + e.size <= Cap

MutexFree == \A w \in Writers : wpc[w] # "locked"

WakeDrain == dpc' = IF dpc = "asleep" THEN "take" ELSE dpc

LogBegins(w, m) ==
    /\ wpc[w] = "idle"
    /\ m \notin logged
    /\ logged' = logged \cup {m}
    /\ entry' = [entry EXCEPT ![w] = <<[from |-> w, msg |-> m, size |-> SizeLogged(m)]>>]
    /\ wpc' = [wpc EXCEPT ![w] = "add"]
    /\ UNCHANGED <<ring, dead, freed, dpc, hand, accepted, output>>

(* A thread logs; the program decides who still may once destroy() began.  *)
Log(w, m) ==
    /\ mpc = "run" \/ (Racing /\ mpc \notin {"ctor", "run"} /\ w # Main)
    /\ LogBegins(w, m)
    /\ UNCHANGED mpc

-----------------------------------------------------------------------------
(* add(), and Log()'s loop around it                                       *)

AddLocks(w) ==
    /\ wpc[w] = "add" /\ MutexFree
    /\ wpc' = [wpc EXCEPT ![w] = "locked"]
    /\ UNCHANGED <<ring, logged, entry, dpc, hand, accepted, output, life>>

Leaves(w, label) ==
    /\ wpc[w] = "locked"
    /\ wpc' = [wpc EXCEPT ![w] = label]
    /\ entry' = IF label = "idle" THEN [entry EXCEPT ![w] = <<>>] ELSE entry
    /\ UNCHANGED <<logged, dpc, hand, output, life>>

AddRefused(w) == dead /\ Leaves(w, "idle") /\ UNCHANGED <<ring, accepted>>

AddFails(w) ==
    /\ wpc[w] = "locked" /\ ~dead /\ ~Fits(entry[w][1])
    /\ Leaves(w, "add")
    /\ UNCHANGED <<ring, accepted>>

AddPushes(w) ==
    /\ wpc[w] = "locked" /\ ~dead /\ Fits(entry[w][1])
    /\ ring' = ring \o entry[w]
    /\ accepted' = accepted \o entry[w]
    /\ Leaves(w, "signal")

(* As AddSignals, the signal forgotten.                                    *)
AddSignalsNobody(w) ==
    /\ wpc[w] = "signal"
    /\ wpc' = [wpc EXCEPT ![w] = "idle"]
    /\ entry' = [entry EXCEPT ![w] = <<>>]
    /\ UNCHANGED <<ring, logged, dpc, hand, accepted, output, life>>

AddSignals(w) ==
    /\ wpc[w] = "signal"
    /\ WakeDrain
    /\ wpc' = [wpc EXCEPT ![w] = "idle"]
    /\ entry' = [entry EXCEPT ![w] = <<>>]
    /\ UNCHANGED <<ring, logged, hand, accepted, output, life>>

-----------------------------------------------------------------------------
(* loop(), the drain thread                                                *)

DrainSleeps ==
    /\ dpc = "take" /\ MutexFree
    /\ ~dead /\ ring = <<>>
    /\ dpc' = "asleep"
    /\ UNCHANGED <<ring, logged, entry, wpc, hand, accepted, output, life>>

(* As DrainExits, whatever is left in the ring.                            *)
DrainExitsAtOnce ==
    /\ dpc = "take" /\ MutexFree
    /\ dead
    /\ dpc' = "exited"
    /\ UNCHANGED <<ring, logged, entry, wpc, hand, accepted, output, life>>

DrainExits ==
    /\ dpc = "take" /\ MutexFree
    /\ dead /\ ring = <<>>
    /\ dpc' = "exited"
    /\ UNCHANGED <<ring, logged, entry, wpc, hand, accepted, output, life>>

(* pop(), and the copy to m_pDrainBuff                                     *)
DrainTakes ==
    /\ dpc = "take" /\ MutexFree
    /\ ring # <<>>
    /\ hand' = <<Head(ring)>>
    /\ ring' = Tail(ring)
    /\ dpc' = "write"
    /\ UNCHANGED <<logged, entry, wpc, accepted, output, life>>

DrainWrites ==
    /\ dpc = "write"
    /\ output' = output \o hand
    /\ hand' = <<>>
    /\ dpc' = "take"
    /\ UNCHANGED <<ring, logged, entry, wpc, accepted, life>>

DrainWakesSpuriously ==
    /\ Spurious
    /\ dpc = "asleep"
    /\ dpc' = "take"
    /\ UNCHANGED <<ring, logged, entry, wpc, hand, accepted, output, life>>

-----------------------------------------------------------------------------
(* The constructor's end and destroy()                                     *)

CtorSetsDead ==
    /\ mpc = "ctor"
    /\ dead' = FALSE
    /\ mpc' = "run"
    /\ UNCHANGED <<ring, freed, logged, entry, wpc, dpc, hand, accepted, output>>

(* destroy() logs a last message, unless the logger's level hides it.      *)
DestroyLogs ==
    /\ mpc = "run"
    /\ Racing \/ \A w \in Writers : wpc[w] = "idle"
    /\ LogBegins(Main, Farewell)
    /\ mpc' = "dying"

DestroyIsSilent ==
    /\ mpc = "run"
    /\ wpc[Main] = "idle"
    /\ Racing \/ \A w \in Writers : wpc[w] = "idle"
    /\ mpc' = "dying"
    /\ UNCHANGED <<ring, dead, freed, logged, entry, wpc, dpc, hand, accepted, output>>

(* As SetDead, the signal forgotten.                                       *)
SetDeadSilently ==
    /\ mpc = "dying" /\ wpc[Main] = "idle" /\ MutexFree
    /\ dead' = TRUE
    /\ mpc' = "join"
    /\ UNCHANGED <<ring, freed, logged, entry, wpc, dpc, hand, accepted, output>>

SetDead ==
    /\ mpc = "dying" /\ wpc[Main] = "idle" /\ MutexFree
    /\ dead' = TRUE
    /\ WakeDrain
    /\ mpc' = "join"
    /\ UNCHANGED <<ring, freed, logged, entry, wpc, hand, accepted, output>>

JoinDrain ==
    /\ mpc = "join"
    /\ dpc = "exited"
    /\ mpc' = "free"
    /\ UNCHANGED <<ring, dead, freed, logged, entry, wpc, dpc, hand, accepted, output>>

(* Mutex::destroy() leaves a mutex that can be locked, m_bDead stays set.  *)
Free ==
    /\ mpc = "free"
    /\ freed' = TRUE
    /\ mpc' = "done"
    /\ UNCHANGED <<ring, dead, logged, entry, wpc, dpc, hand, accepted, output>>

-----------------------------------------------------------------------------
WriterStep(w) ==
    \/ AddLocks(w)
    \/ AddRefused(w)
    \/ AddFails(w)
    \/ AddPushes(w)
    \/ AddSignals(w)

DrainStep ==
    \/ DrainSleeps
    \/ DrainExits
    \/ DrainTakes
    \/ DrainWrites

MainStep ==
    \/ CtorSetsDead
    \/ SetDead
    \/ JoinDrain
    \/ Free

MainCall == DestroyLogs \/ DestroyIsSilent

Terminated ==
    /\ mpc = "done"
    /\ \A w \in Writers : wpc[w] = "idle"
    /\ UNCHANGED vars

Next ==
    \/ \E w \in Writers : WriterStep(w)
    \/ \E w \in Writers, m \in Messages : Log(w, m)
    \/ DrainStep
    \/ DrainWakesSpuriously
    \/ MainStep
    \/ MainCall
    \/ Terminated

Spec == Init /\ [][Next]_vars

(* Runnable threads run, and a thread that keeps asking for the mutex gets *)
(* it; nobody has to log, or to destroy the logger.                        *)
FairSpec ==
    /\ Spec
    /\ \A w \in Writers : WF_vars(WriterStep(w)) /\ SF_vars(AddLocks(w))
    /\ WF_vars(DrainStep) /\ SF_vars(DrainTakes) /\ SF_vars(DrainExits)
    /\ WF_vars(MainStep) /\ SF_vars(SetDead)

-----------------------------------------------------------------------------
(* What add() took is written once and in the order it was taken; the rest *)
(* is still in the ring or in the drain thread's hands, and nothing is     *)
(* left there when destroy() has joined the drain thread.                  *)
OutputIsAccepted ==
    /\ TypeOK
    /\ accepted = output \o hand \o ring
    /\ mpc \in {"free", "done"} => accepted = output

(* A Log() call returns: the spinning ends.                                *)
LogReturns == \A w \in Writers : wpc[w] # "idle" ~> wpc[w] = "idle"

(* What add() took reaches the file.                                       *)
AcceptedIsWritten ==
    \A m \in Messages :
        (\E k \in 1..Len(accepted) : accepted[k].msg = m)
            ~> (\E k \in 1..Len(output) : output[k].msg = m)

(* destroy() returns.                                                      *)
DestroyReturns == mpc \notin {"ctor", "run"} ~> mpc = "done"

(* Every call on the logger returns: Log() however full the ring was, and  *)
(* destroy() though a drain thread may sleep or other threads still log.   *)
EveryCallReturns == LogReturns /\ DestroyReturns
=============================================================================
