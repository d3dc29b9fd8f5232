---------------------------- MODULE LoggerProofs ----------------------------
(***************************************************************************)
(* Safety of the logger for any number of writers and messages and any     *)
(* sizes of the ring, the messages and the header.                         *)
(***************************************************************************)
EXTENDS Logger, ProofLemmas

-----------------------------------------------------------------------------
(* The bytes in the ring.                                                  *)

(* What Bytes unfolds to, for the first n entries of q.                    *)
IsUpTo(f, q, n) ==
    f = [i \in 0..n |-> IF i = 0 THEN 0 ELSE f[i - 1] + HeaderSize + q[i].size]

LEMMA UpToExists ==
    ASSUME NEW q
    PROVE  \A n \in Nat : \E f : IsUpTo(f, q, n)
<1> DEFINE T == {n \in Nat : \E f : IsUpTo(f, q, n)}
<1>1. 0 \in T
  <2>1. IsUpTo([i \in 0..0 |-> 0], q, 0)
    BY DEF IsUpTo
  <2> QED
    BY <2>1
<1>2. ASSUME NEW n \in Nat, n \in T
      PROVE  n + 1 \in T
  <2>1. PICK f : IsUpTo(f, q, n)
    BY <1>2
  <2> DEFINE g == [i \in 0..(n + 1) |-> IF i <= n THEN f[i] ELSE f[i - 1] + HeaderSize + q[i].size]
  <2>2. \A i \in 0..n : f[i] = IF i = 0 THEN 0 ELSE f[i - 1] + HeaderSize + q[i].size
    BY <2>1 DEF IsUpTo
  <2>3. \A i \in 0..(n + 1) : g[i] = IF i = 0 THEN 0 ELSE g[i - 1] + HeaderSize + q[i].size
    BY <2>2
  <2>4. IsUpTo(g, q, n + 1)
    BY <2>3 DEF IsUpTo
  <2> QED
    BY <2>4
<1> HIDE DEF T
<1>3. Nat \subseteq T
  BY <1>1, <1>2, NatSetInduction
<1> QED
  BY <1>3 DEF T

(* The entries of the ring take up no less than nothing.                   *)
LEMMA BytesAreNatural ==
    ASSUME NEW q \in Seq(RingEntry)
    PROVE  Bytes(q) \in Nat
<1> DEFINE n == Len(q)
           f == CHOOSE f : IsUpTo(f, q, n)
<1>1. n \in Nat /\ \A i \in 1..n : q[i].size \in Nat
  BY SizesAssumption DEF RingEntry
<1>2. IsUpTo(f, q, n)
  BY <1>1, UpToExists
<1>3. Bytes(q) = f[n]
  BY DEF Bytes, IsUpTo
<1> HIDE DEF n, f
<1>4. \A i \in 0..n : f[i] = IF i = 0 THEN 0 ELSE f[i - 1] + HeaderSize + q[i].size
  BY <1>2 DEF IsUpTo
<1> DEFINE T == {i \in Nat : i <= n => f[i] \in Nat}
<1>5. 0 \in T
  BY <1>1, <1>4
<1>6. ASSUME NEW i \in Nat, i \in T
      PROVE  i + 1 \in T
  <2>1. CASE i + 1 <= n
    <3>1. f[i] \in Nat /\ q[i + 1].size \in Nat
      BY <1>1, <1>6, <2>1
    <3>2. f[i + 1] = f[i] + HeaderSize + q[i + 1].size
      BY <1>1, <1>4, <2>1
    <3> QED
      BY <3>1, <3>2, SizesAssumption
  <2>2. CASE ~(i + 1 <= n)
    BY <2>2
  <2> QED
    BY <2>1, <2>2
<1> HIDE DEF T
<1>7. Nat \subseteq T
  BY <1>5, <1>6, NatSetInduction
<1>8. f[n] \in Nat
  BY <1>1, <1>7 DEF T
<1> QED
  BY <1>3, <1>8

(* What add() takes has the size of a ring's entry.                        *)
LEMMA FitsInRing ==
    ASSUME ring \in Seq(RingEntry), NEW e \in Entry, 0 <= e.size, Fits(e)
    PROVE  e \in RingEntry
<1>1. Bytes(ring) \in Nat
  BY BytesAreNatural
<1>2. e.size \in Int
  BY SizesAssumption DEF Entry
<1> QED
  BY <1>1, <1>2, SizesAssumption DEF Fits, RingEntry

-----------------------------------------------------------------------------
(* The inductive invariant.                                                *)

(* A writer inside Log() carries one message, whose size was taken from a  *)
(* ring that was still there, or else finds the logger dead.               *)
WritersCarryOne ==
    \A w \in Writers : wpc[w] # "idle" =>
        \E e \in Entry : entry[w] = <<e>> /\ (0 <= e.size \/ freed)

HandIsFullToWrite == hand = <<>> \/ dpc = "write"

DeadAtTheEnd ==
    /\ freed => mpc = "done"
    /\ mpc \in {"join", "free", "done"} => dead

NothingLost == accepted = output \o hand \o ring

IInv ==
    /\ TypeOK
    /\ WritersCarryOne
    /\ HandIsFullToWrite
    /\ DeadAtTheEnd
    /\ NothingLost

(* What holds besides when m_bDead starts out false.                       *)
ExitInv ==
    /\ dead => mpc \in {"join", "free", "done"}
    /\ dpc = "exited" => dead /\ ring = <<>>
    /\ mpc \in {"free", "done"} => dpc = "exited"

LEMMA SizeIsInt ==
    ASSUME NEW m \in Messages \cup {Farewell}, freed \in BOOLEAN
    PROVE  /\ SizeLogged(m) \in (0 - HeaderSize)..(Cap + FixedSize)
           /\ 0 <= SizeLogged(m) \/ freed
<1>1. Len(m) \in Nat
  BY MessagesAssumption
<1> QED
  BY <1>1, SizesAssumption DEF SizeLogged, CapNow, Smaller

(* Log() and destroy() begin to log.                                       *)
LEMMA LogBeginsKeeps ==
    ASSUME IInv, NEW w \in Writers, NEW m \in Messages \cup {Farewell}, LogBegins(w, m),
           mpc' = mpc \/ (mpc = "run" /\ mpc' = "dying")
    PROVE  IInv'
<1> DEFINE e == [from |-> w, msg |-> m, size |-> SizeLogged(m)]
<1>1. e \in Entry /\ (0 <= e.size \/ freed)
  BY SizeIsInt DEF IInv, TypeOK, Entry
<1> HIDE DEF e
<1>2. /\ entry' = [entry EXCEPT ![w] = <<e>>] /\ wpc' = [wpc EXCEPT ![w] = "add"]
      /\ logged' = logged \cup {m}
      /\ UNCHANGED <<ring, dead, freed, dpc, hand, accepted, output>>
  BY DEF LogBegins, e
<1>3. <<e>> \in Seq(Entry)
  BY <1>1
<1>4. TypeOK'
  BY <1>2, <1>3 DEF IInv, TypeOK
<1>5. WritersCarryOne'
  BY <1>1, <1>2 DEF IInv, TypeOK, WritersCarryOne
<1> QED
  BY <1>2, <1>4, <1>5 DEF IInv, HandIsFullToWrite, DeadAtTheEnd, NothingLost

(* A step that only moves program counters, and empties the hands of a     *)
(* writer that returns.                                                    *)
LEMMA PlacesKeep ==
    ASSUME IInv, TypeOK', DeadAtTheEnd',
           UNCHANGED <<ring, hand, accepted, output>>,
           \A w \in Writers : wpc'[w] = "idle" \/ (wpc[w] # "idle" /\ entry'[w] = entry[w]),
           freed => freed',
           dpc = "write" => dpc' = "write"
    PROVE  IInv'
<1>1. WritersCarryOne'
  BY DEF IInv, WritersCarryOne
<1> QED
  BY <1>1 DEF IInv, HandIsFullToWrite, NothingLost

LEMMA AddPushesKeeps ==
    ASSUME IInv, NEW w \in Writers, AddPushes(w)
    PROVE  IInv'
<1>1. PICK e \in Entry : entry[w] = <<e>> /\ (0 <= e.size \/ freed)
  BY DEF IInv, WritersCarryOne, AddPushes
<1>2. ~freed
  BY DEF IInv, DeadAtTheEnd, AddPushes, TypeOK
<1>3. ring \in Seq(RingEntry) /\ output \in Seq(RingEntry) /\ hand \in Seq(RingEntry)
      /\ accepted \in Seq(RingEntry) /\ accepted = (output \o hand) \o ring
  BY DEF IInv, TypeOK, NothingLost
<1>4. e \in RingEntry
  <2>1. Fits(e)
    BY <1>1 DEF AddPushes
  <2> QED
    BY <1>1, <1>2, <1>3, <2>1, FitsInRing
<1>5. /\ ring' = ring \o <<e>> /\ accepted' = accepted \o <<e>>
      /\ wpc' = [wpc EXCEPT ![w] = "signal"] /\ entry' = entry
      /\ UNCHANGED <<dead, freed, logged, dpc, hand, mpc, output>>
  BY <1>1 DEF AddPushes, Leaves, life
<1>6. <<e>> \in Seq(RingEntry)
  BY <1>4
<1> DEFINE x == <<e>>
<1>7. x \in Seq(RingEntry) /\ ring' = ring \o x /\ accepted' = accepted \o x
  BY <1>5, <1>6
<1> HIDE DEF x
<1>8. ring' \in Seq(RingEntry) /\ accepted' \in Seq(RingEntry)
  BY <1>3, <1>7, ConcatProperties
<1>9. NothingLost'
  <2> DEFINE oh == output \o hand
  <2>1. oh \in Seq(RingEntry)
    BY <1>3, ConcatProperties
  <2>2. accepted = oh \o ring
    BY <1>3
  <2> HIDE DEF oh
  <2>3. accepted' = oh \o (ring \o x)
    BY <1>3, <1>7, <2>1, <2>2, ConcatAssociative
  <2> QED
    BY <1>5, <1>7, <2>3 DEF NothingLost, oh
<1>10. TypeOK'
  BY <1>5, <1>8 DEF IInv, TypeOK
<1>11. WritersCarryOne'
  BY <1>5 DEF IInv, TypeOK, WritersCarryOne, AddPushes
<1> QED
  BY <1>5, <1>9, <1>10, <1>11 DEF IInv, HandIsFullToWrite, DeadAtTheEnd

(* pop() takes the oldest entry, and the drain thread then holds nothing   *)
(* else.                                                                   *)
LEMMA DrainTakesKeeps ==
    ASSUME IInv, DrainTakes
    PROVE  IInv'
<1>1. /\ ring \in Seq(RingEntry) /\ output \in Seq(RingEntry) /\ ring # <<>>
      /\ hand = <<>> /\ accepted = (output \o hand) \o ring
  BY DEF IInv, TypeOK, NothingLost, HandIsFullToWrite, DrainTakes
<1>2. /\ hand' = <<Head(ring)>> /\ ring' = Tail(ring) /\ dpc' = "write"
      /\ UNCHANGED <<logged, entry, wpc, accepted, output, dead, freed, mpc>>
  BY DEF DrainTakes, life
<1>3. (output \o <<>>) \o ring = (output \o <<Head(ring)>>) \o Tail(ring)
  BY <1>1, HeadJoins
<1>4. hand' \in Seq(RingEntry) /\ ring' \in Seq(RingEntry)
  BY <1>1, <1>2
<1>5. TypeOK'
  BY <1>2, <1>4 DEF IInv, TypeOK
<1>6. NothingLost'
  BY <1>1, <1>2, <1>3 DEF NothingLost
<1> QED
  BY <1>2, <1>5, <1>6 DEF IInv, WritersCarryOne, HandIsFullToWrite, DeadAtTheEnd

LEMMA DrainWritesKeeps ==
    ASSUME IInv, DrainWrites
    PROVE  IInv'
<1>1. /\ ring \in Seq(RingEntry) /\ output \in Seq(RingEntry) /\ hand \in Seq(RingEntry)
      /\ accepted = (output \o hand) \o ring
  BY DEF IInv, TypeOK, NothingLost
<1>2. /\ output' = output \o hand /\ hand' = <<>> /\ dpc' = "take"
      /\ UNCHANGED <<ring, logged, entry, wpc, accepted, dead, freed, mpc>>
  BY DEF DrainWrites, life
<1>3. output' \in Seq(RingEntry)
  BY <1>1, <1>2, ConcatProperties
<1>4. TypeOK'
  BY <1>2, <1>3 DEF IInv, TypeOK
<1>5. output' \o <<>> = output'
  BY <1>3, ConcatEmptySeq
<1>6. NothingLost'
  BY <1>1, <1>2, <1>5 DEF NothingLost
<1> QED
  BY <1>2, <1>4, <1>6 DEF IInv, WritersCarryOne, HandIsFullToWrite, DeadAtTheEnd

LEMMA InitEstablishes == Init => IInv
<1> SUFFICES ASSUME Init PROVE IInv
  OBVIOUS
<1>1. TypeOK
  <2>1. <<>> \in Seq(RingEntry) /\ <<>> \in Seq(Entry)
    BY EmptySeq
  <2>2. ring \in Seq(RingEntry) /\ hand \in Seq(RingEntry)
        /\ accepted \in Seq(RingEntry) /\ output \in Seq(RingEntry)
    BY <2>1 DEF Init
  <2>3. entry \in [Writers -> Seq(Entry)]
    BY <2>1 DEF Init
  <2>4. dead \in BOOLEAN
    BY StackByteAssumption DEF Init
  <2> QED
    BY <2>2, <2>3, <2>4 DEF Init, TypeOK
<1>2. WritersCarryOne /\ HandIsFullToWrite /\ DeadAtTheEnd
  BY DEF Init, WritersCarryOne, HandIsFullToWrite, DeadAtTheEnd
<1>3. NothingLost
  BY ConcatEmptySeq, EmptySeq DEF Init, NothingLost
<1> QED
  BY <1>1, <1>2, <1>3 DEF IInv

LEMMA StepPreserves == IInv /\ [Next]_vars => IInv'
<1> SUFFICES ASSUME IInv, [Next]_vars PROVE IInv'
  OBVIOUS
<1> USE DEF IInv
<1>1. ASSUME NEW w \in Writers, WriterStep(w)
      PROVE  IInv'
  <2>1. CASE AddLocks(w)
    BY <2>1, PlacesKeep DEF AddLocks, TypeOK, DeadAtTheEnd, life
  <2>2. CASE AddRefused(w)
    <3>1. <<>> \in Seq(Entry)
      BY EmptySeq
    <3> QED
      BY <2>2, <3>1, PlacesKeep DEF AddRefused, Leaves, TypeOK, DeadAtTheEnd, life
  <2>3. CASE AddFails(w)
    BY <2>3, PlacesKeep DEF AddFails, Leaves, TypeOK, DeadAtTheEnd, life
  <2>4. CASE AddPushes(w)
    BY <2>4, AddPushesKeeps
  <2>5. CASE AddSignals(w)
    <3>1. <<>> \in Seq(Entry)
      BY EmptySeq
    <3> QED
      BY <2>5, <3>1, PlacesKeep DEF AddSignals, WakeDrain, TypeOK, DeadAtTheEnd, life
  <2> QED
    BY <1>1, <2>1, <2>2, <2>3, <2>4, <2>5 DEF WriterStep
<1>2. ASSUME NEW w \in Writers, NEW m \in Messages, Log(w, m)
      PROVE  IInv'
  BY <1>2, LogBeginsKeeps DEF Log
<1>3. CASE DrainSleeps \/ DrainExits \/ DrainWakesSpuriously
  BY <1>3, PlacesKeep
     DEF DrainSleeps, DrainExits, DrainWakesSpuriously, TypeOK, DeadAtTheEnd, life
<1>4. CASE DrainTakes \/ DrainWrites
  BY <1>4, DrainTakesKeeps, DrainWritesKeeps
<1>5. CASE CtorSetsDead \/ SetDead \/ JoinDrain \/ Free \/ DestroyIsSilent
  <2>1. /\ UNCHANGED <<ring, logged, entry, wpc, hand, accepted, output>>
        /\ dpc' = dpc \/ (dpc = "asleep" /\ dpc' = "take")
        /\ freed => freed'
    BY <1>5 DEF CtorSetsDead, SetDead, JoinDrain, Free, DestroyIsSilent, WakeDrain
  <2>2. dead' \in BOOLEAN /\ freed' \in BOOLEAN /\ mpc' \in {"run", "dying", "join", "free", "done"}
    BY <1>5 DEF CtorSetsDead, SetDead, JoinDrain, Free, DestroyIsSilent, TypeOK
  <2>3. DeadAtTheEnd'
    BY <1>5 DEF CtorSetsDead, SetDead, JoinDrain, Free, DestroyIsSilent, DeadAtTheEnd
  <2>4. TypeOK'
    BY <2>1, <2>2 DEF TypeOK
  <2>5. WritersCarryOne' /\ HandIsFullToWrite' /\ NothingLost'
    BY <2>1 DEF WritersCarryOne, HandIsFullToWrite, NothingLost
  <2> QED
    BY <2>3, <2>4, <2>5
<1>6. CASE DestroyLogs
  BY <1>6, WritersAssumption, LogBeginsKeeps DEF DestroyLogs
<1>7. CASE UNCHANGED vars
  BY <1>7 DEF vars, TypeOK, WritersCarryOne, HandIsFullToWrite, DeadAtTheEnd, NothingLost
<1> QED
  BY <1>1, <1>2, <1>3, <1>4, <1>5, <1>6, <1>7
     DEF Next, DrainStep, MainStep, MainCall, Terminated

LEMMA ExitStep == IInv /\ ExitInv /\ [Next]_vars => ExitInv'
<1> SUFFICES ASSUME IInv, ExitInv, [Next]_vars PROVE ExitInv'
  OBVIOUS
<1> USE DEF IInv
<1>1. ASSUME NEW w \in Writers, WriterStep(w)
      PROVE  ExitInv'
  BY <1>1 DEF WriterStep, AddLocks, AddRefused, AddFails, AddPushes, AddSignals, Leaves,
              WakeDrain, ExitInv, life
<1>2. ASSUME NEW w \in Writers, NEW m \in Messages, Log(w, m)
      PROVE  ExitInv'
  BY <1>2 DEF Log, LogBegins, ExitInv
<1>3. CASE DrainStep \/ DrainWakesSpuriously
  BY <1>3 DEF DrainStep, DrainSleeps, DrainExits, DrainTakes, DrainWrites,
              DrainWakesSpuriously, ExitInv, life
<1>4. CASE MainStep \/ MainCall
  BY <1>4 DEF MainStep, MainCall, CtorSetsDead, SetDead, JoinDrain, Free, DestroyLogs,
              LogBegins, DestroyIsSilent, WakeDrain, ExitInv, DeadAtTheEnd
<1>5. CASE UNCHANGED vars
  BY <1>5 DEF vars, ExitInv
<1> QED
  BY <1>1, <1>2, <1>3, <1>4, <1>5 DEF Next, Terminated

LEMMA Invariance == Spec => []IInv
  BY InitEstablishes, StepPreserves, PTL DEF Spec

(* Whatever the memory of m_bDead held: what add() took is in the file, in *)
(* the drain thread's hands or in the ring, once and in its order.         *)
THEOREM NothingIsLost == Spec => [](TypeOK /\ accepted = output \o hand \o ring)
<1>1. IInv => TypeOK /\ accepted = output \o hand \o ring
  BY DEF IInv, NothingLost
<1> QED
  BY <1>1, Invariance, PTL

(* When the memory of m_bDead held zero before the constructor set it,     *)
(* nothing that add() took is left behind by destroy() either.             *)
THEOREM DestroyWritesAll == StackByte = {FALSE} => (Spec => []OutputIsAccepted)
<1> SUFFICES ASSUME StackByte = {FALSE} PROVE Spec => []OutputIsAccepted
  OBVIOUS
<1>1. Init => ExitInv
  BY DEF Init, ExitInv
<1>2. IInv /\ ExitInv => OutputIsAccepted
  <2> SUFFICES ASSUME IInv, ExitInv PROVE OutputIsAccepted
    OBVIOUS
  <2>1. CASE mpc \in {"free", "done"}
    <3>1. hand = <<>> /\ ring = <<>> /\ output \in Seq(RingEntry)
      BY <2>1 DEF IInv, ExitInv, HandIsFullToWrite, TypeOK
    <3>2. (output \o <<>>) \o <<>> = output
      BY <3>1, ConcatEmptySeq
    <3> QED
      BY <3>1, <3>2 DEF OutputIsAccepted, IInv, NothingLost
  <2> QED
    BY <2>1 DEF OutputIsAccepted, IInv, NothingLost
<1> QED
  BY <1>1, <1>2, Invariance, ExitStep, PTL DEF Spec
=============================================================================
