--------------------------- MODULE PipelineProofs ---------------------------
(***************************************************************************)
(* Safety of the pipeline for any number of stages, packages and callers.  *)
(***************************************************************************)
EXTENDS Pipeline, ProofLemmas, FiniteSetTheorems

(* What Kept unfolds to, for the first n elements of q.                    *)
IsKept(f, q, L, n) ==
    f = [i \in 0..n |-> IF i = 0 THEN <<>>
                        ELSE IF q[i] \in L THEN f[i - 1] ELSE Append(f[i - 1], q[i])]

LEMMA KeptExists ==
    ASSUME NEW q, NEW L
    PROVE  \A n \in Nat : \E f : IsKept(f, q, L, n)
<1> DEFINE T == {n \in Nat : \E f : IsKept(f, q, L, n)}
<1>1. 0 \in T
  <2>1. IsKept([i \in 0..0 |-> <<>>], q, L, 0)
    BY DEF IsKept
  <2> QED
    BY <2>1
<1>2. ASSUME NEW n \in Nat, n \in T
      PROVE  n + 1 \in T
  <2>1. PICK f : IsKept(f, q, L, n)
    BY <1>2
  <2> DEFINE g == [i \in 0..(n + 1) |->
                     IF i <= n THEN f[i]
                     ELSE IF q[i] \in L THEN f[i - 1] ELSE Append(f[i - 1], q[i])]
  <2>2. \A i \in 0..n : f[i] = IF i = 0 THEN <<>>
                               ELSE IF q[i] \in L THEN f[i - 1] ELSE Append(f[i - 1], q[i])
    BY <2>1 DEF IsKept
  <2>3. \A i \in 0..(n + 1) : g[i] = IF i = 0 THEN <<>>
                               ELSE IF q[i] \in L THEN g[i - 1] ELSE Append(g[i - 1], q[i])
    BY <2>2
  <2>4. IsKept(g, q, L, n + 1)
    BY <2>3 DEF IsKept
  <2> QED
    BY <2>4
<1> HIDE DEF T
<1>3. Nat \subseteq T
  BY <1>1, <1>2, NatSetInduction
<1> QED
  BY <1>3 DEF T

(* Kept is the last value of its recursive function.                       *)
LEMMA KeptIs ==
    ASSUME NEW S, NEW q \in Seq(S), NEW L
    PROVE  \E f : IsKept(f, q, L, Len(q)) /\ Kept(q, L) = f[Len(q)]
<1> DEFINE f == CHOOSE f : IsKept(f, q, L, Len(q))
<1>1. IsKept(f, q, L, Len(q))
  BY KeptExists
<1>2. Kept(q, L) = f[Len(q)]
  BY DEF Kept, IsKept
<1> QED
  BY <1>1, <1>2

-----------------------------------------------------------------------------
(* Sequences without repetition.                                           *)
Distinct(q) == \A i, j \in 1..Len(q) : q[i] = q[j] => i = j

LEMMA AppendFacts ==
    ASSUME NEW S, NEW q \in Seq(S), NEW e \in S
    PROVE  /\ Append(q, e) \in Seq(S)
           /\ \A p : InSeq(p, Append(q, e)) <=> InSeq(p, q) \/ p = e
           /\ Distinct(Append(q, e)) <=> Distinct(q) /\ ~InSeq(e, q)
<1>1. /\ Append(q, e) \in Seq(S) /\ Len(q) \in Nat
      /\ Len(Append(q, e)) = Len(q) + 1
      /\ \A i \in 1..Len(q) : Append(q, e)[i] = q[i]
      /\ Append(q, e)[Len(q) + 1] = e
  BY AppendProperties, LenProperties
<1> HIDE DEF Distinct
<1>2. \A p : InSeq(p, Append(q, e)) <=> InSeq(p, q) \/ p = e
  BY <1>1 DEF InSeq
<1>3. Distinct(Append(q, e)) <=> Distinct(q) /\ ~InSeq(e, q)
  <2>1. ASSUME Distinct(Append(q, e))
        PROVE  Distinct(q) /\ ~InSeq(e, q)
    BY <1>1, <2>1 DEF Distinct, InSeq
  <2>2. ASSUME Distinct(q), ~InSeq(e, q),
               NEW i \in 1..(Len(q) + 1), NEW j \in 1..(Len(q) + 1),
               Append(q, e)[i] = Append(q, e)[j]
        PROVE  i = j
    BY <1>1, <2>2 DEF Distinct, InSeq
  <2> QED
    BY <1>1, <2>1, <2>2 DEF Distinct
<1> QED
  BY <1>1, <1>2, <1>3

LEMMA ConcatFacts ==
    ASSUME NEW S, NEW q \in Seq(S), NEW r \in Seq(S)
    PROVE  /\ q \o r \in Seq(S)
           /\ \A p : InSeq(p, q \o r) <=> InSeq(p, q) \/ InSeq(p, r)
           /\ Distinct(q \o r) =>
                 /\ Distinct(q) /\ Distinct(r)
                 /\ \A p : ~(InSeq(p, q) /\ InSeq(p, r))
<1>1. /\ q \o r \in Seq(S)
      /\ Len(q \o r) = Len(q) + Len(r) /\ Len(q) \in Nat /\ Len(r) \in Nat
      /\ \A i \in 1..(Len(q) + Len(r)) :
            (q \o r)[i] = IF i <= Len(q) THEN q[i] ELSE r[i - Len(q)]
  BY ConcatProperties, LenProperties
<1>2. /\ \A i \in 1..Len(q) : i \in 1..Len(q \o r) /\ (q \o r)[i] = q[i]
      /\ \A i \in 1..Len(r) : /\ Len(q) + i \in 1..Len(q \o r)
                              /\ (q \o r)[Len(q) + i] = r[i]
  BY <1>1
<1>3. ASSUME NEW p, InSeq(p, q \o r)
      PROVE  InSeq(p, q) \/ InSeq(p, r)
  <2>1. PICK i \in 1..(Len(q) + Len(r)) : (q \o r)[i] = p
    BY <1>1, <1>3 DEF InSeq
  <2>2. CASE i <= Len(q)
    BY <1>1, <2>1, <2>2 DEF InSeq
  <2>3. CASE i > Len(q)
    <3>1. i - Len(q) \in 1..Len(r) /\ r[i - Len(q)] = p
      BY <1>1, <2>1, <2>3
    <3> QED
      BY <3>1 DEF InSeq
  <2> QED
    BY <1>1, <2>1, <2>2, <2>3
<1>4. ASSUME NEW p, InSeq(p, q) \/ InSeq(p, r)
      PROVE  InSeq(p, q \o r)
  BY <1>2, <1>4 DEF InSeq
<1>5. ASSUME Distinct(q \o r)
      PROVE  /\ Distinct(q) /\ Distinct(r)
             /\ \A p : ~(InSeq(p, q) /\ InSeq(p, r))
  <2>1. Distinct(q)
    BY <1>2, <1>5 DEF Distinct
  <2>2. ASSUME NEW i \in 1..Len(r), NEW j \in 1..Len(r), r[i] = r[j]
        PROVE  i = j
    <3>1. Len(q) + i = Len(q) + j
      BY <1>2, <1>5, <2>2 DEF Distinct
    <3> QED
      BY <1>1, <3>1
  <2>3. ASSUME NEW i \in 1..Len(q), NEW j \in 1..Len(r), q[i] = r[j]
        PROVE  FALSE
    <3>1. i = Len(q) + j
      BY <1>2, <1>5, <2>3 DEF Distinct
    <3> QED
      BY <1>1, <3>1
  <2> QED
    BY <2>1, <2>2, <2>3 DEF Distinct, InSeq
<1> QED
  BY <1>1, <1>3, <1>4, <1>5

-----------------------------------------------------------------------------
(* What the recursive function of Kept has at i.                           *)
KeptUpTo(v, q, L, S, i) ==
    /\ v \in Seq(S)
    /\ \A p : InSeq(p, v) <=> p \notin L /\ \E j \in 1..i : q[j] = p
    /\ Distinct(q) => Distinct(v)

LEMMA KeptPrefix ==
    ASSUME NEW S, NEW q \in Seq(S), NEW L, NEW f, IsKept(f, q, L, Len(q))
    PROVE  \A i \in 0..Len(q) : KeptUpTo(f[i], q, L, S, i)
<1> DEFINE T == {i \in Nat : i <= Len(q) => KeptUpTo(f[i], q, L, S, i)}
<1>1. Len(q) \in Nat
  OBVIOUS
<1>2. \A i \in 0..Len(q) :
            f[i] = IF i = 0 THEN <<>>
                   ELSE IF q[i] \in L THEN f[i - 1] ELSE Append(f[i - 1], q[i])
  BY <1>1 DEF IsKept
<1>3. KeptUpTo(f[0], q, L, S, 0)
  <2>1. f[0] = <<>>
    BY <1>1, <1>2
  <2>2. <<>> \in Seq(S) /\ Len(<<>>) = 0 /\ 1..0 = {}
    OBVIOUS
  <2> QED
    BY <2>1, <2>2 DEF KeptUpTo, InSeq, Distinct
<1>4. ASSUME NEW n \in Nat, KeptUpTo(f[n], q, L, S, n), n + 1 <= Len(q)
      PROVE  KeptUpTo(f[n + 1], q, L, S, n + 1)
  <2>1. q[n + 1] \in S /\ n + 1 \in 0..Len(q) /\ n + 1 # 0 /\ (n + 1) - 1 = n
    BY <1>1, <1>4
  <2>2. CASE q[n + 1] \in L
    <3>1. f[n + 1] = f[n]
      BY <1>2, <2>1, <2>2
    <3> QED
      BY <1>4, <2>1, <2>2, <3>1 DEF KeptUpTo
  <2>3. CASE q[n + 1] \notin L
    <3>1. f[n + 1] = Append(f[n], q[n + 1])
      BY <1>2, <2>1, <2>3
    <3>2. f[n] \in Seq(S)
      BY <1>4 DEF KeptUpTo
    <3>3. f[n + 1] \in Seq(S) /\ \A p : InSeq(p, f[n + 1]) <=> InSeq(p, f[n]) \/ p = q[n + 1]
      BY <2>1, <3>1, <3>2, AppendFacts
    <3>4. ASSUME Distinct(q)
          PROVE  Distinct(f[n + 1])
      <4>1. ~InSeq(q[n + 1], f[n])
        BY <1>1, <1>4, <2>1, <3>4 DEF Distinct, KeptUpTo
      <4>2. Distinct(f[n])
        BY <1>4, <3>4 DEF KeptUpTo
      <4> QED
        BY <2>1, <3>1, <3>2, <4>1, <4>2, AppendFacts
    <3>5. ASSUME NEW p
          PROVE  InSeq(p, f[n + 1]) <=> p \notin L /\ \E j \in 1..(n + 1) : q[j] = p
      BY <1>4, <2>1, <2>3, <3>3 DEF KeptUpTo
    <3> QED
      BY <3>3, <3>4, <3>5 DEF KeptUpTo
  <2> QED
    BY <2>2, <2>3
<1>5. 0 \in T
  BY <1>3
<1>6. \A n \in Nat : n \in T => n + 1 \in T
  BY <1>1, <1>4
<1> HIDE DEF T
<1>7. Nat \subseteq T
  BY <1>5, <1>6, NatSetInduction
<1> QED
  BY <1>1, <1>7 DEF T

LEMMA KeptFacts ==
    ASSUME NEW S, NEW q \in Seq(S), NEW L
    PROVE  /\ Kept(q, L) \in Seq(S)
           /\ \A p : InSeq(p, Kept(q, L)) <=> InSeq(p, q) /\ p \notin L
           /\ Distinct(q) => Distinct(Kept(q, L))
<1>1. PICK f : IsKept(f, q, L, Len(q)) /\ Kept(q, L) = f[Len(q)]
  BY KeptIs
<1>2. Len(q) \in 0..Len(q)
  OBVIOUS
<1>3. KeptUpTo(f[Len(q)], q, L, S, Len(q))
  BY <1>1, <1>2, KeptPrefix
<1> QED
  BY <1>1, <1>3 DEF InSeq, KeptUpTo

(* Two runs of the recursion that see the same elements agree.             *)
LEMMA KeptAgree ==
    ASSUME NEW q, NEW r, NEW L, NEW M, NEW f, NEW g, NEW n \in Nat, NEW m \in Nat, n <= m,
           IsKept(f, q, L, n), IsKept(g, r, M, m),
           \A i \in 1..n : q[i] = r[i] /\ (q[i] \in L <=> r[i] \in M)
    PROVE  \A i \in 0..n : f[i] = g[i]
<1> DEFINE T == {i \in Nat : i <= n => f[i] = g[i]}
<1>1. /\ \A i \in 0..n : f[i] = IF i = 0 THEN <<>>
                     ELSE IF q[i] \in L THEN f[i - 1] ELSE Append(f[i - 1], q[i])
      /\ \A i \in 0..m : g[i] = IF i = 0 THEN <<>>
                     ELSE IF r[i] \in M THEN g[i - 1] ELSE Append(g[i - 1], r[i])
  BY DEF IsKept
<1>2. 0 \in T
  BY <1>1
<1>3. ASSUME NEW i \in Nat, i \in T, i + 1 <= n
      PROVE  f[i + 1] = g[i + 1]
  BY <1>1, <1>3
<1>4. \A i \in Nat : i \in T => i + 1 \in T
  BY <1>3
<1> HIDE DEF T
<1>5. Nat \subseteq T
  BY <1>2, <1>4, NatSetInduction
<1> QED
  BY <1>5 DEF T

(* Only membership in L of the elements of q matters.                      *)
LEMMA KeptSame ==
    ASSUME NEW S, NEW q \in Seq(S), NEW L, NEW M,
           \A p : InSeq(p, q) => (p \in L <=> p \in M)
    PROVE  Kept(q, L) = Kept(q, M)
<1> DEFINE n == Len(q)
<1>1. n \in Nat /\ \A i \in 1..n : q[i] \in L <=> q[i] \in M
  BY DEF InSeq
<1>2. PICK f : IsKept(f, q, L, n) /\ Kept(q, L) = f[n]
  BY KeptIs
<1>3. PICK g : IsKept(g, q, M, n) /\ Kept(q, M) = g[n]
  BY KeptIs
<1> HIDE DEF n
<1>4. n <= n /\ \A i \in 1..n : q[i] = q[i] /\ (q[i] \in L <=> q[i] \in M)
  BY <1>1
<1>5. \A i \in 0..n : f[i] = g[i]
  BY ONLY <1>1, <1>2, <1>3, <1>4, KeptAgree
<1> QED
  BY <1>1, <1>2, <1>3, <1>5

LEMMA KeptAppend ==
    ASSUME NEW S, NEW q \in Seq(S), NEW L, NEW e \in S
    PROVE  Kept(Append(q, e), L) = IF e \in L THEN Kept(q, L) ELSE Append(Kept(q, L), e)
<1> DEFINE r == Append(q, e)
           n == Len(q)
<1>1. /\ r \in Seq(S) /\ Len(r) = n + 1 /\ n \in Nat
      /\ \A i \in 1..n : r[i] = q[i]
      /\ r[n + 1] = e
  BY AppendProperties
<1> HIDE DEF r
<1>2. PICK f : IsKept(f, q, L, n) /\ Kept(q, L) = f[n]
  BY KeptIs
<1>3. PICK g : IsKept(g, r, L, Len(r)) /\ Kept(r, L) = g[Len(r)]
  BY <1>1, KeptIs
<1> DEFINE m == n + 1
<1>4. n \in Nat /\ m \in Nat /\ n <= m /\ IsKept(g, r, L, m) /\ Kept(r, L) = g[m]
  BY <1>1, <1>3
<1>5. \A i \in 1..n : q[i] = r[i] /\ (q[i] \in L <=> r[i] \in L)
  BY <1>1
<1> HIDE DEF m, n
<1>6. \A i \in 0..n : f[i] = g[i]
  BY ONLY <1>2, <1>4, <1>5, KeptAgree
<1>7. g[n + 1] = IF r[n + 1] \in L THEN g[n] ELSE Append(g[n], r[n + 1])
  <2>1. n + 1 \in 0..m /\ n + 1 # 0 /\ (n + 1) - 1 = n
    BY <1>4 DEF m
  <2> QED
    BY <1>4, <2>1 DEF IsKept
<1> QED
  BY <1>1, <1>2, <1>4, <1>6, <1>7 DEF r, m

-----------------------------------------------------------------------------
(* The parts of the inductive invariant.                                   *)

(* Every package that reached the queue of the stage, in order.            *)
Entered(s) == log[s] \o Entering(s) \o input[s]

(* Packages in add(), in a queue, in a stage, or dropped.                  *)
Pending == {p \in Packages : InFlight(p) \/ IsLost(p)}

(* Only the last stage counts down, the others hand over.                  *)
StageRoles ==
    \A s \in Stages :
        /\ spc[s] \in {"out", "signalNext"} => s < NStages
        /\ spc[s] \in {"sub", "load", "signalWait"} => s = NStages

(* Who has a package at hand.                                              *)
HandsAreFull ==
    /\ \A s \in Stages : held[s] \in Packages <=> spc[s] \in {"run", "out"}
    /\ \A c \in Callers : adding[c] \in Packages <=> cpc[c] = "add"

(* The package a caller is adding is nowhere else.                         *)
AddingIsNew ==
    /\ \A c \in Callers : adding[c] \in Packages =>
          ~InSeq(adding[c], Entered(1)) /\ adding[c] \notin lost[1]
    /\ \A c, d \in Callers : adding[c] \in Packages /\ adding[c] = adding[d] => c = d

EnteredOnce == \A s \in Stages : Distinct(Entered(s))

LostIsGone == \A s \in Stages : \A p \in lost[s] : ~InSeq(p, Entered(s))

(* What has reached a stage has been through all stages before it.         *)
CameThrough ==
    \A r, s \in Stages : r < s =>
        \A p \in Packages : InSeq(p, Entered(s)) \/ p \in lost[s] => InSeq(p, log[r])

(* The package to be handed over is the last one the stage worked on.      *)
OutIsLast ==
    \A s \in Stages : spc[s] = "out" =>
        log[s] # <<>> /\ log[s][Len(log[s])] = held[s]

PendingIsFinite == IsFiniteSet(Pending)

(* destroy() is called once and by one caller, when no add() is under way. *)
OneDestroyer ==
    destroying =>
        /\ \A c \in Callers : cpc[c] \notin {"add", "signal"}
        /\ \A c, d \in Callers : c # d => cpc[c] = "idle" \/ cpc[d] = "idle"

AfterWait == {"setDone", "kick", "join", "destroyed"}

(* Nothing is pending once destroy() is past its wait().                   *)
StopMeansDone ==
    (\E c \in Callers : cpc[c] \in AfterWait) => destroying /\ nEnqueued = 0

DoneIsSet == bDone <=> \E c \in Callers : cpc[c] \in {"kick", "join", "destroyed"}

ExitsWhenDone == \A s \in Stages : spc[s] = "exited" => bDone

(* The stages below cur are freed; destroy() is over when all are.         *)
FreedHaveExited ==
    /\ \A s \in Stages : s < cur => spc[s] = "exited"
    /\ \A c \in Callers : cpc[c] \in {"kick", "join"} => cur \in Stages
    /\ cur # 1 => bDone

(* The part about packages and the part about shutting down.               *)
PackageInv ==
    /\ StageRoles /\ HandsAreFull /\ AddingIsNew /\ EnteredOnce /\ LostIsGone
    /\ CameThrough /\ OutIsLast /\ StagesAreFifo

StopInv == OneDestroyer /\ StopMeansDone /\ DoneIsSet /\ ExitsWhenDone /\ FreedHaveExited

IInv ==
    /\ TypeOK
    /\ PackageInv
    /\ PendingIsFinite /\ CountIsInFlight
    /\ StopInv

-----------------------------------------------------------------------------
(* The steps of the pipeline, by what they do to the packages.             *)

(* A step that moves no package and does not count.                        *)
MovesNothing ==
    /\ UNCHANGED <<input, log, held, nEnqueued, adding, lost>>
    /\ \A s \in Stages : \A pc \in {"run", "out", "sub"} : spc'[s] = pc <=> spc[s] = pc
    /\ \A c \in Callers : cpc'[c] = "add" <=> cpc[c] = "add"

PackageStep ==
    \/ \E c \in Callers, p \in Packages : AddCounts(c, p)
    \/ \E c \in Callers : AddEnqueues(c) \/ AddThrows(c)
    \/ \E s \in Stages : \/ TakePackage(s) \/ RunStage(s) \/ HandOver(s)
                         \/ HandOverThrows(s) \/ LastSubtracts(s)

(* The others, by who takes them.                                          *)
StageControl(s) ==
    \/ TakeFindsNothing(s) \/ FallsAsleep(s) \/ TakeExits(s)
    \/ SignalNext(s) \/ LastLoads(s) \/ LastSignals(s)

CallerControl(c) ==
    \/ AddSignals(c) \/ Wait(c) \/ WaitFindsWork(c) \/ WaitFallsAsleep(c)
    \/ WaitReturns(c) \/ Destroy(c) \/ SetDone(c) \/ SignalStage(c) \/ JoinStage(c)

ControlStep ==
    \/ \E s \in Stages : StageControl(s)
    \/ \E c \in Callers : CallerControl(c)
    \/ SpuriousWakeup
    \/ UNCHANGED vars

LEMMA StepCases ==
    ASSUME [Next]_vars
    PROVE  PackageStep \/ ControlStep
<1>1. ASSUME NEW s \in Stages, StageStep(s)
      PROVE  PackageStep \/ ControlStep
  BY <1>1 DEF StageStep, PackageStep, ControlStep, StageControl
<1>2. ASSUME NEW c \in Callers, CallerStep(c) \/ CallerCall(c)
      PROVE  PackageStep \/ ControlStep
  BY <1>2 DEF CallerStep, CallerCall, PackageStep, ControlStep, CallerControl
<1> QED
  BY <1>1, <1>2 DEF Next, Terminated, ControlStep

(* The head stage is a stage, and so is the one a stage hands over to.     *)
LEMMA StageNumbers ==
    /\ 1 \in Stages /\ NStages \in Stages
    /\ \A s \in Stages : s < NStages => s + 1 \in Stages /\ s + 1 # s
    /\ Stages \subseteq Nat
  BY StagesAssumption DEF Stages

LEMMA ControlMovesNothing ==
    ASSUME TypeOK, StageRoles, StopInv, ControlStep
    PROVE  MovesNothing
<1>1. ASSUME NEW s \in Stages, StageControl(s)
      PROVE  MovesNothing
  <2>1. CASE TakeFindsNothing(s)
    BY <2>1 DEF MovesNothing, TakeFindsNothing, TypeOK
  <2>2. CASE FallsAsleep(s)
    BY <2>2 DEF MovesNothing, FallsAsleep, TypeOK
  <2>3. CASE TakeExits(s)
    BY <2>3 DEF MovesNothing, TakeExits, TypeOK
  <2>4. CASE SignalNext(s)
    <3>1. s + 1 \in Stages /\ s + 1 # s
      BY <2>4, StageNumbers DEF StageRoles, SignalNext
    <3> QED
      BY <2>4, <3>1 DEF MovesNothing, SignalNext, TypeOK
  <2>5. CASE LastLoads(s)
    BY <2>5 DEF MovesNothing, LastLoads, TypeOK
  <2>6. CASE LastSignals(s)
    BY <2>6 DEF MovesNothing, LastSignals, TypeOK
  <2> QED
    BY <1>1, <2>1, <2>2, <2>3, <2>4, <2>5, <2>6 DEF StageControl
<1>2. ASSUME NEW c \in Callers, CallerControl(c)
      PROVE  MovesNothing
  <2>1. CASE AddSignals(c)
    BY <2>1 DEF MovesNothing, AddSignals, WakeStage, TypeOK
  <2>2. CASE Wait(c) \/ WaitFindsWork(c) \/ WaitFallsAsleep(c) \/ WaitReturns(c)
    BY <2>2 DEF MovesNothing, Wait, WaitFindsWork, WaitFallsAsleep, WaitReturns, TypeOK
  <2>3. CASE Destroy(c) \/ SetDone(c)
    BY <2>3 DEF MovesNothing, Destroy, SetDone, TypeOK
  <2>4. CASE SignalStage(c)
    BY <2>4 DEF MovesNothing, SignalStage, WakeStage, TypeOK
  <2>5. CASE JoinStage(c)
    BY <2>5 DEF MovesNothing, JoinStage, TypeOK
  <2> QED
    BY <1>2, <2>1, <2>2, <2>3, <2>4, <2>5 DEF CallerControl
<1>3. CASE SpuriousWakeup
  BY <1>3 DEF MovesNothing, SpuriousWakeup, TypeOK
<1>4. CASE UNCHANGED vars
  BY <1>4 DEF MovesNothing, vars
<1> QED
  BY <1>1, <1>2, <1>3, <1>4 DEF ControlStep

-----------------------------------------------------------------------------
(* Types, and what depends on the program counters alone.                  *)

(* The last stage subtracts what was counted.                              *)
LEMMA SubtractsCounted ==
    ASSUME TypeOK, StageRoles, PendingIsFinite, CountIsInFlight,
           NEW s \in Stages, spc[s] = "sub"
    PROVE  nEnqueued - 1 \in Nat /\ nEnqueued - 1 = Cardinality(Pending)
<1>1. Cardinality(Pending) \in Nat
  BY FS_CardinalityType DEF PendingIsFinite
<1>2. s = NStages
  BY DEF StageRoles
<1> QED
  BY <1>1, <1>2 DEF CountIsInFlight, Pending

LEMMA PackageStepType ==
    ASSUME TypeOK, StageRoles, HandsAreFull, PendingIsFinite, CountIsInFlight, PackageStep
    PROVE  TypeOK'
<1>1. ASSUME NEW c \in Callers, NEW p \in Packages, AddCounts(c, p)
      PROVE  TypeOK'
  BY <1>1 DEF AddCounts, TypeOK, CallerPc
<1>2. ASSUME NEW c \in Callers, AddEnqueues(c)
      PROVE  TypeOK'
  <2>1. adding[c] \in Packages /\ 1 \in Stages
    BY <1>2, StageNumbers DEF AddEnqueues, HandsAreFull
  <2>2. input' \in [Stages -> Seq(Packages)]
    BY <1>2, <2>1 DEF AddEnqueues, TypeOK
  <2> QED
    BY <1>2, <2>2 DEF AddEnqueues, TypeOK, CallerPc
<1>3. ASSUME NEW c \in Callers, AddThrows(c)
      PROVE  TypeOK'
  <2>1. adding[c] \in Packages
    BY <1>3 DEF AddThrows, HandsAreFull
  <2> QED
    BY <1>3, <2>1 DEF AddThrows, TypeOK, CallerPc
<1>4. ASSUME NEW s \in Stages, TakePackage(s)
      PROVE  TypeOK'
  <2>1. input[s] \in Seq(Packages) /\ input[s] # <<>>
    BY <1>4 DEF TakePackage, TypeOK
  <2>2. Head(input[s]) \in Packages /\ Tail(input[s]) \in Seq(Packages)
    BY <2>1, HeadTailProperties
  <2> QED
    BY <1>4, <2>2 DEF TakePackage, TypeOK, StagePc
<1>5. ASSUME NEW s \in Stages, RunStage(s)
      PROVE  TypeOK'
  <2>1. held[s] \in Packages
    BY <1>5 DEF RunStage, HandsAreFull
  <2>2. log' \in [Stages -> Seq(Packages)]
    BY <1>5, <2>1 DEF RunStage, TypeOK
  <2> QED
    BY <1>5, <2>2 DEF RunStage, TypeOK, StagePc
<1>6. ASSUME NEW s \in Stages, HandOver(s)
      PROVE  TypeOK'
  <2>1. held[s] \in Packages /\ s + 1 \in Stages
    BY <1>6, StageNumbers DEF HandOver, HandsAreFull, StageRoles
  <2>2. input' \in [Stages -> Seq(Packages)]
    BY <1>6, <2>1 DEF HandOver, TypeOK
  <2> QED
    BY <1>6, <2>2 DEF HandOver, TypeOK, StagePc
<1>7. ASSUME NEW s \in Stages, HandOverThrows(s)
      PROVE  TypeOK'
  <2>1. held[s] \in Packages /\ s + 1 \in Stages
    BY <1>7, StageNumbers DEF HandOverThrows, HandsAreFull, StageRoles
  <2> QED
    BY <1>7, <2>1 DEF HandOverThrows, TypeOK, StagePc
<1>8. ASSUME NEW s \in Stages, LastSubtracts(s)
      PROVE  TypeOK'
  <2>1. nEnqueued - 1 \in Nat
    BY <1>8, SubtractsCounted DEF LastSubtracts
  <2> QED
    BY <1>8, <2>1 DEF LastSubtracts, TypeOK, StagePc
<1> QED
  BY <1>1, <1>2, <1>3, <1>4, <1>5, <1>6, <1>7, <1>8 DEF PackageStep

LEMMA ControlStepType ==
    ASSUME TypeOK, StageRoles, FreedHaveExited, ControlStep
    PROVE  TypeOK'
<1>1. ASSUME NEW s \in Stages, StageControl(s)
      PROVE  TypeOK'
  BY <1>1 DEF StageControl, TypeOK, TakeFindsNothing, FallsAsleep, TakeExits, SignalNext,
              LastLoads, LastSignals, StagePc, CallerPc
<1>2. ASSUME NEW c \in Callers, CallerControl(c)
      PROVE  TypeOK'
  <2>1. CASE JoinStage(c)
    <3>1. cur + 1 \in 1..(NStages + 1)
      BY <1>2, <2>1, StagesAssumption DEF FreedHaveExited, JoinStage, Stages
    <3> QED
      BY <2>1, <3>1 DEF TypeOK, JoinStage, CallerPc
  <2>2. CASE AddSignals(c) \/ SignalStage(c)
    BY <2>2 DEF TypeOK, AddSignals, SignalStage, WakeStage, StagePc, CallerPc
  <2>3. CASE Wait(c) \/ WaitFindsWork(c) \/ WaitFallsAsleep(c) \/ WaitReturns(c)
    BY <2>3 DEF TypeOK, Wait, WaitFindsWork, WaitFallsAsleep, WaitReturns, CallerPc
  <2>4. CASE Destroy(c) \/ SetDone(c)
    BY <2>4 DEF TypeOK, Destroy, SetDone, CallerPc
  <2> QED
    BY <1>2, <2>1, <2>2, <2>3, <2>4 DEF CallerControl
<1>3. CASE SpuriousWakeup
  BY <1>3 DEF TypeOK, SpuriousWakeup, StagePc, CallerPc
<1>4. CASE UNCHANGED vars
  BY <1>4 DEF TypeOK, vars
<1> QED
  BY <1>1, <1>2, <1>3, <1>4 DEF ControlStep

LEMMA StageRolesStep ==
    ASSUME TypeOK, StageRoles, PackageStep \/ ControlStep
    PROVE  StageRoles'
<1>1. ASSUME NEW s \in Stages,
             StageControl(s) \/ TakePackage(s) \/ RunStage(s) \/ HandOver(s)
               \/ HandOverThrows(s) \/ LastSubtracts(s)
      PROVE  StageRoles'
  <2>1. CASE RunStage(s)
    BY <2>1, StagesAssumption DEF StageRoles, RunStage, TypeOK, Stages
  <2>2. CASE TakePackage(s) \/ HandOver(s) \/ HandOverThrows(s) \/ LastSubtracts(s)
    BY <2>2 DEF StageRoles, TakePackage, HandOver, HandOverThrows, LastSubtracts, TypeOK
  <2>3. CASE StageControl(s)
    BY <2>3 DEF StageRoles, StageControl, TypeOK, TakeFindsNothing, FallsAsleep, TakeExits,
                SignalNext, LastLoads, LastSignals
  <2> QED
    BY <1>1, <2>1, <2>2, <2>3
<1>2. ASSUME NEW c \in Callers,
             CallerControl(c) \/ AddEnqueues(c) \/ AddThrows(c)
               \/ \E p \in Packages : AddCounts(c, p)
      PROVE  StageRoles'
  <2>1. CASE AddSignals(c) \/ SignalStage(c)
    BY <2>1 DEF StageRoles, TypeOK, AddSignals, SignalStage, WakeStage
  <2>2. CASE Wait(c) \/ WaitFindsWork(c) \/ WaitFallsAsleep(c) \/ WaitReturns(c)
    BY <2>2 DEF StageRoles, Wait, WaitFindsWork, WaitFallsAsleep, WaitReturns
  <2>3. CASE Destroy(c) \/ SetDone(c) \/ JoinStage(c)
    BY <2>3 DEF StageRoles, Destroy, SetDone, JoinStage
  <2>4. CASE AddEnqueues(c) \/ AddThrows(c) \/ \E p \in Packages : AddCounts(c, p)
    BY <2>4 DEF StageRoles, AddEnqueues, AddThrows, AddCounts
  <2> QED
    BY <1>2, <2>1, <2>2, <2>3, <2>4 DEF CallerControl
<1>3. CASE SpuriousWakeup
  BY <1>3 DEF StageRoles, TypeOK, SpuriousWakeup
<1>4. CASE UNCHANGED vars
  BY <1>4 DEF StageRoles, vars
<1> QED
  BY <1>1, <1>2, <1>3, <1>4 DEF PackageStep, ControlStep

LEMMA HandsAreFullStep ==
    ASSUME TypeOK, StageRoles, HandsAreFull, PackageStep \/ MovesNothing
    PROVE  HandsAreFull'
<1>1. ASSUME NEW c \in Callers, NEW p \in Packages, AddCounts(c, p)
      PROVE  HandsAreFull'
  BY <1>1 DEF AddCounts, TypeOK, HandsAreFull
<1>2. ASSUME NEW c \in Callers, AddEnqueues(c) \/ AddThrows(c)
      PROVE  HandsAreFull'
  BY <1>2, NoPackageAssumption DEF AddEnqueues, AddThrows, TypeOK, HandsAreFull
<1>3. ASSUME NEW s \in Stages, TakePackage(s)
      PROVE  HandsAreFull'
  <2>1. Head(input[s]) \in Packages
    BY <1>3, HeadTailProperties DEF TakePackage, TypeOK
  <2> QED
    BY <1>3, <2>1 DEF TakePackage, TypeOK, HandsAreFull
<1>4. ASSUME NEW s \in Stages, RunStage(s)
      PROVE  HandsAreFull'
  BY <1>4, NoPackageAssumption DEF RunStage, TypeOK, HandsAreFull
<1>5. ASSUME NEW s \in Stages, HandOver(s) \/ HandOverThrows(s) \/ LastSubtracts(s)
      PROVE  HandsAreFull'
  BY <1>5, NoPackageAssumption DEF HandOver, HandOverThrows, LastSubtracts, TypeOK, HandsAreFull
<1>6. CASE MovesNothing
  BY <1>6 DEF MovesNothing, HandsAreFull
<1> QED
  BY <1>1, <1>2, <1>3, <1>4, <1>5, <1>6 DEF PackageStep

-----------------------------------------------------------------------------
(* What the package steps do to the sequence of a stage.                   *)

LEMMA SingleFacts ==
    ASSUME NEW S, NEW e \in S
    PROVE  <<e>> \in Seq(S) /\ \A p : InSeq(p, <<e>>) <=> p = e
<1>1. Len(<<e>>) = 1 /\ <<e>>[1] = e /\ <<e>> \in Seq(S)
  OBVIOUS
<1> QED
  BY <1>1 DEF InSeq

LEMMA EmptyFacts ==
    ASSUME NEW S
    PROVE  <<>> \in Seq(S) /\ \A p : ~InSeq(p, <<>>)
  BY EmptySeq DEF InSeq

LEMMA EnteredType ==
    ASSUME TypeOK, HandsAreFull, NEW s \in Stages
    PROVE  /\ log[s] \in Seq(Packages) /\ input[s] \in Seq(Packages)
           /\ Entering(s) \in Seq(Packages) /\ Leaving(s) \in Seq(Packages)
           /\ log[s] \o Entering(s) \in Seq(Packages)
           /\ Entered(s) \in Seq(Packages)
<1>1. log[s] \in Seq(Packages) /\ input[s] \in Seq(Packages)
  BY DEF TypeOK
<1>2. Entering(s) \in Seq(Packages) /\ Leaving(s) \in Seq(Packages)
  BY SingleFacts, EmptyFacts DEF Entering, Leaving, HandsAreFull
<1>3. log[s] \o Entering(s) \in Seq(Packages)
  BY <1>1, <1>2, ConcatProperties
<1>4. Entered(s) \in Seq(Packages)
  BY <1>1, <1>3, ConcatProperties DEF Entered
<1> QED
  BY <1>1, <1>2, <1>3, <1>4

(* Who has entered a stage, and where it may be no longer.                 *)
LEMMA EnteredFacts ==
    ASSUME TypeOK, HandsAreFull, NEW s \in Stages
    PROVE  /\ \A p : InSeq(p, Entered(s)) <=>
                 InSeq(p, log[s]) \/ (spc[s] = "run" /\ p = held[s]) \/ InSeq(p, input[s])
           /\ Distinct(Entered(s)) => \A p :
                 /\ ~(InSeq(p, log[s]) /\ spc[s] = "run" /\ p = held[s])
                 /\ ~(InSeq(p, log[s]) /\ InSeq(p, input[s]))
                 /\ ~(InSeq(p, input[s]) /\ spc[s] = "run" /\ p = held[s])
<1> DEFINE l == log[s]
           e == Entering(s)
           i == input[s]
<1>1. l \in Seq(Packages) /\ e \in Seq(Packages) /\ i \in Seq(Packages) /\ l \o e \in Seq(Packages)
  BY EnteredType
<1>2. \A p : InSeq(p, e) <=> spc[s] = "run" /\ p = held[s]
  BY SingleFacts, EmptyFacts DEF Entering, HandsAreFull
<1>3. Entered(s) = (l \o e) \o i
  BY DEF Entered
<1> HIDE DEF l, e, i
<1>4. /\ \A p : InSeq(p, l \o e) <=> InSeq(p, l) \/ InSeq(p, e)
      /\ Distinct(l \o e) => \A p : ~(InSeq(p, l) /\ InSeq(p, e))
  BY <1>1, ConcatFacts
<1>5. /\ \A p : InSeq(p, (l \o e) \o i) <=> InSeq(p, l \o e) \/ InSeq(p, i)
      /\ Distinct((l \o e) \o i) =>
            Distinct(l \o e) /\ \A p : ~(InSeq(p, l \o e) /\ InSeq(p, i))
  <2> DEFINE le == l \o e
  <2>1. le \in Seq(Packages)
    BY <1>1
  <2> HIDE DEF le
  <2>2. /\ \A p : InSeq(p, le \o i) <=> InSeq(p, le) \/ InSeq(p, i)
        /\ Distinct(le \o i) => Distinct(le) /\ \A p : ~(InSeq(p, le) /\ InSeq(p, i))
    BY <1>1, <2>1, ConcatFacts
  <2> QED
    BY <2>2 DEF le
<1> QED
  BY <1>2, <1>3, <1>4, <1>5 DEF l, i

(* Appending to the queue of a stage appends to what has entered it.       *)
LEMMA AppendInside ==
    ASSUME NEW S, NEW l \in Seq(S), NEW i \in Seq(S), NEW x \in S
    PROVE  l \o Append(i, x) = Append(l \o i, x)
<1>1. <<x>> \in Seq(S) /\ l \o i \in Seq(S)
  BY SingleFacts, ConcatProperties
<1>2. Append(i, x) = i \o <<x>> /\ Append(l \o i, x) = (l \o i) \o <<x>>
  BY <1>1, AppendIsConcat
<1> QED
  BY <1>1, <1>2, ConcatAssociative

LEMMA EnqueueEnters ==
    ASSUME TypeOK, HandsAreFull, NEW s \in Stages, NEW x \in Packages,
           input' = [input EXCEPT ![s] = Append(@, x)],
           log' = log, \A t \in Stages : Entering(t)' = Entering(t)
    PROVE  /\ Entered(s)' = Append(Entered(s), x)
           /\ \A t \in Stages \ {s} : Entered(t)' = Entered(t)
<1>1. \A t \in Stages : input'[t] = IF t = s THEN Append(input[s], x) ELSE input[t]
  BY DEF TypeOK
<1>2. Entered(s)' = (log[s] \o Entering(s)) \o Append(input[s], x)
  BY <1>1 DEF Entered
<1>3. Entered(s)' = Append(Entered(s), x)
  <2> DEFINE le == log[s] \o Entering(s)
  <2>1. le \in Seq(Packages) /\ input[s] \in Seq(Packages)
    BY EnteredType
  <2>2. Entered(s) = le \o input[s] /\ Entered(s)' = le \o Append(input[s], x)
    BY <1>2 DEF Entered
  <2> HIDE DEF le
  <2> QED
    BY <2>1, <2>2, AppendInside
<1> QED
  BY <1>1, <1>3 DEF Entered

LEMMA TakeStays ==
    ASSUME TypeOK, HandsAreFull, NEW s \in Stages, TakePackage(s)
    PROVE  \A t \in Stages : Entered(t)' = Entered(t) /\ Leaving(t)' = Leaving(t)
<1>1. \A t \in Stages \ {s} : Entered(t)' = Entered(t) /\ Leaving(t)' = Leaving(t)
  BY DEF TakePackage, TypeOK, Entered, Entering, Leaving
<1>2. /\ Entering(s) = <<>> /\ Entering(s)' = <<Head(input[s])>>
      /\ input'[s] = Tail(input[s]) /\ log' = log /\ input[s] # <<>>
      /\ Leaving(s) = <<>> /\ Leaving(s)' = <<>>
  BY DEF TakePackage, TypeOK, Entering, Leaving
<1>3. Entered(s)' = Entered(s)
  BY <1>2, EnteredType, HeadJoins DEF Entered
<1> QED
  BY <1>1, <1>2, <1>3

LEMMA RunStays ==
    ASSUME TypeOK, HandsAreFull, NEW s \in Stages, RunStage(s)
    PROVE  /\ \A t \in Stages : Entered(t)' = Entered(t)
           /\ \A t \in Stages \ {s} : Leaving(t)' = Leaving(t) /\ log'[t] = log[t]
           /\ Leaving(s) = <<>>
           /\ s < NStages => Leaving(s)' = <<held[s]>>
           /\ held[s] \in Packages
           /\ log'[s] = Append(log[s], held[s])
<1>1. \A t \in Stages \ {s} : Entered(t)' = Entered(t) /\ Leaving(t)' = Leaving(t) /\ log'[t] = log[t]
  BY DEF RunStage, TypeOK, Entered, Entering, Leaving
<1>2. /\ Entering(s) = <<held[s]>> /\ Entering(s)' = <<>> /\ input' = input
      /\ log'[s] = Append(log[s], held[s]) /\ held[s] \in Packages
      /\ Leaving(s) = <<>>
      /\ s < NStages => Leaving(s)' = <<held[s]>>
  BY DEF RunStage, TypeOK, Entering, Leaving, HandsAreFull
<1>3. log[s] \in Seq(Packages) /\ Append(log[s], held[s]) \in Seq(Packages)
  BY <1>2, AppendFacts DEF TypeOK
<1>4. Append(log[s], held[s]) \o <<>> = log[s] \o <<held[s]>>
  BY <1>2, <1>3, AppendIsConcat, ConcatEmptySeq
<1>5. Entered(s)' = Entered(s)
  BY <1>2, <1>4 DEF Entered
<1>6. \A t \in Stages : Entered(t)' = Entered(t)
  BY <1>1, <1>5
<1> QED
  BY <1>1, <1>2, <1>6

LEMMA HandOverEnters ==
    ASSUME TypeOK, HandsAreFull, StageRoles, NEW s \in Stages, HandOver(s)
    PROVE  /\ s + 1 \in Stages /\ s < NStages /\ held[s] \in Packages
           /\ Entered(s + 1)' = Append(Entered(s + 1), held[s])
           /\ \A t \in Stages \ {s + 1} : Entered(t)' = Entered(t)
           /\ \A t \in Stages \ {s} : Leaving(t)' = Leaving(t)
           /\ Leaving(s)' = <<>>
<1>1. s + 1 \in Stages /\ s < NStages /\ held[s] \in Packages
  BY StageNumbers DEF HandOver, StageRoles, HandsAreFull
<1>2. \A t \in Stages : Entering(t)' = Entering(t)
  BY DEF HandOver, Entering, TypeOK
<1>3. /\ Leaving(s)' = <<>>
      /\ \A t \in Stages \ {s} : Leaving(t)' = Leaving(t)
  BY DEF HandOver, Leaving, TypeOK
<1>4. input' = [input EXCEPT ![s + 1] = Append(@, held[s])] /\ log' = log
  BY DEF HandOver
<1> QED
  BY <1>1, <1>2, <1>3, <1>4, EnqueueEnters

LEMMA ThrowDrops ==
    ASSUME TypeOK, HandsAreFull, StageRoles, NEW s \in Stages, HandOverThrows(s)
    PROVE  /\ s + 1 \in Stages /\ s < NStages /\ held[s] \in Packages
           /\ \A t \in Stages : Entered(t)' = Entered(t)
           /\ \A t \in Stages \ {s} : Leaving(t)' = Leaving(t)
           /\ Leaving(s)' = <<>>
<1>1. s + 1 \in Stages /\ s < NStages /\ held[s] \in Packages
  BY StageNumbers DEF HandOverThrows, StageRoles, HandsAreFull
<1>2. \A t \in Stages : Entered(t)' = Entered(t)
  BY DEF HandOverThrows, Entered, Entering, TypeOK
<1>3. /\ Leaving(s)' = <<>>
      /\ \A t \in Stages \ {s} : Leaving(t)' = Leaving(t)
  BY DEF HandOverThrows, Leaving, TypeOK
<1> QED
  BY <1>1, <1>2, <1>3

-----------------------------------------------------------------------------
(* The package part of the invariant.                                      *)

(* What the stage s is about to hand over.                                 *)
LEMMA HandedOver ==
    ASSUME TypeOK, PackageInv, NEW s \in Stages, spc[s] = "out"
    PROVE  /\ s < NStages /\ s + 1 \in Stages /\ held[s] \in Packages
           /\ InSeq(held[s], log[s])
           /\ Kept(log[s], lost[s + 1]) = Append(Entered(s + 1), held[s])
           /\ ~InSeq(held[s], Entered(s + 1))
           /\ held[s] \notin lost[s + 1]
           /\ \A r \in Stages : r <= s => InSeq(held[s], log[r])
<1>1. s < NStages /\ s + 1 \in Stages /\ held[s] \in Packages /\ s \in 1..(NStages - 1)
  BY StageNumbers DEF PackageInv, StageRoles, HandsAreFull, Stages
<1>2. log[s] # <<>> /\ log[s][Len(log[s])] = held[s] /\ log[s] \in Seq(Packages)
  BY DEF PackageInv, OutIsLast, TypeOK
<1>3. InSeq(held[s], log[s])
  <2>1. Len(log[s]) \in 1..Len(log[s])
    BY <1>2, EmptySeq
  <2> QED
    BY <1>2, <2>1 DEF InSeq
<1>4. Distinct(Entered(s)) /\ Distinct(log[s])
  <2>1. Distinct(Entered(s))
    BY DEF PackageInv, EnteredOnce
  <2>2. Distinct(log[s] \o Entering(s))
    BY <2>1, EnteredType, ConcatFacts DEF PackageInv, Entered
  <2>3. Distinct(log[s])
    BY <2>2, EnteredType, ConcatFacts DEF PackageInv
  <2> QED
    BY <2>1, <2>3
<1>5. Entered(s + 1) \in Seq(Packages)
  BY <1>1, EnteredType DEF PackageInv
<1>6. Kept(log[s], lost[s + 1]) = Append(Entered(s + 1), held[s])
  <2>1. Kept(log[s], lost[s + 1]) = Entered(s + 1) \o Leaving(s)
    BY <1>1 DEF PackageInv, StagesAreFifo, Entered
  <2>2. Leaving(s) = <<held[s]>>
    BY DEF Leaving
  <2> QED
    BY <1>1, <1>5, <2>1, <2>2, AppendIsConcat
<1>7. ~InSeq(held[s], Entered(s + 1))
  <2>1. Distinct(Append(Entered(s + 1), held[s]))
    <3>1. Distinct(Kept(log[s], lost[s + 1]))
      BY <1>2, <1>4, KeptFacts
    <3> QED
      BY <1>6, <3>1
  <2> QED
    BY <1>1, <1>5, <2>1, AppendFacts
<1>8. held[s] \notin lost[s + 1]
  <2>1. InSeq(held[s], Kept(log[s], lost[s + 1]))
    BY <1>1, <1>5, <1>6, AppendFacts
  <2> QED
    BY <1>2, <2>1, KeptFacts
<1>9. ASSUME NEW r \in Stages, r <= s
      PROVE  InSeq(held[s], log[r])
  <2>1. InSeq(held[s], Entered(s))
    BY <1>3, EnteredFacts DEF PackageInv
  <2>2. CASE r = s
    BY <1>3, <2>2
  <2>3. CASE r < s
    BY <1>1, <2>1, <2>3 DEF PackageInv, CameThrough
  <2> QED
    BY <1>9, <2>2, <2>3 DEF Stages
<1> QED
  BY <1>1, <1>3, <1>6, <1>7, <1>8, <1>9

LEMMA AddingIsNewStep ==
    ASSUME TypeOK, PackageInv, TypeOK', HandsAreFull', PackageStep \/ MovesNothing
    PROVE  AddingIsNew'
<1>0. 1 \in Stages
  BY StageNumbers
<1>1. ASSUME NEW c \in Callers, NEW p \in Packages, AddCounts(c, p)
      PROVE  AddingIsNew'
  <2>1. Entered(1)' = Entered(1) /\ lost'[1] = lost[1]
    BY <1>0, <1>1 DEF AddCounts, Entered, Entering
  <2>2. ~InSeq(p, Entered(1)) /\ p \notin lost[1] /\ \A d \in Callers : adding[d] # p
    BY <1>0, <1>1, EnteredFacts DEF AddCounts, IsNew, PackageInv
  <2>3. \A d \in Callers : adding'[d] = IF d = c THEN p ELSE adding[d]
    BY <1>1 DEF AddCounts, TypeOK
  <2> QED
    BY <2>1, <2>2, <2>3 DEF AddingIsNew, PackageInv
<1>2. ASSUME NEW c \in Callers, AddEnqueues(c)
      PROVE  AddingIsNew'
  <2>1. adding[c] \in Packages
    BY <1>2 DEF AddEnqueues, PackageInv, HandsAreFull
  <2>2. Entered(1)' = Append(Entered(1), adding[c])
    <3>1. \A t \in Stages : Entering(t)' = Entering(t)
      BY <1>2 DEF AddEnqueues, Entering
    <3> QED
      BY <1>0, <1>2, <2>1, <3>1, EnqueueEnters DEF AddEnqueues, PackageInv
  <2>3. \A p : InSeq(p, Entered(1)') <=> InSeq(p, Entered(1)) \/ p = adding[c]
    <3>1. Entered(1) \in Seq(Packages)
      BY <1>0, EnteredType DEF PackageInv
    <3>2. \A p : InSeq(p, Append(Entered(1), adding[c])) <=> InSeq(p, Entered(1)) \/ p = adding[c]
      BY <2>1, <3>1, AppendFacts
    <3> QED
      BY <2>2, <3>2
  <2>4. lost' = lost /\ \A d \in Callers : adding'[d] = IF d = c THEN NoPackage ELSE adding[d]
    BY <1>2 DEF AddEnqueues, TypeOK
  <2> QED
    BY <2>1, <2>3, <2>4, NoPackageAssumption DEF AddingIsNew, PackageInv
<1>3. ASSUME NEW c \in Callers, AddThrows(c)
      PROVE  AddingIsNew'
  <2>1. Entered(1)' = Entered(1)
    BY <1>3 DEF AddThrows, Entered, Entering
  <2>2. adding[c] \in Packages
    BY <1>3 DEF AddThrows, PackageInv, HandsAreFull
  <2>3. /\ lost'[1] = lost[1] \cup {adding[c]}
        /\ \A d \in Callers : adding'[d] = IF d = c THEN NoPackage ELSE adding[d]
    BY <1>0, <1>3 DEF AddThrows, TypeOK
  <2> QED
    BY <2>1, <2>2, <2>3, NoPackageAssumption DEF AddingIsNew, PackageInv
<1>4. ASSUME NEW s \in Stages, TakePackage(s) \/ RunStage(s) \/ HandOver(s) \/ HandOverThrows(s)
      PROVE  AddingIsNew'
  <2>1. Entered(1)' = Entered(1)
    BY <1>0, <1>4, TakeStays, RunStays, HandOverEnters, ThrowDrops DEF PackageInv, Stages
  <2>2. lost'[1] = lost[1] /\ adding' = adding
    BY <1>0, <1>4 DEF TakePackage, RunStage, HandOver, HandOverThrows, TypeOK, Stages
  <2> QED
    BY <2>1, <2>2 DEF AddingIsNew, PackageInv
<1>5. ASSUME NEW s \in Stages, LastSubtracts(s)
      PROVE  AddingIsNew'
  <2>1. Entered(1)' = Entered(1)
    BY <1>0, <1>5 DEF LastSubtracts, Entered, Entering, TypeOK
  <2> QED
    BY <1>5, <2>1 DEF LastSubtracts, AddingIsNew, PackageInv
<1>6. CASE MovesNothing
  <2>1. Entered(1)' = Entered(1)
    BY <1>0, <1>6 DEF MovesNothing, Entered, Entering
  <2> QED
    BY <1>6, <2>1 DEF MovesNothing, AddingIsNew, PackageInv
<1> QED
  BY <1>1, <1>2, <1>3, <1>4, <1>5, <1>6 DEF PackageStep

(* The invariants on the sequences of the stages.                          *)
SeqInv == EnteredOnce /\ LostIsGone /\ CameThrough /\ OutIsLast /\ StagesAreFifo

LEMMA FifoOf ==
    ASSUME NEW s \in 1..(NStages - 1)
    PROVE  s \in Stages /\ s + 1 \in Stages /\ s < NStages
  BY StagesAssumption DEF Stages

LEMMA SameSequences ==
    ASSUME SeqInv, log' = log, lost' = lost,
           \A t \in Stages : Entered(t)' = Entered(t) /\ Leaving(t)' = Leaving(t),
           \A t \in Stages : spc'[t] = "out" => spc[t] = "out" /\ held'[t] = held[t]
    PROVE  SeqInv'
<1>1. EnteredOnce' /\ LostIsGone' /\ CameThrough' /\ OutIsLast'
  BY DEF SeqInv, EnteredOnce, LostIsGone, CameThrough, OutIsLast
<1>2. StagesAreFifo'
  BY FifoOf DEF SeqInv, StagesAreFifo, Entered
<1> QED
  BY <1>1, <1>2 DEF SeqInv

LEMMA AddEnqueuesSeq ==
    ASSUME TypeOK, PackageInv, NEW c \in Callers, AddEnqueues(c)
    PROVE  SeqInv'
<1>1. adding[c] \in Packages /\ 1 \in Stages
  BY StageNumbers DEF AddEnqueues, PackageInv, HandsAreFull
<1>2. /\ Entered(1)' = Append(Entered(1), adding[c])
      /\ \A t \in Stages \ {1} : Entered(t)' = Entered(t)
  <2>1. \A t \in Stages : Entering(t)' = Entering(t)
    BY DEF AddEnqueues, Entering
  <2> QED
    BY <1>1, <2>1, EnqueueEnters DEF AddEnqueues, PackageInv
<1>3. ~InSeq(adding[c], Entered(1)) /\ adding[c] \notin lost[1]
  BY <1>1 DEF PackageInv, AddingIsNew
<1>4. /\ log' = log /\ lost' = lost /\ spc' = spc /\ held' = held
      /\ \A t \in Stages : Leaving(t)' = Leaving(t)
  BY DEF AddEnqueues, Leaving
<1>5. Entered(1) \in Seq(Packages)
  BY <1>1, EnteredType DEF PackageInv
<1>6. /\ \A p : InSeq(p, Append(Entered(1), adding[c])) <=> InSeq(p, Entered(1)) \/ p = adding[c]
      /\ Distinct(Append(Entered(1), adding[c])) <=> Distinct(Entered(1)) /\ ~InSeq(adding[c], Entered(1))
  BY <1>1, <1>5, AppendFacts
<1>7. EnteredOnce'
  BY <1>1, <1>2, <1>3, <1>6 DEF PackageInv, EnteredOnce
<1>8. LostIsGone'
  BY <1>1, <1>2, <1>3, <1>4, <1>6 DEF PackageInv, LostIsGone
<1>9. CameThrough'
  <2>1. \A r, s \in Stages : r < s => s # 1
    BY DEF Stages
  <2> QED
    BY <1>2, <1>4, <2>1 DEF PackageInv, CameThrough
<1>10. OutIsLast'
  BY <1>4 DEF PackageInv, OutIsLast
<1>11. StagesAreFifo'
  <2>1. \A s \in 1..(NStages - 1) : s + 1 # 1
    OBVIOUS
  <2> QED
    BY <1>2, <1>4, <2>1, FifoOf DEF PackageInv, StagesAreFifo, Entered
<1> QED
  BY <1>7, <1>8, <1>9, <1>10, <1>11 DEF SeqInv

LEMMA AddThrowsSeq ==
    ASSUME TypeOK, PackageInv, NEW c \in Callers, AddThrows(c)
    PROVE  SeqInv'
<1>1. adding[c] \in Packages /\ 1 \in Stages
  BY StageNumbers DEF AddThrows, PackageInv, HandsAreFull
<1>2. ~InSeq(adding[c], Entered(1))
  BY <1>1 DEF PackageInv, AddingIsNew
<1>3. /\ log' = log /\ spc' = spc /\ held' = held
      /\ \A t \in Stages : Leaving(t)' = Leaving(t) /\ Entered(t)' = Entered(t)
  BY DEF AddThrows, Leaving, Entered, Entering
<1>4. \A t \in Stages : lost'[t] = IF t = 1 THEN lost[1] \cup {adding[c]} ELSE lost[t]
  BY DEF AddThrows, TypeOK
<1>5. EnteredOnce'
  BY <1>3 DEF PackageInv, EnteredOnce
<1>6. LostIsGone'
  BY <1>1, <1>2, <1>3, <1>4 DEF PackageInv, LostIsGone
<1>7. CameThrough'
  <2>1. \A r, s \in Stages : r < s => s # 1
    BY DEF Stages
  <2> QED
    BY <1>3, <1>4, <2>1 DEF PackageInv, CameThrough
<1>8. OutIsLast'
  BY <1>3 DEF PackageInv, OutIsLast
<1>9. StagesAreFifo'
  <2>1. \A s \in 1..(NStages - 1) : s + 1 # 1
    OBVIOUS
  <2> QED
    BY <1>3, <1>4, <2>1, FifoOf DEF PackageInv, StagesAreFifo, Entered
<1> QED
  BY <1>5, <1>6, <1>7, <1>8, <1>9 DEF SeqInv

LEMMA RunStageSeq ==
    ASSUME TypeOK, PackageInv, NEW s \in Stages, RunStage(s)
    PROVE  SeqInv'
<1>1. /\ \A t \in Stages : Entered(t)' = Entered(t)
      /\ \A t \in Stages \ {s} : Leaving(t)' = Leaving(t) /\ log'[t] = log[t]
      /\ Leaving(s) = <<>>
      /\ s < NStages => Leaving(s)' = <<held[s]>>
      /\ held[s] \in Packages
      /\ log'[s] = Append(log[s], held[s])
      /\ log[s] \in Seq(Packages)
      /\ lost' = lost
  BY RunStays DEF PackageInv, TypeOK, RunStage
<1>2. \A t \in Stages : \A p : InSeq(p, log[t]) => InSeq(p, log'[t])
  <2>1. \A p : InSeq(p, Append(log[s], held[s])) <=> InSeq(p, log[s]) \/ p = held[s]
    BY <1>1, AppendFacts
  <2> QED
    BY <1>1, <2>1
<1>3. EnteredOnce' /\ LostIsGone'
  BY <1>1 DEF PackageInv, EnteredOnce, LostIsGone
<1>4. CameThrough'
  BY <1>1, <1>2 DEF PackageInv, CameThrough
<1>5. OutIsLast'
  <2>1. log'[s] # <<>> /\ log'[s][Len(log'[s])] = held[s]
    BY <1>1, AppendProperties
  <2>2. /\ \A t \in Stages \ {s} : spc'[t] = spc[t] /\ held'[t] = held[t]
        /\ spc'[s] = "out" => held'[s] = held[s]
    BY DEF RunStage, TypeOK
  <2> QED
    BY <1>1, <2>1, <2>2 DEF PackageInv, OutIsLast
<1>6. ASSUME NEW t \in 1..(NStages - 1)
      PROVE  Kept(log'[t], lost'[t + 1]) = (Entered(t + 1) \o Leaving(t))'
  <2>0. t \in Stages /\ t + 1 \in Stages /\ t < NStages
    BY FifoOf
  <2>1. Kept(log[t], lost[t + 1]) = Entered(t + 1) \o Leaving(t)
    BY DEF PackageInv, StagesAreFifo, Entered
  <2>2. CASE t # s
    BY <1>1, <2>0, <2>1, <2>2
  <2>3. CASE t = s
    <3>1. Entered(s + 1) \in Seq(Packages)
      BY <2>0, <2>3, EnteredType DEF PackageInv
    <3>2. ~InSeq(held[s], log[s])
      BY EnteredFacts DEF PackageInv, EnteredOnce, RunStage
    <3>3. held[s] \notin lost[s + 1]
      BY <1>1, <2>0, <2>3, <3>2 DEF PackageInv, CameThrough, Stages
    <3>4. Kept(log'[s], lost[s + 1]) = Append(Kept(log[s], lost[s + 1]), held[s])
      BY <1>1, <3>3, KeptAppend
    <3>5. Kept(log[s], lost[s + 1]) = Entered(s + 1)
      BY <1>1, <2>1, <2>3, <3>1, ConcatEmptySeq
    <3>6. Append(Entered(s + 1), held[s]) = Entered(s + 1) \o <<held[s]>>
      BY <1>1, <3>1, AppendIsConcat
    <3> QED
      BY <1>1, <2>0, <2>3, <3>4, <3>5, <3>6
  <2> QED
    BY <2>2, <2>3
<1>7. StagesAreFifo'
  BY <1>6 DEF StagesAreFifo, Entered
<1> QED
  BY <1>3, <1>4, <1>5, <1>7 DEF SeqInv

LEMMA HandOverSeq ==
    ASSUME TypeOK, PackageInv, NEW s \in Stages, HandOver(s)
    PROVE  SeqInv'
<1>1. /\ s + 1 \in Stages /\ s < NStages /\ held[s] \in Packages
      /\ Entered(s + 1)' = Append(Entered(s + 1), held[s])
      /\ \A t \in Stages \ {s + 1} : Entered(t)' = Entered(t)
      /\ \A t \in Stages \ {s} : Leaving(t)' = Leaving(t)
      /\ Leaving(s)' = <<>>
  BY HandOverEnters DEF PackageInv
<1>2. /\ InSeq(held[s], log[s])
      /\ Kept(log[s], lost[s + 1]) = Append(Entered(s + 1), held[s])
      /\ ~InSeq(held[s], Entered(s + 1))
      /\ held[s] \notin lost[s + 1]
      /\ \A r \in Stages : r <= s => InSeq(held[s], log[r])
  BY HandedOver DEF HandOver
<1>3. log' = log /\ lost' = lost
  BY DEF HandOver
<1>4. Entered(s + 1) \in Seq(Packages)
  BY <1>1, EnteredType DEF PackageInv
<1>5. /\ Append(Entered(s + 1), held[s]) \in Seq(Packages)
      /\ \A p : InSeq(p, Append(Entered(s + 1), held[s])) <=> InSeq(p, Entered(s + 1)) \/ p = held[s]
      /\ Distinct(Append(Entered(s + 1), held[s])) <=>
            Distinct(Entered(s + 1)) /\ ~InSeq(held[s], Entered(s + 1))
  BY <1>1, <1>4, AppendFacts
<1>6. EnteredOnce'
  BY <1>1, <1>2, <1>5 DEF PackageInv, EnteredOnce
<1>7. LostIsGone'
  BY <1>1, <1>2, <1>3, <1>5 DEF PackageInv, LostIsGone
<1>8. CameThrough'
  <2>1. \A r \in Stages : r < s + 1 => r <= s
    BY DEF Stages
  <2> QED
    BY <1>1, <1>2, <1>3, <1>5, <2>1 DEF PackageInv, CameThrough
<1>9. OutIsLast'
  BY <1>3 DEF PackageInv, OutIsLast, HandOver, TypeOK
<1>10. ASSUME NEW t \in 1..(NStages - 1)
       PROVE  Kept(log'[t], lost'[t + 1]) = (Entered(t + 1) \o Leaving(t))'
  <2>1. t \in Stages /\ t + 1 \in Stages
    BY FifoOf
  <2>2. CASE t = s
    <3>1. (Entered(t + 1) \o Leaving(t))' = Append(Entered(s + 1), held[s]) \o <<>>
      BY <1>1, <2>2
    <3>2. Append(Entered(s + 1), held[s]) \o <<>> = Append(Entered(s + 1), held[s])
      BY <1>5, ConcatEmptySeq
    <3> QED
      BY <1>2, <1>3, <2>2, <3>1, <3>2
  <2>3. CASE t # s
    <3>1. t + 1 # s + 1
      BY <2>3 DEF Stages
    <3>2. Kept(log[t], lost[t + 1]) = Entered(t + 1) \o Leaving(t)
      BY DEF PackageInv, StagesAreFifo, Entered
    <3> QED
      BY <1>1, <1>3, <2>1, <2>3, <3>1, <3>2
  <2> QED
    BY <2>2, <2>3
<1>11. StagesAreFifo'
  BY <1>10 DEF StagesAreFifo, Entered
<1> QED
  BY <1>6, <1>7, <1>8, <1>9, <1>11 DEF SeqInv

LEMMA HandOverThrowsSeq ==
    ASSUME TypeOK, PackageInv, NEW s \in Stages, HandOverThrows(s)
    PROVE  SeqInv'
<1>1. /\ s + 1 \in Stages /\ s < NStages /\ held[s] \in Packages
      /\ \A t \in Stages : Entered(t)' = Entered(t)
      /\ \A t \in Stages \ {s} : Leaving(t)' = Leaving(t)
      /\ Leaving(s)' = <<>>
  BY ThrowDrops DEF PackageInv
<1>2. /\ InSeq(held[s], log[s])
      /\ Kept(log[s], lost[s + 1]) = Append(Entered(s + 1), held[s])
      /\ ~InSeq(held[s], Entered(s + 1))
      /\ held[s] \notin lost[s + 1]
      /\ \A r \in Stages : r <= s => InSeq(held[s], log[r])
  BY HandedOver DEF HandOverThrows
<1>3. log' = log
  BY DEF HandOverThrows
<1>4. \A t \in Stages : lost'[t] = IF t = s + 1 THEN lost[s + 1] \cup {held[s]} ELSE lost[t]
  BY <1>1 DEF HandOverThrows, TypeOK
<1>5. EnteredOnce'
  BY <1>1 DEF PackageInv, EnteredOnce
<1>6. LostIsGone'
  BY <1>1, <1>2, <1>4 DEF PackageInv, LostIsGone
<1>7. CameThrough'
  <2>1. \A r \in Stages : r < s + 1 => r <= s
    BY DEF Stages
  <2> QED
    BY <1>1, <1>2, <1>3, <1>4, <2>1 DEF PackageInv, CameThrough
<1>8. OutIsLast'
  BY <1>3 DEF PackageInv, OutIsLast, HandOverThrows, TypeOK
<1>9. Kept(log[s], lost[s + 1] \cup {held[s]}) = Entered(s + 1)
  <2>1. log[s] \in Seq(Packages) /\ log[s] # <<>> /\ log[s][Len(log[s])] = held[s]
    BY DEF PackageInv, OutIsLast, HandOverThrows, TypeOK
  <2>2. PICK q \in Seq(Packages), e \in Packages : log[s] = Append(q, e)
    BY <2>1, SequenceEmptyOrAppend
  <2>3. e = held[s]
    BY <2>1, <2>2, AppendProperties
  <2>4. ~InSeq(held[s], q)
    <3>1. Distinct(log[s] \o Entering(s))
      BY EnteredType, ConcatFacts DEF PackageInv, EnteredOnce, Entered
    <3>2. Distinct(log[s])
      BY <3>1, EnteredType, ConcatFacts DEF PackageInv
    <3> QED
      BY <2>2, <2>3, <3>2, AppendFacts
  <2>5. Kept(log[s], lost[s + 1] \cup {held[s]}) = Kept(q, lost[s + 1] \cup {held[s]})
    BY <2>2, <2>3, KeptAppend
  <2>6. Kept(q, lost[s + 1] \cup {held[s]}) = Kept(q, lost[s + 1])
    BY <2>4, KeptSame
  <2>7. Kept(log[s], lost[s + 1]) = Append(Kept(q, lost[s + 1]), held[s])
    BY <1>2, <2>2, <2>3, KeptAppend
  <2>8. Kept(q, lost[s + 1]) \in Seq(Packages) /\ Entered(s + 1) \in Seq(Packages)
    BY <1>1, KeptFacts, EnteredType DEF PackageInv
  <2>9. Kept(q, lost[s + 1]) = Entered(s + 1)
    BY <1>1, <1>2, <2>7, <2>8, AppendInjective
  <2> QED
    BY <2>5, <2>6, <2>9
<1>10. ASSUME NEW t \in 1..(NStages - 1)
       PROVE  Kept(log'[t], lost'[t + 1]) = (Entered(t + 1) \o Leaving(t))'
  <2>1. t \in Stages /\ t + 1 \in Stages
    BY FifoOf
  <2>2. CASE t = s
    <3>1. (Entered(t + 1) \o Leaving(t))' = Entered(s + 1) \o <<>>
      BY <1>1, <2>2
    <3>2. Entered(s + 1) \o <<>> = Entered(s + 1)
      BY <1>1, EnteredType, ConcatEmptySeq DEF PackageInv
    <3> QED
      BY <1>1, <1>3, <1>4, <1>9, <2>2, <3>1, <3>2
  <2>3. CASE t # s
    <3>1. t + 1 # s + 1
      BY <2>3 DEF Stages
    <3>2. Kept(log[t], lost[t + 1]) = Entered(t + 1) \o Leaving(t)
      BY DEF PackageInv, StagesAreFifo, Entered
    <3> QED
      BY <1>1, <1>3, <1>4, <2>1, <2>3, <3>1, <3>2
  <2> QED
    BY <2>2, <2>3
<1>11. StagesAreFifo'
  BY <1>10 DEF StagesAreFifo, Entered
<1> QED
  BY <1>5, <1>6, <1>7, <1>8, <1>11 DEF SeqInv

(* The package part of the invariant is inductive.                         *)
LEMMA PackageInvStep ==
    ASSUME TypeOK, PackageInv, TypeOK', PackageStep \/ ControlStep,
           ControlStep => MovesNothing
    PROVE  PackageInv'
<1>1. SeqInv
  BY DEF PackageInv, SeqInv
<1>2. ASSUME NEW c \in Callers, NEW p \in Packages, AddCounts(c, p)
      PROVE  SeqInv'
  BY <1>1, <1>2, SameSequences DEF AddCounts, Entered, Entering, Leaving
<1>3. ASSUME NEW s \in Stages, TakePackage(s)
      PROVE  SeqInv'
  <2>1. \A t \in Stages : spc'[t] = "out" => spc[t] = "out" /\ held'[t] = held[t]
    BY <1>3 DEF TakePackage, TypeOK
  <2> QED
    BY <1>1, <1>3, <2>1, TakeStays, SameSequences DEF TakePackage, PackageInv
<1>4. ASSUME NEW s \in Stages, LastSubtracts(s)
      PROVE  SeqInv'
  BY <1>1, <1>4, SameSequences DEF LastSubtracts, Entered, Entering, Leaving, TypeOK
<1>5. ASSUME MovesNothing
      PROVE  SeqInv'
  <2>1. /\ input' = input /\ log' = log /\ held' = held /\ lost' = lost
        /\ \A t \in Stages : (spc'[t] = "run" <=> spc[t] = "run") /\ (spc'[t] = "out" <=> spc[t] = "out")
    BY <1>5 DEF MovesNothing
  <2>2. \A t \in Stages : Entered(t)' = Entered(t) /\ Leaving(t)' = Leaving(t)
    BY <2>1 DEF Entered, Entering, Leaving
  <2>3. \A t \in Stages : spc'[t] = "out" => spc[t] = "out" /\ held'[t] = held[t]
    BY <2>1
  <2> QED
    BY <1>1, <2>1, <2>2, <2>3, SameSequences
<1>6. SeqInv'
  <2>1. ASSUME NEW c \in Callers, AddEnqueues(c) \/ AddThrows(c)
        PROVE  SeqInv'
    BY <2>1, AddEnqueuesSeq, AddThrowsSeq
  <2>2. ASSUME NEW s \in Stages, RunStage(s) \/ HandOver(s) \/ HandOverThrows(s)
        PROVE  SeqInv'
    BY <2>2, RunStageSeq, HandOverSeq, HandOverThrowsSeq
  <2>3. CASE PackageStep
    BY <1>2, <1>3, <1>4, <2>1, <2>2, <2>3 DEF PackageStep
  <2> QED
    BY <1>5, <2>3
<1>7. StageRoles' /\ HandsAreFull'
  BY StageRolesStep, HandsAreFullStep DEF PackageInv
<1>8. AddingIsNew'
  BY <1>7, AddingIsNewStep
<1> QED
  BY <1>6, <1>7, <1>8 DEF SeqInv, PackageInv

-----------------------------------------------------------------------------
(* The counter.                                                            *)

(* A pending package has been given to add().                              *)
LEMMA PendingIsNotNew ==
    ASSUME TypeOK, PackageInv, NEW p \in Pending
    PROVE  ~IsNew(p)
<1>1. ASSUME IsNew(p)
      PROVE  FALSE
  <2>1. /\ p \notin lost[1] /\ \A c \in Callers : adding[c] # p
        /\ ~InSeq(p, input[1]) /\ held[1] # p /\ ~InSeq(p, log[1])
    BY <1>1 DEF IsNew
  <2>2. PICK s \in Stages : InSeq(p, input[s]) \/ held[s] = p \/ p \in lost[s]
    BY <2>1 DEF Pending, InFlight, IsLost
  <2>3. s # 1 /\ 1 \in Stages /\ 1 < s /\ 1 <= s /\ p \in Packages
    BY <2>1, <2>2, StageNumbers DEF Stages, Pending
  <2>4. CASE InSeq(p, input[s]) \/ p \in lost[s]
    BY <2>1, <2>3, <2>4, EnteredFacts DEF PackageInv, CameThrough
  <2>5. CASE held[s] = p
    <3>1. spc[s] = "run" \/ spc[s] = "out"
      BY <2>3, <2>5 DEF PackageInv, HandsAreFull
    <3>2. CASE spc[s] = "run"
      BY <2>1, <2>3, <2>5, <3>2, EnteredFacts DEF PackageInv, CameThrough
    <3>3. CASE spc[s] = "out"
      BY <2>1, <2>3, <2>5, <3>3, HandedOver
    <3> QED
      BY <3>1, <3>2, <3>3
  <2> QED
    BY <2>2, <2>4, <2>5
<1> QED
  BY <1>1

(* The package in the hands of the last stage is pending nowhere else.     *)
LEMMA LastHasItAlone ==
    ASSUME TypeOK, PackageInv, spc[NStages] = "run"
    PROVE  /\ held[NStages] \in Packages
           /\ \A c \in Callers : adding[c] # held[NStages]
           /\ \A s \in Stages : ~InSeq(held[NStages], input[s]) /\ held[NStages] \notin lost[s]
           /\ \A s \in Stages : s # NStages => held[s] # held[NStages]
<1> DEFINE N == NStages
           h == held[N]
<1>1. N \in Stages /\ 1 \in Stages
  BY StageNumbers
<1>2. h \in Packages
  BY <1>1 DEF PackageInv, HandsAreFull
<1>3. InSeq(h, Entered(N)) /\ ~InSeq(h, input[N]) /\ ~InSeq(h, log[N]) /\ h \notin lost[N]
  BY <1>1, EnteredFacts DEF PackageInv, EnteredOnce, LostIsGone
<1>4. \A r \in Stages \ {N} : r < N /\ InSeq(h, log[r])
  BY <1>1, <1>2, <1>3 DEF PackageInv, CameThrough, Stages
<1>5. \A r \in Stages : InSeq(h, Entered(r))
  BY <1>3, <1>4, EnteredFacts DEF PackageInv
<1>6. \A c \in Callers : adding[c] # h
  BY <1>1, <1>2, <1>5 DEF PackageInv, AddingIsNew
<1>7. ASSUME NEW s \in Stages, s # N
      PROVE  ~InSeq(h, input[s]) /\ h \notin lost[s] /\ held[s] # h
  <2>1. ~InSeq(h, input[s]) /\ ~(spc[s] = "run" /\ held[s] = h)
    BY <1>4, <1>7, EnteredFacts DEF PackageInv, EnteredOnce
  <2>2. h \notin lost[s]
    BY <1>5 DEF PackageInv, LostIsGone
  <2>3. ASSUME held[s] = h
        PROVE  FALSE
    <3>1. spc[s] = "out"
      BY <1>2, <2>1, <2>3 DEF PackageInv, HandsAreFull
    <3>2. ~InSeq(h, Entered(s + 1)) /\ s + 1 \in Stages
      BY <2>3, <3>1, HandedOver
    <3> QED
      BY <1>5, <3>2
  <2> QED
    BY <2>1, <2>2, <2>3
<1> QED
  BY <1>2, <1>3, <1>6, <1>7

(* Membership of one package in Pending and in Pending'.                   *)
LEMMA PendingStep ==
    ASSUME NEW p \in Packages
    PROVE  /\ p \in Pending <=>
                 \/ \E c \in Callers : adding[c] = p
                 \/ \E s \in Stages : InSeq(p, input[s]) \/ held[s] = p \/ p \in lost[s]
           /\ p \in Pending' <=>
                 \/ \E c \in Callers : adding'[c] = p
                 \/ \E s \in Stages : InSeq(p, input'[s]) \/ held'[s] = p \/ p \in lost'[s]
  BY DEF Pending, InFlight, IsLost

LEMMA CountStep ==
    ASSUME TypeOK, PackageInv, PendingIsFinite, CountIsInFlight, TypeOK',
           PackageStep \/ MovesNothing
    PROVE  PendingIsFinite' /\ CountIsInFlight'
<1>0. /\ 1 \in Stages /\ NStages \in Stages
      /\ nEnqueued = Cardinality(Pending) + (IF spc[NStages] = "sub" THEN 1 ELSE 0)
      /\ Cardinality(Pending) \in Nat /\ IsFiniteSet(Pending)
  BY StageNumbers, FS_CardinalityType DEF PendingIsFinite, CountIsInFlight, Pending
<1>1. ASSUME Pending' = Pending, nEnqueued' = nEnqueued,
             spc'[NStages] = "sub" <=> spc[NStages] = "sub"
      PROVE  PendingIsFinite' /\ CountIsInFlight'
  BY <1>0, <1>1 DEF PendingIsFinite, CountIsInFlight, Pending
<1>2. ASSUME NEW c \in Callers, NEW p \in Packages, AddCounts(c, p)
      PROVE  PendingIsFinite' /\ CountIsInFlight'
  <2>1. p \notin Pending
    BY <1>2, PendingIsNotNew DEF AddCounts
  <2>2. adding'[c] = p /\ \A d \in Callers \ {c} : adding'[d] = adding[d]
    BY <1>2 DEF AddCounts, TypeOK
  <2>3. adding[c] \notin Packages
    BY <1>2 DEF AddCounts, PackageInv, HandsAreFull
  <2>4. input' = input /\ held' = held /\ lost' = lost /\ spc' = spc /\ nEnqueued' = nEnqueued + 1
    BY <1>2 DEF AddCounts
  <2>5. \A q \in Packages : q \in Pending' <=> q \in Pending \cup {p}
    BY <2>2, <2>3, <2>4, PendingStep
  <2>6. Pending' = Pending \cup {p}
    BY <2>5 DEF Pending
  <2>7. IsFiniteSet(Pending') /\ Cardinality(Pending') = Cardinality(Pending) + 1
    BY <1>0, <2>1, <2>6, FS_AddElement
  <2> QED
    BY <1>0, <2>4, <2>7 DEF PendingIsFinite, CountIsInFlight, Pending
<1>3. ASSUME NEW c \in Callers, AddEnqueues(c)
      PROVE  PendingIsFinite' /\ CountIsInFlight'
  <2>1. adding[c] \in Packages /\ input[1] \in Seq(Packages)
    BY <1>0, <1>3 DEF AddEnqueues, PackageInv, HandsAreFull, TypeOK
  <2>2. \A q : InSeq(q, Append(input[1], adding[c])) <=> InSeq(q, input[1]) \/ q = adding[c]
    BY <2>1, AppendFacts
  <2>3. /\ \A d \in Callers : adding'[d] = IF d = c THEN NoPackage ELSE adding[d]
        /\ \A s \in Stages : input'[s] = IF s = 1 THEN Append(input[1], adding[c]) ELSE input[s]
        /\ held' = held /\ lost' = lost /\ spc' = spc /\ nEnqueued' = nEnqueued
    BY <1>3 DEF AddEnqueues, TypeOK
  <2>4. \A q \in Packages : q \in Pending' <=> q \in Pending
    BY <1>0, <2>1, <2>2, <2>3, NoPackageAssumption, PendingStep
  <2>5. Pending' = Pending
    BY <2>4 DEF Pending
  <2> QED
    BY <1>1, <2>3, <2>5
<1>4. ASSUME NEW c \in Callers, AddThrows(c)
      PROVE  PendingIsFinite' /\ CountIsInFlight'
  <2>1. /\ \A d \in Callers : adding'[d] = IF d = c THEN NoPackage ELSE adding[d]
        /\ \A s \in Stages : lost'[s] = IF s = 1 THEN lost[1] \cup {adding[c]} ELSE lost[s]
        /\ held' = held /\ input' = input /\ spc' = spc /\ nEnqueued' = nEnqueued
    BY <1>4 DEF AddThrows, TypeOK
  <2>2. \A q \in Packages : q \in Pending' <=> q \in Pending
    BY <1>0, <2>1, NoPackageAssumption, PendingStep
  <2>3. Pending' = Pending
    BY <2>2 DEF Pending
  <2> QED
    BY <1>1, <2>1, <2>3
<1>5. ASSUME NEW s \in Stages, TakePackage(s)
      PROVE  PendingIsFinite' /\ CountIsInFlight'
  <2>1. input[s] \in Seq(Packages) /\ input[s] # <<>>
    BY <1>5 DEF TakePackage, TypeOK
  <2>2. \A q : InSeq(q, input[s]) <=> q = Head(input[s]) \/ InSeq(q, Tail(input[s]))
    <3> DEFINE h == <<Head(input[s])>>
               r == Tail(input[s])
    <3>1. Head(input[s]) \in Packages /\ r \in Seq(Packages) /\ input[s] = h \o r
      BY <2>1, HeadTailProperties
    <3>2. h \in Seq(Packages) /\ \A q : InSeq(q, h) <=> q = Head(input[s])
      BY <3>1, SingleFacts
    <3> HIDE DEF h, r
    <3>3. \A q : InSeq(q, h \o r) <=> InSeq(q, h) \/ InSeq(q, r)
      BY <3>1, <3>2, ConcatFacts
    <3> QED
      BY <3>1, <3>2, <3>3 DEF r
  <2>3. held[s] \notin Packages
    BY <1>5 DEF TakePackage, PackageInv, HandsAreFull
  <2>4. /\ \A t \in Stages : input'[t] = IF t = s THEN Tail(input[s]) ELSE input[t]
        /\ \A t \in Stages : held'[t] = IF t = s THEN Head(input[s]) ELSE held[t]
        /\ adding' = adding /\ lost' = lost /\ nEnqueued' = nEnqueued
        /\ spc'[NStages] = "sub" <=> spc[NStages] = "sub"
    BY <1>0, <1>5 DEF TakePackage, TypeOK
  <2>5. \A q \in Packages : q \in Pending' <=> q \in Pending
    BY <2>2, <2>3, <2>4, PendingStep
  <2>6. Pending' = Pending
    BY <2>5 DEF Pending
  <2> QED
    BY <1>1, <2>4, <2>6
<1>6. ASSUME NEW s \in Stages, RunStage(s), s < NStages
      PROVE  PendingIsFinite' /\ CountIsInFlight'
  <2>1. /\ UNCHANGED <<input, held, adding, lost, nEnqueued>>
        /\ spc'[NStages] = "sub" <=> spc[NStages] = "sub"
    BY <1>0, <1>6 DEF RunStage, TypeOK
  <2>2. Pending' = Pending
    BY <2>1 DEF Pending, InFlight, IsLost
  <2> QED
    BY <1>1, <2>1, <2>2
<1>7. ASSUME NEW s \in Stages, RunStage(s), ~(s < NStages)
      PROVE  PendingIsFinite' /\ CountIsInFlight'
  <2>1. s = NStages /\ spc[NStages] = "run"
    BY <1>7, StagesAssumption DEF RunStage, Stages
  <2> DEFINE h == held[NStages]
  <2>2. /\ h \in Packages /\ \A c \in Callers : adding[c] # h
        /\ \A t \in Stages : ~InSeq(h, input[t]) /\ h \notin lost[t]
        /\ \A t \in Stages : t # NStages => held[t] # h
    BY <2>1, LastHasItAlone
  <2>3. /\ UNCHANGED <<input, adding, lost, nEnqueued>>
        /\ spc'[NStages] = "sub"
        /\ \A t \in Stages : held'[t] = IF t = NStages THEN NoPackage ELSE held[t]
    BY <1>0, <1>7, <2>1 DEF RunStage, TypeOK
  <2>4. h \in Pending
    BY <1>0, <2>2, PendingStep
  <2> HIDE DEF h
  <2>5. \A q \in Packages : q \in Pending' <=> q \in Pending \ {h}
    <3>1. h \notin Pending'
      <4>1. h # NoPackage /\ \A t \in Stages : held'[t] # h
        BY <2>2, <2>3, NoPackageAssumption
      <4>2. /\ \A c \in Callers : adding'[c] # h
            /\ \A t \in Stages : ~InSeq(h, input'[t]) /\ h \notin lost'[t]
        BY <2>2, <2>3
      <4> QED
        BY <2>2, <4>1, <4>2, PendingStep
    <3>2. \A q \in Packages \ {h} : q \in Pending' <=> q \in Pending
      BY <1>0, <2>2, <2>3, NoPackageAssumption, PendingStep DEF h
    <3> QED
      BY <3>1, <3>2
  <2>6. Pending' = Pending \ {h}
    BY <2>5 DEF Pending
  <2>7. IsFiniteSet(Pending') /\ Cardinality(Pending') = Cardinality(Pending) - 1
    BY <1>0, <2>4, <2>6, FS_RemoveElement
  <2> QED
    BY <1>0, <2>1, <2>3, <2>7 DEF PendingIsFinite, CountIsInFlight, Pending
<1>8. ASSUME NEW s \in Stages, HandOver(s)
      PROVE  PendingIsFinite' /\ CountIsInFlight'
  <2>1. s + 1 \in Stages /\ s # NStages /\ held[s] \in Packages /\ input[s + 1] \in Seq(Packages)
    BY <1>8, StageNumbers DEF HandOver, PackageInv, HandsAreFull, StageRoles, TypeOK, Stages
  <2>2. \A q : InSeq(q, Append(input[s + 1], held[s])) <=> InSeq(q, input[s + 1]) \/ q = held[s]
    BY <2>1, AppendFacts
  <2>3. /\ \A t \in Stages : input'[t] = IF t = s + 1 THEN Append(input[s + 1], held[s]) ELSE input[t]
        /\ \A t \in Stages : held'[t] = IF t = s THEN NoPackage ELSE held[t]
        /\ adding' = adding /\ lost' = lost /\ nEnqueued' = nEnqueued
        /\ spc'[NStages] = "sub" <=> spc[NStages] = "sub"
    BY <1>0, <1>8, <2>1 DEF HandOver, TypeOK
  <2>4. \A q \in Packages : q \in Pending' <=> q \in Pending
    BY <2>1, <2>2, <2>3, NoPackageAssumption, PendingStep
  <2>5. Pending' = Pending
    BY <2>4 DEF Pending
  <2> QED
    BY <1>1, <2>3, <2>5
<1>9. ASSUME NEW s \in Stages, HandOverThrows(s)
      PROVE  PendingIsFinite' /\ CountIsInFlight'
  <2>1. s + 1 \in Stages /\ s # NStages /\ held[s] \in Packages
    BY <1>9, StageNumbers DEF HandOverThrows, PackageInv, HandsAreFull, StageRoles, Stages
  <2>2. /\ \A t \in Stages : lost'[t] = IF t = s + 1 THEN lost[s + 1] \cup {held[s]} ELSE lost[t]
        /\ \A t \in Stages : held'[t] = IF t = s THEN NoPackage ELSE held[t]
        /\ adding' = adding /\ input' = input /\ nEnqueued' = nEnqueued
        /\ spc'[NStages] = "sub" <=> spc[NStages] = "sub"
    BY <1>0, <1>9, <2>1 DEF HandOverThrows, TypeOK
  <2>3. \A q \in Packages : q \in Pending' <=> q \in Pending
    BY <2>1, <2>2, NoPackageAssumption, PendingStep
  <2>4. Pending' = Pending
    BY <2>3 DEF Pending
  <2> QED
    BY <1>1, <2>2, <2>4
<1>10. ASSUME NEW s \in Stages, LastSubtracts(s)
       PROVE  PendingIsFinite' /\ CountIsInFlight'
  <2>1. /\ s = NStages /\ spc[NStages] = "sub" /\ spc'[NStages] = "load"
        /\ UNCHANGED <<input, held, adding, lost>> /\ nEnqueued' = nEnqueued - 1
    BY <1>0, <1>10 DEF LastSubtracts, PackageInv, StageRoles, TypeOK
  <2>2. Pending' = Pending
    BY <2>1 DEF Pending, InFlight, IsLost
  <2>3. nEnqueued' = Cardinality(Pending') + 0 /\ IsFiniteSet(Pending')
    BY <1>0, <2>1, <2>2
  <2> QED
    BY <2>1, <2>3 DEF PendingIsFinite, CountIsInFlight, Pending
<1>11. CASE MovesNothing
  <2>1. Pending' = Pending
    BY <1>11 DEF MovesNothing, Pending, InFlight, IsLost
  <2> QED
    BY <1>0, <1>1, <1>11, <2>1 DEF MovesNothing
<1> QED
  BY <1>2, <1>3, <1>4, <1>5, <1>6, <1>7, <1>8, <1>9, <1>10, <1>11 DEF PackageStep

-----------------------------------------------------------------------------
(* Shutting down.                                                          *)

(* A step of a stage, or of a caller inside add().                         *)
LEMMA StageStopStep ==
    ASSUME IInv, PackageStep \/ \E s \in Stages : StageControl(s)
    PROVE  StopInv'
<1>0. TypeOK /\ StopInv /\ PackageInv /\ Stages \subseteq Nat
  BY StageNumbers DEF IInv
<1>1. ASSUME NEW c \in Callers, NEW v \in {"add", "signal", "idle"}, ~destroying,
             cpc' = [cpc EXCEPT ![c] = v],
             cpc[c] \in {"idle", "add", "signal"},
             UNCHANGED <<destroying, bDone, cur, spc>>
      PROVE  StopInv'
  <2>1. OneDestroyer' /\ StopMeansDone'
    BY <1>0, <1>1 DEF StopInv, OneDestroyer, StopMeansDone, AfterWait, TypeOK
  <2>2. DoneIsSet'
    BY <1>0, <1>1 DEF StopInv, DoneIsSet, TypeOK
  <2>3. ExitsWhenDone' /\ FreedHaveExited'
    BY <1>0, <1>1 DEF StopInv, ExitsWhenDone, FreedHaveExited, TypeOK
  <2> QED
    BY <2>1, <2>2, <2>3 DEF StopInv
<1>2. ASSUME NEW c \in Callers, NEW p \in Packages, AddCounts(c, p)
      PROVE  StopInv'
  BY <1>1, <1>2 DEF AddCounts
<1>3. ASSUME NEW c \in Callers, AddEnqueues(c) \/ AddThrows(c)
      PROVE  StopInv'
  <2>1. cpc[c] = "add" /\ UNCHANGED <<destroying, bDone, cur, spc>>
    BY <1>3 DEF AddEnqueues, AddThrows
  <2>2. PICK v \in {"signal", "idle"} : cpc' = [cpc EXCEPT ![c] = v]
    BY <1>3 DEF AddEnqueues, AddThrows
  <2>3. ~destroying
    BY <1>0, <2>1 DEF StopInv, OneDestroyer
  <2> QED
    BY <1>1, <2>1, <2>2, <2>3
<1>4. ASSUME \A t \in Stages : spc[t] = "exited" => spc'[t] = "exited",
             \A t \in Stages : spc'[t] = "exited" => spc[t] = "exited" \/ bDone,
             \A c \in Callers : cpc'[c] = cpc[c] \/ (cpc[c] = "waitAsleep" /\ cpc'[c] = "wait"),
             UNCHANGED <<destroying, bDone, cur>>,
             nEnqueued = 0 => nEnqueued' = 0
      PROVE  StopInv'
  <2>1. OneDestroyer' /\ StopMeansDone' /\ DoneIsSet'
    BY <1>0, <1>4 DEF StopInv, OneDestroyer, StopMeansDone, DoneIsSet, AfterWait
  <2>2. ExitsWhenDone' /\ FreedHaveExited'
    BY <1>0, <1>4 DEF StopInv, ExitsWhenDone, FreedHaveExited
  <2> QED
    BY <2>1, <2>2 DEF StopInv
<1>5. ASSUME NEW s \in Stages, NEW v \in StagePc, spc' = [spc EXCEPT ![s] = v],
             spc[s] # "exited", v = "exited" => bDone,
             UNCHANGED <<cpc, destroying, bDone, cur>>,
             nEnqueued = 0 => nEnqueued' = 0
      PROVE  StopInv'
  BY <1>0, <1>4, <1>5 DEF TypeOK
<1>6. ASSUME NEW s \in Stages, TakePackage(s) \/ RunStage(s) \/ HandOver(s) \/ HandOverThrows(s)
      PROVE  StopInv'
  <2>1. PICK v \in {"run", "out", "sub", "signalNext", "take"} : spc' = [spc EXCEPT ![s] = v]
    BY <1>6 DEF TakePackage, RunStage, HandOver, HandOverThrows
  <2>2. spc[s] # "exited" /\ UNCHANGED <<cpc, destroying, bDone, cur, nEnqueued>>
    BY <1>6 DEF TakePackage, RunStage, HandOver, HandOverThrows
  <2> QED
    BY <1>5, <2>1, <2>2 DEF StagePc
<1>7. ASSUME NEW s \in Stages, LastSubtracts(s)
      PROVE  StopInv'
  <2>1. nEnqueued # 0
    BY <1>7, SubtractsCounted DEF IInv, PackageInv, LastSubtracts
  <2> QED
    BY <1>5, <1>7, <2>1 DEF LastSubtracts, StagePc
<1>8. ASSUME NEW s \in Stages, TakeFindsNothing(s) \/ FallsAsleep(s) \/ TakeExits(s) \/ LastLoads(s)
      PROVE  StopInv'
  <2>1. PICK v \in {"sleepy", "asleep", "exited", "signalWait", "take"} : 
           spc' = [spc EXCEPT ![s] = v] /\ (v = "exited" => bDone)
    BY <1>8 DEF TakeFindsNothing, FallsAsleep, TakeExits, LastLoads
  <2>2. spc[s] # "exited" /\ UNCHANGED <<cpc, destroying, bDone, cur, nEnqueued>>
    BY <1>8 DEF TakeFindsNothing, FallsAsleep, TakeExits, LastLoads
  <2> QED
    BY <1>5, <2>1, <2>2 DEF StagePc
<1>9. ASSUME NEW s \in Stages, SignalNext(s) \/ LastSignals(s)
      PROVE  StopInv'
  <2>1. UNCHANGED <<destroying, bDone, cur, nEnqueued>>
    BY <1>9 DEF SignalNext, LastSignals
  <2>2. \A t \in Stages : spc'[t] = "exited" <=> spc[t] = "exited"
    BY <1>0, <1>9 DEF SignalNext, LastSignals, TypeOK
  <2>3. \A c \in Callers : cpc'[c] = cpc[c] \/ (cpc[c] = "waitAsleep" /\ cpc'[c] = "wait")
    BY <1>0, <1>9 DEF SignalNext, LastSignals, TypeOK
  <2> QED
    BY <1>4, <2>1, <2>2, <2>3
<1>10. ASSUME NEW s \in Stages, StageControl(s)
       PROVE  StopInv'
  BY <1>8, <1>9, <1>10 DEF StageControl
<1> QED
  BY <1>2, <1>3, <1>6, <1>7, <1>10 DEF PackageStep

(* A step of a caller outside add(), or a spurious wake-up.                *)
LEMMA CallerStopStep ==
    ASSUME IInv, \/ \E c \in Callers : CallerControl(c)
                 \/ SpuriousWakeup
                 \/ UNCHANGED vars
    PROVE  StopInv'
<1>0. TypeOK /\ StopInv /\ Stages \subseteq Nat /\ cur \in 1..(NStages + 1)
  BY StageNumbers DEF IInv, TypeOK
(* A caller moves between program counters that destroy() has not reached. *)
<1>1. ASSUME NEW c \in Callers, NEW v \in CallerPc, cpc' = [cpc EXCEPT ![c] = v],
             cpc[c] \notin AfterWait, v \notin AfterWait \cup {"add", "signal"},
             cpc[c] = "idle" => v = "idle" \/ ~destroying,
             UNCHANGED <<destroying, bDone, cur, nEnqueued>>,
             \A t \in Stages : spc'[t] = "exited" <=> spc[t] = "exited"
      PROVE  StopInv'
  <2>1. OneDestroyer'
    BY <1>0, <1>1 DEF StopInv, OneDestroyer, TypeOK
  <2>2. StopMeansDone' /\ DoneIsSet'
    BY <1>0, <1>1 DEF StopInv, StopMeansDone, DoneIsSet, AfterWait, TypeOK
  <2>3. ExitsWhenDone' /\ FreedHaveExited'
    BY <1>0, <1>1 DEF StopInv, ExitsWhenDone, FreedHaveExited, TypeOK, AfterWait
  <2> QED
    BY <2>1, <2>2, <2>3 DEF StopInv
<1>2. ASSUME NEW c \in Callers, AddSignals(c)
      PROVE  StopInv'
  <2>1. \A t \in Stages : spc'[t] = "exited" <=> spc[t] = "exited"
    BY <1>0, <1>2 DEF AddSignals, WakeStage, TypeOK
  <2> QED
    BY <1>1, <1>2, <2>1 DEF AddSignals, CallerPc, AfterWait
<1>3. ASSUME NEW c \in Callers, Wait(c) \/ WaitFindsWork(c) \/ WaitFallsAsleep(c)
      PROVE  StopInv'
  <2>1. PICK v \in {"wait", "waitSleepy", "waitAsleep"} : cpc' = [cpc EXCEPT ![c] = v]
    BY <1>3 DEF Wait, WaitFindsWork, WaitFallsAsleep
  <2>2. /\ UNCHANGED <<destroying, bDone, cur, nEnqueued, spc>>
        /\ cpc[c] \in {"idle", "wait", "waitSleepy"}
        /\ cpc[c] = "idle" => ~destroying
    BY <1>3 DEF Wait, WaitFindsWork, WaitFallsAsleep
  <2> QED
    BY <1>1, <2>1, <2>2 DEF CallerPc, AfterWait
<1>4. ASSUME NEW c \in Callers, WaitReturns(c), ~destroying
      PROVE  StopInv'
  BY <1>1, <1>4 DEF WaitReturns, CallerPc, AfterWait
<1>5. ASSUME NEW c \in Callers, WaitReturns(c), destroying
      PROVE  StopInv'
  <2>1. /\ nEnqueued = 0 /\ cpc[c] = "wait" /\ cpc' = [cpc EXCEPT ![c] = "setDone"]
        /\ UNCHANGED <<spc, nEnqueued, bDone, destroying, cur>>
    BY <1>0, <1>5 DEF WaitReturns, TypeOK
  <2>2. OneDestroyer' /\ StopMeansDone'
    BY <1>0, <1>5, <2>1 DEF StopInv, OneDestroyer, StopMeansDone, TypeOK
  <2>3. DoneIsSet' /\ ExitsWhenDone' /\ FreedHaveExited'
    BY <1>0, <2>1 DEF StopInv, DoneIsSet, ExitsWhenDone, FreedHaveExited, TypeOK
  <2> QED
    BY <2>2, <2>3 DEF StopInv
<1>6. ASSUME NEW c \in Callers, Destroy(c)
      PROVE  StopInv'
  <2>1. /\ \A d \in Callers : cpc[d] = "idle"
        /\ cpc' = [cpc EXCEPT ![c] = "wait"] /\ destroying' = TRUE
        /\ UNCHANGED <<spc, nEnqueued, bDone, cur>>
    BY <1>6 DEF Destroy
  <2>2. \A d \in Callers : cpc'[d] = IF d = c THEN "wait" ELSE "idle"
    BY <1>0, <2>1 DEF TypeOK
  <2>3. OneDestroyer' /\ StopMeansDone'
    BY <2>2 DEF OneDestroyer, StopMeansDone, AfterWait
  <2>4. DoneIsSet' /\ ExitsWhenDone' /\ FreedHaveExited'
    BY <1>0, <2>1, <2>2 DEF StopInv, DoneIsSet, ExitsWhenDone, FreedHaveExited
  <2> QED
    BY <2>3, <2>4 DEF StopInv
<1>7. ASSUME NEW c \in Callers, cpc[c] \in AfterWait
      PROVE  destroying /\ nEnqueued = 0 /\ \A d \in Callers \ {c} : cpc[d] = "idle"
  BY <1>0, <1>7 DEF StopInv, OneDestroyer, StopMeansDone, AfterWait
<1>8. ASSUME NEW c \in Callers, SetDone(c)
      PROVE  StopInv'
  <2>1. /\ cpc[c] = "setDone" /\ cpc' = [cpc EXCEPT ![c] = "kick"] /\ bDone' = TRUE
        /\ UNCHANGED <<spc, nEnqueued, destroying, cur>>
    BY <1>8 DEF SetDone
  <2>2. destroying /\ nEnqueued = 0 /\ \A d \in Callers \ {c} : cpc[d] = "idle"
    BY <1>7, <2>1 DEF AfterWait
  <2>3. \A d \in Callers : cpc'[d] = IF d = c THEN "kick" ELSE "idle"
    BY <1>0, <2>1, <2>2 DEF TypeOK
  <2>4. ~bDone /\ cur = 1 /\ 1 \in Stages
    BY <1>0, <2>1, <2>2, StageNumbers DEF StopInv, DoneIsSet, FreedHaveExited
  <2>5. OneDestroyer' /\ StopMeansDone' /\ DoneIsSet'
    BY <2>1, <2>2, <2>3 DEF OneDestroyer, StopMeansDone, DoneIsSet
  <2>6. ExitsWhenDone' /\ FreedHaveExited'
    BY <1>0, <2>1, <2>4 DEF StopInv, ExitsWhenDone, FreedHaveExited
  <2> QED
    BY <2>5, <2>6 DEF StopInv
<1>9. ASSUME NEW c \in Callers, SignalStage(c)
      PROVE  StopInv'
  <2>1. /\ cpc[c] = "kick" /\ cpc' = [cpc EXCEPT ![c] = "join"]
        /\ UNCHANGED <<nEnqueued, destroying, cur, bDone>>
    BY <1>9 DEF SignalStage
  <2>2. destroying /\ nEnqueued = 0 /\ \A d \in Callers \ {c} : cpc[d] = "idle"
    BY <1>7, <2>1 DEF AfterWait
  <2>3. \A d \in Callers : cpc'[d] = IF d = c THEN "join" ELSE "idle"
    BY <1>0, <2>1, <2>2 DEF TypeOK
  <2>4. \A t \in Stages : spc'[t] = "exited" <=> spc[t] = "exited"
    BY <1>0, <1>9 DEF SignalStage, WakeStage, TypeOK
  <2>5. bDone /\ cur \in Stages
    BY <1>0, <2>1 DEF StopInv, DoneIsSet, FreedHaveExited
  <2>6. OneDestroyer' /\ StopMeansDone' /\ DoneIsSet'
    BY <2>1, <2>2, <2>3, <2>5 DEF OneDestroyer, StopMeansDone, DoneIsSet
  <2>7. ExitsWhenDone' /\ FreedHaveExited'
    BY <1>0, <2>1, <2>4, <2>5 DEF StopInv, ExitsWhenDone, FreedHaveExited
  <2> QED
    BY <2>6, <2>7 DEF StopInv
<1>10. ASSUME NEW c \in Callers, JoinStage(c)
       PROVE  StopInv'
  <2>1. /\ cpc[c] = "join" /\ spc[cur] = "exited" /\ cur' = cur + 1
        /\ cpc' = [cpc EXCEPT ![c] = IF cur = NStages THEN "destroyed" ELSE "kick"]
        /\ UNCHANGED <<nEnqueued, destroying, bDone, spc>>
    BY <1>10 DEF JoinStage
  <2>2. destroying /\ nEnqueued = 0 /\ \A d \in Callers \ {c} : cpc[d] = "idle"
    BY <1>7, <2>1 DEF AfterWait
  <2>3. \A d \in Callers : cpc'[d] = IF d = c THEN (IF cur = NStages THEN "destroyed" ELSE "kick")
                                     ELSE "idle"
    BY <1>0, <2>1, <2>2 DEF TypeOK
  <2>4. bDone /\ cur \in Stages
    BY <1>0, <2>1 DEF StopInv, DoneIsSet, FreedHaveExited
  <2>5. OneDestroyer' /\ StopMeansDone' /\ DoneIsSet'
    BY <2>1, <2>2, <2>3, <2>4 DEF OneDestroyer, StopMeansDone, DoneIsSet
  <2>6. ExitsWhenDone'
    BY <1>0, <2>1 DEF StopInv, ExitsWhenDone
  <2>7. \A s \in Stages : s < cur' => spc'[s] = "exited"
    BY <1>0, <2>1, <2>4 DEF StopInv, FreedHaveExited
  <2>8. \A d \in Callers : cpc'[d] \in {"kick", "join"} => cur' \in Stages
    BY <2>1, <2>3, <2>4, StagesAssumption DEF Stages
  <2>9. FreedHaveExited'
    BY <2>1, <2>4, <2>7, <2>8 DEF FreedHaveExited
  <2> QED
    BY <2>5, <2>6, <2>9 DEF StopInv
<1>11. ASSUME SpuriousWakeup \/ UNCHANGED vars
       PROVE  StopInv'
  <2>1. /\ UNCHANGED <<destroying, bDone, cur, nEnqueued>>
        /\ \A t \in Stages : spc'[t] = "exited" <=> spc[t] = "exited"
        /\ \A c \in Callers : cpc'[c] = cpc[c] \/ (cpc[c] = "waitAsleep" /\ cpc'[c] = "wait")
    BY <1>0, <1>11 DEF SpuriousWakeup, TypeOK, vars
  <2>2. OneDestroyer' /\ StopMeansDone' /\ DoneIsSet'
    BY <1>0, <2>1 DEF StopInv, OneDestroyer, StopMeansDone, DoneIsSet, AfterWait
  <2>3. ExitsWhenDone' /\ FreedHaveExited'
    BY <1>0, <2>1 DEF StopInv, ExitsWhenDone, FreedHaveExited
  <2> QED
    BY <2>2, <2>3 DEF StopInv
<1> QED
  BY <1>2, <1>3, <1>4, <1>5, <1>6, <1>8, <1>9, <1>10, <1>11 DEF CallerControl

-----------------------------------------------------------------------------
(* The theorems.                                                           *)

LEMMA InitEstablishes == Init => IInv
<1> SUFFICES ASSUME Init PROVE IInv
  OBVIOUS
<1>1. TypeOK
  <2>1. \A s \in Stages : input[s] \in Seq(Packages) /\ log[s] \in Seq(Packages)
    BY EmptySeq DEF Init
  <2>2. input \in [Stages -> Seq(Packages)] /\ log \in [Stages -> Seq(Packages)]
    BY <2>1 DEF Init
  <2>3. cur \in 1..(NStages + 1)
    BY StagesAssumption DEF Init
  <2>4. /\ spc \in [Stages -> StagePc] /\ cpc \in [Callers -> CallerPc]
        /\ held \in [Stages -> Packages \cup {NoPackage}]
        /\ adding \in [Callers -> Packages \cup {NoPackage}]
        /\ lost \in [Stages -> SUBSET Packages]
        /\ nEnqueued \in Nat /\ bDone \in BOOLEAN /\ destroying \in BOOLEAN
    BY DEF Init, StagePc, CallerPc
  <2> QED
    BY <2>2, <2>3, <2>4 DEF TypeOK
<1>2. StageRoles /\ HandsAreFull /\ AddingIsNew /\ OutIsLast
  BY NoPackageAssumption DEF Init, StageRoles, HandsAreFull, AddingIsNew, OutIsLast
<1>3. \A s \in Stages : Entered(s) = <<>> /\ Leaving(s) = <<>> /\ log[s] = <<>> /\ lost[s] = {}
  BY ConcatEmptySeq, EmptySeq DEF Init, Entered, Entering, Leaving
<1>4. EnteredOnce /\ LostIsGone
  BY <1>3, EmptyFacts DEF EnteredOnce, LostIsGone, Distinct
<1>5. CameThrough
  BY <1>3, EmptyFacts DEF CameThrough
<1>6. StagesAreFifo
  <2>1. ASSUME NEW s \in 1..(NStages - 1)
        PROVE  Kept(log[s], lost[s + 1])
                 = log[s + 1] \o Entering(s + 1) \o input[s + 1] \o Leaving(s)
    <3>1. s \in Stages /\ s + 1 \in Stages
      BY StagesAssumption DEF Stages
    <3>2. Kept(<<>>, {}) = <<>>
      <4>1. Kept(<<>>, {}) \in Seq(Packages) /\ \A p : ~InSeq(p, Kept(<<>>, {}))
        BY KeptFacts, EmptyFacts
      <4> DEFINE k == Kept(<<>>, {})
      <4>2. k \in Seq(Packages) /\ \A p : ~InSeq(p, k)
        BY <4>1
      <4> HIDE DEF k
      <4>3. k = <<>>
        <5>1. k # <<>> => InSeq(k[1], k)
          BY <4>2 DEF InSeq
        <5> QED
          BY <4>2, <5>1
      <4> QED
        BY <4>3 DEF k
    <3>3. Entered(s + 1) \o Leaving(s) = <<>>
      BY <1>3, <3>1, ConcatEmptySeq, EmptySeq
    <3> QED
      BY <1>3, <3>1, <3>2, <3>3 DEF Entered
  <2> QED
    BY <2>1 DEF StagesAreFifo
<1>7. PendingIsFinite /\ CountIsInFlight
  <2>1. Pending = {}
    BY NoPackageAssumption, EmptyFacts DEF Init, Pending, InFlight, IsLost
  <2>2. IsFiniteSet({}) /\ Cardinality({}) = 0
    BY FS_EmptySet
  <2>3. nEnqueued = 0 /\ spc[NStages] # "sub"
    BY StageNumbers DEF Init
  <2> QED
    BY <2>1, <2>2, <2>3 DEF PendingIsFinite, CountIsInFlight, Pending
<1>8. StopInv
  BY StageNumbers
     DEF Init, StopInv, OneDestroyer, StopMeansDone, DoneIsSet, ExitsWhenDone,
         FreedHaveExited, AfterWait, Stages
<1> QED
  BY <1>1, <1>2, <1>4, <1>5, <1>6, <1>7, <1>8 DEF IInv, PackageInv

LEMMA StepPreserves == IInv /\ [Next]_vars => IInv'
<1> SUFFICES ASSUME IInv, [Next]_vars PROVE IInv'
  OBVIOUS
<1>1. PackageStep \/ ControlStep
  BY StepCases
<1>2. /\ TypeOK /\ PackageInv /\ PendingIsFinite /\ CountIsInFlight /\ StopInv
      /\ StageRoles /\ HandsAreFull /\ FreedHaveExited
  BY DEF IInv, PackageInv, StopInv
<1>3. ControlStep => MovesNothing
  BY <1>2, ControlMovesNothing
<1>4. TypeOK'
  BY <1>1, <1>2, PackageStepType, ControlStepType
<1>5. PackageInv'
  BY <1>1, <1>2, <1>3, <1>4, PackageInvStep
<1>6. PendingIsFinite' /\ CountIsInFlight'
  BY <1>1, <1>2, <1>3, <1>4, CountStep
<1>7. StopInv'
  BY <1>1, StageStopStep, CallerStopStep DEF ControlStep
<1> QED
  BY <1>4, <1>5, <1>6, <1>7 DEF IInv

LEMMA Invariance == Spec => []IInv
  BY InitEstablishes, StepPreserves, PTL DEF Spec

(* Every variable of the pipeline keeps its type: in particular            *)
(* m_atomNEnqueued never goes below zero, and destroy() never joins a      *)
(* stage that does not exist.                                              *)
THEOREM TypeCorrect == Spec => []TypeOK
<1>1. IInv => TypeOK
  BY DEF IInv
<1> QED
  BY <1>1, Invariance, PTL

(* However many stages there are, packages neither overtake one another,   *)
(* nor are lost, duplicated or skipped between a stage and the next.       *)
THEOREM FifoBetweenStages == Spec => []StagesAreFifo
<1>1. IInv => StagesAreFifo
  BY DEF IInv, PackageInv
<1> QED
  BY <1>1, Invariance, PTL

(* m_atomNEnqueued is the number of packages on their way or dropped, and  *)
(* the one the last stage is about to subtract.                            *)
THEOREM CounterIsExact == Spec => []CountIsInFlight
<1>1. IInv => CountIsInFlight
  BY DEF IInv
<1> QED
  BY <1>1, Invariance, PTL

(* When the counter is zero no package is anywhere in the pipeline.        *)
LEMMA ZeroMeansNothingPending ==
    ASSUME IInv, nEnqueued = 0
    PROVE  Pending = {} /\ \A s \in Stages : input[s] = <<>> /\ held[s] \notin Packages
<1>1. IsFiniteSet(Pending) /\ Cardinality(Pending) \in Nat
  BY FS_CardinalityType DEF IInv, PendingIsFinite
<1>2. Cardinality(Pending) = 0
  BY <1>1 DEF IInv, CountIsInFlight, Pending
<1>3. Pending = {}
  BY <1>1, <1>2, FS_EmptySet
<1>4. ASSUME NEW s \in Stages
      PROVE  input[s] = <<>> /\ held[s] \notin Packages
  <2>1. input[s] \in Seq(Packages)
    BY DEF IInv, TypeOK
  <2>2. \A p \in Packages : ~InSeq(p, input[s]) /\ held[s] # p
    BY <1>3, PendingStep
  <2>3. input[s] = <<>>
    <3>1. SUFFICES ASSUME input[s] # <<>> PROVE FALSE
      OBVIOUS
    <3>2. 1 \in 1..Len(input[s]) /\ input[s][1] \in Packages
      BY <2>1, <3>1
    <3> QED
      BY <2>2, <3>2 DEF InSeq
  <2> QED
    BY <2>2, <2>3
<1> QED
  BY <1>3, <1>4

(* destroy() frees the queue, mutex and condition variable of a stage only *)
(* when no thread will touch them again.                                   *)
THEOREM StagesFreedUnused == Spec => []FreedIsUnused
<1>1. IInv => FreedIsUnused
  <2> SUFFICES ASSUME IInv, NEW s \in Stages, s < cur
               PROVE  /\ input[s] = <<>> /\ spc[s] = "exited"
                      /\ s > 1 => spc[s - 1] = "exited"
                      /\ \A c \in Callers : cpc[c] \notin {"add", "signal"}
    BY DEF IInv, FreedIsUnused
  <2>1. /\ spc[s] = "exited" /\ bDone
        /\ \A t \in Stages : t < cur => spc[t] = "exited"
    BY StageNumbers DEF IInv, StopInv, FreedHaveExited, ExitsWhenDone
  <2>2. destroying /\ nEnqueued = 0
    BY <2>1 DEF IInv, StopInv, DoneIsSet, StopMeansDone, AfterWait
  <2>3. input[s] = <<>>
    BY <2>2, ZeroMeansNothingPending
  <2>4. s > 1 => s - 1 \in Stages /\ s - 1 < cur
    BY StagesAssumption DEF Stages, IInv, TypeOK
  <2>5. \A c \in Callers : cpc[c] \notin {"add", "signal"}
    BY <2>2 DEF IInv, StopInv, OneDestroyer
  <2> QED
    BY <2>1, <2>3, <2>4, <2>5
<1> QED
  BY <1>1, Invariance, PTL

(* When nothing is pending, what the first stage has done the last stage   *)
(* has done: by induction over the stages, each of which has kept all of   *)
(* what its predecessor did.                                               *)
LEMMA AllTheWay ==
    ASSUME IInv, nEnqueued = 0, NEW p \in Packages, InSeq(p, log[1])
    PROVE  InSeq(p, log[NStages])
<1>1. TypeOK /\ HandsAreFull /\ StagesAreFifo
  BY DEF IInv, PackageInv
<1>2. Pending = {} /\ \A s \in Stages : input[s] = <<>> /\ held[s] \notin Packages
  BY ZeroMeansNothingPending
<1>3. ASSUME NEW s \in Nat, s \in Stages, s + 1 \in Stages, InSeq(p, log[s])
      PROVE  InSeq(p, log[s + 1])
  <2>1. p \notin lost[s + 1]
    BY <1>2, <1>3, PendingStep
  <2>2. Leaving(s) = <<>> /\ Entering(s + 1) = <<>> /\ input[s + 1] = <<>>
    BY <1>1, <1>2, <1>3 DEF HandsAreFull, Leaving, Entering
  <2>3. Kept(log[s], lost[s + 1]) = log[s + 1] \o <<>> \o <<>> \o <<>>
    <3>1. s \in 1..(NStages - 1)
      BY <1>3, StagesAssumption DEF Stages
    <3> QED
      BY <1>1, <2>2, <3>1 DEF StagesAreFifo
  <2>4. log[s] \in Seq(Packages) /\ log[s + 1] \in Seq(Packages)
    BY <1>1, <1>3 DEF TypeOK
  <2>5. Kept(log[s], lost[s + 1]) = log[s + 1]
    BY <2>3, <2>4, ConcatEmptySeq
  <2>6. InSeq(p, Kept(log[s], lost[s + 1]))
    BY <1>3, <2>1, <2>4, KeptFacts
  <2> QED
    BY <2>5, <2>6
<1> DEFINE T == {n \in Nat : n + 1 \in Stages => InSeq(p, log[n + 1])}
<1>4. 0 \in T
  OBVIOUS
<1>5. ASSUME NEW n \in Nat, n \in T
      PROVE  n + 1 \in T
  <2>1. (n + 1) + 1 \in Stages => n + 1 \in Stages
    BY StagesAssumption DEF Stages
  <2>2. n + 1 \in Nat
    OBVIOUS
  <2> QED
    BY <1>3, <1>5, <2>1, <2>2
<1> HIDE DEF T
<1>6. Nat \subseteq T
  BY <1>4, <1>5, NatSetInduction
<1>7. NStages - 1 \in Nat /\ (NStages - 1) + 1 = NStages /\ NStages \in Stages
  BY StagesAssumption DEF Stages
<1> QED
  BY <1>6, <1>7 DEF T

(* When wait() returns, every package given to add() before has been       *)
(* through the last stage.                                                 *)
THEOREM WaitWaits == Spec => WaitMeansProcessed
<1>1. IInv /\ [Next]_vars =>
        [\A c \in Callers : WaitReturns(c) =>
            \A p \in Packages : IsNew(p) \/ InSeq(p, log[NStages])]_vars
  <2> SUFFICES ASSUME IInv, NEW c \in Callers, WaitReturns(c),
                      NEW p \in Packages, ~IsNew(p)
               PROVE  InSeq(p, log[NStages])
    OBVIOUS
  <2>1. nEnqueued = 0
    BY DEF WaitReturns, IInv, TypeOK
  <2>2. Pending = {} /\ 1 \in Stages
    BY <2>1, ZeroMeansNothingPending, StageNumbers
  <2>3. /\ \A d \in Callers : adding[d] # p
        /\ ~InSeq(p, input[1]) /\ held[1] # p /\ p \notin lost[1]
    BY <2>2, PendingStep
  <2>4. InSeq(p, log[1])
    BY <2>3 DEF IsNew
  <2> QED
    BY <2>1, <2>4, AllTheWay
<1> QED
  BY <1>1, Invariance, PTL DEF Spec, WaitMeansProcessed
=============================================================================
