-------------------------- MODULE QueueMPMCProofs --------------------------
(***************************************************************************)
(* Proofs about QueueMPMC, for any number of threads and of pushes, any    *)
(* width of an int and any capacity from two up: a thread has its cell to  *)
(* itself, the ring is a FIFO queue, and its refusals are justified.       *)
(***************************************************************************)
EXTENDS QueueMPMC, ProofLemmas

-----------------------------------------------------------------------------
(* Numbers that wrap around                                                *)

Half == 2^(Width - 1)

Around == 2^Width

LEMMA Widths ==
    /\ Cap \in Nat \ {0} /\ MaxPushes \in Nat
    /\ Half \in Nat /\ Around = 2 * Half /\ Around \in Nat \ {0}
    /\ Cap < Half /\ 2 * Cap <= Half
    /\ Ints = (0 - Half)..(Half - 1)
    /\ \E q \in Int : Around = Cap * q
<1>1. Cap \in Nat \ {0} /\ MaxPushes \in Nat /\ Half \in Nat /\ Around = 2 * Half
      /\ Cap < Half /\ Half % Cap = 0
  BY CapAssumption, WidthAssumption, PowersAssumption, MaxPushesAssumption DEF Half, Around
<1>2. Around \in Nat \ {0}
  BY <1>1
<1>3. PICK q \in Int, r \in 0..(Cap - 1) : Half = Cap * q + r /\ Half % Cap = r
  BY <1>1, DivMod
<1>4. Half = Cap * q /\ Around = Cap * (2 * q)
  BY <1>1, <1>3
<1>5. 2 * Cap <= Half
  <2>1. CASE q < 1
    <3>1. Cap * q + Cap <= Cap * 1
      BY <1>1, <2>1, MultiplesApart
    <3> QED
      BY <1>1, <1>4, <3>1
  <2>2. CASE q = 1
    BY <1>1, <1>4, <2>2
  <2>3. CASE q > 1
    <3>1. Cap * 1 + Cap <= Cap * q
      BY <1>1, <2>3, MultiplesApart
    <3> QED
      BY <1>1, <1>4, <3>1
  <2> QED
    BY <2>1, <2>2, <2>3
<1>6. Ints = (0 - Half)..(Half - 1)
  BY DEF Ints, Half
<1>7. \E p \in Int : Around = Cap * p
  BY <1>4
<1> QED
  BY <1>1, <1>2, <1>5, <1>6, <1>7

LEMMA WrapIs ==
    ASSUME NEW n \in Int
    PROVE  Wrap(n) \in Ints /\ \E q \in Int : Wrap(n) = n + Around * q
<1>1. PICK q \in Int, r \in 0..(Around - 1) :
          n + Half = Around * q + r /\ (n + Half) % Around = r
  <2>1. n + Half \in Int
    BY Widths
  <2> QED
    BY <2>1, Widths, DivMod
<1>2. Wrap(n) = r - Half
  BY <1>1 DEF Wrap, Half, Around
<1>3. Around * (0 - q) = 0 - Around * q /\ Around * q \in Int /\ 0 - q \in Int
  BY Widths
<1>4. Wrap(n) = n + Around * (0 - q)
  BY <1>1, <1>2, <1>3, Widths
<1>5. Wrap(n) \in Ints
  BY <1>2, Widths
<1> QED
  BY <1>3, <1>4, <1>5

LEMMA WrapUnique ==
    ASSUME NEW n \in Int, NEW a \in Ints, NEW q \in Int, a = n + Around * q
    PROVE  Wrap(n) = a
<1>1. /\ a \in Int /\ a + Half \in 0..(Around - 1) /\ Half \in Nat
      /\ Around \in Nat \ {0}
  BY Widths
<1>2. Around * (0 - q) = 0 - Around * q /\ Around * q \in Int /\ 0 - q \in Int
  BY <1>1
<1>3. n + Half = Around * (0 - q) + (a + Half) /\ n + Half \in Int
  BY <1>1, <1>2
<1>4. (n + Half) % Around = a + Half
  BY <1>1, <1>2, <1>3, ModIs
<1>5. Wrap(n) = (a + Half) - Half
  BY <1>4 DEF Wrap, Half, Around
<1> QED
  BY <1>1, <1>5

LEMMA WrapSmall ==
    ASSUME NEW n \in Ints
    PROVE  Wrap(n) = n
<1>1. n \in Int /\ n = n + Around * 0
  BY Widths
<1> QED
  BY <1>1, WrapUnique

(* Only the residue matters.                                               *)
LEMMA WrapShift ==
    ASSUME NEW n \in Int, NEW q \in Int
    PROVE  Wrap(n + Around * q) = Wrap(n)
<1>0. Around \in Int /\ Around * q \in Int
  BY Widths
<1>1. PICK p \in Int : Wrap(n) = n + Around * p
  BY WrapIs
<1>2. /\ Around * (p - q) = Around * p - Around * q /\ Around * p \in Int /\ p - q \in Int
  BY <1>0
<1>3. Wrap(n) = (n + Around * q) + Around * (p - q)
  BY <1>0, <1>1, <1>2
<1>4. n + Around * q \in Int /\ Wrap(n) \in Ints
  BY <1>0, WrapIs
<1> QED
  BY <1>2, <1>3, <1>4, WrapUnique

LEMMA WrapAdd ==
    ASSUME NEW a \in Int, NEW b \in Int
    PROVE  Wrap(Wrap(a) + b) = Wrap(a + b)
<1>1. PICK p \in Int : Wrap(a) = a + Around * p
  BY WrapIs
<1>2. Wrap(a) + b = (a + b) + Around * p
  BY <1>1, Widths
<1> QED
  BY <1>2, WrapShift

LEMMA WrapSub ==
    ASSUME NEW a \in Int, NEW b \in Int, a - b \in Ints
    PROVE  Wrap(Wrap(a) - Wrap(b)) = a - b
<1>1. PICK p \in Int : Wrap(a) = a + Around * p
  BY WrapIs
<1>2. PICK q \in Int : Wrap(b) = b + Around * q
  BY WrapIs
<1>3. /\ Around * (p - q) = Around * p - Around * q /\ p - q \in Int
      /\ Around * p \in Int /\ Around * q \in Int
  BY Widths
<1>4. Wrap(a) - Wrap(b) = (a - b) + Around * (p - q)
  BY <1>1, <1>2, <1>3
<1>5. Wrap(Wrap(a) - Wrap(b)) = Wrap(a - b)
  BY <1>3, <1>4, WrapShift
<1> QED
  BY <1>5, WrapSmall

LEMMA WrapInj ==
    ASSUME NEW a \in Int, NEW b \in Int, b <= a, a - b < Half, Wrap(a) = Wrap(b)
    PROVE  a = b
<1>1. a - b \in Ints
  BY Widths
<1>2. Wrap(Wrap(a) - Wrap(b)) = a - b
  BY <1>1, WrapSub
<1>3. Wrap(a) \in Int
  BY WrapIs, Widths
<1>4. Wrap(a) - Wrap(b) = 0
  BY <1>3
<1>5. Wrap(0) = 0
  <2>1. 0 \in Ints
    BY Widths
  <2> QED
    BY <2>1, WrapSmall
<1> QED
  BY <1>2, <1>4, <1>5

LEMMA WrapCell ==
    ASSUME NEW a \in Int
    PROVE  Wrap(a) % Cap = a % Cap
<1>1. PICK p \in Int : Wrap(a) = a + Around * p
  BY WrapIs
<1>2. PICK q \in Int : Around = Cap * q
  BY Widths
<1>3. PICK s \in Int, r \in 0..(Cap - 1) : a = Cap * s + r /\ a % Cap = r
  BY Widths, DivMod
<1>4. Around * p = Cap * (q * p)
  BY <1>2, Widths
<1>5. /\ Cap * (s + q * p) = Cap * s + Cap * (q * p) /\ q * p \in Int /\ s + q * p \in Int
      /\ Cap * s \in Int /\ Cap * (q * p) \in Int
  BY Widths
<1>6. Wrap(a) = Cap * (s + q * p) + r
  BY <1>1, <1>3, <1>4, <1>5
<1>7. Wrap(a) \in Int
  BY WrapIs, Widths
<1> QED
  BY <1>3, <1>5, <1>6, <1>7, Widths, ModIs

-----------------------------------------------------------------------------
(* The inductive invariant                                                 *)

Writing(n) == \E u \in Producers : InCell(u) /\ ticket[u] = n

Reading(n) == \E u \in Consumers : InCell(u) /\ ticket[u] = n

(* What the sequence number of the n-th position's cell stands at, without *)
(* wrapping.                                                               *)
Turn(n) ==
    IF Writing(n) THEN n - 1
    ELSE IF n > taken \/ Reading(n) THEN n
    ELSE n - 1 + Cap

(* The last round of the ring: its cells are all different.                *)
Window == (claimed + 1 - Cap)..claimed

Positions ==
    /\ taken <= claimed /\ claimed <= taken + Cap
    /\ enqueuePos = Wrap(claimed) /\ dequeuePos = Wrap(taken)

Tickets ==
    /\ \A t \in Threads : pc[t] # "idle" =>
          /\ ticket[t] \in 1..(claimed + 1)
          /\ pos[t] = Wrap(ticket[t] - 1)
          /\ claimed - ticket[t] < Half - Cap
    /\ \A t \in Consumers : pc[t] \notin {"idle", "emptyLate"} => ticket[t] <= taken + 1
    /\ \A t \in Producers : pc[t] \notin {"empty", "emptyLate"}

(* Threads inside cells: a round at most, and never two for a position.    *)
Holders ==
    /\ \A t \in Producers : InCell(t) => taken < ticket[t] /\ ticket[t] <= claimed
    /\ \A t \in Consumers :
          InCell(t) => claimed - Cap < ticket[t] /\ ticket[t] <= taken
    /\ \A t, u \in Producers :
          InCell(t) /\ InCell(u) /\ ticket[t] = ticket[u] => t = u
    /\ \A t, u \in Consumers :
          InCell(t) /\ InCell(u) /\ ticket[t] = ticket[u] => t = u

Turns == \A n \in Window : sequence[(n - 1) % Cap] = Wrap(Turn(n))

(* What a thread still knows of the sequence number it loaded, as long as  *)
(* its exchange can succeed.                                               *)
Knowledge ==
    /\ \A t \in Producers : pc[t] = "cas" /\ ticket[t] = claimed + 1 =>
          claimed + 1 - Cap <= taken /\ ~Reading(claimed + 1 - Cap)
    /\ \A t \in Consumers : pc[t] = "cas" /\ ticket[t] = taken + 1 =>
          taken < claimed /\ ~Writing(taken + 1)

Filling(n) == \E u \in Producers : pc[u] = "access" /\ ticket[u] = n

Moving(n) == \E u \in Consumers : pc[u] = "access" /\ ticket[u] = n

Contents ==
    \A n \in Values :
        /\ n > taken => returned[n] = NoValue
        /\ taken < n /\ n <= claimed => Filling(n) \/ data[(n - 1) % Cap] = n
        /\ n <= taken =>
              \/ Moving(n) /\ returned[n] = NoValue /\ data[(n - 1) % Cap] = n
              \/ ~Moving(n) /\ returned[n] = n

IInv ==
    TypeOK /\ Positions /\ Tickets /\ Holders /\ Turns /\ Knowledge /\ Contents

LEMMA Numbers ==
    ASSUME IInv
    PROVE  /\ Cap \in Nat /\ Cap >= 1 /\ Half \in Nat /\ 2 * Cap <= Half
           /\ claimed \in Nat /\ taken \in Nat /\ MaxPushes \in Nat
           /\ taken <= claimed /\ claimed <= taken + Cap /\ claimed <= MaxPushes
BY Widths DEF IInv, TypeOK, Positions

LEMMA PosIs ==
    ASSUME NEW p, NEW n \in Int, p = Wrap(n)
    PROVE  p \in Ints /\ p \in Int /\ p % Cap = n % Cap /\ Wrap(p + 1) = Wrap(n + 1)
<1>1. p \in Ints /\ p % Cap = n % Cap
  BY WrapIs, WrapCell
<1>2. p \in Int
  BY <1>1, Widths
<1>3. Wrap(p + 1) = Wrap(n + 1)
  BY WrapAdd
<1> QED
  BY <1>1, <1>2, <1>3

(* A thread inside a call.                                                 *)
LEMMA Live ==
    ASSUME IInv, NEW t \in Threads, pc[t] # "idle"
    PROVE  /\ ticket[t] \in Nat /\ 1 <= ticket[t] /\ ticket[t] <= claimed + 1
           /\ claimed - ticket[t] < Half - Cap
           /\ ticket[t] - 1 \in Nat /\ pos[t] = Wrap(ticket[t] - 1)
           /\ Cell(t) = (ticket[t] - 1) % Cap
           /\ Wrap(pos[t] + 1) = Wrap(ticket[t])
<1>1. /\ ticket[t] \in 1..(claimed + 1) /\ pos[t] = Wrap(ticket[t] - 1)
      /\ claimed - ticket[t] < Half - Cap
  BY DEF IInv, Tickets
<1>2. claimed \in Nat
  BY Numbers
<1>3. /\ ticket[t] \in Nat /\ 1 <= ticket[t] /\ ticket[t] <= claimed + 1
      /\ ticket[t] - 1 \in Nat /\ ticket[t] - 1 \in Int
      /\ (ticket[t] - 1) + 1 = ticket[t]
  BY <1>1, <1>2
<1>4. /\ pos[t] % Cap = (ticket[t] - 1) % Cap
      /\ Wrap(pos[t] + 1) = Wrap((ticket[t] - 1) + 1)
  BY <1>1, <1>3, PosIs
<1> QED
  BY <1>1, <1>3, <1>4 DEF Cell

LEMMA TurnIs ==
    ASSUME IInv, NEW n \in Int
    PROVE  /\ Turn(n) \in Int /\ Turn(n) \in {n - 1, n, n - 1 + Cap}
           /\ n - 1 <= Turn(n) /\ Turn(n) <= n - 1 + Cap
BY Numbers DEF Turn

(* Every position has a namesake in the last round.                        *)
LEMMA Namesake ==
    ASSUME IInv, NEW k \in Nat, 1 <= k, k <= claimed + 1
    PROVE  \E m \in Window :
              /\ (m - 1) % Cap = (k - 1) % Cap
              /\ \/ m = k
                 \/ k = claimed + 1 /\ m = claimed + 1 - Cap
                 \/ k + Cap <= m
<1>1. CASE k \in Window
  BY <1>1
<1>2. CASE k = claimed + 1
  <2>1. claimed + 1 - Cap \in Window
    BY Numbers DEF Window
  <2>2. claimed - Cap \in Int /\ (claimed - Cap) + Cap = claimed
    BY Numbers
  <2>3. claimed % Cap = (claimed - Cap) % Cap
    BY <2>2, ModAdd, CapAssumption
  <2>4. k - 1 = claimed /\ (claimed + 1 - Cap) - 1 = claimed - Cap
    BY <1>2, Numbers
  <2> QED
    BY <1>2, <2>1, <2>3, <2>4
<1>3. CASE k < claimed + 1 - Cap
  <2>1. PICK q \in Int, r \in 0..(Cap - 1) : claimed - k = Cap * q + r
    <3>1. claimed - k \in Int
      BY Numbers
    <3> QED
      BY <3>1, DivMod, CapAssumption
  <2>2. PICK s \in Int, e \in 0..(Cap - 1) : k - 1 = Cap * s + e /\ (k - 1) % Cap = e
    <3>1. k - 1 \in Int
      OBVIOUS
    <3> QED
      BY <3>1, DivMod, CapAssumption
  <2> DEFINE m == claimed - r
  <2>3. Cap * q \in Int /\ Cap * s \in Int /\ Cap * (s + q) = Cap * s + Cap * q
        /\ s + q \in Int /\ Cap * 0 = 0
    BY Numbers
  <2>4. m \in Window /\ m - 1 \in Int /\ m - 1 = Cap * (s + q) + e
        /\ m = k + Cap * q /\ k < m
    BY <1>3, <2>1, <2>2, <2>3, Numbers DEF Window
  <2>5. (m - 1) % Cap = e
    BY <2>3, <2>4, ModIs, CapAssumption
  <2>6. q > 0
    <3>1. CASE q < 0
      <4>1. Cap * q + Cap <= Cap * 0
        BY <3>1, MultiplesApart, CapAssumption
      <4> QED
        BY <2>3, <2>4, <4>1, Numbers
    <3>2. CASE q = 0
      BY <2>3, <2>4, <3>2, Numbers
    <3> QED
      BY <3>1, <3>2
  <2>7. Cap * 0 + Cap <= Cap * q
    BY <2>6, MultiplesApart, CapAssumption
  <2>8. k + Cap <= m
    BY <2>3, <2>4, <2>7, Numbers
  <2> QED
    BY <2>2, <2>4, <2>5, <2>8
<1> QED
  <2>1. k \in (claimed + 1 - Cap)..claimed \/ k = claimed + 1 \/ k < claimed + 1 - Cap
    BY Numbers
  <2> QED
    BY <1>1, <1>2, <1>3, <2>1 DEF Window

(* What a thread learns from the sequence number of its cell.              *)
LEMMA SeqDiff ==
    ASSUME IInv, NEW t \in Threads, pc[t] # "idle"
    PROVE  \E m \in Window :
              /\ \/ m = ticket[t]
                 \/ ticket[t] = claimed + 1 /\ m = claimed + 1 - Cap
                 \/ ticket[t] + Cap <= m
              /\ Wrap(sequence[Cell(t)] - pos[t]) = Turn(m) - (ticket[t] - 1)
              /\ Wrap(sequence[Cell(t)] - Wrap(pos[t] + 1)) = Turn(m) - ticket[t]
<1>1. PICK m \in Window :
              /\ (m - 1) % Cap = (ticket[t] - 1) % Cap
              /\ \/ m = ticket[t]
                 \/ ticket[t] = claimed + 1 /\ m = claimed + 1 - Cap
                 \/ ticket[t] + Cap <= m
  BY Live, Namesake
<1>2. sequence[Cell(t)] = Wrap(Turn(m))
  BY <1>1, Live DEF IInv, Turns
<1>3. m \in Int /\ m <= claimed
  BY <1>1, Numbers DEF Window
<1>4. /\ Turn(m) \in Int /\ m - 1 <= Turn(m) /\ Turn(m) <= m - 1 + Cap
  BY <1>3, TurnIs
<1>5. /\ ticket[t] \in Int /\ ticket[t] - 1 \in Int
      /\ claimed - ticket[t] < Half - Cap
  BY Live
<1>6. ticket[t] - Cap <= m
  BY <1>1, <1>3, <1>5, Numbers
<1>7. Turn(m) - (ticket[t] - 1) \in Ints /\ Turn(m) - ticket[t] \in Ints
  <2>1. ASSUME NEW a \in Int, NEW k \in Int, NEW d \in Nat, NEW c \in Nat, NEW h \in Nat,
               c >= 1, 2 * c <= h, d - k < h - c, k - c <= m,
               m - 1 <= a, a <= m - 1 + c, m <= d
        PROVE  a - (k - 1) \in (0 - h)..(h - 1) /\ a - k \in (0 - h)..(h - 1)
    <3>1. a - (k - 1) >= 0 - c /\ a - k >= 0 - c - 1
      BY <1>3, <2>1
    <3>2. a - (k - 1) <= d - k + c /\ a - k <= d - k + c - 1
      BY <1>3, <2>1
    <3> QED
      BY <2>1, <3>1, <3>2
  <2>2. /\ Cap \in Nat /\ Cap >= 1 /\ Half \in Nat /\ 2 * Cap <= Half
        /\ claimed \in Nat
    BY Numbers
  <2>3. Ints = (0 - Half)..(Half - 1)
    BY Widths
  <2> QED
    BY <1>3, <1>4, <1>5, <1>6, <2>1, <2>2, <2>3
<1>8. Wrap(sequence[Cell(t)] - pos[t]) = Turn(m) - (ticket[t] - 1)
  BY <1>2, <1>4, <1>5, <1>7, Live, WrapSub
<1>9. Wrap(sequence[Cell(t)] - Wrap(pos[t] + 1)) = Turn(m) - ticket[t]
  BY <1>2, <1>4, <1>5, <1>7, Live, WrapSub
<1> QED
  BY <1>1, <1>8, <1>9

(* Turns do not repeat: what the difference tells.                         *)
LEMMA ProducerLearns ==
    ASSUME IInv, Cap > 1, NEW t \in Producers, pc[t] # "idle"
    PROVE  LET diff == Wrap(sequence[Cell(t)] - pos[t])
               back == claimed + 1 - Cap
           IN  /\ diff = 0 /\ ticket[t] = claimed + 1 =>
                      back <= taken /\ ~Reading(back)
               /\ diff < 0 => taken < back \/ Reading(back)
<1> DEFINE diff == Wrap(sequence[Cell(t)] - pos[t])
           back == claimed + 1 - Cap
<1>0. t \in Threads
  BY DEF Threads
<1>1. PICK m \in Window :
              /\ \/ m = ticket[t]
                 \/ ticket[t] = claimed + 1 /\ m = back
                 \/ ticket[t] + Cap <= m
              /\ diff = Turn(m) - (ticket[t] - 1)
  BY <1>0, SeqDiff
<1>2. m \in Int /\ m <= claimed /\ back \in Int /\ ticket[t] \in Int
  BY <1>0, <1>1, Numbers, Live DEF Window
<1>3. /\ Turn(m) \in Int /\ Turn(m) \in {m - 1, m, m - 1 + Cap}
      /\ m - 1 <= Turn(m)
  BY <1>2, TurnIs
<1> HIDE DEF diff
<1>4. ASSUME diff = 0, ticket[t] = claimed + 1
      PROVE  back <= taken /\ ~Reading(back)
  <2>1. m = back /\ Turn(m) = m - 1 + Cap
    BY <1>1, <1>2, <1>3, <1>4, Numbers
  <2>2. ~Writing(m) /\ ~(m > taken \/ Reading(m))
    BY <1>2, <2>1, Numbers DEF Turn
  <2> QED
    BY <1>2, <2>1, <2>2, Numbers
<1>5. ASSUME diff < 0
      PROVE  taken < back \/ Reading(back)
  <2>1. m = back /\ Turn(m) # m - 1 + Cap
    BY <1>1, <1>2, <1>3, <1>5, Numbers
  <2>2. CASE Writing(m)
    BY <1>2, <2>1, <2>2, Numbers DEF IInv, Holders, Writing
  <2>3. CASE ~Writing(m)
    <3>1. m > taken \/ Reading(m)
      BY <2>1, <2>3 DEF Turn
    <3> QED
      BY <1>2, <2>1, <3>1, Numbers
  <2> QED
    BY <2>2, <2>3
<1> QED
  BY <1>4, <1>5 DEF diff

LEMMA ConsumerLearns ==
    ASSUME IInv, Cap > 1, NEW t \in Consumers, pc[t] = "seq"
    PROVE  LET diff == Wrap(sequence[Cell(t)] - Wrap(pos[t] + 1))
           IN  /\ diff = 0 /\ ticket[t] = taken + 1 =>
                      taken < claimed /\ ~Writing(taken + 1)
               /\ diff < 0 => taken = claimed \/ Writing(taken + 1)
<1> DEFINE diff == Wrap(sequence[Cell(t)] - Wrap(pos[t] + 1))
<1>0. t \in Threads
  BY DEF Threads
<1>1. PICK m \in Window :
              /\ \/ m = ticket[t]
                 \/ ticket[t] = claimed + 1 /\ m = claimed + 1 - Cap
                 \/ ticket[t] + Cap <= m
              /\ diff = Turn(m) - ticket[t]
  BY <1>0, SeqDiff
<1>2. m \in Int /\ m <= claimed /\ ticket[t] \in Int /\ ticket[t] <= taken + 1
      /\ claimed + 1 - Cap <= m
  BY <1>0, <1>1, Numbers, Live DEF Window, IInv, Tickets
<1>3. /\ Turn(m) \in Int /\ Turn(m) \in {m - 1, m, m - 1 + Cap}
      /\ m - 1 <= Turn(m)
  BY <1>2, TurnIs
<1> HIDE DEF diff
<1>4. ASSUME diff = 0, ticket[t] = taken + 1
      PROVE  taken < claimed /\ ~Writing(taken + 1)
  <2>1. m = ticket[t] /\ Turn(m) = m
    BY <1>1, <1>2, <1>3, <1>4, Numbers
  <2>2. ~Writing(m)
    BY <1>2, <2>1 DEF Turn
  <2> QED
    BY <1>2, <1>4, <2>1, <2>2, Numbers
<1>5. ASSUME diff < 0
      PROVE  taken = claimed \/ Writing(taken + 1)
  <2>1. CASE ticket[t] = claimed + 1
    BY <1>2, <2>1, Numbers
  <2>2. CASE ticket[t] # claimed + 1
    <3>1. m = ticket[t] /\ Turn(m) = m - 1
      BY <1>1, <1>2, <1>3, <1>5, <2>2, Numbers
    <3>2. Writing(m)
      BY <1>2, <3>1, Numbers DEF Turn
    <3>3. taken < m
      BY <3>2 DEF IInv, Holders, Writing
    <3>4. m = taken + 1
      BY <1>2, <3>1, <3>3, Numbers
    <3> QED
      BY <3>2, <3>4
  <2> QED
    BY <2>1, <2>2
<1> QED
  BY <1>4, <1>5 DEF diff

-----------------------------------------------------------------------------
(* Steps outside the cells                                                 *)

(* A thread that looks around changes nothing but its own place, position  *)
(* and ticket.                                                             *)
LEMMA QuietKeeps ==
    ASSUME IInv, NEW t \in Threads, ~InCell(t),
           NEW label \in {"idle", "seq", "cas", "load", "empty", "emptyLate"},
           pc' = [pc EXCEPT ![t] = label],
           pos' \in [Threads -> Ints], ticket' \in [Threads -> 0..(MaxPushes + 1)],
           \A u \in Threads : u # t => pos'[u] = pos[u] /\ ticket'[u] = ticket[u],
           UNCHANGED <<sequence, data, enqueuePos, dequeuePos, claimed, taken, returned>>,
           label # "idle" =>
              /\ ticket'[t] \in 1..(claimed + 1)
              /\ pos'[t] = Wrap(ticket'[t] - 1)
              /\ claimed - ticket'[t] < Half - Cap,
           t \in Consumers /\ label \notin {"idle", "emptyLate"} => ticket'[t] <= taken + 1,
           t \in Producers => label \notin {"empty", "emptyLate"},
           t \in Producers /\ label = "cas" /\ ticket'[t] = claimed + 1 =>
              claimed + 1 - Cap <= taken /\ ~Reading(claimed + 1 - Cap),
           t \in Consumers /\ label = "cas" /\ ticket'[t] = taken + 1 =>
              taken < claimed /\ ~Writing(taken + 1)
    PROVE  IInv'
<1>1. pc' \in [Threads -> {"idle", "seq", "cas", "load", "access", "publish",
                           "empty", "emptyLate"}]
      /\ pc'[t] = label /\ \A u \in Threads : u # t => pc'[u] = pc[u]
  BY DEF IInv, TypeOK
<1>2. Producers \subseteq Threads /\ Consumers \subseteq Threads
  BY DEF Threads
<1>3. \A u \in Threads : InCell(u)' <=> InCell(u)
  BY <1>1 DEF InCell
<1>4. \A u \in Threads : InCell(u) => u # t /\ ticket'[u] = ticket[u]
  OBVIOUS
<1>5. \A n : (Writing(n)' <=> Writing(n)) /\ (Reading(n)' <=> Reading(n))
  BY <1>2, <1>3, <1>4 DEF Writing, Reading
<1>6. \A n : (Filling(n)' <=> Filling(n)) /\ (Moving(n)' <=> Moving(n))
  BY <1>1, <1>2, <1>4 DEF Filling, Moving, InCell
<1>7. TypeOK'
  BY <1>1 DEF IInv, TypeOK
<1>8. Positions'
  BY DEF IInv, Positions
<1>9. Tickets'
  BY <1>1, <1>2 DEF IInv, Tickets
<1>10. Holders'
  BY <1>2, <1>3, <1>4 DEF IInv, Holders
<1>11. Turns'
  <2>1. \A n : Turn(n)' = Turn(n)
    BY <1>5 DEF Turn
  <2> QED
    BY <2>1 DEF IInv, Turns, Window
<1>12. Knowledge'
  BY <1>1, <1>2, <1>5 DEF IInv, Knowledge
<1>13. Contents'
  BY <1>6 DEF IInv, Contents
<1> QED
  BY <1>7, <1>8, <1>9, <1>10, <1>11, <1>12, <1>13 DEF IInv

(* A position just loaded.                                                 *)
LEMMA LoadKeeps ==
    ASSUME IInv, NEW t \in Threads, ~InCell(t),
           NEW label \in {"seq", "empty", "emptyLate"}, NEW n \in Nat, n <= claimed,
           t \in Producers => n = claimed /\ label = "seq",
           t \in Consumers => n = (IF label = "emptyLate" THEN claimed ELSE taken),
           pc' = [pc EXCEPT ![t] = label],
           pos' = [pos EXCEPT ![t] = Wrap(n)],
           ticket' = [ticket EXCEPT ![t] = n + 1],
           UNCHANGED <<sequence, data, enqueuePos, dequeuePos, claimed, taken, returned>>
    PROVE  IInv'
<1>1. /\ Wrap(n) \in Ints /\ n + 1 \in 0..(MaxPushes + 1) /\ n + 1 \in 1..(claimed + 1)
      /\ (n + 1) - 1 = n
  BY Numbers, WrapIs
<1>2. claimed - (n + 1) < Half - Cap
  <2>1. claimed - n <= Cap
    BY Numbers DEF Threads
  <2> QED
    BY <2>1, Numbers
<1>3. /\ pos' \in [Threads -> Ints] /\ pos'[t] = Wrap(n)
      /\ ticket' \in [Threads -> 0..(MaxPushes + 1)] /\ ticket'[t] = n + 1
      /\ \A u \in Threads : u # t => pos'[u] = pos[u] /\ ticket'[u] = ticket[u]
  BY <1>1 DEF IInv, TypeOK
<1>4. t \in Consumers /\ label # "emptyLate" => ticket'[t] <= taken + 1
  BY <1>3, Numbers
<1> QED
  BY <1>1, <1>2, <1>3, <1>4, QuietKeeps

(* A thread that goes on with the position it has, or gives up.            *)
LEMMA GoOnKeeps ==
    ASSUME IInv, NEW t \in Threads, ~InCell(t), pc[t] # "idle",
           NEW label \in {"idle", "cas", "load"},
           label # "idle" => pc[t] = "seq",
           pc' = [pc EXCEPT ![t] = label],
           UNCHANGED <<sequence, data, enqueuePos, dequeuePos, pos, ticket>>,
           UNCHANGED <<claimed, taken, returned>>,
           t \in Producers /\ label = "cas" /\ ticket[t] = claimed + 1 =>
              claimed + 1 - Cap <= taken /\ ~Reading(claimed + 1 - Cap),
           t \in Consumers /\ label = "cas" /\ ticket[t] = taken + 1 =>
              taken < claimed /\ ~Writing(taken + 1)
    PROVE  IInv'
<1>1. /\ ticket[t] \in 1..(claimed + 1) /\ pos[t] = Wrap(ticket[t] - 1)
      /\ claimed - ticket[t] < Half - Cap
      /\ t \in Consumers /\ label # "idle" => ticket[t] <= taken + 1
  BY DEF IInv, Tickets
<1>2. pos' \in [Threads -> Ints] /\ ticket' \in [Threads -> 0..(MaxPushes + 1)]
  BY DEF IInv, TypeOK
<1> QED
  BY <1>1, <1>2, QuietKeeps

LEMMA EmplaceLoadsPosKeeps ==
    ASSUME IInv, NEW t \in Producers, EmplaceLoadsPos(t) \/ EmplaceFailsToClaim(t)
    PROVE  IInv'
<1>1. t \in Threads /\ t \notin Consumers
  BY ThreadsAssumption DEF Threads
<1>2. enqueuePos = Wrap(claimed) /\ claimed \in Nat /\ claimed <= claimed
  BY Numbers DEF IInv, Positions
<1>3. ~InCell(t) /\ pc' = [pc EXCEPT ![t] = "seq"]
  BY DEF EmplaceLoadsPos, EmplaceFailsToClaim, InCell, Goto
<1>4. /\ pos' = [pos EXCEPT ![t] = Wrap(claimed)] /\ ticket' = [ticket EXCEPT ![t] = claimed + 1]
      /\ UNCHANGED <<sequence, data, enqueuePos, dequeuePos, claimed, taken, returned>>
  BY <1>2 DEF EmplaceLoadsPos, EmplaceFailsToClaim, ghosts
<1>5. ASSUME NEW label \in {"seq", "empty", "emptyLate"}, label = "seq"
      PROVE  IInv'
  BY <1>1, <1>2, <1>3, <1>4, <1>5, LoadKeeps
<1> QED
  BY <1>5

LEMMA EmplaceLoadsSeqKeeps ==
    ASSUME IInv, Cap > 1, NEW t \in Producers, EmplaceLoadsSeq(t)
    PROVE  IInv'
<1>1. t \in Threads /\ t \notin Consumers
  BY ThreadsAssumption DEF Threads
<1>2. /\ ~InCell(t) /\ pc[t] = "seq"
      /\ UNCHANGED <<sequence, data, enqueuePos, dequeuePos, pos, ticket, claimed, taken, returned>>
  BY DEF EmplaceLoadsSeq, InCell, ghosts
<1>3. PICK label \in {"idle", "cas", "load"} :
          /\ pc' = [pc EXCEPT ![t] = label]
          /\ label = "cas" => Wrap(sequence[Cell(t)] - pos[t]) = 0
  BY DEF EmplaceLoadsSeq, Goto
<1>4. label = "cas" /\ ticket[t] = claimed + 1 =>
          claimed + 1 - Cap <= taken /\ ~Reading(claimed + 1 - Cap)
  BY <1>2, <1>3, ProducerLearns
<1> QED
  BY <1>1, <1>2, <1>3, <1>4, GoOnKeeps

LEMMA PopLoadsPosKeeps ==
    ASSUME IInv, NEW t \in Consumers,
           PopLoadsPos(t) \/ PopFailsToTake(t) \/ EmptyLoadsDequeue(t)
    PROVE  IInv'
<1>1. t \in Threads /\ t \notin Producers
  BY ThreadsAssumption DEF Threads
<1>2. dequeuePos = Wrap(taken) /\ taken \in Nat /\ taken <= claimed
  BY Numbers DEF IInv, Positions
<1>3. pc' = [pc EXCEPT ![t] = "seq"] \/ pc' = [pc EXCEPT ![t] = "empty"]
  BY DEF PopLoadsPos, PopFailsToTake, EmptyLoadsDequeue, Goto
<1>4. ~InCell(t)
  BY DEF PopLoadsPos, PopFailsToTake, EmptyLoadsDequeue, InCell
<1>5. /\ pos' = [pos EXCEPT ![t] = Wrap(taken)] /\ ticket' = [ticket EXCEPT ![t] = taken + 1]
      /\ UNCHANGED <<sequence, data, enqueuePos, dequeuePos, claimed, taken, returned>>
  BY <1>2 DEF PopLoadsPos, PopFailsToTake, EmptyLoadsDequeue, ghosts
<1>6. ASSUME NEW label \in {"seq", "empty", "emptyLate"}, label # "emptyLate",
             pc' = [pc EXCEPT ![t] = label]
      PROVE  IInv'
  BY <1>1, <1>2, <1>4, <1>5, <1>6, LoadKeeps
<1> QED
  BY <1>3, <1>6

LEMMA EmptyLoadsEnqueueKeeps ==
    ASSUME IInv, NEW t \in Consumers, EmptyLoadsEnqueue(t)
    PROVE  IInv'
<1>1. t \in Threads /\ t \notin Producers /\ ~InCell(t)
  BY ThreadsAssumption DEF Threads, EmptyLoadsEnqueue, InCell
<1>2. enqueuePos = Wrap(claimed) /\ claimed \in Nat /\ claimed <= claimed
  BY Numbers DEF IInv, Positions
<1>3. /\ pos' = [pos EXCEPT ![t] = Wrap(claimed)] /\ ticket' = [ticket EXCEPT ![t] = claimed + 1]
      /\ UNCHANGED <<sequence, data, enqueuePos, dequeuePos, claimed, taken, returned>>
  BY <1>2 DEF EmptyLoadsEnqueue, ghosts
<1>4. ASSUME NEW label \in {"seq", "empty", "emptyLate"}, label = "emptyLate",
             pc' = [pc EXCEPT ![t] = label]
      PROVE  IInv'
  BY <1>1, <1>2, <1>3, <1>4, LoadKeeps
<1> QED
  BY <1>4 DEF EmptyLoadsEnqueue, Goto

LEMMA PopLoadsSeqKeeps ==
    ASSUME IInv, Cap > 1, NEW t \in Consumers, PopLoadsSeq(t)
    PROVE  IInv'
<1>1. t \in Threads /\ t \notin Producers
  BY ThreadsAssumption DEF Threads
<1>2. /\ ~InCell(t) /\ pc[t] = "seq"
      /\ UNCHANGED <<sequence, data, enqueuePos, dequeuePos, pos, ticket, claimed, taken, returned>>
  BY DEF PopLoadsSeq, InCell, ghosts
<1>3. PICK label \in {"idle", "cas", "load"} :
          /\ pc' = [pc EXCEPT ![t] = label]
          /\ label = "cas" => Wrap(sequence[Cell(t)] - Wrap(pos[t] + 1)) = 0
  BY DEF PopLoadsSeq, Goto
<1>4. label = "cas" /\ ticket[t] = taken + 1 => taken < claimed /\ ~Writing(taken + 1)
  BY <1>2, <1>3, ConsumerLearns
<1> QED
  BY <1>1, <1>2, <1>3, <1>4, GoOnKeeps

LEMMA EmptyReturnsKeeps ==
    ASSUME IInv, NEW t \in Consumers, NEW empty \in BOOLEAN, EmptyReturns(t, empty)
    PROVE  IInv'
<1>1. t \in Threads
  BY DEF Threads
<1>2. /\ ~InCell(t) /\ pc[t] # "idle" /\ pc' = [pc EXCEPT ![t] = "idle"]
      /\ UNCHANGED <<sequence, data, enqueuePos, dequeuePos, pos, ticket, claimed, taken, returned>>
  BY DEF EmptyReturns, InCell, Goto, ghosts
<1> QED
  BY <1>1, <1>2, GoOnKeeps

-----------------------------------------------------------------------------
(* Steps into, in and out of the cells                                     *)

(* A thread inside a cell has a position of the last round.                *)
LEMMA Held ==
    ASSUME IInv, NEW t \in Threads, InCell(t)
    PROVE  /\ ticket[t] \in Window /\ ticket[t] \in Values /\ ticket[t] \in Nat
           /\ pc[t] # "idle" /\ Cell(t) = (ticket[t] - 1) % Cap
           /\ Cell(t) \in Cells /\ pos[t] = Wrap(ticket[t] - 1)
           /\ ticket[t] - 1 \in Int
<1>1. pc[t] # "idle"
  BY DEF InCell
<1>2. /\ ticket[t] \in Nat /\ 1 <= ticket[t] /\ ticket[t] - 1 \in Nat
      /\ pos[t] = Wrap(ticket[t] - 1) /\ Cell(t) = (ticket[t] - 1) % Cap
  BY <1>1, Live
<1>3. claimed - Cap < ticket[t] /\ ticket[t] <= claimed
  <2>1. CASE t \in Producers
    <3>1. taken < ticket[t] /\ ticket[t] <= claimed
      BY <2>1 DEF IInv, Holders
    <3> QED
      BY <1>2, <3>1, Numbers
  <2>2. CASE t \in Consumers
    <3>1. claimed - Cap < ticket[t] /\ ticket[t] <= taken
      BY <2>2 DEF IInv, Holders
    <3> QED
      BY <1>2, <3>1, Numbers
  <2> QED
    BY <2>1, <2>2 DEF Threads
<1>4. ticket[t] \in Window /\ ticket[t] \in Values
  BY <1>2, <1>3, Numbers DEF Window, Values
<1>5. (ticket[t] - 1) % Cap \in Cells
  BY <1>2, Numbers DEF Cells
<1> QED
  BY <1>1, <1>2, <1>4, <1>5

(* The cells of a round are different.                                     *)
LEMMA RoundIsApart ==
    ASSUME IInv, NEW m \in Window, NEW n \in Window, (m - 1) % Cap = (n - 1) % Cap
    PROVE  m = n
<1>1. /\ m - 1 \in Int /\ n - 1 \in Int /\ m \in Int /\ n \in Int
      /\ m - 1 < (n - 1) + Cap /\ n - 1 < (m - 1) + Cap
  BY Numbers DEF Window
<1>2. m - 1 = n - 1
  <2>1. CASE m - 1 <= n - 1
    BY <1>1, <2>1, ModInj, CapAssumption
  <2>2. CASE n - 1 <= m - 1
    BY <1>1, <2>2, ModInj, CapAssumption
  <2> QED
    BY <1>1, <2>1, <2>2
<1> QED
  BY <1>1, <1>2

LEMMA WindowHas ==
    ASSUME IInv, NEW n \in Int
    PROVE  /\ n \in Window <=> claimed - Cap < n /\ n <= claimed
           /\ taken < n /\ n <= claimed => n \in Window
BY Numbers DEF Window

LEMMA LagsAreBounded ==
    NobodyLags =>
        \A u \in Threads : pc[u] # "idle" => claimed + 1 - ticket[u] < Half - Cap
BY DEF NobodyLags, Half

LEMMA EmplaceClaimsKeeps ==
    ASSUME IInv, NEW t \in Producers, EmplaceClaims(t)
    PROVE  IInv'
<1> DEFINE back == claimed + 1 - Cap
<1>1. /\ t \in Threads /\ t \notin Consumers
      /\ Producers \subseteq Threads /\ Consumers \subseteq Threads
  BY ThreadsAssumption DEF Threads
<1>2. /\ pc[t] = "cas" /\ claimed < MaxPushes /\ NobodyLags /\ enqueuePos = pos[t]
      /\ enqueuePos' = Wrap(pos[t] + 1) /\ claimed' = claimed + 1
      /\ pc' = [pc EXCEPT ![t] = "access"]
      /\ UNCHANGED <<sequence, data, dequeuePos, pos, ticket, taken, returned>>
  BY DEF EmplaceClaims, Goto
<1>3. ticket[t] = claimed + 1 /\ Wrap(pos[t] + 1) = Wrap(claimed + 1)
  <2>1. /\ ticket[t] \in Nat /\ ticket[t] <= claimed + 1
        /\ claimed - ticket[t] < Half - Cap /\ pos[t] = Wrap(ticket[t] - 1)
        /\ Wrap(pos[t] + 1) = Wrap(ticket[t])
    BY <1>1, <1>2, Live
  <2>2. Wrap(claimed) = Wrap(ticket[t] - 1)
    BY <1>2, <2>1 DEF IInv, Positions
  <2>3. /\ claimed \in Int /\ ticket[t] - 1 \in Int /\ ticket[t] - 1 <= claimed
        /\ claimed - (ticket[t] - 1) < Half
    BY <2>1, Numbers
  <2>4. claimed = ticket[t] - 1
    BY <2>2, <2>3, WrapInj
  <2> QED
    BY <2>1, <2>3, <2>4
<1>4. /\ back \in Int /\ back <= taken /\ ~Reading(back) /\ back + Cap = claimed + 1
      /\ back \in Window
  <2>1. back <= taken /\ ~Reading(back)
    BY <1>2, <1>3 DEF IInv, Knowledge
  <2> QED
    BY <2>1, Numbers DEF Window
<1> HIDE DEF back
<1>5. /\ pc' \in [Threads -> {"idle", "seq", "cas", "load", "access", "publish",
                              "empty", "emptyLate"}]
      /\ pc'[t] = "access" /\ \A u \in Threads : u # t => pc'[u] = pc[u]
  BY <1>1, <1>2 DEF IInv, TypeOK
<1>6. \A u \in Threads : InCell(u)' <=> (u = t \/ InCell(u))
  BY <1>1, <1>5 DEF InCell
<1>7. ~InCell(t)
  BY <1>2 DEF InCell
<1>8. \A n : /\ Writing(n)' <=> (Writing(n) \/ n = claimed + 1)
             /\ Reading(n)' <=> Reading(n)
  BY <1>1, <1>2, <1>3, <1>6 DEF Writing, Reading
<1>9. \A n : /\ Filling(n)' <=> (Filling(n) \/ n = claimed + 1)
             /\ Moving(n)' <=> Moving(n)
  BY <1>1, <1>2, <1>3, <1>5 DEF Filling, Moving
<1>10. TypeOK'
  <2>1. claimed' \in 0..MaxPushes
    BY <1>2, Numbers
  <2>2. enqueuePos' \in Ints
    BY <1>2, <1>3, WrapIs, Numbers
  <2> QED
    BY <1>2, <1>5, <2>1, <2>2 DEF IInv, TypeOK
<1>11. Positions'
  <2>1. claimed <= taken + Cap - 1
    BY <1>4, Numbers
  <2> QED
    BY <1>2, <1>3, <2>1, Numbers DEF IInv, Positions
<1>12. Tickets'
  <2>1. \A u \in Threads : pc'[u] # "idle" =>
            /\ pc[u] # "idle" /\ ticket[u] \in 1..(claimed + 1)
            /\ pos[u] = Wrap(ticket[u] - 1)
            /\ claimed' - ticket[u] < Half - Cap
    <3>0. \A u \in Threads : pc[u] # "idle" =>
              ticket[u] \in Nat /\ claimed + 1 - ticket[u] = claimed' - ticket[u]
      BY <1>2, Live, Numbers
    <3>1. \A u \in Threads : pc[u] # "idle" => claimed + 1 - ticket[u] < Half - Cap
      BY <1>2, LagsAreBounded
    <3>2. \A u \in Threads : pc'[u] # "idle" => pc[u] # "idle"
      BY <1>1, <1>2, <1>5
    <3> QED
      BY <3>0, <3>1, <3>2 DEF IInv, Tickets
  <2>2. \A k : k \in 1..(claimed + 1) => k \in 1..(claimed + 1 + 1)
    BY Numbers
  <2>3. \A u \in Consumers : u # t
    BY <1>1
  <2> QED
    BY <1>1, <1>2, <1>5, <2>1, <2>2, <2>3 DEF IInv, Tickets
<1>13. Holders'
  <2>1. \A u \in Producers : InCell(u) => ticket[u] \in Nat /\ ticket[u] # claimed + 1
    BY <1>1, Held, Numbers DEF IInv, Holders
  <2>2. \A u \in Consumers : InCell(u) =>
            ticket[u] \in Nat /\ ticket[u] # claimed + 1 - Cap /\ u # t
    BY <1>1, <1>4, Held DEF Reading, back
  <2>3. \A u \in Producers : InCell(u)' => taken < ticket[u] /\ ticket[u] <= claimed'
    <3> TAKE u \in Producers
    <3>1. CASE u = t
      BY <1>2, <1>3, <3>1, Numbers
    <3>2. CASE u # t
      BY <1>1, <1>2, <1>6, <2>1, <3>2, Numbers DEF IInv, Holders
    <3> QED
      BY <3>1, <3>2
  <2>4. \A u \in Consumers :
            InCell(u)' => claimed' - Cap < ticket[u] /\ ticket[u] <= taken
    <3> SUFFICES ASSUME NEW u \in Consumers, InCell(u)'
                 PROVE  claimed' - Cap < ticket[u] /\ ticket[u] <= taken
      OBVIOUS
    <3>1. InCell(u) /\ ticket[u] \in Nat /\ ticket[u] # claimed + 1 - Cap
      BY <1>1, <1>6, <2>2
    <3>2. claimed - Cap < ticket[u] /\ ticket[u] <= taken
      BY <3>1 DEF IInv, Holders
    <3> QED
      BY <1>2, <3>1, <3>2, Numbers
  <2>5. \A u, w \in Producers :
            InCell(u)' /\ InCell(w)' /\ ticket[u] = ticket[w] => u = w
    BY <1>1, <1>3, <1>6, <2>1 DEF IInv, Holders
  <2>6. \A u, w \in Consumers :
            InCell(u)' /\ InCell(w)' /\ ticket[u] = ticket[w] => u = w
    BY <1>1, <1>6, <2>2 DEF IInv, Holders
  <2> QED
    BY <1>2, <2>3, <2>4, <2>5, <2>6 DEF Holders
<1>14. Turns'
  <2> SUFFICES ASSUME NEW n \in Window'
               PROVE  sequence[(n - 1) % Cap] = Wrap(Turn(n)')
    BY <1>2 DEF Turns
  <2>1. n \in Int /\ (n = claimed + 1 \/ n \in Window)
    BY <1>2, Numbers DEF Window
  <2>2. CASE n = claimed + 1
    <3>1. Turn(n)' = claimed
      BY <1>8, <2>2, Numbers DEF Turn
    <3>2. Turn(back) = claimed
      <4>1. ~Writing(back)
        BY <1>4, Numbers DEF IInv, Holders, Writing
      <4>2. ~(back > taken \/ Reading(back)) /\ back - 1 + Cap = claimed
        BY <1>4, Numbers
      <4> QED
        BY <4>1, <4>2 DEF Turn
    <3>3. (n - 1) % Cap = (back - 1) % Cap
      <4>1. back - 1 \in Int /\ (back - 1) + Cap = n - 1
        BY <1>4, <2>2, Numbers
      <4> QED
        BY <4>1, ModAdd, CapAssumption
    <3> QED
      BY <1>4, <3>1, <3>2, <3>3 DEF IInv, Turns
  <2>3. CASE n # claimed + 1
    <3>1. Turn(n)' = Turn(n)
      BY <1>2, <1>8, <2>3 DEF Turn
    <3> QED
      BY <2>1, <2>3, <3>1 DEF IInv, Turns
  <2> QED
    BY <2>2, <2>3
<1>15. Knowledge'
  <2>1. \A u \in Producers : pc[u] # "idle" => ticket[u] # claimed + 1 + 1
    BY <1>1, Live, Numbers
  <2>2. \A u \in Producers : pc'[u] = "cas" => pc[u] = "cas"
    BY <1>1, <1>5
  <2>3. \A u \in Consumers : pc'[u] = pc[u]
    BY <1>1, <1>5
  <2>4. taken < claimed => taken + 1 # claimed + 1 /\ taken < claimed + 1
    BY Numbers
  <2> QED
    BY <1>2, <1>8, <2>1, <2>2, <2>3, <2>4 DEF IInv, Knowledge
<1>16. Contents'
  <2>1. \A n \in Values : n <= claimed + 1 => n <= claimed \/ n = claimed + 1
    BY Numbers DEF Values
  <2> QED
    BY <1>2, <1>9, <2>1 DEF IInv, Contents
<1> QED
  BY <1>10, <1>11, <1>12, <1>13, <1>14, <1>15, <1>16 DEF IInv

LEMMA PopTakesKeeps ==
    ASSUME IInv, NEW t \in Consumers, PopTakes(t)
    PROVE  IInv'
<1>1. /\ t \in Threads /\ t \notin Producers
      /\ Producers \subseteq Threads /\ Consumers \subseteq Threads
  BY ThreadsAssumption DEF Threads
<1>2. /\ pc[t] = "cas" /\ dequeuePos = pos[t]
      /\ dequeuePos' = Wrap(pos[t] + 1) /\ taken' = taken + 1
      /\ pc' = [pc EXCEPT ![t] = "access"]
      /\ UNCHANGED <<sequence, data, enqueuePos, pos, ticket, claimed, returned>>
  BY DEF PopTakes, Goto
<1>3. ticket[t] = taken + 1 /\ Wrap(pos[t] + 1) = Wrap(taken + 1)
  <2>1. /\ ticket[t] \in Nat /\ ticket[t] <= taken + 1
        /\ claimed - ticket[t] < Half - Cap /\ pos[t] = Wrap(ticket[t] - 1)
        /\ Wrap(pos[t] + 1) = Wrap(ticket[t])
    BY <1>1, <1>2, Live DEF IInv, Tickets
  <2>2. Wrap(taken) = Wrap(ticket[t] - 1)
    BY <1>2, <2>1 DEF IInv, Positions
  <2>3. /\ taken \in Int /\ ticket[t] - 1 \in Int /\ ticket[t] - 1 <= taken
        /\ taken - (ticket[t] - 1) < Half
    BY <2>1, Numbers
  <2>4. taken = ticket[t] - 1
    BY <2>2, <2>3, WrapInj
  <2> QED
    BY <2>1, <2>3, <2>4
<1>4. taken < claimed /\ ~Writing(taken + 1)
  BY <1>2, <1>3 DEF IInv, Knowledge
<1>5. /\ pc' \in [Threads -> {"idle", "seq", "cas", "load", "access", "publish",
                              "empty", "emptyLate"}]
      /\ pc'[t] = "access" /\ \A u \in Threads : u # t => pc'[u] = pc[u]
  BY <1>1, <1>2 DEF IInv, TypeOK
<1>6. \A u \in Threads : InCell(u)' <=> (u = t \/ InCell(u))
  BY <1>1, <1>5 DEF InCell
<1>7. ~InCell(t)
  BY <1>2 DEF InCell
<1>8. \A n : /\ Reading(n)' <=> (Reading(n) \/ n = taken + 1)
             /\ Writing(n)' <=> Writing(n)
  BY <1>1, <1>2, <1>3, <1>6 DEF Writing, Reading
<1>9. \A n : /\ Moving(n)' <=> (Moving(n) \/ n = taken + 1)
             /\ Filling(n)' <=> Filling(n)
  BY <1>1, <1>2, <1>3, <1>5 DEF Filling, Moving
<1>10. TypeOK'
  <2>1. taken' \in 0..MaxPushes
    BY <1>2, <1>4, Numbers
  <2>2. dequeuePos' \in Ints
    BY <1>2, <1>3, WrapIs, Numbers
  <2> QED
    BY <1>2, <1>5, <2>1, <2>2 DEF IInv, TypeOK
<1>11. Positions'
  BY <1>2, <1>3, <1>4, Numbers DEF IInv, Positions
<1>12. Tickets'
  <2>1. \A u \in Threads : pc'[u] # "idle" => pc[u] # "idle"
    BY <1>1, <1>2, <1>5
  <2>2. \A u \in Consumers : pc[u] \notin {"idle", "emptyLate"} => ticket[u] <= taken + 1 + 1
    <3> SUFFICES ASSUME NEW u \in Consumers, pc[u] \notin {"idle", "emptyLate"}
                 PROVE  ticket[u] <= taken + 1 + 1
      OBVIOUS
    <3>1. ticket[u] \in Nat /\ ticket[u] <= taken + 1
      BY <1>1, Live DEF IInv, Tickets
    <3> QED
      BY <3>1, Numbers
  <2>3. \A u \in Producers : pc'[u] = pc[u]
    BY <1>1, <1>5
  <2>4. \A u \in Threads : pc[u] = "emptyLate" => pc'[u] = "emptyLate"
    BY <1>1, <1>2, <1>5
  <2> QED
    BY <1>1, <1>2, <2>1, <2>2, <2>3, <2>4 DEF IInv, Tickets
<1>13. Holders'
  <2>1. \A u \in Consumers : InCell(u) => ticket[u] \in Nat /\ ticket[u] <= taken
    BY <1>1, Held DEF IInv, Holders
  <2>2. \A u \in Producers : InCell(u) =>
            /\ ticket[u] \in Nat /\ ticket[u] # taken + 1 /\ u # t
            /\ taken < ticket[u] /\ ticket[u] <= claimed
    BY <1>1, <1>4, Held DEF Writing, IInv, Holders
  <2>3. \A u \in Producers : InCell(u)' => taken + 1 < ticket[u] /\ ticket[u] <= claimed
    <3> SUFFICES ASSUME NEW u \in Producers, InCell(u)'
                 PROVE  taken + 1 < ticket[u] /\ ticket[u] <= claimed
      OBVIOUS
    <3>1. InCell(u)
      BY <1>1, <1>6
    <3> QED
      BY <2>2, <3>1, Numbers
  <2>4. \A u \in Consumers :
            InCell(u)' => claimed - Cap < ticket[u] /\ ticket[u] <= taken + 1
    <3> SUFFICES ASSUME NEW u \in Consumers, InCell(u)'
                 PROVE  claimed - Cap < ticket[u] /\ ticket[u] <= taken + 1
      OBVIOUS
    <3>1. CASE u = t
      BY <1>3, <3>1, Numbers
    <3>2. CASE u # t
      <4>1. InCell(u)
        BY <1>1, <1>6, <3>2
      <4>2. claimed - Cap < ticket[u]
        BY <4>1 DEF IInv, Holders
      <4> QED
        BY <2>1, <4>1, <4>2, Numbers
    <3> QED
      BY <3>1, <3>2
  <2>5. \A u, w \in Consumers :
            InCell(u)' /\ InCell(w)' /\ ticket[u] = ticket[w] => u = w
    <3>1. \A u \in Consumers : InCell(u) => ticket[u] # taken + 1
      BY <2>1, Numbers
    <3> QED
      BY <1>1, <1>3, <1>6, <3>1 DEF IInv, Holders
  <2>6. \A u, w \in Producers :
            InCell(u)' /\ InCell(w)' /\ ticket[u] = ticket[w] => u = w
    BY <1>1, <1>6, <2>2 DEF IInv, Holders
  <2> QED
    BY <1>2, <2>3, <2>4, <2>5, <2>6 DEF Holders
<1>14. Turns'
  <2> SUFFICES ASSUME NEW n \in Window
               PROVE  Turn(n)' = Turn(n)
    BY <1>2 DEF IInv, Turns, Window
  <2>1. n \in Int
    BY Numbers DEF Window
  <2>2. CASE n = taken + 1
    BY <1>4, <1>8, <2>2, Numbers DEF Turn
  <2>3. CASE n # taken + 1
    <3>1. n > taken + 1 <=> n > taken
      BY <2>1, <2>3, Numbers
    <3> QED
      BY <1>2, <1>8, <2>3, <3>1 DEF Turn
  <2> QED
    BY <2>2, <2>3
<1>15. Knowledge'
  <2>1. \A u \in Consumers : pc[u] \notin {"idle", "emptyLate"} => ticket[u] # taken + 1 + 1
    <3> SUFFICES ASSUME NEW u \in Consumers, pc[u] \notin {"idle", "emptyLate"}
                 PROVE  ticket[u] # taken + 1 + 1
      OBVIOUS
    <3>1. ticket[u] \in Nat /\ ticket[u] <= taken + 1
      BY <1>1, Live DEF IInv, Tickets
    <3> QED
      BY <3>1, Numbers
  <2>2. \A u \in Consumers : pc'[u] = "cas" => pc[u] = "cas"
    BY <1>1, <1>5
  <2>3. \A u \in Producers : pc'[u] = pc[u]
    BY <1>1, <1>5
  <2>4. claimed + 1 - Cap <= taken =>
            claimed + 1 - Cap # taken + 1 /\ claimed + 1 - Cap <= taken + 1
    BY Numbers
  <2> QED
    BY <1>2, <1>8, <2>1, <2>2, <2>3, <2>4 DEF IInv, Knowledge
<1>16. Contents'
  <2> SUFFICES ASSUME NEW n \in Values
               PROVE  /\ n > taken + 1 => returned[n] = NoValue
                      /\ taken + 1 < n /\ n <= claimed =>
                             Filling(n) \/ data[(n - 1) % Cap] = n
                      /\ n <= taken + 1 =>
                            \/ Moving(n)' /\ returned[n] = NoValue
                                          /\ data[(n - 1) % Cap] = n
                            \/ ~Moving(n)' /\ returned[n] = n
    BY <1>2, <1>9 DEF Contents
  <2>1. n \in Nat
    BY DEF Values
  <2>2. CASE n = taken + 1
    <3>1. ~Filling(n)
      BY <1>4, <2>2 DEF Filling, Writing, InCell
    <3>2. taken < n /\ n <= claimed /\ n > taken /\ ~(n > taken + 1) /\ ~(taken + 1 < n)
      BY <1>4, <2>2, Numbers
    <3> QED
      BY <1>9, <2>2, <3>1, <3>2 DEF IInv, Contents
  <2>3. CASE n # taken + 1
    <3>1. (n > taken + 1 <=> n > taken) /\ (n <= taken + 1 <=> n <= taken)
          /\ (taken + 1 < n <=> taken < n)
      BY <2>1, <2>3, Numbers
    <3> QED
      BY <1>9, <2>3, <3>1 DEF IInv, Contents
  <2> QED
    BY <2>2, <2>3
<1> QED
  BY <1>10, <1>11, <1>12, <1>13, <1>14, <1>15, <1>16 DEF IInv

(* A thread that stays where it is, in its cell or on its way out: of the  *)
(* invariant only what is about the cells is left to show.                 *)
LEMMA StepInCell ==
    ASSUME IInv, NEW t \in Threads, InCell(t),
           NEW label \in {"publish", "idle"}, pc' = [pc EXCEPT ![t] = label],
           UNCHANGED <<enqueuePos, dequeuePos, pos, ticket, claimed, taken>>
    PROVE  /\ pc' \in [Threads -> {"idle", "seq", "cas", "load", "access", "publish",
                                   "empty", "emptyLate"}]
           /\ pc'[t] = label /\ \A u \in Threads : u # t => pc'[u] = pc[u]
           /\ \A u \in Threads : InCell(u)' <=> InCell(u) /\ (u = t => label = "publish")
           /\ Positions' /\ Tickets' /\ Holders' /\ Knowledge'
<1>1. pc' \in [Threads -> {"idle", "seq", "cas", "load", "access", "publish",
                           "empty", "emptyLate"}]
      /\ pc'[t] = label /\ \A u \in Threads : u # t => pc'[u] = pc[u]
  BY DEF IInv, TypeOK
<1>2. \A u \in Threads : InCell(u)' <=> InCell(u) /\ (u = t => label = "publish")
  BY <1>1 DEF InCell
<1>3. Producers \subseteq Threads /\ Consumers \subseteq Threads
  BY DEF Threads
<1>4. Positions'
  BY DEF IInv, Positions
<1>5. Tickets'
  <2>1. \A u \in Threads : pc'[u] # "idle" => pc[u] # "idle"
    BY <1>1 DEF InCell
  <2>2. \A u \in Threads : /\ pc'[u] = "empty" => pc[u] = "empty"
                           /\ pc'[u] = "emptyLate" => pc[u] = "emptyLate"
                           /\ pc'[u] # "idle" /\ pc[u] = "emptyLate" => pc'[u] = "emptyLate"
    BY <1>1 DEF InCell
  <2> QED
    BY <1>3, <2>1, <2>2 DEF IInv, Tickets
<1>6. Holders'
  BY <1>2, <1>3 DEF IInv, Holders
<1>7. Knowledge'
  <2>1. \A u \in Threads : pc'[u] = "cas" => pc[u] = "cas"
    BY <1>1
  <2>2. \A n : (Writing(n)' => Writing(n)) /\ (Reading(n)' => Reading(n))
    BY <1>2, <1>3 DEF Writing, Reading
  <2> QED
    BY <1>3, <2>1, <2>2 DEF IInv, Knowledge
<1> QED
  BY <1>1, <1>2, <1>4, <1>5, <1>6, <1>7

LEMMA EmplaceWritesKeeps ==
    ASSUME IInv, NEW t \in Producers, EmplaceWrites(t)
    PROVE  IInv'
<1>1. /\ t \in Threads /\ t \notin Consumers
      /\ Producers \subseteq Threads /\ Consumers \subseteq Threads
  BY ThreadsAssumption DEF Threads
<1>2. /\ pc[t] = "access" /\ InCell(t) /\ pc' = [pc EXCEPT ![t] = "publish"]
      /\ data' = [data EXCEPT ![Cell(t)] = ticket[t]]
      /\ UNCHANGED <<sequence, enqueuePos, dequeuePos, pos, ticket, claimed, taken, returned>>
  BY DEF EmplaceWrites, Goto, InCell, ghosts
<1>3. /\ pc' \in [Threads -> {"idle", "seq", "cas", "load", "access", "publish",
                              "empty", "emptyLate"}]
      /\ pc'[t] = "publish" /\ \A u \in Threads : u # t => pc'[u] = pc[u]
      /\ \A u \in Threads : InCell(u)' <=> InCell(u)
      /\ Positions' /\ Tickets' /\ Holders' /\ Knowledge'
  BY <1>1, <1>2, StepInCell
<1>4. /\ ticket[t] \in Window /\ ticket[t] \in Values
      /\ Cell(t) = (ticket[t] - 1) % Cap /\ Cell(t) \in Cells
      /\ taken < ticket[t] /\ ticket[t] <= claimed
  BY <1>1, <1>2, Held DEF IInv, Holders
<1>5. data \in [Cells -> Values \cup {NoValue}]
  BY DEF IInv, TypeOK
<1>6. TypeOK'
  BY <1>2, <1>3, <1>4, <1>5 DEF IInv, TypeOK
<1>7. Turns'
  <2>1. \A n : (Writing(n)' <=> Writing(n)) /\ (Reading(n)' <=> Reading(n))
    BY <1>1, <1>2, <1>3 DEF Writing, Reading
  <2>2. \A n : Turn(n)' = Turn(n)
    BY <1>2, <2>1 DEF Turn
  <2> QED
    BY <1>2, <2>2 DEF IInv, Turns, Window
<1>8. Contents'
  <2>1. \A n : Moving(n)' <=> Moving(n)
    BY <1>1, <1>2, <1>3 DEF Moving
  <2>2. \A n : n # ticket[t] /\ Filling(n) => Filling(n)'
    BY <1>1, <1>2, <1>3 DEF Filling
  <2>3. data'[(ticket[t] - 1) % Cap] = ticket[t]
    BY <1>2, <1>4, <1>5
  <2>4. \A n \in Window : n # ticket[t] => data'[(n - 1) % Cap] = data[(n - 1) % Cap]
    BY <1>2, <1>4, <1>5, RoundIsApart
  <2> SUFFICES ASSUME NEW n \in Values
               PROVE  /\ n > taken => returned[n] = NoValue
                      /\ taken < n /\ n <= claimed =>
                             Filling(n)' \/ data'[(n - 1) % Cap] = n
                      /\ n <= taken =>
                            \/ Moving(n) /\ returned[n] = NoValue
                                         /\ data'[(n - 1) % Cap] = n
                            \/ ~Moving(n) /\ returned[n] = n
    BY <1>2, <2>1 DEF Contents
  <2>5. n \in Nat /\ (n <= taken => n # ticket[t])
    BY <1>4, Numbers DEF Values
  <2>6. taken < n /\ n <= claimed => Filling(n)' \/ data'[(n - 1) % Cap] = n
    <3>1. CASE n = ticket[t]
      BY <2>3, <3>1
    <3>2. CASE n # ticket[t]
      BY <2>2, <2>4, <2>5, <3>2, WindowHas DEF IInv, Contents
    <3> QED
      BY <3>1, <3>2
  <2>7. Moving(n) => n \in Window
    BY <1>1, Held DEF Moving, InCell
  <2> QED
    BY <2>4, <2>5, <2>6, <2>7 DEF IInv, Contents
<1> QED
  BY <1>3, <1>6, <1>7, <1>8 DEF IInv

LEMMA EmplacePublishesKeeps ==
    ASSUME IInv, NEW t \in Producers, EmplacePublishes(t)
    PROVE  IInv'
<1>1. /\ t \in Threads /\ t \notin Consumers
      /\ Producers \subseteq Threads /\ Consumers \subseteq Threads
  BY ThreadsAssumption DEF Threads
<1>2. /\ pc[t] = "publish" /\ InCell(t) /\ pc' = [pc EXCEPT ![t] = "idle"]
      /\ sequence' = [sequence EXCEPT ![Cell(t)] = Wrap(pos[t] + 1)]
      /\ UNCHANGED <<data, enqueuePos, dequeuePos, pos, ticket, claimed, taken, returned>>
  BY DEF EmplacePublishes, Goto, InCell, ghosts
<1>3. /\ pc' \in [Threads -> {"idle", "seq", "cas", "load", "access", "publish",
                              "empty", "emptyLate"}]
      /\ pc'[t] = "idle" /\ \A u \in Threads : u # t => pc'[u] = pc[u]
      /\ \A u \in Threads : InCell(u)' <=> InCell(u) /\ u # t
      /\ Positions' /\ Tickets' /\ Holders' /\ Knowledge'
  BY <1>1, <1>2, StepInCell
<1>4. /\ ticket[t] \in Window /\ ticket[t] \in Nat
      /\ Cell(t) = (ticket[t] - 1) % Cap /\ Cell(t) \in Cells
      /\ taken < ticket[t] /\ ticket[t] <= claimed
      /\ Wrap(pos[t] + 1) = Wrap(ticket[t])
  BY <1>1, <1>2, Held, Live DEF IInv, Holders
<1>5. sequence \in [Cells -> Ints] /\ Wrap(ticket[t]) \in Ints
  BY <1>4, WrapIs DEF IInv, TypeOK
<1>6. TypeOK'
  BY <1>2, <1>3, <1>4, <1>5 DEF IInv, TypeOK
<1>7. \A n : /\ Writing(n)' <=> Writing(n) /\ n # ticket[t]
             /\ Reading(n)' <=> Reading(n)
  <2>1. \A u \in Producers : InCell(u) /\ ticket[u] = ticket[t] => u = t
    BY <1>2 DEF IInv, Holders
  <2> QED
    BY <1>1, <1>2, <1>3, <2>1 DEF Writing, Reading
<1>8. Turns'
  <2> SUFFICES ASSUME NEW n \in Window
               PROVE  sequence'[(n - 1) % Cap] = Wrap(Turn(n)')
    BY <1>2 DEF Turns, Window
  <2>1. CASE n = ticket[t]
    <3>1. Turn(n)' = n
      BY <1>2, <1>4, <1>7, <2>1, Numbers DEF Turn
    <3> QED
      BY <1>2, <1>4, <1>5, <2>1, <3>1
  <2>2. CASE n # ticket[t]
    <3>1. Turn(n)' = Turn(n)
      BY <1>2, <1>7, <2>2 DEF Turn
    <3>2. (n - 1) % Cap # Cell(t)
      BY <1>4, <2>2, RoundIsApart
    <3>3. sequence'[(n - 1) % Cap] = sequence[(n - 1) % Cap]
      <4>1. (n - 1) % Cap \in Cells
        BY Numbers DEF Window, Cells
      <4> QED
        BY <1>2, <1>5, <3>2, <4>1
    <3> QED
      BY <3>1, <3>3 DEF IInv, Turns
  <2> QED
    BY <2>1, <2>2
<1>9. Contents'
  <2>1. \A n : (Filling(n)' <=> Filling(n)) /\ (Moving(n)' <=> Moving(n))
    BY <1>1, <1>2, <1>3 DEF Filling, Moving
  <2> QED
    BY <1>2, <2>1 DEF IInv, Contents
<1> QED
  BY <1>3, <1>6, <1>8, <1>9 DEF IInv

LEMMA PopMovesKeeps ==
    ASSUME IInv, NEW t \in Consumers, PopMoves(t)
    PROVE  IInv'
<1>1. /\ t \in Threads /\ t \notin Producers
      /\ Producers \subseteq Threads /\ Consumers \subseteq Threads
  BY ThreadsAssumption DEF Threads
<1>2. /\ pc[t] = "access" /\ InCell(t) /\ pc' = [pc EXCEPT ![t] = "publish"]
      /\ returned' = [returned EXCEPT ![ticket[t]] = data[Cell(t)]]
      /\ data' = [data EXCEPT ![Cell(t)] = NoValue]
      /\ UNCHANGED <<sequence, enqueuePos, dequeuePos, pos, ticket, claimed, taken>>
  BY DEF PopMoves, Goto, InCell
<1>3. /\ pc' \in [Threads -> {"idle", "seq", "cas", "load", "access", "publish",
                              "empty", "emptyLate"}]
      /\ pc'[t] = "publish" /\ \A u \in Threads : u # t => pc'[u] = pc[u]
      /\ \A u \in Threads : InCell(u)' <=> InCell(u)
      /\ Positions' /\ Tickets' /\ Holders' /\ Knowledge'
  BY <1>1, <1>2, StepInCell
<1>4. /\ ticket[t] \in Window /\ ticket[t] \in Values /\ ticket[t] \in Nat
      /\ Cell(t) = (ticket[t] - 1) % Cap /\ Cell(t) \in Cells
      /\ ticket[t] <= taken
  BY <1>1, <1>2, Held DEF IInv, Holders
<1>5. /\ data \in [Cells -> Values \cup {NoValue}]
      /\ returned \in [Values -> Values \cup {NoValue}]
  BY DEF IInv, TypeOK
<1>6. data[Cell(t)] = ticket[t]
  <2>1. Moving(ticket[t])
    BY <1>2 DEF Moving
  <2> QED
    BY <1>4, <2>1 DEF IInv, Contents
<1>7. TypeOK'
  BY <1>2, <1>3, <1>4, <1>5, <1>6 DEF IInv, TypeOK
<1>8. Turns'
  <2>1. \A n : (Writing(n)' <=> Writing(n)) /\ (Reading(n)' <=> Reading(n))
    BY <1>1, <1>2, <1>3 DEF Writing, Reading
  <2>2. \A n : Turn(n)' = Turn(n)
    BY <1>2, <2>1 DEF Turn
  <2> QED
    BY <1>2, <2>2 DEF IInv, Turns, Window
<1>9. Contents'
  <2>1. \A n : /\ Moving(n)' <=> Moving(n) /\ n # ticket[t]
               /\ Filling(n)' <=> Filling(n)
    <3>1. \A u \in Consumers : InCell(u) /\ ticket[u] = ticket[t] => u = t
      BY <1>2 DEF IInv, Holders
    <3>2. \A u \in Consumers : pc[u] = "access" => InCell(u)
      BY DEF InCell
    <3> QED
      BY <1>1, <1>2, <1>3, <3>1, <3>2 DEF Moving, Filling
  <2>2. \A n \in Window : n # ticket[t] => data'[(n - 1) % Cap] = data[(n - 1) % Cap]
    BY <1>2, <1>4, <1>5, RoundIsApart
  <2>3. returned'[ticket[t]] = ticket[t]
    BY <1>2, <1>4, <1>5, <1>6
  <2>4. \A n \in Values : n # ticket[t] => returned'[n] = returned[n]
    BY <1>2, <1>5
  <2> SUFFICES ASSUME NEW n \in Values
               PROVE  /\ n > taken => returned'[n] = NoValue
                      /\ taken < n /\ n <= claimed =>
                             Filling(n)' \/ data'[(n - 1) % Cap] = n
                      /\ n <= taken =>
                            \/ Moving(n)' /\ returned'[n] = NoValue
                                          /\ data'[(n - 1) % Cap] = n
                            \/ ~Moving(n)' /\ returned'[n] = n
    BY <1>2 DEF Contents
  <2>5. n \in Nat
    BY DEF Values
  <2>6. CASE n = ticket[t]
    <3>1. ~(n > taken) /\ ~(taken < n)
      BY <1>4, <2>6, Numbers
    <3> QED
      BY <2>1, <2>3, <2>6, <3>1
  <2>7. CASE n # ticket[t]
    <3>1. Moving(n) => n \in Window
      BY <1>1, Held DEF Moving, InCell
    <3>2. taken < n /\ n <= claimed => n \in Window
      BY <2>5, WindowHas
    <3> QED
      BY <2>1, <2>2, <2>4, <2>7, <3>1, <3>2 DEF IInv, Contents
  <2> QED
    BY <2>6, <2>7
<1> QED
  BY <1>3, <1>7, <1>8, <1>9 DEF IInv

LEMMA WrapRound ==
    ASSUME NEW k \in Int
    PROVE  Wrap(Wrap(k) + (Cap - 1) + 1) = Wrap(k + Cap)
<1>1. Wrap(k) \in Int /\ Cap \in Int
  BY WrapIs, Widths
<1>2. Wrap(k) + (Cap - 1) + 1 = Wrap(k) + Cap
  BY <1>1
<1> QED
  BY <1>1, <1>2, WrapAdd

LEMMA PopReleasesKeeps ==
    ASSUME IInv, NEW t \in Consumers, PopReleases(t)
    PROVE  IInv'
<1>1. /\ t \in Threads /\ t \notin Producers
      /\ Producers \subseteq Threads /\ Consumers \subseteq Threads
  BY ThreadsAssumption DEF Threads
<1>2. /\ pc[t] = "publish" /\ InCell(t) /\ pc' = [pc EXCEPT ![t] = "idle"]
      /\ sequence' = [sequence EXCEPT ![Cell(t)] = Wrap(pos[t] + (Cap - 1) + 1)]
      /\ UNCHANGED <<data, enqueuePos, dequeuePos, pos, ticket, claimed, taken, returned>>
  BY DEF PopReleases, Goto, InCell, ghosts
<1>3. /\ pc' \in [Threads -> {"idle", "seq", "cas", "load", "access", "publish",
                              "empty", "emptyLate"}]
      /\ pc'[t] = "idle" /\ \A u \in Threads : u # t => pc'[u] = pc[u]
      /\ \A u \in Threads : InCell(u)' <=> InCell(u) /\ u # t
      /\ Positions' /\ Tickets' /\ Holders' /\ Knowledge'
  BY <1>1, <1>2, StepInCell
<1>4. /\ ticket[t] \in Window /\ ticket[t] \in Nat /\ ticket[t] - 1 \in Int
      /\ Cell(t) = (ticket[t] - 1) % Cap /\ Cell(t) \in Cells
      /\ ticket[t] <= taken /\ pos[t] = Wrap(ticket[t] - 1)
  BY <1>1, <1>2, Held DEF IInv, Holders
<1>5. Wrap(pos[t] + (Cap - 1) + 1) = Wrap((ticket[t] - 1) + Cap)
  BY <1>4, WrapRound
<1>6. sequence \in [Cells -> Ints] /\ Wrap((ticket[t] - 1) + Cap) \in Ints
  <2>1. ticket[t] - 1 + Cap \in Int
    BY <1>4, Numbers
  <2> QED
    BY <2>1, WrapIs DEF IInv, TypeOK
<1>7. TypeOK'
  BY <1>2, <1>3, <1>4, <1>5, <1>6 DEF IInv, TypeOK
<1>8. \A n : /\ Reading(n)' <=> Reading(n) /\ n # ticket[t]
             /\ Writing(n)' <=> Writing(n)
  <2>1. \A u \in Consumers : InCell(u) /\ ticket[u] = ticket[t] => u = t
    BY <1>2 DEF IInv, Holders
  <2> QED
    BY <1>1, <1>2, <1>3, <2>1 DEF Writing, Reading
<1>9. Turns'
  <2> SUFFICES ASSUME NEW n \in Window
               PROVE  sequence'[(n - 1) % Cap] = Wrap(Turn(n)')
    BY <1>2 DEF Turns, Window
  <2>1. CASE n = ticket[t]
    <3>1. ~Writing(n)
      <4>1. ~(taken < n)
        BY <1>4, <2>1, Numbers
      <4> QED
        BY <4>1 DEF Writing, IInv, Holders
    <3>2. ~(n > taken)
      BY <1>4, <2>1, Numbers
    <3>3. Turn(n)' = n - 1 + Cap
      BY <1>2, <1>8, <2>1, <3>1, <3>2 DEF Turn
    <3> QED
      BY <1>2, <1>4, <1>5, <1>6, <2>1, <3>3
  <2>2. CASE n # ticket[t]
    <3>1. Turn(n)' = Turn(n)
      BY <1>2, <1>8, <2>2 DEF Turn
    <3>2. (n - 1) % Cap # Cell(t)
      BY <1>4, <2>2, RoundIsApart
    <3>3. sequence'[(n - 1) % Cap] = sequence[(n - 1) % Cap]
      <4>1. (n - 1) % Cap \in Cells
        BY Numbers DEF Window, Cells
      <4> QED
        BY <1>2, <1>6, <3>2, <4>1
    <3> QED
      BY <3>1, <3>3 DEF IInv, Turns
  <2> QED
    BY <2>1, <2>2
<1>10. Contents'
  <2>1. \A n : (Filling(n)' <=> Filling(n)) /\ (Moving(n)' <=> Moving(n))
    BY <1>1, <1>2, <1>3 DEF Filling, Moving
  <2> QED
    BY <1>2, <2>1 DEF IInv, Contents
<1> QED
  BY <1>3, <1>7, <1>9, <1>10 DEF IInv

-----------------------------------------------------------------------------
(* The invariant                                                           *)

LEMMA InitIsInv ==
    ASSUME Init
    PROVE  IInv
<1>1. /\ claimed = 0 /\ taken = 0 /\ 0 \in Ints /\ Wrap(0) = 0
      /\ Cap \in Nat /\ Cap >= 1 /\ Cap < Half /\ Half \in Nat
  <2>1. 0 \in Ints
    BY Widths
  <2> QED
    BY <2>1, Widths, WrapSmall DEF Init
<1>2. \A i \in Cells : i \in Ints
  BY Widths DEF Cells
<1>3. \A t \in Threads : pc[t] = "idle"
  BY DEF Init
<1>4. Producers \subseteq Threads /\ Consumers \subseteq Threads
  BY DEF Threads
<1>5. \A n : ~Writing(n) /\ ~Reading(n) /\ ~Filling(n) /\ ~Moving(n)
  BY <1>3, <1>4 DEF Writing, Reading, Filling, Moving, InCell
<1>6. TypeOK
  BY <1>1, <1>2, Widths DEF Init, TypeOK
<1>7. Positions
  BY <1>1 DEF Init, Positions
<1>8. Tickets
  BY <1>3, <1>4 DEF Tickets
<1>9. Holders
  BY <1>3, <1>4 DEF Holders, InCell
<1>10. Turns
  <2> SUFFICES ASSUME NEW n \in Window
               PROVE  sequence[(n - 1) % Cap] = Wrap(Turn(n))
    BY DEF Turns
  <2>1. n \in Int /\ 1 - Cap <= n /\ n <= 0
    BY <1>1 DEF Window
  <2>2. Turn(n) = n - 1 + Cap
    BY <1>1, <1>5, <2>1 DEF Turn
  <2> DEFINE k == n - 1 + Cap
  <2>3. k \in Cells /\ k \in Int /\ k = Cap * 0 + k /\ k \in 0..(Cap - 1)
    BY <1>1, <2>1 DEF Cells
  <2>4. k % Cap = k
    BY <2>3, ModIs, CapAssumption
  <2>5. k % Cap = (n - 1) % Cap
    <3>1. n - 1 \in Int /\ k = (n - 1) + Cap
      BY <2>1
    <3> QED
      BY <3>1, ModAdd, CapAssumption
  <2>6. Wrap(k) = k
    BY <1>2, <2>3, WrapSmall
  <2>7. sequence[k] = k
    BY <2>3 DEF Init
  <2> QED
    BY <2>2, <2>4, <2>5, <2>6, <2>7
<1>11. Knowledge
  BY <1>3, <1>4 DEF Knowledge
<1>12. Contents
  BY <1>1 DEF Init, Contents, Values
<1> QED
  BY <1>6, <1>7, <1>8, <1>9, <1>10, <1>11, <1>12 DEF IInv

LEMMA StepKeepsInv ==
    Cap > 1 /\ IInv /\ [Next]_vars => IInv'
<1> SUFFICES ASSUME Cap > 1, IInv, [Next]_vars
             PROVE  IInv'
  OBVIOUS
<1>1. ASSUME NEW t \in Producers, ProducerStep(t)
      PROVE  IInv'
  BY <1>1, EmplaceLoadsPosKeeps, EmplaceLoadsSeqKeeps, EmplaceClaimsKeeps,
     EmplaceWritesKeeps, EmplacePublishesKeeps DEF ProducerStep
<1>2. ASSUME NEW t \in Consumers, ConsumerStep(t)
      PROVE  IInv'
  BY <1>2, PopLoadsPosKeeps, PopLoadsSeqKeeps, PopTakesKeeps, PopMovesKeeps,
     PopReleasesKeeps, EmptyLoadsEnqueueKeeps,
     EmptyReturnsKeeps DEF ConsumerStep
<1>3. CASE UNCHANGED vars
  <2>1. UNCHANGED <<sequence, data, enqueuePos, dequeuePos, pc, pos, ticket, claimed,
                    taken, returned>>
    BY <1>3 DEF vars
  <2>2. \A t : InCell(t)' <=> InCell(t)
    BY <2>1 DEF InCell
  <2>3. \A n : /\ Writing(n)' <=> Writing(n)
               /\ Reading(n)' <=> Reading(n)
               /\ Filling(n)' <=> Filling(n)
               /\ Moving(n)' <=> Moving(n)
    BY <2>1, <2>2 DEF Writing, Reading, Filling, Moving
  <2>4. \A n : Turn(n)' = Turn(n)
    BY <2>1, <2>3 DEF Turn
  <2>5. TypeOK' /\ Positions' /\ Tickets' /\ Holders'
    BY <2>1, <2>2 DEF IInv, TypeOK, Positions, Tickets, Holders
  <2>6. Turns' /\ Knowledge' /\ Contents'
    BY <2>1, <2>3, <2>4 DEF IInv, Turns, Window, Knowledge, Contents
  <2> QED
    BY <2>5, <2>6 DEF IInv
<1> QED
  BY <1>1, <1>2, <1>3 DEF Next

LEMMA AlwaysInv ==
    ASSUME Cap > 1
    PROVE  Spec => []IInv
<1>1. IInv /\ [Next]_vars => IInv'
  BY StepKeepsInv
<1> QED
  BY <1>1, InitIsInv, PTL DEF Spec

-----------------------------------------------------------------------------
(* The theorems                                                            *)

(* A thread has the cell of its position to itself from its exchange to    *)
(* its store of the sequence number (emplace() and pop()).                 *)
THEOREM CellsAreNotShared ==
    Cap > 1 => (Spec => []ExclusiveCell)
<1> SUFFICES ASSUME Cap > 1
             PROVE  Spec => []ExclusiveCell
  OBVIOUS
<1>1. IInv => ExclusiveCell
  <2> SUFFICES ASSUME IInv, NEW t \in Threads, NEW u \in Threads,
                      InCell(t), InCell(u), Cell(t) = Cell(u)
               PROVE  t = u
    BY DEF ExclusiveCell, IInv
  <2>1. ticket[t] = ticket[u] /\ ticket[t] \in Nat
    BY Held, RoundIsApart
  <2>2. \A v \in Producers, w \in Consumers :
            InCell(v) /\ InCell(w) => ticket[v] # ticket[w]
    <3> SUFFICES ASSUME NEW v \in Producers, NEW w \in Consumers,
                        InCell(v), InCell(w), ticket[v] = ticket[w]
                 PROVE  FALSE
      OBVIOUS
    <3>1. v \in Threads /\ ticket[v] \in Nat
      BY Held DEF Threads
    <3>2. taken < ticket[v] /\ ticket[v] <= taken
      BY DEF IInv, Holders
    <3> QED
      BY <3>1, <3>2, Numbers
  <2> QED
    BY <2>1, <2>2 DEF IInv, Holders, Threads
<1> QED
  BY <1>1, AlwaysInv, PTL

(* Where the values of the claimed positions are.                          *)
LEMMA ContentsAre ==
    IInv => /\ [k \in 1..(claimed - taken) |-> ValueAt(taken + k)] = Between(taken, claimed)
            /\ [k \in 1..taken |-> ValueAt(k)] = Between(0, taken)
<1> SUFFICES ASSUME IInv
             PROVE  /\ [k \in 1..(claimed - taken) |-> ValueAt(taken + k)]
                          = Between(taken, claimed)
                    /\ [k \in 1..taken |-> ValueAt(k)] = Between(0, taken)
  OBVIOUS
<1>1. \A n \in Values : n <= claimed => ValueAt(n) = n
  <2> SUFFICES ASSUME NEW n \in Values, n <= claimed
               PROVE  ValueAt(n) = n
    OBVIOUS
  <2>1. n \in Nat /\ n # NoValue /\ (n <= taken \/ taken < n)
    BY Numbers DEF Values, NoValue
  <2>2. Filling(n) => ValueAt(n) = n
    BY DEF ValueAt, Filling
  <2>3. ~Filling(n) => ValueAt(n) = IF returned[n] # NoValue THEN returned[n]
                                    ELSE data[(n - 1) % Cap]
    BY DEF ValueAt, Filling
  <2>4. CASE taken < n
    <3>1. n > taken
      BY <2>1, <2>4, Numbers
    <3>2. returned[n] = NoValue /\ (Filling(n) \/ data[(n - 1) % Cap] = n)
      BY <2>4, <3>1 DEF IInv, Contents
    <3> QED
      BY <2>2, <2>3, <3>2
  <2>5. CASE n <= taken
    <3>1. returned[n] = n \/ (returned[n] = NoValue /\ data[(n - 1) % Cap] = n)
      BY <2>5 DEF IInv, Contents
    <3> QED
      BY <2>1, <2>2, <2>3, <3>1
  <2> QED
    BY <2>1, <2>4, <2>5
<1>2. \A k \in 1..(claimed - taken) :
          taken + k \in Values /\ taken + k <= claimed
  BY Numbers DEF Values
<1>3. \A k \in 1..taken : k \in Values /\ k <= claimed /\ 0 + k = k
  BY Numbers DEF Values
<1>4. taken - 0 = taken
  BY Numbers
<1> QED
  BY <1>1, <1>2, <1>3, <1>4 DEF Between

(* Only the exchanges move a position.                                     *)
LEMMA StepOutcome ==
    ASSUME [Next]_vars
    PROVE  \/ claimed' = claimed /\ taken' = taken
           \/ claimed' = claimed + 1 /\ taken' = taken
           \/ claimed' = claimed /\ taken' = taken + 1
<1>1. ASSUME NEW t \in Producers, ProducerStep(t)
      PROVE  taken' = taken /\ (claimed' = claimed \/ claimed' = claimed + 1)
  BY <1>1 DEF ProducerStep, EmplaceLoadsPos, EmplaceLoadsSeq, EmplaceClaims,
     EmplaceFailsToClaim, EmplaceWrites, EmplacePublishes, ghosts
<1>2. ASSUME NEW t \in Consumers, ConsumerStep(t)
      PROVE  claimed' = claimed /\ (taken' = taken \/ taken' = taken + 1)
  BY <1>2 DEF ConsumerStep, PopLoadsPos, PopLoadsSeq, PopTakes, PopFailsToTake,
     PopMoves, PopReleases, EmptyLoadsDequeue, EmptyLoadsEnqueue, EmptyReturns, ghosts
<1>3. UNCHANGED vars => claimed' = claimed /\ taken' = taken
  BY DEF vars
<1> QED
  BY <1>1, <1>2, <1>3 DEF Next

LEMMA StepIsFifo ==
    ASSUME IInv, IInv', [Next]_vars
    PROVE  [Fifo!NextFifo]_(Fifo!contractVars)
<1> DEFINE contents == [k \in 1..(claimed - taken) |-> ValueAt(taken + k)]
           popped == [k \in 1..taken |-> ValueAt(k)]
<1>1. contents = Between(taken, claimed) /\ popped = Between(0, taken)
  BY ContentsAre
<1>2. contents' = Between(taken', claimed') /\ popped' = Between(0, taken')
  <2>1. ([k \in 1..(claimed - taken) |-> ValueAt(taken + k)] = Between(taken, claimed))'
    BY ContentsAre, PTL
  <2>2. ([k \in 1..taken |-> ValueAt(k)] = Between(0, taken))'
    BY ContentsAre, PTL
  <2> QED
    BY <2>1, <2>2 DEF Between
<1>3. /\ taken \in Nat /\ claimed \in Nat /\ taken <= claimed /\ Cap \in Nat
      /\ claimed' \in 0..MaxPushes /\ MaxPushes \in Nat
      /\ taken' <= claimed' /\ claimed' <= taken' + Cap
  BY Numbers DEF IInv, TypeOK, Positions
<1> HIDE DEF contents, popped
<1>4. CASE claimed' = claimed /\ taken' = taken
  BY <1>1, <1>2, <1>4 DEF Fifo!contractVars, contents, popped
<1>5. CASE claimed' = claimed + 1 /\ taken' = taken
  <2>1. /\ Len(contents) < Cap /\ contents' = Append(contents, claimed + 1)
        /\ popped' = popped
    <3>1. /\ Len(Between(taken, claimed)) = claimed - taken
          /\ Append(Between(taken, claimed), claimed + 1) = Between(taken, claimed + 1)
      BY <1>3, BetweenIsSeq
    <3> QED
      BY <1>1, <1>2, <1>3, <1>5, <3>1
  <2>2. claimed + 1 \in Values
    BY <1>3, <1>5 DEF Values
  <2> QED
    BY <2>1, <2>2 DEF Fifo!NextFifo, Fifo!PushBack, HasRoom, contents, popped
<1>6. CASE claimed' = claimed /\ taken' = taken + 1
  <2>0. taken < claimed /\ 0 \in Nat /\ 0 <= taken /\ taken + 1 \in Nat
    BY <1>3, <1>6
  <2>1. /\ contents # <<>> /\ Head(contents) = taken + 1
        /\ contents' = Tail(contents)
    BY <1>1, <1>2, <1>3, <1>6, <2>0, BetweenIsSeq
  <2>2. popped' = Append(popped, taken + 1)
    BY <1>1, <1>2, <1>3, <1>6, <2>0, BetweenIsSeq
  <2>3. Fifo!PopFront
    BY <2>1, <2>2 DEF Fifo!PopFront, Fifo!Out, contents, popped
  <2> QED
    BY <2>3 DEF Fifo!NextFifo
<1> QED
  BY <1>4, <1>5, <1>6, StepOutcome

(* The ring is a bounded FIFO queue: a push takes effect at the exchange   *)
(* of emplace(), a pop at that of pop().                                   *)
THEOREM ImplementsFifo ==
    Cap > 1 => (Spec => IsFifo)
<1> SUFFICES ASSUME Cap > 1
             PROVE  Spec => IsFifo
  OBVIOUS
<1>1. Init => Fifo!Init
  <2>1. ASSUME Init
        PROVE  /\ [k \in 1..(claimed - taken) |-> ValueAt(taken + k)] = <<>>
               /\ [k \in 1..taken |-> ValueAt(k)] = <<>>
    <3>1. claimed = 0 /\ taken = 0
      BY <2>1 DEF Init
    <3>2. Len(Between(0, 0)) = 0 /\ Between(0, 0) \in Seq(Nat)
      BY BetweenIsSeq, SMTT(30)
    <3>3. Between(0, 0) = <<>>
      BY <3>2
    <3> QED
      BY <2>1, <3>1, <3>3, InitIsInv, ContentsAre
  <2> QED
    BY <2>1 DEF Fifo!Init
<1>2. IInv /\ IInv' /\ [Next]_vars => [Fifo!NextFifo]_(Fifo!contractVars)
  BY StepIsFifo
<1> QED
  BY <1>1, <1>2, AlwaysInv, PTL DEF Spec, IsFifo, Fifo!FifoSpec

(* A thread moves only by a step of its own.                               *)
LEMMA OwnStep ==
    ASSUME IInv, [Next]_vars, NEW t \in Threads, pc'[t] # pc[t]
    PROVE  \/ t \in Producers /\ ProducerStep(t)
           \/ t \in Consumers /\ ConsumerStep(t)
<1>1. ASSUME NEW u \in Producers, ProducerStep(u)
      PROVE  u = t
  <2>1. \E label : pc' = [pc EXCEPT ![u] = label]
    BY <1>1 DEF ProducerStep, EmplaceLoadsPos, EmplaceLoadsSeq, EmplaceClaims,
       EmplaceFailsToClaim, EmplaceWrites, EmplacePublishes, Goto
  <2> QED
    BY <2>1 DEF IInv, TypeOK
<1>2. ASSUME NEW u \in Consumers, ConsumerStep(u)
      PROVE  u = t
  <2>1. \E label : pc' = [pc EXCEPT ![u] = label]
    BY <1>2 DEF ConsumerStep, PopLoadsPos, PopLoadsSeq, PopTakes, PopFailsToTake,
       PopMoves, PopReleases, EmptyLoadsDequeue, EmptyLoadsEnqueue, EmptyReturns, Goto
  <2> QED
    BY <2>1 DEF IInv, TypeOK
<1>3. Next
  BY DEF vars
<1>4. CASE \E u \in Producers : ProducerStep(u)
  <2>1. PICK u \in Producers : ProducerStep(u)
    BY <1>4
  <2>2. u = t
    BY <1>1, <2>1
  <2> QED
    BY <2>1, <2>2
<1>5. CASE \E u \in Consumers : ConsumerStep(u)
  <2>1. PICK u \in Consumers : ConsumerStep(u)
    BY <1>5
  <2>2. u = t
    BY <1>2, <2>1
  <2> QED
    BY <2>1, <2>2
<1> QED
  BY <1>3, <1>4, <1>5 DEF Next

(* What emplace(), pop() and empty() answer is true at the step that       *)
(* decides it: a push is refused only while the ring is full or the value  *)
(* a round back is still being moved out, a pop only while nothing is      *)
(* claimed or the oldest value is still being written, and an empty queue  *)
(* is empty, or has at least lost all it held at empty()'s first load.     *)
THEOREM AnswersAreRight ==
    Cap > 1 => (Spec => AnswersAreTrue)
<1> SUFFICES ASSUME Cap > 1
             PROVE  Spec => AnswersAreTrue
  OBVIOUS
<1> DEFINE Refused(t) == pc[t] = "seq" /\ pc'[t] = "idle"
<1>1. ASSUME IInv, [Next]_vars, NEW t \in Producers, Refused(t)
      PROVE  LET back == claimed - Cap + 1
             IN  taken < back \/ \E u \in Consumers : InCell(u) /\ ticket[u] = back
  <2>1. ProducerStep(t)
    BY <1>1, OwnStep, ThreadsAssumption DEF Threads
  <2>2. pc[t] = "seq" /\ pc'[t] = "idle" /\ t \in Threads
    BY <1>1 DEF Threads
  <2>3. EmplaceLoadsSeq(t) /\ pc' # [pc EXCEPT ![t] = "cas"]
        /\ pc' # [pc EXCEPT ![t] = "load"]
    <3>1. pc' # [pc EXCEPT ![t] = "seq"]
      BY <1>1, <2>2 DEF IInv, TypeOK
    <3>2. pc' # [pc EXCEPT ![t] = "cas"] /\ pc' # [pc EXCEPT ![t] = "load"]
      BY <1>1, <2>2 DEF IInv, TypeOK
    <3> QED
      BY <2>1, <2>2, <3>1, <3>2 DEF ProducerStep, EmplaceLoadsPos, EmplaceClaims,
         EmplaceFailsToClaim, EmplaceWrites, EmplacePublishes, Goto
  <2>4. Wrap(sequence[Cell(t)] - pos[t]) < 0
    BY <2>3 DEF EmplaceLoadsSeq, Goto
  <2>5. claimed + 1 - Cap = claimed - Cap + 1
    BY <1>1, Numbers
  <2>6. taken < claimed + 1 - Cap \/ Reading(claimed + 1 - Cap)
    BY <1>1, <2>2, <2>4, ProducerLearns
  <2> QED
    BY <2>5, <2>6 DEF Reading
<1>2. ASSUME IInv, [Next]_vars, NEW t \in Consumers, Refused(t)
      PROVE  taken = claimed \/ \E u \in Producers : InCell(u) /\ ticket[u] = taken + 1
  <2>1. ConsumerStep(t)
    BY <1>2, OwnStep, ThreadsAssumption DEF Threads
  <2>2. pc[t] = "seq" /\ pc'[t] = "idle" /\ t \in Threads
    BY <1>2 DEF Threads
  <2>3. PopLoadsSeq(t) /\ pc' # [pc EXCEPT ![t] = "cas"] /\ pc' # [pc EXCEPT ![t] = "load"]
    <3>1. pc' # [pc EXCEPT ![t] = "cas"] /\ pc' # [pc EXCEPT ![t] = "load"]
      BY <1>2, <2>2 DEF IInv, TypeOK
    <3> QED
      BY <2>1, <2>2, <3>1 DEF ConsumerStep, PopLoadsPos, PopTakes, PopFailsToTake,
         PopMoves, PopReleases, EmptyLoadsDequeue, EmptyLoadsEnqueue, EmptyReturns
  <2>4. Wrap(sequence[Cell(t)] - Wrap(pos[t] + 1)) < 0
    BY <2>3 DEF PopLoadsSeq, Goto
  <2> QED
    BY <1>2, <2>2, <2>4, ConsumerLearns DEF Writing
<1>3. ASSUME IInv, NEW t \in Consumers, EmptyReturns(t, TRUE), pc[t] = "empty"
      PROVE  claimed = taken
  <2>1. t \in Threads /\ pc[t] = "empty" /\ pos[t] = enqueuePos
    BY <1>3 DEF EmptyReturns, Threads
  <2>2. /\ ticket[t] \in Nat /\ ticket[t] <= taken + 1 /\ ticket[t] - 1 \in Int
        /\ claimed - ticket[t] < Half - Cap /\ pos[t] = Wrap(ticket[t] - 1)
    BY <1>3, <2>1, Live DEF IInv, Tickets
  <2>3. Wrap(claimed) = Wrap(ticket[t] - 1)
    BY <1>3, <2>1, <2>2 DEF IInv, Positions
  <2>4. /\ claimed \in Int /\ ticket[t] - 1 <= claimed
        /\ claimed - (ticket[t] - 1) < Half
    BY <1>3, <2>2, Numbers
  <2>5. claimed = ticket[t] - 1
    BY <2>2, <2>3, <2>4, WrapInj
  <2> QED
    BY <1>3, <2>2, <2>5, Numbers
<1>4. ASSUME IInv, NEW t \in Consumers, EmptyReturns(t, TRUE), pc[t] # "empty"
      PROVE  taken = ticket[t] - 1
  <2>1. t \in Threads /\ pc[t] = "emptyLate" /\ dequeuePos = pos[t]
    BY <1>4 DEF EmptyReturns, Threads
  <2>2. /\ ticket[t] \in Nat /\ ticket[t] <= claimed + 1 /\ ticket[t] - 1 \in Int
        /\ claimed - ticket[t] < Half - Cap /\ pos[t] = Wrap(ticket[t] - 1)
    BY <1>4, <2>1, Live DEF IInv, Tickets
  <2>3. Wrap(taken) = Wrap(ticket[t] - 1)
    BY <1>4, <2>1, <2>2 DEF IInv, Positions
  <2>4. CASE ticket[t] - 1 <= taken
    <3>1. taken \in Int /\ taken - (ticket[t] - 1) < Half
      BY <1>4, <2>2, Numbers
    <3> QED
      BY <2>2, <2>3, <2>4, <3>1, WrapInj
  <2>5. CASE taken <= ticket[t] - 1
    <3>1. taken \in Int /\ (ticket[t] - 1) - taken < Half
      BY <1>4, <2>2, Numbers
    <3>2. Wrap(ticket[t] - 1) = Wrap(taken)
      BY <2>3
    <3> QED
      BY <2>2, <2>5, <3>1, <3>2, WrapInj
  <2> QED
    BY <1>4, <2>2, <2>4, <2>5, Numbers
<1>5. IInv /\ [Next]_vars =>
        [/\ \A t \in Producers : pc[t] = "seq" /\ pc'[t] = "idle" =>
              LET back == claimed - Cap + 1
              IN  taken < back \/ \E u \in Consumers : InCell(u) /\ ticket[u] = back
         /\ \A t \in Consumers : pc[t] = "seq" /\ pc'[t] = "idle" =>
              \/ taken = claimed
              \/ \E u \in Producers : InCell(u) /\ ticket[u] = taken + 1
         /\ \A t \in Consumers : EmptyReturns(t, TRUE) =>
              taken = IF pc[t] = "empty" THEN claimed ELSE ticket[t] - 1]_vars
  BY <1>1, <1>2, <1>3, <1>4
<1> QED
  BY <1>5, AlwaysInv, PTL DEF Spec, AnswersAreTrue

=============================================================================
