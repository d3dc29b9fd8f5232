---------------------------- MODULE ProofLemmas ----------------------------
(***************************************************************************)
(* Facts the proofs of several modules rest on.                            *)
(***************************************************************************)
EXTENDS Integers, Sequences, SequenceTheorems, WellFoundedInduction, TLAPS

(* The least-number principle for sets, from which the proofs derive their *)
(* inductions over naturals.                                               *)
LEMMA NatMin ==
    ASSUME NEW T \in SUBSET Nat, T # {}
    PROVE  \E m \in T : \A k \in T : m <= k
<1>1. PICK m \in T : \A k \in T : ~(<<k, m>> \in OpToRel(<, Nat))
  BY NatLessThanWellFounded, WFMin, Zenon
<1>2. ASSUME NEW k \in T
      PROVE  m <= k
  <2>1. ~(<<k, m>> \in {ss \in Nat \X Nat : ss[1] < ss[2]})
    BY <1>1, Zenon DEF OpToRel
  <2> QED
    BY <2>1
<1> QED
  BY <1>2

(* Induction over the naturals, for the members of a set.                  *)
LEMMA NatSetInduction ==
    ASSUME NEW T, 0 \in T, \A n \in Nat : n \in T => n + 1 \in T
    PROVE  Nat \subseteq T
<1>1. SUFFICES ASSUME Nat \ T # {} PROVE FALSE
  OBVIOUS
<1>2. PICK m \in Nat \ T : \A k \in Nat \ T : m <= k
  BY <1>1, NatMin
<1>3. m # 0 /\ m - 1 \in Nat
  BY <1>2
<1>4. m - 1 \in T
  BY <1>2, <1>3
<1> QED
  BY <1>2, <1>3, <1>4

(* Taking the head of a queue leaves the concatenation as it was.          *)
LEMMA HeadJoins ==
    ASSUME NEW S, NEW l \in Seq(S), NEW i \in Seq(S), i # <<>>
    PROVE  (l \o <<>>) \o i = (l \o <<Head(i)>>) \o Tail(i)
<1>1. Head(i) \in S /\ Tail(i) \in Seq(S)
  BY HeadTailProperties
<1>2. i = <<Head(i)>> \o Tail(i)
  OBVIOUS
<1>3. <<Head(i)>> \in Seq(S)
  BY <1>1
<1>4. (l \o <<Head(i)>>) \o Tail(i) = l \o (<<Head(i)>> \o Tail(i))
  BY <1>1, <1>3, ConcatAssociative
<1> QED
  BY <1>2, <1>4, ConcatEmptySeq

(* The remainder is the only one in range.                                 *)
LEMMA ModIs ==
    ASSUME NEW c \in Nat \ {0}, NEW a \in Int, NEW q \in Int, NEW r \in 0..(c - 1),
           a = c * q + r
    PROVE  a % c = r
<1>1. c \in Int /\ c > 0 /\ a \in Int /\ r \in Int /\ 0 <= r /\ r < c
  OBVIOUS
<1> QED
  BY <1>1

LEMMA DivMod ==
    ASSUME NEW c \in Nat \ {0}, NEW a \in Int
    PROVE  \E q \in Int, r \in 0..(c - 1) : a = c * q + r /\ a % c = r
<1>0. c \in Int /\ c > 0 /\ a \in Int
  OBVIOUS
<1> DEFINE q == a \div c
<1>1. c * q <= a /\ a < c * q + c
  BY <1>0
<1>2. c * q \in Int /\ q \in Int
  BY <1>0
<1> HIDE DEF q
<1>3. a - c * q \in 0..(c - 1) /\ a = c * q + (a - c * q)
  BY <1>1, <1>2
<1>4. a % c = a - c * q
  BY <1>2, <1>3, ModIs
<1> QED
  BY <1>2, <1>3, <1>4

(* Neighbouring multiples are that far apart.                              *)
LEMMA MultiplesApart ==
    ASSUME NEW c \in Nat \ {0}, NEW q \in Int, NEW r \in Int, q < r
    PROVE  c * q + c <= c * r
<1>1. PICK d \in Nat : r = q + 1 + d
  <2>1. r - q - 1 \in Nat /\ r = q + 1 + (r - q - 1)
    OBVIOUS
  <2> QED
    BY <2>1
<1>2. c * r = c * q + c + c * d
  BY <1>1
<1>3. c * d >= 0 /\ c * d \in Int /\ c * q \in Int /\ c * r \in Int
  BY <1>1
<1> HIDE <1>1
<1> QED
  BY <1>2, <1>3

(* One step round a ring of c places.                                      *)
LEMMA ModNext ==
    ASSUME NEW c \in Nat \ {0}, NEW a \in Int
    PROVE  (a + 1) % c = IF a % c = c - 1 THEN 0 ELSE (a % c) + 1
<1>1. PICK q \in Int, r \in 0..(c - 1) : a = c * q + r /\ a % c = r
  BY DivMod
<1>2. c * (q + 1) = c * q + c /\ c * q \in Int /\ q + 1 \in Int /\ a + 1 \in Int
  BY <1>1
<1>3. CASE r = c - 1
  <2>1. a + 1 = c * (q + 1) + 0 /\ 0 \in 0..(c - 1)
    BY <1>1, <1>2, <1>3
  <2> QED
    BY <1>1, <1>2, <1>3, <2>1, ModIs
<1>4. CASE r # c - 1
  <2>1. a + 1 = c * q + (r + 1) /\ r + 1 \in 0..(c - 1)
    BY <1>1, <1>2, <1>4
  <2> QED
    BY <1>1, <1>2, <1>4, <2>1, ModIs
<1> QED
  BY <1>3, <1>4

(* Only the distance round the ring matters.                               *)
LEMMA ModAddMod ==
    ASSUME NEW c \in Nat \ {0}, NEW a \in Int, NEW b \in Int
    PROVE  ((a % c) + b) % c = (a + b) % c
<1>1. PICK q \in Int, r \in 0..(c - 1) : a = c * q + r /\ a % c = r
  BY DivMod
<1>2. PICK s \in Int, t \in 0..(c - 1) : a + b = c * s + t /\ (a + b) % c = t
  BY DivMod
<1>3. c * (s - q) = c * s - c * q /\ c * s \in Int /\ c * q \in Int /\ s - q \in Int
  OBVIOUS
<1>4. r + b = c * (s - q) + t
  BY <1>1, <1>2, <1>3
<1>5. r + b \in Int
  OBVIOUS
<1>6. (r + b) % c = t
  BY <1>3, <1>4, <1>5, ModIs
<1> QED
  BY <1>1, <1>2, <1>6

(* Going round the whole ring changes nothing.                             *)
LEMMA ModAdd ==
    ASSUME NEW c \in Nat \ {0}, NEW a \in Int
    PROVE  (a + c) % c = a % c
<1>1. PICK q \in Int, r \in 0..(c - 1) : a = c * q + r /\ a % c = r
  BY DivMod
<1>2. c * (q + 1) = c * q + c /\ c * q \in Int /\ q + 1 \in Int /\ a + c \in Int
  BY <1>1
<1>3. a + c = c * (q + 1) + r
  BY <1>1, <1>2
<1> QED
  BY <1>1, <1>2, <1>3, ModIs

(* Places less than c apart are different.                                 *)
LEMMA ModInj ==
    ASSUME NEW c \in Nat \ {0}, NEW a \in Int, NEW b \in Int,
           a <= b, b < a + c, a % c = b % c
    PROVE  a = b
<1>1. PICK q \in Int, r \in 0..(c - 1) : a = c * q + r /\ a % c = r
  BY DivMod
<1>2. PICK s \in Int, t \in 0..(c - 1) : b = c * s + t /\ b % c = t
  BY DivMod
<1>3. c * q \in Int /\ c * s \in Int
  OBVIOUS
<1>4. ~(q < s)
  BY <1>1, <1>2, <1>3, MultiplesApart
<1>5. ~(s < q)
  BY <1>1, <1>2, <1>3, MultiplesApart
<1>6. q = s
  BY <1>4, <1>5
<1> QED
  BY <1>1, <1>2, <1>3, <1>6

(* The spot of a number among c in a ring.                                  *)
LEMMA SpotIn ==
    ASSUME NEW c \in Nat \ {0}, NEW a \in Int
    PROVE  a % c \in 0..(c - 1) /\ a % c \in Int
<1>1. \E q \in Int, r \in 0..(c - 1) : a = c * q + r /\ a % c = r
  BY DivMod
<1> QED
  BY <1>1

LEMMA SpotSmall ==
    ASSUME NEW c \in Nat \ {0}, NEW a \in 0..(c - 1)
    PROVE  a % c = a
<1>1. a = c * 0 + a /\ a \in Int /\ 0 \in Int
  OBVIOUS
<1> QED
  BY <1>1, ModIs

LEMMA SpotsApart ==
    ASSUME NEW c \in Nat \ {0}, NEW h \in Int, NEW i \in Int, NEW j \in Int,
           i < j, j < i + c
    PROVE  (h + i) % c # (h + j) % c
<1>1. h + i \in Int /\ h + j \in Int /\ h + i <= h + j /\ h + j < (h + i) + c
      /\ h + i # h + j
  OBVIOUS
<1> QED
  BY <1>1, ModInj

(* The distance between two places of the ring.                            *)
LEMMA ModDiff ==
    ASSUME NEW c \in Nat \ {0}, NEW a \in Int, NEW b \in Int, a <= b, b < a + c
    PROVE  ((b % c) + c - (a % c)) % c = b - a
<1>1. PICK q \in Int, r \in 0..(c - 1) : a = c * q + r /\ a % c = r
  BY DivMod
<1>2. PICK s \in Int, t \in 0..(c - 1) : b = c * s + t /\ b % c = t
  BY DivMod
<1>3. /\ c * (q - s + 1) = c * q - c * s + c /\ c * s \in Int /\ c * q \in Int
      /\ q - s + 1 \in Int
  OBVIOUS
<1>4. t + c - r = c * (q - s + 1) + (b - a)
  BY <1>1, <1>2, <1>3
<1>5. t + c - r \in Int /\ b - a \in 0..(c - 1)
  OBVIOUS
<1>6. (t + c - r) % c = b - a
  BY <1>3, <1>4, <1>5, ModIs
<1> QED
  BY <1>1, <1>2, <1>6

(* The naturals above h up to t, as a sequence.                            *)
Between(h, t) == [k \in 1..(t - h) |-> h + k]

LEMMA BetweenIsSeq ==
    ASSUME NEW h \in Nat, NEW t \in Nat, h <= t
    PROVE  /\ Between(h, t) \in Seq(Nat) /\ Len(Between(h, t)) = t - h
           /\ Append(Between(h, t), t + 1) = Between(h, t + 1)
           /\ h < t => /\ Between(h, t) # <<>> /\ Head(Between(h, t)) = h + 1
                       /\ Tail(Between(h, t)) = Between(h + 1, t)
<1>1. t - h \in Nat /\ t + 1 - h = (t - h) + 1
  OBVIOUS
<1> DEFINE b == Between(h, t)
<1>2. b \in Seq(Nat) /\ Len(b) = t - h /\ \A k \in 1..(t - h) : b[k] = h + k
  BY <1>1 DEF Between
<1> HIDE DEF b
<1>3. Append(b, t + 1) = Between(h, t + 1)
  <2>1. /\ Append(b, t + 1) \in Seq(Nat) /\ Len(Append(b, t + 1)) = (t - h) + 1
        /\ \A k \in 1..(t - h) : Append(b, t + 1)[k] = b[k]
        /\ Append(b, t + 1)[(t - h) + 1] = t + 1
    BY <1>1, <1>2
  <2>2. Between(h, t + 1) = [k \in 1..((t - h) + 1) |-> h + k]
    BY <1>1 DEF Between
  <2>3. \A k \in 1..((t - h) + 1) : Append(b, t + 1)[k] = h + k
    <3> TAKE k \in 1..((t - h) + 1)
    <3>1. CASE k = (t - h) + 1
      BY <2>1, <3>1
    <3>2. CASE k # (t - h) + 1
      <4>1. k \in 1..(t - h)
        BY <1>1, <3>2
      <4> QED
        BY <1>2, <2>1, <4>1
    <3> QED
      BY <3>1, <3>2
  <2> QED
    BY <2>1, <2>2, <2>3
<1>4. ASSUME h < t
      PROVE  b # <<>> /\ Head(b) = h + 1 /\ Tail(b) = Between(h + 1, t)
  <2>1. b # <<>> /\ Head(b) = h + 1
    BY <1>1, <1>2, <1>4
  <2>2. /\ Tail(b) \in Seq(Nat) /\ Len(Tail(b)) = t - h - 1
        /\ \A k \in 1..(t - h - 1) : Tail(b)[k] = b[k + 1]
    BY <1>2, <2>1, HeadTailProperties
  <2>3. \A k \in 1..(t - h - 1) : Tail(b)[k] = h + 1 + k
    <3> TAKE k \in 1..(t - h - 1)
    <3>1. k + 1 \in 1..(t - h)
      BY <1>1
    <3> QED
      BY <1>2, <2>2, <3>1
  <2>4. Between(h + 1, t) = [k \in 1..(t - h - 1) |-> h + 1 + k]
    <3>1. t - (h + 1) = t - h - 1
      OBVIOUS
    <3> QED
      BY <3>1 DEF Between
  <2> QED
    BY <2>1, <2>2, <2>3, <2>4
<1> QED
  BY <1>2, <1>3, <1>4 DEF b
=============================================================================
