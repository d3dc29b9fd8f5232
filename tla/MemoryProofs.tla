---------------------------- MODULE MemoryProofs ----------------------------
(***************************************************************************)
(* Proofs about the memory the containers live in, in the specification of  *)
(* MCContainers and for every value of its parameters: the objects of a     *)
(* client of Arena, ArenaList and BufferAllocator stay apart, in memory     *)
(* the arena has, and their destructors run exactly when they die, where    *)
(* the list of deleters in use does not dangle; the counts of RefCounted    *)
(* objects are those of the pointers there are, at every point of nested    *)
(* destructions.  The inductive invariants are ArenaInv, ArenaListInv,      *)
(* BufferInv and RefInv; each part defines what they are made of and ends   *)
(* in its theorems.                                                         *)
(***************************************************************************)
EXTENDS MCContainers, ProofLemmas, FiniteSetTheorems

-----------------------------------------------------------------------------
(* The arenas                                                               *)

Role == {"data", "ptr", "scope"}
HeldObject == [block : Nat, at : Nat, size : Nat \ {0}, depth : Nat, role : Role]

(* An object below the position pos of its block, and not above the last    *)
(* allocation, if there is one, unless it is that.                          *)
LiesBelow(x, pos, last) ==
    /\ x.at + x.size <= pos
    /\ last < 0 \/ x.at = last \/ x.at + x.size <= last

LieApart(x, y) == x.block = y.block => x.at + x.size <= y.at \/ y.at + y.size <= x.at

(* The objects l in blocks that are occupied up to occ, the last of each at *)
(* last.                                                                    *)
HeldIn(l, occ, last) ==
    /\ l \in [DOMAIN l -> HeldObject] /\ DOMAIN l \subseteq Objects
    /\ occ \in [DOMAIN occ -> Nat] /\ last \in [DOMAIN occ -> Int]
    /\ \A o \in DOMAIN l :
          l[o].block \in DOMAIN occ /\ LiesBelow(l[o], occ[l[o].block], last[l[o].block])
    /\ \A o, p \in DOMAIN l : o # p => LieApart(l[o], l[p])

With(l, o, x) == [p \in DOMAIN l \cup {o} |-> IF p = o THEN x ELSE l[p]]

(* The list s is that of the objects with a destructor of depth d, the      *)
(* youngest of a block first.                                               *)
Lists(l, s, d) ==
    /\ \A i \in 1..Len(s) : s[i] \in DOMAIN l /\ l[s[i]].role = "ptr" /\ l[s[i]].depth = d
    /\ \A o \in DOMAIN l : l[o].role = "ptr" /\ l[o].depth = d => \E i \in 1..Len(s) : s[i] = o
    /\ \A i, j \in 1..Len(s) :
          i < j /\ l[s[i]].block = l[s[j]].block => l[s[i]].at > l[s[j]].at

(* A list for the arena, and one for each of its d open scopes.  Those in K *)
(* hold the objects with a destructor: all of Arena's, of the others that   *)
(* to which the current pointer points, if it does not dangle.              *)
ListsFor(l, ls, d, K) ==
    /\ d \in Nat /\ ls \in Seq(Seq(Objects)) /\ Len(ls) = d + 1
    /\ \A o \in DOMAIN l : l[o].depth <= d
    /\ \A k \in 1..Len(ls) : k \in K => Lists(l, ls[k], k - 1)

(* The objects that were there when scope k captured a block's position and *)
(* last allocation, and that were not reallocated since.                    *)
Outlive(l, k, b, pos, last) ==
    \A o \in DOMAIN l : l[o].depth < k /\ l[o].block = b => LiesBelow(l[o], pos, last)

LEMMA HeldWith ==
    ASSUME NEW l, NEW occ, NEW last, HeldIn(l, occ, last),
           NEW o \in Objects, NEW x \in HeldObject,
           NEW occ1 \in [DOMAIN occ -> Nat], NEW last1 \in [DOMAIN occ -> Int],
           x.block \in DOMAIN occ, LiesBelow(x, occ1[x.block], last1[x.block]),
           \A p \in DOMAIN l : p # o =>
               /\ LiesBelow(l[p], occ1[l[p].block], last1[l[p].block])
               /\ LieApart(x, l[p])
    PROVE  HeldIn(With(l, o, x), occ1, last1)
<1> DEFINE m == With(l, o, x)
<1>1. /\ l \in [DOMAIN l -> HeldObject] /\ DOMAIN l \subseteq Objects
      /\ \A p \in DOMAIN l : l[p].block \in DOMAIN occ
      /\ \A p, q \in DOMAIN l : p # q => LieApart(l[p], l[q])
  BY DEF HeldIn
<1>2. /\ DOMAIN m = DOMAIN l \cup {o} /\ m \in [DOMAIN m -> HeldObject]
      /\ DOMAIN m \subseteq Objects
      /\ m[o] = x /\ \A p \in DOMAIN l : p # o => m[p] = l[p]
  BY <1>1 DEF With
<1>3. DOMAIN occ1 = DOMAIN occ
  OBVIOUS
<1> HIDE DEF m
<1>4. ASSUME NEW p \in DOMAIN m
      PROVE  m[p].block \in DOMAIN occ1 /\ LiesBelow(m[p], occ1[m[p].block], last1[m[p].block])
  BY <1>1, <1>2, <1>3, <1>4
<1>5. ASSUME NEW p \in DOMAIN m, NEW q \in DOMAIN m, p # q
      PROVE  LieApart(m[p], m[q])
  <2>1. CASE p = o
    BY <1>2, <1>5, <2>1
  <2>2. CASE q = o
    <3>1. LieApart(x, l[p]) /\ m[p] = l[p] /\ m[q] = x
      BY <1>2, <1>5, <2>2
    <3> QED
      BY <3>1 DEF LieApart
  <2>3. CASE p # o /\ q # o
    BY <1>1, <1>2, <1>5, <2>3
  <2> QED
    BY <2>1, <2>2, <2>3
<1> QED
  BY <1>2, <1>3, <1>4, <1>5 DEF HeldIn, m

(* An object allocated, or moved, to the end of a block.                    *)
LEMMA HeldPlaced ==
    ASSUME NEW l, NEW occ, NEW last, HeldIn(l, occ, last),
           NEW o \in Objects, NEW x \in HeldObject, x.block \in DOMAIN occ, x.at = occ[x.block],
           NEW occ1 \in [DOMAIN occ -> Nat], NEW last1 \in [DOMAIN occ -> Int],
           occ1[x.block] = x.at + x.size, last1[x.block] = x.at,
           \A b \in DOMAIN occ : b # x.block => occ1[b] = occ[b] /\ last1[b] = last[b]
    PROVE  HeldIn(With(l, o, x), occ1, last1)
<1>1. x.at \in Nat /\ x.size \in Nat \ {0}
  BY DEF HeldObject
<1>2. LiesBelow(x, occ1[x.block], last1[x.block])
  BY <1>1 DEF LiesBelow
<1>3. ASSUME NEW p \in DOMAIN l, p # o
      PROVE  LiesBelow(l[p], occ1[l[p].block], last1[l[p].block]) /\ LieApart(x, l[p])
  <2>1. /\ l[p] \in HeldObject /\ l[p].block \in DOMAIN occ
        /\ LiesBelow(l[p], occ[l[p].block], last[l[p].block])
    BY DEF HeldIn
  <2>2. l[p].at \in Nat /\ l[p].size \in Nat
    BY <2>1 DEF HeldObject
  <2>3. CASE l[p].block = x.block
    BY <1>1, <2>1, <2>2, <2>3 DEF LiesBelow, LieApart
  <2>4. CASE l[p].block # x.block
    BY <2>1, <2>4 DEF LieApart
  <2> QED
    BY <2>3, <2>4
<1> QED
  BY <1>2, <1>3, HeldWith

(* The last object of a block resized where it is.                          *)
LEMMA HeldResized ==
    ASSUME NEW l, NEW occ, NEW last, HeldIn(l, occ, last),
           NEW o \in DOMAIN l, NEW x \in HeldObject, x.block = l[o].block, x.at = l[o].at,
           x.at = last[x.block],
           NEW occ1 \in [DOMAIN occ -> Nat], occ1[x.block] = x.at + x.size,
           \A b \in DOMAIN occ : b # x.block => occ1[b] = occ[b]
    PROVE  HeldIn(With(l, o, x), occ1, last)
<1>1. x.at \in Nat /\ x.size \in Nat \ {0}
  BY DEF HeldObject
<1>2. LiesBelow(x, occ1[x.block], last[x.block])
  BY <1>1 DEF LiesBelow
<1>3. o \in Objects /\ x.block \in DOMAIN occ /\ last \in [DOMAIN occ -> Int]
  BY DEF HeldIn
<1>4. ASSUME NEW p \in DOMAIN l, p # o
      PROVE  LiesBelow(l[p], occ1[l[p].block], last[l[p].block]) /\ LieApart(x, l[p])
  <2>1. /\ l[p] \in HeldObject /\ l[p].block \in DOMAIN occ
        /\ LiesBelow(l[p], occ[l[p].block], last[l[p].block])
        /\ LieApart(l[o], l[p]) /\ l[o] \in HeldObject
    BY <1>4 DEF HeldIn
  <2>2. l[p].at \in Nat /\ l[p].size \in Nat \ {0} /\ l[o].size \in Nat \ {0} /\ l[o].at \in Nat
    BY <2>1 DEF HeldObject
  <2>3. CASE l[p].block = x.block
    <3>1. l[p].at # x.at
      BY <2>1, <2>2, <2>3 DEF LieApart
    <3>2. l[p].at + l[p].size <= x.at
      BY <1>1, <2>1, <2>2, <2>3, <3>1 DEF LiesBelow
    <3> QED
      BY <1>1, <2>2, <2>3, <3>2 DEF LiesBelow, LieApart
  <2>4. CASE l[p].block # x.block
    BY <2>1, <2>4 DEF LieApart
  <2> QED
    BY <2>3, <2>4
<1> QED
  BY <1>2, <1>3, <1>4, HeldWith

(* An object that shrinks where it is.                                      *)
LEMMA HeldShrunk ==
    ASSUME NEW l, NEW occ, NEW last, HeldIn(l, occ, last),
           NEW o \in DOMAIN l, NEW x \in HeldObject, x.block = l[o].block, x.at = l[o].at,
           x.size <= l[o].size
    PROVE  HeldIn(With(l, o, x), occ, last)
<1>1. /\ x.at \in Nat /\ x.size \in Nat \ {0} /\ o \in Objects
      /\ occ \in [DOMAIN occ -> Nat] /\ last \in [DOMAIN occ -> Int]
      /\ l[o] \in HeldObject /\ l[o].block \in DOMAIN occ
      /\ LiesBelow(l[o], occ[l[o].block], last[l[o].block])
  BY DEF HeldObject, HeldIn
<1>2. l[o].size \in Nat /\ occ[x.block] \in Nat /\ last[x.block] \in Int
  BY <1>1 DEF HeldObject
<1>3. LiesBelow(x, occ[x.block], last[x.block])
  BY <1>1, <1>2 DEF LiesBelow
<1>4. ASSUME NEW p \in DOMAIN l, p # o
      PROVE  LiesBelow(l[p], occ[l[p].block], last[l[p].block]) /\ LieApart(x, l[p])
  <2>1. /\ l[p] \in HeldObject /\ LiesBelow(l[p], occ[l[p].block], last[l[p].block])
        /\ LieApart(l[o], l[p])
    BY <1>4 DEF HeldIn
  <2>2. l[p].at \in Nat /\ l[p].size \in Nat
    BY <2>1 DEF HeldObject
  <2>3. LieApart(x, l[p])
    BY <1>1, <1>2, <2>1, <2>2 DEF LieApart
  <2> QED
    BY <2>1, <2>3
<1> QED
  BY <1>1, <1>3, <1>4, HeldWith

(* Some of the objects, where they are, in blocks that hold them.           *)
LEMMA HeldKept ==
    ASSUME NEW l, NEW occ, NEW last, HeldIn(l, occ, last), NEW S \in SUBSET DOMAIN l,
           NEW occ1, NEW last1,
           occ1 \in [DOMAIN occ1 -> Nat], last1 \in [DOMAIN occ1 -> Int],
           \A p \in S : /\ l[p].block \in DOMAIN occ1
                        /\ LiesBelow(l[p], occ1[l[p].block], last1[l[p].block])
    PROVE  HeldIn([p \in S |-> l[p]], occ1, last1)
<1> DEFINE m == [p \in S |-> l[p]]
<1>1. /\ l \in [DOMAIN l -> HeldObject] /\ DOMAIN l \subseteq Objects
      /\ \A p, q \in DOMAIN l : p # q => LieApart(l[p], l[q])
  BY DEF HeldIn
<1>2. /\ DOMAIN m = S /\ m \in [DOMAIN m -> HeldObject] /\ DOMAIN m \subseteq Objects
      /\ \A p \in S : m[p] = l[p] /\ p \in DOMAIN l
  BY <1>1
<1> HIDE DEF m
<1>3. \A p \in DOMAIN m :
          m[p].block \in DOMAIN occ1 /\ LiesBelow(m[p], occ1[m[p].block], last1[m[p].block])
  BY <1>2
<1>4. \A p, q \in DOMAIN m : p # q => LieApart(m[p], m[q])
  BY <1>1, <1>2
<1> QED
  BY <1>2, <1>3, <1>4 DEF HeldIn, m

-----------------------------------------------------------------------------
(* The lists of deleters                                                    *)

(* Only the objects that are listed matter.                                 *)
LEMMA ListsSame ==
    ASSUME NEW l, NEW m, NEW s, NEW d, Lists(l, s, d),
           \A o \in DOMAIN l : l[o].role = "ptr" /\ l[o].depth = d => o \in DOMAIN m /\ m[o] = l[o],
           \A o \in DOMAIN m : m[o].role = "ptr" /\ m[o].depth = d => o \in DOMAIN l /\ m[o] = l[o]
    PROVE  Lists(m, s, d)
<1>1. \A i \in 1..Len(s) : s[i] \in DOMAIN m /\ m[s[i]] = l[s[i]]
  BY DEF Lists
<1> QED
  BY <1>1 DEF Lists

LEMMA ListsNone ==
    ASSUME NEW l, NEW d, \A o \in DOMAIN l : ~(l[o].role = "ptr" /\ l[o].depth = d)
    PROVE  Lists(l, <<>>, d)
BY DEF Lists

(* A new object registers itself.                                           *)
LEMMA ListsPush ==
    ASSUME NEW l, NEW s \in Seq(Objects), NEW d, Lists(l, s, d),
           NEW o \in Objects, o \notin DOMAIN l, NEW x, x.role = "ptr", x.depth = d,
           \A p \in DOMAIN l : l[p].block = x.block => l[p].at < x.at
    PROVE  Lists(With(l, o, x), <<o>> \o s, d)
<1> DEFINE m == With(l, o, x)
           t == <<o>> \o s
<1>1. /\ DOMAIN m = DOMAIN l \cup {o} /\ m[o] = x /\ \A p \in DOMAIN l : m[p] = l[p]
  BY DEF With
<1>2. /\ Len(s) \in Nat /\ Len(t) = Len(s) + 1 /\ t[1] = o
      /\ \A i \in 1..Len(t) : i # 1 => i - 1 \in 1..Len(s) /\ t[i] = s[i - 1]
      /\ \A i \in 1..Len(s) : i + 1 \in 1..Len(t) /\ t[i + 1] = s[i]
      /\ 1 \in 1..Len(t)
  OBVIOUS
<1> HIDE DEF m, t
<1>3. \A i \in 1..Len(s) : s[i] \in DOMAIN l /\ m[s[i]] = l[s[i]]
  BY <1>1 DEF Lists
<1>4. ASSUME NEW i \in 1..Len(t)
      PROVE  t[i] \in DOMAIN m /\ m[t[i]].role = "ptr" /\ m[t[i]].depth = d
  <2>1. CASE i = 1
    BY <1>1, <1>2, <2>1
  <2>2. CASE i # 1
    BY <1>1, <1>2, <1>3, <2>2 DEF Lists
  <2> QED
    BY <2>1, <2>2
<1>5. ASSUME NEW p \in DOMAIN m, m[p].role = "ptr", m[p].depth = d
      PROVE  \E i \in 1..Len(t) : t[i] = p
  <2>1. CASE p = o
    BY <1>2, <2>1
  <2>2. CASE p # o
    <3>1. p \in DOMAIN l /\ l[p] = m[p]
      BY <1>1, <2>2
    <3>2. PICK i \in 1..Len(s) : s[i] = p
      BY <1>5, <3>1 DEF Lists
    <3> QED
      BY <1>2, <3>2
  <2> QED
    BY <2>1, <2>2
<1>6. ASSUME NEW i \in 1..Len(t), NEW j \in 1..Len(t), i < j, m[t[i]].block = m[t[j]].block
      PROVE  m[t[i]].at > m[t[j]].at
  <2>1. j # 1 /\ j - 1 \in 1..Len(s) /\ t[j] = s[j - 1]
    BY <1>2, <1>6
  <2>2. t[j] \in DOMAIN l /\ m[t[j]] = l[t[j]]
    BY <1>3, <2>1
  <2>3. CASE i = 1
    <3>1. t[i] = o /\ m[t[i]] = x
      BY <1>1, <1>2, <2>3
    <3>2. l[t[j]].at < x.at
      BY <1>6, <2>2, <3>1
    <3> QED
      BY <2>2, <3>1, <3>2
  <2>4. CASE i # 1
    <3>1. i - 1 \in 1..Len(s) /\ t[i] = s[i - 1] /\ i - 1 < j - 1
      BY <1>2, <1>6, <2>4
    <3>2. m[t[i]] = l[s[i - 1]] /\ m[t[j]] = l[s[j - 1]]
      BY <1>3, <2>1, <3>1
    <3> QED
      BY <1>6, <2>1, <3>1, <3>2 DEF Lists
  <2> QED
    BY <2>3, <2>4
<1> QED
  BY <1>4, <1>5, <1>6 DEF Lists, m, t

(* An object without a destructor, new or reallocated.                      *)
LEMMA ListsWithData ==
    ASSUME NEW l, NEW ls, NEW d, NEW K, ListsFor(l, ls, d, K), NEW o, NEW x,
           x.role # "ptr", x.depth <= d, o \in DOMAIN l => l[o].role # "ptr"
    PROVE  ListsFor(With(l, o, x), ls, d, K)
<1> DEFINE m == With(l, o, x)
<1>1. DOMAIN m = DOMAIN l \cup {o} /\ m[o] = x /\ \A p \in DOMAIN l : p # o => m[p] = l[p]
  BY DEF With
<1> HIDE DEF m
<1>2. ASSUME NEW k \in 1..Len(ls), k \in K PROVE Lists(m, ls[k], k - 1)
  <2>1. Lists(l, ls[k], k - 1)
    BY <1>2 DEF ListsFor
  <2> QED
    BY <1>1, <2>1, ListsSame
<1>3. \A p \in DOMAIN m : m[p].depth <= d
  BY <1>1 DEF ListsFor
<1> QED
  BY <1>2, <1>3 DEF ListsFor, m

(* A new object with a destructor, in the innermost scope.                  *)
LEMMA ListsWithPtr ==
    ASSUME NEW l, NEW ls, NEW d, NEW K, ListsFor(l, ls, d, K),
           NEW o \in Objects, o \notin DOMAIN l, NEW x,
           x.role = "ptr", x.depth = d,
           \A p \in DOMAIN l : l[p].block = x.block => l[p].at < x.at,
           NEW k0, k0 = Len(ls)
    PROVE  ListsFor(With(l, o, x), [ls EXCEPT ![k0] = <<o>> \o @], d, K)
<1> DEFINE m == With(l, o, x)
           ls1 == [ls EXCEPT ![k0] = <<o>> \o @]
<1>1. DOMAIN m = DOMAIN l \cup {o} /\ m[o] = x /\ \A p \in DOMAIN l : m[p] = l[p]
  BY DEF With
<1>2. /\ d \in Nat /\ ls \in Seq(Seq(Objects)) /\ Len(ls) = d + 1 /\ k0 \in 1..Len(ls)
      /\ \A p \in DOMAIN l : l[p].depth <= d
      /\ \A k \in 1..Len(ls) : k \in K => Lists(l, ls[k], k - 1)
  BY DEF ListsFor
<1>3. ls[k0] \in Seq(Objects) /\ <<o>> \o ls[k0] \in Seq(Objects)
  BY <1>2
<1>4. /\ ls1 \in Seq(Seq(Objects)) /\ Len(ls1) = Len(ls) /\ ls1[k0] = <<o>> \o ls[k0]
      /\ \A k \in 1..Len(ls) : k # k0 => ls1[k] = ls[k]
  BY <1>2, <1>3
<1>5. ASSUME k0 \in K PROVE Lists(m, <<o>> \o ls[k0], d)
  <2>1. Lists(l, ls[k0], d)
    BY <1>2, <1>5
  <2> QED
    BY <1>3, <2>1, ListsPush
<1> HIDE DEF m, ls1
<1>6. ASSUME NEW k \in 1..Len(ls1), k \in K PROVE Lists(m, ls1[k], k - 1)
  <2>1. CASE k = k0
    <3>1. k - 1 = d /\ ls1[k] = <<o>> \o ls[k0]
      BY <1>2, <1>4, <2>1
    <3> QED
      BY <1>5, <1>6, <2>1, <3>1
  <2>2. CASE k # k0
    <3>1. Lists(l, ls[k], k - 1) /\ ls1[k] = ls[k] /\ k - 1 # d
      BY <1>2, <1>4, <1>6, <2>2
    <3> QED
      BY <1>1, <3>1, ListsSame
  <2> QED
    BY <2>1, <2>2
<1>7. \A p \in DOMAIN m : m[p].depth <= d
  BY <1>1, <1>2
<1> QED
  BY <1>2, <1>4, <1>6, <1>7 DEF ListsFor, m, ls1

(* A new object with a destructor that strays.                              *)
LEMMA ListsWithStray ==
    ASSUME NEW l, NEW ls, NEW d, NEW K, ListsFor(l, ls, d, K), \A k \in 1..Len(ls) : k \notin K,
           NEW o, NEW x, x.depth <= d
    PROVE  ListsFor(With(l, o, x), ls, d, K)
<1> DEFINE m == With(l, o, x)
<1>1. DOMAIN m = DOMAIN l \cup {o} /\ m[o] = x /\ \A p \in DOMAIN l : p # o => m[p] = l[p]
  BY DEF With
<1> HIDE DEF m
<1>2. \A p \in DOMAIN m : m[p].depth <= d
  BY <1>1 DEF ListsFor
<1> QED
  BY <1>2 DEF ListsFor, m

(* A scope is entered.                                                      *)
LEMMA ListsEnter ==
    ASSUME NEW l, l \in [DOMAIN l -> HeldObject], NEW ls, NEW d, NEW K, ListsFor(l, ls, d, K),
           NEW K1, \A k \in 1..d + 1 : k \in K1 => k \in K
    PROVE  ListsFor(l, Append(ls, <<>>), d + 1, K1)
<1> DEFINE ls1 == Append(ls, <<>>)
<1>1. /\ d \in Nat /\ ls \in Seq(Seq(Objects)) /\ Len(ls) = d + 1
      /\ \A p \in DOMAIN l : l[p].depth <= d /\ l[p].depth \in Nat
      /\ \A k \in 1..Len(ls) : k \in K => Lists(l, ls[k], k - 1)
  BY DEF ListsFor, HeldObject
<1>2. /\ ls1 \in Seq(Seq(Objects)) /\ Len(ls1) = d + 2 /\ ls1[d + 2] = <<>>
      /\ \A k \in 1..Len(ls) : ls1[k] = ls[k]
  BY <1>1
<1> HIDE DEF ls1
<1>3. ASSUME NEW k \in 1..Len(ls1), k \in K1 PROVE Lists(l, ls1[k], k - 1)
  <2>1. CASE k = d + 2
    <3>1. \A o \in DOMAIN l : ~(l[o].role = "ptr" /\ l[o].depth = k - 1)
      BY <1>1, <2>1
    <3> QED
      BY <1>2, <2>1, <3>1, ListsNone
  <2>2. CASE k # d + 2
    <3>1. k \in 1..Len(ls) /\ k \in K
      BY <1>1, <1>2, <1>3, <2>2
    <3>2. Lists(l, ls[k], k - 1) /\ ls1[k] = ls[k]
      BY <1>1, <1>2, <3>1
    <3> QED
      BY <3>2
  <2> QED
    BY <2>1, <2>2
<1>4. \A p \in DOMAIN l : l[p].depth <= d + 1
  BY <1>1
<1> QED
  BY <1>1, <1>2, <1>3, <1>4 DEF ListsFor, ls1

(* A scope ends.                                                            *)
LEMMA ListsEnd ==
    ASSUME NEW l, l \in [DOMAIN l -> HeldObject],
           NEW ls, NEW d, NEW K, ListsFor(l, ls, d, K), d > 0,
           NEW ls1 \in Seq(Seq(Objects)), Len(ls1) = Len(ls), \A k \in 1..d : ls1[k] = ls[k],
           NEW K1, \A k \in 1..d : k \in K1 => k \in K
    PROVE  ListsFor([p \in {o \in DOMAIN l : l[o].depth < d} |-> l[p]],
                    SubSeq(ls1, 1, Len(ls1) - 1), d - 1, K1)
<1> DEFINE S == {o \in DOMAIN l : l[o].depth < d}
           m == [p \in S |-> l[p]]
           ls2 == SubSeq(ls1, 1, Len(ls1) - 1)
<1>1. /\ d \in Nat /\ ls \in Seq(Seq(Objects)) /\ Len(ls) = d + 1
      /\ \A p \in DOMAIN l : l[p].depth <= d /\ l[p].depth \in Nat
      /\ \A k \in 1..Len(ls) : k \in K => Lists(l, ls[k], k - 1)
  BY DEF ListsFor, HeldObject
<1>3. /\ ls1 \in Seq(Seq(Objects)) /\ Len(ls1) = d + 1 /\ \A k \in 1..d : ls1[k] = ls[k]
  BY <1>1
<1>4. /\ ls2 \in Seq(Seq(Objects)) /\ Len(ls2) = d /\ \A k \in 1..d : ls2[k] = ls[k]
  BY <1>1, <1>3
<1>5. DOMAIN m = S /\ \A p \in S : m[p] = l[p] /\ p \in DOMAIN l /\ l[p].depth < d
  OBVIOUS
<1>6. \A p \in DOMAIN l : l[p].depth < d => p \in S
  OBVIOUS
<1> HIDE DEF S, m, ls2
<1>7. ASSUME NEW k \in 1..Len(ls2), k \in K1 PROVE Lists(m, ls2[k], k - 1)
  <2>1. Lists(l, ls[k], k - 1) /\ ls2[k] = ls[k] /\ k - 1 < d
    BY <1>1, <1>4, <1>7
  <2> QED
    BY <1>5, <1>6, <2>1, ListsSame
<1>8. \A p \in DOMAIN m : m[p].depth <= d - 1
  BY <1>1, <1>5
<1>9. ListsFor(m, ls2, d - 1, K1)
  BY <1>1, <1>4, <1>7, <1>8 DEF ListsFor
<1> QED
  BY <1>9 DEF m, S, ls2

(* The current list emptied, or all of them as they were.                   *)
LEMMA ListsCleared ==
    ASSUME NEW ls \in Seq(Seq(Objects)), NEW n \in Nat, Len(ls) = n + 1, NEW c \in Nat,
           c >= Len(ls), NEW ls1,
           ls1 = IF c \in DOMAIN ls THEN [ls EXCEPT ![c] = <<>>] ELSE ls
    PROVE  ls1 \in Seq(Seq(Objects)) /\ Len(ls1) = Len(ls) /\ \A k \in 1..n : ls1[k] = ls[k]
<1>1. <<>> \in Seq(Objects)
  OBVIOUS
<1>2. CASE c \in DOMAIN ls
  BY <1>1, <1>2
<1>3. CASE c \notin DOMAIN ls
  BY <1>3
<1> QED
  BY <1>2, <1>3

(* Nothing is held.                                                         *)
LEMMA ListsEmpty ==
    ASSUME NEW l, DOMAIN l = {}, NEW K,
           NEW ls, ls \in Seq(Seq(Objects)), Len(ls) = 1, 1 \in K => ls[1] = <<>>
    PROVE  ListsFor(l, ls, 0, K)
<1>1. Lists(l, <<>>, 0)
  BY ListsNone
<1>2. ASSUME NEW k \in 1..Len(ls), k \in K PROVE Lists(l, ls[k], k - 1)
  <2>1. k = 1 /\ k - 1 = 0
    OBVIOUS
  <2> QED
    BY <1>1, <1>2, <2>1
<1> QED
  BY <1>2 DEF ListsFor

(* What a scope captured still holds for the objects that outlive it.       *)
LEMMA OutliveWith ==
    ASSUME NEW l, NEW k \in Nat, NEW b, NEW pos, NEW last, Outlive(l, k, b, pos, last),
           NEW o, NEW x, x.depth \in Nat, x.depth >= k
    PROVE  Outlive(With(l, o, x), k, b, pos, last)
<1>1. /\ DOMAIN With(l, o, x) = DOMAIN l \cup {o} /\ With(l, o, x)[o] = x
      /\ \A p \in DOMAIN l : p # o => With(l, o, x)[p] = l[p]
  BY DEF With
<1> QED
  BY <1>1 DEF Outlive

LEMMA OutliveKept ==
    ASSUME NEW l, NEW k, NEW b, NEW pos, NEW last, Outlive(l, k, b, pos, last),
           NEW S \in SUBSET DOMAIN l
    PROVE  Outlive([p \in S |-> l[p]], k, b, pos, last)
BY DEF Outlive

-----------------------------------------------------------------------------
(* Destruction                                                              *)

LEMMA NoneDies ==
    ASSUME ran' = <<>>, \A o \in DOMAIN live : o \notin DOMAIN live' => live[o].role # "ptr"
    PROVE  Arena!DiesOnce
BY DEF Arena!DiesOnce, Arena!Range, Arena!IsInjective

LEMMA ListedDie ==
    ASSUME NEW d, Lists(live, ran', d), ran' \in Seq(Objects),
           \A o \in DOMAIN live : live[o].at \in Int,
           \A o \in DOMAIN live : live[o].role = "ptr" =>
               (o \notin DOMAIN live' <=> live[o].depth = d)
    PROVE  Arena!DiesOnce
<1>1. DOMAIN ran' = 1..Len(ran')
  OBVIOUS
<1>2. Arena!Range(ran') = {o \in DOMAIN live : o \notin DOMAIN live' /\ live[o].role = "ptr"}
  BY <1>1 DEF Arena!Range, Lists
<1>3. \A i, j \in DOMAIN ran' :
         i < j /\ live[ran'[i]].block = live[ran'[j]].block => live[ran'[i]].at > live[ran'[j]].at
  BY <1>1 DEF Lists
<1>4. ASSUME NEW i \in DOMAIN ran', NEW j \in DOMAIN ran', ran'[i] = ran'[j] PROVE i = j
  <2>1. i \in Int /\ j \in Int /\ live[ran'[i]].at \in Int
    BY <1>1 DEF Lists
  <2>2. ~(i < j) /\ ~(j < i)
    BY <1>3, <1>4, <2>1
  <2> QED
    BY <2>1, <2>2
<1> QED
  BY <1>2, <1>3, <1>4 DEF Arena!DiesOnce, Arena!IsInjective

(* The three arenas say the same of destruction.                            *)
LEMMA SameDeaths ==
    /\ ArenaList!DiesOnce = Arena!DiesOnce
    /\ Buffer!DiesOnce = Arena!DiesOnce
BY DEF Arena!DiesOnce, Arena!Range, Arena!IsInjective, ArenaList!DiesOnce, ArenaList!Range,
       ArenaList!IsInjective, Buffer!DiesOnce, Buffer!Range, Buffer!IsInjective

-----------------------------------------------------------------------------
(* Arena                                                                    *)

ArenaInv ==
    /\ HeldIn(live, [b \in {0} |-> m_pos], [b \in {0} |-> m_pLastAlloc])
    /\ ListsFor(live, lists, Len(scopes), Nat)
    /\ m_pos \in Nat /\ m_commited \in Nat /\ m_reserved \in Nat /\ m_pLastAlloc \in Int
    /\ m_pos <= m_commited /\ m_commited <= m_reserved
    /\ m_pLCurrentDeleters \in {0, Len(lists)}
    /\ scopes \in Seq([pos : Nat, last : Int, current : Nat])
    /\ \A k \in 1..Len(scopes) :
          /\ scopes[k].pos <= m_commited /\ scopes[k].current \in {0, k}
          /\ Outlive(live, k, 0, scopes[k].pos, scopes[k].last)

(* What the arenas have in common.                                          *)
LEMMA HeldOf ==
    ASSUME NEW l, NEW occ, NEW last, HeldIn(l, occ, last), NEW o \in DOMAIN l
    PROVE  /\ o \in Objects /\ l[o] \in HeldObject
           /\ l[o].at \in Nat /\ l[o].size \in Nat \ {0} /\ l[o].depth \in Nat /\ l[o].block \in Nat
           /\ l[o].role \in Role /\ l[o].block \in DOMAIN occ
           /\ LiesBelow(l[o], occ[l[o].block], last[l[o].block])
BY DEF HeldIn, HeldObject

LEMMA FreshIs ==
    ASSUME ArenaSizes, Arena!Unused # {}
    PROVE  Arena!Fresh \in Objects /\ Arena!Fresh \notin DOMAIN live
<1>1. Arena!Unused \in SUBSET Nat
  BY DEF ArenaSizes, Arena!Unused
<1>2. \E o \in Arena!Unused : \A p \in Arena!Unused : o <= p
  BY <1>1, NatMin
<1>3. Arena!Fresh \in Arena!Unused
  BY <1>2 DEF Arena!Fresh
<1> QED
  BY <1>3 DEF Arena!Unused

LEMMA TimesMono ==
    ASSUME NEW n \in Nat, NEW m \in Nat, n <= m, NEW c \in Nat
    PROVE  n * c <= m * c
<1>1. m - n \in Nat /\ m = n + (m - n)
  OBVIOUS
<1>2. (m - n) * c \in Nat /\ n * c \in Nat /\ m * c = n * c + (m - n) * c
  BY <1>1
<1> QED
  BY <1>2

LEMMA AlignUpPage ==
    ASSUME ArenaSizes, NEW n \in Nat
    PROVE  Arena!alignUpPage(n) \in Nat /\ n <= Arena!alignUpPage(n)
<1> DEFINE a == n + PageSize - 1
           q == a \div PageSize
<1>1. PageSize \in Nat \ {0} /\ a \in Nat
  BY DEF ArenaSizes
<1> HIDE DEF a
<1>2. q \in Nat /\ a < q * PageSize + PageSize
  BY <1>1
<1>3. Arena!alignUpPage(n) = q * PageSize
  BY DEF Arena!alignUpPage, a
<1> HIDE DEF q
<1>4. q * PageSize \in Nat
  BY <1>1, <1>2
<1>5. n <= q * PageSize
  <2> DEFINE e == q * PageSize
  <2>1. e \in Nat /\ n + PageSize - 1 < e + PageSize
    BY <1>2, <1>4 DEF a
  <2> HIDE DEF e
  <2>2. n <= e
    BY <1>1, <2>1
  <2> QED
    BY <2>2 DEF e
<1> QED
  BY <1>3, <1>4, <1>5

LEMMA CommittedIs ==
    ASSUME ArenaSizes, m_commited \in Nat, NEW n \in Nat
    PROVE  /\ Arena!Committed(n) \in Nat /\ n <= Arena!Committed(n)
           /\ m_commited <= Arena!Committed(n)
<1>1. Arena!alignUpPage(n) \in Nat /\ n <= Arena!alignUpPage(n)
  BY AlignUpPage
<1> QED
  BY <1>1 DEF Arena!Committed, Arena!Larger

(* Allocation at the position.                                              *)
LEMMA ArenaAllocates ==
    ASSUME ArenaSizes, ArenaInv, Arena!Unused # {}, NEW n \in Nat \ {0}, NEW d \in Nat,
           NEW role \in Role, Arena!Allocate(n, d, role)
    PROVE  LET o == Arena!Fresh
               x == Arena!Object(0, m_pos, n, d, role)
           IN /\ o \in Objects /\ o \notin DOMAIN live /\ live' = With(live, o, x)
              /\ x.role = role /\ x.depth = d /\ x.at = m_pos /\ x.block = 0
              /\ \A p \in DOMAIN live : live[p].at < m_pos
              /\ HeldIn(live', [b \in {0} |-> m_pos'], [b \in {0} |-> m_pLastAlloc'])
              /\ m_pos' \in Nat /\ m_commited' \in Nat /\ m_reserved' \in Nat
              /\ m_pLastAlloc' \in Int
              /\ m_pos' <= m_commited' /\ m_commited' <= m_reserved'
              /\ m_commited <= m_commited'
<1> DEFINE o == Arena!Fresh
           x == Arena!Object(0, m_pos, n, d, role)
           occ == [b \in {0} |-> m_pos]
           last == [b \in {0} |-> m_pLastAlloc]
           occ1 == [b \in {0} |-> m_pos']
           last1 == [b \in {0} |-> m_pLastAlloc']
<1>1. /\ Arena!Committed(m_pos + n) <= m_reserved /\ m_commited' = Arena!Committed(m_pos + n)
      /\ m_pos' = m_pos + n /\ m_pLastAlloc' = m_pos /\ m_reserved' = m_reserved
      /\ live' = With(live, o, x)
  BY DEF Arena!Allocate, Arena!growIfNeeded, Arena!Put, With
<1>2. m_pos \in Nat /\ m_commited \in Nat /\ m_reserved \in Nat /\ HeldIn(live, occ, last)
  BY DEF ArenaInv
<1>3. n \in Nat /\ n # 0
  OBVIOUS
<1>4. o \in Objects /\ o \notin DOMAIN live
  BY FreshIs
<1>5. /\ x \in HeldObject /\ x.block = 0 /\ x.at = m_pos /\ x.size = n /\ x.depth = d
      /\ x.role = role
  BY <1>2, <1>3 DEF Arena!Object, HeldObject
<1>6. /\ m_pos' \in Nat /\ m_commited' \in Nat /\ m_reserved' \in Nat /\ m_pLastAlloc' \in Int
      /\ m_pos' <= m_commited' /\ m_commited' <= m_reserved' /\ m_commited <= m_commited'
  BY <1>1, <1>2, <1>3, CommittedIs
<1>7. /\ DOMAIN occ = {0} /\ occ[0] = m_pos /\ last[0] = m_pLastAlloc
      /\ occ1 \in [{0} -> Nat] /\ last1 \in [{0} -> Int] /\ occ1[0] = m_pos + n /\ last1[0] = m_pos
  BY <1>1, <1>6
<1> HIDE DEF o, x, occ, last, occ1, last1
<1>8. HeldIn(With(live, o, x), occ1, last1)
  BY <1>2, <1>4, <1>5, <1>7, HeldPlaced
<1>9. ASSUME NEW p \in DOMAIN live PROVE live[p].at < m_pos
  <2>1. /\ live[p].at \in Nat /\ live[p].size \in Nat \ {0} /\ live[p].block = 0
        /\ LiesBelow(live[p], occ[live[p].block], last[live[p].block])
    BY <1>2, <1>7, HeldOf
  <2> QED
    BY <1>2, <1>7, <2>1 DEF LiesBelow
<1> QED
  BY <1>1, <1>4, <1>5, <1>6, <1>8, <1>9 DEF o, x, occ1, last1

(* The captured states, where objects are added, and moved, deeper.         *)
LEMMA ArenaScopesKept ==
    ASSUME ArenaInv, m_commited' \in Nat, m_commited <= m_commited',
           NEW o, NEW x, x.depth \in Nat, x.depth >= Len(scopes), live' = With(live, o, x),
           scopes' = scopes
    PROVE  \A k \in 1..Len(scopes') :
              /\ scopes'[k].pos <= m_commited' /\ scopes'[k].current \in {0, k}
              /\ Outlive(live', k, 0, scopes'[k].pos, scopes'[k].last)
<1> TAKE k \in 1..Len(scopes')
<1> DEFINE captured == [pos : Nat, last : Int, current : Nat]
<1>1. /\ scopes \in Seq(captured) /\ m_commited \in Nat
      /\ \A q \in 1..Len(scopes) :
            /\ scopes[q].pos <= m_commited /\ scopes[q].current \in {0, q}
            /\ Outlive(live, q, 0, scopes[q].pos, scopes[q].last)
  BY DEF ArenaInv
<1> HIDE DEF captured
<1>2. k \in 1..Len(scopes) /\ scopes[k] \in captured /\ Len(scopes) \in Nat /\ k \in Nat
  BY <1>1
<1>3. scopes[k].pos \in Nat
  BY <1>2 DEF captured
<1>4. /\ scopes[k].pos <= m_commited /\ scopes[k].current \in {0, k}
      /\ Outlive(live, k, 0, scopes[k].pos, scopes[k].last)
      /\ m_commited \in Nat /\ scopes[k].pos \in Nat
      /\ k \in Nat /\ Len(scopes) \in Nat /\ k <= Len(scopes)
  BY <1>1, <1>2, <1>3
<1>5. scopes'[k].pos <= m_commited'
  BY <1>4
<1>6. x.depth >= k
  BY <1>4
<1>7. Outlive(live', k, 0, scopes[k].pos, scopes[k].last)
  BY <1>4, <1>6, OutliveWith
<1> QED
  BY <1>4, <1>5, <1>7

LEMMA ArenaMalloc ==
    ASSUME ArenaSizes, ArenaInv, Arena!malloc
    PROVE  ArenaInv' /\ Arena!DiesOnce
<1>1. PICK n \in Nat \ {0} : Arena!Allocate(n, Len(scopes), "data")
  BY DEF Arena!malloc, Arena!Depth, ArenaSizes
<1>2. /\ Arena!Unused # {} /\ ran' = <<>>
      /\ scopes' = scopes /\ lists' = lists /\ m_pLCurrentDeleters' = m_pLCurrentDeleters
  BY DEF Arena!malloc, Arena!NothingRan
<1>3. /\ ListsFor(live, lists, Len(scopes), Nat) /\ m_pLCurrentDeleters \in {0, Len(lists)}
      /\ scopes \in Seq([pos : Nat, last : Int, current : Nat]) /\ Len(scopes) \in Nat
  BY DEF ArenaInv
<1> DEFINE o == Arena!Fresh
           x == Arena!Object(0, m_pos, n, Len(scopes), "data")
<1>4. "data" \in Role
  BY DEF Role
<1>5. /\ o \notin DOMAIN live /\ live' = With(live, o, x)
      /\ x.role = "data" /\ x.depth = Len(scopes)
      /\ HeldIn(live', [b \in {0} |-> m_pos'], [b \in {0} |-> m_pLastAlloc'])
      /\ m_pos' \in Nat /\ m_commited' \in Nat /\ m_reserved' \in Nat /\ m_pLastAlloc' \in Int
      /\ m_pos' <= m_commited' /\ m_commited' <= m_reserved' /\ m_commited <= m_commited'
  BY <1>1, <1>2, <1>3, <1>4, ArenaAllocates
<1> HIDE DEF o, x
<1>6. ListsFor(live', lists', Len(scopes'), Nat)
  BY <1>2, <1>3, <1>5, ListsWithData
<1>7. x.depth \in Nat /\ x.depth >= Len(scopes)
  BY <1>3, <1>5
<1>8. \A k \in 1..Len(scopes') :
         /\ scopes'[k].pos <= m_commited' /\ scopes'[k].current \in {0, k}
         /\ Outlive(live', k, 0, scopes'[k].pos, scopes'[k].last)
  <2>1. m_commited' \in Nat /\ m_commited <= m_commited' /\ live' = With(live, o, x)
    BY <1>5
  <2> QED
    BY <1>2, <1>7, <2>1, ArenaScopesKept
<1>9. ArenaInv'
  BY <1>2, <1>3, <1>5, <1>6, <1>8 DEF ArenaInv
<1>10. DOMAIN live \subseteq DOMAIN live'
  BY <1>5 DEF With
<1> QED
  BY <1>2, <1>9, <1>10, NoneDies

LEMMA ArenaInitPtr ==
    ASSUME ArenaSizes, ArenaInv, Arena!initPtr
    PROVE  ArenaInv' /\ Arena!DiesOnce
<1>1. PICK n \in Nat \ {0} : Arena!Allocate(n, Len(scopes), "ptr")
  BY DEF Arena!initPtr, Arena!Depth, ArenaSizes
<1> DEFINE o == Arena!Fresh
           x == Arena!Object(0, m_pos, n, Len(scopes), "ptr")
<1>2. /\ Arena!Unused # {} /\ ran' = <<>> /\ m_pLCurrentDeleters \in DOMAIN lists
      /\ lists' = [lists EXCEPT ![m_pLCurrentDeleters] = <<o>> \o @]
      /\ scopes' = scopes /\ m_pLCurrentDeleters' = m_pLCurrentDeleters
  BY DEF Arena!initPtr, Arena!NothingRan, Arena!ListExists, Arena!Register
<1>3. /\ ListsFor(live, lists, Len(scopes), Nat) /\ m_pLCurrentDeleters \in {0, Len(lists)}
      /\ scopes \in Seq([pos : Nat, last : Int, current : Nat]) /\ Len(scopes) \in Nat
      /\ lists \in Seq(Seq(Objects))
  BY DEF ArenaInv, ListsFor
<1>4. "ptr" \in Role
  BY DEF Role
<1>5. /\ o \in Objects /\ o \notin DOMAIN live /\ live' = With(live, o, x)
      /\ x.role = "ptr" /\ x.depth = Len(scopes) /\ x.at = m_pos
      /\ \A p \in DOMAIN live : live[p].at < m_pos
      /\ HeldIn(live', [b \in {0} |-> m_pos'], [b \in {0} |-> m_pLastAlloc'])
      /\ m_pos' \in Nat /\ m_commited' \in Nat /\ m_reserved' \in Nat /\ m_pLastAlloc' \in Int
      /\ m_pos' <= m_commited' /\ m_commited' <= m_reserved' /\ m_commited <= m_commited'
  <2>1. Arena!Unused # {} /\ Len(scopes) \in Nat
    BY <1>2, <1>3
  <2> QED
    BY <1>1, <1>4, <2>1, ArenaAllocates
<1> HIDE DEF o, x
<1>6. m_pLCurrentDeleters = Len(lists) /\ Len(lists') = Len(lists)
  BY <1>2, <1>3
<1>7. ListsFor(live', lists', Len(scopes'), Nat)
  BY <1>2, <1>3, <1>5, <1>6, ListsWithPtr
<1>8. x.depth \in Nat /\ x.depth >= Len(scopes)
  BY <1>3, <1>5
<1>9. \A k \in 1..Len(scopes') :
         /\ scopes'[k].pos <= m_commited' /\ scopes'[k].current \in {0, k}
         /\ Outlive(live', k, 0, scopes'[k].pos, scopes'[k].last)
  <2>1. m_commited' \in Nat /\ m_commited <= m_commited' /\ live' = With(live, o, x)
    BY <1>5
  <2> QED
    BY <1>2, <1>8, <2>1, ArenaScopesKept
<1>10. ArenaInv'
  BY <1>2, <1>3, <1>5, <1>6, <1>7, <1>9 DEF ArenaInv
<1>11. DOMAIN live \subseteq DOMAIN live'
  BY <1>5 DEF With
<1> QED
  BY <1>2, <1>10, <1>11, NoneDies

(* Reallocation, in its place or to another.                                *)
LEMMA ArenaRealloc ==
    ASSUME ArenaSizes, ArenaInv, NEW o \in DOMAIN live, NEW n \in Nat \ {0}, Arena!realloc(o, n)
    PROVE  ArenaInv' /\ Arena!DiesOnce
<1> DEFINE occ == [b \in {0} |-> m_pos]
           last == [b \in {0} |-> m_pLastAlloc]
           occ1 == [b \in {0} |-> m_pos']
           last1 == [b \in {0} |-> m_pLastAlloc']
           moved == [live[o] EXCEPT !.size = n, !.depth = Len(scopes)]
           x == IF live[o].at # m_pLastAlloc /\ n > live[o].size
                THEN Arena!Object(0, m_pos, n, Len(scopes), "data") ELSE moved
<1>1. /\ HeldIn(live, occ, last) /\ ListsFor(live, lists, Len(scopes), Nat)
      /\ m_pos \in Nat /\ m_commited \in Nat /\ m_reserved \in Nat /\ m_pLastAlloc \in Int
      /\ m_pos <= m_commited /\ m_commited <= m_reserved
      /\ m_pLCurrentDeleters \in {0, Len(lists)}
      /\ scopes \in Seq([pos : Nat, last : Int, current : Nat]) /\ Len(scopes) \in Nat
  BY DEF ArenaInv
<1>2. /\ live[o].role = "data" /\ ran' = <<>> /\ m_reserved' = m_reserved
      /\ scopes' = scopes /\ lists' = lists /\ m_pLCurrentDeleters' = m_pLCurrentDeleters
  BY DEF Arena!realloc, Arena!NothingRan
<1>3. /\ o \in Objects /\ live[o] \in HeldObject /\ live[o].at \in Nat /\ live[o].size \in Nat \ {0}
      /\ live[o].block = 0 /\ LiesBelow(live[o], m_pos, m_pLastAlloc) /\ DOMAIN occ = {0}
  <2>1. /\ o \in Objects /\ live[o] \in HeldObject /\ live[o].at \in Nat
        /\ live[o].size \in Nat \ {0}
        /\ live[o].block \in DOMAIN occ
        /\ LiesBelow(live[o], occ[live[o].block], last[live[o].block])
    BY <1>1, HeldOf
  <2>2. DOMAIN occ = {0} /\ occ[0] = m_pos /\ last[0] = m_pLastAlloc
    OBVIOUS
  <2>3. live[o].block = 0
    BY <2>1, <2>2
  <2> QED
    BY <2>1, <2>2, <2>3
<1>4. /\ moved \in HeldObject /\ moved.block = 0 /\ moved.at = live[o].at /\ moved.size = n
      /\ moved.depth = Len(scopes) /\ moved.role = "data"
  BY <1>1, <1>2, <1>3 DEF HeldObject
<1>5. live \in [DOMAIN live -> HeldObject]
  BY <1>1 DEF HeldIn
<1>6. [live EXCEPT ![o].size = n, ![o].depth = Len(scopes)] = With(live, o, moved)
  BY <1>5 DEF With
<1>7. /\ live' = With(live, o, x) /\ x.role = "data" /\ x.depth = Len(scopes)
      /\ HeldIn(live', occ1, last1)
      /\ m_pos' \in Nat /\ m_commited' \in Nat /\ m_pLastAlloc' \in Int
      /\ m_pos' <= m_commited' /\ m_commited' <= m_reserved /\ m_commited <= m_commited'
  <2>1. CASE live[o].at = m_pLastAlloc
    <3>1. /\ Arena!Committed(m_pLastAlloc + n) <= m_reserved
          /\ m_commited' = Arena!Committed(m_pLastAlloc + n) /\ m_pos' = m_pLastAlloc + n
          /\ live' = [live EXCEPT ![o].size = n, ![o].depth = Len(scopes)]
          /\ m_pLastAlloc' = m_pLastAlloc
      BY <2>1 DEF Arena!realloc, Arena!growIfNeeded, Arena!Depth
    <3>2. live' = With(live, o, moved) /\ x = moved
      BY <1>6, <2>1, <3>1
    <3>3. /\ m_pos' \in Nat /\ m_commited' \in Nat /\ m_pLastAlloc' \in Int
          /\ m_pos' <= m_commited' /\ m_commited' <= m_reserved /\ m_commited <= m_commited'
      BY <1>1, <1>3, <2>1, <3>1, CommittedIs
    <3>4. /\ last[0] = m_pLastAlloc /\ occ1 \in [{0} -> Nat] /\ occ1[0] = m_pLastAlloc + n
          /\ last1 = last
      BY <3>1, <3>3
    <3> HIDE DEF occ, last, occ1, last1, moved
    <3>5. HeldIn(With(live, o, moved), occ1, last)
      BY <1>1, <1>3, <1>4, <2>1, <3>4, HeldResized
    <3> QED
      BY <1>4, <3>2, <3>3, <3>4, <3>5
  <2>2. CASE live[o].at # m_pLastAlloc /\ n <= live[o].size
    <3>1. /\ live' = [live EXCEPT ![o].size = n, ![o].depth = Len(scopes)]
          /\ m_pos' = m_pos /\ m_commited' = m_commited /\ m_pLastAlloc' = m_pLastAlloc
      BY <1>3, <2>2 DEF Arena!realloc, Arena!Depth
    <3>2. live' = With(live, o, moved) /\ x = moved
      BY <1>3, <1>6, <2>2, <3>1
    <3>3. occ1 = occ /\ last1 = last
      BY <3>1
    <3> HIDE DEF occ, last, occ1, last1, moved
    <3>4. HeldIn(With(live, o, moved), occ, last)
      BY <1>1, <1>3, <1>4, <2>2, HeldShrunk
    <3>5. live' = With(live, o, x) /\ x.role = "data" /\ x.depth = Len(scopes)
      BY <1>4, <3>2
    <3>6. HeldIn(live', occ1, last1)
      BY <3>2, <3>3, <3>4
    <3>7. /\ m_pos' \in Nat /\ m_commited' \in Nat /\ m_pLastAlloc' \in Int
          /\ m_pos' <= m_commited' /\ m_commited' <= m_reserved /\ m_commited <= m_commited'
      BY <1>1, <3>1
    <3> QED
      BY <3>5, <3>6, <3>7
  <2>3. CASE live[o].at # m_pLastAlloc /\ n > live[o].size
    <3>1. /\ Arena!Committed(m_pos + n) <= m_reserved
          /\ m_commited' = Arena!Committed(m_pos + n) /\ m_pos' = m_pos + n
          /\ m_pLastAlloc' = m_pos
          /\ live' = [live EXCEPT ![o] = Arena!Object(0, m_pos, n, Len(scopes), "data")]
      BY <1>3, <2>3 DEF Arena!realloc, Arena!growIfNeeded, Arena!Depth
    <3>2. /\ x = Arena!Object(0, m_pos, n, Len(scopes), "data") /\ live' = With(live, o, x)
      BY <1>5, <2>3, <3>1 DEF With
    <3>3. /\ x \in HeldObject /\ x.block = 0 /\ x.at = m_pos /\ x.size = n
          /\ x.depth = Len(scopes) /\ x.role = "data"
      <4> DEFINE y == Arena!Object(0, m_pos, n, Len(scopes), "data")
      <4>1. /\ y \in HeldObject /\ y.block = 0 /\ y.at = m_pos /\ y.size = n
            /\ y.depth = Len(scopes) /\ y.role = "data"
        BY <1>1 DEF Arena!Object, HeldObject, Role
      <4> HIDE DEF x, y
      <4>2. x = y
        BY <3>2 DEF y
      <4> QED
        BY <4>1, <4>2
    <3>4. /\ m_pos' \in Nat /\ m_commited' \in Nat /\ m_pLastAlloc' \in Int
          /\ m_pos' <= m_commited' /\ m_commited' <= m_reserved /\ m_commited <= m_commited'
      BY <1>1, <3>1, CommittedIs
    <3>5. /\ occ[0] = m_pos /\ occ1 \in [{0} -> Nat] /\ last1 \in [{0} -> Int]
          /\ occ1[0] = m_pos + n /\ last1[0] = m_pos
      BY <3>1, <3>4
    <3> HIDE DEF occ, last, occ1, last1, moved, x
    <3>6. HeldIn(With(live, o, x), occ1, last1)
      BY <1>1, <1>3, <3>3, <3>5, HeldPlaced
    <3> QED
      BY <3>2, <3>3, <3>4, <3>6
  <2> QED
    BY <1>3, <2>1, <2>2, <2>3
<1> HIDE DEF x, moved, occ, last
<1>8. ListsFor(live', lists', Len(scopes'), Nat)
  <2>1. x.role # "ptr" /\ x.depth <= Len(scopes) /\ live[o].role # "ptr"
    BY <1>1, <1>2, <1>7
  <2>2. ListsFor(With(live, o, x), lists, Len(scopes), Nat)
    BY <1>1, <2>1, ListsWithData
  <2> QED
    BY <1>2, <1>7, <2>2
<1>9. \A k \in 1..Len(scopes') :
         /\ scopes'[k].pos <= m_commited' /\ scopes'[k].current \in {0, k}
         /\ Outlive(live', k, 0, scopes'[k].pos, scopes'[k].last)
  <2>1. /\ m_commited' \in Nat /\ m_commited <= m_commited' /\ live' = With(live, o, x)
        /\ x.depth \in Nat /\ x.depth >= Len(scopes)
    BY <1>1, <1>7
  <2> QED
    BY <1>2, <2>1, ArenaScopesKept
<1>10. ArenaInv'
  BY <1>1, <1>2, <1>7, <1>8, <1>9 DEF ArenaInv
<1>11. DOMAIN live \subseteq DOMAIN live'
  BY <1>7 DEF With
<1> QED
  BY <1>2, <1>10, <1>11, NoneDies

(* What a scope captures when it is entered.                                *)
LEMMA ArenaEnter ==
    ASSUME ArenaInv, Arena!Enter
    PROVE  /\ ListsFor(live, lists', Len(scopes'), Nat) /\ m_pLCurrentDeleters' = Len(lists')
           /\ Len(scopes') = Len(scopes) + 1 /\ Len(scopes) \in Nat
           /\ scopes' \in Seq([pos : Nat, last : Int, current : Nat])
           /\ \A k \in 1..Len(scopes') :
                 /\ scopes'[k].pos <= m_commited /\ scopes'[k].current \in {0, k}
                 /\ Outlive(live, k, 0, scopes'[k].pos, scopes'[k].last)
<1> DEFINE captured == [pos : Nat, last : Int, current : Nat]
           d == Len(scopes)
           st == [pos |-> m_pos, last |-> m_pLastAlloc, current |-> m_pLCurrentDeleters]
           occ == [b \in {0} |-> m_pos]
           last == [b \in {0} |-> m_pLastAlloc]
<1>1. /\ HeldIn(live, occ, last) /\ ListsFor(live, lists, d, Nat)
      /\ m_pos \in Nat /\ m_commited \in Nat /\ m_pLastAlloc \in Int /\ m_pos <= m_commited
      /\ m_pLCurrentDeleters \in {0, Len(lists)}
      /\ scopes \in Seq(captured) /\ d \in Nat
      /\ \A q \in 1..d :
            /\ scopes[q].pos <= m_commited /\ scopes[q].current \in {0, q}
            /\ Outlive(live, q, 0, scopes[q].pos, scopes[q].last)
  BY DEF ArenaInv
<1>2. /\ scopes' = Append(scopes, st) /\ lists' = Append(lists, <<>>)
      /\ m_pLCurrentDeleters' = Len(lists) + 1
  BY DEF Arena!Enter, Arena!State
<1>3. lists \in Seq(Seq(Objects)) /\ Len(lists) = d + 1
  BY <1>1 DEF ListsFor
<1>4. st \in captured /\ st.pos = m_pos /\ st.last = m_pLastAlloc /\ st.current \in {0, d + 1}
  BY <1>1, <1>3
<1> HIDE DEF captured, st
<1>5. /\ scopes' \in Seq(captured) /\ Len(scopes') = d + 1 /\ scopes'[d + 1] = st
      /\ \A k \in 1..d : scopes'[k] = scopes[k]
  BY <1>1, <1>2, <1>4
<1>6. m_pLCurrentDeleters' = Len(lists')
  BY <1>2, <1>3
<1>7. ListsFor(live, Append(lists, <<>>), d + 1, Nat)
  <2>1. live \in [DOMAIN live -> HeldObject]
    BY <1>1 DEF HeldIn
  <2> QED
    BY <1>1, <2>1, ListsEnter
<1>8. Outlive(live, d + 1, 0, m_pos, m_pLastAlloc)
  <2>1. occ[0] = m_pos /\ last[0] = m_pLastAlloc
    OBVIOUS
  <2> HIDE DEF occ, last
  <2>2. ASSUME NEW p \in DOMAIN live, live[p].block = 0
        PROVE  LiesBelow(live[p], m_pos, m_pLastAlloc)
    <3>1. LiesBelow(live[p], occ[live[p].block], last[live[p].block])
      BY <1>1, HeldOf
    <3> QED
      BY <2>1, <2>2, <3>1
  <2> QED
    BY <2>2 DEF Outlive
<1>9. ASSUME NEW k \in 1..Len(scopes')
      PROVE  /\ scopes'[k].pos <= m_commited /\ scopes'[k].current \in {0, k}
             /\ Outlive(live, k, 0, scopes'[k].pos, scopes'[k].last)
  <2>1. CASE k = d + 1
    BY <1>1, <1>4, <1>5, <1>8, <2>1
  <2>2. CASE k # d + 1
    <3>1. k \in 1..d /\ scopes'[k] = scopes[k]
      BY <1>1, <1>5, <2>2
    <3> QED
      BY <1>1, <3>1
  <2> QED
    BY <2>1, <2>2
<1> QED
  BY <1>1, <1>2, <1>5, <1>6, <1>7, <1>9 DEF captured

LEMMA ArenaScopeEntered ==
    ASSUME ArenaInv, Arena!ArenaScope
    PROVE  ArenaInv' /\ Arena!DiesOnce
<1>1. /\ ListsFor(live, lists', Len(scopes'), Nat) /\ m_pLCurrentDeleters' = Len(lists')
      /\ scopes' \in Seq([pos : Nat, last : Int, current : Nat])
      /\ \A k \in 1..Len(scopes') :
            /\ scopes'[k].pos <= m_commited /\ scopes'[k].current \in {0, k}
            /\ Outlive(live, k, 0, scopes'[k].pos, scopes'[k].last)
  BY ArenaEnter DEF Arena!ArenaScope
<1>2. /\ live' = live /\ m_pos' = m_pos /\ m_reserved' = m_reserved
      /\ m_commited' = m_commited /\ m_pLastAlloc' = m_pLastAlloc /\ ran' = <<>>
  BY DEF Arena!ArenaScope, Arena!memoryVars, Arena!Enter, Arena!NothingRan
<1>3. ArenaInv'
  BY <1>1, <1>2 DEF ArenaInv
<1> QED
  BY <1>2, <1>3, NoneDies

(* A scope whose object lies in the arena itself.                           *)
LEMMA ArenaRestoreAfterScope ==
    ASSUME ArenaSizes, ArenaInv, Arena!restoreAfterScope
    PROVE  ArenaInv' /\ Arena!DiesOnce
<1> DEFINE d == Len(scopes) + 1
           o == Arena!Fresh
           x == Arena!Object(0, m_pos, 1, d, "scope")
<1>1. /\ ListsFor(live, lists', Len(scopes'), Nat) /\ m_pLCurrentDeleters' = Len(lists')
      /\ Len(scopes') = d /\ d \in Nat
      /\ scopes' \in Seq([pos : Nat, last : Int, current : Nat])
      /\ \A k \in 1..Len(scopes') :
            /\ scopes'[k].pos <= m_commited /\ scopes'[k].current \in {0, k}
            /\ Outlive(live, k, 0, scopes'[k].pos, scopes'[k].last)
  <2>1. Arena!Enter
    BY DEF Arena!restoreAfterScope
  <2> QED
    BY <2>1, ArenaEnter
<1>2. Arena!Unused # {} /\ ran' = <<>> /\ Arena!Allocate(1, d, "scope")
  BY DEF Arena!restoreAfterScope, Arena!Enter, Arena!NothingRan, Arena!Depth
<1>3. "scope" \in Role /\ 1 \in Nat \ {0}
  BY DEF Role
<1> HIDE DEF d
<1>4. /\ o \notin DOMAIN live /\ live' = With(live, o, x)
      /\ x.role = "scope" /\ x.depth = d
      /\ HeldIn(live', [b \in {0} |-> m_pos'], [b \in {0} |-> m_pLastAlloc'])
      /\ m_pos' \in Nat /\ m_commited' \in Nat /\ m_reserved' \in Nat /\ m_pLastAlloc' \in Int
      /\ m_pos' <= m_commited' /\ m_commited' <= m_reserved' /\ m_commited <= m_commited'
  <2>1. d \in Nat
    BY <1>1
  <2> QED
    BY <1>2, <1>3, <2>1, ArenaAllocates
<1> HIDE DEF o, x
<1>5. ListsFor(live', lists', Len(scopes'), Nat)
  <2>1. x.role # "ptr" /\ x.depth <= Len(scopes') /\ (o \in DOMAIN live => live[o].role # "ptr")
    BY <1>1, <1>4
  <2>2. ListsFor(With(live, o, x), lists', Len(scopes'), Nat)
    BY <1>1, <2>1, ListsWithData
  <2> QED
    BY <1>4, <2>2
<1>6. m_commited \in Nat /\ \A k \in 1..Len(scopes') : scopes'[k].pos \in Nat
  <2> DEFINE captured == [pos : Nat, last : Int, current : Nat]
  <2>1. \A s \in captured : s.pos \in Nat
    OBVIOUS
  <2>2. scopes' \in Seq(captured)
    BY <1>1
  <2> HIDE DEF captured
  <2>3. \A k \in 1..Len(scopes') : scopes'[k] \in captured
    BY <2>2
  <2> QED
    BY <2>1, <2>3 DEF ArenaInv
<1>7. ASSUME NEW k \in 1..Len(scopes')
      PROVE  /\ scopes'[k].pos <= m_commited' /\ scopes'[k].current \in {0, k}
             /\ Outlive(live', k, 0, scopes'[k].pos, scopes'[k].last)
  <2>1. k \in Nat /\ k <= d /\ x.depth \in Nat /\ x.depth >= k
    BY <1>1, <1>4
  <2>2. Outlive(live, k, 0, scopes'[k].pos, scopes'[k].last)
    BY <1>1
  <2>3. Outlive(live', k, 0, scopes'[k].pos, scopes'[k].last)
    BY <1>4, <2>1, <2>2, OutliveWith
  <2>4. scopes'[k].pos <= m_commited'
    BY <1>1, <1>4, <1>6
  <2> QED
    BY <1>1, <2>3, <2>4
<1>8. ArenaInv'
  BY <1>1, <1>4, <1>5, <1>7 DEF ArenaInv
<1>9. DOMAIN live \subseteq DOMAIN live'
  BY <1>4 DEF With
<1> QED
  BY <1>2, <1>8, <1>9, NoneDies

(* The innermost scope ends.                                                *)
LEMMA ArenaEndScope ==
    ASSUME ArenaInv, Arena!EndScope
    PROVE  ArenaInv' /\ Arena!DiesOnce
<1> DEFINE captured == [pos : Nat, last : Int, current : Nat]
           d == Len(scopes)
           st == scopes[d]
           S == {p \in DOMAIN live : live[p].depth < d}
           m == [p \in S |-> live[p]]
           cleared == [lists EXCEPT ![Len(lists)] = <<>>]
           occ == [b \in {0} |-> m_pos]
           last == [b \in {0} |-> m_pLastAlloc]
           occ1 == [b \in {0} |-> m_pos']
           last1 == [b \in {0} |-> m_pLastAlloc']
<1>1. /\ HeldIn(live, occ, last) /\ ListsFor(live, lists, d, Nat)
      /\ m_commited \in Nat /\ m_reserved \in Nat /\ m_commited <= m_reserved
      /\ m_pLCurrentDeleters \in {0, Len(lists)}
      /\ scopes \in Seq(captured) /\ d \in Nat
      /\ \A q \in 1..d :
            /\ scopes[q].pos <= m_commited /\ scopes[q].current \in {0, q}
            /\ Outlive(live, q, 0, scopes[q].pos, scopes[q].last)
  BY DEF ArenaInv
<1>2. lists \in Seq(Seq(Objects)) /\ Len(lists) = d + 1
  BY <1>1 DEF ListsFor
<1>3. scopes # <<>> /\ m_pLCurrentDeleters \in DOMAIN lists
  BY DEF Arena!EndScope, Arena!ListExists
<1>4. d \in 1..d /\ d > 0 /\ m_pLCurrentDeleters = Len(lists)
  BY <1>1, <1>2, <1>3
<1>5. /\ m_pos' = st.pos /\ m_pLastAlloc' = st.last /\ m_pLCurrentDeleters' = st.current
      /\ ran' = lists[Len(lists)] /\ scopes' = SubSeq(scopes, 1, d - 1)
      /\ m_reserved' = m_reserved /\ m_commited' = m_commited
  BY <1>3, <1>4 DEF Arena!EndScope, Arena!Depth, Arena!Outer, Arena!RunsDeleters, Arena!ListExists
<1>6. live' = m
  BY DEF Arena!EndScope, Arena!Outliving, Arena!Restrict, Arena!Depth
<1>7. lists' = SubSeq(cleared, 1, Len(cleared) - 1)
  BY <1>3, <1>4 DEF Arena!EndScope, Arena!Outer, Arena!Deleted, Arena!ListExists
<1>8. /\ st \in captured /\ st.pos \in Nat /\ st.last \in Int /\ st.current \in {0, d}
      /\ st.pos <= m_commited
  <2>1. st \in captured
    <3> HIDE DEF captured
    <3> QED
      BY <1>1, <1>4
  <2>2. st.pos \in Nat /\ st.last \in Int
    BY <2>1
  <2>3. st.current \in {0, d} /\ st.pos <= m_commited
    BY <1>1, <1>4
  <2> QED
    BY <2>1, <2>2, <2>3
<1>9. Outlive(live, d, 0, st.pos, st.last)
  BY <1>1, <1>4
<1>10. S \in SUBSET DOMAIN live /\ \A p \in S : live[p].depth < d
  OBVIOUS
<1>11. /\ DOMAIN occ = {0} /\ occ1 \in [{0} -> Nat] /\ last1 \in [{0} -> Int] /\ DOMAIN occ1 = {0}
       /\ occ1[0] = st.pos /\ last1[0] = st.last
  BY <1>5, <1>8
<1>12. ListsFor(m, lists', d - 1, Nat)
  <2>1. live \in [DOMAIN live -> HeldObject]
    BY <1>1 DEF HeldIn
  <2>2. /\ cleared \in Seq(Seq(Objects)) /\ Len(cleared) = Len(lists)
        /\ \A k \in 1..d : cleared[k] = lists[k]
    <3>1. Len(lists) \in Nat /\ Len(lists) >= Len(lists) /\ Len(lists) \in DOMAIN lists
      BY <1>2, <1>3, <1>4
    <3>2. cleared = IF Len(lists) \in DOMAIN lists THEN cleared ELSE lists
      BY <3>1
    <3> HIDE DEF d
    <3> QED
      BY <1>1, <1>2, <3>1, <3>2, ListsCleared
  <2> HIDE DEF cleared, d
  <2>3. ListsFor([p \in {o \in DOMAIN live : live[o].depth < d} |-> live[p]],
                 SubSeq(cleared, 1, Len(cleared) - 1), d - 1, Nat)
    BY <1>1, <1>4, <2>1, <2>2, ListsEnd
  <2> QED
    BY <1>7, <2>3
<1>13. /\ scopes' \in Seq(captured) /\ Len(scopes') = d - 1
       /\ \A k \in 1..d - 1 : scopes'[k] = scopes[k]
  <2>1. scopes \in Seq(captured) /\ d \in 1..Len(scopes) /\ scopes' = SubSeq(scopes, 1, d - 1)
    BY <1>1, <1>4, <1>5
  <2> HIDE DEF captured, d
  <2> QED
    BY <2>1
<1> HIDE DEF captured, st, S, m, cleared, occ, last, occ1, last1
<1>14. HeldIn(m, occ1, last1)
  <2>1. ASSUME NEW p \in S
        PROVE  live[p].block \in DOMAIN occ1
               /\ LiesBelow(live[p], occ1[live[p].block], last1[live[p].block])
    <3>1. p \in DOMAIN live /\ live[p].depth < d
      BY <1>10
    <3>2. live[p].block = 0
      BY <1>1, <1>11, <3>1, HeldOf
    <3>3. LiesBelow(live[p], st.pos, st.last)
      BY <1>9, <3>1, <3>2 DEF Outlive
    <3> QED
      BY <1>11, <3>2, <3>3
  <2>2. occ1 \in [DOMAIN occ1 -> Nat] /\ last1 \in [DOMAIN occ1 -> Int]
    BY <1>11
  <2> QED
    BY <1>1, <1>10, <2>1, <2>2, HeldKept DEF m
<1>15. Len(lists') = d /\ lists[Len(lists)] \in Seq(Objects) /\ Lists(live, lists[Len(lists)], d)
  <2>1. Len(lists') = (d - 1) + 1
    BY <1>12 DEF ListsFor
  <2>2. Len(lists) \in 1..Len(lists) /\ Len(lists) - 1 = d
    BY <1>1, <1>2
  <2>3. Lists(live, lists[Len(lists)], Len(lists) - 1)
    BY <1>1, <1>2, <2>2 DEF ListsFor
  <2> QED
    BY <1>1, <1>2, <2>1, <2>2, <2>3
<1>16. ASSUME NEW k \in 1..Len(scopes')
       PROVE  /\ scopes'[k].pos <= m_commited' /\ scopes'[k].current \in {0, k}
              /\ Outlive(m, k, 0, scopes'[k].pos, scopes'[k].last)
  <2>1. k \in 1..d /\ scopes'[k] = scopes[k]
    BY <1>1, <1>13
  <2>2. Outlive(live, k, 0, scopes[k].pos, scopes[k].last)
    BY <1>1, <2>1
  <2>3. Outlive(m, k, 0, scopes[k].pos, scopes[k].last)
    BY <1>10, <2>2, OutliveKept DEF m
  <2> QED
    BY <1>1, <1>5, <2>1, <2>3
<1>17. ArenaInv'
  <2>1. HeldIn(live', occ1, last1) /\ ListsFor(live', lists', Len(scopes'), Nat)
    BY <1>6, <1>12, <1>13, <1>14
  <2>2. /\ m_pos' \in Nat /\ m_commited' \in Nat /\ m_reserved' \in Nat /\ m_pLastAlloc' \in Int
        /\ m_pos' <= m_commited' /\ m_commited' <= m_reserved'
        /\ m_pLCurrentDeleters' \in {0, Len(lists')}
    BY <1>1, <1>5, <1>8, <1>15
  <2>3. \A k \in 1..Len(scopes') :
          /\ scopes'[k].pos <= m_commited' /\ scopes'[k].current \in {0, k}
          /\ Outlive(live', k, 0, scopes'[k].pos, scopes'[k].last)
    BY <1>6, <1>16
  <2> QED
    BY <1>13, <2>1, <2>2, <2>3 DEF ArenaInv, captured, occ1, last1
<1>18. Arena!DiesOnce
  <2>1. ASSUME NEW p \in DOMAIN live
        PROVE  live[p].at \in Int /\ (p \notin DOMAIN live' <=> live[p].depth = d)
    <3>1. live[p].at \in Nat /\ live[p].depth \in Nat /\ live[p].depth <= d
      BY <1>1, HeldOf DEF ListsFor
    <3>2. p \in DOMAIN live' <=> live[p].depth < d
      BY <1>6 DEF m, S
    <3> QED
      BY <1>1, <3>1, <3>2
  <2> HIDE DEF d
  <2>2. Lists(live, ran', d) /\ ran' \in Seq(Objects)
    BY <1>5, <1>15
  <2> QED
    BY <2>1, <2>2, ListedDie
<1> QED
  BY <1>17, <1>18

(* Outside of its scopes the arena is emptied.                              *)
LEMMA ArenaClear ==
    ASSUME ArenaSizes, ArenaInv, Arena!Clear, m_commited' \in Nat, m_reserved' \in Nat,
           m_commited' <= m_reserved',
           m_pLCurrentDeleters' \in {0, m_pLCurrentDeleters}
    PROVE  ArenaInv' /\ Arena!DiesOnce
<1>1. /\ HeldIn(live, [b \in {0} |-> m_pos], [b \in {0} |-> m_pLastAlloc])
      /\ ListsFor(live, lists, Len(scopes), Nat) /\ m_pLCurrentDeleters \in {0, Len(lists)}
  BY DEF ArenaInv
<1>2. /\ scopes = <<>> /\ m_pLCurrentDeleters \in DOMAIN lists
      /\ ran' = lists[m_pLCurrentDeleters]
      /\ lists' = [lists EXCEPT ![m_pLCurrentDeleters] = <<>>]
      /\ live' = <<>> /\ m_pos' = 0 /\ m_pLastAlloc' = -1 /\ scopes' = scopes
  BY DEF Arena!Clear, Arena!ListExists, Arena!RunsDeleters, Arena!Deleted, Arena!INVALID_PTR
<1>3. Len(scopes) = 0 /\ lists \in Seq(Seq(Objects)) /\ Len(lists) = 1
  BY <1>1, <1>2 DEF ListsFor
<1>4. m_pLCurrentDeleters = 1
  BY <1>1, <1>2, <1>3
<1>5. Lists(live, lists[1], 0) /\ lists[1] \in Seq(Objects)
  <2>1. PICK k \in 1..Len(lists) : k = 1 /\ k - 1 = 0
    BY <1>3
  <2>2. Lists(live, lists[k], k - 1)
    BY <1>1 DEF ListsFor
  <2>3. lists[k] \in Seq(Objects)
    BY <1>3
  <2> QED
    BY <2>1, <2>2, <2>3
<1>6. lists' \in Seq(Seq(Objects)) /\ Len(lists') = 1 /\ lists'[1] = <<>>
  <2>1. <<>> \in Seq(Objects)
    OBVIOUS
  <2> QED
    BY <1>2, <1>3, <1>4, <2>1
<1>7. DOMAIN live' = {}
  BY <1>2
<1>8. ListsFor(live', lists', Len(scopes'), Nat)
  BY <1>2, <1>3, <1>6, <1>7, ListsEmpty
<1>9. HeldIn(live', [b \in {0} |-> m_pos'], [b \in {0} |-> m_pLastAlloc'])
  BY <1>2, <1>7 DEF HeldIn
<1>10. scopes' \in Seq([pos : Nat, last : Int, current : Nat])
  BY <1>2 DEF ArenaInv
<1>11. ArenaInv'
  <2>1. Len(scopes') = 0 /\ m_pLCurrentDeleters' \in {0, Len(lists')}
    BY <1>2, <1>3, <1>4, <1>6
  <2> QED
    BY <1>2, <1>8, <1>9, <1>10, <2>1 DEF ArenaInv
<1>12. Arena!DiesOnce
  <2>1. ASSUME NEW p \in DOMAIN live
        PROVE  live[p].at \in Int /\ (p \notin DOMAIN live' <=> live[p].depth = 0)
    <3>1. live[p].at \in Nat /\ live[p].depth \in Nat /\ live[p].depth <= 0
      BY <1>1, <1>3, HeldOf DEF ListsFor
    <3> QED
      BY <1>7, <3>1
  <2>2. Lists(live, ran', 0) /\ ran' \in Seq(Objects)
    BY <1>2, <1>4, <1>5
  <2> QED
    BY <2>1, <2>2, ListedDie
<1> QED
  BY <1>11, <1>12

(* An arena that nobody calls.                                              *)
LEMMA ArenaInit ==
    ASSUME ArenaSizes, Arena!Init
    PROVE  ArenaInv
<1>1. /\ live = <<>> /\ scopes = <<>> /\ lists = << <<>> >> /\ m_pLCurrentDeleters = 1
      /\ m_pos = 0 /\ m_reserved = Reserved * PageSize /\ m_pLastAlloc = -1
  BY DEF Arena!Init, Arena!IArenaInit, Arena!INVALID_PTR
<1>2. PICK n \in Commits : m_commited = n * PageSize
  BY DEF Arena!Init
<1>3. m_reserved \in Nat /\ m_commited \in Nat /\ m_commited <= m_reserved
  <2>1. n \in Nat /\ Reserved \in Nat /\ PageSize \in Nat /\ n <= Reserved
    BY DEF ArenaSizes
  <2>2. n * PageSize \in Nat /\ Reserved * PageSize \in Nat /\ n * PageSize <= Reserved * PageSize
    BY <2>1, TimesMono
  <2> QED
    BY <1>1, <1>2, <2>2
<1>4. /\ lists \in Seq(Seq(Objects)) /\ Len(lists) = 1 /\ lists[1] = <<>> /\ DOMAIN live = {}
      /\ Len(scopes) = 0
  BY <1>1
<1>5. ListsFor(live, lists, Len(scopes), Nat)
  BY <1>4, ListsEmpty
<1>6. HeldIn(live, [b \in {0} |-> m_pos], [b \in {0} |-> m_pLastAlloc])
  BY <1>1, <1>4 DEF HeldIn
<1> QED
  BY <1>1, <1>3, <1>4, <1>5, <1>6 DEF ArenaInv

LEMMA ArenaStep ==
    ASSUME ArenaSizes, ArenaInv, Arena!Next
    PROVE  ArenaInv' /\ Arena!DiesOnce
<1>1. CASE Arena!malloc
  BY <1>1, ArenaMalloc
<1>2. CASE Arena!initPtr
  BY <1>2, ArenaInitPtr
<1>3. CASE \E o \in DOMAIN live, n \in ObjectSizes : Arena!realloc(o, n)
  <2>1. PICK o \in DOMAIN live, n \in Nat \ {0} : Arena!realloc(o, n)
    BY <1>3 DEF ArenaSizes
  <2> QED
    BY <2>1, ArenaRealloc
<1>4. CASE Arena!ArenaScope
  BY <1>4, ArenaScopeEntered
<1>5. CASE Arena!restoreAfterScope
  BY <1>5, ArenaRestoreAfterScope
<1>6. CASE Arena!EndScope
  BY <1>6, ArenaEndScope
<1>7. m_commited \in Nat /\ m_reserved \in Nat /\ m_commited <= m_reserved
  BY DEF ArenaInv
<1>8. CASE Arena!reset
  <2>1. /\ Arena!Clear /\ m_commited' = m_commited /\ m_reserved' = m_reserved
        /\ m_pLCurrentDeleters' = m_pLCurrentDeleters
    BY <1>8 DEF Arena!reset
  <2> QED
    BY <1>7, <2>1, ArenaClear
<1>9. CASE Arena!resetDecommit
  <2>1. /\ Arena!Clear /\ m_commited' = 0 /\ m_reserved' = m_reserved
        /\ m_pLCurrentDeleters' = m_pLCurrentDeleters
    BY <1>9 DEF Arena!resetDecommit
  <2> QED
    BY <1>7, <2>1, ArenaClear
<1>10. CASE \E n \in 0..Reserved + 1 : Arena!resetToPage(n)
  <2>1. PICK n \in 0..Reserved + 1 : Arena!resetToPage(n)
    BY <1>10
  <2>2. /\ Arena!Clear /\ m_commited' = n * PageSize /\ m_reserved' = m_reserved
        /\ n * PageSize <= m_reserved /\ m_pLCurrentDeleters' = m_pLCurrentDeleters
    BY <2>1 DEF Arena!resetToPage
  <2>3. n \in Nat /\ PageSize \in Nat
    BY DEF ArenaSizes
  <2>4. n * PageSize \in Nat
    BY <2>3
  <2> QED
    BY <1>7, <2>2, <2>4, ArenaClear
<1>11. CASE Arena!freeAll
  <2>1. Arena!Clear /\ m_commited' = 0 /\ m_reserved' = 0 /\ m_pLCurrentDeleters' = 0
    BY <1>11 DEF Arena!freeAll
  <2> QED
    BY <2>1, ArenaClear
<1> QED
  BY <1>1, <1>2, <1>3, <1>4, <1>5, <1>6, <1>8, <1>9, <1>10, <1>11 DEF Arena!Next

-----------------------------------------------------------------------------
(* BufferAllocator                                                          *)

(* What the current pointer points to, if it does not dangle.               *)
Current == {m_pLCurrentDeleters}

BufferInv ==
    /\ HeldIn(live, [b \in {0} |-> used], [b \in {0} |-> lastOfBuffer])
    /\ ListsFor(live, lists, Len(scopes), Current)
    /\ used \in Nat /\ used <= BufferCap /\ lastOfBuffer \in Int
    /\ m_pLCurrentDeleters \in Nat /\ m_pLCurrentDeleters >= Len(lists)
    /\ scopes \in Seq([size : Nat, last : Int])
    /\ \A k \in 1..Len(scopes) :
          /\ scopes[k].size <= BufferCap
          /\ Outlive(live, k, 0, scopes[k].size, scopes[k].last)

LEMMA BufferFreshIs ==
    ASSUME ArenaSizes, Buffer!Unused # {}
    PROVE  Buffer!Fresh \in Objects /\ Buffer!Fresh \notin DOMAIN live
<1>1. Buffer!Unused \in SUBSET Nat
  BY DEF ArenaSizes, Buffer!Unused
<1>2. \E o \in Buffer!Unused : \A p \in Buffer!Unused : o <= p
  BY <1>1, NatMin
<1>3. Buffer!Fresh \in Buffer!Unused
  BY <1>2 DEF Buffer!Fresh
<1> QED
  BY <1>3 DEF Buffer!Unused

LEMMA BufferHeldOf ==
    ASSUME BufferInv, NEW p \in DOMAIN live
    PROVE  /\ live[p].block = 0 /\ LiesBelow(live[p], used, lastOfBuffer)
           /\ live[p].at \in Nat /\ live[p].size \in Nat \ {0} /\ live[p].depth \in Nat
<1> DEFINE occ == [b \in {0} |-> used]
           last == [b \in {0} |-> lastOfBuffer]
<1>1. HeldIn(live, occ, last)
  BY DEF BufferInv
<1>2. DOMAIN occ = {0} /\ occ[0] = used /\ last[0] = lastOfBuffer
  OBVIOUS
<1> HIDE DEF occ, last
<1>3. /\ live[p].block \in DOMAIN occ /\ LiesBelow(live[p], occ[live[p].block], last[live[p].block])
      /\ live[p].at \in Nat /\ live[p].size \in Nat \ {0} /\ live[p].depth \in Nat
  BY <1>1, HeldOf
<1>4. live[p].block = 0
  BY <1>2, <1>3
<1> QED
  BY <1>2, <1>3, <1>4

(* An object allocated, or moved, to the end of the used part.              *)
LEMMA BufferAllocates ==
    ASSUME ArenaSizes, BufferInv, NEW o \in Objects, NEW n \in Nat \ {0}, NEW d \in Nat,
           NEW role \in Role, Buffer!Allocate(o, n, d, role)
    PROVE  LET x == Buffer!Object(0, used, n, d, role)
           IN /\ live' = With(live, o, x)
              /\ x.role = role /\ x.depth = d /\ x.at = used /\ x.block = 0
              /\ \A p \in DOMAIN live : live[p].at < used
              /\ HeldIn(live', [b \in {0} |-> used'], [b \in {0} |-> lastOfBuffer'])
              /\ used' \in Nat /\ lastOfBuffer' \in Int /\ used' <= BufferCap
<1> DEFINE x == Buffer!Object(0, used, n, d, role)
           occ == [b \in {0} |-> used]
           last == [b \in {0} |-> lastOfBuffer]
           occ1 == [b \in {0} |-> used']
           last1 == [b \in {0} |-> lastOfBuffer']
<1>1. /\ used + n <= BufferCap /\ used' = used + n /\ lastOfBuffer' = used
      /\ live' = With(live, o, x)
  BY DEF Buffer!Allocate, Buffer!Put, With
<1>2. used \in Nat /\ HeldIn(live, occ, last) /\ n \in Nat /\ n # 0
  BY DEF BufferInv
<1>3. x \in HeldObject /\ x.block = 0 /\ x.at = used /\ x.size = n /\ x.depth = d /\ x.role = role
  BY <1>2 DEF Buffer!Object, HeldObject
<1>4. used' \in Nat /\ lastOfBuffer' \in Int /\ used' <= BufferCap
  BY <1>1, <1>2
<1>5. /\ DOMAIN occ = {0} /\ occ[0] = used /\ last[0] = lastOfBuffer
      /\ occ1 \in [{0} -> Nat] /\ last1 \in [{0} -> Int] /\ occ1[0] = used + n /\ last1[0] = used
  BY <1>1, <1>4
<1> HIDE DEF x, occ, last, occ1, last1
<1>6. HeldIn(With(live, o, x), occ1, last1)
  BY <1>2, <1>3, <1>5, HeldPlaced
<1>7. ASSUME NEW p \in DOMAIN live PROVE live[p].at < used
  BY <1>2, BufferHeldOf DEF LiesBelow
<1> QED
  BY <1>1, <1>3, <1>4, <1>6, <1>7 DEF x, occ1, last1

LEMMA BufferScopesKept ==
    ASSUME BufferInv, NEW o, NEW x, x.depth \in Nat, x.depth >= Len(scopes),
           live' = With(live, o, x), scopes' = scopes
    PROVE  \A k \in 1..Len(scopes') :
              /\ scopes'[k].size <= BufferCap
              /\ Outlive(live', k, 0, scopes'[k].size, scopes'[k].last)
<1> TAKE k \in 1..Len(scopes')
<1>1. /\ scopes[k].size <= BufferCap /\ Outlive(live, k, 0, scopes[k].size, scopes[k].last)
      /\ Len(scopes) \in Nat /\ k \in Nat /\ k <= Len(scopes)
  BY DEF BufferInv
<1>2. x.depth >= k
  BY <1>1
<1>3. Outlive(live', k, 0, scopes[k].size, scopes[k].last)
  BY <1>1, <1>2, OutliveWith
<1> QED
  BY <1>1, <1>3

LEMMA BufferMalloc ==
    ASSUME ArenaSizes, BufferInv, Buffer!malloc
    PROVE  BufferInv' /\ Arena!DiesOnce
<1> DEFINE o == Buffer!Fresh
<1>1. PICK n \in Nat \ {0} : Buffer!Allocate(o, n, Len(scopes), "data")
  BY DEF Buffer!malloc, Buffer!Depth, ArenaSizes
<1>2. /\ Buffer!Unused # {} /\ ran' = <<>>
      /\ scopes' = scopes /\ lists' = lists /\ m_pLCurrentDeleters' = m_pLCurrentDeleters
  BY DEF Buffer!malloc, Buffer!NothingRan
<1>3. /\ ListsFor(live, lists, Len(scopes), Current)
      /\ m_pLCurrentDeleters \in Nat /\ m_pLCurrentDeleters >= Len(lists)
      /\ scopes \in Seq([size : Nat, last : Int]) /\ Len(scopes) \in Nat
  BY DEF BufferInv
<1> DEFINE x == Buffer!Object(0, used, n, Len(scopes), "data")
<1>4. "data" \in Role /\ o \in Objects /\ o \notin DOMAIN live
  BY <1>2, BufferFreshIs DEF Role
<1>5. /\ live' = With(live, o, x)
      /\ x.role = "data" /\ x.depth = Len(scopes)
      /\ HeldIn(live', [b \in {0} |-> used'], [b \in {0} |-> lastOfBuffer'])
      /\ used' \in Nat /\ lastOfBuffer' \in Int /\ used' <= BufferCap
  <2> HIDE DEF o
  <2>1. Len(scopes) \in Nat
    BY <1>3
  <2> QED
    BY <1>1, <1>4, <2>1, BufferAllocates
<1> HIDE DEF o, x
<1>6. ListsFor(live', lists', Len(scopes'), Current')
  <2>1. x.role # "ptr" /\ x.depth <= Len(scopes)
    BY <1>3, <1>5
  <2>2. ListsFor(With(live, o, x), lists, Len(scopes), Current)
    BY <1>3, <1>4, <2>1, ListsWithData
  <2> QED
    BY <1>2, <1>5, <2>2 DEF Current
<1>7. \A k \in 1..Len(scopes') :
         /\ scopes'[k].size <= BufferCap
         /\ Outlive(live', k, 0, scopes'[k].size, scopes'[k].last)
  <2>1. x.depth \in Nat /\ x.depth >= Len(scopes) /\ live' = With(live, o, x)
    BY <1>3, <1>5
  <2> QED
    BY <1>2, <2>1, BufferScopesKept
<1>8. BufferInv'
  BY <1>2, <1>3, <1>5, <1>6, <1>7 DEF BufferInv
<1>9. DOMAIN live \subseteq DOMAIN live'
  BY <1>5 DEF With
<1> QED
  BY <1>2, <1>8, <1>9, NoneDies

LEMMA BufferInitPtr ==
    ASSUME ArenaSizes, BufferInv, Buffer!initPtr
    PROVE  BufferInv' /\ Arena!DiesOnce
<1> DEFINE o == Buffer!Fresh
<1>1. PICK n \in Nat \ {0} : Buffer!Allocate(o, n, Len(scopes), "ptr")
  BY DEF Buffer!initPtr, Buffer!Depth, ArenaSizes
<1>2. /\ Buffer!Unused # {} /\ ran' = <<>>
      /\ lists' = IF m_pLCurrentDeleters \in DOMAIN lists
                  THEN [lists EXCEPT ![m_pLCurrentDeleters] = <<o>> \o @] ELSE lists
      /\ scopes' = scopes /\ m_pLCurrentDeleters' = m_pLCurrentDeleters
  BY DEF Buffer!initPtr, Buffer!NothingRan, Buffer!ListExists, Buffer!Register
<1>3. /\ ListsFor(live, lists, Len(scopes), Current)
      /\ m_pLCurrentDeleters \in Nat /\ m_pLCurrentDeleters >= Len(lists)
      /\ scopes \in Seq([size : Nat, last : Int]) /\ Len(scopes) \in Nat
      /\ lists \in Seq(Seq(Objects))
  BY DEF BufferInv, ListsFor
<1> DEFINE x == Buffer!Object(0, used, n, Len(scopes), "ptr")
<1>4. "ptr" \in Role /\ o \in Objects /\ o \notin DOMAIN live
  <2>1. Buffer!Unused # {}
    BY <1>2
  <2> QED
    BY <2>1, BufferFreshIs DEF Role
<1>5. /\ live' = With(live, o, x)
      /\ x.role = "ptr" /\ x.depth = Len(scopes) /\ x.at = used
      /\ \A p \in DOMAIN live : live[p].at < used
      /\ HeldIn(live', [b \in {0} |-> used'], [b \in {0} |-> lastOfBuffer'])
      /\ used' \in Nat /\ lastOfBuffer' \in Int /\ used' <= BufferCap
  <2> HIDE DEF o
  <2>1. Len(scopes) \in Nat
    BY <1>3
  <2> QED
    BY <1>1, <1>4, <2>1, BufferAllocates
<1> HIDE DEF o, x
<1>6. Len(lists') = Len(lists)
  BY <1>2, <1>3
<1>7. ListsFor(live', lists', Len(scopes'), Current')
  <2>1. Current' = Current /\ scopes' = scopes /\ live' = With(live, o, x)
    BY <1>2, <1>5 DEF Current
  <2>2. /\ x.role = "ptr" /\ x.depth = Len(scopes)
        /\ \A p \in DOMAIN live : live[p].block = x.block => live[p].at < x.at
    BY <1>5
  <2>3. CASE m_pLCurrentDeleters \in DOMAIN lists
    <3>1. /\ lists' = [lists EXCEPT ![m_pLCurrentDeleters] = <<o>> \o @]
          /\ m_pLCurrentDeleters = Len(lists)
      BY <1>2, <1>3, <2>3
    <3> QED
      BY <1>3, <1>4, <2>1, <2>2, <3>1, ListsWithPtr
  <2>4. CASE m_pLCurrentDeleters \notin DOMAIN lists
    <3>1. lists' = lists /\ \A k \in 1..Len(lists) : k \notin Current
      BY <1>2, <1>3, <2>4 DEF Current
    <3>2. x.depth <= Len(scopes)
      BY <1>3, <2>2
    <3>3. ListsFor(With(live, o, x), lists, Len(scopes), Current)
      BY <1>3, <3>1, <3>2, ListsWithStray
    <3> QED
      BY <2>1, <3>1, <3>3
  <2> QED
    BY <2>3, <2>4
<1>8. \A k \in 1..Len(scopes') :
         /\ scopes'[k].size <= BufferCap
         /\ Outlive(live', k, 0, scopes'[k].size, scopes'[k].last)
  <2>1. x.depth \in Nat /\ x.depth >= Len(scopes) /\ live' = With(live, o, x) /\ scopes' = scopes
    BY <1>2, <1>3, <1>5
  <2> QED
    BY <2>1, BufferScopesKept
<1>9. BufferInv'
  BY <1>2, <1>3, <1>5, <1>6, <1>7, <1>8 DEF BufferInv
<1>10. DOMAIN live \subseteq DOMAIN live'
  BY <1>5 DEF With
<1> QED
  BY <1>2, <1>9, <1>10, NoneDies

LEMMA BufferRealloc ==
    ASSUME ArenaSizes, BufferInv, NEW o \in DOMAIN live, NEW n \in Nat \ {0}, Buffer!realloc(o, n)
    PROVE  BufferInv' /\ Arena!DiesOnce
<1> DEFINE occ == [b \in {0} |-> used]
           last == [b \in {0} |-> lastOfBuffer]
           occ1 == [b \in {0} |-> used']
           last1 == [b \in {0} |-> lastOfBuffer']
           moved == [live[o] EXCEPT !.size = n, !.depth = Len(scopes)]
           y == Buffer!Object(0, used, n, Len(scopes), "data")
           x == IF live[o].at # lastOfBuffer /\ n > live[o].size THEN y ELSE moved
<1>1. /\ HeldIn(live, occ, last) /\ ListsFor(live, lists, Len(scopes), Current)
      /\ used \in Nat /\ lastOfBuffer \in Int /\ used <= BufferCap
      /\ m_pLCurrentDeleters \in Nat /\ m_pLCurrentDeleters >= Len(lists)
      /\ scopes \in Seq([size : Nat, last : Int]) /\ Len(scopes) \in Nat
  BY DEF BufferInv
<1>2. /\ live[o].role = "data" /\ ran' = <<>>
      /\ scopes' = scopes /\ lists' = lists /\ m_pLCurrentDeleters' = m_pLCurrentDeleters
  BY DEF Buffer!realloc, Buffer!NothingRan
<1>3. /\ live[o].at \in Nat /\ live[o].size \in Nat \ {0}
      /\ live[o].block = 0 /\ LiesBelow(live[o], used, lastOfBuffer)
  BY BufferHeldOf
<1>4. o \in Objects /\ live[o] \in HeldObject /\ DOMAIN occ = {0}
  <2>1. DOMAIN occ = {0}
    OBVIOUS
  <2> HIDE DEF occ, last
  <2> QED
    BY <1>1, <2>1, HeldOf
<1>5. /\ moved \in HeldObject /\ moved.block = 0 /\ moved.at = live[o].at /\ moved.size = n
      /\ moved.depth = Len(scopes) /\ moved.role = "data"
  BY <1>1, <1>2, <1>3, <1>4 DEF HeldObject
<1>6. live \in [DOMAIN live -> HeldObject]
  BY <1>1 DEF HeldIn
<1>7. [live EXCEPT ![o].size = n, ![o].depth = Len(scopes)] = With(live, o, moved)
  BY <1>6 DEF With
<1> HIDE DEF y
<1>8. /\ live' = With(live, o, x) /\ x.role = "data" /\ x.depth = Len(scopes)
      /\ HeldIn(live', occ1, last1)
      /\ used' \in Nat /\ lastOfBuffer' \in Int /\ used' <= BufferCap
  <2>1. CASE live[o].at = lastOfBuffer
    <3>1. /\ used' = lastOfBuffer + n /\ lastOfBuffer + n <= BufferCap
          /\ live' = [live EXCEPT ![o].size = n, ![o].depth = Len(scopes)]
          /\ lastOfBuffer' = lastOfBuffer
      BY <2>1 DEF Buffer!realloc, Buffer!Allocate, Buffer!Depth
    <3>2. live' = With(live, o, moved) /\ x = moved
      BY <1>7, <2>1, <3>1
    <3>3. used' \in Nat /\ lastOfBuffer' \in Int /\ used' <= BufferCap
      BY <1>1, <1>3, <2>1, <3>1
    <3>4. /\ last[0] = lastOfBuffer /\ occ1 \in [{0} -> Nat] /\ occ1[0] = lastOfBuffer + n
          /\ last1 = last
      BY <3>1, <3>3
    <3> HIDE DEF occ, last, occ1, last1, moved
    <3>5. HeldIn(With(live, o, moved), occ1, last)
      BY <1>1, <1>3, <1>4, <1>5, <2>1, <3>4, HeldResized
    <3> QED
      BY <1>5, <3>2, <3>3, <3>4, <3>5
  <2>2. CASE live[o].at # lastOfBuffer /\ n <= live[o].size
    <3>1. /\ live' = [live EXCEPT ![o].size = n, ![o].depth = Len(scopes)]
          /\ used' = used /\ lastOfBuffer' = lastOfBuffer
      BY <1>3, <2>2 DEF Buffer!realloc, Buffer!memoryVars, Buffer!Depth
    <3>2. live' = With(live, o, moved) /\ x = moved
      BY <1>3, <1>7, <2>2, <3>1
    <3>3. occ1 = occ /\ last1 = last
      BY <3>1
    <3>4. used' \in Nat /\ lastOfBuffer' \in Int /\ used' <= BufferCap
      BY <1>1, <3>1
    <3> HIDE DEF occ, last, occ1, last1, moved
    <3>5. HeldIn(With(live, o, moved), occ, last)
      BY <1>1, <1>3, <1>4, <1>5, <2>2, HeldShrunk
    <3> QED
      BY <1>5, <3>2, <3>3, <3>4, <3>5
  <2>3. CASE live[o].at # lastOfBuffer /\ n > live[o].size
    <3>1. Buffer!Allocate(o, n, Len(scopes), "data")
      BY <1>3, <2>3 DEF Buffer!realloc, Buffer!Depth
    <3>2. x = y
      BY <2>3
    <3>3. "data" \in Role /\ Len(scopes) \in Nat
      BY <1>1 DEF Role
    <3>4. /\ live' = With(live, o, y) /\ y.role = "data" /\ y.depth = Len(scopes)
          /\ HeldIn(live', occ1, last1)
          /\ used' \in Nat /\ lastOfBuffer' \in Int /\ used' <= BufferCap
      BY <1>4, <3>1, <3>3, BufferAllocates DEF y
    <3> HIDE DEF x, occ1, last1
    <3> QED
      BY <3>2, <3>4
  <2> QED
    BY <1>3, <2>1, <2>2, <2>3
<1> HIDE DEF x, moved, occ, last
<1>9. ListsFor(live', lists', Len(scopes'), Current')
  <2>1. x.role # "ptr" /\ x.depth <= Len(scopes) /\ live[o].role # "ptr"
    BY <1>1, <1>2, <1>8
  <2>2. ListsFor(With(live, o, x), lists, Len(scopes), Current)
    BY <1>1, <2>1, ListsWithData
  <2> QED
    BY <1>2, <1>8, <2>2 DEF Current
<1>10. \A k \in 1..Len(scopes') :
          /\ scopes'[k].size <= BufferCap
          /\ Outlive(live', k, 0, scopes'[k].size, scopes'[k].last)
  <2>1. live' = With(live, o, x) /\ x.depth \in Nat /\ x.depth >= Len(scopes)
    BY <1>1, <1>8
  <2> QED
    BY <1>2, <2>1, BufferScopesKept
<1>11. BufferInv'
  BY <1>1, <1>2, <1>8, <1>9, <1>10 DEF BufferInv
<1>12. DOMAIN live \subseteq DOMAIN live'
  BY <1>8 DEF With
<1> QED
  BY <1>2, <1>11, <1>12, NoneDies

LEMMA BufferEnter ==
    ASSUME BufferInv, NEW st \in [size : Nat, last : Int], Buffer!Enter(st),
           st.size <= BufferCap, \A p \in DOMAIN live : LiesBelow(live[p], st.size, st.last)
    PROVE  /\ ListsFor(live, lists', Len(scopes'), Current') /\ m_pLCurrentDeleters' = Len(lists')
           /\ Len(lists') \in Nat
           /\ Len(scopes') = Len(scopes) + 1 /\ Len(scopes) \in Nat
           /\ scopes' \in Seq([size : Nat, last : Int])
           /\ \A k \in 1..Len(scopes') :
                 /\ scopes'[k].size <= BufferCap
                 /\ Outlive(live, k, 0, scopes'[k].size, scopes'[k].last)
<1> DEFINE captured == [size : Nat, last : Int]
           d == Len(scopes)
<1>1. /\ live \in [DOMAIN live -> HeldObject] /\ ListsFor(live, lists, d, Current)
      /\ scopes \in Seq(captured) /\ d \in Nat
      /\ \A q \in 1..d :
            /\ scopes[q].size <= BufferCap
            /\ Outlive(live, q, 0, scopes[q].size, scopes[q].last)
  BY DEF BufferInv, HeldIn
<1>2. /\ scopes' = Append(scopes, st) /\ lists' = Append(lists, <<>>)
      /\ m_pLCurrentDeleters' = Len(lists) + 1
  BY DEF Buffer!Enter
<1>3. lists \in Seq(Seq(Objects)) /\ Len(lists) = d + 1
  BY <1>1 DEF ListsFor
<1>4. st \in captured
  OBVIOUS
<1> HIDE DEF captured
<1>5. /\ scopes' \in Seq(captured) /\ Len(scopes') = d + 1 /\ scopes'[d + 1] = st
      /\ \A k \in 1..d : scopes'[k] = scopes[k]
  BY <1>1, <1>2, <1>4
<1>6. m_pLCurrentDeleters' = Len(lists') /\ Len(lists') \in Nat
  BY <1>2, <1>3
<1>7. ListsFor(live, Append(lists, <<>>), d + 1, Current')
  <2>1. \A k \in 1..d + 1 : k \in Current' => k \in Current
    BY <1>1, <1>2, <1>3 DEF Current
  <2> QED
    BY <1>1, <2>1, ListsEnter
<1>8. Outlive(live, d + 1, 0, st.size, st.last)
  BY DEF Outlive
<1>9. ASSUME NEW k \in 1..Len(scopes')
      PROVE  /\ scopes'[k].size <= BufferCap
             /\ Outlive(live, k, 0, scopes'[k].size, scopes'[k].last)
  <2>1. CASE k = d + 1
    BY <1>5, <1>8, <2>1
  <2>2. CASE k # d + 1
    <3>1. k \in 1..d /\ scopes'[k] = scopes[k]
      BY <1>1, <1>5, <2>2
    <3> QED
      BY <1>1, <3>1
  <2> QED
    BY <2>1, <2>2
<1> QED
  BY <1>1, <1>2, <1>5, <1>6, <1>7, <1>9 DEF captured

LEMMA BufferScopeEntered ==
    ASSUME BufferInv, Buffer!BufferAllocatorScope
    PROVE  BufferInv' /\ Arena!DiesOnce
<1> DEFINE st == [size |-> used, last |-> lastOfBuffer]
<1>1. /\ Buffer!Enter(st) /\ live' = live /\ used' = used /\ lastOfBuffer' = lastOfBuffer
  BY DEF Buffer!BufferAllocatorScope, Buffer!memoryVars
<1>2. ran' = <<>>
  BY <1>1 DEF Buffer!Enter, Buffer!NothingRan
<1>3. /\ st \in [size : Nat, last : Int] /\ st.size = used /\ st.last = lastOfBuffer
      /\ used <= BufferCap
  BY DEF BufferInv
<1>4. \A p \in DOMAIN live : LiesBelow(live[p], used, lastOfBuffer)
  BY BufferHeldOf
<1> HIDE DEF st
<1>5. /\ ListsFor(live, lists', Len(scopes'), Current') /\ m_pLCurrentDeleters' = Len(lists')
      /\ Len(lists') \in Nat
      /\ scopes' \in Seq([size : Nat, last : Int])
      /\ \A k \in 1..Len(scopes') :
            /\ scopes'[k].size <= BufferCap
            /\ Outlive(live, k, 0, scopes'[k].size, scopes'[k].last)
  BY <1>1, <1>3, <1>4, BufferEnter
<1>6. BufferInv'
  BY <1>1, <1>5 DEF BufferInv
<1> QED
  BY <1>1, <1>2, <1>6, NoneDies

LEMMA BufferRestoreAfterScope ==
    ASSUME ArenaSizes, BufferInv, Buffer!restoreAfterScope
    PROVE  BufferInv' /\ Arena!DiesOnce
<1> DEFINE d == Len(scopes) + 1
           st == [size |-> 0, last |-> -1]
           o == Buffer!Fresh
           x == Buffer!Object(0, used, 1, d, "scope")
<1>1. /\ Buffer!Unused # {} /\ used = 0 /\ Buffer!Enter(st)
      /\ Buffer!Allocate(o, 1, d, "scope")
  BY DEF Buffer!restoreAfterScope, Buffer!nullptr, Buffer!Depth
<1>2. ran' = <<>>
  BY <1>1 DEF Buffer!Enter, Buffer!NothingRan
<1>3. /\ st \in [size : Nat, last : Int] /\ st.size = 0 /\ st.last = -1 /\ 0 <= BufferCap
  BY DEF ArenaSizes
<1>4. ASSUME NEW p \in DOMAIN live PROVE FALSE
  <2>1. /\ LiesBelow(live[p], used, lastOfBuffer)
        /\ live[p].at \in Nat /\ live[p].size \in Nat \ {0}
    BY BufferHeldOf
  <2> QED
    BY <1>1, <2>1 DEF LiesBelow
<1> HIDE DEF st
<1>5. /\ ListsFor(live, lists', Len(scopes'), Current') /\ m_pLCurrentDeleters' = Len(lists')
      /\ Len(lists') \in Nat
      /\ Len(scopes') = d /\ d \in Nat
      /\ scopes' \in Seq([size : Nat, last : Int])
      /\ \A k \in 1..Len(scopes') : scopes'[k].size <= BufferCap
  BY <1>1, <1>3, <1>4, BufferEnter
<1>6. o \in Objects /\ o \notin DOMAIN live /\ "scope" \in Role /\ 1 \in Nat \ {0}
  BY <1>1, BufferFreshIs DEF Role
<1> HIDE DEF d, o
<1>7. /\ live' = With(live, o, x)
      /\ x.role = "scope" /\ x.depth = d
      /\ HeldIn(live', [b \in {0} |-> used'], [b \in {0} |-> lastOfBuffer'])
      /\ used' \in Nat /\ lastOfBuffer' \in Int /\ used' <= BufferCap
  <2>1. d \in Nat /\ Buffer!Allocate(o, 1, d, "scope")
    BY <1>1, <1>5
  <2> QED
    BY <1>6, <2>1, BufferAllocates
<1> HIDE DEF x
<1>8. ListsFor(live', lists', Len(scopes'), Current')
  <2>1. x.role # "ptr" /\ x.depth <= Len(scopes')
    BY <1>5, <1>7
  <2>2. ListsFor(With(live, o, x), lists', Len(scopes'), Current')
    BY <1>5, <1>6, <2>1, ListsWithData
  <2> QED
    BY <1>7, <2>2
<1>9. ASSUME NEW k \in 1..Len(scopes')
      PROVE  Outlive(live', k, 0, scopes'[k].size, scopes'[k].last)
  <2>1. k \in Nat /\ k <= d /\ x.depth \in Nat /\ x.depth >= k
    BY <1>5, <1>7
  <2>2. Outlive(live, k, 0, scopes'[k].size, scopes'[k].last)
    BY <1>4 DEF Outlive
  <2> QED
    BY <1>7, <2>1, <2>2, OutliveWith
<1>10. BufferInv'
  BY <1>5, <1>7, <1>8, <1>9 DEF BufferInv
<1>11. DOMAIN live \subseteq DOMAIN live'
  BY <1>7 DEF With
<1> QED
  BY <1>2, <1>10, <1>11, NoneDies

LEMMA BufferRestore ==
    ASSUME BufferInv, Buffer!restore
    PROVE  BufferInv' /\ (Buffer!ListExists => Arena!DiesOnce)
<1> DEFINE captured == [size : Nat, last : Int]
           d == Len(scopes)
           st == scopes[d]
           S == {p \in DOMAIN live : live[p].depth < d}
           m == [p \in S |-> live[p]]
           cleared == Buffer!Deleted
           occ == [b \in {0} |-> used]
           last == [b \in {0} |-> lastOfBuffer]
           occ1 == [b \in {0} |-> used']
           last1 == [b \in {0} |-> lastOfBuffer']
<1>1. /\ HeldIn(live, occ, last) /\ ListsFor(live, lists, d, Current)
      /\ m_pLCurrentDeleters \in Nat /\ m_pLCurrentDeleters >= Len(lists)
      /\ scopes \in Seq(captured) /\ d \in Nat
      /\ \A q \in 1..d :
            /\ scopes[q].size <= BufferCap
            /\ Outlive(live, q, 0, scopes[q].size, scopes[q].last)
  BY DEF BufferInv
<1>2. lists \in Seq(Seq(Objects)) /\ Len(lists) = d + 1
  BY <1>1 DEF ListsFor
<1>3. scopes # <<>> /\ cleared = IF m_pLCurrentDeleters \in DOMAIN lists
                                THEN [lists EXCEPT ![m_pLCurrentDeleters] = <<>>] ELSE lists
  BY DEF Buffer!restore, Buffer!Deleted, Buffer!ListExists
<1>4. d \in 1..d /\ d > 0
  BY <1>1, <1>3
<1>5. /\ used' = st.size /\ lastOfBuffer' = st.last /\ m_pLCurrentDeleters' = m_pLCurrentDeleters
      /\ scopes' = SubSeq(scopes, 1, d - 1)
  BY <1>4 DEF Buffer!restore, Buffer!Depth, Buffer!Outer
<1>6. live' = m
  BY DEF Buffer!restore, Buffer!Outliving, Buffer!Restrict, Buffer!Depth
<1>7. lists' = SubSeq(cleared, 1, Len(cleared) - 1)
  BY DEF Buffer!restore, Buffer!Outer
<1>8. st.size \in Nat /\ st.last \in Int /\ st.size <= BufferCap
  <2>1. st \in captured
    <3> HIDE DEF captured
    <3> QED
      BY <1>1, <1>4
  <2>2. st.size \in Nat /\ st.last \in Int
    BY <2>1
  <2> QED
    BY <1>1, <1>4, <2>2
<1>9. Outlive(live, d, 0, st.size, st.last)
  BY <1>1, <1>4
<1>10. S \in SUBSET DOMAIN live /\ \A p \in S : live[p].depth < d
  OBVIOUS
<1>11. /\ occ1 \in [{0} -> Nat] /\ last1 \in [{0} -> Int] /\ DOMAIN occ1 = {0}
       /\ occ1[0] = st.size /\ last1[0] = st.last
  BY <1>5, <1>8
<1>12. ListsFor(m, lists', d - 1, Current')
  <2>1. live \in [DOMAIN live -> HeldObject]
    BY <1>1 DEF HeldIn
  <2>2. /\ cleared \in Seq(Seq(Objects)) /\ Len(cleared) = Len(lists)
        /\ \A k \in 1..d : cleared[k] = lists[k]
    <3> HIDE DEF cleared, d
    <3> QED
      BY <1>1, <1>2, <1>3, ListsCleared
  <2>4. \A k \in 1..d : k \in Current' => k \in Current
    BY <1>1, <1>2, <1>5 DEF Current
  <2> HIDE DEF cleared, d
  <2>3. ListsFor([p \in {o \in DOMAIN live : live[o].depth < d} |-> live[p]],
                 SubSeq(cleared, 1, Len(cleared) - 1), d - 1, Current')
    BY <1>1, <1>4, <2>1, <2>2, <2>4, ListsEnd
  <2> QED
    BY <1>7, <2>3
<1>13. /\ scopes' \in Seq(captured) /\ Len(scopes') = d - 1
       /\ \A k \in 1..d - 1 : scopes'[k] = scopes[k]
  <2>1. scopes \in Seq(captured) /\ d \in 1..Len(scopes) /\ scopes' = SubSeq(scopes, 1, d - 1)
    BY <1>1, <1>4, <1>5
  <2> HIDE DEF captured, d
  <2> QED
    BY <2>1
<1> HIDE DEF captured, st, S, m, cleared, occ, last, occ1, last1
<1>14. HeldIn(m, occ1, last1)
  <2>1. ASSUME NEW p \in S
        PROVE  live[p].block \in DOMAIN occ1
               /\ LiesBelow(live[p], occ1[live[p].block], last1[live[p].block])
    <3>1. p \in DOMAIN live /\ live[p].depth < d
      BY <1>10
    <3>2. live[p].block = 0
      BY <3>1, BufferHeldOf
    <3>3. LiesBelow(live[p], st.size, st.last)
      BY <1>9, <3>1, <3>2 DEF Outlive
    <3> QED
      BY <1>11, <3>2, <3>3
  <2>2. occ1 \in [DOMAIN occ1 -> Nat] /\ last1 \in [DOMAIN occ1 -> Int]
    BY <1>11
  <2> QED
    BY <1>1, <1>10, <2>1, <2>2, HeldKept DEF m
<1>15. Len(lists') = d
  <2>1. Len(lists') = (d - 1) + 1
    BY <1>12 DEF ListsFor
  <2> QED
    BY <1>1, <2>1
<1>20. ASSUME Buffer!ListExists
       PROVE  /\ ran' = lists[Len(lists)] /\ lists[Len(lists)] \in Seq(Objects)
              /\ Lists(live, lists[Len(lists)], d)
  <2>1. m_pLCurrentDeleters = Len(lists)
    BY <1>1, <1>2, <1>20 DEF Buffer!ListExists
  <2>2. Len(lists) \in 1..Len(lists) /\ Len(lists) - 1 = d
    BY <1>1, <1>2
  <2>3. Lists(live, lists[Len(lists)], Len(lists) - 1)
    BY <1>1, <2>1, <2>2 DEF ListsFor, Current
  <2>4. ran' = lists[m_pLCurrentDeleters]
    BY <1>20 DEF Buffer!restore, Buffer!RunsDeleters
  <2> QED
    BY <1>1, <1>2, <2>1, <2>2, <2>3, <2>4
<1>16. ASSUME NEW k \in 1..Len(scopes')
       PROVE  /\ scopes'[k].size <= BufferCap
              /\ Outlive(m, k, 0, scopes'[k].size, scopes'[k].last)
  <2>1. k \in 1..d /\ scopes'[k] = scopes[k]
    BY <1>1, <1>13
  <2>2. Outlive(live, k, 0, scopes[k].size, scopes[k].last)
    BY <1>1, <2>1
  <2>3. Outlive(m, k, 0, scopes[k].size, scopes[k].last)
    BY <1>10, <2>2, OutliveKept DEF m
  <2> QED
    BY <1>1, <2>1, <2>3
<1>17. BufferInv'
  <2>1. HeldIn(live', occ1, last1) /\ ListsFor(live', lists', Len(scopes'), Current')
    BY <1>6, <1>12, <1>13, <1>14
  <2>2. /\ used' \in Nat /\ lastOfBuffer' \in Int /\ used' <= BufferCap
        /\ m_pLCurrentDeleters' \in Nat /\ m_pLCurrentDeleters' >= Len(lists')
    BY <1>1, <1>2, <1>5, <1>8, <1>15
  <2>3. \A k \in 1..Len(scopes') :
          /\ scopes'[k].size <= BufferCap
          /\ Outlive(live', k, 0, scopes'[k].size, scopes'[k].last)
    BY <1>6, <1>16
  <2> QED
    BY <1>13, <2>1, <2>2, <2>3 DEF BufferInv, captured, occ1, last1
<1>18. ASSUME Buffer!ListExists PROVE Arena!DiesOnce
  <2>1. ASSUME NEW p \in DOMAIN live
        PROVE  live[p].at \in Int /\ (p \notin DOMAIN live' <=> live[p].depth = d)
    <3>1. live[p].at \in Nat /\ live[p].depth \in Nat
      BY BufferHeldOf
    <3>2. live[p].depth <= d
      BY <1>1 DEF ListsFor
    <3>3. p \in DOMAIN live' <=> live[p].depth < d
      BY <1>6 DEF m, S
    <3> QED
      BY <1>1, <3>1, <3>2, <3>3
  <2> HIDE DEF d
  <2>2. Lists(live, ran', d) /\ ran' \in Seq(Objects)
    BY <1>18, <1>20
  <2> QED
    BY <2>1, <2>2, ListedDie
<1> QED
  BY <1>17, <1>18

LEMMA BufferReset ==
    ASSUME ArenaSizes, BufferInv, Buffer!reset
    PROVE  BufferInv' /\ (Buffer!ListExists => Arena!DiesOnce)
<1>1. /\ ListsFor(live, lists, Len(scopes), Current)
      /\ m_pLCurrentDeleters \in Nat /\ m_pLCurrentDeleters >= Len(lists)
  BY DEF BufferInv
<1>2. /\ scopes = <<>>
      /\ lists' = IF m_pLCurrentDeleters \in DOMAIN lists
                  THEN [lists EXCEPT ![m_pLCurrentDeleters] = <<>>] ELSE lists
      /\ live' = <<>> /\ used' = 0 /\ lastOfBuffer' = -1 /\ scopes' = scopes
      /\ m_pLCurrentDeleters' = m_pLCurrentDeleters
  BY DEF Buffer!reset, Buffer!ListExists, Buffer!Deleted, Buffer!nullptr
<1>3. Len(scopes) = 0 /\ lists \in Seq(Seq(Objects)) /\ Len(lists) = 1
  BY <1>1, <1>2 DEF ListsFor
<1>5. ASSUME Buffer!ListExists
      PROVE  ran' = lists[1] /\ Lists(live, lists[1], 0) /\ lists[1] \in Seq(Objects)
  <2>4. m_pLCurrentDeleters = 1 /\ ran' = lists[m_pLCurrentDeleters]
    BY <1>1, <1>3, <1>5 DEF Buffer!reset, Buffer!RunsDeleters, Buffer!ListExists
  <2>1. PICK k \in 1..Len(lists) : k = 1 /\ k - 1 = 0
    BY <1>3
  <2>2. Lists(live, lists[k], k - 1)
    BY <1>1, <2>1, <2>4 DEF ListsFor, Current
  <2>3. lists[k] \in Seq(Objects)
    BY <1>3
  <2> QED
    BY <2>1, <2>2, <2>3, <2>4
<1>6. /\ lists' \in Seq(Seq(Objects)) /\ Len(lists') = 1
      /\ 1 \in Current' => lists'[1] = <<>>
  <2>1. <<>> \in Seq(Objects)
    OBVIOUS
  <2>2. CASE m_pLCurrentDeleters \in DOMAIN lists
    <3>1. m_pLCurrentDeleters = 1 /\ lists' = [lists EXCEPT ![1] = <<>>]
      BY <1>1, <1>2, <1>3, <2>2
    <3> QED
      BY <1>3, <2>1, <3>1
  <2>3. CASE m_pLCurrentDeleters \notin DOMAIN lists
    <3>1. lists' = lists /\ m_pLCurrentDeleters' # 1
      BY <1>2, <1>3, <2>3
    <3> QED
      BY <1>3, <3>1 DEF Current
  <2> QED
    BY <2>2, <2>3
<1>7. DOMAIN live' = {}
  BY <1>2
<1>8. ListsFor(live', lists', Len(scopes'), Current')
  BY <1>2, <1>3, <1>6, <1>7, ListsEmpty
<1>9. HeldIn(live', [b \in {0} |-> used'], [b \in {0} |-> lastOfBuffer'])
  BY <1>2, <1>7 DEF HeldIn
<1>10. scopes' \in Seq([size : Nat, last : Int])
  BY <1>2 DEF BufferInv
<1>11. BufferInv'
  <2>1. Len(scopes') = 0 /\ m_pLCurrentDeleters' \in Nat /\ m_pLCurrentDeleters' >= Len(lists')
    <3>1. m_pLCurrentDeleters' = m_pLCurrentDeleters /\ scopes' = scopes
      BY <1>2
    <3> QED
      BY <1>1, <1>3, <1>6, <3>1
  <2>2. used' \in Nat /\ lastOfBuffer' \in Int /\ used' <= BufferCap
    BY <1>2 DEF ArenaSizes
  <2> QED
    BY <1>8, <1>9, <1>10, <2>1, <2>2 DEF BufferInv
<1>12. ASSUME Buffer!ListExists PROVE Arena!DiesOnce
  <2>1. ASSUME NEW p \in DOMAIN live
        PROVE  live[p].at \in Int /\ (p \notin DOMAIN live' <=> live[p].depth = 0)
    <3>1. live[p].at \in Nat /\ live[p].depth \in Nat
      BY BufferHeldOf
    <3>2. live[p].depth <= 0
      BY <1>1, <1>3 DEF ListsFor
    <3> QED
      BY <1>7, <3>1, <3>2
  <2>2. Lists(live, ran', 0) /\ ran' \in Seq(Objects)
    BY <1>5, <1>12
  <2> QED
    BY <2>1, <2>2, ListedDie
<1> QED
  BY <1>11, <1>12

LEMMA BufferInit ==
    ASSUME ArenaSizes, Buffer!Init
    PROVE  BufferInv
<1>1. /\ live = <<>> /\ scopes = <<>> /\ lists = << <<>> >> /\ m_pLCurrentDeleters = 1
      /\ used = 0 /\ lastOfBuffer = -1 /\ BufferCap \in Nat
  BY DEF Buffer!Init, Buffer!IArenaInit, Buffer!nullptr, ArenaSizes
<1>2. /\ lists \in Seq(Seq(Objects)) /\ Len(lists) = 1 /\ lists[1] = <<>> /\ DOMAIN live = {}
      /\ Len(scopes) = 0
  BY <1>1
<1>3. ListsFor(live, lists, Len(scopes), Current)
  BY <1>2, ListsEmpty
<1>4. HeldIn(live, [b \in {0} |-> used], [b \in {0} |-> lastOfBuffer])
  BY <1>1, <1>2 DEF HeldIn
<1> QED
  BY <1>1, <1>2, <1>3, <1>4 DEF BufferInv

LEMMA BufferStep ==
    ASSUME ArenaSizes, BufferInv, Buffer!Next
    PROVE  BufferInv' /\ Buffer!DestructsDead
<1> USE SameDeaths DEF Buffer!DestructsDead
<1>1. CASE Buffer!malloc
  BY <1>1, BufferMalloc
<1>2. CASE Buffer!initPtr
  BY <1>2, BufferInitPtr
<1>3. CASE \E o \in DOMAIN live, n \in ObjectSizes : Buffer!realloc(o, n)
  <2>1. PICK o \in DOMAIN live, n \in Nat \ {0} : Buffer!realloc(o, n)
    BY <1>3 DEF ArenaSizes
  <2> QED
    BY <2>1, BufferRealloc
<1>4. CASE Buffer!BufferAllocatorScope
  BY <1>4, BufferScopeEntered
<1>5. CASE Buffer!restoreAfterScope
  BY <1>5, BufferRestoreAfterScope
<1>6. CASE Buffer!restore
  BY <1>6, BufferRestore
<1>7. CASE Buffer!reset
  BY <1>7, BufferReset
<1> QED
  BY <1>1, <1>2, <1>3, <1>4, <1>5, <1>6, <1>7 DEF Buffer!Next

-----------------------------------------------------------------------------
(* ArenaList                                                                *)

BlockRecord == [cap : Nat, occupied : Nat, pLastAlloc : Nat]

Occupied(blk) == [b \in DOMAIN blk |-> blk[b].occupied]
LastAlloc(blk) == [b \in DOMAIN blk |-> blk[b].pLastAlloc]

(* The objects l in the blocks blk, of which ch is the chain.               *)
Chained(l, blk, ch) ==
    /\ blk \in [DOMAIN blk -> BlockRecord] /\ DOMAIN blk \subseteq Blocks
    /\ \A b \in DOMAIN blk : 8 * blk[b].occupied <= blk[b].cap
    /\ ch \in Seq(DOMAIN blk) /\ \A i, j \in 1..Len(ch) : ch[i] = ch[j] => i = j
    /\ HeldIn(l, Occupied(blk), LastAlloc(blk))

(* What scope d captured, s, if it is still in the chain, is behind blocks  *)
(* in which nothing outlives the scope.                                     *)
CapturedIn(l, blk, ch, s, d) ==
    /\ s.last \in DOMAIN blk
    /\ \A k \in 1..Len(ch) : ch[k] = s.last =>
          /\ 8 * s.occupied <= blk[s.last].cap
          /\ Outlive(l, d, s.last, s.occupied, s.pLastAlloc)
          /\ \A j \in 1..Len(ch) : j < k =>
                \A o \in DOMAIN l : l[o].block = ch[j] => l[o].depth >= d

(* What s captured is not before what t did, an inner scope.                *)
Behind(ch, s, t) == \A i, j \in 1..Len(ch) : ch[i] = s.last /\ ch[j] = t.last => j <= i

(* What the scopes ss captured, the innermost last.                         *)
ScopesIn(l, blk, ch, ss) ==
    /\ \A k \in 1..Len(ss) : CapturedIn(l, blk, ch, ss[k], k)
    /\ \A j, k \in 1..Len(ss) : j < k => Behind(ch, ss[j], ss[k])

(* A step that leaves what up to d scopes captured as it was.               *)
ScopesKept(d) ==
    \A ss : Len(ss) \in 0..d /\ ScopesIn(live, block, m_pBlocks, ss)
               => ScopesIn(live', block', m_pBlocks', ss)

(* What the current pointer points to, if that is an open scope's list.     *)
Innermost == {m_pLCurrentDeleters} \ {1}

(* A step that is no scope's end.                                           *)
ScopesStay == ran' = <<>> /\ Len(scopes') >= Len(scopes)

ArenaListInv ==
    /\ Chained(live, block, m_pBlocks)
    /\ ListsFor(live, lists, Len(scopes), Innermost)
    /\ m_pLCurrentDeleters \in Nat /\ m_pLCurrentDeleters >= Len(lists)
    /\ scopes \in Seq([last : Blocks, occupied : Nat, pLastAlloc : Nat])
    /\ ScopesIn(live, block, m_pBlocks, scopes)

LEMMA ChainedOf ==
    ASSUME NEW l, NEW blk, NEW ch, Chained(l, blk, ch), NEW o \in DOMAIN l
    PROVE  /\ o \in Objects /\ l[o] \in HeldObject /\ l[o].block \in DOMAIN blk
           /\ l[o].at \in Nat /\ l[o].size \in Nat \ {0} /\ l[o].depth \in Nat /\ l[o].role \in Role
           /\ LiesBelow(l[o], blk[l[o].block].occupied, blk[l[o].block].pLastAlloc)
<1> DEFINE occ == Occupied(blk)
           last == LastAlloc(blk)
<1>1. HeldIn(l, occ, last)
  BY DEF Chained
<1>2. /\ DOMAIN occ = DOMAIN blk
      /\ \A b \in DOMAIN blk : occ[b] = blk[b].occupied /\ last[b] = blk[b].pLastAlloc
  BY DEF Occupied, LastAlloc
<1> HIDE DEF occ, last
<1>3. /\ o \in Objects /\ l[o] \in HeldObject /\ l[o].block \in DOMAIN occ
      /\ l[o].at \in Nat /\ l[o].size \in Nat \ {0} /\ l[o].depth \in Nat /\ l[o].role \in Role
      /\ LiesBelow(l[o], occ[l[o].block], last[l[o].block])
  BY <1>1, HeldOf
<1> QED
  BY <1>2, <1>3

(* A new block, at the head of the chain.                                   *)
LEMMA ChainedNew ==
    ASSUME NEW l, NEW blk, NEW ch, Chained(l, blk, ch), NEW b \in Blocks, b \notin DOMAIN blk,
           NEW c \in Nat, NEW blk1,
           blk1 = [q \in DOMAIN blk \cup {b} |->
                       IF q = b THEN [cap |-> c, occupied |-> 0, pLastAlloc |-> 0]
                       ELSE blk[q]]
    PROVE  /\ Chained(l, blk1, <<b>> \o ch) /\ b \in DOMAIN blk1
           /\ blk1[b].cap = c /\ blk1[b].occupied = 0
           /\ \A o \in DOMAIN l : l[o].block # b
<1> DEFINE ch1 == <<b>> \o ch
           new == [cap |-> c, occupied |-> 0, pLastAlloc |-> 0]
<1>1. /\ blk \in [DOMAIN blk -> BlockRecord] /\ DOMAIN blk \subseteq Blocks
      /\ \A q \in DOMAIN blk : 8 * blk[q].occupied <= blk[q].cap
      /\ ch \in Seq(DOMAIN blk) /\ \A i, j \in 1..Len(ch) : ch[i] = ch[j] => i = j
      /\ HeldIn(l, Occupied(blk), LastAlloc(blk))
  BY DEF Chained
<1>2. /\ DOMAIN blk1 = DOMAIN blk \cup {b} /\ blk1[b] = new
      /\ \A q \in DOMAIN blk : blk1[q] = blk[q]
  OBVIOUS
<1>3. new \in BlockRecord /\ new.cap = c /\ new.occupied = 0 /\ 8 * new.occupied <= new.cap
  BY DEF BlockRecord
<1> HIDE DEF new
<1>4. blk1 \in [DOMAIN blk1 -> BlockRecord] /\ DOMAIN blk1 \subseteq Blocks
  <2>1. \A q \in DOMAIN blk1 : blk1[q] \in BlockRecord
    BY <1>1, <1>2, <1>3
  <2> QED
    BY <1>1, <1>2, <2>1
<1>5. \A q \in DOMAIN blk1 : 8 * blk1[q].occupied <= blk1[q].cap
  BY <1>1, <1>2, <1>3
<1>6. ch1 \in Seq(DOMAIN blk1) /\ \A i, j \in 1..Len(ch1) : ch1[i] = ch1[j] => i = j
  <2>1. /\ Len(ch) \in Nat /\ ch1 \in Seq(DOMAIN blk1) /\ Len(ch1) = Len(ch) + 1 /\ ch1[1] = b
        /\ \A i \in 1..Len(ch1) : i # 1 => i - 1 \in 1..Len(ch) /\ ch1[i] = ch[i - 1]
    <3>1. ch \in Seq(DOMAIN blk1) /\ <<b>> \in Seq(DOMAIN blk1)
      BY <1>1, <1>2
    <3> QED
      BY <3>1
  <2>2. \A i \in 1..Len(ch) : ch[i] # b
    BY <1>1
  <2> HIDE DEF ch1
  <2>3. ASSUME NEW i \in 1..Len(ch1), NEW j \in 1..Len(ch1), ch1[i] = ch1[j]
        PROVE  i = j
    <3>1. CASE i = 1 \/ j = 1
      BY <2>1, <2>2, <2>3, <3>1
    <3>2. CASE i # 1 /\ j # 1
      <4>1. i - 1 \in 1..Len(ch) /\ j - 1 \in 1..Len(ch) /\ ch[i - 1] = ch[j - 1]
        BY <2>1, <2>3, <3>2
      <4>2. i - 1 = j - 1
        BY <1>1, <4>1
      <4> QED
        BY <2>1, <4>2
    <3> QED
      BY <3>1, <3>2
  <2> QED
    BY <2>1, <2>3
<1>7. ASSUME NEW o \in DOMAIN l PROVE l[o].block \in DOMAIN blk
  BY ChainedOf
<1>8. HeldIn(l, Occupied(blk1), LastAlloc(blk1))
  <2> DEFINE occ == Occupied(blk)
             last == LastAlloc(blk)
             occ1 == Occupied(blk1)
             last1 == LastAlloc(blk1)
  <2>1. /\ occ1 \in [DOMAIN occ1 -> Nat] /\ last1 \in [DOMAIN occ1 -> Int]
        /\ DOMAIN occ1 = DOMAIN blk1 /\ DOMAIN occ = DOMAIN blk
    BY <1>4 DEF Occupied, LastAlloc, BlockRecord
  <2>2. \A q \in DOMAIN blk : occ1[q] = occ[q] /\ last1[q] = last[q]
    BY <1>2 DEF Occupied, LastAlloc
  <2> HIDE DEF occ, last, occ1, last1
  <2>3. /\ l \in [DOMAIN l -> HeldObject] /\ DOMAIN l \subseteq Objects
        /\ \A o \in DOMAIN l :
              l[o].block \in DOMAIN occ /\ LiesBelow(l[o], occ[l[o].block], last[l[o].block])
        /\ \A o, p \in DOMAIN l : o # p => LieApart(l[o], l[p])
    BY <1>1 DEF HeldIn, occ, last
  <2>4. \A o \in DOMAIN l :
           l[o].block \in DOMAIN occ1 /\ LiesBelow(l[o], occ1[l[o].block], last1[l[o].block])
    BY <1>2, <2>1, <2>2, <2>3
  <2>5. HeldIn(l, occ1, last1)
    BY <2>1, <2>3, <2>4 DEF HeldIn
  <2> QED
    BY <2>5 DEF occ1, last1
<1> QED
  BY <1>2, <1>3, <1>4, <1>5, <1>6, <1>7, <1>8 DEF Chained

LEMMA ScopesNew ==
    ASSUME NEW l, NEW blk, NEW ch, Chained(l, blk, ch), NEW b, b \notin DOMAIN blk,
           NEW ss, ScopesIn(l, blk, ch, ss),
           NEW blk1, DOMAIN blk \subseteq DOMAIN blk1, \A q \in DOMAIN blk : blk1[q] = blk[q]
    PROVE  ScopesIn(l, blk1, <<b>> \o ch, ss)
<1> DEFINE ch1 == <<b>> \o ch
<1>1. ch \in Seq(DOMAIN blk)
  BY DEF Chained
<1>2. /\ Len(ch) \in Nat /\ Len(ch1) = Len(ch) + 1 /\ ch1[1] = b
      /\ \A i \in 1..Len(ch1) : i # 1 => i - 1 \in 1..Len(ch) /\ ch1[i] = ch[i - 1]
  BY <1>1
<1> HIDE DEF ch1
<1>3. ASSUME NEW k \in 1..Len(ss)
      PROVE  CapturedIn(l, blk1, ch1, ss[k], k)
  <2> DEFINE t == ss[k]
  <2>1. CapturedIn(l, blk, ch, t, k)
    BY DEF ScopesIn
  <2> HIDE DEF t
  <2>2. t.last \in DOMAIN blk1 /\ t.last # b /\ blk1[t.last] = blk[t.last]
    BY <2>1 DEF CapturedIn
  <2>3. ASSUME NEW i \in 1..Len(ch1), ch1[i] = t.last
        PROVE  /\ 8 * t.occupied <= blk1[t.last].cap
               /\ Outlive(l, k, t.last, t.occupied, t.pLastAlloc)
               /\ \A j \in 1..Len(ch1) : j < i =>
                     \A o \in DOMAIN l : l[o].block = ch1[j] => l[o].depth >= k
    <3>1. i # 1 /\ i - 1 \in 1..Len(ch) /\ ch[i - 1] = t.last
      BY <1>2, <2>2, <2>3
    <3>2. /\ 8 * t.occupied <= blk[t.last].cap
          /\ Outlive(l, k, t.last, t.occupied, t.pLastAlloc)
          /\ \A j \in 1..Len(ch) : j < i - 1 =>
                \A o \in DOMAIN l : l[o].block = ch[j] => l[o].depth >= k
      BY <2>1, <3>1 DEF CapturedIn
    <3>3. ASSUME NEW j \in 1..Len(ch1), j < i, NEW o \in DOMAIN l, l[o].block = ch1[j]
          PROVE  l[o].depth >= k
      <4>1. l[o].block \in DOMAIN blk
        BY ChainedOf
      <4>2. j # 1
        BY <1>2, <3>3, <4>1
      <4>3. j - 1 \in 1..Len(ch) /\ l[o].block = ch[j - 1] /\ j - 1 < i - 1
        BY <1>2, <3>3, <4>2
      <4> QED
        BY <3>2, <4>3
    <3> QED
      BY <2>2, <3>2, <3>3
  <2>4. CapturedIn(l, blk1, ch1, t, k)
    BY <2>2, <2>3 DEF CapturedIn
  <2> QED
    BY <2>4 DEF t
<1>4. ASSUME NEW j \in 1..Len(ss), NEW k \in 1..Len(ss), j < k
      PROVE  Behind(ch1, ss[j], ss[k])
  <2> DEFINE x == ss[j]
             y == ss[k]
  <2>1. /\ CapturedIn(l, blk, ch, x, j) /\ CapturedIn(l, blk, ch, y, k)
        /\ Behind(ch, x, y)
    BY <1>4 DEF ScopesIn
  <2> HIDE DEF x, y
  <2>2. x.last # b /\ y.last # b
    BY <2>1 DEF CapturedIn
  <2>3. ASSUME NEW i \in 1..Len(ch1), NEW n \in 1..Len(ch1), ch1[i] = x.last, ch1[n] = y.last
        PROVE  n <= i
    <3>1. /\ i - 1 \in 1..Len(ch) /\ ch[i - 1] = x.last
          /\ n - 1 \in 1..Len(ch) /\ ch[n - 1] = y.last
      BY <1>2, <2>2, <2>3
    <3>2. n - 1 <= i - 1
      BY <2>1, <3>1 DEF Behind
    <3> QED
      BY <3>2
  <2>4. Behind(ch1, x, y)
    BY <2>3 DEF Behind
  <2> QED
    BY <2>4 DEF x, y
<1>5. ScopesIn(l, blk1, ch1, ss)
  BY <1>3, <1>4 DEF ScopesIn
<1> QED
  BY <1>5 DEF ch1

(* An object allocated, or moved, to the end of a block with room for it.   *)
LEMMA ChainedPlaced ==
    ASSUME NEW l, NEW blk, NEW ch, Chained(l, blk, ch),
           NEW o \in Objects, NEW x \in HeldObject, x.block \in DOMAIN blk,
           x.at = blk[x.block].occupied, 8 * (x.at + x.size) <= blk[x.block].cap,
           NEW blk1, blk1 \in [DOMAIN blk -> BlockRecord],
           blk1[x.block].cap = blk[x.block].cap, blk1[x.block].occupied = x.at + x.size,
           blk1[x.block].pLastAlloc = x.at,
           \A q \in DOMAIN blk : q # x.block => blk1[q] = blk[q]
    PROVE  /\ Chained(With(l, o, x), blk1, ch)
           /\ DOMAIN blk1 = DOMAIN blk /\ \A q \in DOMAIN blk : blk1[q].cap = blk[q].cap
           /\ \A p \in DOMAIN l : l[p].block = x.block => l[p].at < x.at
<1>0. PICK b \in DOMAIN blk, n \in Nat \ {0} :
         /\ x.block = b /\ x.size = n /\ x.at = blk[b].occupied
         /\ 8 * (blk[b].occupied + n) <= blk[b].cap
         /\ blk1[b].cap = blk[b].cap /\ blk1[b].occupied = x.at + n /\ blk1[b].pLastAlloc = x.at
         /\ \A q \in DOMAIN blk : q # b => blk1[q] = blk[q]
  <2>1. x.size \in Nat \ {0}
    BY DEF HeldObject
  <2> QED
    BY <2>1
<1> DEFINE occ == Occupied(blk)
           last == LastAlloc(blk)
           occ1 == Occupied(blk1)
           last1 == LastAlloc(blk1)
           new == blk1[b]
<1>1. /\ blk \in [DOMAIN blk -> BlockRecord] /\ DOMAIN blk \subseteq Blocks
      /\ \A q \in DOMAIN blk : 8 * blk[q].occupied <= blk[q].cap
      /\ ch \in Seq(DOMAIN blk) /\ \A i, j \in 1..Len(ch) : ch[i] = ch[j] => i = j
      /\ HeldIn(l, occ, last)
  BY DEF Chained
<1>3. x.at \in Nat /\ n \in Nat /\ n # 0 /\ blk[b] \in BlockRecord /\ DOMAIN blk1 = DOMAIN blk
  BY <1>1 DEF HeldObject
<1>4. /\ new \in BlockRecord /\ new.cap = blk[b].cap /\ new.occupied = x.at + n
      /\ new.pLastAlloc = x.at
      /\ 8 * new.occupied <= new.cap
  BY <1>0, <1>3 DEF BlockRecord
<1> HIDE DEF new
<1>5. /\ DOMAIN blk1 = DOMAIN blk /\ blk1[b] = new
      /\ \A q \in DOMAIN blk : q # b => blk1[q] = blk[q]
      /\ blk1 \in [DOMAIN blk1 -> BlockRecord]
  BY <1>0, <1>3 DEF new
<1>6. \A q \in DOMAIN blk1 : 8 * blk1[q].occupied <= blk1[q].cap /\ blk1[q].cap = blk[q].cap
  BY <1>1, <1>4, <1>5
<1>7. /\ DOMAIN occ = DOMAIN blk /\ occ[b] = x.at
      /\ occ1 \in [DOMAIN occ -> Nat] /\ last1 \in [DOMAIN occ -> Int]
      /\ occ1[b] = x.at + x.size /\ last1[b] = x.at
      /\ \A q \in DOMAIN occ : q # b => occ1[q] = occ[q] /\ last1[q] = last[q]
  <2>1. /\ DOMAIN occ = DOMAIN blk /\ DOMAIN occ1 = DOMAIN blk /\ DOMAIN last1 = DOMAIN blk
        /\ \A q \in DOMAIN blk : /\ occ[q] = blk[q].occupied /\ last[q] = blk[q].pLastAlloc
                                 /\ occ1[q] = blk1[q].occupied /\ last1[q] = blk1[q].pLastAlloc
        /\ occ1 = [q \in DOMAIN blk |-> occ1[q]] /\ last1 = [q \in DOMAIN blk |-> last1[q]]
    BY <1>5 DEF Occupied, LastAlloc
  <2> HIDE DEF occ, last, occ1, last1
  <2>2. \A q \in DOMAIN blk : occ1[q] \in Nat /\ last1[q] \in Int
    <3>1. \A q \in DOMAIN blk : blk1[q] \in BlockRecord
      BY <1>5
    <3>2. \A r \in BlockRecord : r.occupied \in Nat /\ r.pLastAlloc \in Int
      BY DEF BlockRecord
    <3> QED
      BY <2>1, <3>1, <3>2
  <2>3. occ1 \in [DOMAIN blk -> Nat] /\ last1 \in [DOMAIN blk -> Int]
    BY <2>1, <2>2
  <2> QED
    BY <1>0, <1>4, <1>5, <2>1, <2>3
<1> HIDE DEF occ, last, occ1, last1
<1>8. HeldIn(With(l, o, x), occ1, last1)
  <2>1. /\ x.block \in DOMAIN occ /\ x.at = occ[x.block] /\ HeldIn(l, occ, last)
        /\ occ1[x.block] = x.at + x.size /\ last1[x.block] = x.at
        /\ \A q \in DOMAIN occ : q # x.block => occ1[q] = occ[q] /\ last1[q] = last[q]
    BY <1>0, <1>1, <1>7
  <2> QED
    BY <1>7, <2>1, HeldPlaced
<1>9. ASSUME NEW p \in DOMAIN l, l[p].block = b PROVE l[p].at < x.at
  <2>1. /\ LiesBelow(l[p], blk[b].occupied, blk[b].pLastAlloc) /\ l[p].at \in Nat
        /\ l[p].size \in Nat \ {0}
    BY <1>9, ChainedOf
  <2> QED
    BY <1>0, <1>3, <2>1 DEF LiesBelow
<1>10. Chained(With(l, o, x), blk1, ch)
  BY <1>1, <1>5, <1>6, <1>8 DEF Chained, occ1, last1
<1> QED
  BY <1>0, <1>5, <1>6, <1>9, <1>10

LEMMA ScopesWith ==
    ASSUME NEW l, NEW blk, NEW ch, NEW ss, Len(ss) \in Nat, ScopesIn(l, blk, ch, ss),
           ch \in Seq(DOMAIN blk),
           NEW o, NEW x, x.depth \in Nat, x.depth >= Len(ss),
           NEW blk1, DOMAIN blk1 = DOMAIN blk, \A q \in DOMAIN blk : blk1[q].cap = blk[q].cap
    PROVE  ScopesIn(With(l, o, x), blk1, ch, ss)
<1> DEFINE m == With(l, o, x)
<1>1. DOMAIN m = DOMAIN l \cup {o} /\ m[o] = x /\ \A p \in DOMAIN l : p # o => m[p] = l[p]
  BY DEF With
<1>2. ASSUME NEW k \in 1..Len(ss)
      PROVE  CapturedIn(m, blk1, ch, ss[k], k)
  <2> DEFINE s == ss[k]
  <2>1. CapturedIn(l, blk, ch, s, k) /\ k \in Nat /\ x.depth >= k
    BY DEF ScopesIn
  <2> HIDE DEF s
  <2>2. s.last \in DOMAIN blk1 /\ blk1[s.last].cap = blk[s.last].cap
    BY <2>1 DEF CapturedIn
  <2>3. ASSUME NEW i \in 1..Len(ch), ch[i] = s.last
        PROVE  /\ 8 * s.occupied <= blk1[s.last].cap
               /\ Outlive(m, k, s.last, s.occupied, s.pLastAlloc)
               /\ \A j \in 1..Len(ch) : j < i =>
                     \A p \in DOMAIN m : m[p].block = ch[j] => m[p].depth >= k
    <3>1. /\ 8 * s.occupied <= blk[s.last].cap
          /\ Outlive(l, k, s.last, s.occupied, s.pLastAlloc)
          /\ \A j \in 1..Len(ch) : j < i =>
                \A p \in DOMAIN l : l[p].block = ch[j] => l[p].depth >= k
      BY <2>1, <2>3 DEF CapturedIn
    <3>2. Outlive(m, k, s.last, s.occupied, s.pLastAlloc)
      BY <2>1, <3>1, OutliveWith
    <3> HIDE DEF m
    <3>3. ASSUME NEW j \in 1..Len(ch), j < i, NEW p \in DOMAIN m, m[p].block = ch[j]
          PROVE  m[p].depth >= k
      BY <1>1, <2>1, <3>1, <3>3
    <3> QED
      BY <2>2, <3>1, <3>2, <3>3
  <2> HIDE DEF m
  <2>4. CapturedIn(m, blk1, ch, s, k)
    BY <2>2, <2>3 DEF CapturedIn
  <2> QED
    BY <2>4 DEF s
<1> HIDE DEF m
<1>3. ScopesIn(m, blk1, ch, ss)
  BY <1>2 DEF ScopesIn
<1> QED
  BY <1>3 DEF m

LEMMA ListFreshIs ==
    ASSUME ArenaSizes, ArenaList!Unused # {}
    PROVE  ArenaList!Fresh \in Objects /\ ArenaList!Fresh \notin DOMAIN live
<1>1. ArenaList!Unused \in SUBSET Nat
  BY DEF ArenaSizes, ArenaList!Unused
<1>2. \E o \in ArenaList!Unused : \A p \in ArenaList!Unused : o <= p
  BY <1>1, NatMin
<1>3. ArenaList!Fresh \in ArenaList!Unused
  BY <1>2 DEF ArenaList!Fresh
<1> QED
  BY <1>3 DEF ArenaList!Unused

(* The block found, if there is one, has room.                              *)
LEMMA FindsFitting ==
    ASSUME Chained(live, block, m_pBlocks), NEW n \in Nat, ArenaList!findFittingBlock(n) # 0
    PROVE  LET b == m_pBlocks[ArenaList!findFittingBlock(n)]
           IN b \in DOMAIN block /\ 8 * (block[b].occupied + n) <= block[b].cap
<1> DEFINE I == {i \in 1..Len(m_pBlocks) : ArenaList!Fits(m_pBlocks[i], n)}
           i == ArenaList!findFittingBlock(n)
           b == m_pBlocks[i]
<1>1. i = IF I # {} THEN ArenaList!Min(I) ELSE 0
  BY DEF ArenaList!findFittingBlock, ArenaList!SelectInSeq
<1>2. I # {}
  BY <1>1
<1>3. I \in SUBSET Nat
  OBVIOUS
<1>4. \E a \in I : \A c \in I : a <= c
  <2> HIDE DEF I
  <2> QED
    BY <1>2, <1>3, NatMin
<1>5. i \in I
  <2> HIDE DEF I, i
  <2> QED
    BY <1>1, <1>2, <1>4 DEF ArenaList!Min
<1> HIDE DEF i
<1>6. m_pBlocks \in Seq(DOMAIN block) /\ block \in [DOMAIN block -> BlockRecord]
  BY DEF Chained
<1>7. b \in DOMAIN block /\ block[b] \in BlockRecord
  BY <1>5, <1>6
<1>8. ArenaList!Fits(b, n)
  BY <1>5
<1> HIDE DEF b
<1>9. block[b].occupied \in Nat /\ block[b].cap \in Nat
  BY <1>7 DEF BlockRecord
<1>10. 8 * (block[b].occupied + n) <= block[b].cap
  BY <1>8, <1>9 DEF ArenaList!Fits
<1> QED
  BY <1>7, <1>10 DEF b, i

(* A new block has room for what it was made for.                           *)
LEMMA BlockHasRoom ==
    ASSUME ArenaSizes, NEW n \in Nat \ {0}
    PROVE  ArenaList!BlockSize(n) \in Nat /\ 8 * n <= ArenaList!BlockSize(n)
<1> DEFINE bytes == (8 * n * 133) \div 100
<1>1. bytes \in Nat /\ 8 * n <= bytes
  OBVIOUS
<1>2. DefaultCapacity \in Nat
  BY DEF ArenaSizes
<1> HIDE DEF bytes
<1> QED
  BY <1>1, <1>2 DEF ArenaList!BlockSize, bytes

(* An allocation, in a block of the chain or in a new one.                  *)
LEMMA ListAllocates ==
    ASSUME ArenaSizes, Chained(live, block, m_pBlocks),
           NEW o \in Objects, NEW n \in Nat \ {0}, NEW d \in Nat, NEW role \in Role,
           ArenaList!Allocate(o, n, d, role)
    PROVE  \E b \in Nat, at \in Nat :
              LET x == ArenaList!Object(b, at, n, d, role)
              IN /\ live' = With(live, o, x)
                 /\ Chained(live', block', m_pBlocks')
                 /\ \A p \in DOMAIN live : live[p].block = b => live[p].at < at
                 /\ ScopesKept(d)
<1> DEFINE i == ArenaList!findFittingBlock(n)
           P == ArenaList!Placed(n)
           c == CHOOSE q \in Blocks \ DOMAIN block : \A r \in Blocks \ DOMAIN block : q <= r
           grown == [q \in DOMAIN block \cup {c} |->
                       IF q = c
                       THEN [cap |-> ArenaList!BlockSize(n), occupied |-> 0, pLastAlloc |-> 0]
                       ELSE block[q]]
           b == IF i # 0 THEN m_pBlocks[i] ELSE c
           blk == IF i # 0 THEN block ELSE grown
           ch == IF i # 0 THEN m_pBlocks ELSE <<c>> \o m_pBlocks
           at == blk[b].occupied
           x == ArenaList!Object(b, at, n, d, role)
<1>1. /\ P.in = b /\ P.chain = ch /\ P.blocks = blk
  BY DEF ArenaList!Placed, ArenaList!NewBlock
<1>2. /\ i # 0 \/ Blocks \ DOMAIN block # {}
      /\ block' = [blk EXCEPT ![b].occupied = at + n, ![b].pLastAlloc = at]
      /\ m_pBlocks' = ch /\ live' = With(live, o, x)
  <2> HIDE DEF P, b, blk, ch
  <2>1. /\ i # 0 \/ Blocks \ DOMAIN block # {}
        /\ block' = [P.blocks EXCEPT ![P.in].occupied = P.blocks[P.in].occupied + n,
                                     ![P.in].pLastAlloc = P.blocks[P.in].occupied]
        /\ m_pBlocks' = P.chain
        /\ live' = ArenaList!Put(o, ArenaList!Object(P.in, P.blocks[P.in].occupied, n, d, role))
    BY DEF ArenaList!Allocate, P
  <2> QED
    BY <1>1, <2>1 DEF ArenaList!Put, With
<1>3. /\ Chained(live, blk, ch) /\ b \in DOMAIN blk /\ 8 * (blk[b].occupied + n) <= blk[b].cap
      /\ b \in Blocks
      /\ \A ss : ScopesIn(live, block, m_pBlocks, ss) => ScopesIn(live, blk, ch, ss)
  <2>1. CASE i # 0
    <3>1. b = m_pBlocks[i] /\ blk = block /\ ch = m_pBlocks
      BY <2>1
    <3>2. b \in DOMAIN block /\ 8 * (block[b].occupied + n) <= block[b].cap
      BY <2>1, <3>1, FindsFitting
    <3>3. DOMAIN block \subseteq Blocks
      BY DEF Chained
    <3> HIDE DEF b, blk, ch, i
    <3> QED
      BY <3>1, <3>2, <3>3
  <2>2. CASE i = 0
    <3>1. b = c /\ blk = grown /\ ch = <<c>> \o m_pBlocks
      BY <2>2
    <3>2. c \in Blocks \ DOMAIN block
      <4>1. Blocks \ DOMAIN block \in SUBSET Nat
        BY DEF ArenaSizes
      <4>2. \E q \in Blocks \ DOMAIN block : \A r \in Blocks \ DOMAIN block : q <= r
        <5>1. Blocks \ DOMAIN block # {}
          BY <1>2, <2>2
        <5> QED
          BY <4>1, <5>1, NatMin
      <4> QED
        BY <4>2
    <3>3. ArenaList!BlockSize(n) \in Nat /\ 8 * n <= ArenaList!BlockSize(n)
      BY BlockHasRoom
    <3> DEFINE z == ArenaList!BlockSize(n)
    <3>4. grown = [q \in DOMAIN block \cup {c} |->
                       IF q = c THEN [cap |-> z, occupied |-> 0, pLastAlloc |-> 0]
                       ELSE block[q]]
      OBVIOUS
    <3>5. z \in Nat /\ 8 * (0 + n) <= z
      BY <3>3
    <3> HIDE DEF z, c
    <3>6. DOMAIN block \subseteq DOMAIN grown /\ \A q \in DOMAIN block : grown[q] = block[q]
      BY <3>2
    <3> HIDE DEF b, blk, ch, grown
    <3>7. /\ Chained(live, grown, <<c>> \o m_pBlocks) /\ c \in DOMAIN grown
          /\ grown[c].cap = z /\ grown[c].occupied = 0
      BY <3>2, <3>4, <3>5, ChainedNew
    <3>8. ASSUME NEW ss, ScopesIn(live, block, m_pBlocks, ss)
          PROVE  ScopesIn(live, grown, <<c>> \o m_pBlocks, ss)
      BY <3>2, <3>6, <3>8, ScopesNew
    <3>9. 8 * (grown[c].occupied + n) <= grown[c].cap
      BY <3>5, <3>7
    <3> QED
      BY <3>1, <3>2, <3>7, <3>8, <3>9
  <2> QED
    BY <2>1, <2>2
<1> HIDE DEF blk, ch, b
<1>4. b \in Nat /\ at \in Nat
  <2>1. blk \in [DOMAIN blk -> BlockRecord]
    BY <1>3 DEF Chained
  <2> QED
    BY <1>3, <2>1 DEF ArenaSizes, BlockRecord
<1>5. x \in HeldObject /\ x.block = b /\ x.at = at /\ x.size = n /\ x.depth = d
  BY <1>4 DEF ArenaList!Object, HeldObject
<1>6. block' = [blk EXCEPT ![b].occupied = x.at + n, ![b].pLastAlloc = x.at]
  BY <1>2, <1>5
<1> HIDE DEF x
<1>7. /\ Chained(With(live, o, x), block', ch)
      /\ DOMAIN block' = DOMAIN blk /\ \A q \in DOMAIN blk : block'[q].cap = blk[q].cap
      /\ \A p \in DOMAIN live : live[p].block = b => live[p].at < x.at
  <2>1. /\ Chained(live, blk, ch) /\ b \in DOMAIN blk
        /\ 8 * (blk[b].occupied + n) <= blk[b].cap /\ x.at = blk[b].occupied
    BY <1>3, <1>5
  <2>2. /\ x \in HeldObject /\ x.block \in DOMAIN blk /\ x.at = blk[x.block].occupied
        /\ 8 * (x.at + x.size) <= blk[x.block].cap
    BY <1>5, <2>1
  <2> HIDE DEF at
  <2>4. blk \in [DOMAIN blk -> BlockRecord] /\ x.at \in Nat /\ x.at + n \in Nat
    BY <1>5, <2>1 DEF Chained, HeldObject
  <2>5. /\ block' \in [DOMAIN blk -> BlockRecord]
        /\ block'[x.block].cap = blk[x.block].cap /\ block'[x.block].occupied = x.at + x.size
        /\ block'[x.block].pLastAlloc = x.at
        /\ \A q \in DOMAIN blk : q # x.block => block'[q] = blk[q]
    <3> DEFINE w == [blk[b] EXCEPT !.occupied = x.at + n, !.pLastAlloc = x.at]
    <3>1. block' = [blk EXCEPT ![b] = w]
      BY <1>6, <2>1, <2>4
    <3>2. /\ w \in BlockRecord /\ w.cap = blk[b].cap /\ w.occupied = x.at + n /\ w.pLastAlloc = x.at
      BY <2>1, <2>4 DEF BlockRecord
    <3> HIDE DEF w
    <3> QED
      BY <1>5, <2>1, <2>4, <3>1, <3>2
  <2>3. /\ Chained(With(live, o, x), block', ch)
        /\ DOMAIN block' = DOMAIN blk /\ \A q \in DOMAIN blk : block'[q].cap = blk[q].cap
        /\ \A p \in DOMAIN live : live[p].block = x.block => live[p].at < x.at
    BY <2>1, <2>2, <2>5, ChainedPlaced
  <2> QED
    BY <1>5, <2>3
<1>8. ASSUME NEW ss, Len(ss) \in 0..d, ScopesIn(live, block, m_pBlocks, ss)
      PROVE  ScopesIn(live', block', m_pBlocks', ss)
  <2>1. ScopesIn(live, blk, ch, ss)
    BY <1>3, <1>8
  <2>2. ch \in Seq(DOMAIN blk)
    BY <1>3 DEF Chained
  <2>3. Len(ss) \in Nat /\ x.depth \in Nat /\ x.depth >= Len(ss)
    BY <1>5, <1>8
  <2>4. ScopesIn(With(live, o, x), block', ch, ss)
    BY <1>7, <2>1, <2>2, <2>3, ScopesWith
  <2> QED
    BY <1>2, <2>4
<1>12. ScopesKept(d)
  BY <1>8 DEF ScopesKept
<1>9. \A p \in DOMAIN live : live[p].block = b => live[p].at < at
  BY <1>5, <1>7
<1>10. Chained(live', block', m_pBlocks')
  BY <1>2, <1>7
<1>11. live' = With(live, o, ArenaList!Object(b, at, n, d, role))
  BY <1>2 DEF x
<1> HIDE DEF at
<1> QED
  BY <1>4, <1>9, <1>10, <1>11, <1>12

(* The last object of a block resized where it is, within the block.        *)
LEMMA ChainedResized ==
    ASSUME NEW l, NEW blk, NEW ch, Chained(l, blk, ch),
           NEW o \in DOMAIN l, NEW x \in HeldObject, x.block = l[o].block, x.at = l[o].at,
           x.at = blk[x.block].pLastAlloc, 8 * (x.at + x.size) <= blk[x.block].cap,
           NEW blk1, blk1 \in [DOMAIN blk -> BlockRecord],
           blk1[x.block].cap = blk[x.block].cap, blk1[x.block].occupied = x.at + x.size,
           blk1[x.block].pLastAlloc = x.at,
           \A q \in DOMAIN blk : q # x.block => blk1[q] = blk[q]
    PROVE  /\ Chained(With(l, o, x), blk1, ch)
           /\ \A q \in DOMAIN blk : blk1[q].cap = blk[q].cap
<1> DEFINE occ == Occupied(blk)
           last == LastAlloc(blk)
           occ1 == Occupied(blk1)
           last1 == LastAlloc(blk1)
           b == x.block
<1>1. /\ blk \in [DOMAIN blk -> BlockRecord] /\ DOMAIN blk \subseteq Blocks
      /\ \A q \in DOMAIN blk : 8 * blk[q].occupied <= blk[q].cap
      /\ ch \in Seq(DOMAIN blk) /\ \A i, j \in 1..Len(ch) : ch[i] = ch[j] => i = j
      /\ HeldIn(l, occ, last)
  BY DEF Chained
<1>2. DOMAIN blk1 = DOMAIN blk /\ b \in DOMAIN blk
  BY ChainedOf
<1>3. \A q \in DOMAIN blk : blk1[q].cap = blk[q].cap /\ blk1[q].pLastAlloc = blk[q].pLastAlloc
  BY <1>2
<1>4. \A q \in DOMAIN blk1 : 8 * blk1[q].occupied <= blk1[q].cap
  BY <1>1, <1>2
<1>5. /\ DOMAIN occ = DOMAIN blk /\ last1 = last /\ b \in DOMAIN occ
      /\ last[b] = x.at /\ occ1 \in [DOMAIN occ -> Nat] /\ occ1[b] = x.at + x.size
      /\ \A q \in DOMAIN occ : q # b => occ1[q] = occ[q]
  <2>1. last1 = last
    BY <1>2, <1>3 DEF LastAlloc
  <2>2. /\ DOMAIN occ = DOMAIN blk /\ DOMAIN occ1 = DOMAIN blk
        /\ \A q \in DOMAIN blk : /\ occ[q] = blk[q].occupied /\ last[q] = blk[q].pLastAlloc
                                 /\ occ1[q] = blk1[q].occupied
        /\ occ1 = [q \in DOMAIN blk |-> occ1[q]]
    BY <1>2 DEF Occupied, LastAlloc
  <2> HIDE DEF occ, last, occ1, last1
  <2>3. \A q \in DOMAIN blk : occ1[q] \in Nat
    <3>1. \A q \in DOMAIN blk : blk1[q] \in BlockRecord
      OBVIOUS
    <3>2. \A r \in BlockRecord : r.occupied \in Nat
      BY DEF BlockRecord
    <3> QED
      BY <2>2, <3>1, <3>2
  <2>4. occ1 \in [DOMAIN blk -> Nat]
    BY <2>2, <2>3
  <2> QED
    BY <1>2, <2>1, <2>2, <2>4
<1> HIDE DEF occ, last, occ1, last1
<1>6. HeldIn(With(l, o, x), occ1, last)
  BY <1>1, <1>5, HeldResized
<1>7. Chained(With(l, o, x), blk1, ch)
  BY <1>1, <1>2, <1>4, <1>5, <1>6 DEF Chained, occ1, last1
<1> QED
  BY <1>3, <1>7

LEMMA ChainedShrunk ==
    ASSUME NEW l, NEW blk, NEW ch, Chained(l, blk, ch),
           NEW o \in DOMAIN l, NEW x \in HeldObject, x.block = l[o].block, x.at = l[o].at,
           x.size <= l[o].size
    PROVE  Chained(With(l, o, x), blk, ch)
<1>1. HeldIn(l, Occupied(blk), LastAlloc(blk))
  BY DEF Chained
<1>2. HeldIn(With(l, o, x), Occupied(blk), LastAlloc(blk))
  BY <1>1, HeldShrunk
<1> QED
  BY <1>2 DEF Chained

(* The invariant after a step that places, or replaces, one object.         *)
LEMMA ListPutKeeps ==
    ASSUME ArenaListInv, Chained(live', block', m_pBlocks'),
           ListsFor(live', lists', Len(scopes), Innermost'), Len(lists') = Len(lists),
           scopes' = scopes, m_pLCurrentDeleters' = m_pLCurrentDeleters,
           ScopesKept(Len(scopes))
    PROVE  ArenaListInv'
<1>1. /\ m_pLCurrentDeleters \in Nat /\ m_pLCurrentDeleters >= Len(lists)
      /\ scopes \in Seq([last : Blocks, occupied : Nat, pLastAlloc : Nat])
      /\ ScopesIn(live, block, m_pBlocks, scopes)
  BY DEF ArenaListInv
<1>2. Len(scopes) \in 0..Len(scopes)
  BY <1>1
<1>3. ScopesIn(live', block', m_pBlocks', scopes')
  BY <1>1, <1>2 DEF ScopesKept
<1> QED
  BY <1>1, <1>3 DEF ArenaListInv

LEMMA ListMalloc ==
    ASSUME ArenaSizes, ArenaListInv, ArenaList!malloc
    PROVE  ArenaListInv' /\ ScopesStay
<1> DEFINE o == ArenaList!Fresh
           d == Len(scopes)
<1>1. PICK n \in Nat \ {0} : ArenaList!Allocate(o, n, d, "data")
  BY DEF ArenaList!malloc, ArenaList!Depth, ArenaSizes
<1>2. /\ ArenaList!Unused # {} /\ ran' = <<>>
      /\ scopes' = scopes /\ lists' = lists /\ m_pLCurrentDeleters' = m_pLCurrentDeleters
  BY DEF ArenaList!malloc, ArenaList!NothingRan
<1>3. /\ ListsFor(live, lists, d, Innermost) /\ d \in Nat /\ Chained(live, block, m_pBlocks)
  BY DEF ArenaListInv
<1>4. "data" \in Role /\ o \in Objects /\ o \notin DOMAIN live
  BY <1>2, ListFreshIs DEF Role
<1> HIDE DEF o
<1>5. PICK b \in Nat, at \in Nat :
         LET x == ArenaList!Object(b, at, n, d, "data")
         IN /\ live' = With(live, o, x)
            /\ Chained(live', block', m_pBlocks')
            /\ ScopesKept(d)
  <2> HIDE DEF d
  <2> QED
    BY <1>1, <1>3, <1>4, ListAllocates
<1> DEFINE x == ArenaList!Object(b, at, n, d, "data")
<1>6. /\ live' = With(live, o, x) /\ Chained(live', block', m_pBlocks')
      /\ x.role = "data" /\ x.depth = d
      /\ ScopesKept(d)
  BY <1>5 DEF ArenaList!Object
<1> HIDE DEF x
<1>7. ListsFor(live', lists', d, Innermost') /\ Len(lists') = Len(lists)
  <2>1. x.role # "ptr" /\ x.depth <= d
    BY <1>3, <1>6
  <2>2. ListsFor(With(live, o, x), lists, d, Innermost)
    BY <1>3, <1>4, <2>1, ListsWithData
  <2>3. Innermost' = Innermost
    BY <1>2 DEF Innermost
  <2> QED
    BY <1>2, <1>6, <2>2, <2>3
<1>8. ArenaListInv'
  BY <1>2, <1>6, <1>7, ListPutKeeps
<1> QED
  BY <1>2, <1>3, <1>8 DEF ScopesStay

LEMMA ListInitPtr ==
    ASSUME ArenaSizes, ArenaListInv, ArenaList!initPtr
    PROVE  ArenaListInv' /\ ScopesStay
<1> DEFINE o == ArenaList!Fresh
           d == Len(scopes)
<1>1. PICK n \in Nat \ {0} : ArenaList!Allocate(o, n, d, "ptr")
  BY DEF ArenaList!initPtr, ArenaList!Depth, ArenaSizes
<1>2. /\ ArenaList!Unused # {} /\ ran' = <<>>
      /\ lists' = IF m_pLCurrentDeleters \in DOMAIN lists
                  THEN [lists EXCEPT ![m_pLCurrentDeleters] = <<o>> \o @] ELSE lists
      /\ scopes' = scopes /\ m_pLCurrentDeleters' = m_pLCurrentDeleters
  BY DEF ArenaList!initPtr, ArenaList!NothingRan, ArenaList!ListExists, ArenaList!Register
<1>3. /\ ListsFor(live, lists, d, Innermost) /\ d \in Nat /\ Chained(live, block, m_pBlocks)
      /\ lists \in Seq(Seq(Objects))
      /\ m_pLCurrentDeleters \in Nat /\ m_pLCurrentDeleters >= Len(lists)
  BY DEF ArenaListInv, ListsFor
<1>4. "ptr" \in Role /\ o \in Objects /\ o \notin DOMAIN live
  <2>1. ArenaList!Unused # {}
    BY <1>2
  <2> QED
    BY <2>1, ListFreshIs DEF Role
<1> HIDE DEF o
<1>5. PICK b \in Nat, at \in Nat :
         LET x == ArenaList!Object(b, at, n, d, "ptr")
         IN /\ live' = With(live, o, x)
            /\ Chained(live', block', m_pBlocks')
            /\ \A p \in DOMAIN live : live[p].block = b => live[p].at < at
            /\ ScopesKept(d)
  <2>1. d \in Nat /\ Chained(live, block, m_pBlocks)
    BY <1>3
  <2> HIDE DEF d
  <2> QED
    BY <1>1, <1>4, <2>1, ListAllocates
<1> DEFINE x == ArenaList!Object(b, at, n, d, "ptr")
<1>6. /\ live' = With(live, o, x) /\ Chained(live', block', m_pBlocks')
      /\ x.role = "ptr" /\ x.depth = d
      /\ \A p \in DOMAIN live : live[p].block = x.block => live[p].at < x.at
      /\ ScopesKept(d)
  BY <1>5 DEF ArenaList!Object
<1> HIDE DEF x
<1>7. Len(lists') = Len(lists)
  BY <1>2, <1>3
<1>8. ListsFor(live', lists', d, Innermost')
  <2>1. live' = With(live, o, x) /\ Innermost' = Innermost
    BY <1>2, <1>6 DEF Innermost
  <2>2. /\ x.role = "ptr" /\ x.depth = d
        /\ \A p \in DOMAIN live : live[p].block = x.block => live[p].at < x.at
    BY <1>6
  <2>3. CASE m_pLCurrentDeleters \in DOMAIN lists
    <3>1. /\ lists' = [lists EXCEPT ![m_pLCurrentDeleters] = <<o>> \o @]
          /\ m_pLCurrentDeleters = Len(lists)
      BY <1>2, <1>3, <2>3
    <3> QED
      BY <1>3, <1>4, <2>1, <2>2, <3>1, ListsWithPtr
  <2>4. CASE m_pLCurrentDeleters \notin DOMAIN lists
    <3>1. lists' = lists /\ \A k \in 1..Len(lists) : k \notin Innermost
      BY <1>2, <1>3, <2>4 DEF Innermost
    <3>2. x.depth <= d
      BY <1>3, <2>2
    <3>3. ListsFor(With(live, o, x), lists, d, Innermost)
      BY <1>3, <3>1, <3>2, ListsWithStray
    <3> QED
      BY <2>1, <3>1, <3>3
  <2> QED
    BY <2>3, <2>4
<1>9. ArenaListInv'
  <2>1. scopes' = scopes /\ m_pLCurrentDeleters' = m_pLCurrentDeleters
    BY <1>2
  <2> QED
    BY <1>6, <1>7, <1>8, <2>1, ListPutKeeps
<1> QED
  BY <1>2, <1>3, <1>9 DEF ScopesStay

LEMMA ListRealloc ==
    ASSUME ArenaSizes, ArenaListInv, NEW o \in DOMAIN live, NEW n \in Nat \ {0},
           ArenaList!realloc(o, n)
    PROVE  ArenaListInv' /\ ScopesStay
<1> DEFINE d == Len(scopes)
           b == live[o].block
           moved == [live[o] EXCEPT !.size = n, !.depth = d]
<1>1. /\ ListsFor(live, lists, d, Innermost) /\ d \in Nat /\ Chained(live, block, m_pBlocks)
      /\ block \in [DOMAIN block -> BlockRecord] /\ m_pBlocks \in Seq(DOMAIN block)
      /\ live \in [DOMAIN live -> HeldObject]
  BY DEF ArenaListInv, Chained, HeldIn
<1>2. /\ live[o].role = "data" /\ ran' = <<>>
      /\ scopes' = scopes /\ lists' = lists /\ m_pLCurrentDeleters' = m_pLCurrentDeleters
  BY DEF ArenaList!realloc, ArenaList!NothingRan
<1>3. /\ o \in Objects /\ live[o] \in HeldObject /\ b \in DOMAIN block
      /\ live[o].at \in Nat /\ live[o].size \in Nat \ {0}
  BY <1>1, ChainedOf
<1>4. /\ moved \in HeldObject /\ moved.block = b /\ moved.at = live[o].at /\ moved.size = n
      /\ moved.depth = d /\ moved.role = "data"
  BY <1>1, <1>2, <1>3 DEF HeldObject
<1>5. [live EXCEPT ![o].size = n, ![o].depth = d] = With(live, o, moved)
  BY <1>1 DEF With
<1>6. \E x : /\ live' = With(live, o, x) /\ x.role = "data" /\ x.depth = d
             /\ Chained(live', block', m_pBlocks')
             /\ ScopesKept(d)
  <2>1. CASE ArenaList!Bumps(o, n)
    <3>1. /\ live[o].at = block[b].pLastAlloc /\ 8 * (block[b].pLastAlloc + n) <= block[b].cap
          /\ block' = [block EXCEPT ![b].occupied = live[o].at + n]
          /\ live' = [live EXCEPT ![o].size = n, ![o].depth = d] /\ m_pBlocks' = m_pBlocks
      BY <2>1 DEF ArenaList!realloc, ArenaList!Bumps, ArenaList!Depth
    <3> DEFINE w == [block[b] EXCEPT !.occupied = live[o].at + n]
    <3>2. block' = [block EXCEPT ![b] = w]
      BY <1>1, <1>3, <3>1
    <3>3. /\ block[b] \in BlockRecord /\ live[o].at + n \in Nat
      BY <1>1, <1>3
    <3>4. /\ w \in BlockRecord /\ w.cap = block[b].cap /\ w.occupied = live[o].at + n
          /\ w.pLastAlloc = block[b].pLastAlloc
      BY <3>3 DEF BlockRecord
    <3> HIDE DEF w, b
    <3>5. /\ block' \in [DOMAIN block -> BlockRecord]
          /\ block'[b] = w /\ \A q \in DOMAIN block : q # b => block'[q] = block[q]
      BY <1>1, <1>3, <3>2, <3>4
    <3>6. live' = With(live, o, moved)
      BY <1>5, <3>1
    <3> HIDE DEF moved
    <3>7. /\ moved.at = block[moved.block].pLastAlloc
          /\ 8 * (moved.at + moved.size) <= block[moved.block].cap
          /\ block'[moved.block].cap = block[moved.block].cap
          /\ block'[moved.block].occupied = moved.at + moved.size
          /\ block'[moved.block].pLastAlloc = moved.at
          /\ \A q \in DOMAIN block : q # moved.block => block'[q] = block[q]
      BY <1>4, <3>1, <3>4, <3>5
    <3>8. moved \in HeldObject /\ moved.block = live[o].block /\ moved.at = live[o].at
      BY <1>4 DEF b
    <3>9. /\ Chained(With(live, o, moved), block', m_pBlocks)
          /\ \A q \in DOMAIN block : block'[q].cap = block[q].cap
      BY <1>1, <3>5, <3>7, <3>8, ChainedResized
    <3>10. ScopesKept(d)
      <4>1. ASSUME NEW ss, Len(ss) \in 0..d, ScopesIn(live, block, m_pBlocks, ss)
            PROVE  ScopesIn(live', block', m_pBlocks', ss)
        <5>1. /\ moved.depth \in Nat /\ Len(ss) \in Nat /\ moved.depth >= Len(ss)
              /\ DOMAIN block' = DOMAIN block
          BY <1>1, <1>4, <3>5, <4>1
        <5>2. ScopesIn(With(live, o, moved), block', m_pBlocks, ss)
          BY <1>1, <3>9, <4>1, <5>1, ScopesWith
        <5> QED
          BY <3>1, <3>6, <5>2
      <4> QED
        BY <4>1 DEF ScopesKept
    <3>11. Chained(live', block', m_pBlocks')
      BY <3>1, <3>6, <3>9
    <3> QED
      BY <1>4, <3>6, <3>10, <3>11
  <2>2. CASE ~ArenaList!Bumps(o, n) /\ n <= live[o].size
    <3>1. /\ live' = [live EXCEPT ![o].size = n, ![o].depth = d]
          /\ block' = block /\ m_pBlocks' = m_pBlocks
      BY <1>3, <2>2 DEF ArenaList!realloc, ArenaList!memoryVars, ArenaList!Depth
    <3>2. live' = With(live, o, moved)
      BY <1>5, <3>1
    <3>3. moved \in HeldObject /\ moved.block = live[o].block /\ moved.at = live[o].at
          /\ moved.size <= live[o].size
      BY <1>4, <2>2
    <3> HIDE DEF moved
    <3>4. Chained(With(live, o, moved), block, m_pBlocks)
      BY <1>1, <3>3, ChainedShrunk
    <3>5. ScopesKept(d)
      <4>1. ASSUME NEW ss, Len(ss) \in 0..d, ScopesIn(live, block, m_pBlocks, ss)
            PROVE  ScopesIn(live', block', m_pBlocks', ss)
        <5>1. moved.depth \in Nat /\ Len(ss) \in Nat /\ moved.depth >= Len(ss)
          BY <1>1, <1>4, <4>1
        <5>2. ScopesIn(With(live, o, moved), block, m_pBlocks, ss)
          BY <1>1, <4>1, <5>1, ScopesWith
        <5> QED
          BY <3>1, <3>2, <5>2
      <4> QED
        BY <4>1 DEF ScopesKept
    <3>6. Chained(live', block', m_pBlocks')
      BY <3>1, <3>2, <3>4
    <3> QED
      BY <1>4, <3>2, <3>5, <3>6
  <2>3. CASE ~ArenaList!Bumps(o, n) /\ n > live[o].size
    <3>1. ArenaList!Allocate(o, n, d, "data")
      BY <1>3, <2>3 DEF ArenaList!realloc, ArenaList!Depth
    <3>2. "data" \in Role
      BY DEF Role
    <3> HIDE DEF d
    <3>3. PICK c \in Nat, at \in Nat :
             LET x == ArenaList!Object(c, at, n, d, "data")
             IN /\ live' = With(live, o, x)
                /\ Chained(live', block', m_pBlocks')
                /\ ScopesKept(d)
      BY <1>1, <1>3, <3>1, <3>2, ListAllocates
    <3> DEFINE x == ArenaList!Object(c, at, n, d, "data")
    <3>4. x.role = "data" /\ x.depth = d
      BY DEF ArenaList!Object
    <3>5. /\ live' = With(live, o, x)
          /\ Chained(live', block', m_pBlocks')
          /\ ScopesKept(d)
      BY <3>3
    <3> HIDE DEF x
    <3> QED
      BY <3>4, <3>5
  <2> QED
    BY <1>3, <2>1, <2>2, <2>3
<1>7. PICK x :
         /\ live' = With(live, o, x) /\ x.role = "data" /\ x.depth = d
         /\ Chained(live', block', m_pBlocks')
         /\ ScopesKept(d)
  BY <1>6
<1> HIDE DEF moved, b
<1>8. ListsFor(live', lists', d, Innermost') /\ Len(lists') = Len(lists)
  <2>1. x.role # "ptr" /\ x.depth <= d /\ live[o].role # "ptr"
    BY <1>1, <1>2, <1>7
  <2>2. ListsFor(With(live, o, x), lists, d, Innermost)
    BY <1>1, <2>1, ListsWithData
  <2>3. Innermost' = Innermost
    BY <1>2 DEF Innermost
  <2> QED
    BY <1>2, <1>7, <2>2, <2>3
<1>9. ArenaListInv'
  BY <1>2, <1>7, <1>8, ListPutKeeps
<1> QED
  BY <1>1, <1>2, <1>9 DEF ScopesStay

(* Entering a scope captures the block at the head of the chain.            *)
LEMMA ListEnter ==
    ASSUME ArenaListInv, ArenaList!Enter
    PROVE  /\ ListsFor(live, lists', Len(scopes'), Innermost') /\ m_pLCurrentDeleters' = Len(lists')
           /\ Len(lists') \in Nat
           /\ Len(scopes') = Len(scopes) + 1 /\ Len(scopes) \in Nat
           /\ scopes' \in Seq([last : Blocks, occupied : Nat, pLastAlloc : Nat])
           /\ ScopesIn(live, block, m_pBlocks, scopes')
           /\ ran' = <<>>
<1> DEFINE captured == [last : Blocks, occupied : Nat, pLastAlloc : Nat]
           d == Len(scopes)
           b == m_pBlocks[1]
           st == [last |-> b, occupied |-> block[b].occupied, pLastAlloc |-> block[b].pLastAlloc]
<1>1. /\ Chained(live, block, m_pBlocks) /\ ListsFor(live, lists, d, Innermost)
      /\ scopes \in Seq(captured)
      /\ d \in Nat /\ ScopesIn(live, block, m_pBlocks, scopes)
      /\ m_pLCurrentDeleters \in Nat
  BY DEF ArenaListInv
<1>2. /\ block \in [DOMAIN block -> BlockRecord] /\ m_pBlocks \in Seq(DOMAIN block)
      /\ DOMAIN block \subseteq Blocks /\ live \in [DOMAIN live -> HeldObject]
      /\ \A q \in DOMAIN block : 8 * block[q].occupied <= block[q].cap
  BY <1>1 DEF Chained, HeldIn
<1>3. /\ m_pBlocks # <<>> /\ scopes' = Append(scopes, st) /\ lists' = Append(lists, <<>>)
      /\ m_pLCurrentDeleters' = Len(lists) + 1 /\ ran' = <<>>
  BY DEF ArenaList!Enter, ArenaList!ArenaListState, ArenaList!NothingRan
<1>4. 1 \in 1..Len(m_pBlocks) /\ b \in DOMAIN block
  BY <1>2, <1>3
<1> HIDE DEF b
<1>5. block[b] \in BlockRecord /\ b \in Blocks
  BY <1>2, <1>4
<1>6. /\ st \in captured /\ st.last = b /\ st.occupied = block[b].occupied
      /\ st.pLastAlloc = block[b].pLastAlloc
  BY <1>5 DEF BlockRecord
<1> HIDE DEF captured, st
<1>7. /\ scopes' \in Seq(captured) /\ Len(scopes') = d + 1 /\ scopes'[d + 1] = st
      /\ \A k \in 1..d : scopes'[k] = scopes[k]
  BY <1>1, <1>3, <1>6
<1>8. lists \in Seq(Seq(Objects)) /\ Len(lists) = d + 1
  BY <1>1 DEF ListsFor
<1>9. m_pLCurrentDeleters' = Len(lists') /\ Len(lists') \in Nat
  BY <1>3, <1>8
<1>10. ListsFor(live, Append(lists, <<>>), d + 1, Innermost')
  <2>1. \A k \in 1..d + 1 : k \in Innermost' => k \in Innermost
    BY <1>1, <1>3, <1>8 DEF Innermost
  <2> QED
    BY <1>1, <1>2, <2>1, ListsEnter
<1>11. Outlive(live, d + 1, st.last, st.occupied, st.pLastAlloc)
  <2>1. ASSUME NEW p \in DOMAIN live, live[p].block = b
        PROVE  LiesBelow(live[p], block[b].occupied, block[b].pLastAlloc)
    BY <1>1, <2>1, ChainedOf
  <2> QED
    BY <1>6, <2>1 DEF Outlive
<1>12. CapturedIn(live, block, m_pBlocks, st, d + 1)
  <2>1. \A j \in 1..Len(m_pBlocks) : ~(j < 1)
    OBVIOUS
  <2>2. /\ m_pBlocks[1] = st.last /\ 8 * st.occupied <= block[st.last].cap
        /\ st.last \in DOMAIN block
    BY <1>2, <1>4, <1>6 DEF b
  <2>3. ASSUME NEW k \in 1..Len(m_pBlocks), m_pBlocks[k] = st.last
        PROVE  \A j \in 1..Len(m_pBlocks) : ~(j < k)
    <3>1. k = 1
      BY <1>1, <1>4, <2>2, <2>3 DEF Chained
    <3> QED
      BY <2>1, <3>1
  <2>4. Outlive(live, d + 1, st.last, st.occupied, st.pLastAlloc)
    BY <1>11
  <2> QED
    BY <2>2, <2>3, <2>4 DEF CapturedIn
<1>15. ASSUME NEW k \in 1..Len(scopes')
       PROVE  CapturedIn(live, block, m_pBlocks, scopes'[k], k)
  <2>1. CASE k \in 1..d
    BY <1>1, <1>7, <2>1 DEF ScopesIn
  <2>2. CASE k \notin 1..d
    <3>1. k = d + 1
      BY <1>1, <1>7, <2>2
    <3> QED
      BY <1>7, <1>12, <3>1
  <2> QED
    BY <2>1, <2>2
<1>16. ASSUME NEW j \in 1..Len(scopes'), NEW k \in 1..Len(scopes'), j < k
       PROVE  Behind(m_pBlocks, scopes'[j], scopes'[k])
  <2>1. CASE k \in 1..d
    <3>1. /\ j \in 1..d /\ scopes'[j] = scopes[j] /\ scopes'[k] = scopes[k]
      BY <1>1, <1>7, <1>16, <2>1
    <3> QED
      BY <1>1, <1>16, <2>1, <3>1 DEF ScopesIn
  <2>2. CASE k \notin 1..d
    <3>1. scopes'[k] = st
      BY <1>1, <1>7, <2>2
    <3>2. m_pBlocks[1] = st.last
      BY <1>6 DEF b
    <3>3. ASSUME NEW i \in 1..Len(m_pBlocks), NEW n \in 1..Len(m_pBlocks), m_pBlocks[n] = st.last
          PROVE  n <= i
      <4>1. n = 1
        BY <1>1, <1>4, <3>2, <3>3 DEF Chained
      <4> QED
        BY <4>1
    <3> QED
      BY <3>1, <3>3 DEF Behind
  <2> QED
    BY <2>1, <2>2
<1>13. Len(scopes') = d + 1 /\ ScopesIn(live, block, m_pBlocks, scopes')
  BY <1>7, <1>15, <1>16 DEF ScopesIn
<1>14. ListsFor(live, lists', Len(scopes'), Innermost')
  BY <1>3, <1>7, <1>10
<1> QED
  BY <1>1, <1>3, <1>7, <1>9, <1>13, <1>14 DEF captured

LEMMA ListScopeEntered ==
    ASSUME ArenaListInv, ArenaList!ArenaListScope
    PROVE  ArenaListInv' /\ ScopesStay
<1>1. ArenaList!Enter /\ live' = live /\ block' = block /\ m_pBlocks' = m_pBlocks
  BY DEF ArenaList!ArenaListScope, ArenaList!memoryVars
<1>2. /\ ListsFor(live, lists', Len(scopes'), Innermost') /\ m_pLCurrentDeleters' = Len(lists')
      /\ Len(lists') \in Nat
      /\ scopes' \in Seq([last : Blocks, occupied : Nat, pLastAlloc : Nat])
      /\ ScopesIn(live, block, m_pBlocks, scopes')
      /\ ran' = <<>> /\ Len(scopes') = Len(scopes) + 1 /\ Len(scopes) \in Nat
  BY <1>1, ListEnter
<1>3. Chained(live, block, m_pBlocks)
  BY DEF ArenaListInv
<1>4. Chained(live', block', m_pBlocks')
  BY <1>1, <1>3
<1>5. ScopesIn(live', block', m_pBlocks', scopes')
  BY <1>1, <1>2
<1>6. ArenaListInv'
  BY <1>1, <1>2, <1>4, <1>5 DEF ArenaListInv
<1> QED
  BY <1>2, <1>6 DEF ScopesStay

LEMMA ListRestoreAfterScope ==
    ASSUME ArenaSizes, ArenaListInv, ArenaList!restoreAfterScope
    PROVE  ArenaListInv' /\ ScopesStay
<1> DEFINE d == Len(scopes) + 1
           o == ArenaList!Fresh
<1>1. ArenaList!Unused # {} /\ ArenaList!Enter /\ ArenaList!Allocate(o, 1, d, "scope")
  BY DEF ArenaList!restoreAfterScope, ArenaList!Depth
<1>2. /\ ListsFor(live, lists', Len(scopes'), Innermost') /\ m_pLCurrentDeleters' = Len(lists')
      /\ Len(lists') \in Nat /\ Len(scopes') = d /\ d \in Nat
      /\ scopes' \in Seq([last : Blocks, occupied : Nat, pLastAlloc : Nat])
      /\ ScopesIn(live, block, m_pBlocks, scopes')
      /\ ran' = <<>> /\ Len(scopes') >= Len(scopes)
  BY <1>1, ListEnter
<1>3. Chained(live, block, m_pBlocks)
  BY DEF ArenaListInv
<1>4. o \in Objects /\ o \notin DOMAIN live /\ "scope" \in Role /\ 1 \in Nat \ {0}
  BY <1>1, ListFreshIs DEF Role
<1> HIDE DEF o, d
<1>5. PICK b \in Nat, at \in Nat :
         LET x == ArenaList!Object(b, at, 1, d, "scope")
         IN /\ live' = With(live, o, x)
            /\ Chained(live', block', m_pBlocks')
            /\ ScopesKept(d)
  <2>1. d \in Nat
    BY <1>2
  <2> QED
    BY <1>1, <1>3, <1>4, <2>1, ListAllocates
<1> DEFINE x == ArenaList!Object(b, at, 1, d, "scope")
<1>6. /\ live' = With(live, o, x) /\ Chained(live', block', m_pBlocks')
      /\ x.role = "scope" /\ x.depth = d
      /\ ScopesKept(d)
  BY <1>5 DEF ArenaList!Object
<1> HIDE DEF x
<1>7. ListsFor(live', lists', Len(scopes'), Innermost')
  <2>1. x.role # "ptr" /\ x.depth <= Len(scopes')
    BY <1>2, <1>6
  <2>2. ListsFor(With(live, o, x), lists', Len(scopes'), Innermost')
    BY <1>2, <1>4, <2>1, ListsWithData
  <2> QED
    BY <1>6, <2>2
<1>8. ScopesIn(live', block', m_pBlocks', scopes')
  <2>1. Len(scopes') \in 0..d
    BY <1>2
  <2> QED
    BY <1>2, <1>6, <2>1 DEF ScopesKept
<1>9. ArenaListInv'
  BY <1>2, <1>6, <1>7, <1>8 DEF ArenaListInv
<1> QED
  BY <1>2, <1>9 DEF ScopesStay

(* The innermost scope ends: the captured block is the only one left in the *)
(* chain, and those that were before it are given back.                     *)
LEMMA ListEndScope ==
    ASSUME ArenaListInv, ArenaList!EndScope
    PROVE  /\ ArenaListInv' /\ Len(scopes') < Len(scopes)
           /\ ArenaList!ListExists => Arena!DiesOnce
<1> DEFINE captured == [last : Blocks, occupied : Nat, pLastAlloc : Nat]
           d == Len(scopes)
           st == scopes[d]
           c == st.last
           S == {p \in DOMAIN live : live[p].depth < d}
           m == [p \in S |-> live[p]]
           cleared == ArenaList!Deleted
           I == {i \in 1..Len(m_pBlocks) : m_pBlocks[i] = c}
           first == ArenaList!SelectInSeq(m_pBlocks, LAMBDA b : b = c)
           newer == {m_pBlocks[i] : i \in 1..first - 1}
           occ1 == Occupied(block')
           last1 == LastAlloc(block')
<1>1. /\ Chained(live, block, m_pBlocks) /\ ListsFor(live, lists, d, Innermost)
      /\ m_pLCurrentDeleters \in Nat /\ m_pLCurrentDeleters >= Len(lists)
      /\ scopes \in Seq(captured) /\ d \in Nat
      /\ ScopesIn(live, block, m_pBlocks, scopes)
  BY DEF ArenaListInv
<1>2. lists \in Seq(Seq(Objects)) /\ Len(lists) = d + 1
  BY <1>1 DEF ListsFor
<1>3. scopes # <<>> /\ cleared = IF m_pLCurrentDeleters \in DOMAIN lists
                                THEN [lists EXCEPT ![m_pLCurrentDeleters] = <<>>] ELSE lists
  BY DEF ArenaList!EndScope, ArenaList!Deleted, ArenaList!ListExists
<1>4. d \in 1..d /\ d > 0
  BY <1>1, <1>3
<1>5. /\ m_pLCurrentDeleters' = m_pLCurrentDeleters /\ m_pBlocks' = <<c>>
      /\ scopes' = SubSeq(scopes, 1, d - 1)
  BY <1>4 DEF ArenaList!EndScope, ArenaList!Depth, ArenaList!Outer
<1>6. live' = m
  BY DEF ArenaList!EndScope, ArenaList!Outliving, ArenaList!Restrict, ArenaList!Depth
<1>7. lists' = SubSeq(cleared, 1, Len(cleared) - 1)
  BY DEF ArenaList!EndScope, ArenaList!Outer
<1> DEFINE kept == [b \in DOMAIN block \ newer |-> block[b]]
<1>8. block' = [kept EXCEPT ![c].occupied = st.occupied, ![c].pLastAlloc = st.pLastAlloc]
  BY DEF ArenaList!EndScope, ArenaList!Depth, ArenaList!Restrict
<1>9. st.occupied \in Nat /\ st.pLastAlloc \in Nat
  <2>1. st \in captured
    <3> HIDE DEF captured
    <3> QED
      BY <1>1, <1>4
  <2> QED
    BY <2>1
<1>10. PICK k \in 1..Len(m_pBlocks) :
          /\ m_pBlocks[k] = c /\ 8 * st.occupied <= block[c].cap
          /\ Outlive(live, d, c, st.occupied, st.pLastAlloc)
          /\ \A j \in 1..Len(m_pBlocks) : j < k =>
                \A o \in DOMAIN live : live[o].block = m_pBlocks[j] => live[o].depth >= d
  <2>1. CapturedIn(live, block, m_pBlocks, st, d)
    BY <1>1, <1>4 DEF ScopesIn
  <2>2. PICK k \in DOMAIN m_pBlocks : m_pBlocks[k] = c
    <3>1. c \in ArenaList!ToSet(m_pBlocks)
      BY DEF ArenaList!EndScope, ArenaList!Depth
    <3> HIDE DEF c
    <3> QED
      BY <3>1 DEF ArenaList!ToSet
  <2>3. k \in 1..Len(m_pBlocks)
    BY <1>1, <2>2 DEF Chained
  <2> HIDE DEF st, d
  <2> QED
    BY <2>1, <2>2, <2>3 DEF CapturedIn
<1>11. /\ block \in [DOMAIN block -> BlockRecord] /\ DOMAIN block \subseteq Blocks
       /\ \A b \in DOMAIN block : 8 * block[b].occupied <= block[b].cap
       /\ m_pBlocks \in Seq(DOMAIN block)
       /\ \A i, j \in 1..Len(m_pBlocks) : m_pBlocks[i] = m_pBlocks[j] => i = j
       /\ HeldIn(live, Occupied(block), LastAlloc(block))
  BY <1>1 DEF Chained
<1>12. first = k
  <2>1. I = {k}
    BY <1>10, <1>11
  <2>2. first = IF I # {} THEN ArenaList!Min(I) ELSE 0
    BY DEF ArenaList!SelectInSeq
  <2> HIDE DEF I, first
  <2>3. ArenaList!Min(I) = k
    BY <2>1 DEF ArenaList!Min
  <2> QED
    BY <2>1, <2>2, <2>3
<1>13. ListsFor(m, lists', d - 1, Innermost')
  <2>1. live \in [DOMAIN live -> HeldObject]
    BY <1>11 DEF HeldIn
  <2>2. /\ cleared \in Seq(Seq(Objects)) /\ Len(cleared) = Len(lists)
        /\ \A i \in 1..d : cleared[i] = lists[i]
    <3> HIDE DEF cleared, d
    <3> QED
      BY <1>1, <1>2, <1>3, ListsCleared
  <2>4. \A i \in 1..d : i \in Innermost' => i \in Innermost
    BY <1>5 DEF Innermost
  <2> HIDE DEF cleared, d
  <2>3. ListsFor([p \in {o \in DOMAIN live : live[o].depth < d} |-> live[p]],
                 SubSeq(cleared, 1, Len(cleared) - 1), d - 1, Innermost')
    BY <1>1, <1>4, <2>1, <2>2, <2>4, ListsEnd
  <2> QED
    BY <1>7, <2>3
<1>14. /\ scopes' \in Seq(captured) /\ Len(scopes') = d - 1
       /\ \A i \in 1..d - 1 : scopes'[i] = scopes[i] /\ i \in 1..d /\ i < d
  <2>1. scopes \in Seq(captured) /\ d \in 1..Len(scopes) /\ scopes' = SubSeq(scopes, 1, d - 1)
    BY <1>1, <1>4, <1>5
  <2> HIDE DEF captured, d
  <2> QED
    BY <2>1
<1>15. S \in SUBSET DOMAIN live /\ \A p \in S : live[p].depth < d
  OBVIOUS
<1> HIDE DEF captured, first, c, st, S, m, cleared, occ1, last1
<1>16. c \in DOMAIN block /\ c \notin newer
  <2>1. c \in DOMAIN block
    BY <1>10, <1>11
  <2>2. ASSUME c \in newer PROVE FALSE
    <3>1. PICK i \in 1..first - 1 : c = m_pBlocks[i]
      BY <2>2
    <3>2. i \in 1..Len(m_pBlocks) /\ i # k
      BY <1>12, <3>1
    <3> QED
      BY <1>10, <1>11, <3>1, <3>2
  <2> QED
    BY <2>1, <2>2
<1>17. \A p \in S : live[p].block \in DOMAIN block /\ live[p].block \notin newer
  <2>1. ASSUME NEW p \in S, live[p].block \in newer PROVE FALSE
    <3>1. PICK i \in 1..first - 1 : live[p].block = m_pBlocks[i]
      BY <2>1
    <3>2. i \in 1..Len(m_pBlocks) /\ i < k
      BY <1>12, <3>1
    <3>3. p \in DOMAIN live /\ live[p].depth < d
      BY <1>15
    <3>4. live[p].depth >= d
      BY <1>10, <3>1, <3>2, <3>3
    <3>5. live[p].depth \in Nat
      BY <1>1, <3>3, ChainedOf
    <3> QED
      BY <1>1, <3>3, <3>4, <3>5
  <2> QED
    BY <1>1, <1>15, <2>1, ChainedOf
<1> HIDE DEF newer
<1> DEFINE w == [block[c] EXCEPT !.occupied = st.occupied, !.pLastAlloc = st.pLastAlloc]
<1>18. /\ w \in BlockRecord /\ w.cap = block[c].cap /\ w.occupied = st.occupied
       /\ w.pLastAlloc = st.pLastAlloc
  <2>1. block[c] \in BlockRecord
    BY <1>11, <1>16
  <2> QED
    BY <1>9, <2>1 DEF BlockRecord
<1>19. DOMAIN kept = DOMAIN block \ newer /\ \A b \in DOMAIN kept : kept[b] = block[b]
  OBVIOUS
<1>20. block' = [kept EXCEPT ![c] = w]
  BY <1>8, <1>16, <1>19
<1> HIDE DEF kept, w
<1>21. /\ DOMAIN block' = DOMAIN block \ newer /\ block'[c] = w
       /\ \A b \in DOMAIN block' : b # c => block'[b] = block[b]
       /\ block' \in [DOMAIN block' -> BlockRecord]
  <2>1. kept \in [DOMAIN kept -> BlockRecord]
    <3>1. \A b \in DOMAIN kept : kept[b] \in BlockRecord
      BY <1>11, <1>19
    <3>2. kept = [b \in DOMAIN kept |-> kept[b]]
      BY DEF kept
    <3> QED
      BY <3>1, <3>2
  <2> QED
    BY <1>16, <1>18, <1>19, <1>20, <2>1
<1>22. \A b \in DOMAIN block' : 8 * block'[b].occupied <= block'[b].cap
  BY <1>10, <1>11, <1>18, <1>21
<1>23. /\ occ1 \in [DOMAIN occ1 -> Nat] /\ last1 \in [DOMAIN occ1 -> Int]
       /\ DOMAIN occ1 = DOMAIN block'
       /\ \A b \in DOMAIN block' : occ1[b] = block'[b].occupied /\ last1[b] = block'[b].pLastAlloc
  BY <1>21 DEF occ1, last1, Occupied, LastAlloc, BlockRecord
<1>24. HeldIn(m, occ1, last1)
  <2>1. ASSUME NEW p \in S
        PROVE  live[p].block \in DOMAIN occ1
               /\ LiesBelow(live[p], occ1[live[p].block], last1[live[p].block])
    <3>1. p \in DOMAIN live /\ live[p].depth < d /\ live[p].block \in DOMAIN block'
      BY <1>15, <1>17, <1>21
    <3>2. CASE live[p].block = c
      <4>1. LiesBelow(live[p], st.occupied, st.pLastAlloc)
        BY <1>10, <3>1, <3>2 DEF Outlive
      <4> QED
        BY <1>18, <1>21, <1>23, <3>1, <3>2, <4>1
    <3>3. CASE live[p].block # c
      <4>1. LiesBelow(live[p], block[live[p].block].occupied, block[live[p].block].pLastAlloc)
        BY <1>1, <3>1, ChainedOf
      <4> QED
        BY <1>21, <1>23, <3>1, <3>3, <4>1
    <3> QED
      BY <3>2, <3>3
  <2> QED
    BY <1>11, <1>15, <1>23, <2>1, HeldKept DEF m
<1>25. Chained(live', block', m_pBlocks')
  <2>1. /\ m_pBlocks' \in Seq(DOMAIN block')
        /\ \A i, j \in 1..Len(m_pBlocks') : m_pBlocks'[i] = m_pBlocks'[j] => i = j
    BY <1>5, <1>16, <1>21
  <2>2. DOMAIN block' \subseteq Blocks
    BY <1>11, <1>21
  <2> QED
    BY <1>6, <1>21, <1>22, <1>24, <2>1, <2>2 DEF Chained, occ1, last1
<1>29. Len(lists') = d
  <2>1. Len(lists') = (d - 1) + 1
    BY <1>13 DEF ListsFor
  <2> QED
    BY <1>1, <2>1
<1>26. ASSUME ArenaList!ListExists
       PROVE  /\ ran' = lists[Len(lists)] /\ lists[Len(lists)] \in Seq(Objects)
              /\ Lists(live, lists[Len(lists)], d)
  <2>1. m_pLCurrentDeleters = Len(lists)
    BY <1>1, <1>2, <1>26 DEF ArenaList!ListExists
  <2>2. Len(lists) \in 1..Len(lists) /\ Len(lists) - 1 = d
    BY <1>1, <1>2
  <2>3. Lists(live, lists[Len(lists)], Len(lists) - 1)
    BY <1>1, <1>2, <1>4, <2>1, <2>2 DEF ListsFor, Innermost
  <2>4. ran' = lists[m_pLCurrentDeleters]
    BY <1>26 DEF ArenaList!EndScope, ArenaList!RunsDeleters
  <2> QED
    BY <1>1, <1>2, <2>1, <2>2, <2>3, <2>4
<1>30. ASSUME NEW i \in 1..d - 1
       PROVE  CapturedIn(m, block', <<c>>, scopes[i], i)
  <2> DEFINE s == scopes[i]
  <2>1. CapturedIn(live, block, m_pBlocks, s, i) /\ Behind(m_pBlocks, s, st)
    <3>1. i \in 1..d /\ i < d
      BY <1>14
    <3> QED
      BY <1>1, <1>4, <3>1 DEF ScopesIn, st
  <2> HIDE DEF s, d
  <2>2. s.last \in DOMAIN block'
    <3>1. s.last \in DOMAIN block
      BY <2>1 DEF CapturedIn
    <3>2. ASSUME s.last \in newer PROVE FALSE
      <4>1. PICK j \in 1..first - 1 : s.last = m_pBlocks[j]
        BY <3>2 DEF newer
      <4>2. j \in 1..Len(m_pBlocks) /\ j < k
        BY <1>12, <4>1
      <4>3. k <= j
        BY <1>10, <2>1, <4>1, <4>2 DEF Behind, c
      <4> QED
        BY <4>2, <4>3
    <3> QED
      BY <1>21, <3>1, <3>2
  <2>3. ASSUME s.last = c
        PROVE  8 * s.occupied <= block'[c].cap /\ Outlive(m, i, c, s.occupied, s.pLastAlloc)
    <3>1. 8 * s.occupied <= block[c].cap /\ Outlive(live, i, c, s.occupied, s.pLastAlloc)
      BY <1>10, <2>1, <2>3 DEF CapturedIn
    <3>2. Outlive(m, i, c, s.occupied, s.pLastAlloc)
      BY <1>15, <3>1, OutliveKept DEF m
    <3> QED
      BY <1>18, <1>21, <3>1, <3>2
  <2>4. ASSUME NEW n \in 1..Len(<<c>>), <<c>>[n] = s.last
        PROVE  s.last = c /\ \A j \in 1..Len(<<c>>) : ~(j < n)
    BY <2>4
  <2>5. CapturedIn(m, block', <<c>>, s, i)
    BY <2>2, <2>3, <2>4 DEF CapturedIn
  <2> QED
    BY <2>5 DEF s
<1>31. ScopesIn(live', block', m_pBlocks', scopes')
  <2>1. \A s, t : Behind(<<c>>, s, t)
    BY DEF Behind
  <2>2. ASSUME NEW i \in 1..Len(scopes')
        PROVE  CapturedIn(m, block', <<c>>, scopes'[i], i)
    <3>1. i \in 1..d - 1 /\ scopes'[i] = scopes[i]
      BY <1>14
    <3> QED
      BY <1>30, <3>1
  <2> QED
    BY <1>5, <1>6, <2>1, <2>2 DEF ScopesIn
<1>27. ArenaListInv'
  <2>1. ListsFor(live', lists', Len(scopes'), Innermost')
    BY <1>6, <1>13, <1>14
  <2>2. m_pLCurrentDeleters' \in Nat /\ m_pLCurrentDeleters' >= Len(lists')
    BY <1>1, <1>2, <1>5, <1>29
  <2> QED
    BY <1>14, <1>25, <1>31, <2>1, <2>2 DEF ArenaListInv, captured
<1>28. ASSUME ArenaList!ListExists PROVE Arena!DiesOnce
  <2>1. ASSUME NEW p \in DOMAIN live
        PROVE  live[p].at \in Int /\ (p \notin DOMAIN live' <=> live[p].depth = d)
    <3>1. live[p].at \in Nat /\ live[p].depth \in Nat
      BY <1>1, ChainedOf
    <3>2. live[p].depth <= d
      BY <1>1 DEF ListsFor
    <3>3. p \in DOMAIN live' <=> live[p].depth < d
      BY <1>6 DEF m, S
    <3> QED
      BY <1>1, <3>1, <3>2, <3>3
  <2> HIDE DEF d
  <2>2. Lists(live, ran', d) /\ ran' \in Seq(Objects)
    BY <1>26, <1>28
  <2> QED
    BY <2>1, <2>2, ListedDie
<1>32. Len(scopes') < d
  BY <1>1, <1>14
<1> QED
  BY <1>27, <1>28, <1>32

(* The invariant after a step of which only the memory matters, outside of  *)
(* any scope.                                                               *)
LEMMA ListOutsideKeeps ==
    ASSUME ArenaListInv, scopes = <<>>, Chained(live', block', m_pBlocks'),
           \A o \in DOMAIN live' : o \in DOMAIN live /\ live'[o] = live[o],
           ran' = <<>>, scopes' = scopes, lists' = lists,
           m_pLCurrentDeleters' = m_pLCurrentDeleters
    PROVE  ArenaListInv' /\ ScopesStay
<1>1. Len(scopes) = 0 /\ ListsFor(live, lists, 0, Innermost)
  BY DEF ArenaListInv
<1>2. ListsFor(live', lists', 0, Innermost')
  <2>1. /\ lists \in Seq(Seq(Objects)) /\ Len(lists) = 0 + 1
        /\ \A o \in DOMAIN live' : live'[o].depth <= 0
    BY <1>1 DEF ListsFor
  <2>2. \A k \in 1..Len(lists) : k \notin Innermost'
    BY <2>1 DEF Innermost
  <2> QED
    BY <2>1, <2>2 DEF ListsFor
<1>3. ArenaListInv'
  <2>1. Len(scopes') = 0 /\ ListsFor(live', lists', Len(scopes'), Innermost')
    BY <1>1, <1>2
  <2>2. /\ m_pLCurrentDeleters' \in Nat /\ m_pLCurrentDeleters' >= Len(lists')
        /\ scopes' \in Seq([last : Blocks, occupied : Nat, pLastAlloc : Nat])
    BY DEF ArenaListInv
  <2>3. ScopesIn(live', block', m_pBlocks', scopes')
    BY <2>1 DEF ScopesIn
  <2> QED
    BY <2>1, <2>2, <2>3 DEF ArenaListInv
<1> QED
  BY <1>1, <1>3 DEF ScopesStay

(* Nothing is held.                                                         *)
LEMMA HeldNone ==
    ASSUME NEW l, l = <<>>, NEW blk, blk \in [DOMAIN blk -> BlockRecord]
    PROVE  HeldIn(l, Occupied(blk), LastAlloc(blk))
BY DEF HeldIn, Occupied, LastAlloc, BlockRecord

LEMMA ListReset ==
    ASSUME ArenaListInv, ArenaList!reset
    PROVE  ArenaListInv' /\ ScopesStay
<1> DEFINE P == ArenaList!ToSet(m_pBlocks)
<1>1. /\ scopes = <<>>
      /\ block' = [b \in DOMAIN block |->
                      IF b \in P THEN [block[b] EXCEPT !.occupied = 0, !.pLastAlloc = 0]
                      ELSE block[b]]
      /\ live' = <<>> /\ m_pBlocks' = m_pBlocks /\ scopes' = scopes /\ lists' = lists
      /\ m_pLCurrentDeleters' = m_pLCurrentDeleters /\ ran' = <<>>
  BY DEF ArenaList!reset, ArenaList!NothingRan
<1>2. /\ block \in [DOMAIN block -> BlockRecord] /\ DOMAIN block \subseteq Blocks
      /\ \A b \in DOMAIN block : 8 * block[b].occupied <= block[b].cap
      /\ m_pBlocks \in Seq(DOMAIN block)
      /\ \A i, j \in 1..Len(m_pBlocks) : m_pBlocks[i] = m_pBlocks[j] => i = j
  BY DEF ArenaListInv, Chained
<1> HIDE DEF P
<1>3. DOMAIN block' = DOMAIN block
  BY <1>1
<1>4. ASSUME NEW b \in DOMAIN block
      PROVE  block'[b] \in BlockRecord /\ 8 * block'[b].occupied <= block'[b].cap
  <2>1. block[b] \in BlockRecord /\ 8 * block[b].occupied <= block[b].cap
    BY <1>2
  <2> DEFINE w == [block[b] EXCEPT !.occupied = 0, !.pLastAlloc = 0]
  <2>2. w \in BlockRecord /\ w.occupied = 0 /\ w.cap \in Nat
    BY <2>1 DEF BlockRecord
  <2>3. block'[b] = IF b \in P THEN w ELSE block[b]
    BY <1>1
  <2> HIDE DEF w
  <2> QED
    BY <2>1, <2>2, <2>3
<1>5. block' \in [DOMAIN block' -> BlockRecord]
  <2>1. block' = [b \in DOMAIN block |-> block'[b]]
    BY <1>1
  <2> QED
    BY <1>3, <1>4, <2>1
<1>6. live' = <<>> /\ DOMAIN live' = {}
  <2>1. live' = <<>>
    BY <1>1
  <2> QED
    BY <2>1
<1>7. HeldIn(live', Occupied(block'), LastAlloc(block'))
  BY <1>5, <1>6, HeldNone
<1>8. Chained(live', block', m_pBlocks')
  <2>1. /\ m_pBlocks' \in Seq(DOMAIN block') /\ DOMAIN block' \subseteq Blocks
        /\ \A i, j \in 1..Len(m_pBlocks') : m_pBlocks'[i] = m_pBlocks'[j] => i = j
    BY <1>1, <1>2, <1>3
  <2>2. \A b \in DOMAIN block' : 8 * block'[b].occupied <= block'[b].cap
    BY <1>3, <1>4
  <2> QED
    BY <1>5, <1>7, <2>1, <2>2 DEF Chained
<1> QED
  BY <1>1, <1>6, <1>8, ListOutsideKeeps

(* Blocks are given back, with what lies in them.                           *)
LEMMA ChainedCut ==
    ASSUME NEW l, NEW blk, NEW ch, Chained(l, blk, ch), NEW F,
           NEW S \in SUBSET DOMAIN l, \A o \in S : l[o].block \notin F,
           NEW ch1, ch1 \in Seq(DOMAIN blk \ F),
           \A i, j \in 1..Len(ch1) : ch1[i] = ch1[j] => i = j
    PROVE  Chained([o \in S |-> l[o]], [b \in DOMAIN blk \ F |-> blk[b]], ch1)
<1> DEFINE D == DOMAIN blk \ F
           blk1 == [b \in D |-> blk[b]]
           m == [o \in S |-> l[o]]
           occ1 == Occupied(blk1)
           last1 == LastAlloc(blk1)
<1>1. /\ blk \in [DOMAIN blk -> BlockRecord] /\ DOMAIN blk \subseteq Blocks
      /\ \A b \in DOMAIN blk : 8 * blk[b].occupied <= blk[b].cap
      /\ HeldIn(l, Occupied(blk), LastAlloc(blk))
  BY DEF Chained
<1>2. DOMAIN blk1 = D /\ \A b \in D : blk1[b] = blk[b] /\ b \in DOMAIN blk
  OBVIOUS
<1>3. blk1 \in [D -> BlockRecord]
  BY <1>1
<1>4. S \in SUBSET DOMAIN l /\ \A o \in S : l[o].block \notin F
  OBVIOUS
<1>5. \A b \in DOMAIN blk : b \notin F => b \in D
  OBVIOUS
<1> HIDE DEF blk1, D
<1>6. /\ occ1 \in [DOMAIN occ1 -> Nat] /\ last1 \in [DOMAIN occ1 -> Int] /\ DOMAIN occ1 = D
      /\ \A b \in D : occ1[b] = blk1[b].occupied /\ last1[b] = blk1[b].pLastAlloc
  BY <1>2, <1>3 DEF Occupied, LastAlloc, BlockRecord
<1> HIDE DEF occ1, last1
<1>7. ASSUME NEW o \in S
      PROVE  l[o].block \in DOMAIN occ1 /\ LiesBelow(l[o], occ1[l[o].block], last1[l[o].block])
  <2>1. o \in DOMAIN l /\ l[o].block \notin F
    BY <1>4
  <2>2. /\ l[o].block \in DOMAIN blk
        /\ LiesBelow(l[o], blk[l[o].block].occupied, blk[l[o].block].pLastAlloc)
    BY <2>1, ChainedOf
  <2>3. l[o].block \in D
    BY <1>5, <2>1, <2>2
  <2> QED
    BY <1>2, <1>6, <2>2, <2>3
<1>8. HeldIn(m, occ1, last1)
  BY <1>1, <1>4, <1>6, <1>7, HeldKept
<1>9. \A b \in D : 8 * blk1[b].occupied <= blk1[b].cap
  BY <1>1, <1>2
<1> HIDE DEF m
<1>10. D \subseteq Blocks /\ ch1 \in Seq(D)
  BY <1>1 DEF D
<1>11. Chained(m, blk1, ch1)
  BY <1>2, <1>3, <1>8, <1>9, <1>10 DEF Chained, occ1, last1
<1> QED
  BY <1>11 DEF m, blk1, D

LEMMA ListShrinkToFirstBlock ==
    ASSUME ArenaListInv, ArenaList!shrinkToFirstBlock
    PROVE  ArenaListInv' /\ ScopesStay
<1> DEFINE n == Len(m_pBlocks)
           front == SubSeq(m_pBlocks, 1, n - 1)
           F == ArenaList!ToSet(front)
           S == {o \in DOMAIN live : live[o].block \notin F}
<1>1. /\ scopes = <<>> /\ m_pBlocks # <<>>
      /\ m_pBlocks' = <<m_pBlocks[n]>>
      /\ block' = [b \in DOMAIN block \ F |-> block[b]]
      /\ live' = [o \in S |-> live[o]]
      /\ scopes' = scopes /\ lists' = lists
      /\ m_pLCurrentDeleters' = m_pLCurrentDeleters /\ ran' = <<>>
  BY DEF ArenaList!shrinkToFirstBlock, ArenaList!NothingRan, ArenaList!Last, ArenaList!Front,
         ArenaList!Restrict
<1>2. /\ Chained(live, block, m_pBlocks) /\ m_pBlocks \in Seq(DOMAIN block)
      /\ \A i, j \in 1..Len(m_pBlocks) : m_pBlocks[i] = m_pBlocks[j] => i = j
  BY DEF ArenaListInv, Chained
<1>3. n \in 1..Len(m_pBlocks) /\ n \in Nat /\ m_pBlocks[n] \in DOMAIN block
  BY <1>1, <1>2
<1>4. Len(front) = n - 1 /\ \A i \in 1..n - 1 : front[i] = m_pBlocks[i]
  <2> HIDE DEF n
  <2>1. n - 1 \in 0..Len(m_pBlocks) /\ m_pBlocks \in Seq(DOMAIN block)
    BY <1>2, <1>3
  <2> QED
    BY <2>1
<1>5. m_pBlocks[n] \notin F
  <2>1. ASSUME m_pBlocks[n] \in F PROVE FALSE
    <3>1. PICK i \in DOMAIN front : front[i] = m_pBlocks[n]
      BY <2>1 DEF ArenaList!ToSet
    <3>2. i \in 1..n - 1
      BY <1>2, <1>3, <1>4, <3>1
    <3>3. i \in 1..Len(m_pBlocks) /\ m_pBlocks[i] = m_pBlocks[n] /\ i # n
      BY <1>3, <1>4, <3>1, <3>2
    <3> QED
      BY <1>2, <1>3, <3>3
  <2> QED
    BY <2>1
<1> HIDE DEF F, n
<1>6. /\ m_pBlocks' \in Seq(DOMAIN block \ F)
      /\ \A i, j \in 1..Len(m_pBlocks') : m_pBlocks'[i] = m_pBlocks'[j] => i = j
  BY <1>1, <1>3, <1>5
<1>7. Chained(live', block', m_pBlocks')
  <2> DEFINE ch1 == m_pBlocks'
  <2>1. /\ ch1 \in Seq(DOMAIN block \ F)
        /\ \A i, j \in 1..Len(ch1) : ch1[i] = ch1[j] => i = j
    BY <1>6
  <2>2. S \in SUBSET DOMAIN live /\ \A o \in S : live[o].block \notin F
    OBVIOUS
  <2>3. Chained(live, block, m_pBlocks)
    BY <1>2
  <2> HIDE DEF ch1, S
  <2>4. Chained([o \in S |-> live[o]], [b \in DOMAIN block \ F |-> block[b]], ch1)
    BY <2>1, <2>2, <2>3, ChainedCut, Zenon
  <2> QED
    BY <1>1, <2>4 DEF ch1
<1>8. \A o \in DOMAIN live' : o \in DOMAIN live /\ live'[o] = live[o]
  BY <1>1
<1> HIDE DEF S
<1> QED
  BY <1>1, <1>7, <1>8, ListOutsideKeeps

LEMMA ListFreeAll ==
    ASSUME ArenaListInv, ArenaList!freeAll
    PROVE  ArenaListInv' /\ ScopesStay
<1> DEFINE F == ArenaList!ToSet(m_pBlocks)
           D == DOMAIN block \ F
<1>1. /\ scopes = <<>> /\ m_pBlocks' = <<>>
      /\ block' = [b \in D |-> block[b]] /\ live' = <<>>
      /\ scopes' = scopes /\ lists' = lists
      /\ m_pLCurrentDeleters' = m_pLCurrentDeleters /\ ran' = <<>>
  BY DEF ArenaList!freeAll, ArenaList!NothingRan, ArenaList!Restrict
<1>2. /\ block \in [DOMAIN block -> BlockRecord] /\ DOMAIN block \subseteq Blocks
      /\ \A b \in DOMAIN block : 8 * block[b].occupied <= block[b].cap
  BY DEF ArenaListInv, Chained
<1> HIDE DEF F
<1>3. D \subseteq DOMAIN block
  OBVIOUS
<1> HIDE DEF D
<1>4. /\ DOMAIN block' = D /\ block' \in [DOMAIN block' -> BlockRecord]
      /\ \A b \in DOMAIN block' : 8 * block'[b].occupied <= block'[b].cap
  BY <1>1, <1>2, <1>3
<1>5. DOMAIN live' = {} /\ m_pBlocks' \in Seq(DOMAIN block') /\ Len(m_pBlocks') = 0
  BY <1>1
<1>6. HeldIn(live', Occupied(block'), LastAlloc(block'))
  BY <1>1, <1>4, HeldNone
<1>7. Chained(live', block', m_pBlocks')
  BY <1>2, <1>3, <1>4, <1>5, <1>6 DEF Chained
<1> QED
  BY <1>1, <1>5, <1>7, ListOutsideKeeps

LEMMA ListInit ==
    ASSUME ArenaSizes, ArenaList!Init
    PROVE  ArenaListInv
<1>1. /\ live = <<>> /\ scopes = <<>> /\ lists = << <<>> >> /\ m_pLCurrentDeleters = 1
      /\ block = [b \in {1} |-> [cap |-> DefaultCapacity, occupied |-> 0, pLastAlloc |-> 0]]
      /\ m_pBlocks = <<1>>
  BY DEF ArenaList!Init, ArenaList!IArenaInit, ArenaList!NewBlock
<1>2. DefaultCapacity \in Nat /\ 1 \in Blocks
  BY DEF ArenaSizes
<1>3. /\ lists \in Seq(Seq(Objects)) /\ Len(lists) = 1 /\ lists[1] = <<>> /\ DOMAIN live = {}
      /\ Len(scopes) = 0
  BY <1>1
<1>4. ListsFor(live, lists, Len(scopes), Innermost)
  BY <1>3, ListsEmpty
<1>5. /\ DOMAIN block = {1} /\ block \in [DOMAIN block -> BlockRecord]
      /\ \A b \in DOMAIN block : 8 * block[b].occupied <= block[b].cap
  BY <1>1, <1>2 DEF BlockRecord
<1>6. HeldIn(live, Occupied(block), LastAlloc(block))
  BY <1>1, <1>5, HeldNone
<1>7. Chained(live, block, m_pBlocks)
  <2>1. /\ m_pBlocks \in Seq(DOMAIN block)
        /\ \A i, j \in 1..Len(m_pBlocks) : m_pBlocks[i] = m_pBlocks[j] => i = j
    BY <1>1, <1>5
  <2> QED
    BY <1>2, <1>5, <1>6, <2>1 DEF Chained
<1> QED
  BY <1>1, <1>3, <1>4, <1>7 DEF ArenaListInv, ScopesIn

LEMMA ListStep ==
    ASSUME ArenaSizes, ArenaListInv, ArenaList!Next
    PROVE  ArenaListInv' /\ ArenaList!DestructsDead
<1>12. ArenaListInv' /\ ScopesStay => ArenaList!DestructsDead
  <2>1. Len(scopes) \in Nat
    BY DEF ArenaListInv
  <2>2. ArenaListInv' => Len(scopes') \in Nat
    BY DEF ArenaListInv
  <2> QED
    BY <2>1, <2>2 DEF ScopesStay, ArenaList!DestructsDead, ArenaList!Depth,
                      ArenaList!NothingRan
<1>1. CASE ArenaList!malloc
  BY <1>1, <1>12, ListMalloc
<1>2. CASE ArenaList!initPtr
  BY <1>2, <1>12, ListInitPtr
<1>3. CASE \E o \in DOMAIN live, n \in BlockObjectSizes : ArenaList!realloc(o, n)
  <2>1. PICK o \in DOMAIN live, n \in Nat \ {0} : ArenaList!realloc(o, n)
    BY <1>3 DEF ArenaSizes
  <2> QED
    BY <2>1, <1>12, ListRealloc
<1>4. CASE ArenaList!ArenaListScope
  BY <1>4, <1>12, ListScopeEntered
<1>5. CASE ArenaList!restoreAfterScope
  BY <1>5, <1>12, ListRestoreAfterScope
<1>6. CASE ArenaList!EndScope
  BY <1>6, ListEndScope, SameDeaths DEF ArenaList!DestructsDead, ArenaList!Depth
<1>7. CASE ArenaList!reset
  BY <1>7, <1>12, ListReset
<1>8. CASE ArenaList!shrinkToFirstBlock
  BY <1>8, <1>12, ListShrinkToFirstBlock
<1>9. CASE ArenaList!freeAll
  BY <1>9, <1>12, ListFreeAll
<1> QED
  BY <1>1, <1>2, <1>3, <1>4, <1>5, <1>6, <1>7, <1>8, <1>9 DEF ArenaList!Next

-----------------------------------------------------------------------------
(* The three arenas in a run                                                *)

MemoryInv ==
    /\ part = "arena" => ArenaInv
    /\ part = "arenaList" => ArenaListInv
    /\ part = "buffer" => BufferInv

LEMMA MemoryInit == ArenaSizes /\ Init => MemoryInv
BY ArenaInit, BufferInit, ListInit DEF Init, MemoryInv

LEMMA MemorySame ==
    ASSUME MemoryInv, part' = part,
           part = "arena" => UNCHANGED <<iArenaVars, arenaVars>>,
           part = "arenaList" => UNCHANGED <<iArenaVars, arenaListVars>>,
           part = "buffer" => UNCHANGED <<iArenaVars, bufferVars>>
    PROVE  MemoryInv'
<1>1. CASE part = "arena"
  <2>1. /\ live' = live /\ scopes' = scopes /\ lists' = lists
        /\ m_pLCurrentDeleters' = m_pLCurrentDeleters /\ m_pos' = m_pos
        /\ m_reserved' = m_reserved /\ m_commited' = m_commited /\ m_pLastAlloc' = m_pLastAlloc
    BY <1>1 DEF iArenaVars, arenaVars
  <2>2. ArenaInv
    BY <1>1 DEF MemoryInv
  <2>3. ArenaInv'
    BY <2>1, <2>2 DEF ArenaInv
  <2> QED
    BY <1>1, <2>3 DEF MemoryInv
<1>2. CASE part = "arenaList"
  <2>1. /\ live' = live /\ scopes' = scopes /\ lists' = lists
        /\ m_pLCurrentDeleters' = m_pLCurrentDeleters /\ block' = block /\ m_pBlocks' = m_pBlocks
    BY <1>2 DEF iArenaVars, arenaListVars
  <2>2. ArenaListInv
    BY <1>2 DEF MemoryInv
  <2>3. ArenaListInv'
    BY <2>1, <2>2 DEF ArenaListInv, Innermost
  <2> QED
    BY <1>2, <2>3 DEF MemoryInv
<1>3. CASE part = "buffer"
  <2>1. /\ live' = live /\ scopes' = scopes /\ lists' = lists
        /\ m_pLCurrentDeleters' = m_pLCurrentDeleters
        /\ used' = used /\ lastOfBuffer' = lastOfBuffer
    BY <1>3 DEF iArenaVars, bufferVars
  <2>2. BufferInv
    BY <1>3 DEF MemoryInv
  <2>3. BufferInv'
    BY <2>1, <2>2 DEF BufferInv, Current
  <2> QED
    BY <1>3, <2>3 DEF MemoryInv
<1> QED
  BY <1>1, <1>2, <1>3 DEF MemoryInv

(* A step of one of the arenas destructs what dies, and any other leaves    *)
(* all three alone, or only the two that are not used.                      *)
LEMMA MemoryStep ==
    ASSUME ArenaSizes, MemoryInv, [Next]_specVars
    PROVE  /\ MemoryInv'
           /\ DestructsDead \/ UNCHANGED <<part, iArenaVars>>
<1>1. CASE UNCHANGED specVars
  <2>1. part' = part /\ UNCHANGED <<iArenaVars, arenaVars, arenaListVars, bufferVars>>
    BY <1>1 DEF specVars
  <2>2. /\ UNCHANGED iArenaVars /\ UNCHANGED arenaVars /\ UNCHANGED arenaListVars
        /\ UNCHANGED bufferVars
    BY <2>1
  <2> QED
    BY <2>1, <2>2, MemorySame
<1>2. CASE Next
  <2>1. part' = part
    BY <1>2 DEF Next
  <2>2. CASE part = "arena"
    <3>1. Arena!Next
      BY <1>2, <2>2 DEF Next
    <3>2. ArenaInv' /\ Arena!DestructsDead
      BY <2>2, <3>1, ArenaStep DEF MemoryInv, Arena!DestructsDead
    <3> QED
      BY <2>1, <2>2, <3>2 DEF MemoryInv, DestructsDead
  <2>3. CASE part = "arenaList"
    <3>1. ArenaList!Next
      BY <1>2, <2>3 DEF Next
    <3>2. ArenaListInv' /\ ArenaList!DestructsDead
      BY <2>3, <3>1, ListStep DEF MemoryInv
    <3> QED
      BY <2>1, <2>3, <3>2 DEF MemoryInv, DestructsDead
  <2>4. CASE part = "buffer"
    <3>1. Buffer!Next
      BY <1>2, <2>4 DEF Next
    <3>2. BufferInv' /\ Buffer!DestructsDead
      BY <2>4, <3>1, BufferStep DEF MemoryInv
    <3> QED
      BY <2>1, <2>4, <3>2 DEF MemoryInv, DestructsDead
  <2>5. CASE part # "arena" /\ part # "arenaList" /\ part # "buffer"
    <3>1. /\ UNCHANGED iArenaVars /\ UNCHANGED arenaVars /\ UNCHANGED arenaListVars
          /\ UNCHANGED bufferVars
      <4>1. part \notin Arenas
        BY <2>5 DEF Arenas
      <4> QED
        BY <1>2, <2>5, <4>1 DEF Next
    <3> QED
      BY <2>1, <2>5, <3>1 DEF MemoryInv, DestructsDead
  <2> QED
    BY <2>2, <2>3, <2>4, <2>5
<1> QED
  BY <1>1, <1>2

(* What the arenas promise follows from the lists and from what is held.    *)
LEMMA HeldIsDisjoint ==
    ASSUME NEW occ, NEW last, HeldIn(live, occ, last)
    PROVE  Arena!AreDisjoint /\ ArenaList!AreDisjoint /\ Buffer!AreDisjoint
BY DEF HeldIn, LieApart, Arena!AreDisjoint, Arena!End, ArenaList!AreDisjoint, ArenaList!End,
       Buffer!AreDisjoint, Buffer!End

LEMMA ListsAreRegistered ==
    ASSUME NEW d, NEW K, ListsFor(live, lists, d, K), live \in [DOMAIN live -> HeldObject],
           NEW i \in DOMAIN lists, i \in K
    PROVE  Arena!IsExact(i) /\ ArenaList!IsExact(i) /\ Buffer!IsExact(i)
<1>1. /\ \A j, k \in DOMAIN lists[i] : lists[i][j] = lists[i][k] => j = k
      /\ {lists[i][j] : j \in DOMAIN lists[i]}
            = {o \in DOMAIN live : live[o].role = "ptr" /\ live[o].depth = i - 1}
  <2> DEFINE s == lists[i]
  <2>1. i \in 1..Len(lists) /\ s \in Seq(Objects)
    BY DEF ListsFor
  <2>2. Lists(live, s, i - 1) /\ DOMAIN s = 1..Len(s)
    BY <2>1 DEF ListsFor
  <2> HIDE DEF s
  <2>3. {s[j] : j \in DOMAIN s} =
            {o \in DOMAIN live : live[o].role = "ptr" /\ live[o].depth = i - 1}
    BY <2>2 DEF Lists
  <2>4. ASSUME NEW j \in DOMAIN s, NEW k \in DOMAIN s, s[j] = s[k] PROVE j = k
    <3>1. j \in Int /\ k \in Int /\ s[j] \in DOMAIN live
      BY <2>2 DEF Lists
    <3>2. live[s[j]].at \in Nat
      BY <3>1 DEF HeldObject
    <3>3. ~(j < k) /\ ~(k < j)
      BY <2>2, <2>4, <3>2 DEF Lists
    <3> QED
      BY <3>1, <3>3
  <2> QED
    BY <2>3, <2>4 DEF s
<1> QED
  BY <1>1 DEF Arena!IsExact, Arena!IsInjective, Arena!Range,
              ArenaList!IsExact, ArenaList!IsInjective, ArenaList!Range,
              Buffer!IsExact, Buffer!IsInjective, Buffer!Range

LEMMA MemoryIsIntact == MemoryInv => MemoryIntact
<1> SUFFICES ASSUME MemoryInv PROVE MemoryIntact
  OBVIOUS
<1>1. CASE part = "arena"
  <2> DEFINE occ == [b \in {0} |-> m_pos]
             last == [b \in {0} |-> m_pLastAlloc]
  <2>1. /\ HeldIn(live, occ, last) /\ ListsFor(live, lists, Len(scopes), Nat)
        /\ m_pos \in Nat /\ m_pos <= m_commited /\ m_commited <= m_reserved
        /\ m_pLCurrentDeleters \in {0, Len(lists)} /\ live \in [DOMAIN live -> HeldObject]
    BY <1>1 DEF MemoryInv, ArenaInv, HeldIn
  <2>2. DOMAIN occ = {0} /\ occ[0] = m_pos /\ last[0] = m_pLastAlloc
    OBVIOUS
  <2> HIDE DEF occ, last
  <2>3. ASSUME NEW o \in DOMAIN live PROVE live[o].at + live[o].size <= m_pos
    <3>1. /\ live[o].block \in DOMAIN occ
          /\ LiesBelow(live[o], occ[live[o].block], last[live[o].block])
      BY <2>1, HeldOf
    <3> QED
      BY <2>2, <3>1 DEF LiesBelow
  <2>4. Arena!AreDisjoint
    BY <2>1, HeldIsDisjoint
  <2>5. Arena!IsRegistered
    <3>1. ASSUME NEW i \in DOMAIN lists PROVE Arena!IsExact(i)
      <4>1. i \in Nat
        BY <2>1 DEF ListsFor
      <4> QED
        BY <2>1, <4>1, ListsAreRegistered
    <3> QED
      BY <3>1 DEF Arena!IsRegistered
  <2>6. Arena!LiveIntact
    BY <2>1, <2>3, <2>4 DEF Arena!LiveIntact, Arena!End
  <2>7. Arena!CurrentListIsOpen
    BY <2>1 DEF Arena!CurrentListIsOpen
  <2> QED
    BY <1>1, <2>5, <2>6, <2>7 DEF MemoryIntact
<1>2. CASE part = "arenaList"
  <2>1. /\ Chained(live, block, m_pBlocks) /\ ListsFor(live, lists, Len(scopes), Innermost)
        /\ m_pLCurrentDeleters \in Nat /\ m_pLCurrentDeleters >= Len(lists)
        /\ scopes \in Seq([last : Blocks, occupied : Nat, pLastAlloc : Nat])
    BY <1>2 DEF MemoryInv, ArenaListInv
  <2>2. /\ HeldIn(live, Occupied(block), LastAlloc(block)) /\ live \in [DOMAIN live -> HeldObject]
        /\ \A b \in DOMAIN block : 8 * block[b].occupied <= block[b].cap
        /\ m_pBlocks \in Seq(DOMAIN block)
        /\ \A i, j \in 1..Len(m_pBlocks) : m_pBlocks[i] = m_pBlocks[j] => i = j
    BY <2>1 DEF Chained, HeldIn
  <2>3. ASSUME NEW o \in DOMAIN live
        PROVE  /\ live[o].block \in DOMAIN block
               /\ live[o].at + live[o].size <= block[live[o].block].occupied
    BY <2>1, ChainedOf DEF LiesBelow
  <2>4. ArenaList!AreDisjoint
    BY <2>2, HeldIsDisjoint
  <2>5. ArenaList!IsRegistered
    <3> DEFINE c == m_pLCurrentDeleters
    <3>1. ASSUME c \in DOMAIN lists, scopes # <<>> PROVE ArenaList!IsExact(c)
      <4>1. c \in Innermost
        <5>1. Len(lists) = Len(scopes) + 1 /\ Len(scopes) > 0
          BY <2>1, <3>1 DEF ListsFor
        <5> QED
          BY <2>1, <5>1 DEF Innermost
      <4> HIDE DEF c
      <4> QED
        BY <2>1, <2>2, <3>1, <4>1, ListsAreRegistered
    <3> QED
      BY <3>1 DEF ArenaList!IsRegistered, ArenaList!ListExists
  <2>6. ArenaList!ToSet(m_pBlocks) \subseteq DOMAIN block /\ ArenaList!IsInjective(m_pBlocks)
    BY <2>2 DEF ArenaList!ToSet, ArenaList!IsInjective
  <2>7. ArenaList!LiveIntact
    BY <2>2, <2>3, <2>4, <2>6 DEF ArenaList!LiveIntact, ArenaList!End
  <2> QED
    BY <1>2, <2>5, <2>7 DEF MemoryIntact
<1>3. CASE part = "buffer"
  <2>1. BufferInv
    BY <1>3 DEF MemoryInv
  <2>2. /\ HeldIn(live, [b \in {0} |-> used], [b \in {0} |-> lastOfBuffer])
        /\ ListsFor(live, lists, Len(scopes), Current) /\ used <= BufferCap
        /\ live \in [DOMAIN live -> HeldObject]
    BY <2>1 DEF BufferInv, HeldIn
  <2>3. \A o \in DOMAIN live : live[o].at + live[o].size <= used
    BY <2>1, BufferHeldOf DEF LiesBelow
  <2>4. Buffer!AreDisjoint
    BY <2>2, HeldIsDisjoint
  <2>5. Buffer!IsRegistered
    <3> DEFINE c == m_pLCurrentDeleters
    <3>1. ASSUME c \in DOMAIN lists PROVE Buffer!IsExact(c)
      <4>1. c \in Current
        BY DEF Current
      <4> HIDE DEF c
      <4> QED
        BY <2>2, <3>1, <4>1, ListsAreRegistered
    <3> QED
      BY <3>1 DEF Buffer!IsRegistered, Buffer!ListExists
  <2>6. Buffer!LiveIntact
    BY <2>2, <2>3, <2>4 DEF Buffer!LiveIntact, Buffer!End
  <2> QED
    BY <1>3, <2>5, <2>6 DEF MemoryIntact
<1> QED
  BY <1>1, <1>2, <1>3 DEF MemoryIntact

LEMMA MemoryAlways == Spec => []MemoryInv
<1>1. ArenaSizes
  BY ArenaAssumption
<1>2. Init => MemoryInv
  BY <1>1, MemoryInit
<1>3. MemoryInv /\ [Next]_specVars => MemoryInv'
  BY <1>1, MemoryStep
<1> QED
  BY <1>2, <1>3, PTL DEF Spec

(* Whatever was allocated, reallocated where it is, moved, or given back by *)
(* a scope, the client's objects lie apart in memory the arena has.  In     *)
(* Arena each with a destructor is registered once, with the scope it dies  *)
(* with; in BufferAllocator, and within a scope in ArenaList, the list in   *)
(* use, while it is there, is that of the objects of its scope.             *)
THEOREM ObjectsStayIntact == Spec => []MemoryIntact
BY MemoryAlways, MemoryIsIntact, PTL

(* Arena: every object with a destructor is destructed exactly when it      *)
(* dies, the youngest of a block first, at the end of its scope or when the *)
(* arena is emptied.  BufferAllocator: so it is while the list in use is    *)
(* there, which it is not from a scope's end until the next scope is        *)
(* entered.  ArenaList: so it is at a scope's end under that condition,     *)
(* and no other call runs a deleter: not reset(), shrinkToFirstBlock() and  *)
(* freeAll(), in which objects die too.                                     *)
THEOREM DestructorsRunOnce == Spec => DeletersRun
<1>1. ArenaSizes
  BY ArenaAssumption
<1>2. MemoryInv /\ [Next]_specVars => [DestructsDead]_<<part, iArenaVars>>
  <2> SUFFICES ASSUME MemoryInv, [Next]_specVars PROVE [DestructsDead]_<<part, iArenaVars>>
    OBVIOUS
  <2>1. DestructsDead \/ UNCHANGED <<part, iArenaVars>>
    BY <1>1, MemoryStep
  <2> QED
    BY <2>1
<1> QED
  BY <1>2, MemoryAlways, PTL DEF Spec, DeletersRun

-----------------------------------------------------------------------------
(* Reference counts                                                         *)

Kind == {"unref", "weakUnref", "destroyData"}
Call == Kind \X Controls

AnObject == [life : {"none", "alive", "destroyed"},
             holds : Controls \cup {Ref!Nobody}, knows : Controls \cup {Ref!Nobody}]

RefTypeOK ==
    /\ m_count \in [Controls -> Nat] /\ m_weakCount \in [Controls -> Nat]
    /\ strong \in [Controls -> Nat] /\ weak \in [Controls -> Nat]
    /\ control \in [Controls -> {"none", "alive", "freed"}]
    /\ objects \in [Controls -> AnObject]
    /\ calls \in Seq(Call)

(* How often x is in the sequence s, and b in the function f of blocks.     *)
Count(s, x) == Cardinality({i \in DOMAIN s : s[i] = x})
Fibre(f, b) == Cardinality({d \in Controls : f[d] = b})
Others(f, c, b) == Cardinality({d \in Controls \ {c} : f[d] = b})

HoldsOf(O) == [d \in Controls |-> O[d].holds]
KnowsOf(O) == [d \in Controls |-> O[d].knows]

(* Nothing on the call stack is about a block that is not there, and after  *)
(* the destruction of an object its weak pointer is given back.             *)
Absent(s, b) == \A i \in 1..Len(s) : s[i][2] # b

ThenWeakUnref(s) ==
    \A i \in 1..Len(s) : s[i][1] = "destroyData" =>
        i + 1 <= Len(s) /\ s[i + 1] = <<"weakUnref", s[i][2]>>

(* Nothing points to a block that is not there.                             *)
Unreferenced(b) ==
    /\ strong[b] = 0 /\ weak[b] = 0 /\ objects[b].life # "alive"
    /\ \A c \in Controls : objects[c].holds # b /\ objects[c].knows # b
    /\ Absent(calls, b)

(* What the counts come to: st and wk pointers of the client, h and k in    *)
(* objects, pu, pw and pd calls that are to execute.                        *)
CountedAt(mc, mw, st, wk, h, k, pu, pw, pd, life) ==
    /\ mc = st + h + pu
    /\ mw = mc + wk + k + pw
    /\ mw > 0
    /\ pd <= 1
    /\ pd = 1 => mc = 0
    /\ life = "alive" <=> (mc > 0 \/ pd = 1)

H(b) == Fibre(HoldsOf(objects), b)
K(b) == Fibre(KnowsOf(objects), b)
P(call, b) == Count(calls, <<call, b>>)

Counted(b) ==
    CountedAt(m_count[b], m_weakCount[b], strong[b], weak[b], H(b), K(b),
              P("unref", b), P("weakUnref", b), P("destroyData", b), objects[b].life)

(* Only an object that is alive has pointers, strong ones to later blocks.  *)
OwnsInOrder(b) ==
    /\ objects[b].life # "alive" =>
          objects[b].holds = Ref!Nobody /\ objects[b].knows = Ref!Nobody
    /\ objects[b].holds # Ref!Nobody => b < objects[b].holds

RefInv ==
    /\ RefTypeOK
    /\ \A b \in Controls : IF control[b] = "alive" THEN Counted(b) ELSE Unreferenced(b)
    /\ \A b \in Controls : OwnsInOrder(b)
    /\ ThenWeakUnref(calls)

LEMMA RefCardinality == ASSUME NEW S PROVE Ref!Cardinality(S) = Cardinality(S)
BY DEF Ref!Cardinality, Cardinality

LEMMA CountsAre ==
    /\ \A b, call : Ref!Pending(call, b) = Count(calls, <<call, b>>)
    /\ \A b : Ref!Holding(b) = Fibre(HoldsOf(objects), b)
    /\ \A b : Ref!Knowing(b) = Fibre(KnowsOf(objects), b)
<1>1. \A b, call : Ref!Pending(call, b) = Count(calls, <<call, b>>)
  BY RefCardinality DEF Ref!Pending, Count
<1>2. \A b : {c \in Controls : objects[c].holds = b} = {d \in Controls : HoldsOf(objects)[d] = b}
  BY DEF HoldsOf
<1>3. \A b : {c \in Controls : objects[c].knows = b} = {d \in Controls : KnowsOf(objects)[d] = b}
  BY DEF KnowsOf
<1> QED
  BY <1>1, <1>2, <1>3, RefCardinality DEF Ref!Holding, Ref!Knowing, Fibre

LEMMA CountIs ==
    ASSUME NEW s \in Seq(Call), NEW x
    PROVE  /\ IsFiniteSet({i \in DOMAIN s : s[i] = x}) /\ Count(s, x) \in Nat
           /\ (Count(s, x) = 0) = (\A i \in 1..Len(s) : s[i] # x)
<1> DEFINE T == {i \in DOMAIN s : s[i] = x}
<1>1. DOMAIN s = 1..Len(s) /\ Len(s) \in Nat /\ 1 \in Int /\ Len(s) \in Int
  OBVIOUS
<1>2. IsFiniteSet(1..Len(s))
  BY <1>1, FS_Interval
<1>3. T \in SUBSET (1..Len(s))
  BY <1>1
<1>4. IsFiniteSet(T)
  BY <1>2, <1>3, FS_Subset
<1>5. Count(s, x) = Cardinality(T)
  BY DEF Count
<1>6. T = {} <=> \A i \in 1..Len(s) : s[i] # x
  BY <1>1
<1> HIDE DEF T
<1>7. Count(s, x) \in Nat
  BY <1>4, <1>5, FS_CardinalityType
<1>8. Count(s, x) = 0 <=> T = {}
  BY <1>4, <1>5, FS_EmptySet
<1> QED
  BY <1>4, <1>6, <1>7, <1>8 DEF T

LEMMA CountEmpty == ASSUME NEW x PROVE Count(<<>>, x) = 0
<1>1. {i \in DOMAIN <<>> : <<>>[i] = x} = {}
  OBVIOUS
<1> QED
  BY <1>1, FS_EmptySet DEF Count

(* A call pushed on the stack counts once more.                             *)
LEMMA CountPush ==
    ASSUME NEW s \in Seq(Call), NEW y \in Call, NEW x
    PROVE  Count(<<y>> \o s, x) = IF y = x THEN Count(s, x) + 1 ELSE Count(s, x)
<1> DEFINE t == <<y>> \o s
           A == {i \in DOMAIN s : s[i] = x}
           B == {i \in DOMAIN t : t[i] = x}
           C == {i \in 2..Len(t) : t[i] = x}
           f == [i \in A |-> i + 1]
<1>1. /\ DOMAIN s = 1..Len(s) /\ Len(s) \in Nat /\ t \in Seq(Call) /\ Len(t) = Len(s) + 1
      /\ DOMAIN t = 1..Len(t) /\ t[1] = y /\ \A i \in 1..Len(s) : t[i + 1] = s[i]
  OBVIOUS
<1>2. f \in Bijection(A, C)
  <2>1. A \subseteq 1..Len(s) /\ C \subseteq 2..(Len(s) + 1)
    BY <1>1
  <2>2. ASSUME NEW i \in A
        PROVE  f[i] \in C
    <3>1. i \in 1..Len(s) /\ s[i] = x
      BY <1>1
    <3>2. i + 1 \in 2..Len(t) /\ t[i + 1] = x
      BY <1>1, <3>1
    <3> QED
      BY <3>2
  <2>3. ASSUME NEW j \in C
        PROVE  \E i \in A : f[i] = j
    <3>1. j \in 2..Len(t) /\ t[j] = x /\ j - 1 \in 1..Len(s) /\ (j - 1) + 1 = j
      BY <1>1
    <3>2. s[j - 1] = x
      BY <1>1, <3>1
    <3>3. j - 1 \in A
      BY <1>1, <3>1, <3>2
    <3> QED
      BY <3>1, <3>3
  <2>4. \A i, j \in A : f[i] = f[j] => i = j
    BY <1>1, <2>1
  <2> HIDE DEF A, C
  <2>5. f \in [A -> C]
    BY <2>2
  <2>6. f \in Injection(A, C)
    BY <2>4, <2>5 DEF Injection, IsInjective
  <2>7. f \in Surjection(A, C)
    BY <2>3, <2>5 DEF Surjection
  <2> QED
    BY <2>6, <2>7 DEF Bijection
<1>3. IsFiniteSet(A) /\ Count(s, x) = Cardinality(A) /\ Count(s, x) \in Nat
  BY CountIs DEF Count
<1>4. IsFiniteSet(C) /\ Cardinality(C) = Count(s, x)
  <2> HIDE DEF A, C, f
  <2>1. ExistsBijection(A, C)
    BY <1>2 DEF ExistsBijection
  <2> QED
    BY <1>3, <2>1, FS_Bijection
<1>5. Count(t, x) = Cardinality(B)
  BY DEF Count
<1>6. CASE y = x
  <2>1. B = C \cup {1} /\ 1 \notin C
    BY <1>1, <1>6
  <2> HIDE DEF B, C, A, t, f
  <2>2. Cardinality(C \cup {1}) = Cardinality(C) + 1
    BY <1>4, <2>1, FS_AddElement
  <2> QED
    BY <1>4, <1>5, <1>6, <2>1, <2>2 DEF t
<1>7. CASE y # x
  <2>1. B = C
    BY <1>1, <1>7
  <2> QED
    BY <1>4, <1>5, <1>7, <2>1
<1> QED
  BY <1>6, <1>7

LEMMA PopCall ==
    ASSUME NEW s \in Seq(Call), s # <<>>
    PROVE  /\ Head(s) \in Call /\ Tail(s) \in Seq(Call) /\ s = <<Head(s)>> \o Tail(s)
           /\ Len(s) \in Nat /\ Len(Tail(s)) = Len(s) - 1 /\ Len(s) >= 1 /\ s[1] = Head(s)
           /\ \A i \in 1..Len(Tail(s)) : Tail(s)[i] = s[i + 1]
<1>1. /\ Head(s) \in Call /\ Tail(s) \in Seq(Call) /\ Len(Tail(s)) = Len(s) - 1
      /\ \A i \in 1..Len(Tail(s)) : Tail(s)[i] = s[i + 1]
  BY HeadTailProperties
<1>2. s = <<Head(s)>> \o Tail(s)
  OBVIOUS
<1>3. Len(s) \in Nat /\ Len(s) >= 1 /\ s[1] = Head(s)
  OBVIOUS
<1> QED
  BY <1>1, <1>2, <1>3

LEMMA CountPop ==
    ASSUME NEW s \in Seq(Call), s # <<>>, NEW x
    PROVE  /\ Count(s, x) = IF Head(s) = x THEN Count(Tail(s), x) + 1 ELSE Count(Tail(s), x)
           /\ Count(Tail(s), x) \in Nat
<1>1. Head(s) \in Call /\ Tail(s) \in Seq(Call) /\ s = <<Head(s)>> \o Tail(s)
  BY PopCall
<1>2. Count(Tail(s), x) \in Nat
  BY <1>1, CountIs
<1> DEFINE h == Head(s)
           t == Tail(s)
<1>3. h \in Call /\ t \in Seq(Call) /\ s = <<h>> \o t
  BY <1>1
<1> HIDE DEF h, t
<1>4. Count(<<h>> \o t, x) = IF h = x THEN Count(t, x) + 1 ELSE Count(t, x)
  BY <1>3, CountPush
<1> QED
  BY <1>2, <1>3, <1>4 DEF h, t

(* The blocks that point to b are block c, or not, and the others.          *)
LEMMA FibreSum ==
    ASSUME RefSizes, NEW f, NEW c \in Controls, NEW b
    PROVE  /\ Others(f, c, b) \in Nat
           /\ f[c] = b => Fibre(f, b) = Others(f, c, b) + 1
           /\ f[c] # b => Fibre(f, b) = Others(f, c, b)
<1> DEFINE R == {d \in Controls \ {c} : f[d] = b}
           F == {d \in Controls : f[d] = b}
<1>1. R \in SUBSET Controls /\ c \notin R
  OBVIOUS
<1>2. (f[c] = b => F = R \cup {c}) /\ (f[c] # b => F = R)
  OBVIOUS
<1>3. Fibre(f, b) = Cardinality(F) /\ Others(f, c, b) = Cardinality(R)
  BY DEF Fibre, Others
<1> HIDE DEF R, F
<1>4. IsFiniteSet(R)
  BY <1>1, FS_Subset DEF RefSizes
<1>5. Cardinality(R) \in Nat /\ Cardinality(R \cup {c}) = Cardinality(R) + 1
  BY <1>1, <1>4, FS_AddElement, FS_CardinalityType
<1> QED
  BY <1>2, <1>3, <1>5

LEMMA FibreIs ==
    ASSUME RefSizes, NEW f, NEW b
    PROVE  Fibre(f, b) \in Nat /\ (Fibre(f, b) = 0) = (\A d \in Controls : f[d] # b)
<1> DEFINE F == {d \in Controls : f[d] = b}
<1>1. /\ F \in SUBSET Controls /\ Fibre(f, b) = Cardinality(F)
      /\ (F = {} <=> \A d \in Controls : f[d] # b)
  BY DEF Fibre
<1> HIDE DEF F
<1>2. IsFiniteSet(F)
  BY <1>1, FS_Subset DEF RefSizes
<1>3. Cardinality(F) \in Nat /\ (Cardinality(F) = 0 <=> F = {})
  BY <1>2, FS_CardinalityType, FS_EmptySet
<1> QED
  BY <1>1, <1>3

LEMMA NoFibre ==
    ASSUME RefSizes, NEW f, NEW b, \A d \in Controls : f[d] # b
    PROVE  Fibre(f, b) = 0
<1>1. (Fibre(f, b) = 0) = (\A d \in Controls : f[d] # b)
  BY FibreIs
<1> QED
  BY <1>1

LEMMA ThenPush ==
    ASSUME NEW s \in Seq(Call), NEW y \in Call, ThenWeakUnref(s),
           y[1] = "destroyData" => s # <<>> /\ Head(s) = <<"weakUnref", y[2]>>
    PROVE  ThenWeakUnref(<<y>> \o s)
<1> DEFINE t == <<y>> \o s
<1>1. /\ Len(s) \in Nat /\ Len(t) = Len(s) + 1 /\ t[1] = y
      /\ \A i \in 1..Len(s) : t[i + 1] = s[i]
  OBVIOUS
<1> HIDE DEF t
<1>2. ASSUME NEW i \in 1..Len(t), t[i][1] = "destroyData"
      PROVE  i + 1 <= Len(t) /\ t[i + 1] = <<"weakUnref", t[i][2]>>
  <2>1. CASE i = 1
    <3>1. s # <<>> /\ Head(s) = <<"weakUnref", y[2]>>
      BY <1>1, <1>2, <2>1
    <3>2. Len(s) >= 1 /\ s[1] = Head(s)
      BY <3>1, PopCall
    <3> QED
      BY <1>1, <2>1, <3>1, <3>2
  <2>2. CASE i # 1
    <3>1. i - 1 \in 1..Len(s) /\ (i - 1) + 1 = i
      BY <1>1, <2>2
    <3>2. t[i] = s[i - 1]
      BY <1>1, <3>1
    <3>3. (i - 1) + 1 <= Len(s) /\ s[(i - 1) + 1] = <<"weakUnref", s[i - 1][2]>>
      BY <1>2, <3>1, <3>2 DEF ThenWeakUnref
    <3>4. i \in 1..Len(s) /\ s[i] = <<"weakUnref", t[i][2]>>
      BY <3>1, <3>2, <3>3
    <3> QED
      BY <1>1, <3>4
  <2> QED
    BY <2>1, <2>2
<1> QED
  BY <1>2 DEF ThenWeakUnref, t

LEMMA ThenPop ==
    ASSUME NEW s \in Seq(Call), s # <<>>, ThenWeakUnref(s)
    PROVE  ThenWeakUnref(Tail(s))
<1> DEFINE t == Tail(s)
<1>1. /\ Len(s) \in Nat /\ Len(t) = Len(s) - 1
      /\ \A i \in 1..Len(t) : t[i] = s[i + 1]
  BY PopCall
<1> HIDE DEF t
<1>2. ASSUME NEW i \in 1..Len(t), t[i][1] = "destroyData"
      PROVE  i + 1 <= Len(t) /\ t[i + 1] = <<"weakUnref", t[i][2]>>
  <2>1. i + 1 \in 1..Len(s) /\ t[i] = s[i + 1]
    BY <1>1
  <2>2. (i + 1) + 1 <= Len(s) /\ s[(i + 1) + 1] = <<"weakUnref", s[i + 1][2]>>
    BY <1>2, <2>1 DEF ThenWeakUnref
  <2>3. i + 1 \in 1..Len(t)
    BY <1>1, <2>1, <2>2
  <2> QED
    BY <1>1, <2>1, <2>2, <2>3
<1> QED
  BY <1>2 DEF ThenWeakUnref, t

LEMMA AbsentPush ==
    ASSUME NEW s \in Seq(Call), NEW y \in Call, NEW b, Absent(s, b), y[2] # b
    PROVE  Absent(<<y>> \o s, b)
<1> DEFINE t == <<y>> \o s
<1>1. /\ Len(s) \in Nat /\ Len(t) = Len(s) + 1 /\ t[1] = y
      /\ \A i \in 1..Len(s) : t[i + 1] = s[i]
  OBVIOUS
<1> HIDE DEF t
<1>2. ASSUME NEW i \in 1..Len(t) PROVE t[i][2] # b
  <2>1. CASE i = 1
    BY <1>1, <2>1
  <2>2. CASE i # 1
    <3>1. i - 1 \in 1..Len(s) /\ (i - 1) + 1 = i
      BY <1>1, <2>2
    <3> QED
      BY <1>1, <3>1 DEF Absent
  <2> QED
    BY <2>1, <2>2
<1> QED
  BY <1>2 DEF Absent, t

LEMMA AbsentPop ==
    ASSUME NEW s \in Seq(Call), s # <<>>, NEW b, Absent(s, b)
    PROVE  Absent(Tail(s), b) /\ Head(s)[2] # b
<1> DEFINE t == Tail(s)
<1>1. /\ Len(s) \in Nat /\ Len(t) = Len(s) - 1 /\ Len(s) >= 1 /\ s[1] = Head(s)
      /\ \A i \in 1..Len(t) : t[i] = s[i + 1]
  BY PopCall
<1> HIDE DEF t
<1>2. \A i \in 1..Len(t) : i + 1 \in 1..Len(s)
  BY <1>1
<1>3. 1 \in 1..Len(s)
  BY <1>1
<1> QED
  BY <1>1, <1>2, <1>3 DEF Absent, t

(* A block with no call of any kind.                                        *)
LEMMA AbsentIs ==
    ASSUME NEW s \in Seq(Call), NEW b,
           Count(s, <<"unref", b>>) = 0, Count(s, <<"weakUnref", b>>) = 0,
           Count(s, <<"destroyData", b>>) = 0
    PROVE  Absent(s, b)
<1>1. \A i \in 1..Len(s) : /\ s[i] # <<"unref", b>> /\ s[i] # <<"weakUnref", b>>
                           /\ s[i] # <<"destroyData", b>>
  BY CountIs
<1>2. ASSUME NEW i \in 1..Len(s) PROVE s[i][2] # b
  <2>1. s[i] \in Call
    OBVIOUS
  <2>2. PICK k \in Kind, c \in Controls : s[i] = <<k, c>>
    BY <2>1 DEF Call
  <2> QED
    BY <1>1, <2>2 DEF Kind
<1> QED
  BY <1>2 DEF Absent

(* While an object waits for its destruction, so does its weak pointer.     *)
LEMMA WeakUnrefFollows ==
    ASSUME NEW s \in Seq(Call), NEW b, ThenWeakUnref(s), Count(s, <<"weakUnref", b>>) = 0
    PROVE  Count(s, <<"destroyData", b>>) = 0
<1>1. \A i \in 1..Len(s) : s[i] # <<"weakUnref", b>>
  BY CountIs
<1>2. ASSUME NEW i \in 1..Len(s), s[i] = <<"destroyData", b>> PROVE FALSE
  <2>1. i + 1 <= Len(s) /\ s[i + 1] = <<"weakUnref", b>>
    BY <1>2 DEF ThenWeakUnref
  <2>2. i + 1 \in 1..Len(s)
    BY <2>1
  <2> QED
    BY <1>1, <2>1, <2>2
<1> QED
  BY <1>2, CountIs

(* How the calls move the counts of a block.                                *)
LEMMA CountsMove ==
    ASSUME NEW mc \in Nat, NEW mw \in Nat, NEW st \in Nat, NEW wk \in Nat, NEW h \in Nat,
           NEW k \in Nat, NEW pu \in Nat, NEW pw \in Nat, NEW pd \in Nat, NEW life,
           CountedAt(mc, mw, st, wk, h, k, pu, pw, pd, life)
    PROVE  /\ mc > 0 => CountedAt(mc + 1, mw + 1, st + 1, wk, h, k, pu, pw, pd, life)
           /\ CountedAt(mc, mw + 1, st, wk + 1, h, k, pu, pw, pd, life)
           /\ st > 0 => CountedAt(mc, mw, st - 1, wk, h + 1, k, pu, pw, pd, life)
           /\ wk > 0 => CountedAt(mc, mw, st, wk - 1, h, k + 1, pu, pw, pd, life)
           /\ st > 0 => CountedAt(mc, mw, st - 1, wk, h, k, pu + 1, pw, pd, life)
           /\ wk > 0 => CountedAt(mc, mw, st, wk - 1, h, k, pu, pw + 1, pd, life)
           /\ h > 0 => CountedAt(mc, mw, st, wk, h - 1, k, pu + 1, pw, pd, life)
           /\ k > 0 => CountedAt(mc, mw, st, wk, h, k - 1, pu, pw + 1, pd, life)
BY DEF CountedAt

LEMMA CountsHeld ==
    ASSUME NEW mc \in Nat, NEW mw \in Nat, NEW st \in Nat, NEW wk \in Nat, NEW h \in Nat,
           NEW k \in Nat, NEW pu \in Nat, NEW pw \in Nat, NEW pd \in Nat, NEW life,
           CountedAt(mc, mw, st, wk, h, k, pu, pw, pd, life), pu > 0
    PROVE  mc > 0
BY DEF CountedAt

LEMMA CountsUnref ==
    ASSUME NEW mc \in Nat, NEW mw \in Nat, NEW st \in Nat, NEW wk \in Nat, NEW h \in Nat,
           NEW k \in Nat, NEW pu \in Nat, NEW pw \in Nat, NEW pd \in Nat, NEW life,
           CountedAt(mc, mw, st, wk, h, k, pu, pw, pd, life), pu > 0, mc - 1 > 0
    PROVE  CountedAt(mc - 1, mw, st, wk, h, k, pu - 1, pw + 1, pd, life)
BY DEF CountedAt

LEMMA CountsUnrefLast ==
    ASSUME NEW mc \in Nat, NEW mw \in Nat, NEW st \in Nat, NEW wk \in Nat, NEW h \in Nat,
           NEW k \in Nat, NEW pu \in Nat, NEW pw \in Nat, NEW pd \in Nat, NEW life,
           CountedAt(mc, mw, st, wk, h, k, pu, pw, pd, life), pu > 0, mc - 1 <= 0
    PROVE  CountedAt(mc - 1, mw, st, wk, h, k, pu - 1, pw + 1, pd + 1, life)
BY DEF CountedAt

LEMMA CountsDestroyed ==
    ASSUME NEW mc \in Nat, NEW mw \in Nat, NEW st \in Nat, NEW wk \in Nat, NEW h \in Nat,
           NEW k \in Nat, NEW pu \in Nat, NEW pw \in Nat, NEW pd \in Nat, NEW life,
           CountedAt(mc, mw, st, wk, h, k, pu, pw, pd, life), pd > 0
    PROVE  CountedAt(mc, mw, st, wk, h, k, pu, pw, pd - 1, "destroyed")
BY DEF CountedAt

LEMMA CountsWeakUnref ==
    ASSUME NEW mc \in Nat, NEW mw \in Nat, NEW st \in Nat, NEW wk \in Nat, NEW h \in Nat,
           NEW k \in Nat, NEW pu \in Nat, NEW pw \in Nat, NEW pd \in Nat, NEW life,
           CountedAt(mc, mw, st, wk, h, k, pu, pw, pd, life), pw > 0, mw - 1 > 0
    PROVE  mw > 0 /\ CountedAt(mc, mw - 1, st, wk, h, k, pu, pw - 1, pd, life)
BY DEF CountedAt

(* What the invariant says of one block.                                    *)
LEMMA BlockIs ==
    ASSUME RefSizes, RefInv, NEW b \in Controls
    PROVE  /\ m_count[b] \in Nat /\ m_weakCount[b] \in Nat /\ strong[b] \in Nat /\ weak[b] \in Nat
           /\ H(b) \in Nat /\ K(b) \in Nat
           /\ P("unref", b) \in Nat /\ P("weakUnref", b) \in Nat /\ P("destroyData", b) \in Nat
           /\ objects[b] \in AnObject /\ calls \in Seq(Call) /\ ThenWeakUnref(calls)
           /\ control[b] = "alive" => Counted(b)
           /\ control[b] # "alive" => Unreferenced(b)
           /\ OwnsInOrder(b)
<1>1. /\ m_count[b] \in Nat /\ m_weakCount[b] \in Nat /\ strong[b] \in Nat /\ weak[b] \in Nat
      /\ objects[b] \in AnObject /\ calls \in Seq(Call) /\ ThenWeakUnref(calls)
  BY DEF RefInv, RefTypeOK
<1>2. H(b) \in Nat /\ K(b) \in Nat
  BY FibreIs DEF H, K
<1>3. P("unref", b) \in Nat /\ P("weakUnref", b) \in Nat /\ P("destroyData", b) \in Nat
  BY <1>1, CountIs DEF P
<1>4. OwnsInOrder(b) /\ IF control[b] = "alive" THEN Counted(b) ELSE Unreferenced(b)
  BY DEF RefInv
<1> QED
  BY <1>1, <1>2, <1>3, <1>4

(* A block the client or an object has a pointer to, or a call is about.    *)
LEMMA PointedTo ==
    ASSUME RefSizes, RefInv, NEW b \in Controls,
           \/ strong[b] > 0 \/ weak[b] > 0
           \/ \E c \in Controls : objects[c].holds = b \/ objects[c].knows = b
           \/ \E k : Ref!Executes(k, b)
    PROVE  control[b] = "alive" /\ Counted(b)
<1>1. ASSUME control[b] # "alive" PROVE FALSE
  <2>1. Unreferenced(b)
    BY <1>1, BlockIs
  <2>2. strong[b] = 0 /\ weak[b] = 0 /\ Absent(calls, b)
        /\ \A c \in Controls : objects[c].holds # b /\ objects[c].knows # b
    BY <2>1 DEF Unreferenced
  <2>3. PICK k : Ref!Executes(k, b)
    BY <2>2
  <2>4. calls # <<>> /\ Head(calls) = <<k, b>> /\ calls \in Seq(Call)
    BY <2>3 DEF Ref!Executes, RefInv, RefTypeOK
  <2>5. Head(calls)[2] # b
    BY <2>2, <2>4, AbsentPop
  <2> QED
    BY <2>4, <2>5
<1> QED
  BY <1>1, BlockIs

LEMMA NothingToExecute ==
    ASSUME Ref!Idle, NEW b, NEW k
    PROVE  P(k, b) = 0
BY CountEmpty DEF Ref!Idle, P

(* Whose objects point where does not change.                               *)
LEMMA SamePointers ==
    ASSUME \A c \in Controls : /\ objects'[c].holds = objects[c].holds
                               /\ objects'[c].knows = objects[c].knows,
           NEW b
    PROVE  H(b)' = H(b) /\ K(b)' = K(b)
<1>1. HoldsOf(objects') = HoldsOf(objects) /\ KnowsOf(objects') = KnowsOf(objects)
  BY DEF HoldsOf, KnowsOf
<1> QED
  BY <1>1 DEF H, K

LEMMA AllocStep ==
    ASSUME RefSizes, RefInv, NEW b0 \in Controls, Ref!alloc(b0)
    PROVE  RefInv'
<1>1. /\ Ref!Idle /\ control[b0] = "none"
      /\ m_count' = [m_count EXCEPT ![b0] = 1]
      /\ m_weakCount' = [m_weakCount EXCEPT ![b0] = 1]
      /\ control' = [control EXCEPT ![b0] = "alive"]
      /\ objects' = [objects EXCEPT ![b0].life = "alive"]
      /\ strong' = [strong EXCEPT ![b0] = 1]
      /\ UNCHANGED <<weak, calls>>
  BY DEF Ref!alloc
<1>2. RefTypeOK
  BY DEF RefInv
<1>3. /\ objects[b0] \in AnObject /\ objects'[b0] = [objects[b0] EXCEPT !.life = "alive"]
      /\ objects'[b0] \in AnObject /\ objects'[b0].life = "alive"
      /\ objects'[b0].holds = objects[b0].holds /\ objects'[b0].knows = objects[b0].knows
      /\ \A c \in Controls : c # b0 => objects'[c] = objects[c]
  BY <1>1, <1>2 DEF RefTypeOK, AnObject
<1>4. objects' \in [Controls -> AnObject]
  <2>1. objects' = [objects EXCEPT ![b0] = objects'[b0]]
    BY <1>1, <1>2, <1>3 DEF RefTypeOK
  <2> QED
    BY <1>2, <1>3, <2>1 DEF RefTypeOK
<1>5. RefTypeOK'
  BY <1>1, <1>2, <1>4 DEF RefTypeOK
<1>6. \A b \in Controls : H(b)' = H(b) /\ K(b)' = K(b)
  BY <1>3, SamePointers
<1>7. \A b, k : P(k, b)' = P(k, b)
  BY <1>1 DEF P
<1>8. Unreferenced(b0) /\ OwnsInOrder(b0)
  BY <1>1, BlockIs
<1>9. ASSUME NEW b \in Controls
      PROVE  OwnsInOrder(b)' /\ IF control'[b] = "alive" THEN Counted(b)' ELSE Unreferenced(b)'
  <2>1. CASE b = b0
    <3>1. /\ m_count'[b] = 1 /\ m_weakCount'[b] = 1 /\ strong'[b] = 1 /\ weak'[b] = 0
          /\ control'[b] = "alive"
      BY <1>1, <1>2, <1>8, <2>1 DEF RefTypeOK, Unreferenced
    <3>2. H(b) = 0 /\ K(b) = 0
      BY <1>8, <2>1, FibreIs DEF Unreferenced, H, K, HoldsOf, KnowsOf
    <3>3. P("unref", b) = 0 /\ P("weakUnref", b) = 0 /\ P("destroyData", b) = 0
      BY <1>1, NothingToExecute
    <3>4. Counted(b)'
      <4>1. CountedAt(1, 1, 1, 0, 0, 0, 0, 0, 0, "alive")
        BY DEF CountedAt
      <4> QED
        BY <1>3, <1>6, <1>7, <2>1, <3>1, <3>2, <3>3, <4>1 DEF Counted
    <3>5. OwnsInOrder(b)'
      BY <1>3, <1>8, <2>1 DEF OwnsInOrder
    <3> QED
      BY <3>1, <3>4, <3>5
  <2>2. CASE b # b0
    <3>1. /\ m_count'[b] = m_count[b] /\ m_weakCount'[b] = m_weakCount[b]
          /\ strong'[b] = strong[b] /\ weak'[b] = weak[b] /\ control'[b] = control[b]
          /\ objects'[b] = objects[b]
      BY <1>1, <1>2, <1>3, <2>2 DEF RefTypeOK
    <3>2. OwnsInOrder(b)'
      BY <3>1, BlockIs DEF OwnsInOrder
    <3>3. ASSUME control[b] = "alive" PROVE Counted(b)'
      BY <1>6, <1>7, <3>1, <3>3, BlockIs DEF Counted
    <3>4. ASSUME control[b] # "alive" PROVE Unreferenced(b)'
      <4>1. Unreferenced(b)
        BY <3>4, BlockIs
      <4>2. \A c \in Controls : objects'[c].holds # b /\ objects'[c].knows # b
        BY <1>3, <4>1 DEF Unreferenced
      <4> QED
        BY <1>1, <3>1, <4>1, <4>2 DEF Unreferenced
    <3> QED
      BY <3>1, <3>2, <3>3, <3>4
  <2> QED
    BY <2>1, <2>2
<1> QED
  BY <1>1, <1>5, <1>9 DEF RefInv

(* The client's pointers and the counts, where neither an object nor a call *)
(* changes.                                                                 *)
LEMMA HandleStep ==
    ASSUME RefSizes, RefInv, NEW b0 \in Controls, control[b0] = "alive",
           UNCHANGED <<control, objects, calls>>,
           RefTypeOK',
           \A b \in Controls : b # b0 =>
               /\ m_count'[b] = m_count[b] /\ m_weakCount'[b] = m_weakCount[b]
               /\ strong'[b] = strong[b] /\ weak'[b] = weak[b],
           CountedAt(m_count'[b0], m_weakCount'[b0], strong'[b0], weak'[b0], H(b0), K(b0),
                     P("unref", b0), P("weakUnref", b0), P("destroyData", b0),
                     objects[b0].life)
    PROVE  RefInv'
<1>1. \A b \in Controls : H(b)' = H(b) /\ K(b)' = K(b)
  BY SamePointers
<1>2. \A b, k : P(k, b)' = P(k, b)
  BY DEF P
<1>3. ASSUME NEW b \in Controls
      PROVE  OwnsInOrder(b)' /\ IF control'[b] = "alive" THEN Counted(b)' ELSE Unreferenced(b)'
  <2>1. OwnsInOrder(b)'
    BY BlockIs DEF OwnsInOrder
  <2>2. CASE b = b0
    BY <1>1, <1>2, <2>1, <2>2 DEF Counted
  <2>3. CASE b # b0
    <3>1. ASSUME control[b] = "alive" PROVE Counted(b)'
      BY <1>1, <1>2, <2>3, <3>1, BlockIs DEF Counted
    <3>2. ASSUME control[b] # "alive" PROVE Unreferenced(b)'
      BY <2>3, <3>2, BlockIs DEF Unreferenced
    <3> QED
      BY <2>1, <3>1, <3>2
  <2> QED
    BY <2>2, <2>3
<1> QED
  BY <1>3 DEF RefInv

LEMMA RefStep ==
    ASSUME RefSizes, RefInv, NEW b0 \in Controls, Ref!ref(b0)
    PROVE  RefInv'
<1>1. /\ Ref!Idle /\ (strong[b0] > 0 \/ (weak[b0] > 0 /\ Ref!IsAlive(b0)))
      /\ m_count' = [m_count EXCEPT ![b0] = @ + 1]
      /\ m_weakCount' = [m_weakCount EXCEPT ![b0] = @ + 1]
      /\ strong' = [strong EXCEPT ![b0] = @ + 1]
      /\ UNCHANGED <<control, objects, weak, calls>>
  BY DEF Ref!ref
<1>2. RefTypeOK
  BY DEF RefInv
<1>3. RefTypeOK'
  BY <1>1, <1>2 DEF RefTypeOK
<1>4. control[b0] = "alive" /\ Counted(b0)
  BY <1>1, PointedTo
<1>5. m_count[b0] > 0
  <2>1. m_count[b0] = strong[b0] + H(b0) + P("unref", b0)
    BY <1>4 DEF Counted, CountedAt
  <2> QED
    BY <1>1, <2>1, BlockIs DEF Ref!IsAlive
<1>6. /\ m_count'[b0] = m_count[b0] + 1 /\ m_weakCount'[b0] = m_weakCount[b0] + 1
      /\ strong'[b0] = strong[b0] + 1 /\ weak'[b0] = weak[b0]
      /\ \A b \in Controls : b # b0 =>
               /\ m_count'[b] = m_count[b] /\ m_weakCount'[b] = m_weakCount[b]
               /\ strong'[b] = strong[b] /\ weak'[b] = weak[b]
  BY <1>1, <1>2 DEF RefTypeOK
<1>7. CountedAt(m_count'[b0], m_weakCount'[b0], strong'[b0], weak'[b0], H(b0), K(b0),
                P("unref", b0), P("weakUnref", b0), P("destroyData", b0),
                objects[b0].life)
  <2>1. /\ m_count[b0] \in Nat /\ m_weakCount[b0] \in Nat /\ strong[b0] \in Nat /\ weak[b0] \in Nat
        /\ H(b0) \in Nat /\ K(b0) \in Nat
        /\ P("unref", b0) \in Nat /\ P("weakUnref", b0) \in Nat /\ P("destroyData", b0) \in Nat
    BY BlockIs
  <2>2. CountedAt(m_count[b0], m_weakCount[b0], strong[b0], weak[b0], H(b0), K(b0),
                  P("unref", b0), P("weakUnref", b0), P("destroyData", b0), objects[b0].life)
    BY <1>4 DEF Counted
  <2>3. CountedAt(m_count[b0] + 1, m_weakCount[b0] + 1, strong[b0] + 1, weak[b0], H(b0), K(b0),
                  P("unref", b0), P("weakUnref", b0), P("destroyData", b0), objects[b0].life)
    BY <1>5, <2>1, <2>2, CountsMove
  <2> QED
    BY <1>6, <2>3
<1> QED
  BY <1>1, <1>3, <1>4, <1>6, <1>7, HandleStep

LEMMA WeakRefStep ==
    ASSUME RefSizes, RefInv, NEW b0 \in Controls, Ref!weakRef(b0)
    PROVE  RefInv'
<1>1. /\ strong[b0] > 0
      /\ m_weakCount' = [m_weakCount EXCEPT ![b0] = @ + 1]
      /\ weak' = [weak EXCEPT ![b0] = @ + 1]
      /\ UNCHANGED <<m_count, control, objects, strong, calls>>
  BY DEF Ref!weakRef
<1>2. RefTypeOK
  BY DEF RefInv
<1>3. RefTypeOK'
  BY <1>1, <1>2 DEF RefTypeOK
<1>4. control[b0] = "alive" /\ Counted(b0)
  BY <1>1, PointedTo
<1>5. /\ m_weakCount'[b0] = m_weakCount[b0] + 1 /\ weak'[b0] = weak[b0] + 1
      /\ m_count'[b0] = m_count[b0] /\ strong'[b0] = strong[b0]
      /\ \A b \in Controls : b # b0 =>
               /\ m_count'[b] = m_count[b] /\ m_weakCount'[b] = m_weakCount[b]
               /\ strong'[b] = strong[b] /\ weak'[b] = weak[b]
  BY <1>1, <1>2 DEF RefTypeOK
<1>6. CountedAt(m_count'[b0], m_weakCount'[b0], strong'[b0], weak'[b0], H(b0), K(b0),
                P("unref", b0), P("weakUnref", b0), P("destroyData", b0),
                objects[b0].life)
  <2>1. /\ m_count[b0] \in Nat /\ m_weakCount[b0] \in Nat /\ strong[b0] \in Nat /\ weak[b0] \in Nat
        /\ H(b0) \in Nat /\ K(b0) \in Nat
        /\ P("unref", b0) \in Nat /\ P("weakUnref", b0) \in Nat /\ P("destroyData", b0) \in Nat
    BY BlockIs
  <2>2. CountedAt(m_count[b0], m_weakCount[b0], strong[b0], weak[b0], H(b0), K(b0),
                  P("unref", b0), P("weakUnref", b0), P("destroyData", b0), objects[b0].life)
    BY <1>4 DEF Counted
  <2>3. CountedAt(m_count[b0], m_weakCount[b0] + 1, strong[b0], weak[b0] + 1, H(b0), K(b0),
                  P("unref", b0), P("weakUnref", b0), P("destroyData", b0), objects[b0].life)
    BY <2>1, <2>2, CountsMove
  <2> QED
    BY <1>5, <2>3
<1> QED
  BY <1>1, <1>3, <1>4, <1>5, <1>6, HandleStep

(* What a call on the block b0 that is pushed or taken changes.             *)
Push(k0, b0, s) == << <<k0, b0>> >> \o s

LEMMA Kinds == "unref" \in Kind /\ "weakUnref" \in Kind /\ "destroyData" \in Kind
BY DEF Kind

LEMMA PushIsStack ==
    ASSUME NEW s \in Seq(Call), NEW k0 \in Kind, NEW b0 \in Controls
    PROVE  /\ Push(k0, b0, s) \in Seq(Call) /\ Push(k0, b0, s) # <<>>
           /\ Head(Push(k0, b0, s)) = <<k0, b0>>
<1> DEFINE y == <<k0, b0>>
<1>1. y \in Call
  BY DEF Call
<1> HIDE DEF y
<1>2. <<y>> \o s \in Seq(Call) /\ <<y>> \o s # <<>> /\ Head(<<y>> \o s) = y
  BY <1>1
<1> QED
  BY <1>2 DEF Push, y

LEMMA PushCounts ==
    ASSUME NEW s \in Seq(Call), NEW k0 \in Kind, NEW b0 \in Controls
    PROVE  /\ Count(Push(k0, b0, s), <<k0, b0>>) = Count(s, <<k0, b0>>) + 1
           /\ \A b, k : k # k0 \/ b # b0 => Count(Push(k0, b0, s), <<k, b>>) = Count(s, <<k, b>>)
<1> DEFINE y == <<k0, b0>>
<1>1. y \in Call /\ Push(k0, b0, s) = <<y>> \o s
  BY DEF Call, Push
<1>2. \A b, k : y = <<k, b>> <=> (k = k0 /\ b = b0)
  OBVIOUS
<1> HIDE DEF y
<1>3. ASSUME NEW x
      PROVE  Count(Push(k0, b0, s), x) = IF y = x THEN Count(s, x) + 1 ELSE Count(s, x)
  BY <1>1, CountPush
<1>4. Count(Push(k0, b0, s), y) = Count(s, y) + 1
  BY <1>3
<1>5. ASSUME NEW b, NEW k, k # k0 \/ b # b0
      PROVE  Count(Push(k0, b0, s), <<k, b>>) = Count(s, <<k, b>>)
  <2>1. y # <<k, b>>
    BY <1>2, <1>5
  <2> QED
    BY <1>3, <2>1
<1> QED
  BY <1>4, <1>5 DEF y

LEMMA PushOthers ==
    ASSUME NEW s \in Seq(Call), NEW k0 \in Kind, NEW b0 \in Controls
    PROVE  /\ \A b : Absent(s, b) /\ b # b0 => Absent(Push(k0, b0, s), b)
           /\ ThenWeakUnref(s) /\ k0 # "destroyData" => ThenWeakUnref(Push(k0, b0, s))
<1> DEFINE y == <<k0, b0>>
<1>1. y \in Call /\ y[1] = k0 /\ y[2] = b0 /\ Push(k0, b0, s) = <<y>> \o s
  BY DEF Call, Push
<1> HIDE DEF y
<1>2. \A b : Absent(s, b) /\ b # b0 => Absent(Push(k0, b0, s), b)
  BY <1>1, AbsentPush
<1>3. ThenWeakUnref(s) /\ k0 # "destroyData" => ThenWeakUnref(Push(k0, b0, s))
  BY <1>1, ThenPush
<1> QED
  BY <1>2, <1>3

LEMMA PopOff ==
    ASSUME NEW k0 \in Kind, NEW b0 \in Controls, RefInv, Ref!Executes(k0, b0)
    PROVE  /\ calls # <<>> /\ calls \in Seq(Call) /\ Tail(calls) \in Seq(Call)
           /\ calls = Push(k0, b0, Tail(calls))
           /\ \A x : Count(Tail(calls), x) \in Nat
           /\ P(k0, b0) = Count(Tail(calls), <<k0, b0>>) + 1
           /\ \A b, k : k # k0 \/ b # b0 => P(k, b) = Count(Tail(calls), <<k, b>>)
           /\ \A b : Absent(calls, b) => Absent(Tail(calls), b)
           /\ ThenWeakUnref(Tail(calls))
<1> DEFINE t == Tail(calls)
<1>1. calls # <<>> /\ Head(calls) = <<k0, b0>> /\ calls \in Seq(Call) /\ ThenWeakUnref(calls)
  BY DEF Ref!Executes, RefInv, RefTypeOK
<1>2. t \in Seq(Call) /\ calls = <<Head(calls)>> \o t
  BY <1>1, PopCall
<1> HIDE DEF t
<1>3. calls = Push(k0, b0, t)
  BY <1>1, <1>2 DEF Push
<1>4. /\ P(k0, b0) = Count(t, <<k0, b0>>) + 1
      /\ \A b, k : k # k0 \/ b # b0 => P(k, b) = Count(t, <<k, b>>)
  <2>1. /\ Count(Push(k0, b0, t), <<k0, b0>>) = Count(t, <<k0, b0>>) + 1
        /\ \A b, k : k # k0 \/ b # b0 => Count(Push(k0, b0, t), <<k, b>>) = Count(t, <<k, b>>)
    BY <1>2, PushCounts
  <2>2. \A b, k : P(k, b) = Count(Push(k0, b0, t), <<k, b>>)
    BY <1>3 DEF P
  <2> QED
    BY <2>1, <2>2
<1>5. \A x : Count(t, x) \in Nat
  BY <1>2, CountIs
<1>6. \A b : Absent(calls, b) => Absent(t, b)
  BY <1>1, AbsentPop DEF t
<1>7. ThenWeakUnref(t)
  BY <1>1, ThenPop DEF t
<1> QED
  BY <1>1, <1>2, <1>3, <1>4, <1>5, <1>6, <1>7 DEF t

(* A step that is about one block and leaves the objects alone.             *)
LEMMA OneBlockStep ==
    ASSUME RefSizes, RefInv, NEW b0 \in Controls, control[b0] = "alive",
           UNCHANGED objects, RefTypeOK', ThenWeakUnref(calls'),
           \A b \in Controls : b # b0 =>
               /\ m_count'[b] = m_count[b] /\ m_weakCount'[b] = m_weakCount[b]
               /\ strong'[b] = strong[b] /\ weak'[b] = weak[b] /\ control'[b] = control[b]
               /\ P("unref", b)' = P("unref", b) /\ P("weakUnref", b)' = P("weakUnref", b)
               /\ P("destroyData", b)' = P("destroyData", b)
               /\ Absent(calls, b) => Absent(calls', b),
           IF control'[b0] = "alive" THEN Counted(b0)' ELSE Unreferenced(b0)'
    PROVE  RefInv'
<1>1. \A b \in Controls : H(b)' = H(b) /\ K(b)' = K(b)
  BY SamePointers
<1>2. ASSUME NEW b \in Controls
      PROVE  OwnsInOrder(b)' /\ IF control'[b] = "alive" THEN Counted(b)' ELSE Unreferenced(b)'
  <2>1. OwnsInOrder(b)'
    BY BlockIs DEF OwnsInOrder
  <2>2. CASE b = b0
    BY <2>1, <2>2
  <2>3. CASE b # b0
    <3>1. ASSUME control[b] = "alive" PROVE Counted(b)'
      BY <1>1, <2>3, <3>1, BlockIs DEF Counted
    <3>2. ASSUME control[b] # "alive" PROVE Unreferenced(b)'
      BY <2>3, <3>2, BlockIs DEF Unreferenced
    <3>3. control'[b] = control[b]
      BY <2>3
    <3> QED
      BY <2>1, <3>1, <3>2, <3>3
  <2> QED
    BY <2>2, <2>3
<1> QED
  BY <1>2 DEF RefInv

LEMMA NumbersOf ==
    ASSUME RefSizes, RefInv, NEW b0 \in Controls, Counted(b0)
    PROVE  /\ m_count[b0] \in Nat /\ m_weakCount[b0] \in Nat /\ strong[b0] \in Nat
           /\ weak[b0] \in Nat
           /\ H(b0) \in Nat /\ K(b0) \in Nat
           /\ P("unref", b0) \in Nat /\ P("weakUnref", b0) \in Nat /\ P("destroyData", b0) \in Nat
           /\ CountedAt(m_count[b0], m_weakCount[b0], strong[b0], weak[b0], H(b0), K(b0),
                        P("unref", b0), P("weakUnref", b0), P("destroyData", b0), objects[b0].life)
BY BlockIs DEF Counted

LEMMA ClientUnrefStep ==
    ASSUME RefSizes, RefInv, NEW b0 \in Controls, Ref!clientUnref(b0)
    PROVE  RefInv'
<1>1. /\ calls = <<>> /\ strong[b0] > 0
      /\ strong' = [strong EXCEPT ![b0] = @ - 1]
      /\ calls' = << <<"unref", b0>> >>
      /\ UNCHANGED <<m_count, m_weakCount, control, objects, weak>>
  BY DEF Ref!clientUnref, Ref!Idle
<1>2. RefTypeOK /\ ThenWeakUnref(calls) /\ calls \in Seq(Call)
  BY DEF RefInv, RefTypeOK
<1>3. calls' = Push("unref", b0, calls)
  BY <1>1 DEF Push
<1>4. /\ calls' \in Seq(Call) /\ ThenWeakUnref(calls')
      /\ \A b : Absent(calls, b) /\ b # b0 => Absent(calls', b)
  BY <1>2, <1>3, Kinds, PushIsStack, PushOthers
<1>9. /\ P("unref", b0)' = P("unref", b0) + 1
      /\ \A b, k : k # "unref" \/ b # b0 => P(k, b)' = P(k, b)
  BY <1>2, <1>3, Kinds, PushCounts DEF P
<1>5. control[b0] = "alive" /\ Counted(b0)
  BY <1>1, PointedTo
<1>6. /\ strong'[b0] = strong[b0] - 1 /\ strong[b0] - 1 \in Nat
      /\ \A b \in Controls : b # b0 => strong'[b] = strong[b]
  BY <1>1, <1>2 DEF RefTypeOK
<1>7. RefTypeOK'
  BY <1>1, <1>2, <1>4, <1>6 DEF RefTypeOK
<1>8. Counted(b0)'
  <2>1. CountedAt(m_count[b0], m_weakCount[b0], strong[b0] - 1, weak[b0], H(b0), K(b0),
                  P("unref", b0) + 1, P("weakUnref", b0), P("destroyData", b0), objects[b0].life)
    BY <1>1, <1>5, NumbersOf, CountsMove
  <2>2. H(b0)' = H(b0) /\ K(b0)' = K(b0)
    BY <1>1, SamePointers
  <2> QED
    BY <1>1, <1>6, <1>9, <2>1, <2>2 DEF Counted
<1>10. \A b \in Controls : b # b0 =>
           /\ m_count'[b] = m_count[b] /\ m_weakCount'[b] = m_weakCount[b]
           /\ strong'[b] = strong[b] /\ weak'[b] = weak[b] /\ control'[b] = control[b]
           /\ P("unref", b)' = P("unref", b) /\ P("weakUnref", b)' = P("weakUnref", b)
           /\ P("destroyData", b)' = P("destroyData", b)
           /\ Absent(calls, b) => Absent(calls', b)
  BY <1>1, <1>4, <1>6, <1>9
<1> QED
  BY <1>1, <1>4, <1>5, <1>7, <1>8, <1>10, OneBlockStep

LEMMA ClientWeakUnrefStep ==
    ASSUME RefSizes, RefInv, NEW b0 \in Controls, Ref!clientWeakUnref(b0)
    PROVE  RefInv'
<1>1. /\ calls = <<>> /\ weak[b0] > 0
      /\ weak' = [weak EXCEPT ![b0] = @ - 1]
      /\ calls' = << <<"weakUnref", b0>> >>
      /\ UNCHANGED <<m_count, m_weakCount, control, objects, strong>>
  BY DEF Ref!clientWeakUnref, Ref!Idle
<1>2. RefTypeOK /\ ThenWeakUnref(calls) /\ calls \in Seq(Call)
  BY DEF RefInv, RefTypeOK
<1>3. calls' = Push("weakUnref", b0, calls)
  BY <1>1 DEF Push
<1>4. /\ calls' \in Seq(Call) /\ ThenWeakUnref(calls')
      /\ \A b : Absent(calls, b) /\ b # b0 => Absent(calls', b)
  BY <1>2, <1>3, Kinds, PushIsStack, PushOthers
<1>9. /\ P("weakUnref", b0)' = P("weakUnref", b0) + 1
      /\ \A b, k : k # "weakUnref" \/ b # b0 => P(k, b)' = P(k, b)
  BY <1>2, <1>3, Kinds, PushCounts DEF P
<1>5. control[b0] = "alive" /\ Counted(b0)
  BY <1>1, PointedTo
<1>6. /\ weak'[b0] = weak[b0] - 1 /\ weak[b0] - 1 \in Nat
      /\ \A b \in Controls : b # b0 => weak'[b] = weak[b]
  BY <1>1, <1>2 DEF RefTypeOK
<1>7. RefTypeOK'
  BY <1>1, <1>2, <1>4, <1>6 DEF RefTypeOK
<1>8. Counted(b0)'
  <2>1. CountedAt(m_count[b0], m_weakCount[b0], strong[b0], weak[b0] - 1, H(b0), K(b0),
                  P("unref", b0), P("weakUnref", b0) + 1, P("destroyData", b0), objects[b0].life)
    BY <1>1, <1>5, NumbersOf, CountsMove
  <2>2. H(b0)' = H(b0) /\ K(b0)' = K(b0)
    BY <1>1, SamePointers
  <2> QED
    BY <1>1, <1>6, <1>9, <2>1, <2>2 DEF Counted
<1>10. \A b \in Controls : b # b0 =>
           /\ m_count'[b] = m_count[b] /\ m_weakCount'[b] = m_weakCount[b]
           /\ strong'[b] = strong[b] /\ weak'[b] = weak[b] /\ control'[b] = control[b]
           /\ P("unref", b)' = P("unref", b) /\ P("weakUnref", b)' = P("weakUnref", b)
           /\ P("destroyData", b)' = P("destroyData", b)
           /\ Absent(calls, b) => Absent(calls', b)
  BY <1>1, <1>4, <1>6, <1>9
<1> QED
  BY <1>1, <1>4, <1>5, <1>7, <1>8, <1>10, OneBlockStep

LEMMA UnrefStep ==
    ASSUME RefSizes, RefInv, NEW b0 \in Controls, Ref!unref(b0)
    PROVE  RefInv'
<1> DEFINE t == Tail(calls)
           w == Push("weakUnref", b0, t)
<1>1. /\ Ref!Executes("unref", b0)
      /\ m_count' = [m_count EXCEPT ![b0] = @ - 1]
      /\ calls' = (IF m_count[b0] - 1 <= 0 THEN << <<"destroyData", b0>> >> ELSE <<>>)
                     \o << <<"weakUnref", b0>> >> \o t
      /\ UNCHANGED <<m_weakCount, control, objects, strong, weak>>
  BY DEF Ref!unref
<1>2. RefTypeOK
  BY DEF RefInv
<1>3. control[b0] = "alive" /\ Counted(b0)
  BY <1>1, PointedTo
<1>4. /\ t \in Seq(Call) /\ ThenWeakUnref(t)
      /\ \A x : Count(t, x) \in Nat
      /\ P("unref", b0) = Count(t, <<"unref", b0>>) + 1
      /\ \A b, k : k # "unref" \/ b # b0 => P(k, b) = Count(t, <<k, b>>)
      /\ \A b : Absent(calls, b) => Absent(t, b)
  BY <1>1, Kinds, PopOff
<1> HIDE DEF t
<1>5. P("unref", b0) > 0
  BY <1>4
<1>6. m_count[b0] > 0 /\ m_count[b0] \in Nat
  <2>1. m_count[b0] \in Nat
    BY <1>3, NumbersOf
  <2> QED
    BY <1>3, <1>5, <2>1, NumbersOf, CountsHeld
<1>7. /\ m_count'[b0] = m_count[b0] - 1 /\ m_count[b0] - 1 \in Nat
      /\ \A b \in Controls : b # b0 => m_count'[b] = m_count[b]
  BY <1>1, <1>2, <1>6 DEF RefTypeOK
<1>8. /\ w \in Seq(Call) /\ ThenWeakUnref(w) /\ w # <<>> /\ Head(w) = <<"weakUnref", b0>>
      /\ \A b : Absent(t, b) /\ b # b0 => Absent(w, b)
  BY <1>4, Kinds, PushIsStack, PushOthers
<1>9. /\ Count(w, <<"weakUnref", b0>>) = Count(t, <<"weakUnref", b0>>) + 1
      /\ \A b, k : k # "weakUnref" \/ b # b0 => Count(w, <<k, b>>) = Count(t, <<k, b>>)
  BY <1>4, Kinds, PushCounts
<1> HIDE DEF w
<1>10. /\ P("unref", b0) - 1 = Count(w, <<"unref", b0>>)
       /\ P("weakUnref", b0) + 1 = Count(w, <<"weakUnref", b0>>)
       /\ P("destroyData", b0) = Count(w, <<"destroyData", b0>>)
       /\ \A b, k : b # b0 => P(k, b) = Count(w, <<k, b>>)
  BY <1>4, <1>9
<1>11. H(b0)' = H(b0) /\ K(b0)' = K(b0)
  BY <1>1, SamePointers
<1>12. \A b \in Controls : b # b0 =>
           /\ m_count'[b] = m_count[b] /\ m_weakCount'[b] = m_weakCount[b]
           /\ strong'[b] = strong[b] /\ weak'[b] = weak[b] /\ control'[b] = control[b]
  BY <1>1, <1>7
<1>13. CASE m_count[b0] - 1 > 0
  <2>1. calls' = w
    <3>1. <<>> \o << <<"weakUnref", b0>> >> = << <<"weakUnref", b0>> >>
      OBVIOUS
    <3>2. ~(m_count[b0] - 1 <= 0)
      BY <1>6, <1>13
    <3> QED
      BY <1>1, <3>1, <3>2 DEF w, Push
  <2>2. /\ P("unref", b0)' = P("unref", b0) - 1 /\ P("weakUnref", b0)' = P("weakUnref", b0) + 1
        /\ P("destroyData", b0)' = P("destroyData", b0)
        /\ \A b, k : b # b0 => P(k, b)' = P(k, b)
    BY <1>10, <2>1 DEF P
  <2>3. CountedAt(m_count[b0] - 1, m_weakCount[b0], strong[b0], weak[b0], H(b0), K(b0),
                  P("unref", b0) - 1, P("weakUnref", b0) + 1, P("destroyData", b0),
                  objects[b0].life)
    BY <1>3, <1>5, <1>13, NumbersOf, CountsUnref
  <2>4. Counted(b0)'
    BY <1>1, <1>7, <1>11, <2>2, <2>3 DEF Counted
  <2>5. RefTypeOK'
    BY <1>1, <1>2, <1>7, <1>8, <2>1 DEF RefTypeOK
  <2>6. \A b : Absent(calls, b) /\ b # b0 => Absent(calls', b)
    BY <1>4, <1>8, <2>1
  <2>7. \A b \in Controls : b # b0 =>
           /\ P("unref", b)' = P("unref", b) /\ P("weakUnref", b)' = P("weakUnref", b)
           /\ P("destroyData", b)' = P("destroyData", b)
           /\ Absent(calls, b) => Absent(calls', b)
    BY <2>2, <2>6
  <2> QED
    BY <1>1, <1>3, <1>8, <1>12, <2>1, <2>4, <2>5, <2>7, OneBlockStep
<1>14. CASE ~(m_count[b0] - 1 > 0)
  <2>1. calls' = Push("destroyData", b0, w)
    <3>1. (<< <<"destroyData", b0>> >> \o << <<"weakUnref", b0>> >>) \o t
             = << <<"destroyData", b0>> >> \o (<< <<"weakUnref", b0>> >> \o t)
      <4>1. << <<"destroyData", b0>> >> \in Seq(Call) /\ << <<"weakUnref", b0>> >> \in Seq(Call)
        BY DEF Call, Kind
      <4> QED
        BY <1>4, <4>1, ConcatAssociative
    <3>2. m_count[b0] - 1 <= 0
      BY <1>6, <1>14
    <3> QED
      BY <1>1, <3>1, <3>2 DEF w, Push
  <2>2. /\ calls' \in Seq(Call)
        /\ \A b : Absent(w, b) /\ b # b0 => Absent(calls', b)
    BY <1>8, <2>1, Kinds, PushIsStack, PushOthers
  <2>3. ThenWeakUnref(calls')
    <3>1. <<"destroyData", b0>> \in Call /\ <<"destroyData", b0>>[2] = b0
      BY DEF Call, Kind
    <3> QED
      BY <1>8, <2>1, <3>1, ThenPush DEF Push
  <2>4. /\ Count(calls', <<"destroyData", b0>>) = Count(w, <<"destroyData", b0>>) + 1
        /\ \A b, k : k # "destroyData" \/ b # b0 =>
              Count(calls', <<k, b>>) = Count(w, <<k, b>>)
    BY <1>8, <2>1, Kinds, PushCounts
  <2>5. /\ P("unref", b0)' = P("unref", b0) - 1 /\ P("weakUnref", b0)' = P("weakUnref", b0) + 1
        /\ P("destroyData", b0)' = P("destroyData", b0) + 1
        /\ \A b, k : b # b0 => P(k, b)' = P(k, b)
    BY <1>10, <2>4 DEF P
  <2>6. CountedAt(m_count[b0] - 1, m_weakCount[b0], strong[b0], weak[b0], H(b0), K(b0),
                  P("unref", b0) - 1, P("weakUnref", b0) + 1, P("destroyData", b0) + 1,
                  objects[b0].life)
    <3>1. m_count[b0] - 1 <= 0
      BY <1>6, <1>14
    <3> QED
      BY <1>3, <1>5, <3>1, NumbersOf, CountsUnrefLast
  <2>7. Counted(b0)'
    BY <1>1, <1>7, <1>11, <2>5, <2>6 DEF Counted
  <2>8. RefTypeOK'
    BY <1>1, <1>2, <1>7, <2>2 DEF RefTypeOK
  <2>9. \A b : Absent(calls, b) /\ b # b0 => Absent(calls', b)
    BY <1>4, <1>8, <2>2
  <2>10. \A b \in Controls : b # b0 =>
           /\ P("unref", b)' = P("unref", b) /\ P("weakUnref", b)' = P("weakUnref", b)
           /\ P("destroyData", b)' = P("destroyData", b)
           /\ Absent(calls, b) => Absent(calls', b)
    BY <2>5, <2>9
  <2> QED
    BY <1>1, <1>3, <1>12, <2>3, <2>7, <2>8, <2>10, OneBlockStep
<1> QED
  BY <1>13, <1>14

LEMMA WeakUnrefStep ==
    ASSUME RefSizes, RefInv, NEW b0 \in Controls, Ref!weakUnref(b0)
    PROVE  RefInv'
<1> DEFINE t == Tail(calls)
<1>1. /\ Ref!Executes("weakUnref", b0)
      /\ m_weakCount' = [m_weakCount EXCEPT ![b0] = @ - 1]
      /\ control' = IF m_weakCount[b0] - 1 <= 0 THEN [control EXCEPT ![b0] = "freed"] ELSE control
      /\ calls' = t
      /\ UNCHANGED <<m_count, objects, strong, weak>>
  BY DEF Ref!weakUnref
<1>2. RefTypeOK
  BY DEF RefInv
<1>3. control[b0] = "alive" /\ Counted(b0)
  BY <1>1, PointedTo
<1>4. /\ t \in Seq(Call) /\ ThenWeakUnref(t)
      /\ \A x : Count(t, x) \in Nat
      /\ P("weakUnref", b0) = Count(t, <<"weakUnref", b0>>) + 1
      /\ \A b, k : k # "weakUnref" \/ b # b0 => P(k, b) = Count(t, <<k, b>>)
      /\ \A b : Absent(calls, b) => Absent(t, b)
  BY <1>1, Kinds, PopOff
<1> HIDE DEF t
<1>5. /\ P("weakUnref", b0) > 0 /\ P("weakUnref", b0)' = P("weakUnref", b0) - 1
      /\ \A b, k : k # "weakUnref" \/ b # b0 => P(k, b)' = P(k, b)
  <2>1. \A b, k : P(k, b)' = Count(t, <<k, b>>)
    BY <1>1 DEF P
  <2>2. \A b, k : k # "weakUnref" \/ b # b0 => P(k, b)' = P(k, b)
    BY <1>4, <2>1
  <2> DEFINE n == Count(t, <<"weakUnref", b0>>)
  <2>3. n \in Nat /\ P("weakUnref", b0) = n + 1 /\ P("weakUnref", b0)' = n
    BY <1>4, <2>1
  <2> HIDE DEF n
  <2>4. P("weakUnref", b0) > 0 /\ P("weakUnref", b0)' = P("weakUnref", b0) - 1
    BY <2>3
  <2> QED
    BY <2>2, <2>4
<1>6. m_weakCount[b0] \in Nat /\ m_weakCount[b0] > 0
  BY <1>3, NumbersOf DEF CountedAt
<1>7. /\ m_weakCount'[b0] = m_weakCount[b0] - 1 /\ m_weakCount[b0] - 1 \in Nat
      /\ \A b \in Controls : b # b0 => m_weakCount'[b] = m_weakCount[b]
  BY <1>1, <1>2, <1>6 DEF RefTypeOK
<1>8. /\ control' \in [Controls -> {"none", "alive", "freed"}]
      /\ control'[b0] = IF m_weakCount[b0] - 1 <= 0 THEN "freed" ELSE "alive"
      /\ \A b \in Controls : b # b0 => control'[b] = control[b]
  BY <1>1, <1>2, <1>3 DEF RefTypeOK
<1>9. RefTypeOK'
  BY <1>1, <1>2, <1>4, <1>7, <1>8 DEF RefTypeOK
<1>10. H(b0)' = H(b0) /\ K(b0)' = K(b0)
  BY <1>1, SamePointers
<1>11. \A b \in Controls : b # b0 =>
           /\ m_count'[b] = m_count[b] /\ m_weakCount'[b] = m_weakCount[b]
           /\ strong'[b] = strong[b] /\ weak'[b] = weak[b] /\ control'[b] = control[b]
           /\ P("unref", b)' = P("unref", b) /\ P("weakUnref", b)' = P("weakUnref", b)
           /\ P("destroyData", b)' = P("destroyData", b)
           /\ Absent(calls, b) => Absent(calls', b)
  BY <1>1, <1>4, <1>5, <1>7, <1>8
<1>12. CASE m_weakCount[b0] - 1 > 0
  <2>1. CountedAt(m_count[b0], m_weakCount[b0] - 1, strong[b0], weak[b0], H(b0), K(b0),
                  P("unref", b0), P("weakUnref", b0) - 1, P("destroyData", b0), objects[b0].life)
    BY <1>3, <1>5, <1>12, NumbersOf, CountsWeakUnref
  <2>2. Counted(b0)'
    BY <1>1, <1>5, <1>7, <1>10, <2>1 DEF Counted
  <2>3. control'[b0] = "alive"
    BY <1>6, <1>8, <1>12
  <2> QED
    BY <1>1, <1>3, <1>4, <1>9, <1>11, <2>2, <2>3, OneBlockStep
<1>13. CASE ~(m_weakCount[b0] - 1 > 0)
  <2>1. m_weakCount[b0] - 1 <= 0 /\ control'[b0] = "freed"
    BY <1>6, <1>8, <1>13
  <2>2. /\ strong[b0] = 0 /\ weak[b0] = 0 /\ H(b0) = 0 /\ K(b0) = 0 /\ P("unref", b0) = 0
        /\ P("weakUnref", b0) = 1
        /\ P("destroyData", b0) = 0 => objects[b0].life # "alive"
    <3>1. /\ m_count[b0] \in Nat /\ m_weakCount[b0] \in Nat /\ strong[b0] \in Nat
          /\ weak[b0] \in Nat
          /\ H(b0) \in Nat /\ K(b0) \in Nat
          /\ P("unref", b0) \in Nat /\ P("weakUnref", b0) \in Nat /\ P("destroyData", b0) \in Nat
          /\ CountedAt(m_count[b0], m_weakCount[b0], strong[b0], weak[b0], H(b0), K(b0),
                       P("unref", b0), P("weakUnref", b0), P("destroyData", b0), objects[b0].life)
      BY <1>3, NumbersOf
    <3>2. P("weakUnref", b0) > 0
      BY <1>5
    <3> HIDE DEF t
    <3> DEFINE mc == m_count[b0]
               mw == m_weakCount[b0]
               st == strong[b0]
               wk == weak[b0]
               h == H(b0)
               k == K(b0)
               pu == P("unref", b0)
               pw == P("weakUnref", b0)
    <3>3. /\ strong[b0] = 0 /\ weak[b0] = 0 /\ H(b0) = 0 /\ K(b0) = 0 /\ P("unref", b0) = 0
          /\ P("weakUnref", b0) = 1
      <4>1. /\ mc \in Nat /\ mw \in Nat /\ st \in Nat /\ wk \in Nat /\ h \in Nat /\ k \in Nat
            /\ pu \in Nat /\ pw \in Nat
        BY <3>1
      <4>2. mc = st + h + pu /\ mw = mc + wk + k + pw
        BY <3>1 DEF CountedAt
      <4>3. mw - 1 <= 0 /\ pw > 0
        BY <2>1, <3>2
      <4> HIDE DEF mc, mw, st, wk, h, k, pu, pw
      <4>4. mw = 1 /\ pw = 1 /\ mc = 0 /\ wk = 0 /\ k = 0
        BY <4>1, <4>2, <4>3
      <4>5. st = 0 /\ h = 0 /\ pu = 0
        BY <4>1, <4>2, <4>4
      <4> QED
        BY <4>4, <4>5 DEF wk, k, st, h, pu, pw
    <3>4. P("destroyData", b0) = 0 => objects[b0].life # "alive"
      BY <2>1, <3>1, <3>2 DEF CountedAt
    <3> QED
      BY <3>3, <3>4
  <2>3. Count(t, <<"weakUnref", b0>>) = 0
    <3>1. Count(t, <<"weakUnref", b0>>) \in Nat
      BY <1>4
    <3> QED
      BY <1>4, <2>2, <3>1
  <2>4. Count(t, <<"destroyData", b0>>) = 0
    BY <1>4, <2>3, WeakUnrefFollows
  <2>5. Count(t, <<"unref", b0>>) = 0 /\ P("destroyData", b0) = 0
    BY <1>4, <2>2, <2>4
  <2>6. Absent(calls', b0)
    BY <1>1, <1>4, <2>3, <2>4, <2>5, AbsentIs
  <2>7. \A c \in Controls : objects[c].holds # b0 /\ objects[c].knows # b0
    <3>1. \A c \in Controls : HoldsOf(objects)[c] # b0 /\ KnowsOf(objects)[c] # b0
      BY <2>2, FibreIs DEF H, K
    <3> QED
      BY <3>1 DEF HoldsOf, KnowsOf
  <2>8. Unreferenced(b0)'
    BY <1>1, <2>2, <2>5, <2>6, <2>7 DEF Unreferenced
  <2> QED
    BY <1>1, <1>3, <1>4, <1>9, <1>11, <2>1, <2>8, OneBlockStep
<1> QED
  BY <1>12, <1>13

(* One object's own pointers.                                               *)
LEMMA PointersMove ==
    ASSUME RefSizes, NEW b0 \in Controls,
           \A c \in Controls : c # b0 => objects'[c] = objects[c], NEW b
    PROVE  /\ H(b) \in Nat /\ K(b) \in Nat /\ H(b)' \in Nat /\ K(b)' \in Nat
           /\ H(b)' = H(b) - (IF objects[b0].holds = b THEN 1 ELSE 0)
                           + (IF objects'[b0].holds = b THEN 1 ELSE 0)
           /\ K(b)' = K(b) - (IF objects[b0].knows = b THEN 1 ELSE 0)
                           + (IF objects'[b0].knows = b THEN 1 ELSE 0)
<1>1. /\ HoldsOf(objects)[b0] = objects[b0].holds /\ HoldsOf(objects')[b0] = objects'[b0].holds
      /\ KnowsOf(objects)[b0] = objects[b0].knows /\ KnowsOf(objects')[b0] = objects'[b0].knows
      /\ \A d \in Controls : d # b0 => /\ HoldsOf(objects')[d] = HoldsOf(objects)[d]
                                       /\ KnowsOf(objects')[d] = KnowsOf(objects)[d]
  BY DEF HoldsOf, KnowsOf
<1>3. /\ Fibre(HoldsOf(objects), b) \in Nat /\ Fibre(HoldsOf(objects'), b) \in Nat
      /\ Fibre(HoldsOf(objects'), b) =
            Fibre(HoldsOf(objects), b) - (IF objects[b0].holds = b THEN 1 ELSE 0)
                                       + (IF objects'[b0].holds = b THEN 1 ELSE 0)
  <2> DEFINE f == HoldsOf(objects)
             g == HoldsOf(objects')
  <2>1. \A d \in Controls : d # b0 => g[d] = f[d]
    BY <1>1
  <2>2. f[b0] = objects[b0].holds /\ g[b0] = objects'[b0].holds
    BY <1>1
  <2> HIDE DEF f, g
  <2>3. /\ Fibre(f, b) \in Nat /\ Fibre(g, b) \in Nat
        /\ Fibre(g, b) = Fibre(f, b) - (IF f[b0] = b THEN 1 ELSE 0) + (IF g[b0] = b THEN 1 ELSE 0)
    <3>1. Others(f, b0, b) = Others(g, b0, b)
      BY <2>1 DEF Others
    <3>2. Fibre(f, b) \in Nat /\ Fibre(g, b) \in Nat /\ Others(f, b0, b) \in Nat
      BY FibreIs, FibreSum
    <3>3. /\ f[b0] = b => Fibre(f, b) = Others(f, b0, b) + 1
          /\ f[b0] # b => Fibre(f, b) = Others(f, b0, b)
      BY FibreSum
    <3>4. /\ g[b0] = b => Fibre(g, b) = Others(g, b0, b) + 1
          /\ g[b0] # b => Fibre(g, b) = Others(g, b0, b)
      BY FibreSum
    <3> QED
      BY <3>1, <3>2, <3>3, <3>4
  <2> QED
    BY <2>2, <2>3 DEF f, g
<1>4. /\ Fibre(KnowsOf(objects), b) \in Nat /\ Fibre(KnowsOf(objects'), b) \in Nat
      /\ Fibre(KnowsOf(objects'), b) =
            Fibre(KnowsOf(objects), b) - (IF objects[b0].knows = b THEN 1 ELSE 0)
                                       + (IF objects'[b0].knows = b THEN 1 ELSE 0)
  <2> DEFINE f == KnowsOf(objects)
             g == KnowsOf(objects')
  <2>1. \A d \in Controls : d # b0 => g[d] = f[d]
    BY <1>1
  <2>2. f[b0] = objects[b0].knows /\ g[b0] = objects'[b0].knows
    BY <1>1
  <2> HIDE DEF f, g
  <2>3. /\ Fibre(f, b) \in Nat /\ Fibre(g, b) \in Nat
        /\ Fibre(g, b) = Fibre(f, b) - (IF f[b0] = b THEN 1 ELSE 0) + (IF g[b0] = b THEN 1 ELSE 0)
    <3>1. Others(f, b0, b) = Others(g, b0, b)
      BY <2>1 DEF Others
    <3>2. Fibre(f, b) \in Nat /\ Fibre(g, b) \in Nat /\ Others(f, b0, b) \in Nat
      BY FibreIs, FibreSum
    <3>3. /\ f[b0] = b => Fibre(f, b) = Others(f, b0, b) + 1
          /\ f[b0] # b => Fibre(f, b) = Others(f, b0, b)
      BY FibreSum
    <3>4. /\ g[b0] = b => Fibre(g, b) = Others(g, b0, b) + 1
          /\ g[b0] # b => Fibre(g, b) = Others(g, b0, b)
      BY FibreSum
    <3> QED
      BY <3>1, <3>2, <3>3, <3>4
  <2> QED
    BY <2>2, <2>3 DEF f, g
<1> QED
  BY <1>3, <1>4 DEF H, K

(* A client's pointer, moved into an object it holds.                       *)
LEMMA MoveInStep ==
    ASSUME RefSizes, RefInv, NEW b0 \in Controls, NEW c0 \in Controls,
           Ref!HoldIn(b0, c0) \/ Ref!KnowIn(b0, c0)
    PROVE  RefInv'
<1>1. /\ calls = <<>> /\ strong[b0] > 0
      /\ UNCHANGED <<m_count, m_weakCount, control, calls>>
  BY DEF Ref!HoldIn, Ref!KnowIn, Ref!Idle
<1>2. RefTypeOK
  BY DEF RefInv
<1>3. control[b0] = "alive" /\ Counted(b0)
  BY <1>1, PointedTo
<1>4. objects[b0].life = "alive" /\ objects[b0] \in AnObject
  <2>1. m_count[b0] > 0
    <3>1. m_count[b0] = strong[b0] + H(b0) + P("unref", b0)
      BY <1>3 DEF Counted, CountedAt
    <3> QED
      BY <1>1, <1>3, <3>1, NumbersOf
  <2> QED
    BY <1>3, <2>1, BlockIs DEF Counted, CountedAt
<1>5. \A b, k : P(k, b)' = P(k, b)
  BY <1>1 DEF P
<1>6. CASE Ref!HoldIn(b0, c0)
  <2>1. /\ b0 < c0 /\ strong[c0] > 0 /\ objects[b0].holds = Ref!Nobody
        /\ objects' = [objects EXCEPT ![b0].holds = c0]
        /\ strong' = [strong EXCEPT ![c0] = @ - 1] /\ UNCHANGED weak
    BY <1>6 DEF Ref!HoldIn
  <2>2. /\ objects'[b0] \in AnObject /\ objects'[b0].life = "alive"
        /\ objects'[b0].holds = c0 /\ objects'[b0].knows = objects[b0].knows
        /\ \A c \in Controls : c # b0 => objects'[c] = objects[c]
    BY <1>2, <1>4, <2>1 DEF RefTypeOK, AnObject
  <2>3. objects' \in [Controls -> AnObject]
    <3>1. objects' = [objects EXCEPT ![b0] = objects'[b0]]
      BY <1>2, <2>1, <2>2 DEF RefTypeOK
    <3> QED
      BY <1>2, <2>2, <3>1 DEF RefTypeOK
  <2>4. control[c0] = "alive" /\ Counted(c0)
    BY <2>1, PointedTo
  <2>5. /\ strong[c0] \in Nat /\ strong'[c0] = strong[c0] - 1 /\ strong[c0] - 1 \in Nat
        /\ \A b \in Controls : b # c0 => strong'[b] = strong[b]
    BY <1>2, <2>1 DEF RefTypeOK
  <2>6. RefTypeOK'
    BY <1>1, <1>2, <2>1, <2>3, <2>5 DEF RefTypeOK
  <2>7. c0 # Ref!Nobody
    BY DEF Ref!Nobody, RefSizes
  <2>8. /\ H(c0)' = H(c0) + 1 /\ K(c0)' = K(c0)
        /\ \A b \in Controls : b # c0 => H(b)' = H(b) /\ K(b)' = K(b)
    <3>1. ASSUME NEW b \in Controls
          PROVE  H(b)' = (IF b = c0 THEN H(b) + 1 ELSE H(b)) /\ K(b)' = K(b)
      <4>1. /\ H(b) \in Nat /\ K(b) \in Nat
            /\ H(b)' = H(b) - (IF objects[b0].holds = b THEN 1 ELSE 0)
                            + (IF objects'[b0].holds = b THEN 1 ELSE 0)
            /\ K(b)' = K(b) - (IF objects[b0].knows = b THEN 1 ELSE 0)
                            + (IF objects'[b0].knows = b THEN 1 ELSE 0)
        BY <2>2, PointersMove
      <4>2. b # Ref!Nobody
        BY DEF Ref!Nobody, RefSizes
      <4> QED
        BY <2>1, <2>2, <4>1, <4>2
    <3> QED
      BY <3>1
  <2>9. ASSUME NEW b \in Controls
        PROVE  OwnsInOrder(b)' /\ IF control'[b] = "alive" THEN Counted(b)' ELSE Unreferenced(b)'
    <3>1. OwnsInOrder(b)'
      BY <1>4, <2>1, <2>2, BlockIs DEF OwnsInOrder
    <3>2. CASE b = c0
      <4>1. CountedAt(m_count[c0], m_weakCount[c0], strong[c0] - 1, weak[c0], H(c0) + 1, K(c0),
                      P("unref", c0), P("weakUnref", c0), P("destroyData", c0), objects[c0].life)
        BY <2>1, <2>4, NumbersOf, CountsMove
      <4>2. objects'[c0].life = objects[c0].life
        BY <1>4, <2>2
      <4> QED
        BY <1>1, <1>5, <2>1, <2>4, <2>5, <2>8, <3>1, <3>2, <4>1, <4>2 DEF Counted
    <3>3. CASE b # c0
      <4>1. objects'[b].life = objects[b].life
        BY <1>4, <2>2
      <4>2. ASSUME control[b] = "alive" PROVE Counted(b)'
        <5>1. Counted(b)
          BY <4>2, BlockIs
        <5> QED
          BY <1>1, <1>5, <2>1, <2>5, <2>8, <3>3, <4>1, <5>1 DEF Counted
      <4>3. ASSUME control[b] # "alive" PROVE Unreferenced(b)'
        <5>1. Unreferenced(b)
          BY <4>3, BlockIs
        <5>2. \A c \in Controls : objects'[c].holds # b /\ objects'[c].knows # b
          BY <2>2, <3>3, <5>1 DEF Unreferenced
        <5> QED
          BY <1>1, <2>1, <2>5, <3>3, <4>1, <5>1, <5>2 DEF Unreferenced
      <4> QED
        BY <1>1, <3>1, <4>2, <4>3
    <3> QED
      BY <3>2, <3>3
  <2>10. ThenWeakUnref(calls')
    BY <1>1 DEF RefInv
  <2> QED
    BY <2>6, <2>9, <2>10 DEF RefInv
<1>7. CASE Ref!KnowIn(b0, c0)
  <2>1. /\ weak[c0] > 0 /\ objects[b0].knows = Ref!Nobody
        /\ objects' = [objects EXCEPT ![b0].knows = c0]
        /\ weak' = [weak EXCEPT ![c0] = @ - 1] /\ UNCHANGED strong
    BY <1>7 DEF Ref!KnowIn
  <2>2. /\ objects'[b0] \in AnObject /\ objects'[b0].life = "alive"
        /\ objects'[b0].knows = c0 /\ objects'[b0].holds = objects[b0].holds
        /\ \A c \in Controls : c # b0 => objects'[c] = objects[c]
    BY <1>2, <1>4, <2>1 DEF RefTypeOK, AnObject
  <2>3. objects' \in [Controls -> AnObject]
    <3>1. objects' = [objects EXCEPT ![b0] = objects'[b0]]
      BY <1>2, <2>1, <2>2 DEF RefTypeOK
    <3> QED
      BY <1>2, <2>2, <3>1 DEF RefTypeOK
  <2>4. control[c0] = "alive" /\ Counted(c0)
    BY <2>1, PointedTo
  <2>5. /\ weak[c0] \in Nat /\ weak'[c0] = weak[c0] - 1 /\ weak[c0] - 1 \in Nat
        /\ \A b \in Controls : b # c0 => weak'[b] = weak[b]
    BY <1>2, <2>1 DEF RefTypeOK
  <2>6. RefTypeOK'
    BY <1>1, <1>2, <2>1, <2>3, <2>5 DEF RefTypeOK
  <2>7. c0 # Ref!Nobody
    BY DEF Ref!Nobody, RefSizes
  <2>8. /\ K(c0)' = K(c0) + 1 /\ H(c0)' = H(c0)
        /\ \A b \in Controls : b # c0 => H(b)' = H(b) /\ K(b)' = K(b)
    <3>1. ASSUME NEW b \in Controls
          PROVE  K(b)' = (IF b = c0 THEN K(b) + 1 ELSE K(b)) /\ H(b)' = H(b)
      <4>1. /\ H(b) \in Nat /\ K(b) \in Nat
            /\ H(b)' = H(b) - (IF objects[b0].holds = b THEN 1 ELSE 0)
                            + (IF objects'[b0].holds = b THEN 1 ELSE 0)
            /\ K(b)' = K(b) - (IF objects[b0].knows = b THEN 1 ELSE 0)
                            + (IF objects'[b0].knows = b THEN 1 ELSE 0)
        BY <2>2, PointersMove
      <4>2. b # Ref!Nobody
        BY DEF Ref!Nobody, RefSizes
      <4> QED
        BY <2>1, <2>2, <4>1, <4>2
    <3> QED
      BY <3>1
  <2>9. ASSUME NEW b \in Controls
        PROVE  OwnsInOrder(b)' /\ IF control'[b] = "alive" THEN Counted(b)' ELSE Unreferenced(b)'
    <3>1. OwnsInOrder(b)'
      BY <1>4, <2>1, <2>2, BlockIs DEF OwnsInOrder
    <3>2. CASE b = c0
      <4>1. CountedAt(m_count[c0], m_weakCount[c0], strong[c0], weak[c0] - 1, H(c0), K(c0) + 1,
                      P("unref", c0), P("weakUnref", c0), P("destroyData", c0), objects[c0].life)
        BY <2>1, <2>4, NumbersOf, CountsMove
      <4>2. objects'[c0].life = objects[c0].life
        BY <1>4, <2>2
      <4> QED
        BY <1>1, <1>5, <2>1, <2>4, <2>5, <2>8, <3>1, <3>2, <4>1, <4>2 DEF Counted
    <3>3. CASE b # c0
      <4>1. objects'[b].life = objects[b].life
        BY <1>4, <2>2
      <4>2. ASSUME control[b] = "alive" PROVE Counted(b)'
        <5>1. Counted(b)
          BY <4>2, BlockIs
        <5> QED
          BY <1>1, <1>5, <2>1, <2>5, <2>8, <3>3, <4>1, <5>1 DEF Counted
      <4>3. ASSUME control[b] # "alive" PROVE Unreferenced(b)'
        <5>1. Unreferenced(b)
          BY <4>3, BlockIs
        <5>2. \A c \in Controls : objects'[c].holds # b /\ objects'[c].knows # b
          BY <2>2, <3>3, <5>1 DEF Unreferenced
        <5> QED
          BY <1>1, <2>1, <2>5, <3>3, <4>1, <5>1, <5>2 DEF Unreferenced
      <4> QED
        BY <1>1, <3>1, <4>2, <4>3
    <3> QED
      BY <3>2, <3>3
  <2>10. ThenWeakUnref(calls')
    BY <1>1 DEF RefInv
  <2> QED
    BY <2>6, <2>9, <2>10 DEF RefInv
<1> QED
  BY <1>6, <1>7

(* A destructor that gives up the pointer to c, if it has one.              *)
GivesUp(k0, c, s) == IF c = Ref!Nobody THEN s ELSE Push(k0, c, s)

LEMMA NobodyIsNoBlock == ASSUME RefSizes PROVE Ref!Nobody \notin Controls
BY DEF RefSizes, Ref!Nobody

LEMMA GivenUp ==
    ASSUME RefSizes, NEW s \in Seq(Call), ThenWeakUnref(s), NEW k0 \in {"unref", "weakUnref"},
           NEW c \in Controls \cup {Ref!Nobody}
    PROVE  /\ GivesUp(k0, c, s) \in Seq(Call) /\ ThenWeakUnref(GivesUp(k0, c, s))
           /\ c \in Controls => Count(GivesUp(k0, c, s), <<k0, c>>) = Count(s, <<k0, c>>) + 1
           /\ \A b \in Controls : \A k : k # k0 \/ b # c =>
                 Count(GivesUp(k0, c, s), <<k, b>>) = Count(s, <<k, b>>)
           /\ \A b : Absent(s, b) /\ b # c => Absent(GivesUp(k0, c, s), b)
<1>1. CASE c = Ref!Nobody
  <2>1. GivesUp(k0, c, s) = s
    BY <1>1 DEF GivesUp
  <2> QED
    BY <1>1, <2>1, NobodyIsNoBlock
<1>2. CASE c # Ref!Nobody
  <2>1. c \in Controls /\ GivesUp(k0, c, s) = Push(k0, c, s)
    BY <1>2 DEF GivesUp
  <2>2. k0 \in Kind /\ k0 # "destroyData"
    BY DEF Kind
  <2>3. Push(k0, c, s) \in Seq(Call)
    BY <2>1, <2>2, PushIsStack
  <2>4. ThenWeakUnref(Push(k0, c, s)) /\ \A b : Absent(s, b) /\ b # c => Absent(Push(k0, c, s), b)
    BY <2>1, <2>2, PushOthers
  <2>5. /\ Count(Push(k0, c, s), <<k0, c>>) = Count(s, <<k0, c>>) + 1
        /\ \A b, k : k # k0 \/ b # c => Count(Push(k0, c, s), <<k, b>>) = Count(s, <<k, b>>)
    BY <2>1, <2>2, PushCounts
  <2> QED
    BY <2>1, <2>3, <2>4, <2>5
<1> QED
  BY <1>1, <1>2

LEMMA DestroyStep ==
    ASSUME RefSizes, RefInv, NEW b0 \in Controls, Ref!destroyData(b0)
    PROVE  RefInv'
<1> DEFINE t == Tail(calls)
           ho == objects[b0].holds
           kn == objects[b0].knows
           w == GivesUp("weakUnref", kn, t)
           gone == [life |-> "destroyed", holds |-> Ref!Nobody, knows |-> Ref!Nobody]
<1>1. /\ Ref!Executes("destroyData", b0)
      /\ objects' = [objects EXCEPT ![b0] = gone]
      /\ calls' = (IF ho = Ref!Nobody THEN <<>> ELSE << <<"unref", ho>> >>)
                     \o (IF kn = Ref!Nobody THEN <<>> ELSE << <<"weakUnref", kn>> >>) \o t
      /\ UNCHANGED <<m_count, m_weakCount, control, strong, weak>>
  BY DEF Ref!destroyData
<1>2. RefTypeOK
  BY DEF RefInv
<1>3. control[b0] = "alive" /\ Counted(b0) /\ OwnsInOrder(b0)
  BY <1>1, PointedTo, BlockIs
<1>4. /\ t \in Seq(Call) /\ ThenWeakUnref(t)
      /\ P("destroyData", b0) = Count(t, <<"destroyData", b0>>) + 1
      /\ \A b, k : k # "destroyData" \/ b # b0 => P(k, b) = Count(t, <<k, b>>)
      /\ \A b : Absent(calls, b) => Absent(t, b)
  BY <1>1, Kinds, PopOff
<1>5. ho \in Controls \cup {Ref!Nobody} /\ kn \in Controls \cup {Ref!Nobody}
  <2>1. objects[b0] \in AnObject
    BY <1>2 DEF RefTypeOK
  <2> QED
    BY <2>1 DEF AnObject
<1>6. calls' = GivesUp("unref", ho, w)
  <2> DEFINE F == IF ho = Ref!Nobody THEN <<>> ELSE << <<"unref", ho>> >>
             G == IF kn = Ref!Nobody THEN <<>> ELSE << <<"weakUnref", kn>> >>
  <2>1. F \in Seq(Call) /\ G \in Seq(Call)
    BY <1>5 DEF Call, Kind
  <2>2. G \o t = w
    BY <1>4 DEF GivesUp, Push
  <2>3. F \o w = GivesUp("unref", ho, w)
    <3>1. w \in Seq(Call)
      BY <1>4, <1>5, GivenUp
    <3> HIDE DEF w
    <3> QED
      BY <3>1 DEF GivesUp, Push
  <2>4. (F \o G) \o t = F \o (G \o t)
    <3> HIDE DEF F, G, t
    <3> QED
      BY <1>4, <2>1, ConcatAssociative
  <2> QED
    BY <1>1, <2>2, <2>3, <2>4
<1>7. /\ w \in Seq(Call) /\ ThenWeakUnref(w)
      /\ kn \in Controls => Count(w, <<"weakUnref", kn>>) = Count(t, <<"weakUnref", kn>>) + 1
      /\ \A b \in Controls : \A k :
            k # "weakUnref" \/ b # kn => Count(w, <<k, b>>) = Count(t, <<k, b>>)
      /\ \A b : Absent(t, b) /\ b # kn => Absent(w, b)
  <2> HIDE DEF t, kn, w
  <2> QED
    BY <1>4, <1>5, GivenUp DEF w
<1>8. /\ calls' \in Seq(Call) /\ ThenWeakUnref(calls')
      /\ ho \in Controls => Count(calls', <<"unref", ho>>) = Count(w, <<"unref", ho>>) + 1
      /\ \A b \in Controls : \A k :
             k # "unref" \/ b # ho => Count(calls', <<k, b>>) = Count(w, <<k, b>>)
      /\ \A b : Absent(w, b) /\ b # ho => Absent(calls', b)
  <2>1. w \in Seq(Call) /\ ThenWeakUnref(w)
    BY <1>7
  <2> HIDE DEF ho, w
  <2> DEFINE v == GivesUp("unref", ho, w)
  <2>2. /\ v \in Seq(Call) /\ ThenWeakUnref(v)
        /\ ho \in Controls => Count(v, <<"unref", ho>>) = Count(w, <<"unref", ho>>) + 1
        /\ \A b \in Controls : \A k :
              k # "unref" \/ b # ho => Count(v, <<k, b>>) = Count(w, <<k, b>>)
        /\ \A b : Absent(w, b) /\ b # ho => Absent(v, b)
    BY <1>5, <2>1, GivenUp
  <2> QED
    BY <1>6, <2>2
<1>9. /\ objects'[b0].life = "destroyed"
      /\ objects'[b0].holds = Ref!Nobody /\ objects'[b0].knows = Ref!Nobody
      /\ \A c \in Controls : c # b0 => objects'[c] = objects[c]
      /\ objects' \in [Controls -> AnObject]
  <2>1. gone \in AnObject
    BY DEF AnObject
  <2> QED
    BY <1>1, <1>2, <2>1 DEF RefTypeOK
<1>10. RefTypeOK'
  BY <1>1, <1>2, <1>8, <1>9 DEF RefTypeOK
<1> HIDE DEF t, ho, kn, w, gone
<1>11. ASSUME NEW b \in Controls
       PROVE  /\ P("unref", b) \in Nat /\ P("weakUnref", b) \in Nat
              /\ P("unref", b)' = IF b = ho THEN P("unref", b) + 1 ELSE P("unref", b)
              /\ P("weakUnref", b)' = IF b = kn THEN P("weakUnref", b) + 1 ELSE P("weakUnref", b)
  <2>1. /\ P("unref", b) = Count(t, <<"unref", b>>)
        /\ P("weakUnref", b) = Count(t, <<"weakUnref", b>>)
    BY <1>4
  <2>2. /\ P("unref", b)' = Count(calls', <<"unref", b>>)
        /\ P("weakUnref", b)' = Count(calls', <<"weakUnref", b>>)
    BY DEF P
  <2>3. /\ Count(w, <<"unref", b>>) = Count(t, <<"unref", b>>)
        /\ Count(calls', <<"weakUnref", b>>) = Count(w, <<"weakUnref", b>>)
    BY <1>7, <1>8
  <2>4. Count(calls', <<"unref", b>>) =
            IF b = ho THEN Count(w, <<"unref", b>>) + 1 ELSE Count(w, <<"unref", b>>)
    BY <1>8
  <2>5. Count(w, <<"weakUnref", b>>) =
            IF b = kn THEN Count(t, <<"weakUnref", b>>) + 1 ELSE Count(t, <<"weakUnref", b>>)
    BY <1>7
  <2>6. P("unref", b) \in Nat /\ P("weakUnref", b) \in Nat
    BY BlockIs
  <2> QED
    BY <2>1, <2>2, <2>3, <2>4, <2>5, <2>6
<1>12. /\ P("destroyData", b0) > 0 /\ P("destroyData", b0)' = P("destroyData", b0) - 1
       /\ \A b \in Controls : b # b0 => P("destroyData", b)' = P("destroyData", b)
  <2>1. \A b \in Controls : P("destroyData", b)' = Count(t, <<"destroyData", b>>)
    BY <1>7, <1>8 DEF P
  <2> DEFINE n == Count(t, <<"destroyData", b0>>)
  <2>2. n \in Nat /\ P("destroyData", b0) = n + 1 /\ P("destroyData", b0)' = n
    BY <1>4, <2>1, CountIs
  <2> HIDE DEF n
  <2>3. P("destroyData", b0) > 0 /\ P("destroyData", b0)' = P("destroyData", b0) - 1
    BY <2>2
  <2>4. ASSUME NEW b \in Controls, b # b0
        PROVE  P("destroyData", b)' = P("destroyData", b)
    BY <1>4, <2>1, <2>4
  <2> QED
    BY <2>3, <2>4
<1>13. ASSUME NEW b \in Controls
       PROVE  /\ H(b) \in Nat /\ H(b)' \in Nat /\ K(b) \in Nat /\ K(b)' \in Nat
              /\ H(b)' = IF b = ho THEN H(b) - 1 ELSE H(b)
              /\ K(b)' = IF b = kn THEN K(b) - 1 ELSE K(b)
  <2>1. /\ H(b) \in Nat /\ K(b) \in Nat /\ H(b)' \in Nat /\ K(b)' \in Nat
        /\ H(b)' = H(b) - (IF objects[b0].holds = b THEN 1 ELSE 0)
                        + (IF objects'[b0].holds = b THEN 1 ELSE 0)
        /\ K(b)' = K(b) - (IF objects[b0].knows = b THEN 1 ELSE 0)
                        + (IF objects'[b0].knows = b THEN 1 ELSE 0)
    BY <1>9, PointersMove
  <2>2. objects'[b0].holds # b /\ objects'[b0].knows # b
    BY <1>9, NobodyIsNoBlock
  <2> QED
    BY <2>1, <2>2 DEF ho, kn
<1>14. ASSUME NEW b \in Controls, control[b] = "alive"
       PROVE  CountedAt(m_count[b], m_weakCount[b], strong[b], weak[b], H(b)', K(b)',
                        P("unref", b)', P("weakUnref", b)', P("destroyData", b), objects[b].life)
  <2> DEFINE mc == m_count[b]
             mw == m_weakCount[b]
             st == strong[b]
             wk == weak[b]
             h == H(b)
             k == K(b)
             pu == P("unref", b)
             pw == P("weakUnref", b)
             pd == P("destroyData", b)
             life == objects[b].life
             h1 == H(b)'
             k1 == K(b)'
             pu1 == P("unref", b)'
             pw1 == P("weakUnref", b)'
  <2>1. /\ mc \in Nat /\ mw \in Nat /\ st \in Nat /\ wk \in Nat /\ h \in Nat /\ k \in Nat
        /\ pu \in Nat /\ pw \in Nat /\ pd \in Nat
        /\ CountedAt(mc, mw, st, wk, h, k, pu, pw, pd, life)
    BY <1>14, BlockIs, NumbersOf
  <2>2. /\ h1 \in Nat /\ (h1 = IF b = ho THEN h - 1 ELSE h)
        /\ k1 \in Nat /\ (k1 = IF b = kn THEN k - 1 ELSE k)
    BY <1>13
  <2>3. (pu1 = IF b = ho THEN pu + 1 ELSE pu) /\ (pw1 = IF b = kn THEN pw + 1 ELSE pw)
    BY <1>11
  <2> HIDE DEF mc, mw, st, wk, h, k, pu, pw, pd, life, h1, k1, pu1, pw1
  <2>4. pu1 \in Nat /\ pw1 \in Nat
    BY <2>1, <2>3
  <2>5. CountedAt(mc, mw, st, wk, h1, k, pu1, pw, pd, life)
    <3>1. CASE b = ho
      <4>1. h > 0 /\ h1 = h - 1 /\ pu1 = pu + 1
        BY <2>1, <2>2, <2>3, <3>1
      <4>2. CountedAt(mc, mw, st, wk, h - 1, k, pu + 1, pw, pd, life)
        BY <2>1, <4>1, CountsMove
      <4> QED
        BY <4>1, <4>2
    <3>2. CASE b # ho
      BY <2>1, <2>2, <2>3, <3>2
    <3> QED
      BY <3>1, <3>2
  <2>6. CountedAt(mc, mw, st, wk, h1, k1, pu1, pw1, pd, life)
    <3>1. CASE b = kn
      <4>1. k > 0 /\ k1 = k - 1 /\ pw1 = pw + 1
        BY <2>1, <2>2, <2>3, <3>1
      <4>2. CountedAt(mc, mw, st, wk, h1, k - 1, pu1, pw + 1, pd, life)
        BY <2>1, <2>2, <2>4, <2>5, <4>1, CountsMove
      <4> QED
        BY <4>1, <4>2
    <3>2. CASE b # kn
      BY <2>2, <2>3, <2>5, <3>2
    <3> QED
      BY <3>1, <3>2
  <2> QED
    BY <2>6 DEF mc, mw, st, wk, h, k, pu, pw, pd, life, h1, k1, pu1, pw1
<1>15. ASSUME NEW b \in Controls
       PROVE  OwnsInOrder(b)' /\ IF control'[b] = "alive" THEN Counted(b)' ELSE Unreferenced(b)'
  <2>1. OwnsInOrder(b)'
    <3>1. CASE b = b0
      BY <1>9, <3>1 DEF OwnsInOrder
    <3>2. CASE b # b0
      BY <1>9, <3>2, BlockIs DEF OwnsInOrder
    <3> QED
      BY <3>1, <3>2
  <2>2. ASSUME control[b] = "alive" PROVE Counted(b)'
    <3>1. CountedAt(m_count[b], m_weakCount[b], strong[b], weak[b], H(b)', K(b)',
                    P("unref", b)', P("weakUnref", b)', P("destroyData", b), objects[b].life)
      BY <1>14, <2>2
    <3>2. CASE b # b0
      <4>1. P("destroyData", b)' = P("destroyData", b) /\ objects'[b].life = objects[b].life
        BY <1>9, <1>12, <3>2
      <4> QED
        BY <1>1, <3>1, <4>1 DEF Counted
    <3>3. CASE b = b0
      <4>1. /\ m_count[b] \in Nat /\ m_weakCount[b] \in Nat /\ strong[b] \in Nat /\ weak[b] \in Nat
            /\ P("destroyData", b) \in Nat
        BY BlockIs
      <4>2. /\ H(b)' \in Nat /\ K(b)' \in Nat /\ P("unref", b)' \in Nat
            /\ P("weakUnref", b)' \in Nat
        BY <1>11, <1>13
      <4>3. P("destroyData", b) > 0
        BY <1>12, <3>3
      <4>4. CountedAt(m_count[b], m_weakCount[b], strong[b], weak[b], H(b)', K(b)',
                      P("unref", b)', P("weakUnref", b)', P("destroyData", b) - 1, "destroyed")
        BY <3>1, <4>1, <4>2, <4>3, CountsDestroyed
      <4>5. P("destroyData", b)' = P("destroyData", b) - 1 /\ objects'[b].life = "destroyed"
        BY <1>9, <1>12, <3>3
      <4> QED
        BY <1>1, <4>4, <4>5 DEF Counted
    <3> QED
      BY <3>2, <3>3
  <2>3. ASSUME control[b] # "alive" PROVE Unreferenced(b)'
    <3>1. Unreferenced(b) /\ b # b0
      BY <1>3, <2>3, BlockIs
    <3>2. /\ b # ho /\ b # kn /\ Absent(calls, b)
          /\ \A c \in Controls : objects[c].holds # b /\ objects[c].knows # b
      BY <3>1 DEF Unreferenced, ho, kn
    <3>3. Absent(calls', b)
      BY <1>4, <1>7, <1>8, <3>2
    <3>4. \A c \in Controls : objects'[c].holds # b /\ objects'[c].knows # b
      BY <1>9, <3>2, NobodyIsNoBlock
    <3>5. objects'[b].life = objects[b].life
      BY <1>9, <3>1
    <3> QED
      BY <1>1, <3>1, <3>3, <3>4, <3>5 DEF Unreferenced
  <2> QED
    BY <1>1, <2>1, <2>2, <2>3
<1> QED
  BY <1>8, <1>10, <1>15 DEF RefInv

LEMMA RefInit ==
    ASSUME Ref!Init
    PROVE  RefInv
<1>1. /\ m_count = [b \in Controls |-> 0] /\ m_weakCount = [b \in Controls |-> 0]
      /\ control = [b \in Controls |-> "none"]
      /\ objects =
             [b \in Controls |-> [life |-> "none", holds |-> Ref!Nobody, knows |-> Ref!Nobody]]
      /\ strong = [b \in Controls |-> 0] /\ weak = [b \in Controls |-> 0] /\ calls = <<>>
  BY DEF Ref!Init
<1>2. RefTypeOK
  BY <1>1 DEF RefTypeOK, AnObject
<1>3. Len(calls) = 0
  BY <1>1
<1>4. ThenWeakUnref(calls) /\ \A b : Absent(calls, b)
  BY <1>3 DEF ThenWeakUnref, Absent
<1>5. ASSUME NEW b \in Controls
      PROVE  OwnsInOrder(b) /\ control[b] # "alive" /\ Unreferenced(b)
  BY <1>1, <1>4, NobodyIsNoBlock DEF OwnsInOrder, Unreferenced, Ref!Nobody
<1> QED
  BY <1>2, <1>4, <1>5 DEF RefInv

LEMMA RefNext ==
    ASSUME RefSizes, RefInv, Ref!Next
    PROVE  RefInv'
<1>1. PICK b \in Controls :
          \/ Ref!alloc(b) \/ Ref!ref(b) \/ Ref!weakRef(b)
          \/ \E c \in Controls : Ref!HoldIn(b, c) \/ Ref!KnowIn(b, c)
          \/ Ref!clientUnref(b) \/ Ref!clientWeakUnref(b)
          \/ Ref!unref(b) \/ Ref!destroyData(b) \/ Ref!weakUnref(b)
  BY DEF Ref!Next
<1>2. CASE Ref!alloc(b)
  BY <1>2, AllocStep
<1>3. CASE Ref!ref(b)
  BY <1>3, RefStep
<1>4. CASE Ref!weakRef(b)
  BY <1>4, WeakRefStep
<1>5. CASE \E c \in Controls : Ref!HoldIn(b, c) \/ Ref!KnowIn(b, c)
  BY <1>5, MoveInStep
<1>6. CASE Ref!clientUnref(b)
  BY <1>6, ClientUnrefStep
<1>7. CASE Ref!clientWeakUnref(b)
  BY <1>7, ClientWeakUnrefStep
<1>8. CASE Ref!unref(b)
  BY <1>8, UnrefStep
<1>9. CASE Ref!destroyData(b)
  BY <1>9, DestroyStep
<1>10. CASE Ref!weakUnref(b)
  BY <1>10, WeakUnrefStep
<1> QED
  BY <1>1, <1>2, <1>3, <1>4, <1>5, <1>6, <1>7, <1>8, <1>9, <1>10

LEMMA RefUnchanged ==
    ASSUME RefInv, UNCHANGED refVars
    PROVE  RefInv'
<1>1. /\ m_count' = m_count /\ m_weakCount' = m_weakCount /\ control' = control
      /\ objects' = objects /\ strong' = strong /\ weak' = weak /\ calls' = calls
  BY DEF refVars
<1>2. \A b : /\ H(b)' = H(b) /\ K(b)' = K(b)
             /\ \A k : P(k, b)' = P(k, b)
  BY <1>1 DEF H, K, P
<1>3. \A b \in Controls : (Counted(b)' <=> Counted(b)) /\ (Unreferenced(b)' <=> Unreferenced(b))
                          /\ (OwnsInOrder(b)' <=> OwnsInOrder(b))
  BY <1>1, <1>2 DEF Counted, Unreferenced, OwnsInOrder
<1>4. RefTypeOK' /\ ThenWeakUnref(calls')
  BY <1>1 DEF RefInv, RefTypeOK
<1> QED
  BY <1>1, <1>3, <1>4 DEF RefInv

(* What the invariant says of the counts, and of a call to come.            *)
LEMMA CountsAreRight ==
    ASSUME RefSizes, RefInv
    PROVE  Ref!CountsPointers
<1>1. ASSUME NEW b \in Controls, control[b] = "alive"
      PROVE  /\ m_count[b] = strong[b] + Ref!Holding(b) + Ref!Pending("unref", b)
             /\ m_weakCount[b] = m_count[b] + weak[b] + Ref!Knowing(b) + Ref!Pending("weakUnref", b)
             /\ (objects[b].life = "alive") = (m_count[b] > 0 \/ Ref!Pending("destroyData", b) = 1)
  <2>1. CountedAt(m_count[b], m_weakCount[b], strong[b], weak[b], H(b), K(b),
                  P("unref", b), P("weakUnref", b), P("destroyData", b), objects[b].life)
    BY <1>1, BlockIs DEF Counted
  <2>2. /\ Ref!Holding(b) = H(b) /\ Ref!Knowing(b) = K(b)
        /\ Ref!Pending("unref", b) = P("unref", b)
        /\ Ref!Pending("weakUnref", b) = P("weakUnref", b)
        /\ Ref!Pending("destroyData", b) = P("destroyData", b)
    BY CountsAre DEF H, K, P
  <2> QED
    BY <2>1, <2>2 DEF CountedAt
<1>2. ASSUME NEW i \in DOMAIN calls
      PROVE  /\ control[calls[i][2]] = "alive"
             /\ calls[i][1] = "destroyData" => objects[calls[i][2]].life = "alive"
  <2>1. calls \in Seq(Call) /\ i \in 1..Len(calls) /\ calls[i] \in Call
    BY DEF RefInv, RefTypeOK
  <2>2. PICK k \in Kind, b \in Controls : calls[i] = <<k, b>>
    BY <2>1 DEF Call
  <2>3. calls[i][1] = k /\ calls[i][2] = b
    BY <2>2
  <2>4. control[b] = "alive"
    <3>1. ~Absent(calls, b)
      BY <2>1, <2>3 DEF Absent
    <3> QED
      BY <3>1, BlockIs DEF Unreferenced
  <2>5. ASSUME k = "destroyData" PROVE objects[b].life = "alive"
    <3>1. P("destroyData", b) # 0 /\ P("destroyData", b) \in Nat
      BY <2>1, <2>2, <2>5, CountIs DEF P
    <3>2. CountedAt(m_count[b], m_weakCount[b], strong[b], weak[b], H(b), K(b),
                    P("unref", b), P("weakUnref", b), P("destroyData", b), objects[b].life)
      BY <2>4, BlockIs DEF Counted
    <3> QED
      BY <3>1, <3>2 DEF CountedAt
  <2> QED
    BY <2>3, <2>4, <2>5
<1> QED
  BY <1>1, <1>2 DEF Ref!CountsPointers

(* Strong pointers go to later blocks: with no pointer of a client the      *)
(* first block that is still held would be held by nobody.                  *)
LEMMA NothingStays ==
    ASSUME RefSizes, RefInv
    PROVE  Ref!NothingLeaks
<1> SUFFICES ASSUME Ref!Idle, \A b \in Controls : strong[b] = 0 /\ weak[b] = 0
             PROVE  \A b \in Controls : control[b] # "alive" /\ objects[b].life # "alive"
  BY DEF Ref!NothingLeaks
<1>1. ASSUME NEW b \in Controls, control[b] = "alive"
      PROVE  /\ m_count[b] = H(b) /\ m_weakCount[b] = m_count[b] + K(b) /\ m_weakCount[b] > 0
             /\ (objects[b].life = "alive") = (m_count[b] > 0)
             /\ m_count[b] \in Nat /\ H(b) \in Nat /\ K(b) \in Nat
  <2>1. P("unref", b) = 0 /\ P("weakUnref", b) = 0 /\ P("destroyData", b) = 0
    BY NothingToExecute
  <2>2. CountedAt(m_count[b], m_weakCount[b], strong[b], weak[b], H(b), K(b),
                  P("unref", b), P("weakUnref", b), P("destroyData", b), objects[b].life)
    BY <1>1, BlockIs DEF Counted
  <2>3. m_count[b] \in Nat /\ m_weakCount[b] \in Nat /\ H(b) \in Nat /\ K(b) \in Nat
    BY BlockIs
  <2>4. strong[b] = 0 /\ weak[b] = 0
    OBVIOUS
  <2> QED
    BY <2>1, <2>2, <2>3, <2>4 DEF CountedAt
<1> DEFINE A == {b \in Controls : objects[b].life = "alive"}
<1>2. A \subseteq Nat
  BY DEF RefSizes
<1>3. ASSUME A # {} PROVE FALSE
  <2>1. PICK b \in A : \A c \in A : b <= c
    <3>1. PICK x : x \in A
      BY <1>3
    <3> HIDE DEF A
    <3> QED
      BY <1>2, <3>1, NatMin
  <2>2. b \in Controls /\ objects[b].life = "alive" /\ control[b] = "alive"
    BY <2>1, BlockIs DEF Unreferenced
  <2>3. H(b) # 0
    BY <1>1, <2>2
  <2>4. PICK c \in Controls : objects[c].holds = b
    <3> DEFINE f == HoldsOf(objects)
    <3>1. Fibre(f, b) # 0
      BY <2>3 DEF H
    <3> HIDE DEF f
    <3>2. ~(\A d \in Controls : f[d] # b)
      BY <3>1, NoFibre, Zenon
    <3> QED
      BY <3>2 DEF f, HoldsOf
  <2>5. objects[c].holds # Ref!Nobody
    BY <2>2, <2>4, NobodyIsNoBlock
  <2>6. c < b /\ c \in A
    BY <2>4, <2>5, BlockIs DEF OwnsInOrder
  <2>7. b <= c /\ b \in Nat /\ c \in Nat
    BY <1>2, <2>1, <2>6
  <2> QED
    BY <2>6, <2>7
<1>4. ASSUME NEW b \in Controls, control[b] = "alive" PROVE FALSE
  <2>1. objects[b].life # "alive"
    BY <1>3
  <2>2. K(b) # 0
    BY <1>1, <1>4, <2>1
  <2>3. PICK c \in Controls : objects[c].knows = b
    <3> DEFINE f == KnowsOf(objects)
    <3>1. Fibre(f, b) # 0
      BY <2>2 DEF K
    <3> HIDE DEF f
    <3>2. ~(\A d \in Controls : f[d] # b)
      BY <3>1, NoFibre, Zenon
    <3> QED
      BY <3>2 DEF f, KnowsOf
  <2>4. objects[c].knows # Ref!Nobody
    BY <2>3, NobodyIsNoBlock
  <2>5. objects[c].life = "alive"
    BY <2>3, <2>4, BlockIs DEF OwnsInOrder
  <2> QED
    BY <1>3, <2>5
<1> QED
  BY <1>3, <1>4

LEMMA RefAlways == Spec => []RefInv
<1>1. RefSizes
  BY RefAssumption
<1>2. Init => RefInv
  BY <1>1, RefInit DEF Init
<1>3. RefInv /\ [Next]_specVars => RefInv'
  <2> SUFFICES ASSUME RefInv, [Next]_specVars
               PROVE  RefInv'
    OBVIOUS
  <2>1. CASE Ref!Next
    BY <1>1, <2>1, RefNext
  <2>2. CASE UNCHANGED refVars
    BY <2>2, RefUnchanged
  <2> QED
    BY <2>1, <2>2 DEF Next, specVars
<1> QED
  BY <1>2, <1>3, PTL DEF Spec

(* RefCounted: at every point of nested destructions the counts of a        *)
(* control block are those of the pointers to it there are, an object is    *)
(* destroyed when its last strong pointer goes, once, and no call is about  *)
(* a freed block; a client that has given up all its pointers leaves        *)
(* nothing behind.                                                          *)
THEOREM CountsAreThoseOfPointers == Spec => []CountsPointers
<1>1. RefInv => CountsPointers
  BY RefAssumption, CountsAreRight, NothingStays DEF CountsPointers
<1> QED
  BY <1>1, RefAlways, PTL
=============================================================================
