----------------------------- MODULE Transforms -----------------------------
(***************************************************************************)
(* Vectors, matrices and quaternions of src/src/WIP/math.hh, with integers *)
(* for the floating point numbers: turns are quarter turns, whose sines    *)
(* and cosines are integers, and a quaternion is kept as the smallest one  *)
(* with integer components, which QtNorm() would make a unit.  A vector is *)
(* a sequence of its components and a matrix one of its vectors m.v[0],    *)
(* m.v[1], ..., the columns.                                               *)
(***************************************************************************)
EXTENDS Integers, Sequences, SequencesExt, FiniteSetsExt

CONSTANTS Shifts, Scales, Quaternions, Eyes,  \* the arguments of the client
          Probes,                             \* points to transform
          MaxMoves

VARIABLES m,      \* the client's M4
          q,      \* a Qt with the rotations it made by quaternions alone
          moves   \* history: what m was made of, and what takes a point there

vars == <<m, q, moves>>

-----------------------------------------------------------------------------
Sum(s) == FoldLeft(LAMBDA x, y : x + y, 0, s)
Plus(u, v) == [i \in DOMAIN u |-> u[i] + v[i]]
Minus(u, v) == [i \in DOMAIN u |-> u[i] - v[i]]
Neg(v) == [i \in DOMAIN v |-> -v[i]]
Scaled(v, s) == [i \in DOMAIN v |-> v[i] * s]
Times(u, v) == [i \in DOMAIN u |-> u[i] * v[i]]
Dot(u, v) == Sum(Times(u, v))
V3Cross(l, r) == <<l[2] * r[3] - r[2] * l[3], l[3] * r[1] - r[3] * l[1],
                   l[1] * r[2] - r[1] * l[2]>>
V4From(v, w) == Append(v, w)
V3From(v) == SubSeq(v, 1, 3)

Iden(n) == [i \in 1..n |-> [j \in 1..n |-> IF i = j THEN 1 ELSE 0]]
MatScaled(a, s) == [i \in DOMAIN a |-> Scaled(a[i], s)]
MulVec(a, v) == FoldLeft(Plus, Scaled(a[1], v[1]),
                         [i \in 1..Len(v) - 1 |-> Scaled(a[i + 1], v[i + 1])])
Mul(a, b) == [i \in DOMAIN b |-> MulVec(a, b[i])]
Transpose(a) == [i \in DOMAIN a |-> [j \in DOMAIN a |-> a[j][i]]]

(* M2Det(), M3Det() and the 24 products of M4Det(): one for each           *)
(* permutation, with its sign.                                             *)
Perms(n) == {p \in [1..n -> 1..n] : Cardinality({p[i] : i \in 1..n}) = n}
SignOf(p) == IF Cardinality({ij \in (DOMAIN p) \X (DOMAIN p) :
                                ij[1] < ij[2] /\ p[ij[1]] > p[ij[2]]}) % 2 = 0 THEN 1 ELSE -1
Leibniz(n) == {<<SignOf(p), p>> : p \in Perms(n)}
Terms == [n \in 2..4 |-> Leibniz(n)]
Product(s) == FoldLeft(LAMBDA x, y : x * y, 1, s)
Det(a) == MapThenSumSet(LAMBDA t : t[1] * Product([i \in DOMAIN a |-> a[i][t[2][i]]]),
                        Terms[Len(a)])

Without(s, i) == SubSeq(s, 1, i - 1) \o SubSeq(s, i + 1, Len(s))
Minor(a, i, j) == Det([k \in 1..Len(a) - 1 |-> Without(Without(a, i)[k], j)])
Cofactors(a) ==
    [i \in DOMAIN a |-> [j \in DOMAIN a |->
        IF (i + j) % 2 = 0 THEN Minor(a, i, j) ELSE -Minor(a, i, j)]]
\* Mutant: the cofactors are not transposed.
AdjOfCofactors(a) == Cofactors(a)
Adj(a) == Transpose(Cofactors(a))

(* The matrices of the client's moves.                                     *)
TranslationFrom(t) == <<<<1, 0, 0, 0>>, <<0, 1, 0, 0>>, <<0, 0, 1, 0>>, V4From(t, 1)>>
ScaleFrom(s) == <<<<s[1], 0, 0, 0>>, <<0, s[2], 0, 0>>, <<0, 0, s[3], 0>>, <<0, 0, 0, 1>>>>
RotXFrom(c, s) == <<<<1, 0, 0, 0>>, <<0, c, s, 0>>, <<0, -s, c, 0>>, <<0, 0, 0, 1>>>>
RotYFrom(c, s) == <<<<c, 0, s, 0>>, <<0, 1, 0, 0>>, <<-s, 0, c, 0>>, <<0, 0, 0, 1>>>>
RotZFrom(c, s) == <<<<c, s, 0, 0>>, <<-s, c, 0, 0>>, <<0, 0, 1, 0>>, <<0, 0, 0, 1>>>>
RotFromAngles(x, y, z) ==
    Mul(Mul(RotZFrom(z[1], z[2]), RotYFrom(y[1], y[2])), RotXFrom(x[1], x[2]))
RotFrom(c, s, ax) ==
    LET x == ax[1]  y == ax[2]  z == ax[3]
    IN <<<<(1 - c) * x * x + c, (1 - c) * x * y - s * z, (1 - c) * x * z + s * y, 0>>,
         <<(1 - c) * x * y + s * z, (1 - c) * y * y + c, (1 - c) * y * z - s * x, 0>>,
         <<(1 - c) * x * z - s * y, (1 - c) * y * z + s * x, (1 - c) * z * z + c, 0>>,
         <<0, 0, 0, 1>>>>

(* Quaternions <<x, y, z, w>>; the entries of a rotation matrix are whole  *)
(* multiples of the square of the length.                                  *)
RECURSIVE QtNorm(_)
QtNorm(a) == IF \A i \in 1..4 : a[i] % 2 = 0 THEN QtNorm([i \in 1..4 |-> a[i] \div 2]) ELSE a
QtConj(a) == <<-a[1], -a[2], -a[3], a[4]>>
QtMul(l, r) ==
    <<l[4] * r[1] + l[1] * r[4] + l[2] * r[3] - l[3] * r[2],
      l[4] * r[2] - l[1] * r[3] + l[2] * r[4] + l[3] * r[1],
      l[4] * r[3] + l[1] * r[2] - l[2] * r[1] + l[3] * r[4],
      l[4] * r[4] - l[1] * r[1] - l[2] * r[2] - l[3] * r[3]>>
QtRot(a) ==
    LET x == a[1]  y == a[2]  z == a[3]  w == a[4]
        n == Dot(a, a)
        unit(k) == (2 * k) \div n
    IN <<<<1 - unit(y * y + z * z), unit(x * y + w * z), unit(x * z - w * y), 0>>,
         <<unit(x * y - w * z), 1 - unit(x * x + z * z), unit(y * z + w * x), 0>>,
         <<unit(x * z + w * y), unit(y * z - w * x), 1 - unit(x * x + y * y), 0>>,
         <<0, 0, 0, 1>>>>

transformation(t, rot, s) == Mul(Mul(TranslationFrom(t), QtRot(rot)), ScaleFrom(s))

(* The client's distances are along an axis: lengths are integers.         *)
Unit(v) == [i \in 1..3 |-> IF v[i] > 0 THEN 1 ELSE IF v[i] < 0 THEN -1 ELSE 0]
LookAt(eye, center, up) ==
    LET camDir == Unit(Minus(eye, center))
        camRight == Unit(V3Cross(up, camDir))
        camUp == V3Cross(camDir, camRight)
    IN Mul(Transpose(<<V4From(camRight, 0), V4From(camUp, 0), V4From(camDir, 0), <<0, 0, 0, 1>>>>),
           TranslationFrom(Neg(eye)))

-----------------------------------------------------------------------------
(* What a move does to a point.                                            *)
Moved(move, p) ==
    CASE move.kind = "translate" -> Plus(p, move.by)
      [] move.kind = "scale" -> Times(p, move.by)
      [] move.kind = "x" -> <<p[1], -move.by * p[3], move.by * p[2]>>
      [] move.kind = "y" -> <<-move.by * p[3], p[2], move.by * p[1]>>
      [] move.kind = "z" -> <<-move.by * p[2], move.by * p[1], p[3]>>
      [] move.kind = "axis" -> Plus(Scaled(move.by, Dot(move.by, p)), V3Cross(p, move.by))
      [] move.kind = "turn" ->
            LET r == QtMul(QtMul(move.by, V4From(p, 0)), QtConj(move.by))
            IN [i \in 1..3 |-> r[i] \div Dot(move.by, move.by)]
Move(kind, by) == [kind |-> kind, by |-> by]

Init == m = Iden(4) /\ q = <<0, 0, 0, 1>> /\ moves = <<>>

MultipliedBy(a, move) ==
    /\ Len(moves) < MaxMoves
    /\ m' = Mul(m, a)
    /\ moves' = Append(moves, move)

Translate(t) == MultipliedBy(TranslationFrom(t), Move("translate", t)) /\ UNCHANGED q
Scale(s) == MultipliedBy(ScaleFrom(s), Move("scale", s)) /\ UNCHANGED q
RotX(s) == MultipliedBy(RotXFrom(0, s), Move("x", s)) /\ UNCHANGED q
RotY(s) == MultipliedBy(RotYFrom(0, s), Move("y", s)) /\ UNCHANGED q
RotZ(s) == MultipliedBy(RotZFrom(0, s), Move("z", s)) /\ UNCHANGED q
Rot(ax) == MultipliedBy(RotFrom(0, 1, ax), Move("axis", ax)) /\ UNCHANGED q
Turn(r) == MultipliedBy(QtRot(r), Move("turn", r)) /\ q' = QtNorm(QtMul(q, r))

(* transformation() and M4RotFrom() of three angles make several at once.  *)
Transformation(t, r, s) ==
    /\ moves = <<>>
    /\ m' = transformation(t, r, s)
    /\ moves' = <<Move("translate", t), Move("turn", r), Move("scale", s)>>
    /\ q' = QtNorm(QtMul(q, r))
Angles(x, y, z) ==
    /\ moves = <<>>
    /\ m' = RotFromAngles(<<0, x>>, <<0, y>>, <<0, z>>)
    /\ moves' = <<Move("z", z), Move("y", y), Move("x", x)>>
    /\ UNCHANGED q

Next ==
    \/ \E t \in Shifts : Translate(t)
    \/ \E s \in Scales : Scale(s)
    \/ \E s \in {-1, 1} : RotX(s) \/ RotY(s) \/ RotZ(s)
    \/ \E i \in 1..3 : Rot(Iden(3)[i])
    \/ \E r \in Quaternions : Turn(r)
    \/ \E t \in Shifts, r \in Quaternions, s \in Scales : Transformation(t, r, s)
    \/ \E x, y, z \in {-1, 1} : Angles(x, y, z)

Spec == Init /\ [][Next]_vars

-----------------------------------------------------------------------------
Image(a, p) == V3From(MulVec(a, V4From(p, 1)))

(* A matrix made by multiplying on the right applies the moves from the    *)
(* last to the first.                                                      *)
AppliesMoves ==
    \A p \in Probes : Image(m, p) = FoldRight(Moved, moves, p)

(* The product of quaternions is the product of their rotations, which the *)
(* conjugate undoes.                                                       *)
QuaternionsTurn ==
    /\ (\A i \in DOMAIN moves : moves[i].kind = "turn") => m = QtRot(q)
    /\ Mul(QtRot(QtConj(q)), QtRot(q)) = Iden(4)

(* The volume is that of the scalings, and the adjugate over the           *)
(* determinant, which is M4Inv(), takes the matrix back; M3Adj() and       *)
(* M3Det() do so for its rotation and scaling.                             *)
Inverts ==
    LET upper == [i \in 1..3 |-> V3From(m[i])]
    IN /\ Det(m) = Product([i \in DOMAIN moves |->
                        IF moves[i].kind = "scale" THEN Product(moves[i].by) ELSE 1])
       /\ Mul(Adj(m), m) = MatScaled(Iden(4), Det(m))
       /\ Mul(Adj(upper), upper) = MatScaled(Iden(3), Det(upper))

(* From the eye the center lies straight ahead, down the z axis.           *)
LooksAhead ==
    \A e \in Eyes : LET a == LookAt(e.eye, e.center, e.up)
                        far == Minus(e.center, e.eye)
                    IN /\ Image(a, e.eye) = <<0, 0, 0>>
                       /\ Image(a, e.center)[1] = 0 /\ Image(a, e.center)[2] = 0
                       /\ Image(a, e.center)[3] < 0
                       /\ Image(a, Plus(e.eye, e.up))[2] > 0
=============================================================================
