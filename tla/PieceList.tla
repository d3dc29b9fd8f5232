----------------------------- MODULE PieceList -----------------------------
(***************************************************************************)
(* PieceList (src/src/WIP/PieceList.hh): a text as a list of pieces of     *)
(* reference counted buffers.  A cell of a text is the buffer it was first *)
(* inserted with and its index there, so that no two cells look alike.     *)
(*                                                                         *)
(* An allocation of a node may fail.  `lost' counts the references that no *)
(* piece has and nobody will give up: insertFinal() takes one too many     *)
(* when the list is empty, and splitting takes one before it allocates.    *)
(***************************************************************************)
EXTENDS Integers, Sequences, SequencesExt, FiniteSetsExt

CONSTANTS Bufs,       \* 1..n: a bound on the buffers allocated
          MaxInsert,  \* bound on the size of an inserted text
          MaxSize     \* bound on the size of the whole

VARIABLES buffers,    \* the contents of the buffers allocated, in their order
          refs,       \* the reference count of each
          m_lPieces,
          m_size,
          mine,       \* the buffers the client has a reference of
          text, lost  \* history

vars == <<buffers, refs, m_lPieces, m_size, mine, text, lost>>

NewText(size) == [i \in 1..size |-> <<Len(buffers) + 1, i>>]
IsBuffer(b) == b \in DOMAIN buffers
view(p) == SubSeq(buffers[p.buf], p.m_pos + 1, p.m_pos + p.m_size)
Piece(b, pos, size) == [buf |-> b, m_pos |-> pos, m_size |-> size]

NoRefs == [b \in Bufs |-> 0]
Add(f, b) == [f EXCEPT ![b] = @ + 1]
Sub(f, b) == [f EXCEPT ![b] = @ - 1]

(* Empty, or with the one buffer of the constructor, which the client also *)
(* has.                                                                    *)
Init ==
    /\ lost = NoRefs
    /\ \/ /\ buffers = <<>> /\ refs = NoRefs /\ m_lPieces = <<>> /\ m_size = 0
          /\ mine = {} /\ text = <<>>
       \/ \E size \in 1..MaxInsert :
             /\ buffers = << [i \in 1..size |-> <<1, i>>] >>
             /\ refs = [NoRefs EXCEPT ![1] = 2]
             /\ m_lPieces = <<Piece(1, 0, size)>> /\ m_size = size
             /\ mine = {1} /\ text = buffers[1]

(* posToNode(): the number of the piece, and the position in it.           *)
PieceAt(pos) ==
    LET before(i) == FoldLeft(LAMBDA x, y : x + y, 0, [k \in 1..i - 1 |-> m_lPieces[k].m_size])
        i == Max({k \in DOMAIN m_lPieces :
                     \A j \in 1..k - 1 : pos - before(j) >= m_lPieces[j].m_size})
    IN [i |-> i, pos |-> pos - before(i)]

Needs(at) == at.pos > 0 /\ at.pos < m_lPieces[at.i].m_size

(* insertFinal(), which splits the piece where the position is inside one. *)
insertFinal(pos, new) ==
    LET at == PieceAt(pos)
        p == m_lPieces[at.i]
    IN IF m_lPieces = <<>> THEN <<new>>
       ELSE IF at.pos = p.m_size THEN InsertAt(m_lPieces, at.i + 1, new)
       ELSE IF at.pos = 0 THEN InsertAt(m_lPieces, at.i, new)
       ELSE SubSeq(m_lPieces, 1, at.i - 1)
               \o <<Piece(p.buf, p.m_pos, at.pos), new,
                    Piece(p.buf, p.m_pos + at.pos, p.m_size - at.pos)>>
               \o SubSeq(m_lPieces, at.i + 1, Len(m_lPieces))

(* Mutant: splitting a piece takes no reference for its right part.        *)
CountedOnce(pos, b, counts) == IF m_lPieces = <<>> THEN Add(counts, b) ELSE counts

(* What insertFinal() does to the counts, when `counts' has the new piece. *)
Counted(pos, b, counts) ==
    IF m_lPieces = <<>> THEN Add(counts, b)
    ELSE IF Needs(PieceAt(pos)) THEN Add(counts, m_lPieces[PieceAt(pos).i].buf)
    ELSE counts

Inserts(pos, new, counts, cells) ==
    /\ m_size + new.m_size <= MaxSize
    /\ m_lPieces' = insertFinal(pos, new)
    /\ refs' = Counted(pos, new.buf, counts)
    /\ lost' = IF m_lPieces = <<>> THEN Add(lost, new.buf) ELSE lost
    /\ m_size' = m_size + new.m_size
    /\ text' = SubSeq(text, 1, pos) \o cells \o SubSeq(text, pos + 1, Len(text))
    /\ UNCHANGED mine

(* insert(pos, sv)                                                         *)
insert(pos, size) ==
    LET b == Len(buffers) + 1
    IN /\ b \in Bufs
       /\ buffers' = Append(buffers, NewText(size))
       /\ Inserts(pos, Piece(b, 0, size), [refs EXCEPT ![b] = 1], NewText(size))

(* insert(pos, size, pNode), which reads the buffer from its beginning:    *)
(* the client passes it nodes whose piece begins there.                    *)
insertOf(pos, k, size) ==
    LET p == m_lPieces[k]
    IN /\ p.m_pos = 0 /\ size \in 1..p.m_size
       /\ Inserts(pos, Piece(p.buf, 0, size), Add(refs, p.buf),
                  SubSeq(view(p), 1, size))
       /\ UNCHANGED buffers

(* Either, when the node for the left part cannot be allocated: the new    *)
(* text is given back, and a reference of the piece to split is lost.      *)
insertFails(pos) ==
    LET at == PieceAt(pos)
        b == m_lPieces[at.i].buf
    IN /\ m_lPieces # <<>> /\ Needs(at)
       /\ lost = NoRefs
       /\ refs' = Add(refs, b) /\ lost' = Add(lost, b)
       /\ UNCHANGED <<buffers, m_lPieces, m_size, mine, text>>

-----------------------------------------------------------------------------
(* Takes n cells from the front of piece i and those after it; s has the   *)
(* pieces and the counts.  An emptied piece gives up its reference.        *)
RECURSIVE Shed(_, _, _)
Shed(s, i, n) ==
    LET p == s.pieces[i]
        k == Min({p.m_size, n})
    IN IF n = 0 THEN s
       ELSE IF k = p.m_size
            THEN Shed([pieces |-> RemoveAt(s.pieces, i), refs |-> Sub(s.refs, p.buf)], i, n - k)
       ELSE [s EXCEPT !.pieces[i] = Piece(p.buf, p.m_pos + k, p.m_size - k)]

(* The piece the removal begins inside of and does not end inside of.      *)
Shortened(s, at, n) ==
    LET p == s.pieces[at.i]
    IN Shed([s EXCEPT !.pieces[at.i].m_size = at.pos], at.i + 1, n - (p.m_size - at.pos))

remove(pos, size) ==
    LET at == PieceAt(pos)
        p == m_lPieces[at.i]
        old == [pieces |-> m_lPieces, refs |-> refs]
        split == [pieces |-> SubSeq(m_lPieces, 1, at.i - 1)
                     \o <<Piece(p.buf, p.m_pos, at.pos),
                          Piece(p.buf, p.m_pos + at.pos + size, p.m_size - at.pos - size)>>
                     \o SubSeq(m_lPieces, at.i + 1, Len(m_lPieces)),
                  refs |-> Add(refs, p.buf)]
        new == IF at.pos = 0 THEN Shed(old, at.i, size)
               ELSE IF size < p.m_size - at.pos THEN split
               ELSE Shortened(old, at, size)
    IN /\ m_lPieces # <<>> /\ size > 0 /\ pos + size <= m_size
       /\ m_lPieces' = new.pieces /\ refs' = new.refs
       /\ m_size' = m_size - size
       /\ text' = SubSeq(text, 1, pos) \o SubSeq(text, pos + size + 1, Len(text))
       /\ UNCHANGED <<buffers, mine, lost>>

removeFails(pos, size) ==
    LET at == PieceAt(pos)
        b == m_lPieces[at.i].buf
    IN /\ m_lPieces # <<>> /\ at.pos > 0 /\ size < m_lPieces[at.i].m_size - at.pos
       /\ lost = NoRefs
       /\ refs' = Add(refs, b) /\ lost' = Add(lost, b)
       /\ UNCHANGED <<buffers, m_lPieces, m_size, mine, text>>

Uses(b) == Cardinality({i \in DOMAIN m_lPieces : m_lPieces[i].buf = b})
UnrefAll == [b \in Bufs |-> refs[b] - Uses(b)]
toString == FlattenSeq([i \in DOMAIN m_lPieces |-> view(m_lPieces[i])])

(* Copies the pieces into one buffer, which takes their place.             *)
defragment ==
    LET b == Len(buffers) + 1
    IN /\ m_size > 0 /\ b \in Bufs
       /\ buffers' = Append(buffers, toString)
       /\ refs' = [UnrefAll EXCEPT ![b] = 1]
       /\ m_lPieces' = <<Piece(b, 0, m_size)>>
       /\ UNCHANGED <<m_size, mine, text, lost>>

destroy ==
    /\ m_lPieces # <<>>
    /\ refs' = UnrefAll /\ m_lPieces' = <<>> /\ m_size' = 0 /\ text' = <<>>
    /\ UNCHANGED <<buffers, mine, lost>>

clientUnref(b) ==
    /\ mine' = mine \ {b}
    /\ refs' = Sub(refs, b)
    /\ UNCHANGED <<buffers, m_lPieces, m_size, text, lost>>

Next ==
    \/ \E pos \in 0..m_size :
          \/ \E size \in 0..MaxInsert : insert(pos, size)
          \/ \E k \in DOMAIN m_lPieces, size \in 1..MaxInsert : insertOf(pos, k, size)
          \/ insertFails(pos)
          \/ \E size \in 1..m_size : remove(pos, size) \/ removeFails(pos, size)
    \/ defragment \/ destroy
    \/ \E b \in mine : clientUnref(b)

Spec == Init /\ [][Next]_vars

-----------------------------------------------------------------------------
(* Insertions and removals across pieces leave the text they would leave   *)
(* in one buffer.                                                          *)
HoldsText == toString = text /\ m_size = Len(text)

(* A buffer lives as long as a piece of it, and its count is that of the   *)
(* references there are: nothing is freed in use, and without `lost'       *)
(* nothing stays.                                                          *)
CountsPieces ==
    \A b \in Bufs : refs[b] = Uses(b) + lost[b] + (IF b \in mine THEN 1 ELSE 0)
=============================================================================
