------------------------------- MODULE Builder -------------------------------
(***************************************************************************)
(* The Builder that every print goes through (print.hh): a buffer given by *)
(* the caller ("span"), given by the caller with an allocator to grow      *)
(* ("growing", with or without a buffer), or allocated at the start        *)
(* ("prealloc").  `text' is what the client pushed, `live' counts the      *)
(* allocations not yet freed, and `lack' is by how much the width of the   *)
(* last push falls short of its text.  A builder that has written past its *)
(* buffer ends the behaviour.                                              *)
(***************************************************************************)
EXTENDS Integers, Sequences, SequencesExt, FiniteSetsExt

CONSTANTS Kinds, Caps,      \* the sizes of the buffers, and preallocs
          Chars, Filler, MaxText

VARIABLES kind, m_pData, m_size, live, text, lack

vars == <<kind, m_pData, m_size, live, text, lack>>

NUL == "NUL"
Junk == "junk"
m_cap == Len(m_pData)
m_bAllocated == kind = "prealloc"
Texts == BoundedSeq(Chars, 3)

Put(dst, at, src) ==
    [i \in DOMAIN dst |-> IF i \in at + 1..at + Len(src) THEN src[i - at] ELSE dst[i]]

(* The prealloc is an upper bound of what is allocated.                    *)
Init ==
    /\ kind \in Kinds
    /\ \E cap \in Caps \cup (IF kind = "growing" THEN {0} ELSE {}) :
          m_pData = [i \in 1..(IF kind = "prealloc" THEN Min({8, cap + 1}) ELSE cap) |-> Junk]
    /\ m_size = 0
    /\ live = IF kind = "prealloc" THEN 1 ELSE 0
    /\ text = <<>>
    /\ lack = 0

(* A buffer that was not allocated is left behind by each growth, and      *)
(* m_bAllocated stays false.                                               *)
Grows(newCap) == kind # "span"
grown(newCap) ==
    Put([i \in 1..newCap |-> Junk], 0, SubSeq(m_pData, 1, Min({m_size, newCap})))

(* The text `sv' is appended to `data', and the '\0' after it; what is      *)
(* written past its end is lost to the model.                              *)
Write(data, sv) ==
    /\ m_pData' = Put(data, m_size, Append(sv, NUL))
    /\ m_size' = m_size + Len(sv)
Grow(newCap, sv) ==
    /\ Write(grown(newCap), sv)
    /\ live' = IF m_bAllocated THEN live ELSE live + 1
NoGrowth == UNCHANGED live

Room == m_cap - 1 - m_size
Refused == UNCHANGED <<m_pData, m_size, live>>
Pushed(sv) ==
    /\ Len(text) + Len(sv) <= MaxText
    /\ text' = text \o sv /\ UNCHANGED kind
Plain == lack' = 0

pushChar(c) ==
    /\ IF m_size + 1 >= m_cap
       THEN IF Grows((m_cap + 1) * 2) THEN Grow((m_cap + 1) * 2, <<c>>) ELSE Refused
       ELSE Write(m_pData, <<c>>) /\ NoGrowth
    /\ Pushed(<<c>>) /\ Plain

(* Mutant: a text that does not fit leaves no room for the '\0'.           *)
pushToTheBrim(sv) ==
    /\ IF Len(sv) + m_size > m_cap
       THEN IF kind = "span"
            THEN IF Room <= 0 THEN Refused
                 ELSE Write(m_pData, SubSeq(sv, 1, Min({Room + 1, Len(sv)}))) /\ NoGrowth
            ELSE Grow((m_size + Len(sv) + 1) * 2, sv)
       ELSE Write(m_pData, sv) /\ NoGrowth
    /\ Pushed(sv) /\ Plain

(* A buffer that cannot grow takes what it has room for.                   *)
push(sv) ==
    /\ IF Len(sv) + m_size >= m_cap
       THEN IF kind = "span"
            THEN IF Room <= 0 THEN Refused
                 ELSE Write(m_pData, SubSeq(sv, 1, Room)) /\ NoGrowth
            ELSE Grow((m_size + Len(sv) + 1) * 2, sv)
       ELSE Write(m_pData, sv) /\ NoGrowth
    /\ Pushed(sv) /\ Plain

(* push() of an argument: cut to maxLen, and padded to the width.  A width *)
(* below the length makes the padding negative, and the room asked for     *)
(* less than the text.                                                     *)
Pad(n) == [i \in 1..n |-> Filler]
pushArg(sv, maxLen, padding, right) ==
    LET len == IF maxLen > 0 THEN Min({maxLen, Len(sv)}) ELSE Len(sv)
        width == Max({padding, maxLen})
        padSize == IF width > 0 THEN width - len ELSE 0
        cut == SubSeq(sv, 1, len)
        shown == IF right THEN Pad(padSize) \o cut ELSE cut \o Pad(padSize)
    IN /\ IF len + m_size + padSize >= m_cap
          THEN IF kind = "span"
               THEN IF Room <= 0 THEN Write(m_pData, <<>>) /\ NoGrowth
                    ELSE Write(m_pData, SubSeq(shown, 1, Min({Room, Len(shown)}))) /\ NoGrowth
               ELSE Grow((len + m_size + padSize + 1) * 2, shown)
          ELSE Write(m_pData, shown) /\ NoGrowth
       /\ Pushed(shown)
       /\ lack' = Max({0, -padSize})

reset ==
    /\ m_size' = 0 /\ text' = <<>> /\ Plain
    /\ UNCHANGED <<kind, m_pData, live>>

(* destroy() ends the use of the builder; the caller's buffer is left.     *)
destroy ==
    /\ kind # "destroyed"
    /\ live' = IF m_bAllocated THEN live - 1 ELSE live
    /\ m_pData' = <<>> /\ m_size' = 0 /\ text' = <<>> /\ Plain
    /\ kind' = "destroyed"

Fits == m_size < m_cap \/ m_pData = <<>>

Next ==
    \/ /\ kind # "destroyed" /\ Fits
       /\ \/ \E c \in Chars : pushChar(c)
          \/ \E sv \in Texts :
                \/ push(sv)
                \/ \E maxLen \in {-1, 1, 2}, padding \in 0..4, right \in BOOLEAN :
                      pushArg(sv, maxLen, padding, right)
          \/ reset
    \/ Fits /\ destroy

Spec == Init /\ [][Next]_vars

-----------------------------------------------------------------------------
(* No push writes past its buffer, but one of a width below the length of  *)
(* its text, by at most the difference.                                    *)
TypeOK ==
    /\ m_pData \in Seq(Chars \cup {Filler, NUL, Junk})
    /\ lack \in Nat /\ live \in Nat
    /\ Fits \/ m_size \in 0..m_cap + lack - 1

(* A builder that grows shows all of what was pushed; a caller's buffer    *)
(* shows how it begins, up to what the buffer holds: nothing is written    *)
(* after something was cut off.                                            *)
ShowsText ==
    Fits => LET shown == SubSeq(m_pData, 1, m_size)
            IN IF kind = "span"
               THEN IsPrefix(shown, text) /\ (shown # text => m_size = m_cap - 1)
               ELSE shown = text

(* What the builder allocated at the start is freed with it, however often *)
(* it grew; what it allocated to grow out of the caller's buffer is not.   *)
FreesPrealloc == kind = "prealloc" => live = 1
=============================================================================
