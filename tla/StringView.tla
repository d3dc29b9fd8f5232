------------------------------ MODULE StringView ------------------------------
(***************************************************************************)
(* Views of a text in memory, and the iterator over its words (String.hh   *)
(* and String-inl.hh).  A view is where it starts and its size; characters *)
(* are their codes.  The memory ends with a '\0', as string literals do,   *)
(* and what strncmp(), strtoll() and memmem() read of it is theirs.        *)
(***************************************************************************)
EXTENDS Integers, Sequences, SequencesExt, FiniteSetsExt

CONSTANTS Chars, Length,     \* the texts: Length of the Chars
          Delimiters         \* of words

VARIABLES m,                 \* the memory
          sv,                \* the view the client works on
          words,             \* the words of `sv' seen, before it is trimmed
          m_i                \* where the iterator is: NPOS at its end

vars == <<m, sv, words, m_i>>

NPOS == -1
NL == 10
CR == 13
Digit(c) == c \in 48..57

View(at, size) == [m_pData |-> at, m_size |-> size]
Views == {v \in [m_pData : 0..Length, m_size : 0..Length] : v.m_pData + v.m_size <= Length}
Char(v, i) == m[v.m_pData + i + 1]
Str(v) == SubSeq(m, v.m_pData + 1, v.m_pData + v.m_size)
Indices(v) == 0..v.m_size - 1

Init ==
    /\ m \in {t \o <<0>> : t \in [1..Length -> Chars]}
    /\ sv \in Views
    /\ words = <<>> /\ m_i = 0

-----------------------------------------------------------------------------
(* Up to n characters are compared, and none after a '\0'.                 *)
strncmp(l, r, n) ==
    LET stops == {i \in 0..n - 1 : Char(l, i) # Char(r, i) \/ Char(l, i) = 0}
    IN IF stops = {} THEN 0 ELSE Char(l, Min(stops)) - Char(r, Min(stops))

equal(l, r) ==
    \/ l.m_pData = r.m_pData
    \/ l.m_size = r.m_size /\ strncmp(l, r, l.m_size) = 0

(* operator-: the results.  The loop over characters has none, as its      *)
(* index goes down from 0 and never reaches the size.                      *)
minus(l, r) ==
    IF l.m_size < r.m_size THEN {-1}
    ELSE IF l.m_size > r.m_size THEN {1}
    ELSE IF 0 < l.m_size THEN {} ELSE {0}

(* Mutant: the common length decides nothing when the texts agree on it.   *)
lessOnCommon(l, r) == strncmp(l, r, Min({l.m_size, r.m_size})) < 0

less(l, r) ==
    LET res == strncmp(l, r, Min({l.m_size, r.m_size}))
    IN IF res = 0 THEN l.m_size < r.m_size ELSE res < 0
lessEqual(l, r) ==
    LET res == strncmp(l, r, Min({l.m_size, r.m_size}))
    IN IF res = 0 THEN l.m_size <= r.m_size ELSE res < 0
greater(l, r) ==
    LET res == strncmp(l, r, Min({l.m_size, r.m_size}))
    IN IF res = 0 THEN l.m_size > r.m_size ELSE res > 0
greaterEqual(l, r) ==
    LET res == strncmp(l, r, Min({l.m_size, r.m_size}))
    IN IF res = 0 THEN l.m_size >= r.m_size ELSE res > 0

compare(l, r) ==
    LET res == strncmp(l, r, Min({l.m_size, r.m_size}))
    IN IF res # 0 THEN res
       ELSE IF l.m_size = r.m_size THEN 0 ELSE IF l.m_size < r.m_size THEN -1 ELSE 1
compareRev(l, r) ==
    LET res == strncmp(r, l, Min({l.m_size, r.m_size}))
    IN IF res # 0 THEN res
       ELSE IF l.m_size = r.m_size THEN 0 ELSE IF r.m_size < l.m_size THEN -1 ELSE 1

beginsWith(l, r) ==
    l.m_size >= r.m_size /\ \A i \in Indices(r) : Char(l, i) = Char(r, i)
endsWith(l, r) ==
    /\ l.m_size >= r.m_size
    /\ \A i \in Indices(r) : Char(r, i) = Char(l, i + l.m_size - r.m_size)

Found(v, c) == {i \in Indices(v) : Char(v, i) = c}
lastOf(v, c) == IF Found(v, c) = {} THEN NPOS ELSE Max(Found(v, c))
firstOf(v, c) == IF Found(v, c) = {} THEN NPOS ELSE Min(Found(v, c))
charAt(v, c) == firstOf(v, c)

Places(v, r) ==
    IF v.m_size < r.m_size \/ r.m_size = 0 THEN {}
    ELSE {i \in 0..v.m_size - r.m_size : \A k \in Indices(r) : Char(v, i + k) = Char(r, k)}
contains(v, r) == Places(v, r) # {}
subStringAt(v, r) == IF Places(v, r) = {} THEN NPOS ELSE Min(Places(v, r))

subString(v, start, size) == View(v.m_pData + start, size)

(* strtoll() is given the start alone: it reads white space, a sign and    *)
(* digits to the first that is none, past the end of the view.  Numbers    *)
(* beyond 64 bits are out of the bounds.                                   *)
Space(c) == c = 32 \/ c \in 9..13
toI64(v) ==
    LET Past(from, Is(_)) == Min({k \in from..Len(m) - v.m_pData - 1 : ~Is(Char(v, k))})
        at == Past(0, Space)
        from == IF Char(v, at) \in {43, 45} THEN at + 1 ELSE at
        digits == SubSeq(m, v.m_pData + from + 1, v.m_pData + Past(from, Digit))
        number == FoldLeft(LAMBDA acc, c : 10 * acc + c - 48, 0, digits)
    IN IF Char(v, at) = 45 THEN -number ELSE number

-----------------------------------------------------------------------------
(* The trimmed view ends before the last characters in the set.            *)
TrimmedSize(v, set) ==
    Max({0} \cup {i + 1 : i \in {i \in Indices(v) : Char(v, i) \notin set}})

(* String::trimEnd() and removeNLEnd() with padding overwrite the end.     *)
Padded(size) ==
    [i \in DOMAIN m |-> IF i - 1 - sv.m_pData \in size..sv.m_size - 1 THEN 0 ELSE m[i]]

trimEnd(bPadWithZeros) ==
    LET size == TrimmedSize(sv, {NL, 32, CR, 9, 0})
    IN /\ sv' = View(sv.m_pData, size)
       /\ m' = IF bPadWithZeros THEN Padded(size) ELSE m
       /\ m_i' = NPOS
       /\ UNCHANGED words

removeNLEnd(bPadWithZeros) ==
    LET size == TrimmedSize(sv, {NL, CR})
    IN /\ sv' = View(sv.m_pData, size)
       /\ m' = IF bPadWithZeros THEN Padded(size) ELSE m
       /\ m_i' = NPOS
       /\ UNCHANGED words

(* StringWordIt::It: one step takes what lies before the next delimiter    *)
(* and, while that is empty, steps on.                                     *)
nextWord ==
    /\ m_i # NPOS
    /\ IF m_i >= sv.m_size THEN m_i' = NPOS /\ UNCHANGED words
       ELSE LET end == Min({sv.m_size} \cup {i \in m_i..sv.m_size - 1 : Char(sv, i) \in Delimiters})
            IN /\ m_i' = end + 1
               /\ words' = IF end = m_i THEN words
                           ELSE Append(words, Str(subString(sv, m_i, end - m_i)))
    /\ UNCHANGED <<m, sv>>

Next == nextWord \/ \E b \in BOOLEAN : trimEnd(b) \/ removeNLEnd(b)

Spec == Init /\ [][Next]_vars

-----------------------------------------------------------------------------
(* The order of sequences by their first difference, a prefix first.       *)
Before(s, t) ==
    \E i \in 1..Min({Len(t), Len(s) + 1}) :
        /\ SubSeq(s, 1, i - 1) = SubSeq(t, 1, i - 1)
        /\ i > Len(s) \/ s[i] < t[i]
Sign(n) == IF n < 0 THEN -1 ELSE IF n > 0 THEN 1 ELSE 0

(* The text of a view up to its first '\0', which the code compares.       *)
Cut(v) == SubSeq(Str(v), 1, Min({v.m_size} \cup {i \in Indices(v) : Char(v, i) = 0}))
Precedes(l, r) == Before(Cut(l), Cut(r)) \/ (Cut(l) = Cut(r) /\ l.m_size < r.m_size)

(* Comparisons of views are comparisons of the texts they show, up to a    *)
(* '\0' and then by size, alike in the operators and in the functions that *)
(* sorting and the trees use; but views of one start are equal whatever    *)
(* their sizes.  A difference is that of the sizes, and of two texts of    *)
(* one size there is none unless both are empty.                           *)
ComparesTexts ==
    \A r \in Views :
        LET comes == Precedes(sv, r)  goes == Precedes(r, sv)
        IN /\ equal(sv, r) = (sv.m_pData = r.m_pData \/ ~(comes \/ goes))
           /\ less(sv, r) = comes /\ greater(sv, r) = goes
           /\ lessEqual(sv, r) = ~goes /\ greaterEqual(sv, r) = ~comes
           /\ Sign(compare(sv, r)) = (IF comes THEN -1 ELSE IF goes THEN 1 ELSE 0)
           /\ Sign(compareRev(sv, r)) = -Sign(compare(sv, r))
           /\ minus(sv, r) = IF sv.m_size = r.m_size /\ Str(sv) # <<>> THEN {}
                             ELSE {Sign(sv.m_size - r.m_size)}

(* Searches agree with each other and with what they search.               *)
SearchesFind ==
    \A r \in Views :
        /\ contains(sv, r) = (r.m_size > 0 /\ \E i \in 0..sv.m_size - r.m_size :
                                  Str(subString(sv, i, r.m_size)) = Str(r))
        /\ beginsWith(sv, r) = IsPrefix(Str(r), Str(sv))
        /\ endsWith(sv, r) = IsSuffix(Str(r), Str(sv))
        /\ r.m_size > 0 => (subStringAt(sv, r) = 0) = beginsWith(sv, r)
        /\ r.m_size = 1 => subStringAt(sv, r) = firstOf(sv, Char(r, 0))

(* Blanks before a number mean nothing, a minus turns it round, and it     *)
(* ends with its view, if no digit follows there.                          *)
ReadsNumbers ==
    LET rest == View(sv.m_pData + 1, sv.m_size - 1)
    IN sv.m_size > 0 /\ ~Digit(Char(sv, sv.m_size)) =>
          /\ Space(Char(sv, 0)) => toI64(sv) = toI64(rest)
          /\ Char(sv, 0) = 45 /\ Digit(Char(sv, 1)) => toI64(sv) = -toI64(rest)
          /\ (\A i \in Indices(sv) : Digit(Char(sv, i))) =>
                toI64(sv) = FoldLeft(LAMBDA acc, c : 10 * acc + c - 48, 0, Str(sv))

(* The words are what lies between the delimiters, in order, none empty.   *)
Split ==
    LET step(acc, c) == IF c \in Delimiters THEN Append(acc, <<>>)
                        ELSE Append(Front(acc), Append(Last(acc), c))
    IN SelectSeq(FoldLeft(step, <<<<>>>>, Str(sv)), LAMBDA w : w # <<>>)
WordsAreFields == m_i # NPOS => IsPrefix(words, Split) /\ (m_i >= sv.m_size => words = Split)
=============================================================================
