----------------------------- MODULE OwnedString -----------------------------
(***************************************************************************)
(* The strings that own their characters (String-inl.hh, String.hh):       *)
(* String, of an allocation of its size; VString, whose text lies in its   *)
(* own bytes while these are enough, and in an allocation that grows from  *)
(* then on; and StringFixed, a buffer of SIZE.  `str' is the text the      *)
(* client believes the string to hold.                                     *)
(*                                                                         *)
(* Some calls of VString do not do what their names say, and `fate' tells  *)
(* how far one has come: "shrunk" while its own bytes may hold those of a  *)
(* longer text behind a shorter one, "upset" once it shows another text    *)
(* than the client made, "past" when it has written past its allocation or *)
(* lost the pointer to it, which ends the behaviour.                       *)
(***************************************************************************)
EXTENDS Integers, Sequences, SequencesExt, FiniteSetsExt

CONSTANTS Kinds,           \* "String", "VString" and "StringFixed"
          BUFF,            \* 16, the bytes of a VString; SIZE of a StringFixed
          Chars,           \* "\n" and others
          MaxLen           \* bound on the text

VARIABLES kind,
          m_aBuff,         \* the string's own bytes
          pData,           \* the allocation
          m_cap, m_size,   \* of a VString: BUFF without an allocation
          str,
          fate             \* "exact", "shrunk", "upset" or "past"

vars == <<kind, m_aBuff, pData, m_cap, m_size, str, fate>>

NUL == "NUL"
Junk == "junk"             \* what malloc() returns, and a write outside
Zeros(n) == [i \in 1..n |-> NUL]
Malloc(n) == [i \in 1..n |-> Junk]
Texts == BoundedSeq(Chars, BUFF + 1)

(* memcpy(dst + at, src, Len(src)); what lies outside of dst is lost.      *)
Put(dst, at, src) ==
    [i \in DOMAIN dst |-> IF i \in at + 1..at + Len(src) THEN src[i - at] ELSE dst[i]]
Resized(data, keep, n) == Put(Malloc(n), 0, SubSeq(data, 1, Min({keep, n})))

(* strnlen()                                                               *)
strnlen(data) == Min({Len(data)} \cup {i - 1 : i \in {i \in DOMAIN data : data[i] = NUL}})

Init ==
    /\ kind \in Kinds
    /\ m_aBuff = Zeros(BUFF)
    /\ pData = <<>>
    /\ m_cap = BUFF
    /\ m_size = 0
    /\ str = <<>>
    /\ fate = "exact"

OnStack == m_cap <= BUFF
size == IF kind = "String" THEN m_size
        ELSE IF OnStack THEN strnlen(m_aBuff) ELSE m_size
data == IF kind = "String" \/ ~OnStack THEN pData ELSE m_aBuff

InBuffer(bytes) == m_aBuff' = bytes /\ UNCHANGED <<pData, m_cap, m_size>>
Allocated(bytes, n) ==
    /\ m_aBuff' = Zeros(BUFF) /\ pData' = bytes /\ m_cap' = Len(bytes) /\ m_size' = n

Says(text) == Len(text) <= MaxLen /\ str' = text /\ UNCHANGED kind

\* A text in place of the last: on the stack, the bytes behind it stay.
Sets(text, staysOnStack) ==
    /\ Says(text)
    /\ fate' = IF staysOnStack /\ ~(fate = "exact" /\ Len(text) >= size)
               THEN "shrunk" ELSE "exact"

\* An addition: on the stack, it may run into the bytes of a longer text.
Adds(text, staysOnStack) ==
    /\ Says(str \o text)
    /\ fate' = IF fate # "shrunk" THEN fate ELSE IF staysOnStack THEN "upset" ELSE "exact"

(* VString::push() of one character.  Its '\0' is written without a test   *)
(* of the capacity.                                                        *)
pushChar(c) ==
    /\ kind = "VString"
    /\ IF OnStack
       THEN /\ IF size + 1 >= BUFF
               THEN Allocated(Put(Zeros(m_cap * 2), 0, SubSeq(m_aBuff, 1, size) \o <<c>>), size + 1)
               ELSE InBuffer(Put(m_aBuff, size, <<c>>))
            /\ Adds(<<c>>, size + 1 < BUFF)
       ELSE LET room == IF m_size >= m_cap THEN Resized(pData, m_size, (m_cap + 1) * 2) ELSE pData
            IN /\ Allocated(Put(room, m_size, <<c, NUL>>), m_size + 1)
               /\ Says(Append(str, c))
               /\ fate' = IF m_size + 1 = Len(room) THEN "past" ELSE fate

(* Mutant: the text is copied to the start of the allocation.              *)
pushToStart(sv) ==
    /\ kind = "VString"
    /\ IF OnStack
       THEN IF Len(sv) + size + 1 > BUFF
            THEN Allocated(Put(Zeros((Len(sv) + size + 1) * 2), 0, sv), size + Len(sv))
            ELSE InBuffer(Put(m_aBuff, size, sv))
       ELSE LET room == IF m_size + Len(sv) >= m_cap
                        THEN Resized(pData, m_size, 2 * (m_cap + Len(sv))) ELSE pData
            IN Allocated(Put(room, m_size, Append(sv, NUL)), m_size + Len(sv))
    /\ Adds(sv, OnStack /\ Len(sv) + size + 1 <= BUFF)

(* push() of a view, and pushN() of a run of one character.                *)
push(sv) ==
    /\ kind = "VString"
    /\ IF OnStack
       THEN IF Len(sv) + size + 1 > BUFF
            THEN Allocated(Put(Zeros((Len(sv) + size + 1) * 2), 0, SubSeq(m_aBuff, 1, size) \o sv),
                           size + Len(sv))
            ELSE InBuffer(Put(m_aBuff, size, sv))
       ELSE LET room == IF m_size + Len(sv) >= m_cap
                        THEN Resized(pData, m_size, 2 * (m_cap + Len(sv))) ELSE pData
            IN Allocated(Put(room, m_size, Append(sv, NUL)), m_size + Len(sv))
    /\ Adds(sv, OnStack /\ Len(sv) + size + 1 <= BUFF)

(* The bytes after a shorter text stay behind its '\0' on the stack.       *)
reallocWith(sv) ==
    /\ kind = "VString"
    /\ IF OnStack
       THEN IF Len(sv) > BUFF - 1 THEN Allocated(Append(sv, NUL), Len(sv))
            ELSE InBuffer(Put(m_aBuff, 0, Append(sv, NUL)))
       ELSE LET room == IF Len(sv) + 1 > m_cap
                        THEN Resized(pData, m_size, (Len(sv) + 1) * 2) ELSE pData
            IN Allocated(Put(room, 0, Append(sv, NUL)), Len(sv))
    /\ Sets(sv, OnStack /\ Len(sv) <= BUFF - 1)

(* String::reallocWith(): a shrunk string keeps its allocation.            *)
reallocString(sv) ==
    /\ kind = "String"
    /\ pData' = IF sv = <<>> THEN <<>>
                ELSE Put(IF m_size < Len(sv) + 1 THEN Malloc(Len(sv) + 1) ELSE pData,
                         0, Append(sv, NUL))
    /\ m_size' = Len(sv)
    /\ Says(sv)
    /\ UNCHANGED <<m_aBuff, m_cap, fate>>

(* The constructor of a StringFixed, and assignment by it.                 *)
assign(sv) ==
    /\ kind = "StringFixed"
    /\ LET n == Min({Len(sv), BUFF - 1})
       IN /\ InBuffer(Put(Zeros(BUFF), 0, SubSeq(sv, 1, n)))
          /\ Says(SubSeq(sv, 1, n))
    /\ UNCHANGED fate

(* StringCat() with another string.                                        *)
StringCat(r) ==
    /\ kind = "String"
    /\ pData' = SubSeq(pData, 1, m_size) \o r \o <<NUL>>
    /\ m_size' = m_size + Len(r)
    /\ Says(str \o r)
    /\ UNCHANGED <<m_aBuff, m_cap, fate>>

(* The length of the text without the newlines at its end.                 *)
Kept(text) == Max({0} \cup {i \in DOMAIN text : text[i] # "\n"})

(* removeNLEnd(): a text on the stack ends at its first '\0' only, so that *)
(* without writing one nothing is removed.                                 *)
removeNLEnd(bDestructive) ==
    /\ kind # "StringFixed"
    /\ LET kept == Kept(SubSeq(data, 1, size))
           bytes == IF bDestructive THEN Put(data, kept, Zeros(size - kept)) ELSE data
       IN /\ IF kind = "String" \/ ~OnStack
             THEN pData' = bytes /\ m_size' = kept /\ UNCHANGED <<m_aBuff, m_cap>>
             ELSE InBuffer(bytes)
          /\ fate' = IF kind = "VString" /\ OnStack /\ ~bDestructive /\ kept < size
                     THEN "upset" ELSE fate
    /\ Says(SubSeq(str, 1, Kept(str)))

(* steal(): the client hands over a String of text `sv'.  What the string  *)
(* has allocated is not freed; a short text is copied over the pointer to  *)
(* it, which shares its memory with the string's own bytes.                *)
steal(sv) ==
    /\ kind = "VString" /\ sv # <<>>
    /\ IF Len(sv) >= BUFF THEN Allocated(Append(sv, NUL), Len(sv))
       ELSE InBuffer(Put(m_aBuff, 0, Append(sv, NUL)))
    /\ IF OnStack \/ Len(sv) >= BUFF THEN Sets(sv, Len(sv) < BUFF)
       ELSE Says(sv) /\ fate' = "past"

(* destroy() frees what is allocated; the bytes of the string are zero.    *)
destroy ==
    /\ m_aBuff' = Zeros(BUFF) /\ pData' = <<>> /\ m_cap' = BUFF /\ m_size' = 0
    /\ Says(<<>>) /\ fate' = "exact"

(* VString(pAlloc, prealloc)                                               *)
construct(prealloc) ==
    /\ kind = "VString" /\ m_aBuff = Zeros(BUFF) /\ OnStack
    /\ Allocated(Zeros(Max({BUFF + 1, prealloc})), 0)
    /\ Says(<<>>) /\ fate' = "exact"

Next ==
    /\ fate # "past"
    /\ \/ \E c \in Chars : pushChar(c)
       \/ \E sv \in Texts :
             push(sv) \/ reallocWith(sv) \/ reallocString(sv) \/ assign(sv)
               \/ StringCat(sv) \/ steal(sv)
       \/ \E b \in BOOLEAN : removeNLEnd(b)
       \/ destroy \/ construct(BUFF)

Spec == Init /\ [][Next]_vars

-----------------------------------------------------------------------------
TypeOK ==
    /\ m_aBuff \in [1..BUFF -> Chars \cup {NUL, Junk}]
    /\ m_size \in 0..Len(pData)
    /\ kind = "VString" /\ ~OnStack => m_cap = Len(pData)

(* The string shows the text the client made, through growing and moving   *)
(* off the stack, and ends with a '\0' inside its memory, until an addition *)
(* to a text that took the place of a longer one on the stack, or a        *)
(* removeNLEnd(false) of newlines there; and again once the whole text is  *)
(* set.  What writes past the allocation is a push() of one character that *)
(* fills it.                                                               *)
HoldsText ==
    /\ fate \in {"exact", "shrunk"} =>
          /\ size = Len(str) /\ SubSeq(data, 1, size) = str
          /\ kind # "String" \/ pData # <<>> => size < Len(data)
    /\ fate = "past" => ~OnStack /\ (m_size = m_cap \/ m_aBuff # Zeros(BUFF))
============================================================================
