----------------------------- MODULE LoggerRing -----------------------------
(***************************************************************************)
(* adt::Logger::RingBuffer (include/adt/Logger.hh): variable-sized records *)
(* in a ring of bytes, a header and a text each, either of which may wrap  *)
(* around the end. push() and pop() run under the logger's mutex.          *)
(*                                                                         *)
(* A byte is its message, the part it belongs to and its place in it.      *)
(***************************************************************************)
EXTENDS Integers, Sequences

CONSTANTS
    Messages,    \* the texts that are logged
    Length,      \* message -> its size in bytes
    HeaderSize,  \* sizeof(MsgHeader)
    Cap          \* m_cap, a power of two

VARIABLES
    firstI,      \* m_firstI
    lastI,       \* m_lastI
    size,        \* m_size
    data,        \* m_pData
    items,       \* the messages pushed and not popped
    popped       \* what the last pop() read

vars == <<firstI, lastI, size, data, items, popped>>

Places == 0..(Cap - 1)

Zero == <<>>

Byte == {Zero} \cup (Messages \X {"header", "text"} \X (1..Cap))

TypeOK ==
    /\ firstI \in Places
    /\ lastI \in Places
    /\ size \in 0..Cap
    /\ data \in [Places -> Byte]
    /\ items \in Seq(Messages)

Init ==
    /\ firstI = 0
    /\ lastI = 0
    /\ size = 0
    /\ data = [i \in Places |-> Zero]
    /\ items = <<>>
    /\ popped = <<>>

-----------------------------------------------------------------------------
Header(m) == [k \in 1..HeaderSize |-> <<m, "header", k>>]

Text(m) == [k \in 1..Length[m] |-> <<m, "text", k>>]

PayloadSize(m) == HeaderSize + Length[m]

Smaller(a, b) == IF a <= b THEN a ELSE b

(* i + n, masked by m_cap - 1                                              *)
Advance(i, n) == (i + n) % Cap

(* memcpy(m_pData + at, &of[from], n)                                      *)
Copy(at, of, from, n) == [at |-> at, of |-> of, from |-> from, n |-> n]

Nothing == Copy(0, <<>>, 0, 0)

InBounds(at, n) == at >= 0 /\ (n > 0 => at + n <= Cap)

Put(d, copy) ==
    [i \in Places |->
        IF i \in copy.at..(copy.at + copy.n - 1)
        THEN copy.of[copy.from + i - copy.at + 1] ELSE d[i]]

-----------------------------------------------------------------------------
(* The copies push() makes when the free space may wrap: the header is cut *)
(* by the end of the ring, or the text is.                                 *)
CutHeader(m, tail) ==
    <<Copy(lastI, Header(m), 0, tail),
      Copy(0, Header(m), tail, HeaderSize - tail),
      Copy(HeaderSize - tail, Text(m), 0, Length[m])>>

CutText(m, tail) ==
    LET left == Smaller(tail - HeaderSize, Length[m])
    IN  <<Copy(lastI, Header(m), 0, HeaderSize),
          Copy(lastI + HeaderSize, Text(m), 0, left),
          Copy(0, Text(m), left, Length[m] - left)>>

Whole(m) ==
    <<Copy(lastI, Header(m), 0, HeaderSize),
      Copy(lastI + HeaderSize, Text(m), 0, Length[m]), Nothing>>

Copies(m) ==
    LET tail == Smaller(PayloadSize(m), Cap - lastI)
    IN  IF lastI < firstI THEN Whole(m)
        ELSE IF HeaderSize >= tail THEN CutHeader(m, tail) ELSE CutText(m, tail)

(* As Fits, the header not counted.                                        *)
FitsBare(m) == size + Length[m] <= Cap

Fits(m) == size + PayloadSize(m) <= Cap

(* push() that does not return FAILED                                      *)
Push(m) ==
    /\ Fits(m)
    /\ items' = Append(items, m)
    /\ data' = Put(Put(Put(data, Copies(m)[1]), Copies(m)[2]), Copies(m)[3])
    /\ lastI' = Advance(lastI, PayloadSize(m))
    /\ size' = size + PayloadSize(m)
    /\ UNCHANGED <<firstI, popped>>

-----------------------------------------------------------------------------
UntilEnd == Cap - firstI

HeaderIsCut == firstI >= lastI /\ HeaderSize >= UntilEnd

HeaderAtFirst ==
    [k \in 1..HeaderSize |->
        data[IF HeaderIsCut /\ k > UntilEnd THEN k - UntilEnd - 1 ELSE firstI + k - 1]]

Piece(at, n) == [at |-> at, n |-> n]

(* As Views, the second piece taken to lie after a header.                 *)
ViewsShifted(m) ==
    IF HeaderIsCut THEN <<Piece(HeaderSize - UntilEnd, Length[m]), Piece(0, 0)>>
    ELSE IF firstI >= lastI
    THEN LET n == UntilEnd - HeaderSize
         IN  <<Piece(firstI + HeaderSize, n), Piece(HeaderSize, Length[m] - n)>>
    ELSE <<Piece(firstI + HeaderSize, Length[m]), Piece(0, 0)>>

(* sv0 and sv1. When the end of the ring lies behind a text that does not  *)
(* wrap, sv0 is too long and the size of sv1 is negative.                  *)
Views(m) ==
    IF HeaderIsCut THEN <<Piece(HeaderSize - UntilEnd, Length[m]), Piece(0, 0)>>
    ELSE IF firstI >= lastI
    THEN LET n == UntilEnd - HeaderSize
         IN  <<Piece(firstI + HeaderSize, n), Piece(0, Length[m] - n)>>
    ELSE <<Piece(firstI + HeaderSize, Length[m]), Piece(0, 0)>>

(* The k-th byte of m_pDrainBuff, to which loop() copies them, and what is *)
(* then written out of it.                                                 *)
Drained(m, k) ==
    LET sv == Views(m)
    IN  IF k <= sv[1].n THEN data[sv[1].at + k - 1]
        ELSE data[sv[2].at + (k - sv[1].n) - 1]

Written(m) == [k \in 1..(Views(m)[1].n + Views(m)[2].n) |-> Drained(m, k)]

(* pop(), which learns the size of the text from the header it reads       *)
Pop(m) ==
    /\ size > 0
    /\ HeaderAtFirst = Header(m)
    /\ firstI' = Advance(firstI, PayloadSize(m))
    /\ size' = size - PayloadSize(m)
    /\ items' = Tail(items)
    /\ popped' = <<m>>
    /\ UNCHANGED <<lastI, data>>

Next == \E m \in Messages : Push(m) \/ Pop(m)

Spec == Init /\ [][Next]_vars

-----------------------------------------------------------------------------
(* Where the entries of q end, counted from the first byte.                *)
Ends(q) ==
    LET upTo[i \in 0..Len(q)] ==
            IF i = 0 THEN 0 ELSE upTo[i - 1] + PayloadSize(q[i])
    IN  upTo

Used(q) == Ends(q)[Len(q)]

Entry(m) == Header(m) \o Text(m)

(* From the first place on, around the end, lie the headers and texts of   *)
(* the queued messages, whole and in order: no push() overwrites a byte    *)
(* that has not been popped, and the two indices and the size agree.       *)
RingHoldsItems ==
    /\ TypeOK
    /\ size = Used(items)
    /\ lastI = Advance(firstI, size)
    /\ \A n \in 1..Len(items) : \A k \in 1..PayloadSize(items[n]) :
          data[Advance(firstI, Ends(items)[n - 1] + k - 1)] = Entry(items[n])[k]

(* What pop() lets loop() write out is the text of the oldest message,     *)
(* also when the size of sv1 comes out negative; no copy and no read       *)
(* reaches outside m_pData, and none beyond a header or a text.            *)
WritesTheMessage ==
    [][\A m \in Messages :
          /\ Pop(m) => /\ m = Head(items) /\ Written(m) = Text(m)
                       /\ \A k \in 1..2 : InBounds(Views(m)[k].at, Views(m)[k].n)
          /\ Push(m) => \A k \in 1..3 :
                LET c == Copies(m)[k]
                IN  /\ InBounds(c.at, c.n)
                    /\ 0 <= c.n /\ 0 <= c.from /\ c.from + c.n <= Len(c.of)]_vars

HasRoom(q, m) == Used(q) + PayloadSize(m) <= Cap

Queue == INSTANCE QueueContract
             WITH Value <- Messages, History <- FALSE, out <- popped

(* The ring of bytes is a queue that takes a message when it and its       *)
(* header fit in the bytes left, and pops it as it was pushed.             *)
IsMessageQueue == Queue!FifoSpec

RingIsQueue == IsMessageQueue /\ WritesTheMessage /\ []RingHoldsItems
=============================================================================
