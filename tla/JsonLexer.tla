------------------------------ MODULE JsonLexer ------------------------------
(***************************************************************************)
(* The lexer of the JSON parser (src/src/json/Lexer.cc).  A character is   *)
(* one of the characters the code names, or one that stands for a class:   *)
(* "1" for the digits, "-" for the signs, "a" for the letters that are     *)
(* hexadecimal digits, "w" for the other letters, "_" for the others.      *)
(***************************************************************************)
EXTENDS Integers, Sequences, SequencesExt, FiniteSets

CONSTANTS Chars, MaxLen     \* the texts: sequences of Chars up to MaxLen long

VARIABLES m_svJson,
          m_pos, m_row, m_column,
          tokens            \* what the calls of next() have returned

vars == <<m_svJson, m_pos, m_row, m_column, tokens>>

White == {" ", "\n"}
Punctuation == {"{", "}", "[", "]", ":", ","}
Alnum == {"w", "a", "1"}
Starts == {"1", "-"}                    \* of a number: the digits and signs
Numeric == Starts \cup {"a", "."}       \* what isxdigit() accepts, and more

Size == Len(m_svJson)
Char(i) == m_svJson[i + 1]              \* m_svJson[i], counted from 0

Init ==
    /\ m_svJson \in BoundedSeq(Chars, MaxLen)
    /\ m_pos = 0 /\ m_row = 1 /\ m_column = 1
    /\ tokens = <<>>

(* The first index from `i' on, up to the end, that does not satisfy P.    *)
Past(P(_), i) ==
    CHOOSE j \in i..Size : /\ \A k \in i..j - 1 : P(k)
                           /\ j = Size \/ ~P(j)

(* skipWhitespace(): a newline starts a row, whose first column is 1.      *)
Skipped ==
    LET to == Past(LAMBDA k : Char(k) \in White, m_pos)
        lines == {k \in m_pos..to - 1 : Char(k) = "\n"}
    IN IF m_pos >= Size THEN [pos |-> m_pos, row |-> m_row, column |-> m_column]
       ELSE [pos |-> to,
             row |-> m_row + Cardinality(lines),
             column |-> IF lines = {} THEN m_column + to - m_pos
                        ELSE to - CHOOSE k \in lines : \A l \in lines : l <= k]

Token(type, from, to, row, column) ==
    [type |-> type, from |-> from, to |-> to, row |-> row, column |-> column]

(* The token is returned and the position advances to `pos'.               *)
Return(s, type, from, to, row, column, pos) ==
    /\ tokens' = Append(tokens, Token(type, from, to, row, column))
    /\ m_pos' = pos
    /\ m_row' = row
    /\ m_column' = s.column + pos - s.pos
    /\ UNCHANGED m_svJson

nextChar(s) ==
    /\ Char(s.pos) \in Punctuation
    /\ Return(s, Char(s.pos), s.pos, s.pos + 1, s.row, s.column, s.pos + 1)

(* Is the character at `k' escaped by the backslashes before it?           *)
Escaped(from, k) ==
    LET run == CHOOSE j \in from..k :
                  /\ \A b \in j..k - 1 : Char(b) = "\\"
                  /\ j = from \/ Char(j - 1) # "\\"
    IN (k - run) % 2 = 1

(* Mutant: a backslash before the closing quote does not escape it.        *)
nextStringNoEscapes(s) ==
    /\ Char(s.pos) = "\""
    /\ LET from == s.pos + 1
           to == Past(LAMBDA k : Char(k) # "\"", from)
       IN Return(s, "QUOTED_STRING", from, to, s.row, s.column, to + 1)

(* A string may hold newlines, which count rows but start no columns, and  *)
(* may end with the text.                                                  *)
nextString(s) ==
    /\ Char(s.pos) = "\""
    /\ s.pos + 1 < Size
    /\ LET from == s.pos + 1
           to == Past(LAMBDA k : Char(k) # "\"" \/ Escaped(from, k), from)
           lines == {k \in from..to - 1 : Char(k) = "\n" /\ ~Escaped(from, k)}
       IN Return(s, "QUOTED_STRING", from, to, s.row + Cardinality(lines), s.column, to + 1)

(* A quote that is the last character: the default token.                  *)
nextStringAtEnd(s) ==
    /\ Char(s.pos) = "\""
    /\ s.pos + 1 = Size
    /\ tokens' = Append(tokens, Token("NONE", s.pos, s.pos, 0, 0))
    /\ m_pos' = s.pos + 2
    /\ m_row' = s.row
    /\ m_column' = s.column + 2
    /\ UNCHANGED m_svJson

nextNumber(s) ==
    /\ Char(s.pos) \in Starts
    /\ LET to == Past(LAMBDA k : Char(k) \in Numeric, s.pos)
           type == IF \E k \in s.pos..to - 1 : Char(k) = "." THEN "FLOAT" ELSE "NUMBER"
       IN Return(s, type, s.pos, to, s.row, s.column, to)

(* A character that starts no token gives an empty one, for ever.          *)
nextStringNoQuotes(s) ==
    /\ Char(s.pos) \notin Punctuation \cup Starts \cup {"\""}
    /\ LET to == Past(LAMBDA k : Char(k) \in Alnum, s.pos)
       IN Return(s, "STRING", s.pos, to, s.row, s.column, to)

(* The parser calls next() once past the end, and gives up on an empty     *)
(* token.                                                                  *)
Stuck == tokens # <<>> /\ Last(tokens).type = "STRING" /\ Last(tokens).from = Last(tokens).to

next ==
    /\ ~Stuck
    /\ Skipped.pos < Size
    /\ \/ nextChar(Skipped) \/ nextString(Skipped) \/ nextStringAtEnd(Skipped)
       \/ nextNumber(Skipped) \/ nextStringNoQuotes(Skipped)

Next == next

Spec == Init /\ [][Next]_vars

-----------------------------------------------------------------------------
Covered(k) == \E n \in DOMAIN tokens : k \in tokens[n].from..tokens[n].to - 1
Quote(k) == Char(k) = "\"" /\ \E n \in DOMAIN tokens :
                tokens[n].type \in {"QUOTED_STRING", "NONE"}
                    /\ k \in {tokens[n].from - 1, tokens[n].from, tokens[n].to}

(* The tokens cut up what was read: they follow each other, and what lies  *)
(* between them is white space and the quotes of strings.                  *)
TokensCutUpText ==
    /\ \A n \in 1..Len(tokens) - 1 : tokens[n].to <= tokens[n + 1].from
    /\ \A k \in 0..Size - 1 : k < m_pos => Covered(k) \/ Char(k) \in White \/ Quote(k)

(* The characters of a quoted string up to its end hold no closing quote.  *)
QuotesMatch ==
    \A n \in DOMAIN tokens : tokens[n].type = "QUOTED_STRING" =>
        LET Q == {k \in tokens[n].from..tokens[n].to - 1 :
                     Char(k) = "\"" /\ ~Escaped(tokens[n].from, k)}
        IN Q = {} /\ (tokens[n].to < Size => /\ Char(tokens[n].to) = "\""
                                             /\ ~Escaped(tokens[n].from, tokens[n].to))

(* The position of an error message is that of the token, counted from the *)
(* start of its line; a string over several lines upsets the columns.      *)
Position(k) ==
    LET lines == {j \in 0..k - 1 : Char(j) = "\n"}
    IN <<1 + Cardinality(lines),
         k - (IF lines = {} THEN -1 ELSE CHOOSE j \in lines : \A l \in lines : l <= j)>>
Start(t) == IF t.type = "QUOTED_STRING" THEN t.from - 1 ELSE t.from
InString(j) == \E n \in DOMAIN tokens : tokens[n].type = "QUOTED_STRING"
                                            /\ j \in tokens[n].from..tokens[n].to - 1
PositionsAreExact ==
    (\A k \in 0..Size - 1 : k < m_pos /\ Char(k) = "\n" => ~InString(k))
        => \A n \in DOMAIN tokens : tokens[n].type # "NONE" =>
              <<tokens[n].row, tokens[n].column>> = Position(Start(tokens[n]))
=============================================================================
