------------------------------ MODULE JsonParser ------------------------------
(***************************************************************************)
(* The recursive descent parser of src/src/json/Parser.cc, as a machine:   *)
(* `open' is the stack of its calls of parseObject() and parseArray(), and *)
(* a step is what they do between two tokens.  A text is a sequence of     *)
(* tokens: a literal of a word or of a quoted string is one of Words, that *)
(* of a number is how it is written.  The texts are those of the roots in  *)
(* `given', whole or without one of their commas, colons and closing       *)
(* parentheses, or without what follows a colon.                           *)
(***************************************************************************)
EXTENDS Integers, Sequences, SequencesExt

CONSTANTS Words          \* the strings given, among them the Literals

VARIABLES given,         \* the roots whose text is parsed
          dropped,       \* did the text lose a token?
          text,          \* the tokens after m_token
          m_token,
          open,          \* the containers being parsed, the innermost last
          at,            \* what is expected next
          m_aObjects     \* the roots parsed

vars == <<given, dropped, text, m_token, open, at, m_aObjects>>

Token(type, literal) == [type |-> type, literal |-> literal]
Punct(type) == Token(type, type)
NONE == Token("NONE", "")
Literals == {"null", "true", "false"}

(* A node: the union of its value is told apart by its tag.                *)
Leaf(key, tag, val) == [svKey |-> key, eTag |-> tag, val |-> val, kids |-> <<>>]
Tree(key, tag, kids) == [svKey |-> key, eTag |-> tag, val |-> "", kids |-> kids]

(* The tokens of a value, as JSON writes it.                               *)
RECURSIVE Text(_)
Text(node) ==
    LET Member(n) == <<Token("QUOTED_STRING", n.svKey), Punct(":")>> \o Text(n)
        Joined(f(_)) == FlattenSeq([i \in 1..Len(node.kids) |->
                (IF i = 1 THEN <<>> ELSE <<Punct(",")>>) \o f(node.kids[i])])
        tag == node.eTag
    IN CASE tag = "OBJECT" -> <<Punct("{")>> \o Joined(Member) \o <<Punct("}")>>
         [] tag = "ARRAY" -> <<Punct("[")>> \o Joined(Text) \o <<Punct("]")>>
         [] tag = "STRING" -> <<Token("QUOTED_STRING", node.val)>>
         [] tag = "LONG" -> <<Token("NUMBER", node.val)>>
         [] tag = "DOUBLE" -> <<Token("FLOAT", node.val)>>
         [] tag = "BOOL" -> <<Token("STRING", node.val)>>
         [] OTHER -> <<Token("STRING", "null")>>

(* The trees given: no array lies directly in an array.                    *)
Atoms(key) ==
    {Leaf(key, "STRING", w) : w \in Words}
      \cup {Leaf(key, "LONG", "1"), Leaf(key, "LONG", "1e5"), Leaf(key, "DOUBLE", "1.5"),
            Leaf(key, "BOOL", "true"), Leaf(key, "BOOL", "false"), Leaf(key, "NULL_", "null")}
Key == CHOOSE w \in Words : w \notin Literals
Flat(key) ==
    {Tree(key, "OBJECT", kids) : kids \in BoundedSeq(Atoms(Key), 2)}
      \cup {Tree(key, "ARRAY", kids) : kids \in BoundedSeq(Atoms(""), 2)}
Objects(nodes) == {n \in nodes : n.eTag = "OBJECT"}
Nested ==
    {Tree("", "OBJECT", <<n>>) : n \in Flat(Key)}
      \cup {Tree("", "OBJECT", <<n, Leaf(Key, "LONG", "1")>>) : n \in Flat(Key)}
      \cup {Tree("", "ARRAY", <<n>>) : n \in Objects(Flat(""))}
      \cup {Tree("", "ARRAY", <<n, Leaf("", "LONG", "1")>>) : n \in Objects(Flat(""))}
Roots == {<<n>> : n \in Nested \cup Flat("")}
           \cup {<<n, m>> : n \in Objects(Flat("")),
                            m \in {Tree("", "OBJECT", <<>>)}}

Load(tokens) == m_token = Head(tokens \o <<NONE>>) /\ text = Tail(tokens \o <<NONE>>)

Init ==
    /\ given \in Roots
    /\ LET tokens == FlattenSeq([i \in 1..Len(given) |-> Text(given[i])])
       IN \/ dropped = FALSE /\ Load(tokens)
          \/ /\ dropped = TRUE /\ Len(given) = 1
             /\ \E i \in 1..Len(tokens) :
                   /\ \/ tokens[i].type \in {"}", "]", ":", ","}
                      \/ i > 1 /\ tokens[i - 1].type = ":"
                   /\ Load(RemoveAt(tokens, i))
    /\ open = <<>>
    /\ at = "root"
    /\ m_aObjects = <<>>

next ==
    /\ m_token' = IF text = <<>> THEN NONE ELSE Head(text)
    /\ text' = IF text = <<>> THEN <<>> ELSE Tail(text)
    /\ UNCHANGED <<given, dropped>>
Unread == UNCHANGED <<given, dropped, text, m_token>>

(* A call fails, and with it every call below it.                          *)
Fail == at' = "failed" /\ UNCHANGED <<open, m_aObjects>> /\ Unread
expect(types) == m_token.type \in types

(* A node is complete: it goes to where the innermost container keeps its  *)
(* children, or to the roots.                                              *)
Deliver(stack, node) ==
    IF stack = <<>>
    THEN /\ m_aObjects' = Append(m_aObjects, node)
         /\ at' = "after root"
         /\ open' = stack
    ELSE LET c == Last(stack)
             kid == [node EXCEPT !.svKey = c.key]
         IN /\ open' = Append(Front(stack), [c EXCEPT !.kids = Append(@, kid)])
            /\ at' = IF c.tag = "OBJECT" THEN "after member" ELSE "after element"
            /\ UNCHANGED m_aObjects

Open(tag) ==
    /\ open' = Append(open, [tag |-> tag, key |-> "", kids |-> <<>>])
    /\ at' = IF tag = "OBJECT" THEN "member" ELSE "element"
    /\ UNCHANGED m_aObjects
    /\ next

Close == Deliver(Front(open), Tree("", Last(open).tag, Last(open).kids))
Give(tag, val) == Deliver(open, Leaf("", tag, val))

(* parse(): the first root must be an object or an array; further ones are *)
(* objects, and what follows the last is not looked at.                    *)
parse ==
    /\ at = "root"
    /\ IF expect({"{", "["}) THEN at' = "node" ELSE at' = "failed"
    /\ UNCHANGED <<open, m_aObjects>> /\ Unread

parseNextRoot ==
    /\ at = "after root"
    /\ at' = IF m_token.type = "{" THEN "node" ELSE "done"
    /\ UNCHANGED <<open, m_aObjects>> /\ Unread

parseString ==
    CASE m_token.literal = "null" -> Give("NULL_", "null")
      [] m_token.literal \in {"true", "false"} -> Give("BOOL", m_token.literal)
      [] OTHER -> Give("STRING", m_token.literal)

parseIdent == Give("STRING", m_token.literal)

(* toI64() reads up to the first character that is no digit, where the     *)
(* lexer takes the "e" of an exponent for a hexadecimal digit.             *)
toI64(literal) == IF literal = "1e5" THEN "1" ELSE literal
parseNumber == Give("LONG", toI64(m_token.literal))
parseFloat == Give("DOUBLE", m_token.literal)

(* Mutant: the words of the format are taken for strings.                  *)
parseNodeWithoutWords ==
    /\ at = "node"
    /\ \/ m_token.type \in {"QUOTED_STRING", "STRING"} /\ parseIdent /\ next
       \/ m_token.type = "NUMBER" /\ parseNumber /\ next
       \/ m_token.type = "FLOAT" /\ parseFloat /\ next
       \/ m_token.type = "{" /\ Open("OBJECT")
       \/ m_token.type = "[" /\ Open("ARRAY")
       \/ m_token.type \in {"NONE", "}", "]", ":", ","} /\ Fail

(* parseNode(): the value of a member of an object, or a root.             *)
parseNode ==
    /\ at = "node"
    /\ \/ m_token.type = "QUOTED_STRING" /\ parseIdent /\ next
       \/ m_token.type = "STRING" /\ parseString /\ next
       \/ m_token.type = "NUMBER" /\ parseNumber /\ next
       \/ m_token.type = "FLOAT" /\ parseFloat /\ next
       \/ m_token.type = "{" /\ Open("OBJECT")
       \/ m_token.type = "[" /\ Open("ARRAY")
       \/ m_token.type \in {"NONE", "}", "]", ":", ","} /\ Fail

(* parseObject(): "}" at once, or a quoted key, ":" and a value.           *)
parseObjectEmpty ==
    /\ at = "member" /\ m_token.type = "}"
    /\ Close
    /\ next

parseObjectKey ==
    /\ at = "member" /\ m_token.type # "}"
    /\ IF expect({"QUOTED_STRING"})
       THEN /\ open' = [open EXCEPT ![Len(open)].key = m_token.literal]
            /\ at' = "colon"
            /\ next
            /\ UNCHANGED m_aObjects
       ELSE Fail

parseObjectColon ==
    /\ at = "colon"
    /\ IF expect({":"})
       THEN at' = "node" /\ next /\ UNCHANGED <<open, m_aObjects>>
       ELSE Fail

parseObjectNext ==
    /\ at = "after member"
    /\ CASE m_token.type = "," -> /\ at' = "after comma" /\ next
                                  /\ UNCHANGED <<open, m_aObjects>>
         [] m_token.type = "}" -> Close /\ next
         [] OTHER -> Fail

parseObjectComma ==
    /\ at = "after comma"
    /\ at' = IF expect({"}", "STRING"}) THEN "failed" ELSE "member"
    /\ UNCHANGED <<open, m_aObjects>> /\ Unread

(* parseArray(): any token that starts no number and no object is taken    *)
(* for a word.  A "]" after a comma ends the loop and stays unread.        *)
parseArrayEnd ==
    /\ at = "element" /\ m_token.type = "]"
    /\ Close
    /\ IF Last(open).kids = <<>> THEN next ELSE Unread

parseArrayElement ==
    /\ at = "element" /\ m_token.type # "]"
    /\ CASE m_token.type = "NUMBER" -> parseNumber /\ next
         [] m_token.type = "FLOAT" -> parseFloat /\ next
         [] m_token.type = "{" -> Open("OBJECT")
         [] OTHER -> parseString /\ next

parseArrayNext ==
    /\ at = "after element"
    /\ CASE m_token.type = "," -> /\ at' = "after element comma" /\ next
                                  /\ UNCHANGED <<open, m_aObjects>>
         [] m_token.type = "]" -> Close /\ next
         [] OTHER -> Fail

parseArrayComma ==
    /\ at = "after element comma"
    /\ at' = IF expect({"["}) THEN "failed" ELSE "element"
    /\ UNCHANGED <<open, m_aObjects>> /\ Unread

Next ==
    \/ parse \/ parseNextRoot \/ parseNode
    \/ parseObjectEmpty \/ parseObjectKey \/ parseObjectColon
    \/ parseObjectNext \/ parseObjectComma
    \/ parseArrayEnd \/ parseArrayElement \/ parseArrayNext \/ parseArrayComma

Spec == Init /\ [][Next]_vars

-----------------------------------------------------------------------------
(* What is read of a node: of a number with an exponent and no point the   *)
(* digits before it, and in an array a quoted "null", "true" or "false" as *)
(* the word.                                                               *)
Element(n) ==
    IF n.eTag = "STRING" /\ n.val \in Literals
    THEN [n EXCEPT !.eTag = IF n.val = "null" THEN "NULL_" ELSE "BOOL"] ELSE n
RECURSIVE Read(_)
Read(n) ==
    LET kids == [i \in DOMAIN n.kids |-> Read(n.kids[i])]
    IN [n EXCEPT !.val = IF n.eTag = "LONG" THEN toI64(@) ELSE @,
                 !.kids = IF n.eTag = "ARRAY" THEN [i \in DOMAIN kids |-> Element(kids[i])]
                          ELSE kids]

(* A text that JSON derives is accepted, and the nodes are those it        *)
(* writes, but for what Read changes: "arrays are the same as objects but  *)
(* with empty keys".                                                       *)
ReadsJson ==
    ~dropped => at # "failed" /\ (at = "done" => m_aObjects = [i \in DOMAIN given |-> Read(given[i])])

(* A text that lost a comma, a colon, what follows one or a closing        *)
(* parenthesis is refused, however the calls are nested at the gap.        *)
RefusesGaps == dropped => at # "done"
=============================================================================
