------------------------------ MODULE MCLibrary ------------------------------
(***************************************************************************)
(* One run for the trees, the lists, the heap and the sorting algorithms,  *)
(* the texts and their formatting, the parsers of JSON and of command      *)
(* lines, and the transforms: they share no state, so every behaviour      *)
(* picks one of them at the start (`part').                                *)
(***************************************************************************)
EXTENDS Integers, Sequences

CONSTANT Parts

VARIABLES part,
          tree, treeSize, inserted,
          listKind, list, order,
          heapKind, m_vec, bag, extracted,
          input, a, done, strands,
          splayed, keys, answer,
          pieceBuffers, refs, m_lPieces, listSize, mine, spelt, lost,
          nodes, m_pRoot, m_totalSize, leafRefs, ropeText, freed,
          memory, sv, words, m_i,
          stringKind, m_aBuff, pData, m_cap, m_size, str, fate,
          builderKind, builderData, builderSize, buffers, text, lack,
          pieces, args, ctx,
          m_svJson, lexerPos, m_row, m_column, tokens,
          given, dropped, rest, m_token, open, at, m_aObjects,
          m, q, moves,
          uses, argv, argI, keyI, called, eFinalResult, parsed

treeVars == <<tree, treeSize, inserted>>
listVars == <<listKind, list, order>>
heapVars == <<heapKind, m_vec, bag, extracted>>
sortVars == <<input, a, done, strands>>
splayVars == <<splayed, keys, answer>>
pieceVars == <<pieceBuffers, refs, m_lPieces, listSize, mine, spelt, lost>>
ropeVars == <<nodes, m_pRoot, m_totalSize, leafRefs, ropeText, freed>>
viewVars == <<memory, sv, words, m_i>>
stringVars == <<stringKind, m_aBuff, pData, m_cap, m_size, str, fate>>
builderVars == <<builderKind, builderData, builderSize, buffers, text, lack>>
formatVars == <<pieces, args, ctx>>
lexerVars == <<m_svJson, lexerPos, m_row, m_column, tokens>>
parserVars == <<given, dropped, rest, m_token, open, at, m_aObjects>>
mathVars == <<m, q, moves>>
argvVars == <<uses, argv, argI, keyI, called, eFinalResult, parsed>>

\* Nine nodes: a removal propagates over more than one level. Two are equal.
TreeData == [n \in 1 .. 9 |-> IF n <= 2 THEN 1 ELSE n]
Tree == INSTANCE RBTree WITH m_size <- treeSize, Nodes <- 1 .. 9, Data <- TreeData

\* Five nodes: three passes of the merge sort, with a short last run.
ListData == [n \in 1 .. 5 |-> n \div 2]
List == INSTANCE LinkedList
           WITH kind <- listKind, Nodes <- 1 .. 5, Data <- ListData, Kinds <- {"List", "SList"}
Heap == INSTANCE BinaryHeap
           WITH kind <- heapKind, Vals <- 1 .. 3, MaxSize <- 7, Kinds <- {"max", "min"}
Sort == INSTANCE Sorting WITH Vals <- 1 .. 3, MaxLen <- 6, SMALL <- 2, ALONE <- 1

\* Six nodes, two of them equal: paths of both zig-zigs and zig-zags.
Splay == INSTANCE SplayTree
            WITH tree <- splayed, Nodes <- 1 .. 6, Data <- <<1, 1, 2, 3, 4, 5>>
PieceList == INSTANCE PieceList
                WITH m_size <- listSize, text <- spelt, buffers <- pieceBuffers,
                     Bufs <- 1 .. 3, MaxInsert <- 2, MaxSize <- 3
Rope == INSTANCE Rope
           WITH refs <- leafRefs, text <- ropeText, MaxInserts <- 4, MaxSize <- 2

\* A newline, a space, a minus, a digit and a letter.
View == INSTANCE StringView
           WITH m <- memory, Chars <- {10, 32, 45, 49, 97}, Length <- 3, Delimiters <- {32}
Owned == INSTANCE OwnedString
            WITH kind <- stringKind, Kinds <- {"String", "VString", "StringFixed"},
                 BUFF <- 3, Chars <- {"a", "\n"}, MaxLen <- 5
Builder == INSTANCE Builder
              WITH kind <- builderKind, m_pData <- builderData, m_size <- builderSize,
                   live <- buffers, Kinds <- {"span", "growing", "prealloc"},
                   Caps <- {1, 3, 5}, Chars <- {"a", "b"}, Filler <- "_", MaxText <- 4

\* A character, an escaped "{", and fields with every setting, given as a
\* digit or by an argument.
Format == INSTANCE Format
             WITH Pieces <- {<<"a">>, <<"{", "{">>, <<"{", "}">>, <<"{", ":", "<", "2", "}">>,
                             <<"{", ":", ">", "{", "}", ".", "{", "}", "}">>,
                             <<"{", ":", "1", "}">>, <<"{", ":", "#", "x", "+", "}">>,
                             <<"{", ":", "f", "_", ">", "2", "}">>,
                             <<"{", ":", "f", "{", "}", "<", "2", "}">>,
                             <<"{", ":", "{", "}", "}">>},
                  MaxPieces <- 2, Rooms <- {1, 9},
                  Args <- {[integral |-> TRUE, val |-> 1], [integral |-> TRUE, val |-> 2],
                           [integral |-> FALSE, val |-> 9]}
Lexer == INSTANCE JsonLexer
            WITH m_pos <- lexerPos, MaxLen <- 4,
                 Chars <- {"{", "w", "a", "1", ".", "\"", "\\", " ", "\n", "_"}
Parser == INSTANCE JsonParser
             WITH text <- rest, Words <- {"null", "true", "false", "k"}

\* Scalings with and without a reflection, and quarter, half and third turns.
Math == INSTANCE Transforms
           WITH Shifts <- {<<1, 2, 3>>, <<0, -1, 2>>}, Scales <- {<<2, 2, 2>>, <<1, -2, 3>>},
                Quaternions <- {<<0, 1, 0, 1>>, <<1, 1, 1, 1>>, <<0, 0, -1, 1>>, <<1, 0, 0, 0>>},
                Eyes <- {[eye |-> <<1, 2, 3>>, center |-> <<1, 2, 1>>, up |-> <<0, 1, 0>>],
                         [eye |-> <<1, 2, 3>>, center |-> <<4, 2, 3>>, up |-> <<0, 1, 0>>],
                         [eye |-> <<1, 2, 3>>, center |-> <<1, 0, 3>>, up |-> <<0, 0, 1>>]},
                Probes <- {<<1, 0, 0>>, <<1, 2, 3>>, <<2, -1, 5>>}, MaxMoves <- 2

\* Three uses: a flag and a value on either side of one that ends the line.
Argv == INSTANCE ArgvParser
           WITH Flags <- {"v"}, Valued <- {"o"}, Unknown <- "x", Help <- "h", Word <- "w",
                MaxUses <- 3

Init ==
    /\ part \in Parts
    /\ Tree!Init /\ Splay!Init /\ Rope!Init /\ Math!Init
    /\ IF part = "list" THEN List!Init
       ELSE listKind = "List" /\ list = List!EmptyList /\ order = <<>>
    /\ IF part = "heap" THEN Heap!Init
       ELSE heapKind = "max" /\ m_vec = <<>> /\ bag = <<>> /\ extracted = <<>>
    /\ IF part = "sort" THEN Sort!Init
       ELSE input = <<>> /\ a = <<>> /\ done = "" /\ strands = <<>>
    /\ IF part = "pieces" THEN PieceList!Init
       ELSE /\ pieceBuffers = <<>> /\ refs = PieceList!NoRefs /\ m_lPieces = <<>> /\ listSize = 0
            /\ mine = {} /\ spelt = <<>> /\ lost = PieceList!NoRefs
    /\ IF part = "view" THEN View!Init
       ELSE memory = <<0>> /\ sv = View!View(0, 0) /\ words = <<>> /\ m_i = 0
    /\ IF part = "string" THEN Owned!Init
       ELSE /\ stringKind = "String" /\ m_aBuff = <<>> /\ pData = <<>> /\ m_cap = 0
            /\ m_size = 0 /\ str = <<>> /\ fate = "exact"
    /\ IF part = "builder" THEN Builder!Init
       ELSE /\ builderKind = "destroyed" /\ builderData = <<>> /\ builderSize = 0
            /\ buffers = 0 /\ text = <<>> /\ lack = 0
    /\ IF part = "format" THEN Format!Init
       ELSE pieces = <<>> /\ args = <<>> /\ ctx = <<>>
    /\ IF part = "lexer" THEN Lexer!Init
       ELSE m_svJson = <<>> /\ lexerPos = 0 /\ m_row = 1 /\ m_column = 1 /\ tokens = <<>>
    /\ IF part = "parser" THEN Parser!Init
       ELSE /\ given = <<>> /\ dropped = FALSE /\ rest = <<>> /\ m_token = Parser!NONE
            /\ open = <<>> /\ at = "root" /\ m_aObjects = <<>>
    /\ IF part = "argv" THEN Argv!Init
       ELSE /\ uses = <<>> /\ argv = <<>> /\ argI = 1 /\ keyI = 1 /\ called = <<>>
            /\ eFinalResult = "GOOD" /\ parsed = FALSE

Next ==
    /\ UNCHANGED part
    /\ IF part = "tree" THEN Tree!Next ELSE UNCHANGED treeVars
    /\ IF part = "list" THEN List!Next ELSE UNCHANGED listVars
    /\ IF part = "heap" THEN Heap!Next ELSE UNCHANGED heapVars
    /\ IF part = "sort" THEN Sort!Next ELSE UNCHANGED sortVars
    /\ IF part = "splay" THEN Splay!Next ELSE UNCHANGED splayVars
    /\ IF part = "pieces" THEN PieceList!Next ELSE UNCHANGED pieceVars
    /\ IF part = "rope" THEN Rope!Next ELSE UNCHANGED ropeVars
    /\ IF part = "view" THEN View!Next ELSE UNCHANGED viewVars
    /\ IF part = "string" THEN Owned!Next ELSE UNCHANGED stringVars
    /\ IF part = "builder" THEN Builder!Next ELSE UNCHANGED builderVars
    /\ IF part = "format" THEN Format!Next ELSE UNCHANGED formatVars
    /\ IF part = "lexer" THEN Lexer!Next ELSE UNCHANGED lexerVars
    /\ IF part = "parser" THEN Parser!Next ELSE UNCHANGED parserVars
    /\ IF part = "math" THEN Math!Next ELSE UNCHANGED mathVars
    /\ IF part = "argv" THEN Argv!Next ELSE UNCHANGED argvVars

Spec ==
    Init /\ [][Next]_<<part, treeVars, listVars, heapVars, sortVars, splayVars, pieceVars,
                       ropeVars, viewVars, stringVars, builderVars, formatVars, lexerVars,
                       parserVars, mathVars, argvVars>>

-----------------------------------------------------------------------------
\* RBTree: balanced after every insertion and removal, holding what the client
\* put in, in order, for searches and for iterators. SplayTree: the client's
\* values, in order, for searches. List, SList: iteration in their order, and
\* backward in the reverse order, over unlinking and sorting. Heap: nothing
\* lies below what belongs below it, a maximum comes out, and nothing else is
\* lost. sort.hh: a sorted permutation, except by a push with DEC as an argument,
\* which sorts only what is as great as the first; the strands of a parallel sort
\* share no element.
OrderIsKept ==
    /\ Tree!TypeOK /\ Tree!IsRedBlack /\ Tree!IsSearchTree /\ Tree!WalksInOrder
    /\ Splay!IsSearchTree
    /\ List!TypeOK /\ List!ForwardIsOrder /\ List!BackwardIsReverse
    /\ Heap!TypeOK /\ Heap!IsHeap /\ Heap!ExtractsMaximum
    /\ Sort!SortsPermutation /\ Sort!StrandsApart

\* StringView: comparisons, searches, numbers and words are those of the texts
\* shown, but for views of one start. String, StringFixed: they hold their text;
\* VString: so it does until one of the calls that upset it (`fate').
\* PieceList, Rope: the text the edits should leave, and no buffer freed while
\* a piece shows it.
TextsAreExact ==
    /\ part = "view" => /\ View!ComparesTexts /\ View!SearchesFind
                        /\ View!ReadsNumbers /\ View!WordsAreFields
    /\ part = "string" => Owned!TypeOK /\ Owned!HoldsText
    /\ PieceList!HoldsText /\ PieceList!CountsPieces
    /\ Rope!SpellsText /\ Rope!FreesBuffers

\* print.hh: a format string shows its arguments each by its own settings, and
\* a builder shows what was pushed, or how it begins, inside its buffer unless a
\* width is below the length of its text.
PrintsWhatIsAsked ==
    /\ part = "builder" => Builder!TypeOK /\ Builder!ShowsText /\ Builder!FreesPrealloc
    /\ part = "format" => Format!ShowsFields /\ Format!CountsPushed /\ Format!IntegersReadBack

\* json: the tokens cut up the text, their positions are exact, JSON is read as
\* the nodes it writes, but for exponents and for quoted words in arrays, and a
\* text with a gap is refused. ArgvParser: the handlers a command line stands for
\* are called, and no others.
ReadsInput ==
    /\ part = "lexer" => Lexer!TokensCutUpText /\ Lexer!QuotesMatch /\ Lexer!PositionsAreExact
    /\ part = "parser" => Parser!ReadsJson /\ Parser!RefusesGaps
    /\ part = "argv" => Argv!CallsHandlers

\* math.hh: products apply their moves from the last to the first, those of
\* quaternions too, inverses take them back, and a camera looks ahead.
TransformsCompose ==
    part = "math" => /\ Math!AppliesMoves /\ Math!QuaternionsTurn
                     /\ Math!Inverts /\ Math!LooksAhead
=============================================================================
