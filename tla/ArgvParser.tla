----------------------------- MODULE ArgvParser -----------------------------
(***************************************************************************)
(* ArgvParser::parse() of src/include/adt/ArgvParser.hh, against what the  *)
(* user of a command line means by it.  A line is written from uses of     *)
(* options, each of one or two arguments; parse() has to call the handlers *)
(* the uses stand for and to say how it went.                              *)
(*                                                                         *)
(* The result of "-k" is overwritten by that of the next option (line 156):*)
(* an option given so that is unknown or has no value is remembered only   *)
(* as the last of the line, where Init puts it.                            *)
(***************************************************************************)
EXTENDS Sequences, SequencesExt, Naturals

CONSTANTS Flags,        \* names of options without a value
          Valued,       \* names of options with one
          Unknown, Help, Word,      \* three more names
          MaxUses       \* bound: the options of a line

VARIABLES uses,         \* what the user means
          argv,         \* the arguments; the code's argv[0] is left out
          argI, keyI,   \* where parse() is: i, and the letter of a pack
          called,       \* the handlers called, with their values
          eFinalResult, \* what parse() returns
          parsed        \* parse() has returned

vars == <<uses, argv, argI, keyI, called, eFinalResult, parsed>>

(* An argument: its dashes, the names behind them (several in a pack), and *)
(* what follows a "=".                                                     *)
Arg(dashes, names, equals, val) ==
    [dashes |-> dashes, names |-> names, equals |-> equals, val |-> val]
Key(dashes, k) == Arg(dashes, <<k>>, FALSE, <<>>)
Plain == Arg(0, <<Word>>, FALSE, <<>>)
Assign(dashes, k, val) == Arg(dashes, <<k>>, TRUE, val)

(* A use: its arguments, the calls it stands for and the result it ends    *)
(* the line with, "" if parse() goes on.  What a handler is called with is *)
(* empty or the text of an argument; "-o -v" gives o the value "-v".       *)
Use(args, calls, ends) == [args |-> args, calls |-> calls, ends |-> ends]
Fine ==
    {Use(<<Key(d, k)>>, <<<<k, <<>>>>>>, "") : d \in 1..2, k \in Flags}
    \cup {Use(<<Arg(1, <<j, k>>, FALSE, <<>>)>>, <<<<j, <<>>>>, <<k, <<>>>>>>, "") :
             j, k \in Flags}
    \cup {Use(<<Assign(d, k, <<Plain>>)>>, <<<<k, <<Plain>>>>>>, "") : d \in 1..2, k \in Valued}
    \cup {Use(<<Key(1, k), x>>, <<<<k, <<x>>>>>>, "") :
             k \in Valued, x \in {Plain} \cup {Key(1, j) : j \in Flags}}
Ending ==
    {Use(<<Plain>>, <<>>, "GOOD"), Use(<<Key(2, Help)>>, <<<<Help, <<>>>>>>, "SHOW_ALL_USAGE"),
     Use(<<Key(2, Unknown)>>, <<>>, "FAILED")}
    \cup {Use(<<Key(2, k)>>, <<>>, "QUIT_BADLY") : k \in Valued}
    \cup {Use(<<Assign(d, k, <<>>)>>, <<>>, "QUIT_BADLY") : d \in 1..2, k \in Valued}
    \cup {Use(<<Arg(1, <<j, k>>, FALSE, <<>>), Plain>>, <<<<j, <<>>>>, <<k, <<Plain>>>>>>,
              "QUIT_BADLY") : j \in Flags, k \in Valued}
OnlyLast ==
    {Use(<<Key(1, Unknown)>>, <<>>, "FAILED"), Use(<<Key(1, Help)>>, <<<<Help, <<>>>>>>, "SHOW_ALL_USAGE")}
    \cup {Use(<<Key(1, k)>>, <<>>, "QUIT_BADLY") : k \in Valued}

Lines == LET Inner == UNION {[1..n -> Fine \cup Ending] : n \in 0..MaxUses - 1}
         IN Inner \cup {Append(l, u) : l \in Inner, u \in Fine \cup Ending \cup OnlyLast}

Init ==
    /\ uses \in Lines
    /\ argv = FlattenSeq([n \in DOMAIN uses |-> uses[n].args])
    /\ argI = 1 /\ keyI = 1 /\ called = <<>> /\ eFinalResult = "GOOD" /\ parsed = FALSE

pfn(k) == IF k = Help THEN "SHOW_ALL_USAGE" ELSE "GOOD"
Known == Flags \cup Valued \cup {Help}

(* parseArg(): the result, the calls of handlers, and bInc.  A name of a   *)
(* pack comes without the dashes and never with a "=" (lines 132 and 153). *)
Parsed(res, calls, inc) == [res |-> res, calls |-> calls, inc |-> inc]
parseArg(bTwoDash, arg, names) ==
    LET k == names[1] IN
    IF Len(names) # 1 \/ k \notin Known THEN Parsed("FAILED", <<>>, FALSE)
    ELSE IF k \notin Valued THEN Parsed(pfn(k), <<<<k, <<>>>>>>, FALSE)
    ELSE IF bTwoDash
    THEN IF ~arg.equals \/ arg.val = <<>> THEN Parsed("QUIT_BADLY", <<>>, FALSE)
         ELSE Parsed(pfn(k), <<<<k, arg.val>>>>, FALSE)
    ELSE IF argI = Len(argv) THEN Parsed("QUIT_BADLY", <<>>, FALSE)
    ELSE Parsed(pfn(k), <<<<k, <<argv[argI + 1]>>>>>>, TRUE)

Running == ~parsed /\ argI <= Len(argv)
\* Mutant: only "--" makes a name of more than its first letter.
ByDashes(arg) == arg.dashes = 2
ByEquals(arg) == arg.dashes = 2 \/ (arg.dashes = 1 /\ arg.equals)

ParseWhole ==
    LET arg == argv[argI]
        p == parseArg(TRUE, arg, arg.names)
    IN /\ Running /\ ByEquals(arg)
       /\ called' = called \o p.calls
       /\ IF p.res # "GOOD" THEN eFinalResult' = p.res /\ parsed' = TRUE /\ UNCHANGED argI
          ELSE argI' = argI + 1 /\ UNCHANGED <<eFinalResult, parsed>>
       /\ UNCHANGED <<uses, argv, keyI>>

(* A letter of "-abc", or "-k value", which takes two arguments.           *)
ParseLetter ==
    LET arg == argv[argI]
        p == parseArg(FALSE, arg, <<arg.names[keyI]>>)
        isPack == Len(arg.names) # 1
        isLast == keyI = Len(arg.names)
    IN /\ Running /\ arg.dashes = 1 /\ ~ByEquals(arg)
       /\ called' = called \o p.calls
       /\ IF p.inc /\ isPack
          THEN eFinalResult' = "QUIT_BADLY" /\ parsed' = TRUE /\ UNCHANGED <<argI, keyI>>
          ELSE /\ eFinalResult' = p.res /\ UNCHANGED parsed
               /\ keyI' = IF isLast THEN 1 ELSE keyI + 1
               /\ argI' = argI + (IF isLast THEN 1 ELSE 0) + (IF p.inc THEN 1 ELSE 0)
       /\ UNCHANGED <<uses, argv>>

ParseStops ==
    /\ ~parsed /\ (argI <= Len(argv) => argv[argI].dashes = 0)
    /\ parsed' = TRUE
    /\ UNCHANGED <<uses, argv, argI, keyI, called, eFinalResult>>

Next == ParseWhole \/ ParseLetter \/ ParseStops

Spec == Init /\ [][Next]_vars

-----------------------------------------------------------------------------
Ends == {n \in DOMAIN uses : uses[n].ends # ""}
Read == IF Ends = {} THEN Len(uses) ELSE CHOOSE n \in Ends : \A k \in Ends : n <= k

(* parse() calls the handlers of the uses up to the first that ends the    *)
(* line, each with its value and in order, no other, and returns what that *)
(* use ends it with, GOOD if there is none.                                *)
CallsHandlers ==
    parsed =>
        /\ called = FlattenSeq([n \in 1..Read |-> uses[n].calls])
        /\ eFinalResult = IF Ends = {} THEN "GOOD" ELSE uses[Read].ends
=============================================================================
