-------------------------------- MODULE Format --------------------------------
(***************************************************************************)
(* The format strings of print.hh, parsed by parseArgs() and the           *)
(* operations below it, and the formatting of integers.  A format string   *)
(* is a sequence of characters; its arguments are integers, which may also *)
(* serve as widths, and others.  What is pushed is a sequence of           *)
(* characters and of arguments with the settings they are shown by; each   *)
(* counts as one and takes one of the places the builder has.              *)
(***************************************************************************)
EXTENDS Integers, Sequences, SequencesExt, FiniteSetsExt

CONSTANTS Pieces,          \* of the format strings: see Meaning
          MaxPieces, Args,
          Rooms            \* the places of the builder

VARIABLES pieces, args,
          ctx              \* after print(): what was pushed, and the count

vars == <<pieces, args, ctx>>

Digits == {"0", "1", "2"}
toI64(c) == CASE c = "1" -> 1 [] c = "2" -> 2 [] OTHER -> 0

(* FmtArgs.  A flag stands for each bit of eFlags.                         *)
Default == [maxLen |-> -1, floatPrecision |-> -1, padding |-> 0, eBase |-> 10,
            filler |-> " ", eFlags |-> {}]

(* The state of a parse: fmtI and argI count from 0, as in the code.       *)
Start(fmt, spArgs, room) ==
    [svFmt |-> fmt, spArgs |-> spArgs, fmtI |-> 0, argI |-> 0,
     f |-> Default, out |-> <<>>, n |-> 0, room |-> room]

More(c) == c.fmtI < Len(c.svFmt)
Here(c) == c.svFmt[c.fmtI + 1]
Is(c, ch) == More(c) /\ Here(c) = ch
Skip(c) == [c EXCEPT !.fmtI = @ + 1]
Push(c, piece, count) ==
    IF c.room = 0 THEN c
    ELSE [c EXCEPT !.out = Append(@, piece), !.n = @ + count, !.room = @ - 1]

eatFmtArg(r, f) ==
    CASE "FLOAT_PRECISION" \in f.eFlags ->
            [f EXCEPT !.eFlags = @ \ {"FLOAT_PRECISION"}, !.floatPrecision = r]
      [] "FILLER" \in f.eFlags /\ "FLOAT_PRECISION" \notin f.eFlags ->
            [f EXCEPT !.eFlags = @ \ {"FILLER"}, !.filler = r]
      [] f.eFlags \cap {"FLOAT_PRECISION", "FILLER"} = {}
           /\ f.eFlags \cap {"JUSTIFY_LEFT", "JUSTIFY_RIGHT"} # {} ->
            [f EXCEPT !.padding = r]
      [] OTHER -> [f EXCEPT !.maxLen = r]

(* An integer is a setting between ":" and "}", and is shown elsewhere.    *)
formatArg(c) ==
    LET a == c.spArgs[c.argI + 1]
        d == [c EXCEPT !.argI = @ + 1]
    IN IF "COLON" \in c.f.eFlags /\ a.integral
       THEN [d EXCEPT !.f = eatFmtArg(a.val, c.f)]
       ELSE Push(d, [arg |-> a.val, f |-> [c.f EXCEPT !.eFlags = @ \ {"COLON"}]], 1)

RECURSIVE parseArg(_), parseColon(_), parseNumber(_)

(* The digits are one number: one digit here.                              *)
parseNumber(c) ==
    IF Is(c, "{") THEN parseArg(Skip(c))
    ELSE IF More(c) /\ Here(c) \in Digits
         THEN Skip([c EXCEPT !.f = eatFmtArg(toI64(Here(c)), c.f)])
         ELSE [c EXCEPT !.f = eatFmtArg(0, c.f)]

(* The filler is read, and then met again as a setting of its own.         *)
parseChar(c) ==
    IF ~More(c) THEN c
    ELSE IF Here(c) = "{"
         THEN parseArg(Skip([c EXCEPT !.f.eFlags = @ \cup {"FILLER"}]))
         ELSE [c EXCEPT !.f.filler = Here(c)]

Flag(c, flag) == [c EXCEPT !.f.eFlags = @ \cup {flag}]
Base(c, base) == [c EXCEPT !.f.eBase = base]

(* Mutant: the width after "<" or ">" is skipped, not read.                *)
parseColonWithoutWidth(c) ==
    IF ~More(c) \/ Here(c) = "}" THEN c
    ELSE parseColon(
        CASE Here(c) = "{" -> parseArg(Skip(c))
          [] Here(c) \in Digits -> parseNumber(c)
          [] Here(c) = "f" -> parseChar(Skip(c))
          [] Here(c) = "<" -> Skip(Flag(c, "JUSTIFY_LEFT"))
          [] Here(c) = ">" -> Skip(Skip(Flag(c, "JUSTIFY_RIGHT")))
          [] Here(c) = "." -> parseNumber(Flag(Skip(c), "FLOAT_PRECISION"))
          [] OTHER -> Skip(c))

parseColon(c) ==
    IF ~More(c) \/ Here(c) = "}" THEN c
    ELSE parseColon(
        CASE Here(c) = "{" -> parseArg(Skip(c))
          [] Here(c) \in Digits -> parseNumber(c)
          [] Here(c) = "f" -> parseChar(Skip(c))
          [] Here(c) = "<" -> parseNumber(Flag(Skip(c), "JUSTIFY_LEFT"))
          [] Here(c) = ">" -> parseNumber(Flag(Skip(c), "JUSTIFY_RIGHT"))
          [] Here(c) = "." -> parseNumber(Flag(Skip(c), "FLOAT_PRECISION"))
          [] Here(c) = "#" -> Skip(Flag(c, "HASH"))
          [] Here(c) = "b" -> Skip(Base(c, 2))
          [] Here(c) = "o" -> Skip(Base(c, 8))
          [] Here(c) = "x" -> Skip(Base(c, 16))
          [] Here(c) = "+" -> Skip(Flag(c, "SHOW_SIGN"))
          [] OTHER -> Skip(c))

(* The settings up to "}", and then the argument.                          *)
RECURSIVE Settings(_)
Settings(c) ==
    IF ~More(c) \/ Here(c) = "}" THEN c
    ELSE IF Here(c) = ":"
         THEN LET d == parseColon(Skip(Flag(c, "COLON")))
              IN Settings([d EXCEPT !.f.eFlags = @ \ {"COLON"}])
         ELSE Settings(Skip(c))

parseArg(c) ==
    LET d == Settings(c)
        shown == IF d.argI < Len(d.spArgs) THEN formatArg(d)
                 ELSE Push(d, [text |-> "(missing arg)"], 1)
    IN IF More(shown) THEN Skip(shown) ELSE shown

(* "{{" pushes a "{" that the count leaves out.  A text that finds no room *)
(* ends the parse.                                                         *)
RECURSIVE parseArgs(_)
parseArgs(c) ==
    IF ~More(c) \/ (Here(c) # "{" /\ c.room = 0) THEN c
    ELSE IF Here(c) # "{" THEN parseArgs(Skip(Push(c, [text |-> Here(c)], 1)))
    ELSE IF Is(Skip(c), "{") THEN parseArgs(Skip(Skip(Push(c, [text |-> "{"], 0))))
    ELSE parseArgs([parseArg(Skip([c EXCEPT !.f = Default])) EXCEPT !.f = Default])

(* Characters of an integer of a type of `w' bits in a base, from the last *)
(* digit to the sign; then they are reversed.                              *)
Char(d) == SubSeq(<<"0", "1", "2", "3", "4", "5", "6", "7", "8", "9",
                    "a", "b", "c", "d", "e", "f">>, d + 1, d + 1)
RECURSIVE itoa(_, _)
itoa(num, base) ==
    Char(num % base) \o (IF num \div base > 0 THEN itoa(num \div base, base) ELSE <<>>)

Prefix(f) ==
    IF "HASH" \notin f.eFlags THEN <<>>
    ELSE CASE f.eBase = 2 -> <<"b", "0">>
           [] f.eBase = 8 -> <<"o">>
           [] f.eBase = 16 -> <<"x", "0">>
           [] OTHER -> <<>>

formatInteger(arg, f) ==
    Reverse(itoa(IF arg < 0 THEN -arg ELSE arg, f.eBase)
              \o Prefix(f)
              \o (IF arg < 0 THEN <<"-">>
                  ELSE IF "SHOW_SIGN" \in f.eFlags THEN <<"+">> ELSE <<>>))

-----------------------------------------------------------------------------
Init ==
    /\ pieces \in BoundedSeq(Pieces, MaxPieces)
    /\ args \in BoundedSeq(Args, MaxPieces + 1)
    /\ \E room \in Rooms : ctx = Start(FlattenSeq(pieces), args, room)

(* Builder::print(), toSpan() and the other entrances.                     *)
print ==
    /\ ctx.fmtI = 0 /\ More(ctx)
    /\ ctx' = parseArgs(ctx)
    /\ UNCHANGED <<pieces, args>>

Next == print

Spec == Init /\ [][Next]_vars

-----------------------------------------------------------------------------
(* What a replacement field is for, read from its text: which settings it  *)
(* names, each with a number or, as "{}", with the next argument.          *)
Needs(p) == Cardinality({i \in 2..Len(p) : p[i] = "{"})
Field(p) == p[1] = "{" /\ Len(p) > 1 /\ p[2] # "{"
Value(p, i, used) ==     \* of the setting whose number is at i
    IF p[i] # "{" THEN toI64(p[i])
    ELSE args[used + Cardinality({j \in 2..i : p[j] = "{"})].val
Setting(p, ch, used, otherwise) ==
    IF \E i \in DOMAIN p : p[i] = ch
    THEN Value(p, 1 + CHOOSE i \in DOMAIN p : p[i] = ch, used) ELSE otherwise
Has(p, ch) == \E i \in DOMAIN p : p[i] = ch

Used(n) == FoldLeft(LAMBDA acc, p : acc + (IF Field(p) THEN 1 + Needs(p) ELSE 0),
                    0, SubSeq(pieces, 1, n - 1))
Shown(n) ==
    LET p == pieces[n]
        f == [maxLen |-> IF Len(p) > 2 /\ (p[3] = "{" \/ p[3] \in Digits)
                         THEN Value(p, 3, Used(n)) ELSE -1,
              floatPrecision |-> Setting(p, ".", Used(n), -1),
              padding |-> Setting(p, "<", Used(n), Setting(p, ">", Used(n), 0)),
              eBase |-> IF Has(p, "x") THEN 16 ELSE IF Has(p, "b") THEN 2 ELSE 10,
              filler |-> IF \E i \in DOMAIN p : p[i] = "f" /\ p[i + 1] # "{"
                         THEN p[1 + CHOOSE i \in DOMAIN p : p[i] = "f"]
                         ELSE Setting(p, "f", Used(n), " "),
              eFlags |-> {fl \in {"HASH", "SHOW_SIGN", "JUSTIFY_LEFT", "JUSTIFY_RIGHT"} :
                            Has(p, CASE fl = "HASH" -> "#" [] fl = "SHOW_SIGN" -> "+"
                                     [] fl = "JUSTIFY_LEFT" -> "<" [] OTHER -> ">")}]
    IN IF ~Field(p) THEN [text |-> p[1]]
       ELSE [arg |-> args[Used(n) + Needs(p) + 1].val, f |-> f]

(* The arguments that serve as settings are integers.                      *)
Fits == /\ Len(args) = Used(Len(pieces) + 1)
        /\ \A n \in DOMAIN pieces : Field(pieces[n]) =>
              \A i \in 1..Needs(pieces[n]) : args[Used(n) + i].integral

(* With as many arguments as it asks for, a format string pushes its texts *)
(* and its arguments in order, each argument by the settings of its own    *)
(* field, as far as there is room.                                         *)
ShowsFields ==
    Fits /\ ctx.fmtI > 0 =>
        LET all == [n \in DOMAIN pieces |-> Shown(n)]
        IN IsPrefix(ctx.out, all) /\ (ctx.room > 0 => ctx.out = all)

(* The count returned is what was pushed, without the "{{".                *)
CountsPushed ==
    ctx.fmtI > 0 =>
        ctx.n = Len(ctx.out) - Cardinality({i \in DOMAIN ctx.out : ctx.out[i] = [text |-> "{"]})

(* The digits of an integer, read again in its base, are the integer.      *)
DigitValue(c) == CHOOSE d \in 0..15 : Char(d) = <<c>>
ReadBack(s, base) ==
    FoldLeft(LAMBDA acc, c : base * acc + DigitValue(c), 0, s)
IntegersReadBack ==
    \A n \in -20..20, base \in {2, 8, 10, 16}, flags \in SUBSET {"HASH", "SHOW_SIGN"} :
        LET f == [Default EXCEPT !.eBase = base, !.eFlags = flags]
            s == formatInteger(n, f)
            sign == IF n < 0 \/ "SHOW_SIGN" \in flags THEN 1 ELSE 0
        IN ReadBack(SubSeq(s, 1 + sign + Len(Prefix(f)), Len(s)), base)
             = (IF n < 0 THEN -n ELSE n)
=============================================================================
