------------------------------ MODULE PrintFmt -------------------------------
(***************************************************************************)
(* Formatted output, lib/printfmt.c: vprintfmt(), which walks over the     *)
(* format, one character a step, gathers the flags of an escape and        *)
(* converts its argument; and vsnprintf() around it, whose sprintputch()   *)
(* counts each character and stores those for which there is room, and     *)
(* which terminates what it stored.                                        *)
(*                                                                         *)
(* A character is a string.  An argument is a record with a value for      *)
(* whatever type a conversion asks for.                                    *)
(***************************************************************************)
EXTENDS Integers, SequencesExt, FiniteSetsExt

CONSTANTS
  Chars,         \* the characters
  Calls,         \* the calls: a format, what it is meant to say, a list of
                 \* arguments, the buffer (an array, or none) and its size
  IntBits,       \* bits of int and long (32)
  LongLongBits,  \* bits of long long (64)
  error_string   \* a sequence of messages: those of the codes 1, 2, ...

digits == << "0", "1", "2", "3", "4", "5", "6", "7", "8", "9",
             "a", "b", "c", "d", "e", "f" >>

(* The characters of an escape: the arms that go on with the switch, and   *)
(* those that end the escape with a conversion.                            *)
DecimalDigits == {digits[k] : k \in 1 .. 10}
FlagChars     == {"-", "0", "#", "l", "."}
Going         == FlagChars \cup DecimalDigits \cup {"*"}
Conversions   == {"c", "e", "s", "d", "o", "u", "x", "p"}

(* The characters that the code itself puts.                               *)
Named == {digits[k] : k \in 1 .. 16}
         \cup {" ", "-", "?", "%", "x", "(", "n", "u", "l", ")"}

(***************************************************************************)
(* The caller passes an argument for each conversion of the format, and    *)
(* for each star of an escape.  Inside(f)[k]: do the first k characters    *)
(* of f end in the middle of an escape?                                    *)
(***************************************************************************)
Inside(f) ==
  LET inside[k \in 0 .. Len(f)] ==
        k > 0 /\ IF inside[k - 1] THEN f[k] \in Going ELSE f[k] = "%"
  IN  inside

Takers(f) == {k \in 1 .. Len(f) : Inside(f)[k - 1] /\ f[k] \in Conversions \cup {"*"}}

Argument == [num : Int, str : Seq(Chars), char : Chars]

GoodCall(c) == /\ c.fmt \in Seq(Chars) /\ c.args \in Seq(Argument)
               /\ c.dest \in {"array", "null"} /\ c.size \in Int
               /\ Cardinality(Takers(c.fmt)) <= Len(c.args)

ASSUME CharsAssumption == Named \subseteq Chars
ASSUME CallsAssumption == \A c \in Calls : GoodCall(c)
ASSUME ErrorAssumption == error_string \in Seq(Seq(Chars))
ASSUME PowerAssumption ==
  /\ \A b \in {IntBits - 1, IntBits, LongLongBits - 1, LongLongBits} : 2 ^ b \in Nat \ {0}
  /\ \A b \in {IntBits, LongLongBits} : 2 ^ b = 2 * 2 ^ (b - 1)
  /\ 2 ^ IntBits <= 2 ^ LongLongBits

VARIABLES
  meant, fmt, args,                           \* from the call
  fi, ai,                                     \* how many of each are consumed
  padc, width, precision, lflag, altflag,     \* the flags of an escape
  pc,                                         \* where vprintfmt() is
  dest, n, buf, cnt,                          \* the buffer: is there one, its
                                              \* size and contents, the count
  out,                                        \* the characters put so far
  result                                      \* what vsnprintf() returned

given  == << meant, fmt, args, dest, n >>
escape == << padc, width, precision, lflag, altflag >>
output == << buf, cnt, out >>
vars   == << given, fi, ai, escape, pc, output, result >>

EInval == -3
Null   == << "null" >>     \* a null pointer for a string
NUL    == "NUL"            \* the terminator of the format

Digit(c) == (CHOOSE k \in 1 .. 16 : digits[k] = c) - 1

ch  == IF fi < Len(fmt) THEN fmt[fi + 1] ELSE NUL
arg == args[ai + 1]

-----------------------------------------------------------------------------
(* Mutant: the last byte of the buffer is stored to, too. *)
StorableToo(s) == SubSeq(s, 1, Min({Len(s), Max({0, n - Len(buf)})}))

(* sprintputch(): `ebuf' is one before the end, for the terminator. *)
Storable(s) == SubSeq(s, 1, Min({Len(s), Max({0, n - 1 - Len(buf)})}))

Put(s) ==
  /\ out' = out \o s
  /\ cnt' = cnt + Len(s)
  /\ buf' = buf \o Storable(s)

Repeat(c, times) == [k \in 1 .. Max({0, times}) |-> c]

(***************************************************************************)
(* printnum(): the digits, most significant first, after the padding.      *)
(***************************************************************************)
DigitsOf[base \in {8, 10, 16}] ==
  LET d[num \in 0 .. 2 ^ LongLongBits - 1] ==
        IF num >= base THEN Append(d[num \div base], digits[(num % base) + 1])
        ELSE << digits[num + 1] >>
  IN  d

printnum(num, base) ==
  LET d == DigitsOf[base][num] IN Repeat(padc, width - Len(d)) \o d

(* The values of va_arg(), as the 64 bits they are stored in. *)
Pattern(v, bits) == v % 2 ^ bits
Signed(v, bits)  == IF Pattern(v, bits) < 2 ^ (bits - 1) THEN Pattern(v, bits)
                    ELSE Pattern(v, bits) - 2 ^ bits

Bits == IF lflag >= 2 THEN LongLongBits ELSE IntBits

getuint == Pattern(arg.num, Bits)

getint == Pattern(Signed(arg.num, Bits), LongLongBits)

Negative(num) == num >= 2 ^ (LongLongBits - 1)

(* The sign is put before the padding; the negation wraps for the least number. *)
SignedNumber(num, base) ==
  IF Negative(num) THEN << "-" >> \o printnum(Pattern(-num, LongLongBits), base)
  ELSE printnum(num, base)

(***************************************************************************)
(* Strings: padding on the left unless padc is '-', then on the right.     *)
(***************************************************************************)
strnlen(s) == IF precision < 0 THEN Len(s) ELSE Min({Len(s), precision})

Visible(s) == [k \in 1 .. Len(s) |-> IF altflag /\ s[k] = "ctl" THEN "?" ELSE s[k]]

StringField(s) ==
  LET shown == Visible(SubSeq(s, 1, strnlen(s)))
      pad   == width - strnlen(s)
  IN  IF padc # "-" THEN Repeat(padc, pad) \o shown ELSE shown \o Repeat(" ", pad)

(***************************************************************************)
(* %e: the message of the code or of its negative; "e" stands for the word *)
(* "error" and a space.  The least int has no negative: no call passes it. *)
(***************************************************************************)
ErrorText ==
  LET v   == Signed(arg.num, IntBits)
      err == IF v < 0 THEN -v ELSE v
  IN  IF err \in 1 .. Len(error_string) THEN error_string[err]
      ELSE << "e" >> \o DigitsOf[10][err]

-----------------------------------------------------------------------------
(* vsnprintf() refuses a buffer with no room for a terminator. *)
NoRoom == dest = "null" \/ n < 1

Refuse ==
  /\ pc = "call" /\ NoRoom
  /\ result' = EInval /\ pc' = "returned"
  /\ UNCHANGED << given, fi, ai, escape, output >>

Begin ==
  /\ pc = "call" /\ ~NoRoom
  /\ pc' = "text"
  /\ UNCHANGED << given, fi, ai, escape, output, result >>

Text ==
  /\ pc = "text" /\ ch \notin {"%", NUL}
  /\ Put(<< ch >>)
  /\ fi' = fi + 1
  /\ UNCHANGED << given, ai, escape, pc, result >>

(* vprintfmt() returns and vsnprintf() terminates the buffer. *)
End ==
  /\ pc = "text" /\ ch = NUL
  /\ buf' = Append(buf, NUL)
  /\ result' = cnt /\ pc' = "returned"
  /\ UNCHANGED << given, fi, ai, escape, cnt, out >>

(* Mutant: the padding of the escape before is still in force. *)
PercentKeepsPad ==
  /\ pc = "text" /\ ch = "%"
  /\ width' = -1 /\ precision' = -1 /\ lflag' = 0 /\ altflag' = FALSE
  /\ fi' = fi + 1 /\ pc' = "switch"
  /\ UNCHANGED << given, ai, padc, output, result >>

Percent ==
  /\ pc = "text" /\ ch = "%"
  /\ padc' = " " /\ width' = -1 /\ precision' = -1 /\ lflag' = 0 /\ altflag' = FALSE
  /\ fi' = fi + 1 /\ pc' = "switch"
  /\ UNCHANGED << given, ai, output, result >>

(* The arms that end in "goto reswitch". *)
Flag ==
  /\ pc = "switch" /\ ch \in FlagChars
  /\ padc' = IF ch \in {"-", "0"} THEN ch ELSE padc
  /\ altflag' = (altflag \/ ch = "#")
  /\ lflag' = IF ch = "l" THEN lflag + 1 ELSE lflag
  /\ width' = IF ch = "." /\ width < 0 THEN 0 ELSE width
  /\ fi' = fi + 1
  /\ UNCHANGED << given, ai, precision, pc, output, result >>

(* process_precision: the first number is the width. *)
Number(v) ==
  IF width < 0 THEN width' = v /\ precision' = -1
  ELSE precision' = v /\ UNCHANGED width

(* The digits of a number, gathered in `precision' as the code does.       *)
WidthDigit ==
  /\ \/ pc = "switch" /\ ch \in DecimalDigits \ {"0"}
     \/ pc = "number" /\ ch \in DecimalDigits
  /\ precision' = Digit(ch) + IF pc = "number" THEN 10 * precision ELSE 0
  /\ fi' = fi + 1 /\ pc' = "number"
  /\ UNCHANGED << given, ai, padc, width, lflag, altflag, output, result >>

(* Mutant: the number is processed again and again. *)
WidthEndStays ==
  /\ pc = "number" /\ ch \notin DecimalDigits
  /\ Number(precision)
  /\ UNCHANGED << given, fi, ai, padc, lflag, altflag, pc, output, result >>

WidthEnd ==
  /\ pc = "number" /\ ch \notin DecimalDigits
  /\ Number(precision)
  /\ pc' = "switch"
  /\ UNCHANGED << given, fi, ai, padc, lflag, altflag, output, result >>

Star ==
  /\ pc = "switch" /\ ch = "*"
  /\ Number(Signed(arg.num, IntBits))
  /\ fi' = fi + 1 /\ ai' = ai + 1
  /\ UNCHANGED << given, padc, lflag, altflag, pc, output, result >>

(* The conversions. *)
Converted ==
  CASE ch = "c" -> << arg.char >>
    [] ch = "e" -> ErrorText
    [] ch = "s" -> StringField(IF arg.str = Null THEN << "(", "n", "u", "l", "l", ")" >>
                               ELSE arg.str)
    [] ch = "d" -> SignedNumber(getint, 10)
    [] ch = "o" -> SignedNumber(getint, 8)
    [] ch = "u" -> printnum(getuint, 10)
    [] ch = "x" -> printnum(getuint, 16)
    [] ch = "p" -> << "0", "x" >> \o printnum(Pattern(arg.num, IntBits), 16)

Convert ==
  /\ pc = "switch" /\ ch \in Conversions
  /\ Put(Converted)
  /\ fi' = fi + 1 /\ ai' = ai + 1 /\ pc' = "text"
  /\ UNCHANGED << given, escape, result >>

PercentSign ==
  /\ pc = "switch" /\ ch = "%"
  /\ Put(<< "%" >>)
  /\ fi' = fi + 1 /\ pc' = "text"
  /\ UNCHANGED << given, ai, escape, result >>

(* Mutant: the format goes on behind the character that was not understood. *)
UnrecognizedSkips ==
  /\ pc = "switch"
  /\ ch \notin Going \cup Conversions \cup {"%"}
  /\ Put(<< "%" >>)
  /\ fi' = fi + 1 /\ pc' = "text"
  /\ UNCHANGED << given, ai, escape, result >>

(* Back to the '%': what follows it is printed as text. *)
Unrecognized ==
  /\ pc = "switch"
  /\ ch \notin Going \cup Conversions \cup {"%"}
  /\ Put(<< "%" >>)
  /\ fi' = Max({k \in 1 .. fi : fmt[k] = "%"}) /\ pc' = "text"
  /\ UNCHANGED << given, ai, escape, result >>

-----------------------------------------------------------------------------
Init ==
  /\ \E call \in Calls : /\ meant = call.meant /\ fmt = call.fmt
                         /\ args = call.args
                         /\ dest = call.dest /\ n = call.size
  /\ fi = 0 /\ ai = 0
  /\ padc = " " /\ width = -1 /\ precision = -1 /\ lflag = 0 /\ altflag = FALSE
  /\ pc = "call"
  /\ buf = << >> /\ cnt = 0 /\ out = << >> /\ result = 0

Next == \/ Refuse \/ Begin \/ Text \/ End \/ Percent
        \/ Flag \/ WidthDigit \/ WidthEnd \/ Star
        \/ Convert \/ PercentSign \/ Unrecognized

Spec == Init /\ [][Next]_vars

FairSpec == Spec /\ WF_vars(Next)

-----------------------------------------------------------------------------
(***************************************************************************)
(* snprintf() never stores beyond its buffer, the terminator included;     *)
(* what is stored is a prefix of what was put, cut off only by the end of  *)
(* the buffer, and terminated on return; the result counts all.  The walk  *)
(* reads no character behind the format's terminator, although it goes     *)
(* back and forth at an escape it does not know.                           *)
(***************************************************************************)
Kept == SubSeq(out, 1, Min({Len(out), n - 1}))

Bounded ==
  /\ fi \in 0 .. Len(fmt) /\ ai <= Len(args)
  /\ IF NoRoom THEN out = << >> /\ buf = << >>
     ELSE /\ Len(buf) <= n
          /\ buf = IF pc = "returned" THEN Append(Kept, NUL) ELSE Kept
  /\ pc = "returned" => result = IF NoRoom THEN EInval ELSE Len(out)

(* The walk over the format ends, although it goes back at an unknown escape. *)
Returns == <>(pc = "returned")
=============================================================================
