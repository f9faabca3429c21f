------------------------------ MODULE Directives -----------------------------
(***************************************************************************)
(* What a format means.  A directive is a text (one character), or an      *)
(* escape with a flag, a width and a precision (a number, Starred or       *)
(* None), a number of `l' and a conversion.  Here it is said, without a    *)
(* walk over the format, what a list of directives has vprintfmt() put.    *)
(***************************************************************************)
EXTENDS PrintFmt

None    == -1
Starred == -2

Fields == {None, Starred} \cup (Nat \ {0})

(* "end" is the conversion of an escape in which the format ends. *)
Directive == [text : BOOLEAN, flag : {"none", "0", "-", "#"}, width : Fields,
              prec : Fields, longs : Nat, conv : Chars \cup {"end"}]

Proper(d) == IF d.text THEN d.conv \in Chars \ {"%", NUL} ELSE d.conv \notin Going \cup {NUL}

-----------------------------------------------------------------------------
(* A number is given by its digits, each by its place: no digit but a      *)
(* single one is a leading zero.                                           *)
Place[base \in {8, 10, 16}] ==
  LET p[i \in Nat] == IF i = 0 THEN 1 ELSE base * p[i - 1] IN p

Places(v, base) ==
  CHOOSE k \in 1 .. v + 1 : v < Place[base][k] /\ (k > 1 => Place[base][k - 1] <= v)

Numeral(v, base) ==
  LET k == Places(v, base)
  IN  [i \in 1 .. k |-> digits[((v \div Place[base][k - i]) % base) + 1]]

(* How a directive is written. *)
Field(v) == IF v = None THEN << >> ELSE IF v = Starred THEN << "*" >> ELSE Numeral(v, 10)

FlagText(d)  == IF d.flag = "none" THEN << >> ELSE << d.flag >>
PrecText(d)  == IF d.prec = None THEN << >> ELSE << "." >> \o Field(d.prec)
LongsText(d) == [k \in 1 .. d.longs |-> "l"]
ConvText(d)  == IF d.conv = "end" THEN << >> ELSE << d.conv >>

Written(d) ==
  IF d.text THEN << d.conv >>
  ELSE << "%" >> \o FlagText(d) \o Field(d.width) \o PrecText(d) \o LongsText(d) \o ConvText(d)

-----------------------------------------------------------------------------
(* The arguments of a directive: those of its stars, then its own. *)
Stars(d) == (IF d.width = Starred THEN 1 ELSE 0) + (IF d.prec = Starred THEN 1 ELSE 0)
Taken(d) == IF d.text THEN 0 ELSE Stars(d) + (IF d.conv \in Conversions THEN 1 ELSE 0)

Numeric == {"d", "o", "u", "x", "p"}

Value(d, a) ==
  LET bits == IF d.longs >= 2 /\ d.conv # "p" THEN LongLongBits ELSE IntBits
  IN  IF d.conv = "d" THEN Signed(a.num, bits) ELSE Pattern(a.num, bits)

Base(d) == IF d.conv \in {"x", "p"} THEN 16 ELSE IF d.conv = "o" THEN 8 ELSE 10

(* What comes before a number's padding and does not count for the width. *)
Prefix(d, v) == IF v < 0 THEN << "-" >> ELSE IF d.conv = "p" THEN << "0", "x" >> ELSE << >>

(* The flag '-' pads on the right. *)
Fill(d) == IF d.flag = "0" THEN "0" ELSE " "

NumberText(d, v, w) ==
  LET body == Numeral(IF v < 0 THEN -v ELSE v, Base(d))
      pad  == Repeat(Fill(d), w - Len(body))
  IN  Prefix(d, v) \o IF d.flag = "-" THEN body \o pad ELSE pad \o body

StringText(d, s, w, p) ==
  LET cut  == IF p < 0 THEN s ELSE SubSeq(s, 1, Min({p, Len(s)}))
      body == [k \in 1 .. Len(cut) |-> IF d.flag = "#" /\ cut[k] = "ctl" THEN "?" ELSE cut[k]]
  IN  IF d.flag = "-" THEN body \o Repeat(" ", w - Len(body))
      ELSE Repeat(Fill(d), w - Len(body)) \o body

ErrorMessage(v) ==
  LET code == IF v < 0 THEN -v ELSE v
  IN  IF code \in 1 .. Len(error_string) THEN error_string[code]
      ELSE << "e" >> \o Numeral(code, 10)

Meaning(d, a, w, p) ==
  CASE d.text -> << d.conv >>
    [] ~d.text /\ d.conv \in Numeric -> NumberText(d, Value(d, a), w)
    [] ~d.text /\ d.conv = "s" ->
         StringText(d, IF a.str = Null THEN << "(", "n", "u", "l", "l", ")" >> ELSE a.str, w, p)
    [] ~d.text /\ d.conv = "c" -> << a.char >>
    [] ~d.text /\ d.conv = "e" -> ErrorMessage(Signed(a.num, IntBits))
    [] ~d.text /\ d.conv = "%" -> << "%" >>
    [] OTHER -> Written(d)

(* With the arguments as, of which those before it have taken `used'.      *)
Wide(d, as, used) ==
  IF d.width = Starred THEN Signed(as[used + 1].num, IntBits) ELSE d.width

Precise(d, as, used) ==
  IF d.prec = Starred THEN Signed(as[used + Stars(d)].num, IntBits) ELSE d.prec

MeaningAt(d, as, used) ==
  Meaning(d, as[used + Taken(d)], Wide(d, as, used), Precise(d, as, used))

-----------------------------------------------------------------------------
(* The first k directives of a list: how long they are in the format, how  *)
(* many arguments they take, and what they have vprintfmt() put.           *)
Start(m) ==
  LET start[k \in 0 .. Len(m)] == IF k = 0 THEN 0 ELSE start[k - 1] + Len(Written(m[k]))
  IN  start

Used(m) ==
  LET used[k \in 0 .. Len(m)] == IF k = 0 THEN 0 ELSE used[k - 1] + Taken(m[k])
  IN  used

Said(m, as) ==
  LET said[k \in 0 .. Len(m)] ==
        IF k = 0 THEN << >> ELSE said[k - 1] \o MeaningAt(m[k], as, Used(m)[k - 1])
  IN  said

(* The format is those directives, one after the other; only the last may  *)
(* be open.                                                                *)
Says(m, f) ==
  /\ m \in Seq({d \in Directive : Proper(d)})
  /\ Len(f) = Start(m)[Len(m)]
  /\ \A k \in 1 .. Len(m) :
       /\ \A j \in 1 .. Len(Written(m[k])) : f[Start(m)[k - 1] + j] = Written(m[k])[j]
       /\ ~m[k].text /\ m[k].conv = "end" => k = Len(m)

ASSUME MeantAssumption == \A c \in Calls : Says(c.meant, c.fmt)

(***************************************************************************)
(* The comments of the code call '-' the "flag to pad on the right" and %o *)
(* "(unsigned) octal" (printfmt.c:107 and 206).  Each directive is printed *)
(* as that means, with the arguments that are its own and no trace of the  *)
(* directive before it.                                                    *)
(***************************************************************************)
OutputAsCommented == pc = "returned" /\ ~NoRoom => out = Said(meant, args)[Len(meant)]

(***************************************************************************)
(* The directives that vprintfmt() does not print so: numbers with a width *)
(* that are to be padded on the right, and octal numbers whose value, in   *)
(* the type that was passed, is negative.                                  *)
(***************************************************************************)
Disputed(d, a) ==
  /\ ~d.text
  /\ \/ d.conv \in Numeric /\ d.flag = "-" /\ d.width # None
     \/ d.conv = "o" /\ Signed(a.num, IF d.longs >= 2 THEN LongLongBits ELSE IntBits) < 0

Undisputed == \A k \in 1 .. Len(meant) : ~Disputed(meant[k], args[Used(meant)[k]])

(***************************************************************************)
(* All other lists of directives are printed as the comments say, each     *)
(* with the arguments that are its own and no trace of the one before it.  *)
(***************************************************************************)
OutputRight ==
  pc = "returned" /\ ~NoRoom /\ Undisputed => out = Said(meant, args)[Len(meant)]
=============================================================================
