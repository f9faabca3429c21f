----------------------------- MODULE MCStrings -----------------------------
(* Every overlap of two regions, and short strings of a few characters. *)
EXTENDS Strings

Call1(f, x, a, b, k, ch) == [fn |-> f, mem |-> x, p |-> a, q |-> b, n |-> k, c |-> ch]

(* Cells that all differ, and every pair of regions. *)
Numbered == [a \in Addr |-> a + 1]
MCRegions ==
  {Call1(f, Numbered, a, b, k, 300) :
     f \in {"memmove", "memcpy", "memset"}, a \in Addr, b \in Addr, k \in 0 .. MemSize}
MCMoves == {c \in MCRegions : GoodCall(c)}

(* A source of three cells and a destination with room for two strings. *)
Chars == {0, 97, 200}
MCSource == {<< x, y, 0 >> : x \in Chars, y \in Chars}
MCStrings == {[a \in Addr |-> IF a < 3 THEN x[a + 1] ELSE IF a < 6 THEN y[a - 2] ELSE 98] :
                x \in MCSource, y \in MCSource}
MCTexts ==
  {Call1(f, x, 3, 0, k, ch) :
     f \in Searches \cup {"strcpy", "strcat", "strncpy", "strlcpy"},
     x \in MCStrings, k \in 0 .. 3, ch \in {97, 200}}

(* A count that ends before the string does. *)
MCCounted ==
  {Call1(f, x, a, b, k, 97) :
     f \in {"strnlen", "strncmp"}, x \in MCStrings, a \in {3, 6}, b \in {3, 6}, k \in 0 .. 2}

(* Numbers: signs, prefixes, digits of several bases, an end. *)
MCDigits == {32, 9, 43, 45, 48, 49, 120, 57, 102, 90}
MCNumbers ==
  {Call1("strtol", [a \in Addr |-> IF a < 4 THEN << w, x, y, z >>[a + 1] ELSE 0], 0, 0, k, 0) :
     w \in MCDigits, x \in MCDigits, y \in {45, 48, 49, 120, 57, 90}, z \in {0, 57, 102, 120},
     k \in {0, 8, 10, 16}}

MCCalls == MCMoves \cup MCTexts \cup MCCounted \cup MCNumbers
=============================================================================
