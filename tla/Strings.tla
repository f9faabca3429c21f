------------------------------- MODULE Strings -------------------------------
(***************************************************************************)
(* lib/string.c: a call of one of its functions, a turn of a loop a step.  *)
(* The caller passes addresses of a memory of bytes; memmove() and         *)
(* memset() are the ASM variants, which work by words when they can.       *)
(***************************************************************************)
EXTENDS Integers, FiniteSetsExt

CONSTANTS
  MemSize,     \* bytes of memory
  WORD,        \* bytes that movsl and stosl move (4)
  LongBits,    \* width of a long (32)
  Calls        \* calls: [fn, mem, p, q, n, c]: function, memory, arguments

Addr == 0 .. MemSize - 1
Byte == 0 .. 255
NULL == -1

Call == [fn : STRING, mem : [Addr -> Byte], p : Addr, q : Addr, n : Nat, c : Nat]

(* The string at a of memory m: it is terminated; the bytes before its end. *)
IsString(m, a) == \E k \in a .. MemSize - 1 : m[k] = 0
StrLen(m, a)   == Min({k \in 0 .. MemSize - a : a + k = MemSize \/ m[a + k] = 0})

(* The string functions write Room bytes at Target. *)
Target(c) == c.p + IF c.fn = "strcat" THEN StrLen(c.mem, c.p) ELSE 0

Room(c) ==
  CASE c.fn = "strncpy" -> c.n
    [] c.fn = "strlcpy" -> IF c.n = 0 THEN 0 ELSE Min({c.n - 1, StrLen(c.mem, c.q)}) + 1
    [] OTHER            -> StrLen(c.mem, c.q) + 1

(***************************************************************************)
(* The regions a call names lie in the memory, its strings have their      *)
(* terminator, or a count that ends before the memory does, and strtol()   *)
(* knows its base.  Where a string is copied to there is room for it, and  *)
(* it does not overlap itself.                                             *)
(***************************************************************************)
GoodCall(c) ==
  /\ c \in Call
  /\ c.fn \in {"memmove", "memcpy", "memset", "memcmp", "memfind"} => c.p + c.n <= MemSize
  /\ c.fn \in {"memmove", "memcpy", "memcmp"} => c.q + c.n <= MemSize
  /\ c.fn \in {"strlen", "strcmp", "strchr", "strfind", "strcat"} => IsString(c.mem, c.p)
  /\ c.fn \in {"strnlen", "strncmp"} => IsString(c.mem, c.p) \/ c.p + c.n <= MemSize
  /\ c.fn \in {"strcmp", "strtol"} => IsString(c.mem, c.q)
  /\ c.fn = "strncmp" => IsString(c.mem, c.q) \/ c.q + c.n <= MemSize
  /\ c.fn = "strtol" => c.n \in 0 .. 36
  /\ c.fn \in {"strcpy", "strcat", "strncpy", "strlcpy"} =>
       /\ IsString(c.mem, c.q)
       /\ Target(c) + Room(c) <= MemSize
       /\ \/ Target(c) + Room(c) <= c.q
          \/ c.q + StrLen(c.mem, c.q) < Target(c)

ASSUME SizesAssumption == /\ MemSize \in Nat /\ LongBits \in Nat \ {0}
                          /\ WORD \in Nat \ {0}
ASSUME PowerAssumption == 2^LongBits \in Nat \ {0}
ASSUME CallsAssumption == \A c \in Calls : GoodCall(c)

VARIABLES
  call,        \* the call
  mem,         \* the memory
  d, s, n,     \* the pointers and the count the loops advance
  unit, df,    \* rep's element size, and the direction flag (TRUE: down)
  val, neg, base,  \* the locals of strtol()
  pc, ret      \* where the function is, and what it returned

pointers == << d, s, n >>
copying  == << unit, df >>
number   == << val, neg, base >>
vars     == << call, mem, d, s, n, unit, df, val, neg, base, pc, ret >>

fn == call.fn

Return(v) == pc' = "done" /\ ret' = v /\ UNCHANGED << call, d, s, n, unit, number >>

-----------------------------------------------------------------------------
(***************************************************************************)
(* The searches and comparisons: each advances its pointers while its      *)
(* condition holds, and what it returns depends on where it stopped.       *)
(***************************************************************************)
(* Mutant: the count is not looked at. *)
strncmpUnbounded == mem[d] # 0 /\ mem[d] = mem[s]

strlenGoes  == mem[d] # 0
strnlenGoes == n > 0 /\ mem[d] # 0
strcmpGoes  == mem[d] # 0 /\ mem[d] = mem[s]
strncmpGoes == n > 0 /\ mem[d] # 0 /\ mem[d] = mem[s]
strchrGoes  == mem[d] # 0 /\ mem[d] # (call.c % 256)
memcmpGoes  == n > 0 /\ mem[d] = mem[s]
memfindGoes == n > 0 /\ mem[d] # (call.c % 256)

Searches == {"strlen", "strnlen", "strcmp", "strncmp", "strchr", "strfind", "memcmp", "memfind"}

Goes == \/ fn = "strlen" /\ strlenGoes
        \/ fn = "strnlen" /\ strnlenGoes
        \/ fn = "strcmp" /\ strcmpGoes
        \/ fn = "strncmp" /\ strncmpGoes
        \/ fn \in {"strchr", "strfind"} /\ strchrGoes
        \/ fn = "memcmp" /\ memcmpGoes
        \/ fn = "memfind" /\ memfindGoes

(* The bytes are compared as unsigned ones. *)
Difference == mem[d] - mem[s]

Answer ==
  CASE fn \in {"strlen", "strnlen"}    -> d - call.p
    [] fn = "strcmp"                   -> Difference
    [] fn \in {"strncmp", "memcmp"}    -> IF n = 0 THEN 0 ELSE Difference
    [] fn = "strchr"                   -> IF mem[d] # 0 THEN d ELSE NULL
    [] fn \in {"strfind", "memfind"}   -> d

Search ==
  /\ pc = "loop" /\ fn \in Searches /\ Goes
  /\ d' = d + 1 /\ s' = s + 1 /\ n' = n - 1
  /\ UNCHANGED << call, mem, copying, number, pc, ret >>

Found ==
  /\ pc = "loop" /\ fn \in Searches /\ ~Goes
  /\ Return(Answer)
  /\ UNCHANGED << mem, df >>

-----------------------------------------------------------------------------
(* strcpy(), and strcat(), which first finds the end of its destination. *)
StrcatEnd ==
  /\ pc = "loop" /\ fn = "strcat" /\ mem[d] # 0
  /\ d' = d + 1
  /\ UNCHANGED << call, mem, s, n, copying, number, pc, ret >>

StrcatCopy ==
  /\ pc = "loop" /\ fn = "strcat" /\ mem[d] = 0
  /\ pc' = "copy"
  /\ UNCHANGED << call, mem, pointers, copying, number, ret >>

Copies == << fn, pc >> \in {<< "strcpy", "loop" >>, << "strcat", "copy" >>}

Strcpy ==
  /\ Copies /\ mem[s] # 0
  /\ mem' = [mem EXCEPT ![d] = mem[s]]
  /\ d' = d + 1 /\ s' = s + 1
  /\ UNCHANGED << call, n, copying, number, pc, ret >>

StrcpyEnd ==
  /\ Copies /\ mem[s] = 0
  /\ mem' = [mem EXCEPT ![d] = 0]
  /\ Return(call.p)
  /\ UNCHANGED df

(* strncpy() pads with zeros, and leaves out the terminator if need be. *)
Strncpy ==
  /\ pc = "loop" /\ fn = "strncpy" /\ n > 0
  /\ mem' = [mem EXCEPT ![d] = mem[s]]
  /\ d' = d + 1 /\ n' = n - 1
  /\ s' = IF mem[s] # 0 THEN s + 1 ELSE s
  /\ UNCHANGED << call, copying, number, pc, ret >>

StrncpyEnd ==
  /\ pc = "loop" /\ fn = "strncpy" /\ n = 0
  /\ Return(call.p)
  /\ UNCHANGED << mem, df >>

(* strlcpy() always terminates, within size bytes; it does nothing for 0. *)
StrlcpyGoes == n - 1 > 0 /\ mem[s] # 0

Strlcpy ==
  /\ pc = "loop" /\ fn = "strlcpy" /\ call.n > 0 /\ StrlcpyGoes
  /\ mem' = [mem EXCEPT ![d] = mem[s]]
  /\ d' = d + 1 /\ s' = s + 1 /\ n' = n - 1
  /\ UNCHANGED << call, copying, number, pc, ret >>

StrlcpyEnd ==
  /\ pc = "loop" /\ fn = "strlcpy"
  /\ \/ call.n = 0 /\ UNCHANGED mem
     \/ call.n > 0 /\ ~StrlcpyGoes /\ mem' = [mem EXCEPT ![d] = 0]
  /\ Return(d - call.p)
  /\ UNCHANGED df

-----------------------------------------------------------------------------
(* memset() and memmove() go by words if addresses and size allow. *)
Aligned == d % WORD = 0 /\ n % WORD = 0

MemsetStart ==
  /\ pc = "loop" /\ fn = "memset"
  /\ unit' = IF Aligned THEN WORD ELSE 1
  /\ n' = n \div unit'
  /\ pc' = "rep"
  /\ UNCHANGED << call, mem, d, s, df, number, ret >>

(* An iteration of rep stos. *)
Memset ==
  /\ pc = "rep" /\ fn = "memset" /\ n > 0
  /\ mem' = [a \in Addr |-> IF a \in d .. d + unit - 1 THEN call.c % 256 ELSE mem[a]]
  /\ d' = d + unit /\ n' = n - 1
  /\ UNCHANGED << call, s, copying, number, pc, ret >>

MemsetEnd ==
  /\ pc = "rep" /\ fn = "memset" /\ n = 0
  /\ Return(call.p)
  /\ UNCHANGED << mem, df >>

(***************************************************************************)
(* memmove(), and memcpy(), which calls it.  When the destination overlaps *)
(* the source from above, rep movs starts at the last element and goes     *)
(* down, with the direction flag set.                                      *)
(***************************************************************************)
Moves == fn \in {"memmove", "memcpy"}

(* Mutant: memmove() always goes up. *)
NeverOverlaps == FALSE

Overlaps == s < d /\ s + n > d

MoveStart ==
  /\ pc = "loop" /\ Moves
  /\ unit' = IF s % WORD = 0 /\ Aligned THEN WORD ELSE 1
  /\ df' = Overlaps
  /\ d' = IF Overlaps THEN d + n - unit' ELSE d
  /\ s' = IF Overlaps THEN s + n - unit' ELSE s
  /\ n' = n \div unit'
  /\ pc' = "rep"
  /\ UNCHANGED << call, mem, number, ret >>

(* An iteration of rep movs. *)
Move ==
  /\ pc = "rep" /\ Moves /\ n > 0
  /\ mem' = [a \in Addr |-> IF a \in d .. d + unit - 1 THEN mem[s + (a - d)] ELSE mem[a]]
  /\ d' = IF df THEN d - unit ELSE d + unit
  /\ s' = IF df THEN s - unit ELSE s + unit
  /\ n' = n - 1
  /\ UNCHANGED << call, copying, number, pc, ret >>

(* The direction flag is cleared again: compiled code relies on that. *)
MoveEnd ==
  /\ pc = "rep" /\ Moves /\ n = 0
  /\ df' = FALSE
  /\ Return(call.p)
  /\ UNCHANGED mem

-----------------------------------------------------------------------------
(***************************************************************************)
(* strtol(): white space, a sign, the prefix of the base, the digits.  The *)
(* value wraps around: "we don't properly detect overflow".                *)
(***************************************************************************)
Gobble ==
  /\ pc = "loop" /\ fn = "strtol" /\ mem[s] \in {32, 9}
  /\ s' = s + 1
  /\ UNCHANGED << call, mem, d, n, copying, number, pc, ret >>

Sign ==
  /\ pc = "loop" /\ fn = "strtol" /\ mem[s] \notin {32, 9}
  /\ s' = IF mem[s] \in {43, 45} THEN s + 1 ELSE s
  /\ neg' = (mem[s] = 45)
  /\ pc' = "prefix"
  /\ UNCHANGED << call, mem, d, n, copying, val, base, ret >>

HexPrefix == base \in {0, 16} /\ mem[s] = 48 /\ mem[s + 1] = 120

Prefix ==
  /\ pc = "prefix"
  /\ \/ HexPrefix /\ s' = s + 2 /\ base' = 16
     \/ ~HexPrefix /\ base = 0 /\ mem[s] = 48 /\ s' = s + 1 /\ base' = 8
     \/ base = 0 /\ mem[s] # 48 /\ s' = s /\ base' = 10
     \/ ~HexPrefix /\ base # 0 /\ UNCHANGED << s, base >>
  /\ pc' = "digits"
  /\ UNCHANGED << call, mem, d, n, copying, val, neg, ret >>

(* A character that is no digit of any base counts as one too great. *)
Dig(ch) == CASE ch \in 48 .. 57  -> ch - 48
             [] ch \in 97 .. 122 -> ch - 97 + 10
             [] ch \in 65 .. 90  -> ch - 65 + 10
             [] OTHER            -> 36

Digit ==
  /\ pc = "digits" /\ Dig(mem[s]) < base
  /\ val' = (val * base + Dig(mem[s])) % 2^LongBits
  /\ s' = s + 1
  /\ UNCHANGED << call, mem, d, n, copying, neg, base, pc, ret >>

(* The bits of a long, read as a signed number. *)
AsLong(v) == LET bits == v % 2^LongBits
             IN IF bits >= 2^(LongBits - 1) THEN bits - 2^LongBits ELSE bits

(* *endptr is where s has come to. *)
EndOfNumber ==
  /\ pc = "digits" /\ Dig(mem[s]) >= base
  /\ Return(AsLong(IF neg THEN -val ELSE val))
  /\ UNCHANGED << mem, df >>

-----------------------------------------------------------------------------
Init ==
  /\ call \in Calls
  /\ mem = call.mem
  /\ d = call.p /\ s = call.q /\ n = call.n
  /\ unit = 1 /\ df = FALSE
  /\ val = 0 /\ neg = FALSE /\ base = call.n
  /\ pc = "loop" /\ ret = NULL

Next ==
  \/ Search \/ Found
  \/ StrcatEnd \/ StrcatCopy \/ Strcpy \/ StrcpyEnd
  \/ Strncpy \/ StrncpyEnd \/ Strlcpy \/ StrlcpyEnd
  \/ MemsetStart \/ Memset \/ MemsetEnd
  \/ MoveStart \/ Move \/ MoveEnd
  \/ Gobble \/ Sign \/ Prefix \/ Digit \/ EndOfNumber

Spec == Init /\ [][Next]_vars /\ WF_vars(Next)

-----------------------------------------------------------------------------
(***************************************************************************)
(* What the functions promise, said of the memory the call began with.     *)
(***************************************************************************)
mem0 == call.mem
first == call.p
second == call.q
size == call.n

(* The length of the string at a; the first of the places K where one      *)
(* stops, and lim if there is none.                                        *)
Length(a) == StrLen(mem0, a)
FirstOf(K, lim) == Min(K \cup {lim})

(* The memory with k bytes at `to' replaced by F's. *)
Patched(to, k, F) ==
  [a \in Addr |-> IF a \in to .. to + k - 1 THEN F[a - to] ELSE mem0[a]]

(* k bytes of the source, and zeros behind them. *)
Source(k) == [i \in 0 .. MemSize |-> IF i < k THEN mem0[second + i] ELSE 0]

Kept == FirstOf({size - 1}, Length(second))

ExpectedMem ==
  CASE fn = "strcpy"  -> Patched(first, Length(second) + 1, Source(Length(second)))
    [] fn = "strcat"  -> Patched(first + Length(first), Length(second) + 1, Source(Length(second)))
    [] fn = "strncpy" -> Patched(first, size, Source(Length(second)))
    [] fn = "strlcpy" -> IF size = 0 THEN mem0 ELSE Patched(first, Kept + 1, Source(Kept))
    [] fn = "memset"  -> Patched(first, size, [i \in 0 .. size |-> call.c % 256])
    [] Moves          -> Patched(first, size, Source(size))
    [] OTHER          -> mem0

Writers == {"strcpy", "strcat", "strncpy", "strlcpy", "memset", "memmove", "memcpy"}

(* A copy leaves at the destination what was at the source when it was     *)
(* called, however the two overlap and whichever of the two directions and *)
(* of the two units it took; nothing outside the destination has changed,  *)
(* strncpy() has padded and strlcpy() terminated within their size, and the *)
(* direction flag is clear again for the code that was compiled to it.     *)
CopiesRight ==
  pc = "done" /\ fn \in Writers =>
    /\ mem = ExpectedMem
    /\ ret = IF fn = "strlcpy" THEN IF size = 0 THEN 0 ELSE Kept ELSE first
    /\ ~df

(* Where two strings differ or end; where the byte c is. *)
Differ(lim) == {k \in 0 .. lim - 1 : mem0[first + k] # mem0[second + k]}
Where(lim)  == {k \in 0 .. lim - 1 : mem0[first + k] = call.c % 256}
DifferenceAt(k) == mem0[first + k] - mem0[second + k]

ExpectedAnswer ==
  CASE fn = "strlen"  -> Length(first)
    [] fn = "strnlen" -> FirstOf({size}, Length(first))
    [] fn = "strcmp"  -> DifferenceAt(FirstOf(Differ(Length(first)), Length(first)))
    [] fn = "strncmp" -> LET most == FirstOf({size}, Length(first))
                             k    == FirstOf(Differ(most), most)
                         IN IF k = size THEN 0 ELSE DifferenceAt(k)
    [] fn = "memcmp"  -> IF Differ(size) = {} THEN 0 ELSE DifferenceAt(Min(Differ(size)))
    [] fn = "strchr"  -> IF Where(Length(first)) = {} THEN NULL ELSE first + Min(Where(Length(first)))
    [] fn = "strfind" -> first + FirstOf(Where(Length(first)), Length(first))
    [] fn = "memfind" -> first + FirstOf(Where(size), size)

(* The parts of a number: where its sign, its prefix and its digits are,   *)
(* the base it is read in, and where the digits end.                       *)
SignAt  == Min({k \in second .. MemSize - 1 : mem0[k] \notin {32, 9}})
DigitAt == SignAt + IF mem0[SignAt] \in {43, 45} THEN 1 ELSE 0
IsHex   == size \in {0, 16} /\ mem0[DigitAt] = 48 /\ mem0[DigitAt + 1] = 120
Base    == CASE IsHex -> 16
             [] size = 0 /\ mem0[DigitAt] = 48 /\ ~IsHex -> 8
             [] size = 0 /\ mem0[DigitAt] # 48 -> 10
             [] OTHER -> size
Digits  == DigitAt + IF IsHex THEN 2 ELSE 0
DigitsEnd == Min({k \in Digits .. MemSize - 1 : Dig(mem0[k]) >= Base})

(* The powers of b, and the number that the digits D[0] to D[k - 1] make:  *)
(* each counts for its power.                                              *)
Power(b) == LET P[i \in Nat] == IF i = 0 THEN 1 ELSE P[i - 1] * b
            IN P

Numeral(D, b, k) ==
  LET V[i \in 0 .. k] == IF i = 0 THEN 0 ELSE V[i - 1] + D[i - 1] * Power(b)[k - i]
  IN V[k]

Value == Numeral([i \in Nat |-> Dig(mem0[Digits + i])], Base, DigitsEnd - Digits)

(* A search or comparison answers for the first place that decides it, no  *)
(* place past the count or the terminator decides it, and strtol() gives   *)
(* the value of the longest run of digits of the base behind the blanks,   *)
(* the sign and the prefix, modulo the width of a long, and its end.       *)
SearchesRight ==
  pc = "done" /\ fn \notin Writers =>
    /\ mem = mem0
    /\ fn \in Searches => ret = ExpectedAnswer
    /\ fn = "strtol" =>
         /\ s = DigitsEnd
         /\ ret = AsLong(IF mem0[SignAt] = 45 THEN -Value ELSE Value)
=============================================================================
