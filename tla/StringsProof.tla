---------------------------- MODULE StringsProof ----------------------------
(***************************************************************************)
(* The functions of lib/string.c are right in every memory and for every   *)
(* call that keeps to what they demand of their callers: however long the  *)
(* regions and strings are, wherever they lie, whatever the width of a     *)
(* word and of a long.  First the copies, then the searches and strtol().  *)
(***************************************************************************)
EXTENDS Strings, WellFoundedInduction, TLAPS

-----------------------------------------------------------------------------
LEMMA Least ==
  ASSUME NEW T, T \subseteq Nat, T # {}
  PROVE  \E m \in T : \A o \in T : m <= o
<1> DEFINE R == {p \in Nat \X Nat : p[1] < p[2]}
<1>1. IsWellFoundedOn(R, Nat)
  BY NatLessThanWellFounded, Zenon DEF OpToRel
<1>2. \A m, o \in T : m <= o \/ << o, m >> \in R
  OBVIOUS
<1> HIDE DEF R
<1>3. \E m \in T : \A o \in T : ~(<< o, m >> \in R)
  BY <1>1, WFMin
<1> QED BY <1>2, <1>3

LEMMA MinIs ==
  ASSUME NEW T, T \subseteq Int, NEW m \in T, \A o \in T : m <= o
  PROVE  Min(T) = m
<1>1. \A x \in T : (\A y \in T : x <= y) => x = m
  OBVIOUS
<1> QED BY <1>1 DEF Min

LEMMA Lesser ==
  ASSUME NEW x \in Int, NEW y \in Int
  PROVE  Min({x, y}) = IF x <= y THEN x ELSE y
<1>1. CASE x <= y
  <2>1. x \in {x, y} /\ {x, y} \subseteq Int /\ \A o \in {x, y} : x <= o
    BY <1>1
  <2>2. Min({x, y}) = x
    BY <2>1, MinIs
  <2> QED BY <1>1, <2>2
<1>2. CASE ~(x <= y)
  <2>1. y \in {x, y} /\ {x, y} \subseteq Int /\ \A o \in {x, y} : y <= o
    BY <1>2
  <2>2. Min({x, y}) = y
    BY <2>1, MinIs
  <2> QED BY <1>2, <2>2
<1> QED BY <1>1, <1>2

(* How many bytes n elements of u bytes are.                               *)
LEMMA Elements ==
  ASSUME NEW k \in Nat, k > 0, NEW u \in Nat \ {0}
  PROVE  (k - 1) * u = k * u - u /\ k * u >= u /\ k * u \in Nat
  OBVIOUS

LEMMA WholeElements ==
  ASSUME NEW k \in Nat, NEW u \in Nat \ {0}, k % u = 0
  PROVE  k \div u \in Nat /\ (k \div u) * u = k
  OBVIOUS

-----------------------------------------------------------------------------
(* The bytes at a up to a zero, or to the end of the memory.               *)
LEMMA LengthFacts ==
  ASSUME NEW m, NEW a \in Addr
  PROVE  /\ StrLen(m, a) \in Nat /\ a + StrLen(m, a) <= MemSize
         /\ a + StrLen(m, a) = MemSize \/ m[a + StrLen(m, a)] = 0
         /\ \A j \in 0 .. StrLen(m, a) - 1 : m[a + j] # 0
<1> DEFINE T == {k \in 0 .. MemSize - a : a + k = MemSize \/ m[a + k] = 0}
<1>0. MemSize \in Nat /\ a \in Nat /\ a < MemSize
  BY SizesAssumption DEF Addr
<1>1. MemSize - a \in T
  BY <1>0
<1>2. T \subseteq Nat /\ T \subseteq Int
  BY <1>0
<1>3. PICK e \in T : \A o \in T : e <= o
  <2> HIDE DEF T
  <2> QED BY <1>1, <1>2, Least
<1>4. StrLen(m, a) = e
  <2>1. StrLen(m, a) = Min(T)
    BY DEF StrLen
  <2> HIDE DEF T
  <2> QED BY <1>2, <1>3, <2>1, MinIs
<1>5. e \in 0 .. MemSize - a /\ (a + e = MemSize \/ m[a + e] = 0)
  OBVIOUS
<1>6. ASSUME NEW j \in 0 .. e - 1
      PROVE  m[a + j] # 0
  <2>1. j \in 0 .. MemSize - a /\ ~(e <= j)
    BY <1>0, <1>5
  <2>2. j \notin T
    BY <1>3, <2>1
  <2> QED BY <2>1, <2>2
<1>7. e \in Nat /\ a + e <= MemSize
  BY <1>0, <1>5
<1> QED BY <1>4, <1>5, <1>6, <1>7

(* A string, its length and its terminator.                                *)
LEMMA StringFacts ==
  ASSUME NEW m, NEW a \in Addr, IsString(m, a)
  PROVE  /\ StrLen(m, a) \in Nat /\ a + StrLen(m, a) \in Addr
         /\ m[a + StrLen(m, a)] = 0
         /\ \A j \in 0 .. StrLen(m, a) - 1 : m[a + j] # 0
<1>0. MemSize \in Nat /\ a \in Nat /\ a < MemSize
  BY SizesAssumption DEF Addr
<1>1. PICK k \in a .. MemSize - 1 : m[k] = 0
  BY DEF IsString
<1>2. a + StrLen(m, a) # MemSize
  <2> SUFFICES ASSUME a + StrLen(m, a) = MemSize PROVE FALSE
    OBVIOUS
  <2>1. k - a \in 0 .. StrLen(m, a) - 1 /\ a + (k - a) = k
    BY <1>0, LengthFacts
  <2> QED BY <1>1, <2>1, LengthFacts
<1>3. a + StrLen(m, a) \in Addr
  <2>1. StrLen(m, a) \in Nat /\ a + StrLen(m, a) <= MemSize
    BY LengthFacts
  <2> QED BY <1>0, <1>2, <2>1 DEF Addr
<1> QED BY <1>2, <1>3, LengthFacts

(* What the caller keeps to.                                               *)
StringFns == {"strcpy", "strcat", "strncpy", "strlcpy"}
BlockFns  == {"memset", "memmove", "memcpy"}

Len2(c) == StrLen(c.mem, c.q)

LEMMA CallFacts ==
  ASSUME NEW c \in Calls
  PROVE  /\ c \in Call /\ GoodCall(c)
         /\ MemSize \in Nat /\ WORD \in Nat /\ WORD # 0
         /\ c.mem \in [Addr -> Byte]
         /\ c.p \in Addr /\ c.p \in Nat /\ c.q \in Addr /\ c.q \in Nat /\ c.n \in Nat
  BY CallsAssumption, SizesAssumption DEF GoodCall, Call, Addr

LEMMA SourceFacts ==
  ASSUME NEW c \in Calls, c.fn \in StringFns
  PROVE  /\ Len2(c) \in Nat /\ c.q + Len2(c) \in Addr
         /\ c.mem[c.q + Len2(c)] = 0
         /\ \A j \in 0 .. Len2(c) - 1 : c.mem[c.q + j] # 0
<1>1. IsString(c.mem, c.q) /\ c.q \in Addr
  BY CallFacts DEF GoodCall, StringFns
<1> QED BY <1>1, StringFacts DEF Len2

LEMMA TargetFacts ==
  ASSUME NEW c \in Calls, c.fn \in StringFns
  PROVE  /\ Target(c) \in Nat
         /\ Target(c) + Room(c) <= MemSize
         /\ \/ Target(c) + Room(c) <= c.q
            \/ c.q + Len2(c) < Target(c)
         /\ c.fn # "strcat" => Target(c) = c.p
<1>1. /\ Target(c) + Room(c) <= MemSize
      /\ \/ Target(c) + Room(c) <= c.q
         \/ c.q + Len2(c) < Target(c)
  BY CallFacts DEF GoodCall, StringFns, Len2
<1>2. CASE c.fn = "strcat"
  <2>1. IsString(c.mem, c.p) /\ c.p \in Addr /\ c.p \in Nat
    BY <1>2, CallFacts DEF GoodCall
  <2>2. StrLen(c.mem, c.p) \in Nat
    BY <2>1, StringFacts
  <2>3. Target(c) = c.p + StrLen(c.mem, c.p)
    BY <1>2 DEF Target
  <2>4. Target(c) \in Nat
    BY <2>1, <2>2, <2>3
  <2> QED BY <1>1, <1>2, <2>4
<1>3. CASE c.fn # "strcat"
  <2>1. Target(c) = c.p
    BY <1>3, CallFacts DEF Target
  <2> QED BY <1>1, <2>1, CallFacts
<1> QED BY <1>2, <1>3

(***************************************************************************)
(* The memory in which k bytes of c's source, which ends with zeros, have  *)
(* been copied to its target; lo to hi - 1 of a region have been moved; k  *)
(* bytes have been set.                                                    *)
(***************************************************************************)
Copied(c, k) ==
  [a \in Addr |-> IF a \in Target(c) .. Target(c) + k - 1
                  THEN IF a - Target(c) < Len2(c) THEN c.mem[c.q + (a - Target(c))] ELSE 0
                  ELSE c.mem[a]]

Moved(c, lo, hi) ==
  [a \in Addr |-> IF a \in c.p + lo .. c.p + hi - 1 THEN c.mem[c.q + (a - c.p)] ELSE c.mem[a]]

Filled(c, k) == [a \in Addr |-> IF a \in c.p .. c.p + k - 1 THEN c.c % 256 ELSE c.mem[a]]

LEMMA NothingYet ==
  ASSUME NEW c \in Calls
  PROVE  /\ c.fn \in StringFns => Copied(c, 0) = c.mem
         /\ Moved(c, 0, 0) = c.mem /\ Moved(c, c.n, c.n) = c.mem /\ Filled(c, 0) = c.mem
<1>1. c.mem \in [Addr -> Byte] /\ c.p \in Nat /\ c.n \in Nat
  BY CallFacts
<1>2. c.mem = [a \in Addr |-> c.mem[a]]
  BY <1>1
<1>3. ASSUME c.fn \in StringFns
      PROVE  Copied(c, 0) = c.mem
  <2>1. Target(c) \in Nat
    BY <1>3, TargetFacts
  <2>2. \A a : ~(a \in Target(c) .. Target(c) + 0 - 1)
    BY <2>1
  <2> QED BY <1>2, <2>2 DEF Copied
<1>4. /\ \A a : ~(a \in c.p + 0 .. c.p + 0 - 1)
      /\ \A a : ~(a \in c.p + c.n .. c.p + c.n - 1)
      /\ \A a : ~(a \in c.p .. c.p + 0 - 1)
  BY <1>1
<1>5. Moved(c, 0, 0) = c.mem /\ Moved(c, c.n, c.n) = c.mem
  BY <1>2, <1>4 DEF Moved
<1>6. Filled(c, 0) = c.mem
  BY <1>2, <1>4 DEF Filled
<1> QED BY <1>3, <1>5, <1>6

(* The next byte of a string is where it was, and copying it goes on.      *)
LEMMA NextByte ==
  ASSUME NEW c \in Calls, c.fn \in StringFns, NEW k \in Nat, k <= Room(c), Room(c) \in Nat,
         NEW i \in 0 .. Len2(c)
  PROVE  Copied(c, k)[c.q + i] = IF i < Len2(c) THEN c.mem[c.q + i] ELSE 0
<1>1. c.q + i \in Addr /\ c.q \in Nat
  BY SourceFacts, CallFacts, SizesAssumption DEF Addr
<1>2. c.q + i \notin Target(c) .. Target(c) + k - 1
  BY <1>1, TargetFacts, SourceFacts
<1>3. Copied(c, k)[c.q + i] = c.mem[c.q + i]
  BY <1>1, <1>2 DEF Copied
<1>4. i = Len2(c) => c.mem[c.q + i] = 0
  BY SourceFacts
<1> QED BY <1>3, <1>4, SourceFacts

LEMMA CopyOne ==
  ASSUME NEW c \in Calls, c.fn \in StringFns, NEW k \in Nat, k < Room(c), Room(c) \in Nat,
         NEW x, x = IF k < Len2(c) THEN c.mem[c.q + k] ELSE 0
  PROVE  [Copied(c, k) EXCEPT ![Target(c) + k] = x] = Copied(c, k + 1)
<1>1. Target(c) \in Nat /\ Target(c) + k \in Addr
  BY TargetFacts, CallFacts DEF Addr
<1>2. Target(c) + k - Target(c) = k /\ Target(c) + k \in Target(c) .. Target(c) + (k + 1) - 1
  BY <1>1
<1>3. ASSUME NEW a \in Addr, a # Target(c) + k
      PROVE  a \in Target(c) .. Target(c) + k - 1 <=> a \in Target(c) .. Target(c) + (k + 1) - 1
  BY <1>1, <1>3 DEF Addr
<1> DEFINE f == [Copied(c, k) EXCEPT ![Target(c) + k] = x]
<1>4. f = [a \in Addr |-> IF a = Target(c) + k THEN x ELSE Copied(c, k)[a]]
  BY DEF Copied
<1>5. ASSUME NEW a \in Addr
      PROVE  (IF a = Target(c) + k THEN x ELSE Copied(c, k)[a]) = Copied(c, k + 1)[a]
  <2>1. CASE a = Target(c) + k
    <3>1. a - Target(c) = k /\ a \in Target(c) .. Target(c) + (k + 1) - 1
      BY <1>1, <2>1
    <3>2. Copied(c, k + 1)[a] = IF k < Len2(c) THEN c.mem[c.q + k] ELSE 0
      BY <3>1 DEF Copied
    <3> QED BY <2>1, <3>2
  <2>2. CASE a # Target(c) + k
    BY <1>3, <2>2 DEF Copied
  <2> QED BY <2>1, <2>2
<1>6. Copied(c, k + 1) = [a \in Addr |-> Copied(c, k + 1)[a]]
  BY DEF Copied
<1> QED BY <1>4, <1>5, <1>6

-----------------------------------------------------------------------------
(***************************************************************************)
(* The invariant: how far each function has got.                           *)
(***************************************************************************)
CopyLoop(c, most) ==
  \E k \in 0 .. most : d = Target(c) + k /\ s = c.q + k /\ mem = Copied(c, k)

StrcpyInv == Copies => CopyLoop(call, Len2(call))

StrcatInv ==
  fn = "strcat" /\ pc = "loop" =>
    d \in call.p .. Target(call) /\ s = call.q /\ mem = call.mem

StrncpyInv ==
  fn = "strncpy" /\ pc = "loop" =>
    \E k \in 0 .. call.n :
      /\ n = call.n - k /\ d = call.p + k /\ mem = Copied(call, k)
      /\ s = call.q + IF k < Len2(call) THEN k ELSE Len2(call)

StrlcpyInv ==
  fn = "strlcpy" /\ pc = "loop" =>
    IF call.n = 0 THEN d = call.p /\ mem = call.mem
    ELSE \E k \in 0 .. Room(call) - 1 :
           n = call.n - k /\ d = call.p + k /\ s = call.q + k /\ mem = Copied(call, k)

StartInv ==
  fn \in BlockFns /\ pc = "loop" => d = call.p /\ s = call.q /\ n = call.n /\ mem = call.mem

(* rest bytes are left for rep. *)
MemsetInv ==
  fn = "memset" /\ pc = "rep" =>
    /\ unit \in Nat \ {0} /\ n \in Nat
    /\ \E rest \in 0 .. call.n :
         /\ rest = n * unit
         /\ d = call.p + (call.n - rest) /\ mem = Filled(call, call.n - rest)

Above(c) == c.q < c.p /\ c.q + c.n > c.p

MoveInv ==
  Moves /\ pc = "rep" =>
    /\ unit \in Nat \ {0} /\ n \in Nat
    /\ df = Above(call)
    /\ \E rest \in 0 .. call.n :
         /\ rest = n * unit
         /\ IF df THEN /\ d = call.p + rest - unit /\ s = call.q + rest - unit
                       /\ mem = Moved(call, rest, call.n)
                  ELSE /\ d = call.p + (call.n - rest) /\ s = call.q + (call.n - rest)
                       /\ mem = Moved(call, 0, call.n - rest)

PlacesInv ==
  /\ fn \in {"strcpy", "strncpy", "strlcpy"} => pc \in {"loop", "done"}
  /\ fn = "strcat" => pc \in {"loop", "copy", "done"}
  /\ fn \in BlockFns => pc \in {"loop", "rep", "done"}
  /\ fn \in Writers /\ ~(Moves /\ pc = "rep") => ~df

CopyInv == /\ call \in Calls /\ PlacesInv
           /\ StrcpyInv /\ StrcatInv /\ StrncpyInv /\ StrlcpyInv
           /\ StartInv /\ MemsetInv /\ MoveInv
           /\ CopiesRight

(* Once the function has returned, only what it left counts.               *)
LEMMA AtTheEnd ==
  ASSUME CopyInv, call' = call, pc' = "done", CopiesRight',
         fn \in Writers => ~df'
  PROVE  CopyInv'
<1> fn' = fn
  BY DEF fn
<1>1. call' \in Calls
  BY DEF CopyInv
<1>2. PlacesInv'
  BY DEF PlacesInv, BlockFns
<1>3. /\ StrcpyInv' /\ StrcatInv' /\ StrncpyInv' /\ StrlcpyInv'
      /\ StartInv' /\ MemsetInv' /\ MoveInv'
  BY DEF StrcpyInv, StrcatInv, StrncpyInv, StrlcpyInv, StartInv, MemsetInv, MoveInv, Copies
<1> QED BY <1>1, <1>2, <1>3 DEF CopyInv

(* Nothing of this is about the functions that do not write.               *)
LEMMA NoWriter ==
  ASSUME CopyInv, call' = call, fn \notin Writers
  PROVE  CopyInv'
<1> fn' = fn
  BY DEF fn
<1>1. call' \in Calls
  BY DEF CopyInv
<1>2. /\ fn \notin BlockFns /\ fn \notin StringFns /\ ~Moves /\ ~Moves'
      /\ fn \notin {"strcpy", "strncpy", "strlcpy", "strcat", "memset"}
  BY DEF Writers, BlockFns, StringFns, Moves
<1>3. PlacesInv' /\ CopiesRight'
  BY <1>2 DEF PlacesInv, CopiesRight
<1>4. /\ StrcpyInv' /\ StrcatInv' /\ StrncpyInv' /\ StrlcpyInv'
      /\ StartInv' /\ MemsetInv' /\ MoveInv'
  BY <1>2 DEF StrcpyInv, StrcatInv, StrncpyInv, StrlcpyInv, StartInv, MemsetInv, MoveInv, Copies
<1> QED BY <1>1, <1>3, <1>4 DEF CopyInv

LEMMA InitCopy == Init => CopyInv
<1> SUFFICES ASSUME Init PROVE CopyInv
  OBVIOUS
<1>1. /\ call \in Calls /\ mem = call.mem /\ d = call.p /\ s = call.q /\ n = call.n
      /\ df = FALSE /\ pc = "loop"
  BY DEF Init
<1>2. PlacesInv
  BY <1>1 DEF PlacesInv, BlockFns, Moves
<1>3. ASSUME fn \in StringFns
      PROVE  /\ Copied(call, 0) = call.mem /\ Len2(call) \in Nat
             /\ fn # "strcat" => Target(call) = call.p
             /\ call.p \in Nat /\ call.q \in Nat /\ call.n \in Nat
  BY <1>1, <1>3, NothingYet, SourceFacts, TargetFacts, CallFacts DEF fn
<1>4. StrcpyInv
  <2> SUFFICES ASSUME Copies PROVE CopyLoop(call, Len2(call))
    BY DEF StrcpyInv
  <2>1. fn = "strcpy"
    BY <1>1 DEF Copies
  <2>2. d = Target(call) + 0 /\ s = call.q + 0 /\ mem = Copied(call, 0) /\ 0 \in 0 .. Len2(call)
    BY <1>1, <1>3, <2>1 DEF StringFns
  <2> QED BY <2>2 DEF CopyLoop
<1>5. StrcatInv
  <2> SUFFICES ASSUME fn = "strcat"
               PROVE  d \in call.p .. Target(call) /\ s = call.q /\ mem = call.mem
    BY DEF StrcatInv
  <2>1. IsString(call.mem, call.p) /\ call.p \in Addr /\ call.p \in Nat
    BY <1>1, CallFacts DEF GoodCall, fn
  <2>2. Target(call) = call.p + StrLen(call.mem, call.p)
    BY DEF Target, fn
  <2>3. StrLen(call.mem, call.p) \in Nat
    BY <2>1, StringFacts
  <2> QED BY <1>1, <2>1, <2>2, <2>3
<1>6. StrncpyInv
  <2> SUFFICES ASSUME fn = "strncpy"
               PROVE  \E k \in 0 .. call.n :
                        /\ n = call.n - k /\ d = call.p + k /\ mem = Copied(call, k)
                        /\ s = call.q + IF k < Len2(call) THEN k ELSE Len2(call)
    BY DEF StrncpyInv
  <2>1. /\ 0 \in 0 .. call.n /\ n = call.n - 0 /\ d = call.p + 0 /\ mem = Copied(call, 0)
        /\ s = call.q + IF 0 < Len2(call) THEN 0 ELSE Len2(call)
    BY <1>1, <1>3 DEF StringFns
  <2> QED BY <2>1
<1>7. StrlcpyInv
  <2> SUFFICES ASSUME fn = "strlcpy", call.n # 0
               PROVE  \E k \in 0 .. Room(call) - 1 :
                        n = call.n - k /\ d = call.p + k /\ s = call.q + k /\ mem = Copied(call, k)
    BY <1>1 DEF StrlcpyInv
  <2>1. Room(call) - 1 \in Nat
    <3>1. call.n - 1 \in Nat /\ Len2(call) \in Nat
      BY <1>3 DEF StringFns
    <3>2. Room(call) = Min({call.n - 1, Len2(call)}) + 1
      BY DEF Room, fn, Len2
    <3>3. Min({call.n - 1, Len2(call)}) \in Nat
      <4>1. CASE call.n - 1 <= Len2(call)
        <5>1. Min({call.n - 1, Len2(call)}) = call.n - 1
          BY <3>1, <4>1, Lesser
        <5> QED BY <3>1, <5>1
      <4>2. CASE ~(call.n - 1 <= Len2(call))
        <5>1. Min({call.n - 1, Len2(call)}) = Len2(call)
          BY <3>1, <4>2, Lesser
        <5> QED BY <3>1, <5>1
      <4> QED BY <4>1, <4>2
    <3> QED BY <3>2, <3>3
  <2>2. /\ 0 \in 0 .. Room(call) - 1
        /\ n = call.n - 0 /\ d = call.p + 0 /\ s = call.q + 0 /\ mem = Copied(call, 0)
    BY <1>1, <1>3, <2>1 DEF StringFns
  <2> QED BY <2>2
<1>8. StartInv /\ MemsetInv /\ MoveInv /\ CopiesRight
  BY <1>1 DEF StartInv, MemsetInv, MoveInv, CopiesRight
<1> QED BY <1>1, <1>2, <1>4, <1>5, <1>6, <1>7, <1>8 DEF CopyInv

-----------------------------------------------------------------------------
(* What a function writes is what CopiesRight expects.                     *)
LEMMA RoomIs ==
  ASSUME NEW c \in Calls
  PROVE  /\ c.fn \in {"strcpy", "strcat"} => Room(c) = Len2(c) + 1
         /\ c.fn = "strncpy" => Room(c) = c.n
         /\ c.fn = "strlcpy" /\ c.n > 0 =>
              /\ Room(c) = (IF c.n - 1 <= Len2(c) THEN c.n - 1 ELSE Len2(c)) + 1
              /\ Min({c.n - 1, Len2(c)}) = IF c.n - 1 <= Len2(c) THEN c.n - 1 ELSE Len2(c)
<1>1. ASSUME c.fn = "strlcpy", c.n > 0
      PROVE  Min({c.n - 1, Len2(c)}) = IF c.n - 1 <= Len2(c) THEN c.n - 1 ELSE Len2(c)
  <2>1. c.n - 1 \in Int /\ Len2(c) \in Int
    BY <1>1, CallFacts, SourceFacts DEF StringFns
  <2> QED BY <2>1, Lesser
<1>2. c.n \in Nat
  BY CallFacts
<1> QED BY <1>1, <1>2 DEF Room, Len2

LEMMA StringExpected ==
  ASSUME call \in Calls
  PROVE  /\ fn \in {"strcpy", "strcat"} => ExpectedMem = Copied(call, Len2(call) + 1)
         /\ fn = "strncpy" => ExpectedMem = Copied(call, call.n)
<1>1. /\ call.p \in Nat /\ call.q \in Nat /\ call.n \in Nat /\ MemSize \in Nat
  BY CallFacts
<1>2. Length(second) = Len2(call)
  BY DEF Length, second, mem0, Len2
<1> DEFINE L == Len2(call)
<1>3. ASSUME fn \in StringFns, NEW k \in Nat, Target(call) + k <= MemSize
      PROVE  Patched(Target(call), k, Source(L)) = Copied(call, k)
  <2>1. Target(call) \in Nat /\ L \in Nat
    BY <1>3, TargetFacts, SourceFacts DEF fn
  <2>2. ASSUME NEW a \in Addr, a \in Target(call) .. Target(call) + k - 1
        PROVE  Source(L)[a - Target(call)]
                 = IF a - Target(call) < L THEN call.mem[call.q + (a - Target(call))] ELSE 0
    <3>1. a - Target(call) \in 0 .. MemSize
      BY <1>1, <1>3, <2>1, <2>2
    <3> HIDE DEF L
    <3> QED BY <3>1 DEF Source, mem0, second
  <2> HIDE DEF L
  <2>3. \A a \in Addr :
          (IF a \in Target(call) .. Target(call) + k - 1 THEN Source(L)[a - Target(call)]
                                                         ELSE mem0[a])
          = (IF a \in Target(call) .. Target(call) + k - 1
             THEN IF a - Target(call) < L THEN call.mem[call.q + (a - Target(call))] ELSE 0
             ELSE call.mem[a])
    BY <2>2 DEF mem0
  <2> USE DEF L
  <2> QED BY <2>3 DEF Patched, Copied
<1>4. ASSUME fn \in {"strcpy", "strcat"}
      PROVE  ExpectedMem = Copied(call, L + 1)
  <2>1. L + 1 \in Nat /\ Target(call) + (L + 1) <= MemSize
    <3>1. call.fn \in StringFns /\ call.fn \in {"strcpy", "strcat"}
      BY <1>4 DEF fn, StringFns
    <3>2. L \in Nat /\ Room(call) = L + 1 /\ Target(call) + Room(call) <= MemSize
      BY <3>1, TargetFacts, SourceFacts, RoomIs
    <3> HIDE DEF L
    <3> QED BY <3>2
  <2>2. Patched(Target(call), L + 1, Source(L)) = Copied(call, L + 1)
    BY <1>3, <1>4, <2>1 DEF StringFns
  <2>3. CASE fn = "strcpy"
    <3>1. Target(call) = first
      BY <2>3, <1>1 DEF Target, first, fn
    <3>2. ExpectedMem = Patched(first, Length(second) + 1, Source(Length(second)))
      BY <2>3 DEF ExpectedMem, Moves
    <3> QED BY <1>2, <2>2, <3>1, <3>2
  <2>4. CASE fn = "strcat"
    <3>1. Target(call) = first + Length(first)
      BY <2>4 DEF Target, first, fn, Length, mem0
    <3>2. ExpectedMem = Patched(first + Length(first), Length(second) + 1, Source(Length(second)))
      BY <2>4 DEF ExpectedMem, Moves
    <3> QED BY <1>2, <2>2, <3>1, <3>2
  <2> QED BY <1>4, <2>3, <2>4
<1>5. ASSUME fn = "strncpy"
      PROVE  ExpectedMem = Copied(call, call.n)
  <2>1. Target(call) = first /\ Target(call) + call.n <= MemSize
    BY <1>1, <1>5, TargetFacts, RoomIs DEF fn, StringFns, Target, first
  <2>2. ExpectedMem = Patched(first, size, Source(Length(second)))
    BY <1>5 DEF ExpectedMem, Moves
  <2> QED BY <1>1, <1>2, <1>3, <1>5, <2>1, <2>2 DEF StringFns, size
<1> QED BY <1>4, <1>5

(* strlcpy() ends the copy where it stops.                                 *)
LEMMA TerminatedExpected ==
  ASSUME call \in Calls, fn = "strlcpy", call.n > 0,
         NEW k \in Nat, k + 1 = Room(call)
  PROVE  /\ [Copied(call, k) EXCEPT ![call.p + k] = 0] = ExpectedMem
         /\ Kept = k
<1>1. /\ call.p \in Nat /\ call.q \in Nat /\ call.n \in Nat /\ MemSize \in Nat
      /\ Len2(call) \in Nat /\ Target(call) = call.p /\ call.p + (k + 1) <= MemSize
  BY CallFacts, SourceFacts, TargetFacts DEF fn, StringFns
<1>2. Kept = k /\ k <= Len2(call)
  <2>1. {size - 1} \cup {Length(second)} = {call.n - 1, Len2(call)}
    BY DEF size, Length, second, mem0, Len2
  <2>2. Kept = Min({call.n - 1, Len2(call)})
    BY <2>1 DEF Kept, FirstOf
  <2> QED BY <1>1, <2>2, RoomIs DEF fn
<1>3. ExpectedMem = Patched(call.p, k + 1, Source(k))
  BY <1>1, <1>2 DEF ExpectedMem, size, first, Moves
<1>4. [Copied(call, k) EXCEPT ![call.p + k] = 0]
        = [a \in Addr |-> IF a = call.p + k THEN 0 ELSE Copied(call, k)[a]]
  BY DEF Copied
<1>5. ASSUME NEW a \in Addr
      PROVE  (IF a = call.p + k THEN 0 ELSE Copied(call, k)[a])
               = IF a \in call.p .. call.p + (k + 1) - 1 THEN Source(k)[a - call.p] ELSE mem0[a]
  <2>1. a \in Nat
    BY DEF Addr
  <2>2. CASE a = call.p + k
    <3>1. a - call.p = k /\ k \in 0 .. MemSize /\ a \in call.p .. call.p + (k + 1) - 1
      BY <1>1, <2>2
    <3>2. Source(k)[k] = 0
      BY <3>1 DEF Source
    <3> QED BY <2>2, <3>1, <3>2
  <2>3. CASE a \in call.p .. call.p + k - 1
    <3>1. /\ a - call.p \in 0 .. MemSize /\ a - call.p < k /\ a # call.p + k
          /\ a \in call.p .. call.p + (k + 1) - 1
      BY <1>1, <2>1, <2>3
    <3>2. Source(k)[a - call.p] = call.mem[call.q + (a - call.p)]
      BY <3>1 DEF Source, mem0, second
    <3>3. a - call.p < Len2(call)
      BY <1>1, <1>2, <3>1
    <3>4. Copied(call, k)[a] = call.mem[call.q + (a - call.p)]
      BY <1>1, <2>3, <3>3 DEF Copied
    <3> QED BY <3>1, <3>2, <3>4
  <2>4. CASE a \notin call.p .. call.p + (k + 1) - 1
    <3>1. a # call.p + k /\ a \notin call.p .. call.p + k - 1
      BY <1>1, <2>1, <2>4
    <3>2. Copied(call, k)[a] = call.mem[a]
      BY <1>1, <3>1 DEF Copied
    <3> QED BY <2>4, <3>1, <3>2 DEF mem0
  <2> QED BY <1>1, <2>1, <2>2, <2>3, <2>4
<1> QED BY <1>2, <1>3, <1>4, <1>5 DEF Patched

(* The blocks.                                                             *)
LEMMA BlockFacts ==
  ASSUME NEW c \in Calls, c.fn \in BlockFns
  PROVE  /\ c.p + c.n <= MemSize
         /\ c.fn \in {"memmove", "memcpy"} => c.q + c.n <= MemSize
  BY CallFacts DEF GoodCall, BlockFns

LEMMA MoveUp ==
  ASSUME NEW c \in Calls, c.fn \in {"memmove", "memcpy"}, ~Above(c),
         NEW k \in Nat, NEW u \in Nat \ {0}, k + u <= c.n
  PROVE  [a \in Addr |-> IF a \in c.p + k .. c.p + k + u - 1
                         THEN Moved(c, 0, k)[c.q + k + (a - (c.p + k))]
                         ELSE Moved(c, 0, k)[a]] = Moved(c, 0, k + u)
<1>1. /\ c.p \in Nat /\ c.q \in Nat /\ c.n \in Nat /\ MemSize \in Nat
      /\ c.p + c.n <= MemSize /\ c.q + c.n <= MemSize
  BY CallFacts, BlockFacts DEF BlockFns
<1>2. ASSUME NEW a \in Addr
      PROVE  (IF a \in c.p + k .. c.p + k + u - 1
              THEN Moved(c, 0, k)[c.q + k + (a - (c.p + k))] ELSE Moved(c, 0, k)[a])
             = IF a \in c.p + 0 .. c.p + (k + u) - 1 THEN c.mem[c.q + (a - c.p)] ELSE c.mem[a]
  <2>0. a \in Nat
    BY DEF Addr
  <2>1. CASE a \in c.p + k .. c.p + k + u - 1
    <3>1. /\ c.q + k + (a - (c.p + k)) = c.q + (a - c.p)
          /\ c.q + (a - c.p) \in Addr
          /\ c.q + (a - c.p) \notin c.p + 0 .. c.p + k - 1
          /\ a \in c.p + 0 .. c.p + (k + u) - 1
      BY <1>1, <2>0, <2>1 DEF Above, Addr
    <3> QED BY <2>1, <3>1 DEF Moved
  <2>2. CASE a \notin c.p + k .. c.p + k + u - 1
    <3>1. a \in c.p + 0 .. c.p + (k + u) - 1 <=> a \in c.p + 0 .. c.p + k - 1
      BY <1>1, <2>0, <2>2
    <3> QED BY <2>2, <3>1 DEF Moved
  <2> QED BY <2>1, <2>2
<1>3. Moved(c, 0, k + u)
        = [a \in Addr |-> IF a \in c.p + 0 .. c.p + (k + u) - 1 THEN c.mem[c.q + (a - c.p)]
                                                               ELSE c.mem[a]]
  BY DEF Moved
<1> QED BY <1>2, <1>3

LEMMA MoveDown ==
  ASSUME NEW c \in Calls, c.fn \in {"memmove", "memcpy"}, Above(c),
         NEW k \in Nat, NEW u \in Nat \ {0}, u <= k, k <= c.n
  PROVE  [a \in Addr |-> IF a \in c.p + k - u .. c.p + k - u + u - 1
                         THEN Moved(c, k, c.n)[c.q + k - u + (a - (c.p + k - u))]
                         ELSE Moved(c, k, c.n)[a]] = Moved(c, k - u, c.n)
<1>1. /\ c.p \in Nat /\ c.q \in Nat /\ c.n \in Nat /\ MemSize \in Nat
      /\ c.p + c.n <= MemSize /\ c.q + c.n <= MemSize
  BY CallFacts, BlockFacts DEF BlockFns
<1>2. ASSUME NEW a \in Addr
      PROVE  (IF a \in c.p + k - u .. c.p + k - u + u - 1
              THEN Moved(c, k, c.n)[c.q + k - u + (a - (c.p + k - u))] ELSE Moved(c, k, c.n)[a])
             = IF a \in c.p + (k - u) .. c.p + c.n - 1 THEN c.mem[c.q + (a - c.p)] ELSE c.mem[a]
  <2>0. a \in Nat
    BY DEF Addr
  <2>1. CASE a \in c.p + k - u .. c.p + k - u + u - 1
    <3>1. /\ c.q + k - u + (a - (c.p + k - u)) = c.q + (a - c.p)
          /\ c.q + (a - c.p) \in Addr
          /\ c.q + (a - c.p) \notin c.p + k .. c.p + c.n - 1
          /\ a \in c.p + (k - u) .. c.p + c.n - 1
      BY <1>1, <2>0, <2>1 DEF Above, Addr
    <3> QED BY <2>1, <3>1 DEF Moved
  <2>2. CASE a \notin c.p + k - u .. c.p + k - u + u - 1
    <3>1. a \in c.p + (k - u) .. c.p + c.n - 1 <=> a \in c.p + k .. c.p + c.n - 1
      BY <1>1, <2>0, <2>2
    <3> QED BY <2>2, <3>1 DEF Moved
  <2> QED BY <2>1, <2>2
<1>3. Moved(c, k - u, c.n)
        = [a \in Addr |-> IF a \in c.p + (k - u) .. c.p + c.n - 1 THEN c.mem[c.q + (a - c.p)]
                                                                 ELSE c.mem[a]]
  BY DEF Moved
<1> QED BY <1>2, <1>3

LEMMA FillOn ==
  ASSUME NEW c \in Calls, NEW k \in Nat, NEW u \in Nat \ {0}
  PROVE  [a \in Addr |-> IF a \in c.p + k .. c.p + k + u - 1 THEN c.c % 256 ELSE Filled(c, k)[a]]
           = Filled(c, k + u)
<1>1. c.p \in Nat
  BY CallFacts
<1>2. ASSUME NEW a \in Addr
      PROVE  (IF a \in c.p + k .. c.p + k + u - 1 THEN c.c % 256 ELSE Filled(c, k)[a])
             = IF a \in c.p .. c.p + (k + u) - 1 THEN c.c % 256 ELSE c.mem[a]
  <2>1. /\ a \in c.p + k .. c.p + k + u - 1 => a \in c.p .. c.p + (k + u) - 1
        /\ a \notin c.p + k .. c.p + k + u - 1 =>
             (a \in c.p .. c.p + (k + u) - 1 <=> a \in c.p .. c.p + k - 1)
    BY <1>1 DEF Addr
  <2> QED BY <2>1 DEF Filled
<1> QED BY <1>2 DEF Filled

LEMMA BlockExpected ==
  ASSUME call \in Calls
  PROVE  /\ fn = "memset" => ExpectedMem = Filled(call, call.n)
         /\ Moves => ExpectedMem = Moved(call, 0, call.n)
<1>1. /\ call.p \in Nat /\ call.q \in Nat /\ call.n \in Nat /\ MemSize \in Nat
  BY CallFacts
<1>2. ASSUME fn = "memset"
      PROVE  ExpectedMem = Filled(call, call.n)
  <2>1. ExpectedMem = Patched(call.p, call.n, [i \in 0 .. call.n |-> call.c % 256])
    BY <1>2 DEF ExpectedMem, first, size, Moves
  <2>2. \A a \in Addr : a \in call.p .. call.p + call.n - 1 => a - call.p \in 0 .. call.n
    BY <1>1
  <2> QED BY <2>1, <2>2 DEF Patched, Filled, mem0
<1>3. ASSUME Moves
      PROVE  ExpectedMem = Moved(call, 0, call.n)
  <2>1. ExpectedMem = Patched(call.p, call.n, Source(call.n))
    BY <1>3 DEF ExpectedMem, first, size, Moves
  <2>2. call.p + call.n <= MemSize
    BY <1>3, BlockFacts DEF Moves, fn, BlockFns
  <2>3. ASSUME NEW a \in Addr, a \in call.p .. call.p + call.n - 1
        PROVE  Source(call.n)[a - call.p] = call.mem[call.q + (a - call.p)]
    <3>1. a - call.p \in 0 .. MemSize /\ a - call.p < call.n
      BY <1>1, <2>2, <2>3
    <3> QED BY <3>1 DEF Source, mem0, second
  <2>4. \A a : a \in call.p + 0 .. call.p + call.n - 1 <=> a \in call.p .. call.p + call.n - 1
    BY <1>1
  <2> QED BY <2>1, <2>3, <2>4 DEF Patched, Moved, mem0
<1> QED BY <1>2, <1>3

-----------------------------------------------------------------------------
(* The steps.  While a function has not returned, only its part counts.    *)
LEMMA CallAndMemory ==
  ASSUME CopyInv
  PROVE  /\ call \in Calls /\ MemSize \in Nat
         /\ call.p \in Nat /\ call.q \in Nat /\ call.n \in Nat
         /\ fn \in StringFns =>
              /\ Len2(call) \in Nat /\ Target(call) \in Nat /\ Room(call) \in Nat
              /\ Copied(call, 0) = call.mem
<1>1. call \in Calls /\ call.p \in Nat /\ call.q \in Nat /\ call.n \in Nat /\ MemSize \in Nat
  BY CallFacts DEF CopyInv
<1>2. ASSUME fn \in StringFns
      PROVE  /\ Len2(call) \in Nat /\ Target(call) \in Nat
             /\ Copied(call, 0) = call.mem
  BY <1>1, <1>2, SourceFacts, TargetFacts, NothingYet DEF fn
<1>3. ASSUME fn \in StringFns
      PROVE  Room(call) \in Nat
  <2>1. CASE fn \in {"strcpy", "strcat"}
    <3>1. Len2(call) \in Nat
      BY <1>2, <1>3
    <3>2. call.fn \in {"strcpy", "strcat"}
      BY <2>1 DEF fn
    <3>3. Room(call) = Len2(call) + 1
      BY <1>1, <3>2, RoomIs
    <3> QED BY <3>1, <3>3
  <2>2. CASE fn = "strncpy"
    BY <1>1, <2>2, RoomIs DEF fn
  <2>3. CASE fn = "strlcpy" /\ call.n > 0
    <3>1. Len2(call) \in Nat
      BY <1>2, <1>3
    <3>2. call.fn = "strlcpy" /\ call.n > 0
      BY <2>3 DEF fn
    <3>3. Room(call) = (IF call.n - 1 <= Len2(call) THEN call.n - 1 ELSE Len2(call)) + 1
      BY <1>1, <3>2, RoomIs
    <3> QED BY <1>1, <3>1, <3>2, <3>3
  <2>4. CASE fn = "strlcpy" /\ ~(call.n > 0)
    BY <1>1, <2>4 DEF Room, fn
  <2> QED BY <1>3, <2>1, <2>2, <2>3, <2>4 DEF StringFns
<1> QED BY <1>1, <1>2, <1>3

LEMMA SameCall ==
  ASSUME call' = call
  PROVE  ExpectedMem' = ExpectedMem /\ Kept' = Kept /\ first' = first /\ size' = size /\ fn' = fn
  BY DEF ExpectedMem, first, fn, Patched, Source, Length, Kept, FirstOf, mem0, second, size, Moves

LEMMA StepStrcatEnd == ASSUME CopyInv, StrcatEnd PROVE CopyInv'
<1>1. /\ fn = "strcat" /\ pc = "loop" /\ mem[d] # 0 /\ d' = d + 1
      /\ call' = call /\ mem' = mem /\ s' = s /\ pc' = pc /\ df' = df
  BY DEF StrcatEnd, copying, number
<1>2. fn' = fn
  BY <1>1 DEF fn
<1>3. d \in call.p .. Target(call) /\ s = call.q /\ mem = call.mem
  BY <1>1 DEF CopyInv, StrcatInv
<1>4. /\ call.p \in Nat /\ Target(call) = call.p + StrLen(call.mem, call.p)
      /\ StrLen(call.mem, call.p) \in Nat
      /\ call.mem[call.p + StrLen(call.mem, call.p)] = 0
  <2>1. IsString(call.mem, call.p) /\ call.p \in Addr
    BY <1>1, CallFacts DEF CopyInv, GoodCall, fn
  <2>2. Target(call) = call.p + StrLen(call.mem, call.p)
    BY <1>1 DEF Target, fn
  <2> QED BY <2>1, <2>2, StringFacts, CallAndMemory
<1>5. d # Target(call)
  BY <1>1, <1>3, <1>4
<1>6. d' \in call.p .. Target(call)
  BY <1>1, <1>3, <1>4, <1>5
<1>7. StrcatInv'
  BY <1>1, <1>2, <1>3, <1>6 DEF StrcatInv
<1>8. /\ PlacesInv' /\ StrcpyInv' /\ StrncpyInv' /\ StrlcpyInv'
      /\ StartInv' /\ MemsetInv' /\ MoveInv' /\ CopiesRight'
  BY <1>1, <1>2 DEF CopyInv, PlacesInv, StrcpyInv, StrncpyInv, StrlcpyInv, StartInv, MemsetInv,
     MoveInv, CopiesRight, Copies, Moves, BlockFns
<1> QED BY <1>1, <1>7, <1>8 DEF CopyInv

LEMMA StepStrcatCopy == ASSUME CopyInv, StrcatCopy PROVE CopyInv'
<1>1. /\ fn = "strcat" /\ pc = "loop" /\ mem[d] = 0 /\ d' = d
      /\ call' = call /\ mem' = mem /\ s' = s /\ pc' = "copy" /\ df' = df
  BY DEF StrcatCopy, pointers, copying, number
<1>2. fn' = fn
  BY <1>1 DEF fn
<1>3. d \in call.p .. Target(call) /\ s = call.q /\ mem = call.mem
  BY <1>1 DEF CopyInv, StrcatInv
<1>4. d = Target(call)
  <2>1. IsString(call.mem, call.p) /\ call.p \in Addr /\ call.p \in Nat
    BY <1>1, CallFacts DEF CopyInv, GoodCall, fn
  <2>2. Target(call) = call.p + StrLen(call.mem, call.p)
    BY <1>1 DEF Target, fn
  <2>3. StrLen(call.mem, call.p) \in Nat
    BY <2>1, StringFacts
  <2>4. \A j \in 0 .. StrLen(call.mem, call.p) - 1 : call.mem[call.p + j] # 0
    BY <2>1, StringFacts
  <2>5. SUFFICES ASSUME d # Target(call) PROVE FALSE
    OBVIOUS
  <2>6. d - call.p \in 0 .. StrLen(call.mem, call.p) - 1 /\ call.p + (d - call.p) = d
    BY <1>3, <2>1, <2>2, <2>3, <2>5
  <2> QED BY <1>1, <1>3, <2>4, <2>6
<1>5. StrcpyInv'
  <2>1. /\ Len2(call) \in Nat /\ Target(call) \in Nat /\ Copied(call, 0) = call.mem
        /\ call.q \in Nat
    BY <1>1, CallAndMemory DEF StringFns
  <2>2. d = Target(call) + 0 /\ s = call.q + 0 /\ mem = Copied(call, 0) /\ 0 \in 0 .. Len2(call)
    BY <1>3, <1>4, <2>1
  <2>3. \E k \in 0 .. Len2(call) : d' = Target(call') + k /\ s' = call'.q + k /\ mem' = Copied(call', k)
    BY <1>1, <2>2
  <2> QED BY <1>1, <2>3 DEF StrcpyInv, CopyLoop
<1>6. /\ PlacesInv' /\ StrcatInv' /\ StrncpyInv' /\ StrlcpyInv'
      /\ StartInv' /\ MemsetInv' /\ MoveInv' /\ CopiesRight'
  BY <1>1, <1>2 DEF CopyInv, PlacesInv, StrcatInv, StrncpyInv, StrlcpyInv, StartInv, MemsetInv,
     MoveInv, CopiesRight, Moves, BlockFns
<1> QED BY <1>1, <1>5, <1>6 DEF CopyInv

(* One byte of strcpy(), and of strcat() behind the string it found.       *)
LEMMA CopyTurn ==
  ASSUME CopyInv, Copies
  PROVE  /\ fn \in StringFns /\ fn \in {"strcpy", "strcat"} /\ pc \in {"loop", "copy"}
         /\ Room(call) = Len2(call) + 1
         /\ \E k \in 0 .. Len2(call) :
              /\ d = Target(call) + k /\ s = call.q + k /\ mem = Copied(call, k)
              /\ mem[s] = IF k < Len2(call) THEN call.mem[call.q + k] ELSE 0
              /\ k = Len2(call) <=> mem[s] = 0
<1>1. fn \in StringFns /\ fn \in {"strcpy", "strcat"} /\ pc \in {"loop", "copy"}
  BY DEF Copies, StringFns
<1>2. call \in Calls /\ call.fn \in StringFns /\ call.fn \in {"strcpy", "strcat"}
  BY <1>1 DEF CopyInv, fn
<1>3. Room(call) = Len2(call) + 1 /\ Len2(call) \in Nat
  BY <1>2, RoomIs, SourceFacts
<1>4. PICK k \in 0 .. Len2(call) : d = Target(call) + k /\ s = call.q + k /\ mem = Copied(call, k)
  BY DEF CopyInv, StrcpyInv, CopyLoop
<1>5. k \in Nat /\ k <= Room(call) /\ Room(call) \in Nat
  BY <1>3
<1>6. mem[s] = IF k < Len2(call) THEN call.mem[call.q + k] ELSE 0
  BY <1>2, <1>4, <1>5, NextByte
<1>7. k < Len2(call) => call.mem[call.q + k] # 0
  <2>1. k < Len2(call) => k \in 0 .. Len2(call) - 1
    BY <1>3
  <2> QED BY <1>2, <2>1, SourceFacts
<1>8. k = Len2(call) <=> mem[s] = 0
  BY <1>3, <1>6, <1>7
<1> QED BY <1>1, <1>3, <1>4, <1>6, <1>8

LEMMA StepStrcpy == ASSUME CopyInv, Strcpy PROVE CopyInv'
<1>1. /\ Copies /\ mem[s] # 0 /\ mem' = [mem EXCEPT ![d] = mem[s]]
      /\ d' = d + 1 /\ s' = s + 1
      /\ call' = call /\ pc' = pc /\ df' = df
  BY DEF Strcpy, copying, number
<1>2. fn' = fn /\ Copies'
  BY <1>1 DEF fn, Copies
<1>3. PICK k \in 0 .. Len2(call) :
        /\ d = Target(call) + k /\ s = call.q + k /\ mem = Copied(call, k)
        /\ mem[s] = IF k < Len2(call) THEN call.mem[call.q + k] ELSE 0
        /\ k = Len2(call) <=> mem[s] = 0
  BY <1>1, CopyTurn
<1>4. /\ fn \in StringFns /\ fn \in {"strcpy", "strcat"} /\ pc \in {"loop", "copy"}
      /\ Room(call) = Len2(call) + 1
      /\ Len2(call) \in Nat /\ Target(call) \in Nat /\ call.q \in Nat /\ call \in Calls
  BY <1>1, CopyTurn, CallAndMemory
<1>5. k \in Nat /\ k < Room(call) /\ Room(call) \in Nat /\ k + 1 \in 0 .. Len2(call)
  BY <1>1, <1>3, <1>4
<1>6. mem' = Copied(call, k + 1)
  <2>1. call.fn \in StringFns
    BY <1>4 DEF fn
  <2>2. [Copied(call, k) EXCEPT ![Target(call) + k] = mem[s]] = Copied(call, k + 1)
    BY <1>3, <1>4, <1>5, <2>1, CopyOne
  <2> QED BY <1>1, <1>3, <2>2
<1>7. StrcpyInv'
  <2>1. d' = Target(call) + (k + 1) /\ s' = call.q + (k + 1)
    BY <1>1, <1>3, <1>4, <1>5
  <2>2. \E j \in 0 .. Len2(call) : d' = Target(call') + j /\ s' = call'.q + j /\ mem' = Copied(call', j)
    BY <1>1, <1>5, <1>6, <2>1
  <2> QED BY <1>1, <2>2 DEF StrcpyInv, CopyLoop
<1>8. /\ PlacesInv' /\ StrcatInv' /\ StrncpyInv' /\ StrlcpyInv'
      /\ StartInv' /\ MemsetInv' /\ MoveInv' /\ CopiesRight'
  BY <1>1, <1>2, <1>4 DEF CopyInv, PlacesInv, StrcatInv, StrncpyInv, StrlcpyInv, StartInv,
     MemsetInv, MoveInv, CopiesRight, Copies, Moves, BlockFns
<1> QED BY <1>1, <1>4, <1>7, <1>8 DEF CopyInv

LEMMA StepStrcpyEnd == ASSUME CopyInv, StrcpyEnd PROVE CopyInv'
<1>1. /\ Copies /\ mem[s] = 0 /\ mem' = [mem EXCEPT ![d] = 0]
      /\ call' = call /\ pc' = "done" /\ ret' = call.p /\ df' = df
  BY DEF StrcpyEnd, Return
<1>2. fn' = fn
  BY <1>1 DEF fn
<1>3. PICK k \in 0 .. Len2(call) :
        /\ d = Target(call) + k /\ s = call.q + k /\ mem = Copied(call, k)
        /\ mem[s] = IF k < Len2(call) THEN call.mem[call.q + k] ELSE 0
        /\ k = Len2(call) <=> mem[s] = 0
  BY <1>1, CopyTurn
<1>4. /\ fn \in StringFns /\ fn \in {"strcpy", "strcat"} /\ pc \in {"loop", "copy"}
      /\ Room(call) = Len2(call) + 1 /\ call \in Calls /\ Len2(call) \in Nat
  BY <1>1, CopyTurn, CallAndMemory
<1>5. k = Len2(call) /\ k \in Nat /\ k < Room(call) /\ Room(call) \in Nat
  BY <1>1, <1>3, <1>4
<1>6. mem' = Copied(call, Len2(call) + 1)
  <2>1. call.fn \in StringFns /\ 0 = IF k < Len2(call) THEN call.mem[call.q + k] ELSE 0
    BY <1>1, <1>3, <1>4 DEF fn
  <2>2. [Copied(call, k) EXCEPT ![Target(call) + k] = 0] = Copied(call, k + 1)
    BY <1>4, <1>5, <2>1, CopyOne
  <2> QED BY <1>1, <1>3, <1>5, <2>2
<1>7. ~df
  BY <1>4 DEF CopyInv, PlacesInv, Writers, Moves
<1>8. ExpectedMem' = ExpectedMem /\ first' = first
  BY <1>1, SameCall
<1>9. CopiesRight'
  <2>1. mem' = ExpectedMem' /\ ret' = first'
    BY <1>1, <1>4, <1>6, <1>8, StringExpected DEF first
  <2> QED BY <1>1, <1>2, <1>4, <1>7, <2>1 DEF CopiesRight
<1> QED BY <1>1, <1>7, <1>9, AtTheEnd

LEMMA StepStrncpy == ASSUME CopyInv, Strncpy PROVE CopyInv'
<1>1. /\ pc = "loop" /\ fn = "strncpy" /\ n > 0 /\ mem' = [mem EXCEPT ![d] = mem[s]]
      /\ d' = d + 1 /\ n' = n - 1 /\ s' = IF mem[s] # 0 THEN s + 1 ELSE s
      /\ call' = call /\ pc' = pc /\ df' = df
  BY DEF Strncpy, copying, number
<1>2. fn' = fn
  BY <1>1 DEF fn
<1>3. PICK k \in 0 .. call.n :
        /\ n = call.n - k /\ d = call.p + k /\ mem = Copied(call, k)
        /\ s = call.q + IF k < Len2(call) THEN k ELSE Len2(call)
  BY <1>1 DEF CopyInv, StrncpyInv
<1>4. /\ call \in Calls /\ call.fn = "strncpy" /\ call.fn \in StringFns
      /\ call.p \in Nat /\ call.q \in Nat /\ call.n \in Nat /\ Len2(call) \in Nat
  BY <1>1, CallAndMemory DEF fn, StringFns
<1>5. Room(call) = call.n /\ Target(call) = call.p
  BY <1>4, RoomIs, TargetFacts
<1>6. k \in Nat /\ k < call.n /\ k + 1 \in 0 .. call.n
  BY <1>1, <1>3, <1>4
<1> DEFINE i == IF k < Len2(call) THEN k ELSE Len2(call)
<1>7. i \in 0 .. Len2(call) /\ (i < Len2(call) <=> k < Len2(call)) /\ (k < Len2(call) => i = k)
  BY <1>4, <1>6
<1>8. s = call.q + i
  BY <1>3
<1> HIDE DEF i
<1>9. mem[s] = IF k < Len2(call) THEN call.mem[call.q + k] ELSE 0
  <2>1. k <= Room(call) /\ Room(call) \in Nat
    BY <1>4, <1>5, <1>6
  <2>2. Copied(call, k)[call.q + i] = IF i < Len2(call) THEN call.mem[call.q + i] ELSE 0
    BY <1>4, <1>6, <1>7, <2>1, NextByte
  <2> QED BY <1>3, <1>7, <1>8, <2>2
<1>10. mem' = Copied(call, k + 1)
  <2>1. k < Room(call) /\ Room(call) \in Nat
    BY <1>4, <1>5, <1>6
  <2>2. [Copied(call, k) EXCEPT ![Target(call) + k] = mem[s]] = Copied(call, k + 1)
    BY <1>4, <1>6, <1>9, <2>1, CopyOne
  <2> QED BY <1>1, <1>3, <1>5, <2>2
<1>11. mem[s] # 0 <=> k < Len2(call)
  <2>1. k < Len2(call) => k \in 0 .. Len2(call) - 1
    BY <1>4, <1>6
  <2> QED BY <1>4, <1>9, <2>1, SourceFacts
<1>12. s' = call.q + IF k + 1 < Len2(call) THEN k + 1 ELSE Len2(call)
  BY <1>1, <1>3, <1>4, <1>6, <1>11
<1>13. StrncpyInv'
  <2>1. n' = call.n - (k + 1) /\ d' = call.p + (k + 1)
    BY <1>1, <1>3, <1>4, <1>6
  <2>2. \E j \in 0 .. call'.n :
          /\ n' = call'.n - j /\ d' = call'.p + j /\ mem' = Copied(call', j)
          /\ s' = call'.q + IF j < Len2(call') THEN j ELSE Len2(call')
    BY <1>1, <1>6, <1>10, <1>12, <2>1
  <2> QED BY <2>2 DEF StrncpyInv
<1>14. /\ PlacesInv' /\ StrcpyInv' /\ StrcatInv' /\ StrlcpyInv'
       /\ StartInv' /\ MemsetInv' /\ MoveInv' /\ CopiesRight'
  BY <1>1, <1>2 DEF CopyInv, PlacesInv, StrcpyInv, StrcatInv, StrlcpyInv, StartInv,
     MemsetInv, MoveInv, CopiesRight, Copies, Moves, BlockFns
<1> QED BY <1>1, <1>4, <1>13, <1>14 DEF CopyInv

LEMMA StepStrncpyEnd == ASSUME CopyInv, StrncpyEnd PROVE CopyInv'
<1>1. /\ pc = "loop" /\ fn = "strncpy" /\ n = 0 /\ mem' = mem
      /\ call' = call /\ pc' = "done" /\ ret' = call.p /\ df' = df
  BY DEF StrncpyEnd, Return
<1>2. fn' = fn
  BY <1>1 DEF fn
<1>3. PICK k \in 0 .. call.n : n = call.n - k /\ mem = Copied(call, k)
  BY <1>1 DEF CopyInv, StrncpyInv
<1>4. call \in Calls /\ call.n \in Nat
  BY CallAndMemory
<1>5. mem = Copied(call, call.n)
  BY <1>1, <1>3, <1>4
<1>6. ~df
  BY <1>1 DEF CopyInv, PlacesInv, Writers, Moves
<1>7. CopiesRight'
  <2>1. mem' = ExpectedMem' /\ ret' = first'
    BY <1>1, <1>4, <1>5, SameCall, StringExpected DEF first
  <2> QED BY <1>1, <1>2, <1>6, <2>1 DEF CopiesRight
<1> QED BY <1>1, <1>6, <1>7, AtTheEnd

(* Where strlcpy() is, and the byte it looks at.                           *)
LEMMA LcpyTurn ==
  ASSUME CopyInv, fn = "strlcpy", pc = "loop", call.n > 0
  PROVE  /\ Target(call) = call.p /\ Room(call) \in Nat
         /\ Room(call) = (IF call.n - 1 <= Len2(call) THEN call.n - 1 ELSE Len2(call)) + 1
         /\ \E k \in 0 .. Room(call) - 1 :
              /\ n = call.n - k /\ d = call.p + k /\ s = call.q + k /\ mem = Copied(call, k)
              /\ mem[s] = IF k < Len2(call) THEN call.mem[call.q + k] ELSE 0
              /\ k = Len2(call) <=> mem[s] = 0
<1>1. call \in Calls /\ call.fn \in StringFns /\ call.fn = "strlcpy" /\ call.fn # "strcat"
  BY DEF CopyInv, fn, StringFns
<1>2. /\ Len2(call) \in Nat /\ call.n \in Nat /\ Room(call) \in Nat
  BY <1>1, CallAndMemory DEF fn
<1>3. Target(call) = call.p
  BY <1>1, TargetFacts
<1>4. Room(call) = (IF call.n - 1 <= Len2(call) THEN call.n - 1 ELSE Len2(call)) + 1
  BY <1>1, RoomIs
<1>5. PICK k \in 0 .. Room(call) - 1 :
        n = call.n - k /\ d = call.p + k /\ s = call.q + k /\ mem = Copied(call, k)
  BY <1>2 DEF CopyInv, StrlcpyInv
<1>6. k \in Nat /\ k <= Room(call) /\ k \in 0 .. Len2(call)
  BY <1>2, <1>4
<1>7. mem[s] = IF k < Len2(call) THEN call.mem[call.q + k] ELSE 0
  BY <1>1, <1>2, <1>5, <1>6, NextByte
<1>8. k < Len2(call) => call.mem[call.q + k] # 0
  <2>1. k < Len2(call) => k \in 0 .. Len2(call) - 1
    BY <1>2, <1>6
  <2> QED BY <1>1, <2>1, SourceFacts
<1>9. k = Len2(call) <=> mem[s] = 0
  BY <1>2, <1>6, <1>7, <1>8
<1> QED BY <1>2, <1>3, <1>4, <1>5, <1>7, <1>9

LEMMA StepStrlcpy == ASSUME CopyInv, Strlcpy PROVE CopyInv'
<1>1. /\ pc = "loop" /\ fn = "strlcpy" /\ call.n > 0 /\ n - 1 > 0 /\ mem[s] # 0
      /\ mem' = [mem EXCEPT ![d] = mem[s]]
      /\ d' = d + 1 /\ s' = s + 1 /\ n' = n - 1
      /\ call' = call /\ pc' = pc /\ df' = df
  BY DEF Strlcpy, StrlcpyGoes, copying, number
<1>2. fn' = fn
  BY <1>1 DEF fn
<1>3. /\ Target(call) = call.p /\ Room(call) \in Nat
      /\ Room(call) = (IF call.n - 1 <= Len2(call) THEN call.n - 1 ELSE Len2(call)) + 1
  BY <1>1, LcpyTurn
<1>4. PICK k \in 0 .. Room(call) - 1 :
        /\ n = call.n - k /\ d = call.p + k /\ s = call.q + k /\ mem = Copied(call, k)
        /\ mem[s] = IF k < Len2(call) THEN call.mem[call.q + k] ELSE 0
        /\ k = Len2(call) <=> mem[s] = 0
  BY <1>1, LcpyTurn
<1>5. /\ call \in Calls /\ call.fn \in StringFns
      /\ call.p \in Nat /\ call.q \in Nat /\ call.n \in Nat /\ Len2(call) \in Nat
  BY <1>1, CallAndMemory DEF fn, StringFns
<1>6. k \in Nat /\ k < Room(call) /\ k + 1 \in 0 .. Room(call) - 1
  BY <1>1, <1>3, <1>4, <1>5
<1>7. mem' = Copied(call, k + 1)
  <2>1. [Copied(call, k) EXCEPT ![Target(call) + k] = mem[s]] = Copied(call, k + 1)
    BY <1>3, <1>4, <1>5, <1>6, CopyOne
  <2> QED BY <1>1, <1>3, <1>4, <2>1
<1>8. StrlcpyInv'
  <2>1. n' = call.n - (k + 1) /\ d' = call.p + (k + 1) /\ s' = call.q + (k + 1)
    BY <1>1, <1>4, <1>5, <1>6
  <2>2. call'.n # 0
    BY <1>1, <1>5
  <2>3. \E j \in 0 .. Room(call') - 1 :
          n' = call'.n - j /\ d' = call'.p + j /\ s' = call'.q + j /\ mem' = Copied(call', j)
    BY <1>1, <1>6, <1>7, <2>1
  <2> QED BY <2>2, <2>3 DEF StrlcpyInv
<1>9. /\ PlacesInv' /\ StrcpyInv' /\ StrcatInv' /\ StrncpyInv'
      /\ StartInv' /\ MemsetInv' /\ MoveInv' /\ CopiesRight'
  BY <1>1, <1>2 DEF CopyInv, PlacesInv, StrcpyInv, StrcatInv, StrncpyInv, StartInv,
     MemsetInv, MoveInv, CopiesRight, Copies, Moves, BlockFns
<1> QED BY <1>1, <1>5, <1>8, <1>9 DEF CopyInv

LEMMA StepStrlcpyEnd == ASSUME CopyInv, StrlcpyEnd PROVE CopyInv'
<1>1. /\ pc = "loop" /\ fn = "strlcpy"
      /\ \/ call.n = 0 /\ mem' = mem
         \/ call.n > 0 /\ ~(n - 1 > 0 /\ mem[s] # 0) /\ mem' = [mem EXCEPT ![d] = 0]
      /\ call' = call /\ pc' = "done" /\ ret' = d - call.p /\ df' = df
  BY DEF StrlcpyEnd, StrlcpyGoes, Return
<1>2. fn' = fn
  BY <1>1 DEF fn
<1>3. ~df
  BY <1>1 DEF CopyInv, PlacesInv, Writers, Moves
<1>4. call \in Calls /\ call.p \in Nat /\ call.n \in Nat
  BY CallAndMemory
<1>5. CASE call.n = 0
  <2>1. mem' = call.mem /\ ret' = 0
    BY <1>1, <1>4, <1>5 DEF CopyInv, StrlcpyInv
  <2>2. ExpectedMem = call.mem
    BY <1>1, <1>5 DEF ExpectedMem, size, mem0, Moves
  <2>3. CopiesRight'
    BY <1>1, <1>2, <1>3, <1>5, <2>1, <2>2, SameCall DEF CopiesRight, size
  <2> QED BY <1>1, <1>3, <2>3, AtTheEnd
<1>6. CASE call.n > 0
  <2>1. Room(call) = (IF call.n - 1 <= Len2(call) THEN call.n - 1 ELSE Len2(call)) + 1
    BY <1>1, <1>6, LcpyTurn
  <2>2. PICK k \in 0 .. Room(call) - 1 :
          /\ n = call.n - k /\ d = call.p + k /\ s = call.q + k /\ mem = Copied(call, k)
          /\ mem[s] = IF k < Len2(call) THEN call.mem[call.q + k] ELSE 0
          /\ k = Len2(call) <=> mem[s] = 0
    BY <1>1, <1>6, LcpyTurn
  <2>3. Len2(call) \in Nat
    BY <1>1, CallAndMemory DEF StringFns
  <2>4. k \in Nat /\ k + 1 = Room(call)
    BY <1>1, <1>4, <1>6, <2>1, <2>2, <2>3
  <2>5. [Copied(call, k) EXCEPT ![call.p + k] = 0] = ExpectedMem /\ Kept = k
    BY <1>1, <1>4, <1>6, <2>4, TerminatedExpected
  <2>6. mem' = ExpectedMem /\ ret' = Kept
    BY <1>1, <1>4, <1>6, <2>2, <2>4, <2>5
  <2>7. CopiesRight'
    BY <1>1, <1>2, <1>3, <1>4, <1>6, <2>6, SameCall DEF CopiesRight, size
  <2> QED BY <1>1, <1>3, <2>7, AtTheEnd
<1> QED BY <1>1, <1>5, <1>6

(* The words or bytes of a block, and how many of them there are.          *)
LEMMA Units ==
  ASSUME CopyInv, fn \in BlockFns, pc = "loop",
         NEW u, (u = WORD /\ n % WORD = 0) \/ u = 1
  PROVE  /\ u \in Nat \ {0} /\ n \div u \in Nat /\ (n \div u) * u = call.n
         /\ d = call.p /\ s = call.q /\ n = call.n /\ mem = call.mem
<1>1. d = call.p /\ s = call.q /\ n = call.n /\ mem = call.mem
  BY DEF CopyInv, StartInv
<1>2. WORD \in Nat /\ WORD # 0 /\ n \in Nat
  BY <1>1, SizesAssumption, CallAndMemory
<1>3. u \in Nat \ {0} /\ n % u = 0
  BY <1>2
<1> QED BY <1>1, <1>2, <1>3, WholeElements

LEMMA StepMemsetStart == ASSUME CopyInv, MemsetStart PROVE CopyInv'
<1>1. /\ pc = "loop" /\ fn = "memset" /\ unit' = (IF Aligned THEN WORD ELSE 1)
      /\ n' = n \div unit' /\ pc' = "rep"
      /\ call' = call /\ mem' = mem /\ d' = d /\ df' = df
  BY DEF MemsetStart, number
<1>2. fn' = fn /\ fn \in BlockFns
  BY <1>1 DEF fn, BlockFns
<1>3. (unit' = WORD /\ n % WORD = 0) \/ unit' = 1
  BY <1>1 DEF Aligned
<1>4. /\ unit' \in Nat \ {0} /\ n' \in Nat /\ n' * unit' = call.n
      /\ d = call.p /\ mem = call.mem
  BY <1>1, <1>2, <1>3, Units
<1>5. call \in Calls /\ call.n \in Nat /\ call.p \in Nat
  BY CallAndMemory
<1>6. MemsetInv'
  <2>1. Filled(call, call.n - call.n) = call.mem
    BY <1>5, NothingYet
  <2>2. call.n \in 0 .. call.n /\ d' = call.p + (call.n - call.n)
    BY <1>1, <1>4, <1>5
  <2>3. \E rest \in 0 .. call'.n :
          /\ rest = n' * unit'
          /\ d' = call'.p + (call'.n - rest) /\ mem' = Filled(call', call'.n - rest)
    BY <1>1, <1>4, <2>1, <2>2
  <2> QED BY <1>4, <2>3 DEF MemsetInv
<1>7. /\ PlacesInv' /\ StrcpyInv' /\ StrcatInv' /\ StrncpyInv' /\ StrlcpyInv'
      /\ StartInv' /\ MoveInv' /\ CopiesRight'
  BY <1>1, <1>2 DEF CopyInv, PlacesInv, StrcpyInv, StrcatInv, StrncpyInv, StrlcpyInv, StartInv,
     MoveInv, CopiesRight, Copies, Moves, BlockFns, Writers
<1> QED BY <1>1, <1>5, <1>6, <1>7 DEF CopyInv

LEMMA StepMemset == ASSUME CopyInv, Memset PROVE CopyInv'
<1>1. /\ pc = "rep" /\ fn = "memset" /\ n > 0
      /\ mem' = [a \in Addr |-> IF a \in d .. d + unit - 1 THEN call.c % 256 ELSE mem[a]]
      /\ d' = d + unit /\ n' = n - 1
      /\ call' = call /\ pc' = pc /\ df' = df /\ unit' = unit
  BY DEF Memset, copying, number
<1>2. fn' = fn
  BY <1>1 DEF fn
<1>3. unit \in Nat \ {0} /\ n \in Nat
  BY <1>1 DEF CopyInv, MemsetInv
<1>4. PICK rest \in 0 .. call.n :
        rest = n * unit /\ d = call.p + (call.n - rest) /\ mem = Filled(call, call.n - rest)
  BY <1>1 DEF CopyInv, MemsetInv
<1>5. call \in Calls /\ call.n \in Nat /\ call.p \in Nat
  BY CallAndMemory
<1>6. n' \in Nat /\ n' * unit' = rest - unit /\ rest >= unit
  BY <1>1, <1>3, <1>4, Elements
<1> DEFINE k == call.n - rest
<1>7. /\ k \in Nat /\ k + unit = call.n - (rest - unit) /\ rest - unit \in 0 .. call.n
      /\ d + unit = call.p + (call.n - (rest - unit))
  BY <1>3, <1>4, <1>5, <1>6
<1>8. d = call.p + k /\ mem = Filled(call, k)
  BY <1>4
<1> HIDE DEF k
<1>9. mem' = Filled(call, k + unit)
  <2>1. mem' = [a \in Addr |-> IF a \in call.p + k .. call.p + k + unit - 1
                               THEN call.c % 256 ELSE Filled(call, k)[a]]
    BY <1>1, <1>8
  <2>2. [a \in Addr |-> IF a \in call.p + k .. call.p + k + unit - 1
                        THEN call.c % 256 ELSE Filled(call, k)[a]] = Filled(call, k + unit)
    BY <1>3, <1>5, <1>7, FillOn
  <2> QED BY <2>1, <2>2
<1>10. MemsetInv'
  <2>1. \E r \in 0 .. call'.n :
          r = n' * unit' /\ d' = call'.p + (call'.n - r) /\ mem' = Filled(call', call'.n - r)
    BY <1>1, <1>6, <1>7, <1>9
  <2> QED BY <1>1, <1>3, <1>6, <2>1 DEF MemsetInv
<1>11. /\ PlacesInv' /\ StrcpyInv' /\ StrcatInv' /\ StrncpyInv' /\ StrlcpyInv'
       /\ StartInv' /\ MoveInv' /\ CopiesRight'
  BY <1>1, <1>2 DEF CopyInv, PlacesInv, StrcpyInv, StrcatInv, StrncpyInv, StrlcpyInv, StartInv,
     MoveInv, CopiesRight, Copies, Moves, BlockFns, Writers
<1> QED BY <1>1, <1>5, <1>10, <1>11 DEF CopyInv

LEMMA StepMemsetEnd == ASSUME CopyInv, MemsetEnd PROVE CopyInv'
<1>1. /\ pc = "rep" /\ fn = "memset" /\ n = 0 /\ mem' = mem
      /\ call' = call /\ pc' = "done" /\ ret' = call.p /\ df' = df
  BY DEF MemsetEnd, Return
<1>2. fn' = fn
  BY <1>1 DEF fn
<1>3. PICK rest \in 0 .. call.n : rest = n * unit /\ mem = Filled(call, call.n - rest)
  BY <1>1 DEF CopyInv, MemsetInv
<1>4. call \in Calls /\ call.n \in Nat /\ unit \in Nat
  BY <1>1, CallAndMemory DEF CopyInv, MemsetInv
<1>5. mem = Filled(call, call.n)
  <2>1. rest = 0
    BY <1>1, <1>3, <1>4
  <2>2. call.n - rest = call.n
    BY <1>4, <2>1
  <2> QED BY <1>3, <2>2
<1>6. ~df
  BY <1>1 DEF CopyInv, PlacesInv, Writers, Moves
<1>7. CopiesRight'
  <2>1. mem' = ExpectedMem' /\ ret' = first'
    BY <1>1, <1>4, <1>5, SameCall, BlockExpected DEF first
  <2> QED BY <1>1, <1>2, <1>6, <2>1 DEF CopiesRight
<1> QED BY <1>1, <1>6, <1>7, AtTheEnd

LEMMA StepMoveStart == ASSUME CopyInv, MoveStart PROVE CopyInv'
<1>1. /\ pc = "loop" /\ Moves /\ unit' = (IF s % WORD = 0 /\ Aligned THEN WORD ELSE 1)
      /\ df' = Overlaps /\ n' = n \div unit' /\ pc' = "rep"
      /\ d' = IF Overlaps THEN d + n - unit' ELSE d
      /\ s' = IF Overlaps THEN s + n - unit' ELSE s
      /\ call' = call /\ mem' = mem
  BY DEF MoveStart, number
<1>2. fn' = fn /\ fn \in BlockFns /\ fn \in {"memmove", "memcpy"}
  BY <1>1 DEF fn, BlockFns, Moves
<1>3. (unit' = WORD /\ n % WORD = 0) \/ unit' = 1
  BY <1>1 DEF Aligned
<1>4. /\ unit' \in Nat \ {0} /\ n' \in Nat /\ n' * unit' = call.n
      /\ d = call.p /\ s = call.q /\ n = call.n /\ mem = call.mem
  BY <1>1, <1>2, <1>3, Units
<1>5. call \in Calls /\ call.n \in Nat /\ call.p \in Nat /\ call.q \in Nat
  BY CallAndMemory
<1>6. df' = Above(call')
  BY <1>1, <1>4 DEF Overlaps, Above
<1>7. /\ Moved(call, call.n, call.n) = mem' /\ Moved(call, 0, call.n - call.n) = mem'
      /\ call.n \in 0 .. call.n
  BY <1>1, <1>4, <1>5, NothingYet
<1>8. IF df' THEN /\ d' = call'.p + call'.n - unit' /\ s' = call'.q + call'.n - unit'
                  /\ mem' = Moved(call', call'.n, call'.n)
             ELSE /\ d' = call'.p + (call'.n - call'.n) /\ s' = call'.q + (call'.n - call'.n)
                  /\ mem' = Moved(call', 0, call'.n - call'.n)
  BY <1>1, <1>4, <1>5, <1>7
<1>9. MoveInv'
  <2>1. call'.n \in 0 .. call'.n /\ call'.n = n' * unit'
    BY <1>1, <1>4, <1>7
  <2> QED BY <1>4, <1>6, <1>8, <2>1 DEF MoveInv
<1>10. /\ PlacesInv' /\ StrcpyInv' /\ StrcatInv' /\ StrncpyInv' /\ StrlcpyInv'
       /\ StartInv' /\ MemsetInv' /\ CopiesRight'
  BY <1>1, <1>2 DEF CopyInv, PlacesInv, StrcpyInv, StrcatInv, StrncpyInv, StrlcpyInv, StartInv,
     MemsetInv, CopiesRight, Copies, Moves, BlockFns, Writers
<1> QED BY <1>1, <1>5, <1>9, <1>10 DEF CopyInv

LEMMA StepMove == ASSUME CopyInv, Move PROVE CopyInv'
<1>1. /\ pc = "rep" /\ Moves /\ n > 0
      /\ mem' = [a \in Addr |-> IF a \in d .. d + unit - 1 THEN mem[s + (a - d)] ELSE mem[a]]
      /\ d' = IF df THEN d - unit ELSE d + unit
      /\ s' = IF df THEN s - unit ELSE s + unit
      /\ n' = n - 1
      /\ call' = call /\ pc' = pc /\ df' = df /\ unit' = unit
  BY DEF Move, copying, number
<1>2. fn' = fn /\ fn \in {"memmove", "memcpy"} /\ call.fn \in {"memmove", "memcpy"}
  BY <1>1 DEF fn, Moves
<1>3. unit \in Nat \ {0} /\ n \in Nat /\ df = Above(call)
  BY <1>1 DEF CopyInv, MoveInv
<1>4. PICK rest \in 0 .. call.n :
        /\ rest = n * unit
        /\ IF df THEN /\ d = call.p + rest - unit /\ s = call.q + rest - unit
                      /\ mem = Moved(call, rest, call.n)
                 ELSE /\ d = call.p + (call.n - rest) /\ s = call.q + (call.n - rest)
                      /\ mem = Moved(call, 0, call.n - rest)
  BY <1>1 DEF CopyInv, MoveInv
<1>5. call \in Calls /\ call.n \in Nat /\ call.p \in Nat /\ call.q \in Nat
  BY CallAndMemory
<1>6. n' \in Nat /\ n' * unit' = rest - unit /\ rest >= unit
  BY <1>1, <1>3, <1>4, Elements
<1>7. rest \in Nat /\ rest <= call.n /\ unit <= rest /\ rest - unit \in 0 .. call.n
  BY <1>3, <1>4, <1>5, <1>6
<1>8. ASSUME df
      PROVE  \E r \in 0 .. call'.n :
               /\ r = n' * unit'
               /\ IF df' THEN /\ d' = call'.p + r - unit' /\ s' = call'.q + r - unit'
                              /\ mem' = Moved(call', r, call'.n)
                         ELSE /\ d' = call'.p + (call'.n - r) /\ s' = call'.q + (call'.n - r)
                              /\ mem' = Moved(call', 0, call'.n - r)
  <2>1. /\ d = call.p + rest - unit /\ s = call.q + rest - unit
        /\ mem = Moved(call, rest, call.n)
    BY <1>4, <1>8
  <2>2. mem' = Moved(call, rest - unit, call.n)
    <3>1. mem' = [a \in Addr |->
                    IF a \in call.p + rest - unit .. call.p + rest - unit + unit - 1
                    THEN Moved(call, rest, call.n)[call.q + rest - unit + (a - (call.p + rest - unit))]
                    ELSE Moved(call, rest, call.n)[a]]
      BY <1>1, <2>1
    <3>2. Above(call)
      BY <1>3, <1>8
    <3>3. [a \in Addr |->
             IF a \in call.p + rest - unit .. call.p + rest - unit + unit - 1
             THEN Moved(call, rest, call.n)[call.q + rest - unit + (a - (call.p + rest - unit))]
             ELSE Moved(call, rest, call.n)[a]] = Moved(call, rest - unit, call.n)
      BY <1>2, <1>3, <1>5, <1>7, <3>2, MoveDown
    <3> QED BY <3>1, <3>3
  <2>3. d' = call.p + (rest - unit) - unit /\ s' = call.q + (rest - unit) - unit
    BY <1>1, <1>3, <1>5, <1>7, <1>8, <2>1
  <2> QED BY <1>1, <1>6, <1>7, <1>8, <2>2, <2>3
<1>9. ASSUME ~df
      PROVE  \E r \in 0 .. call'.n :
               /\ r = n' * unit'
               /\ IF df' THEN /\ d' = call'.p + r - unit' /\ s' = call'.q + r - unit'
                              /\ mem' = Moved(call', r, call'.n)
                         ELSE /\ d' = call'.p + (call'.n - r) /\ s' = call'.q + (call'.n - r)
                              /\ mem' = Moved(call', 0, call'.n - r)
  <2> DEFINE k == call.n - rest
  <2>1. d = call.p + k /\ s = call.q + k /\ mem = Moved(call, 0, k)
    BY <1>4, <1>9
  <2>2. k \in Nat /\ k + unit = call.n - (rest - unit) /\ k + unit <= call.n
    BY <1>3, <1>5, <1>7
  <2> HIDE DEF k
  <2>3. mem' = Moved(call, 0, k + unit)
    <3>1. mem' = [a \in Addr |-> IF a \in call.p + k .. call.p + k + unit - 1
                                 THEN Moved(call, 0, k)[call.q + k + (a - (call.p + k))]
                                 ELSE Moved(call, 0, k)[a]]
      BY <1>1, <2>1
    <3>2. ~Above(call)
      BY <1>3, <1>9
    <3>3. [a \in Addr |-> IF a \in call.p + k .. call.p + k + unit - 1
                          THEN Moved(call, 0, k)[call.q + k + (a - (call.p + k))]
                          ELSE Moved(call, 0, k)[a]] = Moved(call, 0, k + unit)
      BY <1>2, <1>3, <1>5, <2>2, <3>2, MoveUp
    <3> QED BY <3>1, <3>3
  <2>4. d' = call.p + (k + unit) /\ s' = call.q + (k + unit)
    BY <1>1, <1>3, <1>5, <1>9, <2>1, <2>2
  <2> QED BY <1>1, <1>6, <1>7, <1>9, <2>2, <2>3, <2>4
<1>10. \E r \in 0 .. call'.n :
         /\ r = n' * unit'
         /\ IF df' THEN /\ d' = call'.p + r - unit' /\ s' = call'.q + r - unit'
                        /\ mem' = Moved(call', r, call'.n)
                   ELSE /\ d' = call'.p + (call'.n - r) /\ s' = call'.q + (call'.n - r)
                        /\ mem' = Moved(call', 0, call'.n - r)
  BY <1>8, <1>9
<1>11. MoveInv'
  <2>1. unit' \in Nat \ {0} /\ n' \in Nat /\ df' = Above(call')
    BY <1>1, <1>3, <1>6
  <2> QED BY <1>10, <2>1 DEF MoveInv
<1>12. /\ PlacesInv' /\ StrcpyInv' /\ StrcatInv' /\ StrncpyInv' /\ StrlcpyInv'
       /\ StartInv' /\ MemsetInv' /\ CopiesRight'
  BY <1>1, <1>2 DEF CopyInv, PlacesInv, StrcpyInv, StrcatInv, StrncpyInv, StrlcpyInv, StartInv,
     MemsetInv, CopiesRight, Copies, Moves, BlockFns, Writers
<1> QED BY <1>1, <1>5, <1>11, <1>12 DEF CopyInv

LEMMA StepMoveEnd == ASSUME CopyInv, MoveEnd PROVE CopyInv'
<1>1. /\ pc = "rep" /\ Moves /\ n = 0 /\ mem' = mem
      /\ call' = call /\ pc' = "done" /\ ret' = call.p /\ df' = FALSE
  BY DEF MoveEnd, Return
<1>2. fn' = fn
  BY <1>1 DEF fn
<1>3. PICK rest \in 0 .. call.n :
        /\ rest = n * unit
        /\ IF df THEN mem = Moved(call, rest, call.n) ELSE mem = Moved(call, 0, call.n - rest)
  BY <1>1 DEF CopyInv, MoveInv
<1>4. call \in Calls /\ call.n \in Nat /\ unit \in Nat
  BY <1>1, CallAndMemory DEF CopyInv, MoveInv
<1>5. mem = Moved(call, 0, call.n)
  <2>1. rest = 0
    BY <1>1, <1>3, <1>4
  <2>2. call.n - rest = call.n
    BY <1>4, <2>1
  <2> QED BY <1>3, <2>1, <2>2
<1>6. CopiesRight'
  <2>1. mem' = ExpectedMem' /\ ret' = first'
    BY <1>1, <1>4, <1>5, SameCall, BlockExpected DEF first
  <2>2. fn # "strlcpy"
    BY <1>1 DEF Moves
  <2> QED BY <1>1, <1>2, <2>1, <2>2 DEF CopiesRight
<1> QED BY <1>1, <1>6, AtTheEnd

(* The other functions write nothing.                                      *)
LEMMA StepOther ==
  ASSUME CopyInv, Search \/ Found \/ Gobble \/ Sign \/ Prefix \/ Digit \/ EndOfNumber
  PROVE  CopyInv'
<1>1. call' = call
  BY DEF Search, Found, Gobble, Sign, Prefix, Digit, EndOfNumber, Return
<1>2. fn \notin Writers
  <2>1. CASE Search \/ Found \/ Gobble \/ Sign
    <3>1. fn \in Searches \/ fn = "strtol"
      BY <2>1 DEF Search, Found, Gobble, Sign
    <3> QED BY <3>1 DEF Searches, Writers
  <2>2. CASE Prefix \/ Digit \/ EndOfNumber
    <3>1. pc \in {"prefix", "digits"}
      BY <2>2 DEF Prefix, Digit, EndOfNumber
    <3> QED BY <3>1 DEF CopyInv, PlacesInv, Writers, BlockFns
  <2> QED BY <2>1, <2>2
<1> QED BY <1>1, <1>2, NoWriter

-----------------------------------------------------------------------------
(* The copying functions never stray from the path CopyInv describes:      *)
(* what has been written is a prefix (going down, a suffix) of what is to  *)
(* be written, and what is still to be read has not been written over.     *)
THEOREM CopyInvariance == Spec => []CopyInv
<1>1. CopyInv /\ [Next]_vars => CopyInv'
  <2> SUFFICES ASSUME CopyInv, [Next]_vars PROVE CopyInv'
    OBVIOUS
  <2>1. CASE Search \/ Found \/ Gobble \/ Sign \/ Prefix \/ Digit \/ EndOfNumber
    BY <2>1, StepOther
  <2>2. CASE StrcatEnd
    BY <2>2, StepStrcatEnd
  <2>3. CASE StrcatCopy
    BY <2>3, StepStrcatCopy
  <2>4. CASE Strcpy
    BY <2>4, StepStrcpy
  <2>5. CASE StrcpyEnd
    BY <2>5, StepStrcpyEnd
  <2>6. CASE Strncpy
    BY <2>6, StepStrncpy
  <2>7. CASE StrncpyEnd
    BY <2>7, StepStrncpyEnd
  <2>8. CASE Strlcpy
    BY <2>8, StepStrlcpy
  <2>9. CASE StrlcpyEnd
    BY <2>9, StepStrlcpyEnd
  <2>10. CASE MemsetStart
    BY <2>10, StepMemsetStart
  <2>11. CASE Memset
    BY <2>11, StepMemset
  <2>12. CASE MemsetEnd
    BY <2>12, StepMemsetEnd
  <2>13. CASE MoveStart
    BY <2>13, StepMoveStart
  <2>14. CASE Move
    BY <2>14, StepMove
  <2>15. CASE MoveEnd
    BY <2>15, StepMoveEnd
  <2>16. CASE UNCHANGED vars
    <3>1. UNCHANGED << call, mem, d, s, n, unit, df, pc, ret >>
      BY <2>16 DEF vars, pointers, copying, number
    <3>2. call' \in Calls /\ PlacesInv' /\ StartInv' /\ StrcatInv'
      BY <3>1 DEF CopyInv, PlacesInv, StartInv, StrcatInv, fn, Moves
    <3>3. StrcpyInv'
      BY <3>1 DEF CopyInv, StrcpyInv, CopyLoop, Copies, fn
    <3>4. StrncpyInv' /\ StrlcpyInv'
      BY <3>1 DEF CopyInv, StrncpyInv, StrlcpyInv, fn
    <3>5. MemsetInv' /\ MoveInv'
      BY <3>1 DEF CopyInv, MemsetInv, MoveInv, fn, Moves
    <3>6. CopiesRight'
      BY <3>1, SameCall DEF CopyInv, CopiesRight
    <3> QED BY <3>2, <3>3, <3>4, <3>5, <3>6 DEF CopyInv
  <2> QED BY <2>1, <2>2, <2>3, <2>4, <2>5, <2>6, <2>7, <2>8, <2>9, <2>10, <2>11, <2>12, <2>13,
             <2>14, <2>15, <2>16 DEF Next
<1> QED BY InitCopy, <1>1, PTL DEF Spec

(* Whatever the memory, the regions and the size of a word: a copying      *)
(* function of lib/string.c leaves at its destination what was at the      *)
(* source when it was called, also where the two regions of memmove()      *)
(* overlap, changes nothing else, pads and terminates within its size, and *)
(* gives the direction flag back as it found it.                           *)
THEOREM CopiesAreRight == Spec => []CopiesRight
<1>1. CopyInv => CopiesRight
  BY DEF CopyInv
<1> QED BY <1>1, CopyInvariance, PTL

-----------------------------------------------------------------------------
(***************************************************************************)
(* Counting: a set with 0, and with k + 1 when it has k, has every number, *)
(* for the least one it lacked would have a predecessor.                   *)
(***************************************************************************)
LEMMA Counting ==
  ASSUME NEW H, 0 \in H, \A k \in Nat : k \in H => k + 1 \in H
  PROVE  Nat \subseteq H
<1> SUFFICES ASSUME Nat \ H # {} PROVE FALSE
  OBVIOUS
<1>1. PICK m \in Nat \ H : \A o \in Nat \ H : m <= o
  <2>1. Nat \ H \subseteq Nat
    OBVIOUS
  <2> QED BY <2>1, Least
<1>2. m - 1 \in Nat /\ m - 1 \in H /\ m = (m - 1) + 1
  BY <1>1
<1> QED BY <1>1, <1>2

(* g follows step from start, up to n; there is such a g, and only one.    *)
Follows(g, top, start, step) ==
  g[0] = start /\ \A j \in 0 .. top - 1 : g[j + 1] = step[<< j, g[j] >>]

LEMMA OneFollows ==
  ASSUME NEW S, NEW start \in S, NEW step \in [Nat \X S -> S], NEW top \in Nat
  PROVE  \E g \in [0 .. top -> S] : Follows(g, top, start, step)
<1> DEFINE H == {k \in Nat : \E g \in [0 .. k -> S] : Follows(g, k, start, step)}
<1>1. 0 \in H
  <2>1. [j \in 0 .. 0 |-> start] \in [0 .. 0 -> S]
    OBVIOUS
  <2>2. Follows([j \in 0 .. 0 |-> start], 0, start, step)
    BY DEF Follows
  <2> QED BY <2>1, <2>2
<1>2. ASSUME NEW k \in Nat, k \in H
      PROVE  k + 1 \in H
  <2>1. PICK g \in [0 .. k -> S] : Follows(g, k, start, step)
    BY <1>2
  <2> DEFINE h == [j \in 0 .. k + 1 |-> IF j <= k THEN g[j] ELSE step[<< k, g[k] >>]]
  <2>2. h \in [0 .. k + 1 -> S]
    <3>1. \A j \in 0 .. k : g[j] \in S
      BY <2>1
    <3>2. step[<< k, g[k] >>] \in S
      BY <3>1
    <3>3. \A j \in 0 .. k + 1 : j <= k => j \in 0 .. k
      OBVIOUS
    <3> QED BY <3>1, <3>2, <3>3
  <2>3. h[0] = start
    <3>1. 0 \in 0 .. k + 1 /\ 0 <= k
      OBVIOUS
    <3> QED BY <2>1, <3>1 DEF Follows
  <2>4. ASSUME NEW j \in 0 .. k + 1 - 1
        PROVE  h[j + 1] = step[<< j, h[j] >>]
    <3>1. j \in 0 .. k + 1 /\ j + 1 \in 0 .. k + 1 /\ j <= k
      OBVIOUS
    <3>2. CASE j = k
      BY <3>1, <3>2
    <3>3. CASE j # k
      <4>1. j \in 0 .. k - 1 /\ j + 1 <= k
        BY <3>3
      <4>2. g[j + 1] = step[<< j, g[j] >>]
        BY <2>1, <4>1 DEF Follows
      <4> QED BY <3>1, <4>1, <4>2
    <3> QED BY <3>2, <3>3
  <2> HIDE DEF h
  <2>5. Follows(h, k + 1, start, step)
    BY <2>3, <2>4 DEF Follows
  <2>6. k + 1 \in Nat
    OBVIOUS
  <2> QED BY <2>2, <2>5, <2>6
<1>3. top \in H
  <2> HIDE DEF H
  <2>1. \A k \in Nat : k \in H => k + 1 \in H
    BY <1>2
  <2> QED BY <1>1, <2>1, Counting
<1> QED BY <1>3

(***************************************************************************)
(* The recursive definitions of Strings have the values they are written   *)
(* to have: the powers of b, and the number that digits make.              *)
(***************************************************************************)
LEMMA SameFollows ==
  ASSUME NEW start, NEW step, NEW m \in Nat, NEW k \in Nat, m <= k, NEW g, NEW h,
         Follows(g, m, start, step), Follows(h, k, start, step)
  PROVE  g[m] = h[m]
<1> DEFINE H == {i \in Nat : i <= m => g[i] = h[i]}
<1>1. 0 \in H
  BY DEF Follows
<1>2. ASSUME NEW i \in Nat, i \in H
      PROVE  i + 1 \in H
  <2> SUFFICES ASSUME i + 1 <= m PROVE g[i + 1] = h[i + 1]
    OBVIOUS
  <2>1. i \in 0 .. m - 1 /\ i \in 0 .. k - 1 /\ g[i] = h[i]
    BY <1>2
  <2> QED BY <2>1 DEF Follows
<1>3. m \in H
  <2> HIDE DEF H
  <2>1. \A i \in Nat : i \in H => i + 1 \in H
    BY <1>2
  <2> QED BY <1>1, <2>1, Counting
<1> QED BY <1>3

FollowsOn(f, start, step) ==
  f[0] = start /\ \A k \in Nat : f[k + 1] = step[<< k, f[k] >>]

LEMMA RecursionExists ==
  ASSUME NEW S, NEW start \in S, NEW step \in [Nat \X S -> S]
  PROVE  \E f \in [Nat -> S] : FollowsOn(f, start, step)
<1> DEFINE G(k) == CHOOSE g \in [0 .. k -> S] : Follows(g, k, start, step)
           f    == [k \in Nat |-> G(k)[k]]
<1>1. \A k \in Nat : G(k) \in [0 .. k -> S] /\ Follows(G(k), k, start, step)
  BY OneFollows
<1> HIDE DEF G
<1>2. f \in [Nat -> S]
  <2>1. \A k \in Nat : k \in 0 .. k
    OBVIOUS
  <2> QED BY <1>1, <2>1
<1>3. f[0] = start
  BY <1>1 DEF Follows
<1>4. ASSUME NEW k \in Nat
      PROVE  f[k + 1] = step[<< k, f[k] >>]
  <2>1. k + 1 \in Nat /\ k <= k + 1 /\ k \in 0 .. k + 1 - 1
    OBVIOUS
  <2>2. G(k)[k] = G(k + 1)[k]
    BY <1>1, <2>1, SameFollows
  <2>3. G(k + 1)[k + 1] = step[<< k, G(k + 1)[k] >>]
    BY <1>1, <2>1 DEF Follows
  <2> QED BY <2>1, <2>2, <2>3
<1> HIDE DEF f
<1>5. FollowsOn(f, start, step)
  BY <1>3, <1>4 DEF FollowsOn
<1> QED BY <1>2, <1>5

LEMMA Powers ==
  ASSUME NEW b \in Int
  PROVE  /\ Power(b)[0] = 1
         /\ \A k \in Nat : Power(b)[k] \in Int /\ Power(b)[k + 1] = Power(b)[k] * b
<1> DEFINE step  == [x \in Nat \X Int |-> x[2] * b]
           Is(P) == P = [i \in Nat |-> IF i = 0 THEN 1 ELSE P[i - 1] * b]
<1>0. 1 \in Int
  OBVIOUS
<1>1. step \in [Nat \X Int -> Int]
  OBVIOUS
<1>2. PICK f \in [Nat -> Int] : FollowsOn(f, 1, step)
  <2> HIDE DEF step
  <2> QED BY <1>0, <1>1, RecursionExists
<1>3. Is(f)
  <2>1. ASSUME NEW k \in Nat, k # 0
        PROVE  f[k] = f[k - 1] * b
    <3>1. k - 1 \in Nat /\ (k - 1) + 1 = k
      BY <2>1
    <3>2. f[k] = step[<< k - 1, f[k - 1] >>] /\ << k - 1, f[k - 1] >> \in Nat \X Int
      BY <1>2, <3>1 DEF FollowsOn
    <3> QED BY <3>2
  <2> HIDE DEF step
  <2>2. \A k \in Nat : f[k] = IF k = 0 THEN 1 ELSE f[k - 1] * b
    BY <1>2, <2>1 DEF FollowsOn
  <2> QED BY <2>2
<1>4. Power(b) = CHOOSE P : Is(P)
  BY DEF Power
<1>5. Is(Power(b))
  <2> HIDE DEF Is
  <2> QED BY <1>3, <1>4
<1>6. Power(b)[0] = 1
  BY <1>5
<1>7. \A k \in Nat : Power(b)[k + 1] = Power(b)[k] * b
  <2>1. ASSUME NEW k \in Nat
        PROVE  Power(b)[k + 1] = Power(b)[k] * b
    <3>1. k + 1 \in Nat /\ k + 1 # 0 /\ (k + 1) - 1 = k
      OBVIOUS
    <3> HIDE DEF step
    <3> QED BY <1>5, <3>1
  <2> QED BY <2>1
<1> HIDE DEF Is
<1>8. Nat \subseteq {k \in Nat : Power(b)[k] \in Int}
  <2>1. \A k \in Nat : k + 1 \in Nat /\ (Power(b)[k] \in Int => Power(b)[k + 1] \in Int)
    BY <1>7
  <2>2. 0 \in {k \in Nat : Power(b)[k] \in Int}
    BY <1>6
  <2> QED BY <2>1, <2>2, Counting
<1> QED BY <1>6, <1>7, <1>8

(* The sums that Numeral is the last of.                                   *)
Sums(D, b, k) ==
  CHOOSE V : V = [i \in 0 .. k |-> IF i = 0 THEN 0 ELSE V[i - 1] + D[i - 1] * Power(b)[k - i]]

LEMMA SumsAre ==
  ASSUME NEW D, \A i \in Nat : D[i] \in Int, NEW b \in Int, NEW k \in Nat
  PROVE  /\ Numeral(D, b, k) = Sums(D, b, k)[k]
         /\ Sums(D, b, k)[0] = 0
         /\ \A i \in 0 .. k - 1 :
              Sums(D, b, k)[i + 1] = Sums(D, b, k)[i] + D[i] * Power(b)[k - (i + 1)]
<1> DEFINE Is(V) == V = [i \in 0 .. k |-> IF i = 0 THEN 0 ELSE V[i - 1] + D[i - 1] * Power(b)[k - i]]
           step  == [x \in Nat \X Int |->
                       x[2] + IF x[1] < k THEN D[x[1]] * Power(b)[k - (x[1] + 1)] ELSE 0]
<1>0. 0 \in Int
  OBVIOUS
<1>1. step \in [Nat \X Int -> Int]
  <2>1. ASSUME NEW x \in Nat \X Int
        PROVE  x[2] + (IF x[1] < k THEN D[x[1]] * Power(b)[k - (x[1] + 1)] ELSE 0) \in Int
    <3>1. x[1] \in Nat /\ x[2] \in Int /\ D[x[1]] \in Int
      OBVIOUS
    <3>2. CASE x[1] < k
      <4>1. k - (x[1] + 1) \in Nat
        BY <3>1, <3>2
      <4>2. Power(b)[k - (x[1] + 1)] \in Int
        BY <4>1, Powers
      <4> QED BY <3>1, <3>2, <4>2
    <3> QED BY <3>1, <3>2
  <2> QED BY <2>1
<1>2. PICK f \in [0 .. k -> Int] : Follows(f, k, 0, step)
  <2> HIDE DEF step
  <2> QED BY <1>0, <1>1, OneFollows
<1>3. Is(f)
  <2>1. ASSUME NEW i \in 0 .. k, i # 0
        PROVE  f[i] = f[i - 1] + D[i - 1] * Power(b)[k - i]
    <3>1. i - 1 \in 0 .. k - 1 /\ (i - 1) + 1 = i /\ i - 1 < k /\ i - 1 \in 0 .. k /\ i - 1 \in Nat
      BY <2>1
    <3>2. f[i] = step[<< i - 1, f[i - 1] >>]
      BY <1>2, <3>1 DEF Follows
    <3>3. << i - 1, f[i - 1] >> \in Nat \X Int
      BY <1>2, <3>1
    <3> QED BY <3>1, <3>2, <3>3
  <2> HIDE DEF step
  <2>2. \A i \in 0 .. k : f[i] = IF i = 0 THEN 0 ELSE f[i - 1] + D[i - 1] * Power(b)[k - i]
    BY <1>2, <2>1 DEF Follows
  <2> QED BY <2>2
<1>4. Sums(D, b, k) = CHOOSE V : Is(V)
  BY DEF Sums
<1>5. Is(Sums(D, b, k))
  <2> HIDE DEF Is
  <2> QED BY <1>3, <1>4
<1>6. Numeral(D, b, k) = Sums(D, b, k)[k]
  BY DEF Numeral, Sums
<1>7. Sums(D, b, k)[0] = 0
  BY <1>5
<1>8. ASSUME NEW i \in 0 .. k - 1
      PROVE  Sums(D, b, k)[i + 1] = Sums(D, b, k)[i] + D[i] * Power(b)[k - (i + 1)]
  <2>1. i + 1 \in 0 .. k /\ i + 1 # 0 /\ (i + 1) - 1 = i
    OBVIOUS
  <2> HIDE DEF step
  <2> QED BY <1>5, <2>1
<1> QED BY <1>6, <1>7, <1>8

(* A digit more: the number so far counts b times as much.                 *)
LEMMA NextDigit ==
  ASSUME NEW D, \A i \in Nat : D[i] \in Int, NEW b \in Int, NEW k \in Nat
  PROVE  /\ Numeral(D, b, 0) = 0
         /\ Numeral(D, b, k) \in Int
         /\ Numeral(D, b, k + 1) = Numeral(D, b, k) * b + D[k]
<1> DEFINE V == Sums(D, b, k)
           W == Sums(D, b, k + 1)
           H == {i \in Nat : i <= k => V[i] \in Int /\ W[i] = V[i] * b}
<1>1. Numeral(D, b, 0) = 0
  BY SumsAre
<1>2. V[0] = 0 /\ W[0] = 0 /\ Numeral(D, b, k) = V[k] /\ Numeral(D, b, k + 1) = W[k + 1]
  BY SumsAre
<1>3. \A i \in 0 .. k - 1 : V[i + 1] = V[i] + D[i] * Power(b)[k - (i + 1)]
  BY SumsAre
<1>4. \A i \in 0 .. k : W[i + 1] = W[i] + D[i] * Power(b)[(k + 1) - (i + 1)]
  <2>1. k + 1 \in Nat /\ (k + 1) - 1 = k
    OBVIOUS
  <2> HIDE DEF W
  <2>2. \A i \in 0 .. (k + 1) - 1 : W[i + 1] = W[i] + D[i] * Power(b)[(k + 1) - (i + 1)]
    BY <2>1, SumsAre DEF W
  <2> QED BY <2>1, <2>2
<1> HIDE DEF V, W
<1>5. 0 \in H
  BY <1>2
<1>6. ASSUME NEW i \in Nat, i \in H
      PROVE  i + 1 \in H
  <2> SUFFICES ASSUME i + 1 <= k PROVE V[i + 1] \in Int /\ W[i + 1] = V[i + 1] * b
    OBVIOUS
  <2>1. i \in 0 .. k - 1 /\ i \in 0 .. k /\ V[i] \in Int /\ W[i] = V[i] * b /\ D[i] \in Int
    BY <1>6
  <2>2. k - (i + 1) \in Nat /\ (k - (i + 1)) + 1 = (k + 1) - (i + 1)
    OBVIOUS
  <2> DEFINE power == Power(b)[k - (i + 1)]
  <2>3. power \in Int /\ Power(b)[(k + 1) - (i + 1)] = power * b
    BY <2>2, Powers
  <2>4. V[i + 1] = V[i] + D[i] * power /\ W[i + 1] = W[i] + D[i] * (power * b)
    BY <1>3, <1>4, <2>1, <2>3
  <2> HIDE DEF power
  <2>5. (V[i] + D[i] * power) * b = V[i] * b + D[i] * (power * b) /\ V[i] + D[i] * power \in Int
    BY <2>1, <2>3
  <2> QED BY <2>1, <2>4, <2>5
<1>7. k \in H
  <2> HIDE DEF H
  <2>1. \A i \in Nat : i \in H => i + 1 \in H
    BY <1>6
  <2> QED BY <1>5, <2>1, Counting
<1>8. V[k] \in Int /\ W[k] = V[k] * b
  BY <1>7
<1>9. W[k + 1] = W[k] + D[k]
  <2>1. k \in 0 .. k /\ (k + 1) - (k + 1) = 0 /\ D[k] * 1 = D[k]
    OBVIOUS
  <2>2. Power(b)[0] = 1
    BY Powers
  <2> QED BY <1>4, <2>1, <2>2
<1> QED BY <1>1, <1>2, <1>8, <1>9

(* Arithmetic modulo m.                                                    *)
LEMMA Division ==
  ASSUME NEW m \in Nat \ {0}, NEW x \in Int, NEW r, r = x % m, NEW q, q = x \div m
  PROVE  r \in 0 .. m - 1 /\ q \in Int /\ x = m * q + r
  OBVIOUS

LEMMA SameRemainder ==
  ASSUME NEW m \in Nat \ {0}, NEW x \in Int, NEW y \in Int, NEW q \in Int, x = m * q + y
  PROVE  x % m = y % m
<1> DEFINE r == y % m
           v == y \div m
<1>1. r \in 0 .. m - 1 /\ v \in Int /\ y = m * v + r
  BY Division
<1> HIDE DEF r, v
<1>2. q + v \in Int /\ x = m * (q + v) + r
  BY <1>1
<1> DEFINE w == q + v
<1>3. w \in Int /\ x = m * w + r
  BY <1>2
<1> HIDE DEF w
<1>4. (m * w + r) % m = r
  BY <1>1, <1>3
<1> QED BY <1>3, <1>4 DEF r

LEMMA Modular ==
  ASSUME NEW m \in Nat \ {0}, NEW x \in Int, NEW b \in Int, NEW z \in Int
  PROVE  /\ ((x % m) * b + z) % m = (x * b + z) % m
         /\ (x % m) % m = x % m
         /\ (-(x % m)) % m = (-x) % m
<1> DEFINE r == x % m
           u == x \div m
<1>1. r \in Int /\ u \in Int /\ x = m * u + r
  BY Division
<1> HIDE DEF r, u
<1>2. /\ x * b + z \in Int /\ r * b + z \in Int /\ u * b \in Int
      /\ x * b + z = m * (u * b) + (r * b + z)
  BY <1>1
<1>3. (x * b + z) % m = (r * b + z) % m
  BY <1>2, SameRemainder
<1>4. -x \in Int /\ -r \in Int /\ -u \in Int /\ -x = m * (-u) + -r
  BY <1>1
<1>5. (-x) % m = (-r) % m
  BY <1>4, SameRemainder
<1>6. x % m = r % m
  BY <1>1, SameRemainder
<1> QED BY <1>3, <1>5, <1>6 DEF r

-----------------------------------------------------------------------------
(***************************************************************************)
(* A search goes past place k of its strings; what it answers if it stops  *)
(* there.                                                                  *)
(***************************************************************************)
Same(k) == mem0[first + k] = mem0[second + k]

GoesAt(k) ==
  /\ fn \in {"strlen", "strnlen", "strcmp", "strncmp", "strchr", "strfind"} => mem0[first + k] # 0
  /\ fn \in {"strnlen", "strncmp", "memcmp", "memfind"} => k < size
  /\ fn \in {"strcmp", "strncmp", "memcmp"} => Same(k)
  /\ fn \in {"strchr", "strfind", "memfind"} => mem0[first + k] # call.c % 256

AnswerAt(k) ==
  CASE fn \in {"strlen", "strnlen"}  -> k
    [] fn = "strcmp"                 -> DifferenceAt(k)
    [] fn \in {"strncmp", "memcmp"}  -> IF k = size THEN 0 ELSE DifferenceAt(k)
    [] fn = "strchr"                 -> IF mem0[first + k] # 0 THEN first + k ELSE NULL
    [] fn \in {"strfind", "memfind"} -> first + k

StopsAt(k) == ~GoesAt(k) /\ \A j \in 0 .. k - 1 : GoesAt(j)

LEMMA FirstIs ==
  ASSUME NEW K, K \subseteq Int, NEW lim \in Int, NEW m, m \in K \cup {lim},
         m <= lim, \A o \in K : m <= o
  PROVE  FirstOf(K, lim) = m
<1>1. K \cup {lim} \subseteq Int /\ \A o \in K \cup {lim} : m <= o
  OBVIOUS
<1> QED BY <1>1, MinIs DEF FirstOf

(* The string at p: what is known of its length, terminated or not.        *)
LEMMA FirstString ==
  ASSUME call \in Calls, fn \in Searches \ {"memcmp", "memfind"}
  PROVE  /\ Length(first) \in Nat
         /\ \/ fn \in {"strnlen", "strncmp"} /\ ~(Length(first) < size)
            \/ mem0[first + Length(first)] = 0
         /\ \A j \in 0 .. Length(first) - 1 : mem0[first + j] # 0
<1>1. call.p \in Addr /\ call.p \in Nat /\ call.n \in Nat /\ MemSize \in Nat
  BY CallFacts
<1>2. /\ Length(first) \in Nat /\ first + Length(first) <= MemSize
      /\ first + Length(first) = MemSize \/ mem0[first + Length(first)] = 0
      /\ \A j \in 0 .. Length(first) - 1 : mem0[first + j] # 0
  BY <1>1, LengthFacts DEF Length, first
<1>3. IsString(mem0, first) => mem0[first + Length(first)] = 0
  BY <1>1, StringFacts DEF Length, first
<1>4. IsString(mem0, first) \/ (fn \in {"strnlen", "strncmp"} /\ first + size <= MemSize)
  <2>1. GoodCall(call)
    BY CallFacts
  <2>2. /\ fn \in {"strlen", "strcmp", "strchr", "strfind"} => IsString(mem0, first)
        /\ fn \in {"strnlen", "strncmp"} => IsString(mem0, first) \/ first + size <= MemSize
    BY <2>1 DEF GoodCall, fn, mem0, first, size
  <2> QED BY <2>2 DEF Searches
<1>5. first + size <= MemSize /\ first + Length(first) = MemSize => ~(Length(first) < size)
  BY <1>1, <1>2 DEF first, size
<1> QED BY <1>2, <1>3, <1>4, <1>5

LEMMA LengthAnswer ==
  ASSUME call \in Calls, fn \in {"strlen", "strnlen"}, NEW k \in Nat, StopsAt(k)
  PROVE  ExpectedAnswer = k
<1> DEFINE L == Length(first)
<1>1. /\ L \in Nat /\ ((fn = "strnlen" /\ ~(L < size)) \/ mem0[first + L] = 0)
      /\ \A j \in 0 .. L - 1 : mem0[first + j] # 0
  BY FirstString DEF Searches
<1>2. size \in Nat
  BY CallFacts DEF size
<1>3. \A j \in 0 .. k - 1 : mem0[first + j] # 0 /\ (fn = "strnlen" => j < size)
  BY DEF StopsAt, GoesAt
<1>4. mem0[first + k] = 0 \/ (fn = "strnlen" /\ ~(k < size))
  <2>1. CASE fn = "strlen"
    BY <2>1 DEF StopsAt, GoesAt
  <2>2. CASE fn = "strnlen"
    BY <2>2 DEF StopsAt, GoesAt
  <2> QED BY <2>1, <2>2
<1>5. ExpectedAnswer = IF fn = "strlen" THEN L ELSE FirstOf({size}, L)
  BY DEF ExpectedAnswer
<1> HIDE DEF L
<1>6. CASE fn = "strlen"
  <2>1. mem0[first + L] = 0 /\ mem0[first + k] = 0
    BY <1>1, <1>4, <1>6
  <2>2. ~(k < L) /\ ~(L < k)
    BY <1>1, <1>3, <2>1
  <2> QED BY <1>1, <1>5, <1>6, <2>2
<1>7. CASE fn = "strnlen"
  <2>1. k <= size
    <3> SUFFICES ASSUME size < k PROVE FALSE
      BY <1>2
    <3>1. size \in 0 .. k - 1
      BY <1>2
    <3> QED BY <1>2, <1>3, <1>7, <3>1
  <2>2. k <= L
    <3> SUFFICES ASSUME L < k PROVE FALSE
      BY <1>1
    <3>1. L \in 0 .. k - 1 /\ L < size
      BY <1>1, <1>2, <2>1
    <3> QED BY <1>1, <1>3, <3>1
  <2>3. k = L \/ k = size
    BY <1>1, <1>2, <1>4, <2>1, <2>2
  <2>4. {size} \subseteq Int /\ k \in {size} \cup {L} /\ \A o \in {size} : k <= o
    BY <1>2, <2>1, <2>3
  <2>5. FirstOf({size}, L) = k
    BY <1>1, <2>2, <2>4, FirstIs
  <2> QED BY <1>5, <1>7, <2>5
<1> QED BY <1>6, <1>7

(* The first of the places where two strings differ decides, and else lim. *)
LEMMA FirstDiffers ==
  ASSUME NEW lim \in Nat, NEW k \in Nat, k <= lim, \A j \in 0 .. k - 1 : Same(j), k = lim \/ ~Same(k)
  PROVE  /\ FirstOf(Differ(lim), lim) = k
         /\ k = lim => Differ(lim) = {}
         /\ k # lim => Differ(lim) # {} /\ Min(Differ(lim)) = k
<1>1. Differ(lim) \subseteq Int /\ \A o \in Differ(lim) : k <= o
  BY DEF Differ, Same
<1>2. k = lim => Differ(lim) = {}
  BY <1>1 DEF Differ
<1>3. k # lim => k \in Differ(lim)
  BY DEF Differ, Same
<1>4. k \in Differ(lim) \cup {lim}
  BY <1>3
<1>5. k # lim => Min(Differ(lim)) = k
  BY <1>1, <1>3, MinIs
<1>6. FirstOf(Differ(lim), lim) = k
  BY <1>1, <1>4, FirstIs
<1> QED BY <1>2, <1>3, <1>5, <1>6

(* Likewise for the places where the byte c is.                            *)
LEMMA FirstWhere ==
  ASSUME NEW lim \in Nat, NEW k \in Nat, k <= lim,
         \A j \in 0 .. k - 1 : mem0[first + j] # call.c % 256,
         k = lim \/ mem0[first + k] = call.c % 256
  PROVE  /\ FirstOf(Where(lim), lim) = k
         /\ k = lim => Where(lim) = {}
         /\ k # lim => Where(lim) # {} /\ Min(Where(lim)) = k
<1>1. Where(lim) \subseteq Int /\ \A o \in Where(lim) : k <= o
  BY DEF Where
<1>2. k = lim => Where(lim) = {}
  BY <1>1 DEF Where
<1>3. k # lim => k \in Where(lim)
  BY DEF Where
<1>4. k \in Where(lim) \cup {lim}
  BY <1>3
<1>5. k # lim => Min(Where(lim)) = k
  BY <1>1, <1>3, MinIs
<1>6. FirstOf(Where(lim), lim) = k
  <2>1. lim \in Int /\ Where(lim) \subseteq Int /\ \A o \in Where(lim) : k <= o
    BY <1>1
  <2> QED BY <1>4, <2>1, FirstIs
<1> QED BY <1>2, <1>3, <1>5, <1>6

LEMMA CompareAnswer ==
  ASSUME call \in Calls, fn \in {"strcmp", "strncmp"}, NEW k \in Nat, StopsAt(k)
  PROVE  ExpectedAnswer = AnswerAt(k)
<1> DEFINE L == Length(first)
           most == IF fn = "strcmp" THEN L ELSE FirstOf({size}, L)
<1>1. /\ L \in Nat /\ ((fn = "strncmp" /\ ~(L < size)) \/ mem0[first + L] = 0)
      /\ \A j \in 0 .. L - 1 : mem0[first + j] # 0
  BY FirstString DEF Searches
<1>2. size \in Nat
  BY CallFacts DEF size
<1>3. \A j \in 0 .. k - 1 : mem0[first + j] # 0 /\ Same(j) /\ (fn = "strncmp" => j < size)
  BY DEF StopsAt, GoesAt
<1>4. mem0[first + k] = 0 \/ ~Same(k) \/ (fn = "strncmp" /\ ~(k < size))
  <2>1. CASE fn = "strcmp"
    BY <2>1 DEF StopsAt, GoesAt
  <2>2. CASE fn = "strncmp"
    BY <2>2 DEF StopsAt, GoesAt
  <2> QED BY <2>1, <2>2
<1> HIDE DEF L
<1>5. FirstOf({size}, L) = IF size <= L THEN size ELSE L
  <2>1. {size} \cup {L} = {size, L}
    OBVIOUS
  <2> QED BY <1>1, <1>2, <2>1, Lesser DEF FirstOf
<1>6. /\ most \in Nat /\ most <= L /\ (most = L \/ (fn = "strncmp" /\ most = size))
      /\ fn = "strncmp" => most <= size /\ (most = size \/ L < size)
  <2>1. CASE fn = "strcmp"
    <3>1. most = L
      BY <2>1
    <3> HIDE DEF most
    <3> QED BY <1>1, <2>1, <3>1
  <2>2. CASE fn = "strncmp"
    <3>1. most = IF size <= L THEN size ELSE L
      BY <1>5, <2>2
    <3> HIDE DEF most
    <3> QED BY <1>1, <1>2, <2>2, <3>1
  <2> QED BY <2>1, <2>2
<1>7. /\ fn = "strcmp" => ExpectedAnswer = DifferenceAt(FirstOf(Differ(most), most))
      /\ fn = "strncmp" => ExpectedAnswer = IF FirstOf(Differ(most), most) = size THEN 0
                                            ELSE DifferenceAt(FirstOf(Differ(most), most))
  BY DEF ExpectedAnswer, L
<1> HIDE DEF most
<1>8. k <= most
  <2> SUFFICES ASSUME most < k PROVE FALSE
    BY <1>6
  <2>1. most \in 0 .. k - 1
    BY <1>6
  <2>2. mem0[first + most] # 0 /\ (fn = "strncmp" => most < size)
    BY <1>3, <2>1
  <2>3. most = L
    BY <1>2, <1>6, <2>2
  <2>4. fn = "strncmp" => L < size
    BY <2>2, <2>3
  <2> QED BY <1>1, <2>2, <2>3, <2>4
<1>9. k = most \/ ~Same(k)
  <2> SUFFICES ASSUME k < most PROVE ~Same(k)
    BY <1>6, <1>8
  <2>1. k \in 0 .. L - 1 /\ (fn = "strncmp" => k < size)
    BY <1>1, <1>2, <1>6
  <2> QED BY <1>1, <1>4, <2>1
<1>10. FirstOf(Differ(most), most) = k
  BY <1>3, <1>6, <1>8, <1>9, FirstDiffers
<1> QED BY <1>7, <1>10 DEF AnswerAt

LEMMA MemoryAnswer ==
  ASSUME call \in Calls, fn \in {"memcmp", "memfind"}, NEW k \in Nat, StopsAt(k)
  PROVE  ExpectedAnswer = AnswerAt(k)
<1>1. size \in Nat
  BY CallFacts DEF size
<1>2. \A j \in 0 .. k - 1 : j < size
  BY DEF StopsAt, GoesAt
<1>3. k <= size
  <2> SUFFICES ASSUME size < k PROVE FALSE
    BY <1>1
  <2>1. size \in 0 .. k - 1
    BY <1>1
  <2> QED BY <1>1, <1>2, <2>1
<1>4. CASE fn = "memcmp"
  <2>1. (\A j \in 0 .. k - 1 : Same(j)) /\ (k = size \/ ~Same(k))
    BY <1>1, <1>3, <1>4 DEF StopsAt, GoesAt
  <2>2. /\ k = size => Differ(size) = {}
        /\ k # size => Differ(size) # {} /\ Min(Differ(size)) = k
    BY <1>1, <1>3, <2>1, FirstDiffers
  <2>3. ExpectedAnswer = IF Differ(size) = {} THEN 0 ELSE DifferenceAt(Min(Differ(size)))
    BY <1>4 DEF ExpectedAnswer
  <2> QED BY <1>4, <2>2, <2>3 DEF AnswerAt
<1>5. CASE fn = "memfind"
  <2>1. /\ \A j \in 0 .. k - 1 : mem0[first + j] # call.c % 256
        /\ k = size \/ mem0[first + k] = call.c % 256
    BY <1>1, <1>3, <1>5 DEF StopsAt, GoesAt
  <2>2. FirstOf(Where(size), size) = k
    BY <1>1, <1>3, <2>1, FirstWhere
  <2>3. ExpectedAnswer = first + FirstOf(Where(size), size)
    BY <1>5 DEF ExpectedAnswer
  <2> QED BY <1>5, <2>2, <2>3 DEF AnswerAt
<1> QED BY <1>4, <1>5

LEMMA FindAnswer ==
  ASSUME call \in Calls, fn \in {"strchr", "strfind"}, NEW k \in Nat, StopsAt(k)
  PROVE  ExpectedAnswer = AnswerAt(k)
<1> DEFINE L == Length(first)
<1>1. /\ L \in Nat /\ mem0[first + L] = 0
      /\ \A j \in 0 .. L - 1 : mem0[first + j] # 0
  BY FirstString DEF Searches
<1>2. \A j \in 0 .. k - 1 : mem0[first + j] # 0 /\ mem0[first + j] # call.c % 256
  BY DEF StopsAt, GoesAt
<1>3. mem0[first + k] = 0 \/ mem0[first + k] = call.c % 256
  BY DEF StopsAt, GoesAt, Searches
<1>4. /\ fn = "strchr" => ExpectedAnswer = IF Where(L) = {} THEN NULL ELSE first + Min(Where(L))
      /\ fn = "strfind" => ExpectedAnswer = first + FirstOf(Where(L), L)
  BY DEF ExpectedAnswer
<1> HIDE DEF L
<1>5. k <= L
  <2> SUFFICES ASSUME L < k PROVE FALSE
    BY <1>1
  <2>1. L \in 0 .. k - 1
    BY <1>1
  <2> QED BY <1>1, <1>2, <2>1
<1>6. k = L \/ (mem0[first + k] = call.c % 256 /\ mem0[first + k] # 0)
  <2>1. CASE k = L
    BY <2>1
  <2>2. CASE k # L
    <3>1. k \in 0 .. L - 1
      BY <1>1, <1>5, <2>2
    <3>2. mem0[first + k] # 0
      BY <1>1, <3>1
    <3> QED BY <1>3, <3>2
  <2> QED BY <2>1, <2>2
<1>7. /\ FirstOf(Where(L), L) = k
      /\ k = L => Where(L) = {}
      /\ k # L => Where(L) # {} /\ Min(Where(L)) = k
  BY <1>1, <1>2, <1>5, <1>6, FirstWhere
<1> QED BY <1>1, <1>4, <1>6, <1>7 DEF AnswerAt

LEMMA SearchAnswer ==
  ASSUME call \in Calls, fn \in Searches, NEW k \in Nat, StopsAt(k)
  PROVE  ExpectedAnswer = AnswerAt(k)
<1>1. fn \in {"strlen", "strnlen"} => AnswerAt(k) = k
  BY DEF AnswerAt
<1> QED BY <1>1, LengthAnswer, CompareAnswer, MemoryAnswer, FindAnswer DEF Searches

-----------------------------------------------------------------------------
(***************************************************************************)
(* What the searches and strtol() keep to: the places passed all let the   *)
(* search go on; the bytes passed are blanks, a sign, a prefix and digits, *)
(* and val is the number they make so far, as far as a long can hold it.   *)
(***************************************************************************)
End     == second + Length(second)
DigitOf == [i \in Nat |-> Dig(mem0[Digits + i])]

Searching ==
  \E k \in Nat : /\ d = first + k /\ s = second + k /\ n = size - k
                 /\ \A j \in 0 .. k - 1 : GoesAt(j)

Gobbling ==
  /\ s \in second .. End /\ \A k \in second .. s - 1 : mem0[k] \in {32, 9}
  /\ base = size /\ val = 0

Signed ==
  /\ s = DigitAt /\ s \in second .. End
  /\ neg = (mem0[SignAt] = 45)
  /\ base = size /\ val = 0

InDigits ==
  /\ base = Base /\ Base \in 0 .. 36
  /\ neg = (mem0[SignAt] = 45)
  /\ \E j \in Nat : /\ Digits \in Nat /\ s = Digits + j /\ s <= End
                    /\ \A i \in 0 .. j - 1 : DigitOf[i] < Base
                    /\ val = Numeral(DigitOf, Base, j) % 2^LongBits

FindInv ==
  /\ call \in Calls
  /\ pc \in {"prefix", "digits"} => fn = "strtol"
  /\ fn \notin Writers => mem = mem0
  /\ fn \in Searches => Searching
  /\ fn = "strtol" /\ pc = "loop" => Gobbling
  /\ pc = "prefix" => Signed
  /\ pc = "digits" => InDigits
  /\ SearchesRight

LEMMA NumberFacts ==
  ASSUME call \in Calls, fn = "strtol"
  PROVE  /\ second \in Nat /\ End \in Nat /\ second <= End /\ End <= MemSize - 1
         /\ mem0[End] = 0 /\ size \in 0 .. 36 /\ MemSize \in Nat
<1>1. call.q \in Addr /\ call.q \in Nat /\ MemSize \in Nat /\ GoodCall(call)
  BY CallFacts
<1>2. IsString(call.mem, call.q) /\ call.n \in 0 .. 36
  BY <1>1 DEF GoodCall, fn
<1>3. /\ Length(second) \in Nat /\ second + Length(second) \in Addr
      /\ mem0[second + Length(second)] = 0
  BY <1>1, <1>2, StringFacts DEF Length, second, mem0
<1>4. second \in Nat /\ size \in 0 .. 36
  BY <1>1, <1>2 DEF second, size
<1> QED BY <1>1, <1>3, <1>4 DEF End, Addr

LEMMA DigFacts ==
  ASSUME NEW ch
  PROVE  Dig(ch) \in 0 .. 36 /\ Dig(0) = 36 /\ Dig(48) = 0
<1>1. Dig(0) = 36 /\ Dig(48) = 0
  BY DEF Dig
<1>2. CASE ch \in 48 .. 57
  BY <1>2 DEF Dig
<1>3. CASE ch \in 97 .. 122
  BY <1>3 DEF Dig
<1>4. CASE ch \in 65 .. 90
  BY <1>4 DEF Dig
<1>5. CASE ch \notin 48 .. 57 /\ ch \notin 97 .. 122 /\ ch \notin 65 .. 90
  BY <1>5 DEF Dig
<1> QED BY <1>1, <1>2, <1>3, <1>4, <1>5

(* The definitions that speak of the call do not change with the state.    *)
LEMMA SameSearch ==
  ASSUME call' = call
  PROVE  /\ fn' = fn /\ mem0' = mem0 /\ first' = first /\ second' = second /\ size' = size
         /\ \A k \in Nat : GoesAt(k)' <=> GoesAt(k)
         /\ ExpectedAnswer' = ExpectedAnswer
         /\ SignAt' = SignAt /\ DigitAt' = DigitAt /\ Base' = Base /\ Digits' = Digits
         /\ DigitsEnd' = DigitsEnd /\ Value' = Value /\ End' = End /\ DigitOf' = DigitOf
<1>1. fn' = fn /\ mem0' = mem0 /\ first' = first /\ second' = second /\ size' = size
  BY DEF fn, mem0, first, second, size
<1>2. \A k \in Nat : GoesAt(k)' <=> GoesAt(k)
  BY <1>1 DEF GoesAt, Same
<1>3. Length(first)' = Length(first) /\ End' = End
  BY <1>1 DEF Length, End
<1>4. ExpectedAnswer' = ExpectedAnswer
  BY <1>1, <1>3 DEF ExpectedAnswer, FirstOf, Differ, Where, DifferenceAt
<1>5. SignAt' = SignAt /\ DigitAt' = DigitAt
  BY <1>1 DEF SignAt, DigitAt
<1>6. IsHex' = IsHex
  BY <1>1, <1>5 DEF IsHex
<1>7. Base' = Base /\ Digits' = Digits
  BY <1>1, <1>5, <1>6 DEF Base, Digits
<1>8. DigitsEnd' = DigitsEnd
  BY <1>1, <1>7 DEF DigitsEnd
<1>9. Value' = Value /\ DigitOf' = DigitOf
  BY <1>1, <1>7, <1>8 DEF Value, DigitOf
<1> QED BY <1>1, <1>2, <1>3, <1>4, <1>5, <1>7, <1>8, <1>9

LEMMA InitFind == Init => FindInv
<1> SUFFICES ASSUME Init PROVE FindInv
  OBVIOUS
<1>1. /\ call \in Calls /\ mem = mem0 /\ d = first /\ s = second /\ n = size
      /\ val = 0 /\ base = size /\ pc = "loop"
  BY DEF Init, mem0, first, second, size
<1>2. first \in Int /\ second \in Int /\ size \in Int
  BY <1>1, CallFacts DEF first, second, size
<1>3. Searching
  <2>1. d = first + 0 /\ s = second + 0 /\ n = size - 0 /\ \A j \in 0 .. 0 - 1 : GoesAt(j)
    BY <1>1, <1>2
  <2> QED BY <2>1 DEF Searching
<1>4. fn = "strtol" => Gobbling
  BY <1>1, NumberFacts DEF Gobbling
<1> QED BY <1>1, <1>3, <1>4 DEF FindInv, SearchesRight

(* The functions that write are not searching.                             *)
LEMMA NoSearcher ==
  ASSUME FindInv, call' = call, fn \in Writers, pc' \notin {"prefix", "digits"}
  PROVE  FindInv'
<1>1. fn' = fn /\ call' \in Calls
  BY SameSearch DEF FindInv
<1>2. fn \notin Searches /\ fn # "strtol"
  BY DEF Searches, Writers
<1> QED BY <1>1, <1>2 DEF FindInv, SearchesRight

(* What the loop looks at is what GoesAt() says of its place.              *)
LEMMA GoesIs ==
  ASSUME fn \in Searches, mem = mem0, size \in Nat, NEW k \in Nat,
         d = first + k, s = second + k, n = size - k
  PROVE  (Goes <=> GoesAt(k)) /\ (Answer = AnswerAt(k) \/ fn \in {"strlen", "strnlen"})
<1>1. (n > 0 <=> k < size) /\ (n = 0 <=> k = size)
  OBVIOUS
<1>2. CASE fn \in {"strlen", "strnlen"}
  BY <1>1, <1>2 DEF Goes, GoesAt, strlenGoes, strnlenGoes
<1>3. CASE fn \in {"strcmp", "strncmp"}
  <2>1. Goes <=> GoesAt(k)
    BY <1>1, <1>3 DEF Goes, GoesAt, Same, strcmpGoes, strncmpGoes
  <2>2. Answer = AnswerAt(k)
    BY <1>1, <1>3 DEF Answer, AnswerAt, Difference, DifferenceAt
  <2> QED BY <2>1, <2>2
<1>4. CASE fn \in {"strchr", "strfind"}
  <2>1. Goes <=> GoesAt(k)
    BY <1>4 DEF Goes, GoesAt, strchrGoes
  <2>2. Answer = AnswerAt(k)
    BY <1>4 DEF Answer, AnswerAt
  <2> QED BY <2>1, <2>2
<1>5. CASE fn \in {"memcmp", "memfind"}
  <2>1. Goes <=> GoesAt(k)
    BY <1>1, <1>5 DEF Goes, GoesAt, Same, memcmpGoes, memfindGoes
  <2>2. Answer = AnswerAt(k)
    BY <1>1, <1>5 DEF Answer, AnswerAt, Difference, DifferenceAt
  <2> QED BY <2>1, <2>2
<1> QED BY <1>2, <1>3, <1>4, <1>5 DEF Searches

(* Where a search is: the place, and what is known there.                  *)
LEMMA StepSearch == ASSUME FindInv, Search PROVE FindInv'
<1>1. /\ fn \in Searches /\ Goes /\ pc = "loop"
      /\ d' = d + 1 /\ s' = s + 1 /\ n' = n - 1
      /\ call' = call /\ mem' = mem /\ pc' = pc
  BY DEF Search
<1>2. fn \notin Writers /\ fn # "strtol"
  BY <1>1 DEF Searches, Writers
<1>3. call \in Calls /\ mem = mem0
  BY <1>2 DEF FindInv
<1>4. first \in Int /\ second \in Int /\ size \in Nat
  BY <1>3, CallFacts DEF first, second, size
<1>5. PICK k \in Nat : /\ d = first + k /\ s = second + k /\ n = size - k
                       /\ \A j \in 0 .. k - 1 : GoesAt(j)
  BY <1>1 DEF FindInv, Searching
<1>6. GoesAt(k)
  BY <1>1, <1>3, <1>4, <1>5, GoesIs
<1>7. /\ k + 1 \in Nat /\ d' = first + (k + 1) /\ s' = second + (k + 1) /\ n' = size - (k + 1)
      /\ \A j \in 0 .. (k + 1) - 1 : j \in Nat /\ GoesAt(j)
  <2>1. \A j \in 0 .. (k + 1) - 1 : j \in Nat /\ (j \in 0 .. k - 1 \/ j = k)
    OBVIOUS
  <2> QED BY <1>1, <1>4, <1>5, <1>6, <2>1
<1>8. Searching'
  BY <1>1, <1>7, SameSearch DEF Searching
<1>9. fn' = fn /\ mem0' = mem0
  BY <1>1, SameSearch
<1> QED BY <1>1, <1>2, <1>3, <1>8, <1>9 DEF FindInv, SearchesRight

LEMMA StepFound == ASSUME FindInv, Found PROVE FindInv'
<1>1. /\ fn \in Searches /\ ~Goes /\ ret' = Answer /\ pc' = "done"
      /\ d' = d /\ s' = s /\ n' = n /\ call' = call /\ mem' = mem
  BY DEF Found, Return
<1>2. fn \notin Writers /\ fn # "strtol"
  BY <1>1 DEF Searches, Writers
<1>3. call \in Calls /\ mem = mem0
  BY <1>2 DEF FindInv
<1>4. first \in Int /\ second \in Int /\ size \in Nat
  BY <1>3, CallFacts DEF first, second, size
<1>5. PICK k \in Nat : /\ d = first + k /\ s = second + k /\ n = size - k
                       /\ \A j \in 0 .. k - 1 : GoesAt(j)
  BY <1>1 DEF FindInv, Searching
<1>6. StopsAt(k)
  BY <1>1, <1>3, <1>4, <1>5, GoesIs DEF StopsAt
<1>7. ExpectedAnswer = AnswerAt(k)
  BY <1>1, <1>3, <1>6, SearchAnswer
<1>8. Answer = AnswerAt(k)
  <2>1. CASE fn \in {"strlen", "strnlen"}
    <3>1. Answer = d - first /\ AnswerAt(k) = k
      BY <2>1 DEF Answer, AnswerAt, first
    <3> QED BY <1>4, <1>5, <3>1
  <2>2. CASE fn \notin {"strlen", "strnlen"}
    BY <1>1, <1>3, <1>4, <1>5, <2>2, GoesIs
  <2> QED BY <2>1, <2>2
<1>9. fn' = fn /\ mem0' = mem0 /\ ExpectedAnswer' = ExpectedAnswer
  BY <1>1, SameSearch
<1>10. Searching'
  <2>1. \A j \in 0 .. k - 1 : j \in Nat
    OBVIOUS
  <2> QED BY <1>1, <1>5, <2>1, SameSearch DEF Searching
<1>11. SearchesRight'
  BY <1>1, <1>2, <1>3, <1>7, <1>8, <1>9 DEF SearchesRight
<1> QED BY <1>1, <1>2, <1>3, <1>9, <1>10, <1>11 DEF FindInv

LEMMA StepGobble == ASSUME FindInv, Gobble PROVE FindInv'
<1>1. /\ pc = "loop" /\ fn = "strtol" /\ mem[s] \in {32, 9} /\ s' = s + 1
      /\ call' = call /\ mem' = mem /\ pc' = pc /\ val' = val /\ base' = base
  BY DEF Gobble, number
<1>2. fn \notin Writers /\ fn \notin Searches
  BY <1>1 DEF Searches, Writers
<1>3. call \in Calls /\ mem = mem0 /\ Gobbling
  BY <1>1, <1>2 DEF FindInv
<1>4. /\ second \in Nat /\ End \in Nat /\ mem0[End] = 0
  BY <1>1, <1>3, NumberFacts
<1>5. s # End
  BY <1>1, <1>3, <1>4
<1>6. s' \in second .. End /\ \A k \in second .. s' - 1 : mem0[k] \in {32, 9}
  <2>1. s \in second .. End /\ \A k \in second .. s - 1 : mem0[k] \in {32, 9}
    BY <1>3 DEF Gobbling
  <2>2. \A k \in second .. s' - 1 : k \in second .. s - 1 \/ k = s
    BY <1>1, <1>4, <2>1
  <2>3. s' \in second .. End
    BY <1>1, <1>4, <1>5, <2>1
  <2> QED BY <1>1, <1>3, <2>1, <2>2, <2>3
<1>7. fn' = fn /\ mem0' = mem0 /\ second' = second /\ End' = End /\ size' = size
  BY <1>1, SameSearch
<1>8. Gobbling'
  BY <1>1, <1>3, <1>6, <1>7 DEF Gobbling
<1> QED BY <1>1, <1>2, <1>3, <1>7, <1>8 DEF FindInv, SearchesRight

LEMMA StepSign == ASSUME FindInv, Sign PROVE FindInv'
<1>1. /\ pc = "loop" /\ fn = "strtol" /\ mem[s] \notin {32, 9} /\ pc' = "prefix"
      /\ s' = IF mem[s] \in {43, 45} THEN s + 1 ELSE s
      /\ neg' = (mem[s] = 45)
      /\ call' = call /\ mem' = mem /\ val' = val /\ base' = base
  BY DEF Sign
<1>2. fn \notin Writers /\ fn \notin Searches
  BY <1>1 DEF Searches, Writers
<1>3. /\ call \in Calls /\ mem = mem0
      /\ s \in second .. End /\ \A k \in second .. s - 1 : mem0[k] \in {32, 9}
      /\ base = size /\ val = 0
  BY <1>1, <1>2 DEF FindInv, Gobbling
<1>4. /\ second \in Nat /\ End \in Nat /\ mem0[End] = 0 /\ End <= MemSize - 1 /\ MemSize \in Nat
  BY <1>1, <1>3, NumberFacts
<1>5. SignAt = s
  <2> DEFINE T == {k \in second .. MemSize - 1 : mem0[k] \notin {32, 9}}
  <2>1. s \in T /\ T \subseteq Int
    BY <1>1, <1>3, <1>4
  <2>2. ASSUME NEW o \in T
        PROVE  s <= o
    <3>1. o \in second .. MemSize - 1 /\ ~(o \in second .. s - 1)
      BY <1>3, <2>2
    <3> QED BY <1>3, <1>4, <3>1
  <2>3. Min(T) = s
    <3> HIDE DEF T
    <3> QED BY <2>1, <2>2, MinIs
  <2> QED BY <2>3 DEF SignAt
<1>6. DigitAt = s'
  BY <1>1, <1>3, <1>4, <1>5 DEF DigitAt
<1>7. s' \in second .. End
  <2>1. CASE mem[s] \in {43, 45}
    <3>1. s # End
      BY <1>3, <1>4, <2>1
    <3> QED BY <1>1, <1>3, <1>4, <2>1, <3>1
  <2>2. CASE mem[s] \notin {43, 45}
    BY <1>1, <1>3, <2>2
  <2> QED BY <2>1, <2>2
<1>8. /\ fn' = fn /\ mem0' = mem0 /\ second' = second /\ End' = End /\ size' = size
      /\ SignAt' = SignAt /\ DigitAt' = DigitAt
  BY <1>1, SameSearch
<1>9. Signed'
  BY <1>1, <1>3, <1>5, <1>6, <1>7, <1>8 DEF Signed
<1> QED BY <1>1, <1>2, <1>3, <1>8, <1>9 DEF FindInv, SearchesRight

LEMMA DigitsAre == DigitOf \in [Nat -> Int] /\ \A i \in Nat : DigitOf[i] = Dig(mem0[Digits + i])
  BY DigFacts DEF DigitOf

LEMMA StepPrefix == ASSUME FindInv, Prefix PROVE FindInv'
<1>1. /\ pc = "prefix" /\ pc' = "digits"
      /\ call' = call /\ mem' = mem /\ val' = val /\ neg' = neg
  BY DEF Prefix
<1>2. fn = "strtol" /\ fn \notin Writers /\ fn \notin Searches
  BY <1>1 DEF FindInv, Searches, Writers
<1>3. /\ call \in Calls /\ mem = mem0
      /\ s = DigitAt /\ s \in second .. End
      /\ neg = (mem0[SignAt] = 45)
      /\ base = size /\ val = 0
  BY <1>1, <1>2 DEF FindInv, Signed
<1>4. /\ second \in Nat /\ End \in Nat /\ mem0[End] = 0 /\ size \in 0 .. 36
  BY <1>2, <1>3, NumberFacts
<1>5. HexPrefix <=> IsHex
  BY <1>3 DEF HexPrefix, IsHex
<1>6. s \in Nat
  BY <1>3, <1>4
<1> DEFINE Reads(j) == /\ Digits \in Nat /\ s' = Digits + j /\ s' <= End
                       /\ \A i \in 0 .. j - 1 : DigitOf[i] < Base
                       /\ val' = Numeral(DigitOf, Base, j) % 2^LongBits
           Begun == base' = Base /\ Base \in 0 .. 36 /\ (Reads(0) \/ Reads(1))
<1>7. 0 % 2^LongBits = 0
  BY PowerAssumption
<1>8. ASSUME Base \in 0 .. 36
      PROVE  Numeral(DigitOf, Base, 0) = 0 /\ Numeral(DigitOf, Base, 0 + 1) = 0 * Base + DigitOf[0]
  BY <1>8, DigitsAre, NextDigit
<1>9. ASSUME Base \in 0 .. 36, Digits \in Nat, s' = Digits, s' <= End
      PROVE  Reads(0)
  BY <1>1, <1>3, <1>7, <1>8, <1>9
<1>10. ASSUME HexPrefix /\ s' = s + 2 /\ base' = 16
       PROVE  Begun
  <2>1. mem0[s] = 48 /\ mem0[s + 1] = 120 /\ IsHex
    BY <1>3, <1>5, <1>10 DEF HexPrefix
  <2>2. s # End /\ s + 1 # End
    BY <1>4, <2>1
  <2>3. s' <= End
    BY <1>3, <1>4, <1>6, <1>10, <2>2
  <2>4. Base = 16 /\ Digits = s'
    BY <1>3, <1>10, <2>1 DEF Base, Digits
  <2> QED BY <1>6, <1>9, <1>10, <2>3, <2>4
<1>11. ASSUME ~HexPrefix /\ base = 0 /\ mem[s] = 48 /\ s' = s + 1 /\ base' = 8
       PROVE  Begun
  <2>1. mem0[s] = 48 /\ ~IsHex /\ size = 0
    BY <1>3, <1>5, <1>11
  <2>2. s # End
    BY <1>4, <2>1
  <2>3. s' <= End
    BY <1>3, <1>4, <1>6, <1>11, <2>2
  <2>4. Base = 8 /\ Digits = s
    BY <1>3, <1>6, <2>1 DEF Base, Digits
  <2>5. DigitOf[0] = 0
    <3>1. Digits + 0 = s
      BY <1>6, <2>4
    <3> QED BY <2>1, <3>1, DigitsAre, DigFacts
  <2>6. Numeral(DigitOf, Base, 1) = 0
    <3>1. 0 + 1 = 1 /\ 0 * 8 + 0 = 0
      OBVIOUS
    <3> QED BY <1>8, <2>4, <2>5, <3>1
  <2>7. \A i \in 0 .. 1 - 1 : DigitOf[i] < Base
    BY <2>4, <2>5
  <2>8. Reads(1)
    BY <1>1, <1>3, <1>6, <1>7, <1>11, <2>3, <2>4, <2>6, <2>7
  <2> QED BY <1>11, <2>4, <2>8
<1>12. ASSUME base = 0 /\ mem[s] # 48 /\ s' = s /\ base' = 10
       PROVE  Begun
  <2>1. mem0[s] # 48 /\ ~IsHex /\ size = 0
    BY <1>3, <1>12 DEF IsHex
  <2>2. Base = 10 /\ Digits = s
    BY <1>3, <1>6, <2>1 DEF Base, Digits
  <2>3. s' <= End
    BY <1>3, <1>4, <1>12
  <2> QED BY <1>6, <1>9, <1>12, <2>2, <2>3
<1>13. ASSUME ~HexPrefix /\ base # 0 /\ s' = s /\ base' = base
       PROVE  Begun
  <2>1. ~IsHex /\ size # 0
    BY <1>3, <1>5, <1>13
  <2>2. Base = size /\ Digits = s
    BY <1>3, <1>6, <2>1 DEF Base, Digits
  <2>3. s' <= End
    BY <1>3, <1>4, <1>13
  <2> QED BY <1>3, <1>4, <1>6, <1>9, <1>13, <2>2, <2>3
<1>14. Begun
  BY <1>10, <1>11, <1>12, <1>13 DEF Prefix
<1>15. /\ fn' = fn /\ mem0' = mem0 /\ End' = End /\ SignAt' = SignAt
       /\ Base' = Base /\ Digits' = Digits /\ DigitOf' = DigitOf
  BY <1>1, SameSearch
<1>16. InDigits'
  <2>1. PICK j \in Nat : Reads(j)
    BY <1>14
  <2> QED BY <1>1, <1>3, <1>14, <1>15, <2>1 DEF InDigits
<1> QED BY <1>1, <1>2, <1>3, <1>15, <1>16 DEF FindInv, SearchesRight

LEMMA StepDigit == ASSUME FindInv, Digit PROVE FindInv'
<1>1. /\ pc = "digits" /\ Dig(mem[s]) < base /\ s' = s + 1
      /\ val' = (val * base + Dig(mem[s])) % 2^LongBits
      /\ call' = call /\ mem' = mem /\ neg' = neg /\ base' = base /\ pc' = pc
  BY DEF Digit
<1>2. fn = "strtol" /\ fn \notin Writers /\ fn \notin Searches
  BY <1>1 DEF FindInv, Searches, Writers
<1>3. /\ call \in Calls /\ mem = mem0
      /\ base = Base /\ Base \in 0 .. 36
      /\ neg = (mem0[SignAt] = 45)
  BY <1>1, <1>2 DEF FindInv, InDigits
<1>4. PICK j \in Nat : /\ Digits \in Nat /\ s = Digits + j /\ s <= End
                       /\ \A i \in 0 .. j - 1 : DigitOf[i] < Base
                       /\ val = Numeral(DigitOf, Base, j) % 2^LongBits
  BY <1>1 DEF FindInv, InDigits
<1>5. End \in Nat /\ mem0[End] = 0
  BY <1>2, <1>3, NumberFacts
<1>6. DigitOf[j] = Dig(mem[s]) /\ DigitOf[j] \in Int
  BY <1>3, <1>4, DigitsAre
<1>7. s # End
  <2>1. ~(36 < Base)
    BY <1>3
  <2> QED BY <1>1, <1>3, <1>5, <2>1, DigFacts
<1>8. j + 1 \in Nat /\ s' = Digits + (j + 1) /\ s' <= End
  BY <1>1, <1>4, <1>5, <1>7
<1>9. \A i \in 0 .. (j + 1) - 1 : DigitOf[i] < Base
  <2>1. \A i \in 0 .. (j + 1) - 1 : i \in 0 .. j - 1 \/ i = j
    OBVIOUS
  <2> QED BY <1>1, <1>3, <1>4, <1>6, <2>1
<1>10. val' = Numeral(DigitOf, Base, j + 1) % 2^LongBits
  <2> DEFINE V == Numeral(DigitOf, Base, j)
  <2>1. V \in Int /\ Numeral(DigitOf, Base, j + 1) = V * Base + DigitOf[j]
    <3>1. Base \in Int /\ \A i \in Nat : DigitOf[i] \in Int
      BY <1>3, DigitsAre
    <3> QED BY <3>1, NextDigit
  <2>2. val' = ((V % 2^LongBits) * Base + DigitOf[j]) % 2^LongBits
    BY <1>1, <1>3, <1>4, <1>6
  <2> HIDE DEF V
  <2>3. ((V % 2^LongBits) * Base + DigitOf[j]) % 2^LongBits = (V * Base + DigitOf[j]) % 2^LongBits
    <3>1. Base \in Int
      BY <1>3
    <3> QED BY <1>6, <2>1, <3>1, PowerAssumption, Modular
  <2> QED BY <2>1, <2>2, <2>3
<1>11. /\ fn' = fn /\ mem0' = mem0 /\ End' = End /\ SignAt' = SignAt
       /\ Base' = Base /\ Digits' = Digits /\ DigitOf' = DigitOf
  BY <1>1, SameSearch
<1>12. InDigits'
  BY <1>1, <1>3, <1>4, <1>8, <1>9, <1>10, <1>11 DEF InDigits
<1> QED BY <1>1, <1>2, <1>3, <1>11, <1>12 DEF FindInv, SearchesRight

LEMMA SameLong ==
  ASSUME NEW x, NEW y, x % 2^LongBits = y % 2^LongBits
  PROVE  AsLong(x) = AsLong(y)
  BY DEF AsLong

LEMMA StepEndOfNumber == ASSUME FindInv, EndOfNumber PROVE FindInv'
<1>1. /\ pc = "digits" /\ Dig(mem[s]) >= base /\ pc' = "done"
      /\ ret' = AsLong(IF neg THEN -val ELSE val)
      /\ call' = call /\ mem' = mem /\ s' = s
  BY DEF EndOfNumber, Return
<1>2. fn = "strtol" /\ fn \notin Writers /\ fn \notin Searches
  BY <1>1 DEF FindInv, Searches, Writers
<1>3. /\ call \in Calls /\ mem = mem0
      /\ base = Base /\ Base \in 0 .. 36
      /\ neg = (mem0[SignAt] = 45)
  BY <1>1, <1>2 DEF FindInv, InDigits
<1>4. PICK j \in Nat : /\ Digits \in Nat /\ s = Digits + j /\ s <= End
                       /\ \A i \in 0 .. j - 1 : DigitOf[i] < Base
                       /\ val = Numeral(DigitOf, Base, j) % 2^LongBits
  BY <1>1 DEF FindInv, InDigits
<1>5. End \in Nat /\ End <= MemSize - 1 /\ MemSize \in Nat
  BY <1>2, <1>3, NumberFacts
<1>6. DigitsEnd = s
  <2> DEFINE T == {k \in Digits .. MemSize - 1 : Dig(mem0[k]) >= Base}
  <2>1. s \in T /\ T \subseteq Int
    BY <1>1, <1>3, <1>4, <1>5
  <2>2. ASSUME NEW o \in T
        PROVE  s <= o
    <3> SUFFICES ASSUME o < s PROVE FALSE
      BY <1>4, <2>1
    <3>1. o - Digits \in 0 .. j - 1 /\ o - Digits \in Nat /\ Digits + (o - Digits) = o
      BY <1>4, <2>2
    <3>2. Dig(mem0[o]) < Base
      BY <1>4, <3>1, DigitsAre
    <3>3. Dig(mem0[o]) \in Int
      BY DigFacts
    <3> QED BY <1>3, <2>2, <3>2, <3>3
  <2>3. Min(T) = s
    <3> HIDE DEF T
    <3> QED BY <2>1, <2>2, MinIs
  <2> QED BY <2>3 DEF DigitsEnd
<1>7. Value = Numeral(DigitOf, Base, j) /\ Value \in Int
  <2>1. DigitsEnd - Digits = j
    BY <1>4, <1>6
  <2>2. Value = Numeral(DigitOf, Base, j)
    BY <2>1 DEF Value, DigitOf
  <2>3. Numeral(DigitOf, Base, j) \in Int
    BY <1>3, DigitsAre, NextDigit
  <2> QED BY <2>2, <2>3
<1>8. val = Value % 2^LongBits
  BY <1>4, <1>7
<1>9. val % 2^LongBits = Value % 2^LongBits /\ (-val) % 2^LongBits = (-Value) % 2^LongBits
  <2>1. 0 \in Int
    OBVIOUS
  <2> QED BY <1>7, <1>8, <2>1, PowerAssumption, Modular
<1>10. ret' = AsLong(IF mem0[SignAt] = 45 THEN -Value ELSE Value)
  <2>1. AsLong(val) = AsLong(Value) /\ AsLong(-val) = AsLong(-Value)
    BY <1>9, SameLong
  <2> QED BY <1>1, <1>3, <2>1
<1>11. /\ fn' = fn /\ mem0' = mem0 /\ SignAt' = SignAt /\ DigitsEnd' = DigitsEnd /\ Value' = Value
  BY <1>1, SameSearch
<1>12. SearchesRight'
  BY <1>1, <1>2, <1>3, <1>6, <1>10, <1>11 DEF SearchesRight
<1> QED BY <1>1, <1>2, <1>3, <1>11, <1>12 DEF FindInv

-----------------------------------------------------------------------------
(* A search is at a place that all the earlier ones let it come to, and    *)
(* strtol() has read what the parts of a number in C are, up to where it   *)
(* is; none of them has left the memory or written to it.                  *)
THEOREM FindInvariance == Spec => []FindInv
<1>1. FindInv /\ [Next]_vars => FindInv'
  <2> SUFFICES ASSUME FindInv, [Next]_vars PROVE FindInv'
    OBVIOUS
  <2>1. CASE Search
    BY <2>1, StepSearch
  <2>2. CASE Found
    BY <2>2, StepFound
  <2>3. CASE Gobble
    BY <2>3, StepGobble
  <2>4. CASE Sign
    BY <2>4, StepSign
  <2>5. CASE Prefix
    BY <2>5, StepPrefix
  <2>6. CASE Digit
    BY <2>6, StepDigit
  <2>7. CASE EndOfNumber
    BY <2>7, StepEndOfNumber
  <2>8. CASE StrcatEnd \/ StrcatCopy \/ Strcpy \/ StrcpyEnd
    <3>1. fn \in Writers /\ call' = call /\ (pc' = pc \/ pc' \in {"copy", "done"})
      BY <2>8 DEF StrcatEnd, StrcatCopy, Strcpy, StrcpyEnd, Copies, Return, Writers
    <3>2. pc' \notin {"prefix", "digits"}
      BY <3>1 DEF FindInv, Writers
    <3> QED BY <3>1, <3>2, NoSearcher
  <2>9. CASE Strncpy \/ StrncpyEnd \/ Strlcpy \/ StrlcpyEnd
    <3>1. fn \in Writers /\ call' = call /\ (pc' = pc \/ pc' = "done")
      BY <2>9 DEF Strncpy, StrncpyEnd, Strlcpy, StrlcpyEnd, Return, Writers
    <3>2. pc' \notin {"prefix", "digits"}
      BY <3>1 DEF FindInv, Writers
    <3> QED BY <3>1, <3>2, NoSearcher
  <2>10. CASE MemsetStart \/ Memset \/ MemsetEnd \/ MoveStart \/ Move \/ MoveEnd
    <3>1. fn \in Writers /\ call' = call /\ (pc' = pc \/ pc' \in {"rep", "done"})
      BY <2>10 DEF MemsetStart, Memset, MemsetEnd, MoveStart, Move, MoveEnd, Moves, Return, Writers
    <3>2. pc' \notin {"prefix", "digits"}
      BY <3>1 DEF FindInv, Writers
    <3> QED BY <3>1, <3>2, NoSearcher
  <2>11. CASE UNCHANGED vars
    <3>1. UNCHANGED << call, mem, d, s, n, val, neg, base, pc, ret >>
      BY <2>11 DEF vars, pointers, copying, number
    <3>2. /\ fn' = fn /\ mem0' = mem0 /\ first' = first /\ second' = second /\ size' = size
          /\ \A k \in Nat : GoesAt(k)' <=> GoesAt(k)
          /\ End' = End
      BY <3>1, SameSearch
    <3>3. /\ SignAt' = SignAt /\ DigitAt' = DigitAt /\ Base' = Base /\ Digits' = Digits
          /\ DigitOf' = DigitOf /\ DigitsEnd' = DigitsEnd /\ Value' = Value
          /\ ExpectedAnswer' = ExpectedAnswer
      BY <3>1, SameSearch
    <3>4. Searching => Searching'
      <4>1. \A k \in Nat : \A j \in 0 .. k - 1 : j \in Nat
        OBVIOUS
      <4> QED BY <3>1, <3>2, <4>1 DEF Searching
    <3>5. Gobbling' = Gobbling /\ Signed' = Signed /\ InDigits' = InDigits
      BY <3>1, <3>2, <3>3 DEF Gobbling, Signed, InDigits
    <3>6. SearchesRight' = SearchesRight
      BY <3>1, <3>2, <3>3 DEF SearchesRight
    <3> QED BY <3>1, <3>2, <3>4, <3>5, <3>6 DEF FindInv
  <2> QED BY <2>1, <2>2, <2>3, <2>4, <2>5, <2>6, <2>7, <2>8, <2>9, <2>10, <2>11 DEF Next
<1> QED BY InitFind, <1>1, PTL DEF Spec

(* In every memory and for every call that keeps to what the functions     *)
(* demand: strlen() to memfind() answer for the first place that decides,  *)
(* whatever the lengths and the counts, and strtol() gives the number that *)
(* is written there in its base, modulo the width of a long, and its end.  *)
THEOREM SearchesAreRight == Spec => []SearchesRight
<1>1. FindInv => SearchesRight
  BY DEF FindInv
<1> QED BY <1>1, FindInvariance, PTL
=============================================================================
