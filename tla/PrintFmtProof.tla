--------------------------- MODULE PrintFmtProof ----------------------------
(***************************************************************************)
(* vsnprintf() stays in its buffer and in its format, and takes no more    *)
(* arguments than the format asks for: for every format, recognized or     *)
(* not, every width, every argument and every size.  And of a format that  *)
(* is written down from directives, vprintfmt() prints each directive as   *)
(* Directives says that it is meant.                                       *)
(***************************************************************************)
EXTENDS Directives, SequenceTheorems, FiniteSetTheorems, WellFoundedInduction, TLAPS

-----------------------------------------------------------------------------
(* Induction, said of a set: the least number it lacks has a predecessor.  *)
LEMMA Least ==
  ASSUME NEW T, T \subseteq Nat, T # {}
  PROVE  \E m \in T : \A o \in T : m <= o
<1> DEFINE R == {p \in Nat \X Nat : p[1] < p[2]}
<1>1. IsWellFoundedOn(R, Nat)
  BY NatLessThanWellFounded, Zenon DEF OpToRel
<1>2. \A m, o \in T : m <= o \/ << o, m >> \in R
  OBVIOUS
<1> HIDE DEF R
<1>3. \E m \in T : \A o \in T : ~(<< o, m >> \in R)
  BY <1>1, WFMin
<1> QED BY <1>2, <1>3

LEMMA Counting ==
  ASSUME NEW H, 0 \in H, \A k \in Nat : k \in H => k + 1 \in H
  PROVE  Nat \subseteq H
<1> SUFFICES ASSUME Nat \ H # {} PROVE FALSE
  OBVIOUS
<1>1. PICK m \in Nat \ H : \A o \in Nat \ H : m <= o
  <2>1. Nat \ H \subseteq Nat
    OBVIOUS
  <2> QED BY <2>1, Least
<1>2. m - 1 \in Nat /\ m - 1 \in H /\ m = (m - 1) + 1
  BY <1>1
<1> QED BY <1>1, <1>2

(* The greater and the lesser of two numbers, and the greatest of a few.   *)
LEMMA Lesser ==
  ASSUME NEW x \in Int, NEW y \in Int
  PROVE  Min({x, y}) = IF x <= y THEN x ELSE y
<1> DEFINE m == IF x <= y THEN x ELSE y
<1>1. m \in {x, y} /\ \A o \in {x, y} : m <= o
  OBVIOUS
<1>2. \A z \in {x, y} : (\A o \in {x, y} : z <= o) => z = m
  OBVIOUS
<1> HIDE DEF m
<1>3. Min({x, y}) = m
  BY <1>1, <1>2 DEF Min
<1> QED BY <1>3 DEF m

LEMMA Greater ==
  ASSUME NEW x \in Int, NEW y \in Int
  PROVE  Max({x, y}) = IF x >= y THEN x ELSE y
<1> DEFINE m == IF x >= y THEN x ELSE y
<1>1. m \in {x, y} /\ \A o \in {x, y} : m >= o
  OBVIOUS
<1>2. \A z \in {x, y} : (\A o \in {x, y} : z >= o) => z = m
  OBVIOUS
<1> HIDE DEF m
<1>3. Max({x, y}) = m
  BY <1>1, <1>2 DEF Max
<1> QED BY <1>3 DEF m

LEMMA Greatest ==
  ASSUME NEW top \in Nat, NEW T, T \subseteq 1 .. top, T # {}
  PROVE  Max(T) \in T /\ \A o \in T : o <= Max(T)
<1> DEFINE D == {top - o : o \in T}
<1>1. D \subseteq Nat /\ D # {}
  <2>1. \A o \in T : top - o \in Nat
    OBVIOUS
  <2> QED BY <2>1
<1>2. PICK m \in D : \A o \in D : m <= o
  <2> HIDE DEF D
  <2> QED BY <1>1, Least
<1>3. PICK g \in T : m = top - g
  OBVIOUS
<1>4. \A o \in T : g >= o
  <2> TAKE o \in T
  <2>1. top - o \in D
    OBVIOUS
  <2>2. m <= top - o
    BY <1>2, <2>1
  <2>3. o \in Int /\ g \in Int
    OBVIOUS
  <2> QED BY <1>3, <2>2, <2>3
<1>5. \E x \in T : \A y \in T : x >= y
  BY <1>4
<1>6. Max(T) \in T /\ \A y \in T : Max(T) >= y
  BY <1>5 DEF Max
<1>7. \A o \in T : o \in Int
  OBVIOUS
<1> QED BY <1>6, <1>7

-----------------------------------------------------------------------------
(* The first k elements of a sequence, and those of two in a row.          *)
LEMMA FirstOf ==
  ASSUME NEW C, NEW s \in Seq(C), NEW k \in 0 .. Len(s)
  PROVE  /\ SubSeq(s, 1, k) \in Seq(C) /\ Len(SubSeq(s, 1, k)) = k
         /\ \A i \in 1 .. k : SubSeq(s, 1, k)[i] = s[i]
<1>1. k \in Int /\ 1 \in Int /\ k - 1 + 1 = k /\ 0 <= k
  BY LenProperties
<1>2. \A i \in 1 .. k : s[i] \in C
  BY LenProperties, ElementOfSeq
<1>3. /\ SubSeq(s, 1, k) \in Seq(C)
      /\ Len(SubSeq(s, 1, k)) = IF 1 <= k THEN k - 1 + 1 ELSE 0
      /\ \A i \in 1 .. k - 1 + 1 : SubSeq(s, 1, k)[i] = s[1 + i - 1]
  BY <1>1, <1>2, SubSeqProperties
<1>4. \A i \in 1 .. k : 1 + i - 1 = i
  BY <1>1
<1> QED BY <1>1, <1>3, <1>4

LEMMA FirstOfBoth ==
  ASSUME NEW C, NEW o \in Seq(C), NEW s \in Seq(C), NEW b \in 0 .. Len(o), NEW r \in 0 .. Len(s),
         b = Len(o) \/ r = 0
  PROVE  SubSeq(o, 1, b) \o SubSeq(s, 1, r) = SubSeq(o \o s, 1, b + r)
<1> DEFINE p == SubSeq(o, 1, b)
           q == SubSeq(s, 1, r)
           x == p \o q
           y == SubSeq(o \o s, 1, b + r)
<1>1. Len(o) \in Nat /\ Len(s) \in Nat
  BY LenProperties
<1>2. /\ o \o s \in Seq(C) /\ Len(o \o s) = Len(o) + Len(s)
      /\ \A i \in 1 .. Len(o) + Len(s) :
           (o \o s)[i] = IF i <= Len(o) THEN o[i] ELSE s[i - Len(o)]
  BY ConcatProperties
<1>3. p \in Seq(C) /\ Len(p) = b /\ \A i \in 1 .. b : p[i] = o[i]
  BY FirstOf
<1>4. q \in Seq(C) /\ Len(q) = r /\ \A i \in 1 .. r : q[i] = s[i]
  BY FirstOf
<1> HIDE DEF p, q
<1>5. /\ x \in Seq(C) /\ Len(x) = b + r
      /\ \A i \in 1 .. b + r : x[i] = IF i <= b THEN p[i] ELSE q[i - b]
  BY <1>3, <1>4, ConcatProperties
<1>6. b + r \in 0 .. Len(o \o s)
  BY <1>1, <1>2
<1>7. y \in Seq(C) /\ Len(y) = b + r /\ \A i \in 1 .. b + r : y[i] = (o \o s)[i]
  BY <1>2, <1>6, FirstOf
<1> HIDE DEF x, y
<1>8. ASSUME NEW i \in 1 .. b + r
      PROVE  x[i] = y[i]
  <2>1. i \in 1 .. Len(o) + Len(s)
    BY <1>1
  <2>2. CASE i <= b
    <3>1. i <= Len(o) /\ i \in 1 .. b
      BY <1>1, <2>2
    <3> QED BY <1>2, <1>3, <1>5, <1>7, <2>1, <2>2, <3>1
  <2>3. CASE ~(i <= b)
    <3>1. b = Len(o) /\ i - b \in 1 .. r
      BY <1>1, <2>3
    <3> QED BY <1>2, <1>4, <1>5, <1>7, <2>1, <2>3, <3>1
  <2> QED BY <2>2, <2>3
<1>9. x = y
  BY <1>5, <1>7, <1>8, SeqEqual
<1> QED BY <1>9 DEF x, y, p, q

(* What is stored with room for k, of a characters and then of c more.      *)
LEMMA CutOnce ==
  ASSUME NEW a \in Nat, NEW k \in Nat
  PROVE  /\ Min({a, k}) \in 0 .. a /\ k - Min({a, k}) \in Nat
         /\ Min({a, k}) = a \/ k - Min({a, k}) = 0
  BY Lesser

LEMMA Cuts ==
  ASSUME NEW a \in Nat, NEW c \in Nat, NEW k \in Nat
  PROVE  LET b == Min({a, k})
             r == Min({c, Max({0, k - b})})
         IN  b \in 0 .. a /\ r \in 0 .. c /\ (b = a \/ r = 0) /\ b + r = Min({a + c, k})
<1> DEFINE b == Min({a, k})
           r == Min({c, Max({0, k - b})})
           t == Min({a + c, k})
<1>1. b = (IF a <= k THEN a ELSE k) /\ t = IF a + c <= k THEN a + c ELSE k
  BY Lesser
<1>2. b \in 0 .. a /\ k - b \in Nat /\ (b = a \/ k - b = 0)
  BY CutOnce
<1> HIDE DEF b, t
<1>3. Max({0, k - b}) = k - b
  BY <1>2, Greater
<1>4. r = IF c <= k - b THEN c ELSE k - b
  BY <1>2, <1>3, Lesser
<1> HIDE DEF r
<1>5. r \in 0 .. c /\ (b = a \/ r = 0)
  BY <1>2, <1>4
<1>6. b + r = t
  BY <1>1, <1>2, <1>4
<1> QED BY <1>2, <1>5, <1>6 DEF b, r, t

(* The characters of sprintputch(): what is stored is the first n - 1 of   *)
(* what is put, so far and after one more piece.                           *)
LEMMA PutStores ==
  ASSUME n \in Int, n >= 1, NEW C, out \in Seq(C), NEW s \in Seq(C),
         buf = SubSeq(out, 1, Min({Len(out), n - 1}))
  PROVE  buf \o Storable(s) = SubSeq(out \o s, 1, Min({Len(out \o s), n - 1}))
<1> DEFINE k == n - 1
           b == Min({Len(out), k})
           r == Min({Len(s), Max({0, k - b})})
<1>1. Len(out) \in Nat /\ Len(s) \in Nat /\ Len(out \o s) = Len(out) + Len(s)
  BY ConcatProperties, LenProperties
<1>2. k \in Nat /\ buf = SubSeq(out, 1, b)
  <2>1. n - 1 \in Nat
    OBVIOUS
  <2> QED BY <2>1
<1>3. Storable(s) = SubSeq(s, 1, Min({Len(s), Max({0, k - Len(buf)})}))
  BY DEF Storable
<1> HIDE DEF k
<1>4. /\ b \in 0 .. Len(out) /\ r \in 0 .. Len(s) /\ (b = Len(out) \/ r = 0)
      /\ b + r = Min({Len(out) + Len(s), k})
  BY <1>1, <1>2, Cuts, ZenonT(60)
<1> HIDE DEF b, r
<1>5. Len(buf) = b
  <2>1. b \in 0 .. Len(out)
    BY <1>4
  <2>2. Len(SubSeq(out, 1, b)) = b
    BY <2>1, FirstOf
  <2> QED BY <1>2, <2>2
<1>6. Storable(s) = SubSeq(s, 1, r)
  BY <1>3, <1>5 DEF r
<1>7. buf \o Storable(s) = SubSeq(out \o s, 1, b + r)
  <2>1. b \in 0 .. Len(out) /\ r \in 0 .. Len(s) /\ (b = Len(out) \/ r = 0)
    BY <1>4
  <2>2. SubSeq(out, 1, b) \o SubSeq(s, 1, r) = SubSeq(out \o s, 1, b + r)
    BY <2>1, FirstOfBoth
  <2> QED BY <1>2, <1>6, <2>2
<1> QED BY <1>1, <1>4, <1>7 DEF k

-----------------------------------------------------------------------------
(***************************************************************************)
(* printnum() calls itself with a smaller number, so that the recursive    *)
(* definition of its digits has a solution, and every solution is made of  *)
(* characters.                                                             *)
(***************************************************************************)
DigitsFrom(g, base, k) ==
  IF k >= base THEN Append(g[k \div base], digits[(k % base) + 1]) ELSE << digits[k + 1] >>

LEMMA FewerDigits ==
  ASSUME NEW base \in {8, 10, 16}, NEW k \in Nat
  PROVE  /\ (k % base) + 1 \in 1 .. 16
         /\ k < base => k + 1 \in 1 .. 16
         /\ k >= base => k \div base \in 0 .. k - 1
<1>1. CASE base = 8
  BY <1>1
<1>2. CASE base = 10
  BY <1>2
<1>3. CASE base = 16
  BY <1>3
<1> QED BY <1>1, <1>2, <1>3

LEMMA DigitsStep ==
  ASSUME NEW base \in {8, 10, 16}, NEW k \in Nat, NEW C, \A i \in 1 .. 16 : digits[i] \in C,
         NEW g, \A j \in 0 .. k - 1 : g[j] \in Seq(C)
  PROVE  DigitsFrom(g, base, k) \in Seq(C)
<1>1. CASE k >= base
  <2>1. g[k \div base] \in Seq(C) /\ digits[(k % base) + 1] \in C
    BY <1>1, FewerDigits
  <2> QED BY <1>1, <2>1, AppendProperties DEF DigitsFrom
<1>2. CASE ~(k >= base)
  <2>1. base \in Nat
    OBVIOUS
  <2>2. k + 1 \in 1 .. 16
    <3>1. k < base
      BY <1>2, <2>1
    <3> QED BY <3>1, FewerDigits
  <2>3. digits[k + 1] \in C
    BY <2>2
  <2> QED BY <1>2, <2>3 DEF DigitsFrom
<1> QED BY <1>1, <1>2

Solves(g, top, base) == \A k \in 0 .. top : g[k] = DigitsFrom(g, base, k)

LEMMA DigitsExist ==
  ASSUME NEW base \in {8, 10, 16}, NEW C, \A i \in 1 .. 16 : digits[i] \in C, NEW top \in Nat
  PROVE  \E g \in [0 .. top -> Seq(C)] : Solves(g, top, base)
<1> DEFINE H == {m \in Nat : \E g \in [0 .. m -> Seq(C)] : Solves(g, m, base)}
<1>1. 0 \in H
  <2> DEFINE g == [k \in 0 .. 0 |-> DigitsFrom(<< >>, base, 0)]
  <2>1. DigitsFrom(<< >>, base, 0) \in Seq(C)
    <3>1. \A j \in 0 .. 0 - 1 : << >>[j] \in Seq(C)
      OBVIOUS
    <3> QED BY <3>1, DigitsStep
  <2>2. DigitsFrom(<< >>, base, 0) = DigitsFrom(g, base, 0)
    BY DEF DigitsFrom
  <2>3. g \in [0 .. 0 -> Seq(C)] /\ g[0] = DigitsFrom(g, base, 0)
    BY <2>1, <2>2
  <2> HIDE DEF g
  <2>4. Solves(g, 0, base)
    BY <2>3 DEF Solves
  <2> QED BY <2>3, <2>4
<1>2. ASSUME NEW m \in Nat, m \in H
      PROVE  m + 1 \in H
  <2>1. PICK g \in [0 .. m -> Seq(C)] : Solves(g, m, base)
    BY <1>2
  <2> DEFINE new == DigitsFrom(g, base, m + 1)
             h   == [k \in 0 .. m + 1 |-> IF k <= m THEN g[k] ELSE new]
  <2>2. \A k \in 0 .. m : g[k] \in Seq(C)
    BY <2>1
  <2>3. new \in Seq(C)
    <3> DEFINE k == m + 1
    <3>1. k \in Nat /\ 0 .. k - 1 = 0 .. m
      OBVIOUS
    <3> HIDE DEF k
    <3>2. \A j \in 0 .. k - 1 : g[j] \in Seq(C)
      BY <2>2, <3>1
    <3>3. DigitsFrom(g, base, k) \in Seq(C)
      BY <3>1, <3>2, DigitsStep
    <3> QED BY <3>3 DEF k
  <2> HIDE DEF new
  <2>4. /\ \A k \in 0 .. m : k \in 0 .. m + 1 /\ k <= m
        /\ \A k \in 0 .. m + 1 : k <= m => k \in 0 .. m
    OBVIOUS
  <2>5. h \in [0 .. m + 1 -> Seq(C)]
    BY <2>2, <2>3, <2>4
  <2>6. \A k \in 0 .. m : h[k] = g[k]
    BY <2>4
  <2>7. h[m + 1] = new
    OBVIOUS
  <2> HIDE DEF h
  <2>8. ASSUME NEW k \in 0 .. m + 1
        PROVE  DigitsFrom(h, base, k) = DigitsFrom(g, base, k)
    <3>1. CASE k >= base
      <4>1. k \in Nat /\ k \div base \in 0 .. m
        <5>1. k \in Nat
          OBVIOUS
        <5>2. k \div base \in 0 .. k - 1
          BY <3>1, <5>1, FewerDigits
        <5> QED BY <5>2
      <4> QED BY <2>6, <4>1 DEF DigitsFrom
    <3>2. CASE ~(k >= base)
      BY <3>2 DEF DigitsFrom
    <3> QED BY <3>1, <3>2
  <2>9. Solves(h, m + 1, base)
    <3> SUFFICES ASSUME NEW k \in 0 .. m + 1
                 PROVE  h[k] = DigitsFrom(h, base, k)
      BY DEF Solves
    <3>1. CASE k <= m
      BY <2>1, <2>4, <2>6, <2>8, <3>1 DEF Solves
    <3>2. CASE ~(k <= m)
      <4>1. k = m + 1
        BY <3>2
      <4> QED BY <2>7, <2>8, <4>1 DEF new
    <3> QED BY <3>1, <3>2
  <2>10. m + 1 \in Nat
    OBVIOUS
  <2> QED BY <2>5, <2>9, <2>10
<1>3. top \in H
  <2> HIDE DEF H
  <2>1. \A k \in Nat : k \in H => k + 1 \in H
    BY <1>2
  <2> QED BY <1>1, <2>1, Counting
<1> QED BY <1>3

(* Every number that is printed fits an unsigned long long.                *)
Unsigned == 0 .. 2 ^ LongLongBits - 1

LEMMA DigitsRecursion ==
  ASSUME NEW base \in {8, 10, 16}
  PROVE  \A num \in Unsigned : DigitsOf[base][num] = DigitsFrom(DigitsOf[base], base, num)
<1> DEFINE S     == Unsigned
           top   == 2 ^ LongLongBits - 1
           Is(d) == d = [k \in S |-> IF k >= base
                                     THEN Append(d[k \div base], digits[(k % base) + 1])
                                     ELSE << digits[k + 1] >>]
<1>1. top \in Nat
  BY PowerAssumption
<1>2. DigitsOf[base] = CHOOSE d : Is(d)
  BY DEF DigitsOf, Unsigned
<1>3. \A d : Is(d) <=> d = [k \in S |-> DigitsFrom(d, base, k)]
  BY DEF DigitsFrom
<1>4. S = 0 .. top
  BY DEF Unsigned
<1> HIDE DEF Is, S, top
<1>5. \E d : Is(d)
  <2>1. PICK g \in [0 .. top -> Seq(Chars)] : Solves(g, top, base)
    <3>1. \A i \in 1 .. 16 : digits[i] \in Chars
      BY CharsAssumption DEF Named
    <3> QED BY <1>1, <3>1, DigitsExist
  <2>2. g = [k \in S |-> DigitsFrom(g, base, k)]
    BY <2>1, <1>4 DEF Solves
  <2> QED BY <1>3, <2>2
<1> DEFINE d == DigitsOf[base]
<1>6. d = [k \in S |-> DigitsFrom(d, base, k)]
  BY <1>2, <1>3, <1>5
<1> HIDE DEF d
<1>7. \A k \in S : d[k] = DigitsFrom(d, base, k)
  BY <1>6
<1> QED BY <1>7 DEF d, S

LEMMA DigitsType ==
  ASSUME NEW base \in {8, 10, 16}, NEW C, \A i \in 1 .. 16 : digits[i] \in C, NEW num \in Unsigned
  PROVE  DigitsOf[base][num] \in Seq(C)
<1> DEFINE S   == Unsigned
           top == 2 ^ LongLongBits - 1
           d   == DigitsOf[base]
<1>1. top \in Nat
  BY PowerAssumption
<1>2. S = 0 .. top
  BY DEF Unsigned
<1>3. \A k \in S : d[k] = DigitsFrom(d, base, k)
  BY DigitsRecursion
<1> HIDE DEF S, top, d
<1> DEFINE H == {m \in Nat : \A k \in S : k <= m => d[k] \in Seq(C)}
<1>4. ASSUME NEW m \in S, \A j \in 0 .. m - 1 : d[j] \in Seq(C)
      PROVE  d[m] \in Seq(C)
  <2>1. m \in Nat
    BY <1>1, <1>2
  <2> QED BY <1>3, <1>4, <2>1, DigitsStep, SMTT(30)
<1>5. 0 \in H
  <2>1. ASSUME NEW k \in S, k <= 0 PROVE d[k] \in Seq(C)
    <3>1. k = 0
      BY <1>1, <1>2, <2>1
    <3>2. \A j \in 0 .. k - 1 : d[j] \in Seq(C)
      BY <3>1
    <3> QED BY <1>4, <3>2
  <2> QED BY <2>1
<1>6. ASSUME NEW m \in Nat, m \in H
       PROVE  m + 1 \in H
  <2>1. ASSUME NEW k \in S, k <= m + 1
        PROVE  d[k] \in Seq(C)
    <3>1. \A j \in 0 .. k - 1 : j \in S /\ j <= m
      BY <1>1, <1>2, <2>1
    <3>2. \A j \in 0 .. k - 1 : d[j] \in Seq(C)
      BY <1>6, <3>1
    <3> QED BY <1>4, <3>2
  <2> QED BY <2>1
<1>7. num \in Nat /\ num \in S
  BY <1>1, <1>2 DEF S
<1>8. num \in H
  <2> HIDE DEF H
  <2>1. \A k \in Nat : k \in H => k + 1 \in H
    BY <1>6
  <2> QED BY <1>5, <1>7, <2>1, Counting
<1>9. num <= num
  BY <1>7
<1> QED BY <1>7, <1>8, <1>9 DEF d

-----------------------------------------------------------------------------
(* Where in a format the escapes are.                                      *)
InsideFrom(g, f, k) == k > 0 /\ IF g[k - 1] THEN f[k] \in Going ELSE f[k] = "%"

LEMMA InsideExists ==
  ASSUME NEW f, NEW top \in Nat
  PROVE  \E g : g = [k \in 0 .. top |-> InsideFrom(g, f, k)]
<1> DEFINE Is(g, m) == \A k \in 0 .. m : g[k] = InsideFrom(g, f, k)
           H == {m \in Nat : \E g : Is(g, m)}
<1>1. 0 \in H
  <2> DEFINE g == [k \in {0} |-> FALSE]
  <2>1. ASSUME NEW k \in 0 .. 0
        PROVE  g[k] = InsideFrom(g, f, k)
    <3>1. k = 0 /\ ~(k > 0)
      OBVIOUS
    <3>2. g[k] = FALSE
      BY <3>1
    <3>3. InsideFrom(g, f, k) = FALSE
      BY <3>1 DEF InsideFrom
    <3> QED BY <3>2, <3>3
  <2> HIDE DEF g
  <2>2. Is(g, 0)
    BY <2>1
  <2> QED BY <2>2
<1>2. ASSUME NEW m \in Nat, m \in H
      PROVE  m + 1 \in H
  <2>1. PICK g : Is(g, m)
    BY <1>2
  <2> DEFINE new == InsideFrom(g, f, m + 1)
             h   == [k \in 0 .. m + 1 |-> IF k <= m THEN g[k] ELSE new]
  <2>2. \A k \in 0 .. m : k \in 0 .. m + 1 /\ k <= m
    OBVIOUS
  <2>3. /\ \A k \in 0 .. m : h[k] = g[k]
        /\ h[m + 1] = new
    BY <2>2
  <2> HIDE DEF h, new
  <2>4. ASSUME NEW k \in 0 .. m + 1
        PROVE  InsideFrom(h, f, k) = InsideFrom(g, f, k)
    <3>1. CASE k > 0
      <4>1. k - 1 \in 0 .. m
        BY <3>1
      <4> QED BY <2>3, <4>1 DEF InsideFrom
    <3>2. CASE ~(k > 0)
      BY <3>2 DEF InsideFrom
    <3> QED BY <3>1, <3>2
  <2>5. ASSUME NEW k \in 0 .. m + 1
        PROVE  h[k] = InsideFrom(h, f, k)
    <3>1. CASE k <= m
      <4>1. k \in 0 .. m
        BY <3>1
      <4> QED BY <2>1, <2>3, <2>4, <4>1
    <3>2. CASE ~(k <= m)
      <4>1. k = m + 1
        BY <3>2
      <4> QED BY <2>3, <2>4, <4>1 DEF new
    <3> QED BY <3>1, <3>2
  <2>6. m + 1 \in Nat /\ Is(h, m + 1)
    BY <2>5
  <2> QED BY <2>6
<1>3. top \in H
  <2> HIDE DEF H
  <2>1. \A k \in Nat : k \in H => k + 1 \in H
    BY <1>2
  <2> QED BY <1>1, <2>1, Counting
<1>4. PICK g : Is(g, top)
  BY <1>3
<1> DEFINE h == [k \in 0 .. top |-> g[k]]
<1>5. \A k \in 0 .. top : h[k] = g[k]
  OBVIOUS
<1>6. \A k \in 0 .. top : InsideFrom(h, f, k) = InsideFrom(g, f, k)
  <2> HIDE DEF h
  <2> TAKE k \in 0 .. top
  <2>1. CASE k > 0
    <3>1. k - 1 \in 0 .. top
      BY <2>1
    <3> QED BY <1>5, <3>1 DEF InsideFrom
  <2>2. CASE ~(k > 0)
    BY <2>2 DEF InsideFrom
  <2> QED BY <2>1, <2>2
<1>7. h = [k \in 0 .. top |-> InsideFrom(h, f, k)]
  BY <1>4, <1>6
<1> QED BY <1>7

LEMMA InsideIs ==
  ASSUME NEW f, Len(f) \in Nat
  PROVE  /\ ~Inside(f)[0]
         /\ \A k \in 0 .. Len(f) - 1 :
              Inside(f)[k + 1] <=> IF Inside(f)[k] THEN f[k + 1] \in Going ELSE f[k + 1] = "%"
<1> DEFINE Is(g) == g = [k \in 0 .. Len(f) |-> k > 0 /\ IF g[k - 1] THEN f[k] \in Going
                                                        ELSE f[k] = "%"]
           i == Inside(f)
<1>1. i = CHOOSE g : Is(g)
  BY DEF Inside
<1>2. \A g : Is(g) <=> g = [k \in 0 .. Len(f) |-> InsideFrom(g, f, k)]
  BY DEF InsideFrom
<1> HIDE DEF Is, i
<1>3. \E g : Is(g)
  BY <1>2, InsideExists
<1>4. i = [k \in 0 .. Len(f) |-> InsideFrom(i, f, k)]
  <2>1. Is(i)
    BY <1>1, <1>3
  <2> QED BY <1>2, <2>1
<1>5. \A k \in 0 .. Len(f) : i[k] = InsideFrom(i, f, k)
  BY <1>4
<1>6. ~i[0]
  <2>1. 0 \in 0 .. Len(f) /\ ~(0 > 0)
    OBVIOUS
  <2>2. i[0] = InsideFrom(i, f, 0)
    BY <1>5, <2>1
  <2> QED BY <2>1, <2>2 DEF InsideFrom
<1>7. ASSUME NEW k \in 0 .. Len(f) - 1
      PROVE  i[k + 1] <=> IF i[k] THEN f[k + 1] \in Going ELSE f[k + 1] = "%"
  <2>1. k + 1 \in 0 .. Len(f) /\ k + 1 > 0 /\ (k + 1) - 1 = k
    OBVIOUS
  <2> QED BY <1>5, <2>1 DEF InsideFrom
<1> QED BY <1>6, <1>7 DEF i

(* One more character takes one more argument, if it takes any.            *)
TakersTo(f, m) == Takers(f) \cap 1 .. m

LEMMA TakersCount ==
  ASSUME NEW f, Len(f) \in Nat
  PROVE  /\ Cardinality(TakersTo(f, 0)) = 0
         /\ \A m \in 0 .. Len(f) :
              /\ Cardinality(TakersTo(f, m)) \in Nat
               /\ Cardinality(TakersTo(f, m)) <= Cardinality(Takers(f))
         /\ \A m \in 0 .. Len(f) - 1 :
              Cardinality(TakersTo(f, m + 1))
                = Cardinality(TakersTo(f, m)) + IF m + 1 \in Takers(f) THEN 1 ELSE 0
<1>1. IsFiniteSet(Takers(f))
  <2>1. IsFiniteSet(1 .. Len(f))
    BY FS_Interval
  <2>2. Takers(f) \in SUBSET (1 .. Len(f))
    BY DEF Takers
  <2> QED BY <2>1, <2>2, FS_Subset
<1>2. \A m : IsFiniteSet(TakersTo(f, m)) /\ Cardinality(TakersTo(f, m)) <= Cardinality(Takers(f))
  <2> TAKE m
  <2>1. TakersTo(f, m) \in SUBSET Takers(f)
    BY DEF TakersTo
  <2> QED BY <1>1, <2>1, FS_Subset
<1>3. \A m : Cardinality(TakersTo(f, m)) \in Nat
  BY <1>2, FS_CardinalityType
<1>4. TakersTo(f, 0) = {}
  BY DEF TakersTo
<1>5. ASSUME NEW m \in 0 .. Len(f) - 1
      PROVE  Cardinality(TakersTo(f, m + 1))
               = Cardinality(TakersTo(f, m)) + IF m + 1 \in Takers(f) THEN 1 ELSE 0
  <2>1. 1 .. m + 1 = (1 .. m) \cup {m + 1} /\ m + 1 \notin 1 .. m
    OBVIOUS
  <2>2. CASE m + 1 \in Takers(f)
    <3>1. TakersTo(f, m + 1) = TakersTo(f, m) \cup {m + 1} /\ m + 1 \notin TakersTo(f, m)
      BY <2>1, <2>2 DEF TakersTo
    <3>2. Cardinality(TakersTo(f, m) \cup {m + 1}) = Cardinality(TakersTo(f, m)) + 1
      BY <1>2, <3>1, FS_AddElement
    <3> QED BY <2>2, <3>1, <3>2
  <2>3. CASE m + 1 \notin Takers(f)
    <3>1. TakersTo(f, m + 1) = TakersTo(f, m)
      BY <2>1, <2>3 DEF TakersTo
    <3> QED BY <1>3, <2>3, <3>1
  <2> QED BY <2>2, <2>3
<1> QED BY <1>2, <1>3, <1>4, <1>5, FS_EmptySet

-----------------------------------------------------------------------------
(* What a conversion gives is a sequence of characters.                    *)
LEMMA RepeatType ==
  ASSUME NEW C, NEW c \in C, NEW times \in Int
  PROVE  Repeat(c, times) \in Seq(C)
<1> DEFINE m == Max({0, times})
<1>1. m \in Nat
  BY Greater
<1>2. Repeat(c, times) = [k \in 1 .. m |-> c]
  BY DEF Repeat
<1> HIDE DEF m
<1>3. [k \in 1 .. m |-> c] \in [1 .. m -> C]
  OBVIOUS
<1> QED BY <1>1, <1>2, <1>3, SeqDef

LEMMA PatternType ==
  ASSUME NEW v \in Int, NEW bits \in {IntBits, LongLongBits}
  PROVE  Pattern(v, bits) \in 0 .. 2 ^ bits - 1 /\ Signed(v, bits) \in Int
<1> DEFINE p == 2 ^ bits
<1>1. p \in Nat \ {0}
  BY PowerAssumption
<1>2. Pattern(v, bits) = v % p
  BY DEF Pattern
<1>3. Signed(v, bits) \in {Pattern(v, bits), Pattern(v, bits) - p}
  BY DEF Signed
<1> HIDE DEF p
<1>4. v % p \in 0 .. p - 1
  BY <1>1
<1> QED BY <1>1, <1>2, <1>3, <1>4 DEF p

LEMMA FitsLongLong ==
  ASSUME NEW v \in Int
  PROVE  /\ Pattern(v, LongLongBits) \in Unsigned
         /\ Pattern(v, IntBits) \in Unsigned
         /\ LET e == Signed(v, IntBits)
            IN  e \in Int /\ (IF e < 0 THEN -e ELSE e) \in Unsigned
<1> DEFINE p == 2 ^ LongLongBits
           q == 2 ^ IntBits
           h == 2 ^ (IntBits - 1)
           u == Pattern(v, IntBits)
           e == Signed(v, IntBits)
<1>1. p \in Nat \ {0} /\ q \in Nat \ {0} /\ h \in Nat \ {0} /\ q <= p
  BY PowerAssumption
<1>2. Pattern(v, LongLongBits) \in 0 .. p - 1 /\ u \in 0 .. q - 1
  BY PatternType
<1>3. e = IF u < h THEN u ELSE u - q
  BY DEF Signed
<1> HIDE DEF p, q, h, u, e
<1>4. u \in 0 .. p - 1
  BY <1>1, <1>2
<1>5. e \in Int /\ (IF e < 0 THEN -e ELSE e) \in 0 .. p - 1
  BY <1>1, <1>2, <1>3
<1> QED BY <1>2, <1>4, <1>5 DEF p, u, e, Unsigned

LEMMA DigitChars == \A i \in 1 .. 16 : digits[i] \in Chars
  BY CharsAssumption DEF Named

LEMMA OneChar ==
  ASSUME NEW c \in Chars
  PROVE  << c >> \in Seq(Chars)
  OBVIOUS

LEMMA TwoChars ==
  ASSUME NEW c \in Chars, NEW d \in Chars
  PROVE  << c, d >> \in Seq(Chars)
  OBVIOUS

LEMMA SixChars ==
  ASSUME NEW c1 \in Chars, NEW c2 \in Chars, NEW c3 \in Chars,
         NEW c4 \in Chars, NEW c5 \in Chars, NEW c6 \in Chars
  PROVE  << c1, c2, c3, c4, c5, c6 >> \in Seq(Chars)
  OBVIOUS

LEMMA NamedChars ==
  /\ " " \in Chars /\ "?" \in Chars /\ "%" \in Chars
  /\ << "-" >> \in Seq(Chars) /\ << "%" >> \in Seq(Chars) /\ << "e" >> \in Seq(Chars)
  /\ << "0", "x" >> \in Seq(Chars) /\ << "(", "n", "u", "l", "l", ")" >> \in Seq(Chars)
<1>1. "0" \in Chars /\ "e" \in Chars
  <2>1. digits[1] \in Chars /\ digits[15] \in Chars
    BY DigitChars
  <2>2. digits[1] = "0" /\ digits[15] = "e"
    BY DEF digits
  <2> QED BY <2>1, <2>2
<1>2. \A c \in {" ", "-", "?", "%", "x", "(", "n", "u", "l", ")"} : c \in Chars
  <2> DEFINE N == {" ", "-", "?", "%", "x", "(", "n", "u", "l", ")"}
  <2>1. N \subseteq Named
    BY DEF Named
  <2> HIDE DEF N
  <2>2. N \subseteq Chars
    BY <2>1, CharsAssumption
  <2>3. \A c \in N : c \in Chars
    BY <2>2
  <2> QED BY <2>3 DEF N
<1>3. /\ " " \in Chars /\ "-" \in Chars /\ "?" \in Chars /\ "%" \in Chars /\ "x" \in Chars
      /\ "(" \in Chars /\ "n" \in Chars /\ "u" \in Chars /\ "l" \in Chars /\ ")" \in Chars
  BY <1>2, Zenon
<1>4. << "-" >> \in Seq(Chars) /\ << "%" >> \in Seq(Chars) /\ << "e" >> \in Seq(Chars)
  BY <1>1, <1>3, OneChar
<1>5. << "0", "x" >> \in Seq(Chars)
  BY <1>1, <1>3, TwoChars
<1>6. << "(", "n", "u", "l", "l", ")" >> \in Seq(Chars)
  BY <1>3, SixChars
<1> QED BY <1>3, <1>4, <1>5, <1>6

LEMMA NumberType ==
  ASSUME padc \in Chars, width \in Int, NEW base \in {8, 10, 16}, NEW num \in Unsigned
  PROVE  printnum(num, base) \in Seq(Chars)
<1> DEFINE d == DigitsOf[base][num]
           r == Repeat(padc, width - Len(d))
<1>1. d \in Seq(Chars)
  BY DigitChars, DigitsType
<1>2. printnum(num, base) = r \o d
  BY DEF printnum
<1> HIDE DEF d
<1>3. width - Len(d) \in Int
  BY <1>1, LenProperties
<1>4. r \in Seq(Chars)
  BY <1>3, RepeatType
<1> HIDE DEF r
<1> QED BY <1>1, <1>2, <1>4, ConcatProperties

LEMMA SignedNumberType ==
  ASSUME padc \in Chars, width \in Int, NEW base \in {8, 10, 16}, NEW num \in Unsigned
  PROVE  SignedNumber(num, base) \in Seq(Chars)
<1> DEFINE neg == Pattern(-num, LongLongBits)
<1>1. num \in Int /\ -num \in Int
  BY PowerAssumption DEF Unsigned
<1>2. neg \in Unsigned
  BY <1>1, FitsLongLong
<1> HIDE DEF neg
<1>3. printnum(num, base) \in Seq(Chars) /\ printnum(neg, base) \in Seq(Chars)
  BY <1>2, NumberType
<1>4. << "-" >> \o printnum(neg, base) \in Seq(Chars)
  BY <1>3, NamedChars, ConcatProperties
<1> QED BY <1>3, <1>4 DEF SignedNumber, neg

LEMMA StringType ==
  ASSUME padc \in Chars, width \in Int, precision \in Int, NEW s \in Seq(Chars)
  PROVE  StringField(s) \in Seq(Chars)
<1> DEFINE l == strnlen(s)
           t == SubSeq(s, 1, l)
           v == Visible(t)
           p == width - l
<1>1. Len(s) \in Nat
  BY LenProperties
<1>2. Min({Len(s), precision}) = IF Len(s) <= precision THEN Len(s) ELSE precision
  BY <1>1, Lesser
<1>3. l \in 0 .. Len(s)
  BY <1>1, <1>2 DEF strnlen
<1>4. StringField(s) = IF padc # "-" THEN Repeat(padc, p) \o v ELSE v \o Repeat(" ", p)
  BY DEF StringField
<1> HIDE DEF l
<1>5. t \in Seq(Chars) /\ Len(t) = l
  BY <1>3, FirstOf
<1> HIDE DEF t
<1>6. v \in Seq(Chars)
  <2>1. \A k \in 1 .. Len(t) : (IF altflag /\ t[k] = "ctl" THEN "?" ELSE t[k]) \in Chars
    <3> TAKE k \in 1 .. Len(t)
    <3>1. t[k] \in Chars /\ "?" \in Chars
      BY <1>5, NamedChars, ElementOfSeq
    <3> QED BY <3>1
  <2>2. v \in [1 .. Len(t) -> Chars]
    BY <2>1 DEF Visible
  <2>3. Len(t) \in Nat
    BY <1>5, LenProperties
  <2> HIDE DEF v
  <2> QED BY <2>2, <2>3, SeqDef
<1>7. p \in Int
  BY <1>1, <1>3
<1>8. Repeat(padc, p) \in Seq(Chars) /\ Repeat(" ", p) \in Seq(Chars)
  <2> HIDE DEF p
  <2> QED BY <1>7, NamedChars, RepeatType
<1> HIDE DEF v, p
<1>9. Repeat(padc, p) \o v \in Seq(Chars) /\ v \o Repeat(" ", p) \in Seq(Chars)
  BY <1>6, <1>8, ConcatProperties
<1> QED BY <1>4, <1>9

LEMMA ErrorType ==
  ASSUME arg \in Argument
  PROVE  ErrorText \in Seq(Chars)
<1> DEFINE v == Signed(arg.num, IntBits)
           e == IF v < 0 THEN -v ELSE v
           d == DigitsOf[10][e]
<1>1. arg.num \in Int
  BY DEF Argument
<1>2. e \in Unsigned
  BY <1>1, FitsLongLong
<1>3. ErrorText = IF e \in 1 .. Len(error_string) THEN error_string[e] ELSE << "e" >> \o d
  BY DEF ErrorText
<1> HIDE DEF e
<1>4. d \in Seq(Chars)
  BY <1>2, DigitChars, DigitsType
<1> HIDE DEF d
<1>5. << "e" >> \o d \in Seq(Chars)
  BY <1>4, NamedChars, ConcatProperties
<1>6. e \in 1 .. Len(error_string) => error_string[e] \in Seq(Chars)
  BY ErrorAssumption, ElementOfSeq
<1> QED BY <1>3, <1>5, <1>6

LEMMA ConvertedType ==
  ASSUME padc \in Chars, width \in Int, precision \in Int, arg \in Argument, ch \in Conversions
  PROVE  Converted \in Seq(Chars)
<1>1. arg.num \in Int /\ arg.str \in Seq(Chars) /\ arg.char \in Chars
  BY DEF Argument
<1>2. getuint \in Unsigned /\ getint \in Unsigned /\ Pattern(arg.num, IntBits) \in Unsigned
  <2>1. /\ Pattern(arg.num, LongLongBits) \in Unsigned
        /\ Pattern(arg.num, IntBits) \in Unsigned
    BY <1>1, FitsLongLong
  <2>2. Bits \in {IntBits, LongLongBits}
    BY DEF Bits
  <2>3. Signed(arg.num, Bits) \in Int
    BY <1>1, <2>2, PatternType
  <2>4. getint \in Unsigned
    BY <2>3, FitsLongLong DEF getint
  <2>5. getuint \in Unsigned
    BY <2>1, <2>2 DEF getuint
  <2> QED BY <2>1, <2>4, <2>5
<1>3. CASE ch = "c"
  <2>1. << arg.char >> \in Seq(Chars)
    BY <1>1
  <2> QED BY <1>3, <2>1 DEF Converted
<1>4. CASE ch = "e"
  BY <1>4, ErrorType DEF Converted
<1>5. CASE ch = "s"
  <2> DEFINE t == IF arg.str = Null THEN << "(", "n", "u", "l", "l", ")" >> ELSE arg.str
  <2>1. t \in Seq(Chars)
    BY <1>1, NamedChars
  <2>2. Converted = StringField(t)
    BY <1>5 DEF Converted
  <2> HIDE DEF t
  <2> QED BY <2>1, <2>2, StringType
<1>6. CASE ch = "d"
  <2>1. Converted = SignedNumber(getint, 10)
    BY <1>6 DEF Converted
  <2> QED BY <1>2, <2>1, SignedNumberType
<1>7. CASE ch = "o"
  <2>1. Converted = SignedNumber(getint, 8)
    BY <1>7 DEF Converted
  <2> QED BY <1>2, <2>1, SignedNumberType
<1>8. CASE ch = "u"
  <2>1. Converted = printnum(getuint, 10)
    BY <1>8 DEF Converted
  <2> QED BY <1>2, <2>1, NumberType
<1>9. CASE ch = "x"
  <2>1. Converted = printnum(getuint, 16)
    BY <1>9 DEF Converted
  <2> QED BY <1>2, <2>1, NumberType
<1>10. CASE ch = "p"
  <2> DEFINE d == printnum(Pattern(arg.num, IntBits), 16)
  <2>1. Converted = << "0", "x" >> \o d
    BY <1>10 DEF Converted
  <2>2. d \in Seq(Chars)
    BY <1>2, NumberType
  <2> HIDE DEF d
  <2> QED BY <2>1, <2>2, NamedChars, ConcatProperties
<1> QED BY <1>3, <1>4, <1>5, <1>6, <1>7, <1>8, <1>9, <1>10 DEF Conversions

-----------------------------------------------------------------------------
(***************************************************************************)
(* The inductive invariant.  A caller's call is given.  The first m        *)
(* characters of the format are walked over, though fi may have gone back  *)
(* to the last '%' of them: ai is how many arguments they take.  Where an  *)
(* escape is read, the walk is in it and there is a '%' to go back to.     *)
(***************************************************************************)
Caller == /\ fmt \in Seq(Chars) /\ args \in Seq(Argument) /\ n \in Int
          /\ Cardinality(Takers(fmt)) <= Len(args)

Flags == /\ padc \in Chars /\ width \in Int /\ precision \in Int
         /\ pc \in {"call", "text", "switch", "number", "returned"}

Escaping == pc \in {"switch", "number"}

Walked(m) ==
  /\ fi <= m
  /\ ai = Cardinality(TakersTo(fmt, m))
  /\ \A j \in fi + 1 .. m : fmt[j] # "%"
  /\ Escaping => fi = m /\ Inside(fmt)[m] /\ \E k \in 1 .. fi : fmt[k] = "%"
  /\ ~Escaping => m = Len(fmt) \/ ~Inside(fmt)[m]

Walk == fi \in 0 .. Len(fmt) /\ \E m \in 0 .. Len(fmt) : Walked(m)

Stored ==
  /\ out \in Seq(Chars) /\ cnt = Len(out)
  /\ ~NoRoom => buf = IF pc = "returned" THEN Append(Kept, NUL) ELSE Kept
  /\ NoRoom => out = << >> /\ buf = << >> /\ pc \in {"call", "returned"}
  /\ pc = "returned" => result = IF NoRoom THEN EInval ELSE Len(out)

Inv == Caller /\ Flags /\ Walk /\ Stored
(* The kinds of characters that an escape tells apart.                     *)
LEMMA Kinds ==
  /\ FlagChars \subseteq Going /\ DecimalDigits \subseteq Going /\ "*" \in Going
  /\ \A c \in Going : c \notin Conversions /\ c # "%" /\ c # NUL
  /\ \A c \in Conversions : c \notin Going /\ c # "%" /\ c # "*" /\ c # NUL
  /\ \A c \in FlagChars \cup DecimalDigits : c # "*"
<1> USE DEF FlagChars, Conversions, NUL
<1>1. DecimalDigits = {"0", "1", "2", "3", "4", "5", "6", "7", "8", "9"}
  <2>1. 1 .. 10 = {1, 2, 3, 4, 5, 6, 7, 8, 9, 10}
    OBVIOUS
  <2>2. DecimalDigits = {digits[k] : k \in {1, 2, 3, 4, 5, 6, 7, 8, 9, 10}}
    BY <2>1 DEF DecimalDigits
  <2>3. /\ digits[1] = "0" /\ digits[2] = "1" /\ digits[3] = "2" /\ digits[4] = "3"
        /\ digits[5] = "4" /\ digits[6] = "5" /\ digits[7] = "6" /\ digits[8] = "7"
        /\ digits[9] = "8" /\ digits[10] = "9"
    BY DEF digits
  <2> QED BY <2>2, <2>3
<1>2. Going = FlagChars \cup DecimalDigits \cup {"*"}
  BY DEF Going
<1>3. FlagChars \subseteq Going /\ DecimalDigits \subseteq Going /\ "*" \in Going
  BY <1>2
<1>4. \A c \in Going : c \notin Conversions /\ c # "%" /\ c # NUL
  BY <1>1, <1>2
<1>5. \A c \in Conversions : c # "%" /\ c # "*" /\ c # NUL
  OBVIOUS
<1>6. \A c \in FlagChars \cup DecimalDigits : c # "*"
  BY <1>1
<1> QED BY <1>3, <1>4, <1>5, <1>6

(* One more character, read inside an escape or outside.                   *)
LEMMA Ahead ==
  ASSUME Caller, NEW m \in 0 .. Len(fmt) - 1
  PROVE  /\ Inside(fmt)[m + 1] <=> IF Inside(fmt)[m] THEN fmt[m + 1] \in Going
                                   ELSE fmt[m + 1] = "%"
         /\ Cardinality(TakersTo(fmt, m + 1))
              = Cardinality(TakersTo(fmt, m))
                + IF Inside(fmt)[m] /\ fmt[m + 1] \in Conversions \cup {"*"} THEN 1 ELSE 0
         /\ Cardinality(TakersTo(fmt, m)) \in Nat
<1>1. Len(fmt) \in Nat
  BY LenProperties DEF Caller
<1>2. \A k \in 0 .. Len(fmt) - 1 :
        Inside(fmt)[k + 1] <=> IF Inside(fmt)[k] THEN fmt[k + 1] \in Going ELSE fmt[k + 1] = "%"
  BY <1>1, InsideIs
<1>3. \A k \in 0 .. Len(fmt) - 1 :
        Cardinality(TakersTo(fmt, k + 1))
          = Cardinality(TakersTo(fmt, k)) + IF k + 1 \in Takers(fmt) THEN 1 ELSE 0
  BY <1>1, TakersCount
<1>4. \A k \in 0 .. Len(fmt) : Cardinality(TakersTo(fmt, k)) \in Nat
  BY <1>1, TakersCount
<1>5. m \in 0 .. Len(fmt) /\ m + 1 \in 1 .. Len(fmt) /\ m + 1 - 1 = m
  BY <1>1
<1>6. m + 1 \in Takers(fmt) <=> Inside(fmt)[m] /\ fmt[m + 1] \in Conversions \cup {"*"}
  BY <1>5 DEF Takers
<1>7. Cardinality(TakersTo(fmt, m + 1))
        = Cardinality(TakersTo(fmt, m)) + IF m + 1 \in Takers(fmt) THEN 1 ELSE 0
  BY <1>3
<1> QED BY <1>2, <1>4, <1>5, <1>6, <1>7

(* A step that takes the next character, where fi has not gone back.       *)
LEMMA WalksOn ==
  ASSUME Caller, fi \in 0 .. Len(fmt) - 1, Walked(fi), fmt' = fmt, fi' = fi + 1,
         ai' = ai + IF Inside(fmt)[fi] /\ ch \in Conversions \cup {"*"} THEN 1 ELSE 0,
         Escaping' => Inside(fmt)[fi + 1] /\ \E k \in 1 .. fi + 1 : fmt[k] = "%",
         ~Escaping' => ~Inside(fmt)[fi + 1]
  PROVE  Walk'
<1>1. Len(fmt) \in Nat
  BY LenProperties DEF Caller
<1> PICK m \in 0 .. Len(fmt) : m = fi + 1
  BY <1>1
<1>2. ch = fmt[m]
  BY <1>1 DEF ch
<1>3. m \in 0 .. Len(fmt) /\ fi' = m
  BY <1>1
<1>4. ai' = Cardinality(TakersTo(fmt, m))
  <2>1. ai = Cardinality(TakersTo(fmt, fi))
    BY DEF Walked
  <2>2. Cardinality(TakersTo(fmt, m))
          = Cardinality(TakersTo(fmt, fi))
            + IF Inside(fmt)[fi] /\ fmt[m] \in Conversions \cup {"*"} THEN 1 ELSE 0
    BY Ahead
  <2> QED BY <1>2, <2>1, <2>2
<1>5. Escaping' => Inside(fmt)[m] /\ \E k \in 1 .. m : fmt[k] = "%"
  OBVIOUS
<1>6. ~Escaping' => ~Inside(fmt)[m]
  OBVIOUS
<1>7. m <= m /\ \A j \in m + 1 .. m : fmt[j] # "%"
  BY <1>1, <1>3
<1>8. Walked(m)'
  BY <1>3, <1>4, <1>5, <1>6, <1>7 DEF Walked
<1> QED BY <1>3, <1>8 DEF Walk

(* Nothing is taken: the same m is walked.                                 *)
LEMMA WalkStands ==
  ASSUME Walk, fmt' = fmt, fi' = fi, ai' = ai, Escaping' = Escaping
  PROVE  Walk'
<1>1. PICK m \in 0 .. Len(fmt) : Walked(m)
  BY DEF Walk
<1>2. Walked(m)'
  BY <1>1 DEF Walked
<1> QED BY <1>1, <1>2 DEF Walk
(* In an escape fi has not gone back, nor at a '%' of the text.            *)
LEMMA NotBack ==
  ASSUME Caller, Walk, Escaping \/ ch = "%"
  PROVE  Walked(fi)
<1>1. Len(fmt) \in Nat /\ fi \in 0 .. Len(fmt)
  BY LenProperties DEF Caller, Walk
<1>2. PICK m \in 0 .. Len(fmt) : Walked(m)
  BY DEF Walk
<1>3. CASE Escaping
  BY <1>2, <1>3 DEF Walked
<1>4. CASE ch = "%"
  <2>1. fi < Len(fmt) /\ fmt[fi + 1] = "%"
    BY <1>1, <1>4 DEF ch, NUL
  <2>2. fi <= m /\ \A j \in fi + 1 .. m : fmt[j] # "%"
    BY <1>2 DEF Walked
  <2>3. m = fi
    BY <1>1, <2>1, <2>2
  <2> QED BY <1>2, <2>3
<1> QED BY <1>3, <1>4

LEMMA NextChar ==
  ASSUME Caller, Walk, ch # NUL
  PROVE  fi \in 0 .. Len(fmt) - 1 /\ ch = fmt[fi + 1] /\ ch \in Chars
<1>1. Len(fmt) \in Nat /\ fi \in 0 .. Len(fmt)
  BY LenProperties DEF Caller, Walk
<1>2. fi \in 0 .. Len(fmt) - 1 /\ ch = fmt[fi + 1]
  BY <1>1 DEF ch
<1>3. fi + 1 \in 1 .. Len(fmt)
  BY <1>1, <1>2
<1> QED BY <1>2, <1>3, ElementOfSeq DEF Caller

LEMMA TakersFinite ==
  ASSUME Len(fmt) \in Nat
  PROVE  Cardinality(Takers(fmt)) \in Nat
<1>1. Takers(fmt) \subseteq 1 .. Len(fmt)
  BY DEF Takers
<1>2. IsFiniteSet(1 .. Len(fmt))
  BY FS_Interval
<1> QED BY <1>1, <1>2, FS_Subset, FS_CardinalityType

(* What the format takes, the caller has passed.                           *)
LEMMA ArgsSuffice ==
  ASSUME Caller, Walk
  PROVE  ai \in Nat /\ ai <= Len(args)
<1>1. PICK m \in 0 .. Len(fmt) : Walked(m)
  BY DEF Walk
<1>2. Len(fmt) \in Nat /\ Len(args) \in Nat
  BY LenProperties DEF Caller
<1>3. Cardinality(TakersTo(fmt, m)) \in Nat
      /\ Cardinality(TakersTo(fmt, m)) <= Cardinality(Takers(fmt))
  BY <1>2, TakersCount
<1>4. Cardinality(Takers(fmt)) \in Nat
  BY <1>2, TakersFinite
<1> QED BY <1>1, <1>2, <1>3, <1>4 DEF Walked, Caller

LEMMA ArgumentThere ==
  ASSUME Caller, Walk, pc = "switch", ch \in Conversions \cup {"*"}
  PROVE  arg \in Argument
<1>1. Len(fmt) \in Nat /\ Len(args) \in Nat
  BY LenProperties DEF Caller
<1>2. ch # NUL
  BY Kinds
<1>3. fi \in 0 .. Len(fmt) - 1 /\ ch = fmt[fi + 1]
  BY <1>2, NextChar
<1>4. ai = Cardinality(TakersTo(fmt, fi)) /\ Inside(fmt)[fi]
  BY NotBack DEF Walked, Escaping
<1>5. Cardinality(TakersTo(fmt, fi + 1)) = ai + 1 /\ ai \in Nat
  BY <1>3, <1>4, Ahead
<1>6. PICK m \in 0 .. Len(fmt) : m = fi + 1
  BY <1>1, <1>3
<1>7. Cardinality(TakersTo(fmt, m)) <= Cardinality(Takers(fmt))
  BY <1>1, TakersCount
<1>8. Cardinality(Takers(fmt)) \in Nat
  BY <1>1, TakersFinite
<1>9. ai + 1 \in 1 .. Len(args)
  BY <1>1, <1>5, <1>6, <1>7, <1>8 DEF Caller
<1> QED BY <1>9, ElementOfSeq DEF Caller, arg

-----------------------------------------------------------------------------
(* The walk of each step.                                                  *)
LEMMA TextWalks ==
  ASSUME Inv, Text
  PROVE  Walk'
<1> USE DEF Inv
<1>1. Len(fmt) \in Nat /\ fi \in 0 .. Len(fmt) - 1 /\ ch = fmt[fi + 1]
  BY NextChar, LenProperties DEF Text, Caller
<1>2. /\ fmt' = fmt /\ fi' = fi + 1 /\ ai' = ai /\ pc' = pc /\ ch # "%" /\ ~Escaping /\ ~Escaping'
  BY DEF Text, given, Escaping
<1>3. PICK m \in 0 .. Len(fmt) : Walked(m)
  BY DEF Walk
<1>4. CASE m = fi
  <2>1. ~Inside(fmt)[fi]
    BY <1>1, <1>2, <1>3, <1>4 DEF Walked
  <2>2. ~Inside(fmt)[fi + 1]
    BY <1>1, <1>2, <2>1, Ahead
  <2>3. Walked(fi)
    BY <1>3, <1>4
  <2>4. ai' = ai + IF Inside(fmt)[fi] /\ ch \in Conversions \cup {"*"} THEN 1 ELSE 0
    <3>1. ai \in Nat
      BY ArgsSuffice
    <3> QED BY <1>2, <2>1, <3>1
  <2> QED BY <1>1, <1>2, <2>2, <2>3, <2>4, WalksOn
<1>5. CASE m # fi
  <2>1. fi + 1 <= m /\ \A j \in (fi + 1) + 1 .. m : fmt[j] # "%"
    BY <1>1, <1>3, <1>5 DEF Walked
  <2>2. Walked(m)'
    BY <1>2, <1>3, <2>1 DEF Walked
  <2> QED BY <1>1, <1>2, <2>2 DEF Walk
<1> QED BY <1>4, <1>5

LEMMA PercentWalks ==
  ASSUME Inv, Percent
  PROVE  Walk'
<1> USE DEF Inv
<1>1. fmt' = fmt /\ fi' = fi + 1 /\ ai' = ai /\ ch = "%" /\ ~Escaping /\ Escaping'
  BY DEF Percent, given, Escaping
<1>2. Len(fmt) \in Nat /\ fi \in 0 .. Len(fmt) - 1 /\ ch = fmt[fi + 1]
  BY <1>1, NextChar, LenProperties DEF Caller, NUL
<1>3. Walked(fi)
  BY <1>1, NotBack
<1>4. ~Inside(fmt)[fi]
  BY <1>1, <1>2, <1>3 DEF Walked
<1>5. Inside(fmt)[fi + 1]
  BY <1>1, <1>2, <1>4, Ahead
<1>6. ai' = ai + IF Inside(fmt)[fi] /\ ch \in Conversions \cup {"*"} THEN 1 ELSE 0
  <2>1. ai \in Nat
    BY ArgsSuffice
  <2> QED BY <1>1, <1>4, <2>1
<1>7. \E k \in 1 .. fi + 1 : fmt[k] = "%"
  BY <1>1, <1>2
<1> QED BY <1>1, <1>2, <1>3, <1>5, <1>6, <1>7, WalksOn

(* A step that goes on in the escape, with an argument at a star.          *)
LEMMA GoesOn ==
  ASSUME Inv, Escaping, Escaping', ch \in Going, fmt' = fmt, fi' = fi + 1,
         ai' = IF ch = "*" THEN ai + 1 ELSE ai
  PROVE  Walk'
<1> USE DEF Inv
<1>1. ch # NUL /\ ch \notin Conversions
  BY Kinds
<1>2. Len(fmt) \in Nat /\ fi \in 0 .. Len(fmt) - 1 /\ ch = fmt[fi + 1]
  BY <1>1, NextChar, LenProperties DEF Caller
<1>3. Walked(fi)
  BY NotBack
<1>4. Inside(fmt)[fi] /\ \E k \in 1 .. fi : fmt[k] = "%"
  BY <1>3 DEF Walked
<1>5. Inside(fmt)[fi + 1]
  BY <1>2, <1>4, Ahead
<1>6. ai' = ai + IF Inside(fmt)[fi] /\ ch \in Conversions \cup {"*"} THEN 1 ELSE 0
  <2>1. ai \in Nat
    BY ArgsSuffice
  <2> QED BY <1>1, <1>4, <2>1
<1>7. \E k \in 1 .. fi + 1 : fmt[k] = "%"
  BY <1>2, <1>4
<1> QED BY <1>2, <1>3, <1>5, <1>6, <1>7, WalksOn

(* A step that ends the escape, with an argument at a conversion.          *)
LEMMA EndsEscape ==
  ASSUME Inv, Escaping, ~Escaping', ch \notin Going, ch # NUL, fmt' = fmt, fi' = fi + 1,
         ai' = IF ch \in Conversions THEN ai + 1 ELSE ai
  PROVE  Walk'
<1> USE DEF Inv
<1>1. ch # "*"
  BY Kinds
<1>2. Len(fmt) \in Nat /\ fi \in 0 .. Len(fmt) - 1 /\ ch = fmt[fi + 1]
  BY NextChar, LenProperties DEF Caller
<1>3. Walked(fi)
  BY NotBack
<1>4. Inside(fmt)[fi]
  BY <1>3 DEF Walked
<1>5. ~Inside(fmt)[fi + 1]
  BY <1>2, <1>4, Ahead
<1>6. ai' = ai + IF Inside(fmt)[fi] /\ ch \in Conversions \cup {"*"} THEN 1 ELSE 0
  <2>1. ai \in Nat
    BY ArgsSuffice
  <2> QED BY <1>1, <1>4, <2>1
<1> QED BY <1>2, <1>3, <1>5, <1>6, WalksOn

(* The walk goes back, to the '%' of the escape: no other follows it.      *)
LEMMA UnrecognizedWalks ==
  ASSUME Inv, Unrecognized
  PROVE  Walk'
<1> USE DEF Inv
<1> DEFINE P == {k \in 1 .. fi : fmt[k] = "%"}
<1>1. /\ fmt' = fmt /\ fi' = Max(P) /\ ai' = ai /\ Escaping /\ ~Escaping'
      /\ ch # "%" /\ ch \notin Going \cup Conversions
  BY DEF Unrecognized, given, Escaping
<1>2. Len(fmt) \in Nat /\ fi \in 0 .. Len(fmt) /\ fi \in Nat
  BY LenProperties DEF Caller, Walk
<1>3. Walked(fi)
  BY <1>1, NotBack
<1>4. P # {} /\ P \subseteq 1 .. fi /\ Inside(fmt)[fi]
  BY <1>1, <1>3 DEF Walked
<1>5. Max(P) \in P /\ \A o \in P : o <= Max(P)
  <2> HIDE DEF P
  <2> QED BY <1>2, <1>4, Greatest
<1>6. fi' \in 1 .. fi /\ \A j \in fi' + 1 .. fi : fmt[j] # "%"
  <2>1. PICK g : g = Max(P)
    OBVIOUS
  <2>2. fi' = g /\ g \in 1 .. fi /\ \A o \in P : o <= g
    BY <1>1, <1>5, <2>1
  <2>3. \A j \in g + 1 .. fi : fmt[j] # "%"
    <3> SUFFICES ASSUME NEW j \in g + 1 .. fi, fmt[j] = "%" PROVE FALSE
      OBVIOUS
    <3>1. j \in P
      BY <1>2, <2>2
    <3>2. j <= g
      BY <2>2, <3>1
    <3> QED BY <1>2, <2>2, <3>2
  <2> QED BY <2>2, <2>3
<1> HIDE DEF P
<1>7. fi' \in 0 .. Len(fmt')
  BY <1>1, <1>2, <1>6
<1>8. CASE fi = Len(fmt)
  <2>1. PICK m \in 0 .. Len(fmt) : m = fi
    BY <1>2
  <2>2. ai = Cardinality(TakersTo(fmt, m))
    BY <1>3, <2>1 DEF Walked
  <2>3. Walked(m)'
    BY <1>1, <1>2, <1>6, <1>8, <2>1, <2>2 DEF Walked
  <2> QED BY <1>1, <1>7, <2>3 DEF Walk
<1>9. CASE fi # Len(fmt)
  <2>1. PICK m \in 0 .. Len(fmt) : m = fi + 1
    BY <1>2, <1>9
  <2>2. fi \in 0 .. Len(fmt) - 1 /\ ch = fmt[m]
    BY <1>2, <1>9, <2>1 DEF ch
  <2>3. ~Inside(fmt)[m]
    BY <1>1, <1>4, <2>1, <2>2, Ahead
  <2>4. ai' = Cardinality(TakersTo(fmt, m))
    <3>1. ch # "*"
      BY <1>1, Kinds
    <3>2. /\ Cardinality(TakersTo(fmt, fi + 1))
               = Cardinality(TakersTo(fmt, fi))
                 + IF Inside(fmt)[fi] /\ fmt[fi + 1] \in Conversions \cup {"*"} THEN 1 ELSE 0
          /\ Cardinality(TakersTo(fmt, fi)) \in Nat
      BY <2>2, Ahead
    <3>3. ai = Cardinality(TakersTo(fmt, fi))
      BY <1>3 DEF Walked
    <3> QED BY <1>1, <2>1, <2>2, <3>1, <3>2, <3>3
  <2>5. fi' <= m /\ \A j \in fi' + 1 .. m : fmt[j] # "%"
    BY <1>1, <1>2, <1>6, <2>1, <2>2
  <2>6. Walked(m)'
    BY <1>1, <2>3, <2>4, <2>5 DEF Walked
  <2> QED BY <1>1, <1>7, <2>6 DEF Walk
<1> QED BY <1>8, <1>9

LEMMA WalkInv ==
  ASSUME Inv, [Next]_vars
  PROVE  Walk'
<1> USE DEF Inv
<1>1. CASE UNCHANGED vars \/ Refuse \/ Begin \/ End \/ WidthEnd
  <2>1. fmt' = fmt /\ fi' = fi /\ ai' = ai /\ Escaping' = Escaping
    BY <1>1 DEF vars, Refuse, Begin, End, WidthEnd, given, Escaping
  <2> QED BY <2>1, WalkStands
<1>2. CASE Text
  BY <1>2, TextWalks
<1>3. CASE Percent
  BY <1>3, PercentWalks
<1>4. CASE Flag \/ WidthDigit
  <2>1. /\ fmt' = fmt /\ fi' = fi + 1 /\ ai' = ai /\ Escaping /\ Escaping'
        /\ ch \in FlagChars \cup DecimalDigits
    BY <1>4 DEF Flag, WidthDigit, given, Escaping
  <2>2. ch \in Going /\ ch # "*"
    BY <2>1, Kinds
  <2> QED BY <2>1, <2>2, GoesOn
<1>5. CASE Star
  <2>1. fmt' = fmt /\ fi' = fi + 1 /\ ai' = ai + 1 /\ Escaping /\ Escaping' /\ ch = "*"
    BY <1>5 DEF Star, given, Escaping
  <2>2. ch \in Going
    BY <2>1, Kinds
  <2> QED BY <2>1, <2>2, GoesOn
<1>6. CASE Convert
  <2>1. /\ fmt' = fmt /\ fi' = fi + 1 /\ ai' = ai + 1 /\ Escaping /\ ~Escaping'
        /\ ch \in Conversions
    BY <1>6 DEF Convert, given, Escaping
  <2>2. ch \notin Going /\ ch # NUL
    BY <2>1, Kinds
  <2> QED BY <2>1, <2>2, EndsEscape
<1>7. CASE PercentSign
  <2>1. fmt' = fmt /\ fi' = fi + 1 /\ ai' = ai /\ Escaping /\ ~Escaping' /\ ch = "%"
    BY <1>7 DEF PercentSign, given, Escaping
  <2>2. ch \notin Going /\ ch \notin Conversions /\ ch # NUL
    BY <2>1, Kinds DEF NUL
  <2> QED BY <2>1, <2>2, EndsEscape
<1>8. CASE Unrecognized
  BY <1>8, UnrecognizedWalks
<1> QED BY <1>1, <1>2, <1>3, <1>4, <1>5, <1>6, <1>7, <1>8 DEF Next

-----------------------------------------------------------------------------
(* The flags of an escape have their types.                                *)
LEMMA NumberFlags ==
  ASSUME Flags, NEW v \in Int, Number(v)
  PROVE  width' \in Int /\ precision' \in Int
  BY DEF Number, Flags

LEMMA DigitType ==
  ASSUME NEW c \in DecimalDigits
  PROVE  Digit(c) \in Int
<1>1. \E k \in 1 .. 16 : digits[k] = c
  BY DEF DecimalDigits
<1> DEFINE d == CHOOSE k \in 1 .. 16 : digits[k] = c
<1>2. d \in 1 .. 16
  BY <1>1
<1>3. Digit(c) = d - 1
  BY DEF Digit
<1> HIDE DEF d
<1> QED BY <1>2, <1>3

LEMMA FlagsInv ==
  ASSUME Inv, [Next]_vars
  PROVE  Flags'
<1> USE DEF Inv
<1>1. CASE UNCHANGED vars \/ Refuse \/ Begin \/ End
  BY <1>1 DEF Flags, vars, Refuse, Begin, End, escape
<1>2. CASE Text
  BY <1>2 DEF Flags, Text, escape
<1>3. CASE Percent
  <2>1. " " \in Chars
    BY NamedChars
  <2>2. padc' = " "
    BY <1>3 DEF Percent
  <2>3. padc' \in Chars
    BY <2>1, <2>2, Zenon
  <2>4. width' = -1 /\ precision' = -1 /\ pc' = "switch"
    BY <1>3 DEF Percent
  <2> QED BY <2>3, <2>4 DEF Flags
<1>4. CASE Flag
  <2>1. ch \in Chars
    BY <1>4, Kinds, NextChar DEF Flag
  <2>2. padc' \in Chars /\ pc' = "switch" /\ precision' = precision /\ width' \in {0, width}
    BY <1>4, <2>1 DEF Flags, Flag
  <2> QED BY <2>2 DEF Flags
<1>5. CASE WidthDigit
  <2>1. ch \in DecimalDigits
    BY <1>5 DEF WidthDigit
  <2>2. Digit(ch) \in Int
    BY <2>1, DigitType
  <2>3. /\ precision' = Digit(ch) + IF pc = "number" THEN 10 * precision ELSE 0
        /\ padc' = padc /\ width' = width /\ pc' = "number"
    BY <1>5 DEF WidthDigit
  <2> QED BY <2>2, <2>3 DEF Flags
<1>6. CASE WidthEnd
  <2>1. width' \in Int /\ precision' \in Int
    BY <1>6, NumberFlags DEF WidthEnd, Flags
  <2> QED BY <1>6, <2>1 DEF WidthEnd, Flags
<1>7. CASE Star
  <2>1. arg \in Argument
    BY <1>7, ArgumentThere DEF Star
  <2>2. Signed(arg.num, IntBits) \in Int
    BY <2>1, PatternType DEF Argument
  <2>3. width' \in Int /\ precision' \in Int
    BY <1>7, <2>2, NumberFlags DEF Star
  <2> QED BY <1>7, <2>3 DEF Star, Flags
<1>8. CASE Convert
  BY <1>8 DEF Flags, Convert, escape
<1>9. CASE PercentSign \/ Unrecognized
  BY <1>9 DEF Flags, PercentSign, Unrecognized, escape
<1> QED BY <1>1, <1>2, <1>3, <1>4, <1>5, <1>6, <1>7, <1>8, <1>9 DEF Next

-----------------------------------------------------------------------------
(* What is put is stored while there is room.                              *)
LEMMA PutKeeps ==
  ASSUME Caller, Stored, Escaping \/ pc = "text", NEW s \in Seq(Chars), Put(s),
         dest' = dest, n' = n, pc' \in {"text", "switch", "number"}
  PROVE  Stored'
<1>1. pc # "returned" /\ pc # "call" /\ pc' # "returned"
  BY DEF Escaping
<1>2. ~NoRoom /\ ~NoRoom'
  <2>1. ~NoRoom
    BY <1>1 DEF Stored
  <2> QED BY <2>1 DEF NoRoom
<1>3. n \in Int /\ n >= 1
  BY <1>2 DEF NoRoom, Caller
<1>4. out' = out \o s /\ cnt' = cnt + Len(s) /\ buf' = buf \o Storable(s)
  BY DEF Put
<1>5. out \in Seq(Chars) /\ cnt = Len(out) /\ buf = SubSeq(out, 1, Min({Len(out), n - 1}))
  BY <1>1, <1>2 DEF Stored, Kept
<1>6. out \o s \in Seq(Chars) /\ Len(out \o s) = Len(out) + Len(s)
  BY <1>5, ConcatProperties
<1>7. buf \o Storable(s) = SubSeq(out \o s, 1, Min({Len(out \o s), n - 1}))
  BY <1>3, <1>5, PutStores
<1>8. buf' = Kept'
  BY <1>4, <1>7 DEF Kept
<1>9. out' \in Seq(Chars) /\ cnt' = Len(out')
  BY <1>4, <1>5, <1>6
<1> QED BY <1>1, <1>2, <1>8, <1>9 DEF Stored

LEMMA StoredInv ==
  ASSUME Inv, [Next]_vars
  PROVE  Stored'
<1> USE DEF Inv
<1>1. CASE UNCHANGED vars
  BY <1>1 DEF Stored, Kept, NoRoom, vars, given, output
<1>2. CASE Refuse
  <2>1. NoRoom /\ NoRoom' /\ out' = out /\ buf' = buf /\ cnt' = cnt
    BY <1>2 DEF Refuse, given, output, NoRoom
  <2>2. result' = EInval /\ pc' = "returned"
    BY <1>2 DEF Refuse
  <2> QED BY <2>1, <2>2 DEF Stored
<1>3. CASE Begin
  <2>1. ~NoRoom /\ ~NoRoom' /\ out' = out /\ buf' = buf /\ cnt' = cnt /\ n' = n
    BY <1>3 DEF Begin, given, output, NoRoom
  <2>2. pc = "call" /\ pc' = "text"
    BY <1>3 DEF Begin
  <2>3. buf' = Kept'
    BY <2>1, <2>2 DEF Stored, Kept
  <2> QED BY <2>1, <2>2, <2>3 DEF Stored
<1>4. CASE End
  <2>1. pc = "text" /\ pc' = "returned" /\ result' = cnt /\ buf' = Append(buf, NUL)
    BY <1>4 DEF End
  <2>2. out' = out /\ cnt' = cnt /\ n' = n /\ dest' = dest
    BY <1>4 DEF End, given
  <2>3. ~NoRoom
    BY <2>1 DEF Stored
  <2>4. ~NoRoom'
    BY <2>2, <2>3 DEF NoRoom
  <2>5. buf = Kept /\ Kept' = Kept
    BY <2>1, <2>2, <2>3 DEF Stored, Kept
  <2> QED BY <2>1, <2>2, <2>4, <2>5 DEF Stored
<1>5. CASE Percent \/ Flag \/ WidthDigit \/ WidthEnd \/ Star
  <2>1. /\ n' = n /\ dest' = dest /\ out' = out /\ buf' = buf /\ cnt' = cnt
        /\ pc \in {"text", "switch", "number"} /\ pc' \in {"text", "switch", "number"}
    BY <1>5 DEF Percent, Flag, WidthDigit, WidthEnd, Star, given, output
  <2>2. ~NoRoom
    BY <2>1 DEF Stored
  <2>3. ~NoRoom'
    BY <2>1, <2>2 DEF NoRoom
  <2>4. buf = Kept /\ Kept' = Kept
    BY <2>1, <2>2 DEF Stored, Kept
  <2> QED BY <2>1, <2>3, <2>4 DEF Stored
<1>6. CASE Text
  <2>1. << ch >> \in Seq(Chars)
    BY <1>6, NextChar, OneChar DEF Text
  <2> QED BY <1>6, <2>1, PutKeeps DEF Text, given
<1>7. CASE Convert
  <2>1. arg \in Argument
    BY <1>7, ArgumentThere DEF Convert
  <2>2. Converted \in Seq(Chars)
    BY <1>7, <2>1, ConvertedType DEF Convert, Flags
  <2> QED BY <1>7, <2>2, PutKeeps DEF Convert, given, Escaping
<1>8. CASE PercentSign \/ Unrecognized
  <2>1. /\ Put(<< "%" >>) /\ dest' = dest /\ n' = n /\ Escaping /\ pc' = "text"
    BY <1>8 DEF PercentSign, Unrecognized, given, Escaping
  <2> QED BY <2>1, NamedChars, PutKeeps
<1> QED BY <1>1, <1>2, <1>3, <1>4, <1>5, <1>6, <1>7, <1>8 DEF Next

-----------------------------------------------------------------------------
LEMMA InitInv == Init => Inv
<1> SUFFICES ASSUME Init PROVE Inv
  OBVIOUS
<1>1. PICK call \in Calls : fmt = call.fmt /\ args = call.args /\ n = call.size
  BY DEF Init
<1>2. Caller
  BY <1>1, CallsAssumption DEF Caller, GoodCall
<1>3. Flags
  <2>1. " " \in Chars
    BY NamedChars
  <2>2. padc = " "
    BY DEF Init
  <2>3. padc \in Chars
    BY <2>1, <2>2, Zenon
  <2>4. width = -1 /\ precision = -1 /\ pc = "call"
    BY DEF Init
  <2> QED BY <2>3, <2>4 DEF Flags
<1>4. Len(fmt) \in Nat
  BY <1>2, LenProperties DEF Caller
<1>5. Walk
  <2>1. Cardinality(TakersTo(fmt, 0)) = 0 /\ ~Inside(fmt)[0]
    BY <1>4, TakersCount, InsideIs
  <2>2. fi = 0 /\ ai = 0 /\ ~Escaping
    BY DEF Init, Escaping
  <2>3. Walked(0)
    BY <2>1, <2>2 DEF Walked
  <2>4. 0 \in 0 .. Len(fmt)
    BY <1>4
  <2> QED BY <2>2, <2>3, <2>4 DEF Walk
<1>6. Stored
  <2>1. out = << >> /\ buf = << >> /\ cnt = 0 /\ pc = "call"
    BY DEF Init
  <2>2. << >> \in Seq(Chars) /\ Len(<< >>) = 0
    BY EmptySeq
  <2>3. ~NoRoom => Kept = << >>
    <3> SUFFICES ASSUME ~NoRoom PROVE SubSeq(<< >>, 1, Min({0, n - 1})) = << >>
      BY <2>1, <2>2 DEF Kept
    <3>1. n \in Int /\ n >= 1
      BY <1>2 DEF Caller, NoRoom
    <3>2. Min({0, n - 1}) = 0
      BY <3>1, Lesser
    <3>3. SubSeq(<< >>, 1, 0) \in Seq(Chars) /\ Len(SubSeq(<< >>, 1, 0)) = 0
      BY <2>2, FirstOf
    <3> QED BY <3>2, <3>3, EmptySeq
  <2> QED BY <2>1, <2>2, <2>3 DEF Stored
<1> QED BY <1>2, <1>3, <1>5, <1>6 DEF Inv

LEMMA NextInv == Inv /\ [Next]_vars => Inv'
<1> SUFFICES ASSUME Inv, [Next]_vars PROVE Inv'
  OBVIOUS
<1>1. Caller'
  <2>1. fmt' = fmt /\ args' = args /\ n' = n
    BY DEF Next, vars, given, Refuse, Begin, Text, End, Percent, Flag, WidthDigit, WidthEnd,
           Star, Convert, PercentSign, Unrecognized
  <2> QED BY <2>1 DEF Inv, Caller
<1> QED BY <1>1, FlagsInv, WalkInv, StoredInv DEF Inv

(* vsnprintf() never stores beyond its buffer, the terminator included,    *)
(* stores and terminates a prefix of what it puts, counts all of it, and   *)
(* walks neither behind the format nor behind the arguments passed for it: *)
(* whatever the format, the widths, the numbers and the size are.          *)
THEOREM KeepsBounds == Spec => []Bounded
<1>1. Inv => Bounded
  <2> SUFFICES ASSUME Inv PROVE Bounded
    OBVIOUS
  <2>1. ai <= Len(args)
    BY ArgsSuffice DEF Inv
  <2>2. ASSUME ~NoRoom
        PROVE  Len(buf) <= n
    <3>1. n \in Int /\ n >= 1 /\ out \in Seq(Chars) /\ Len(out) \in Nat
      BY <2>2, LenProperties DEF Inv, Caller, Stored, NoRoom
    <3> DEFINE m == Min({Len(out), n - 1})
    <3>2. m \in 0 .. Len(out) /\ m <= n - 1
      BY <3>1, Lesser
    <3>3. Kept = SubSeq(out, 1, m)
      BY DEF Kept
    <3> HIDE DEF m
    <3>4. Kept \in Seq(Chars) /\ Len(Kept) = m
      BY <3>1, <3>2, <3>3, FirstOf
    <3>5. Kept \in Seq(Chars \cup {NUL}) /\ NUL \in Chars \cup {NUL}
      BY <3>4
    <3>6. Len(Append(Kept, NUL)) = m + 1
      BY <3>4, <3>5, AppendProperties
    <3>7. CASE pc = "returned"
      <4>1. buf = Append(Kept, NUL)
        BY <2>2, <3>7 DEF Inv, Stored
      <4> QED BY <3>1, <3>2, <3>6, <4>1
    <3>8. CASE pc # "returned"
      <4>1. buf = Kept
        BY <2>2, <3>8 DEF Inv, Stored
      <4> QED BY <3>1, <3>2, <3>4, <4>1
    <3> QED BY <3>7, <3>8
  <2>3. fi \in 0 .. Len(fmt)
    BY DEF Inv, Walk
  <2>4. IF NoRoom THEN out = << >> /\ buf = << >>
        ELSE Len(buf) <= n /\ buf = IF pc = "returned" THEN Append(Kept, NUL) ELSE Kept
    BY <2>2 DEF Inv, Stored
  <2>5. pc = "returned" => result = IF NoRoom THEN EInval ELSE Len(out)
    BY DEF Inv, Stored
  <2> QED BY <2>1, <2>3, <2>4, <2>5 DEF Bounded
<1> QED BY <1>1, InitInv, NextInv, PTL DEF Spec
-----------------------------------------------------------------------------
(* Functions that are defined by recursion over the numbers.               *)
Follows(g, top, start, step) ==
  g[0] = start /\ \A j \in 0 .. top - 1 : g[j + 1] = step[<< j, g[j] >>]

LEMMA OneFollows ==
  ASSUME NEW S, NEW start \in S, NEW step \in [Nat \X S -> S], NEW top \in Nat
  PROVE  \E g \in [0 .. top -> S] : Follows(g, top, start, step)
<1> DEFINE H == {k \in Nat : \E g \in [0 .. k -> S] : Follows(g, k, start, step)}
<1>1. 0 \in H
  <2>1. [j \in 0 .. 0 |-> start] \in [0 .. 0 -> S]
    OBVIOUS
  <2>2. Follows([j \in 0 .. 0 |-> start], 0, start, step)
    BY DEF Follows
  <2> QED BY <2>1, <2>2
<1>2. ASSUME NEW k \in Nat, k \in H
      PROVE  k + 1 \in H
  <2>1. PICK g \in [0 .. k -> S] : Follows(g, k, start, step)
    BY <1>2
  <2> DEFINE h == [j \in 0 .. k + 1 |-> IF j <= k THEN g[j] ELSE step[<< k, g[k] >>]]
  <2>2. h \in [0 .. k + 1 -> S]
    <3>1. \A j \in 0 .. k : g[j] \in S
      BY <2>1
    <3>2. step[<< k, g[k] >>] \in S
      BY <3>1
    <3>3. \A j \in 0 .. k + 1 : j <= k => j \in 0 .. k
      OBVIOUS
    <3> QED BY <3>1, <3>2, <3>3
  <2>3. h[0] = start
    <3>1. 0 \in 0 .. k + 1 /\ 0 <= k
      OBVIOUS
    <3> QED BY <2>1, <3>1 DEF Follows
  <2>4. ASSUME NEW j \in 0 .. k + 1 - 1
        PROVE  h[j + 1] = step[<< j, h[j] >>]
    <3>1. j \in 0 .. k + 1 /\ j + 1 \in 0 .. k + 1 /\ j <= k
      OBVIOUS
    <3>2. CASE j = k
      BY <3>1, <3>2
    <3>3. CASE j # k
      <4>1. j \in 0 .. k - 1 /\ j + 1 <= k
        BY <3>3
      <4>2. g[j + 1] = step[<< j, g[j] >>]
        BY <2>1, <4>1 DEF Follows
      <4> QED BY <3>1, <4>1, <4>2
    <3> QED BY <3>2, <3>3
  <2> HIDE DEF h
  <2>5. Follows(h, k + 1, start, step)
    BY <2>3, <2>4 DEF Follows
  <2>6. k + 1 \in Nat
    OBVIOUS
  <2> QED BY <2>2, <2>5, <2>6
<1>3. top \in H
  <2> HIDE DEF H
  <2>1. \A k \in Nat : k \in H => k + 1 \in H
    BY <1>2
  <2> QED BY <1>1, <2>1, Counting
<1> QED BY <1>3

LEMMA SameFollows ==
  ASSUME NEW start, NEW step, NEW m \in Nat, NEW k \in Nat, m <= k, NEW g, NEW h,
         Follows(g, m, start, step), Follows(h, k, start, step)
  PROVE  g[m] = h[m]
<1> DEFINE H == {i \in Nat : i <= m => g[i] = h[i]}
<1>1. 0 \in H
  BY DEF Follows
<1>2. ASSUME NEW i \in Nat, i \in H
      PROVE  i + 1 \in H
  <2> SUFFICES ASSUME i + 1 <= m PROVE g[i + 1] = h[i + 1]
    OBVIOUS
  <2>1. i \in 0 .. m - 1 /\ i \in 0 .. k - 1 /\ g[i] = h[i]
    BY <1>2
  <2> QED BY <2>1 DEF Follows
<1>3. m \in H
  <2> HIDE DEF H
  <2>1. \A i \in Nat : i \in H => i + 1 \in H
    BY <1>2
  <2> QED BY <1>1, <2>1, Counting
<1> QED BY <1>3

-----------------------------------------------------------------------------
(* The places of a number's digits.                                        *)
PlaceStep(base) == [x \in Nat \X (Nat \ {0}) |-> base * x[2]]

LEMMA PlaceIs ==
  ASSUME NEW base \in {8, 10, 16}
  PROVE  /\ Place[base][0] = 1
         /\ \A i \in Nat : /\ Place[base][i] \in Nat \ {0}
                           /\ Place[base][i + 1] = base * Place[base][i]
<1> DEFINE S     == Nat \ {0}
           step  == PlaceStep(base)
           Is(p) == p = [i \in Nat |-> IF i = 0 THEN 1 ELSE base * p[i - 1]]
           G(k)  == CHOOSE g \in [0 .. k -> S] : Follows(g, k, 1, step)
           f     == [k \in Nat |-> G(k)[k]]
<1>0. base \in Nat \ {0}
  OBVIOUS
<1>1. 1 \in S /\ step \in [Nat \X S -> S]
  <2>1. \A x \in Nat \X S : base * x[2] \in S
    <3> TAKE x \in Nat \X S
    <3>1. x[2] \in Nat /\ x[2] # 0
      OBVIOUS
    <3>2. CASE base = 8
      BY <3>1, <3>2
    <3>3. CASE base = 10
      BY <3>1, <3>3
    <3>4. CASE base = 16
      BY <3>1, <3>4
    <3> QED BY <3>2, <3>3, <3>4
  <2> QED BY <2>1 DEF PlaceStep
<1>2. \A k \in Nat, x \in S : step[<< k, x >>] = base * x
  <2> TAKE k \in Nat, x \in S
  <2>1. << k, x >> \in Nat \X S /\ << k, x >>[2] = x
    OBVIOUS
  <2> QED BY <2>1 DEF PlaceStep
<1> HIDE DEF S, step
<1>3. \A k \in Nat : G(k) \in [0 .. k -> S] /\ Follows(G(k), k, 1, step)
  BY <1>1, OneFollows
<1> HIDE DEF G
<1>4. f[0] = 1
  BY <1>3 DEF Follows
<1>5. \A k \in Nat : f[k] \in S
  <2>1. \A k \in Nat : k \in 0 .. k
    OBVIOUS
  <2> QED BY <1>3, <2>1
<1>6. ASSUME NEW k \in Nat
      PROVE  f[k + 1] = base * f[k]
  <2>1. k + 1 \in Nat /\ k <= k + 1 /\ k \in 0 .. k + 1 - 1
    OBVIOUS
  <2>2. G(k)[k] = G(k + 1)[k]
    BY <1>3, <2>1, SameFollows
  <2>3. G(k + 1)[k + 1] = step[<< k, G(k + 1)[k] >>]
    BY <1>3, <2>1 DEF Follows
  <2>4. f[k] = G(k)[k] /\ f[k + 1] = G(k + 1)[k + 1] /\ f[k] \in S
    BY <1>5, <2>1
  <2> HIDE DEF f
  <2>5. f[k + 1] = step[<< k, f[k] >>]
    BY <2>2, <2>3, <2>4
  <2> QED BY <1>2, <2>4, <2>5
<1>7. DOMAIN f = Nat /\ f = [k \in Nat |-> f[k]]
  OBVIOUS
<1> HIDE DEF f
<1>8. Is(f)
  <2>1. ASSUME NEW k \in Nat, k # 0
        PROVE  f[k] = base * f[k - 1]
    <3>1. k - 1 \in Nat /\ (k - 1) + 1 = k
      BY <2>1
    <3> QED BY <1>6, <3>1
  <2>2. \A k \in Nat : f[k] = IF k = 0 THEN 1 ELSE base * f[k - 1]
    BY <1>4, <2>1
  <2> QED BY <1>7, <2>2
<1>9. Place[base] = CHOOSE p : Is(p)
  BY DEF Place
<1>10. Is(Place[base])
  <2> HIDE DEF Is
  <2> QED BY <1>8, <1>9
<1> DEFINE q == Place[base]
<1>11. \A k \in Nat : q[k] = IF k = 0 THEN 1 ELSE base * q[k - 1]
  <2>1. q = [k \in Nat |-> IF k = 0 THEN 1 ELSE base * q[k - 1]]
    BY <1>10
  <2> HIDE DEF q
  <2> QED BY <2>1
<1> HIDE DEF Is, q
<1>12. q[0] = 1
  BY <1>11
<1>13. \A k \in Nat : q[k + 1] = base * q[k]
  <2> TAKE k \in Nat
  <2>1. k + 1 \in Nat /\ k + 1 # 0 /\ (k + 1) - 1 = k
    OBVIOUS
  <2>2. q[k + 1] = base * q[(k + 1) - 1]
    BY <1>11, <2>1
  <2> QED BY <2>1, <2>2
<1>14. Nat \subseteq {k \in Nat : q[k] \in Nat \ {0}}
  <2>1. ASSUME NEW k \in Nat, q[k] \in Nat \ {0}
        PROVE  q[k + 1] \in Nat \ {0}
    <3>1. q[k + 1] = base * q[k]
      BY <1>13
    <3> QED BY <2>1, <3>1
  <2>2. \A k \in Nat :
           k \in {i \in Nat : q[i] \in Nat \ {0}}
              => k + 1 \in {i \in Nat : q[i] \in Nat \ {0}}
    BY <2>1
  <2>3. 0 \in {k \in Nat : q[k] \in Nat \ {0}}
    BY <1>12
  <2> QED BY <2>2, <2>3, Counting
<1>15. \A k \in Nat : q[k] \in Nat \ {0}
  BY <1>14
<1> QED BY <1>12, <1>13, <1>15 DEF q

LEMMA PlaceGrows ==
  ASSUME NEW base \in {8, 10, 16}
  PROVE  /\ \A i \in Nat : i < Place[base][i] /\ Place[base][i] < Place[base][i + 1]
         /\ \A j \in Nat : \A i \in 0 .. j : Place[base][i] <= Place[base][j]
<1> DEFINE P == Place[base]
           H == {k \in Nat : k < P[k]}
           M == {k \in Nat : \A i \in 0 .. k : P[i] <= P[k]}
<1>1. P[0] = 1 /\ \A i \in Nat : P[i] \in Nat \ {0} /\ P[i + 1] = base * P[i]
  BY PlaceIs
<1> HIDE DEF P
<1>2. ASSUME NEW x \in Nat \ {0}
      PROVE  x < base * x
  <2>1. CASE base = 8
    BY <2>1
  <2>2. CASE base = 10
    BY <2>2
  <2>3. CASE base = 16
    BY <2>3
  <2> QED BY <2>1, <2>2, <2>3
<1>3. \A i \in Nat : P[i] < P[i + 1]
  BY <1>1, <1>2
<1>4. Nat \subseteq H
  <2>1. 0 \in H
    BY <1>1
  <2>2. ASSUME NEW k \in Nat, k \in H PROVE k + 1 \in H
    <3>1. k + 1 \in Nat /\ P[k + 1] \in Nat /\ P[k] \in Nat /\ P[k] < P[k + 1] /\ k < P[k]
      BY <1>1, <1>3, <2>2
    <3> QED BY <3>1
  <2> HIDE DEF H
  <2> QED BY <2>1, <2>2, Counting
<1>5. Nat \subseteq M
  <2>1. 0 \in M
    BY <1>1
  <2>2. ASSUME NEW k \in Nat, k \in M PROVE k + 1 \in M
    <3>1. k + 1 \in Nat /\ P[k + 1] \in Nat /\ P[k] \in Nat /\ P[k] < P[k + 1]
      BY <1>1, <1>3
    <3>2. ASSUME NEW i \in 0 .. k + 1 PROVE P[i] <= P[k + 1]
      <4>1. CASE i = k + 1
        BY <3>1, <4>1
      <4>2. CASE i # k + 1
        <5>1. i \in 0 .. k
          BY <4>2
        <5>2. P[i] <= P[k] /\ P[i] \in Nat
          BY <1>1, <2>2, <5>1
        <5> QED BY <3>1, <5>2
      <4> QED BY <4>1, <4>2
    <3> QED BY <3>1, <3>2
  <2> HIDE DEF M
  <2> QED BY <2>1, <2>2, Counting
<1>6. \A i \in Nat : i < P[i]
  BY <1>4
<1>7. \A j \in Nat : \A i \in 0 .. j : P[i] <= P[j]
  BY <1>5
<1> QED BY <1>3, <1>6, <1>7 DEF P

Fits(v, base, k) == v < Place[base][k] /\ (k > 1 => Place[base][k - 1] <= v)

LEMMA PlacesAre ==
  ASSUME NEW base \in {8, 10, 16}, NEW v \in Nat, NEW k \in Nat \ {0}, Fits(v, base, k)
  PROVE  Places(v, base) = k
<1> DEFINE P == Place[base]
<1>1. \A i \in Nat : P[i] \in Nat /\ i < P[i]
  BY PlaceIs, PlaceGrows
<1>2. \A j \in Nat : \A i \in 0 .. j : P[i] <= P[j]
  BY PlaceGrows
<1>3. ASSUME NEW x \in Nat \ {0}, NEW y \in Nat \ {0}, Fits(v, base, x), Fits(v, base, y)
      PROVE  ~(x < y)
  <2> SUFFICES ASSUME x < y PROVE FALSE
    OBVIOUS
  <2>1. y - 1 \in Nat /\ x \in 0 .. y - 1 /\ y > 1
    OBVIOUS
  <2>2. v < P[x] /\ P[y - 1] <= v
    BY <1>3, <2>1 DEF Fits
  <2> HIDE DEF P
  <2>3. P[x] <= P[y - 1] /\ P[x] \in Nat /\ P[y - 1] \in Nat
    BY <1>1, <1>2, <2>1
  <2> QED BY <2>2, <2>3
<1>4. k \in 1 .. v + 1
  <2>1. CASE k = 1
    BY <2>1
  <2>2. CASE k # 1
    <3>1. k - 1 \in Nat /\ P[k - 1] <= v
      BY <2>2 DEF Fits
    <3> HIDE DEF P
    <3>2. k - 1 < P[k - 1] /\ P[k - 1] \in Nat
      BY <1>1, <3>1
    <3> QED BY <3>1, <3>2
  <2> QED BY <2>1, <2>2
<1> DEFINE c == CHOOSE x \in 1 .. v + 1 : Fits(v, base, x)
<1>5. Places(v, base) = c
  BY DEF Places, Fits
<1>6. c \in 1 .. v + 1 /\ Fits(v, base, c)
  BY <1>4
<1> HIDE DEF c
<1>7. c \in Nat \ {0}
  BY <1>6
<1>8. ~(c < k) /\ ~(k < c)
  BY <1>3, <1>6, <1>7
<1> QED BY <1>5, <1>7, <1>8

LEMMA PlacesExist ==
  ASSUME NEW base \in {8, 10, 16}, NEW v \in Nat
  PROVE  \E k \in Nat \ {0} : Fits(v, base, k)
<1> DEFINE P == Place[base]
           T == {i \in Nat \ {0} : v < P[i]}
<1>1. \A i \in Nat : P[i] \in Nat /\ i < P[i]
  BY PlaceIs, PlaceGrows
<1> HIDE DEF P
<1>2. v + 1 \in T
  <2>1. v + 1 \in Nat
    OBVIOUS
  <2>2. v + 1 < P[v + 1] /\ P[v + 1] \in Nat
    BY <1>1, <2>1
  <2> QED BY <2>2
<1>3. PICK k \in T : \A o \in T : k <= o
  <2>1. T \subseteq Nat /\ T # {}
    BY <1>2
  <2> HIDE DEF T
  <2> QED BY <2>1, Least
<1>4. ASSUME k > 1 PROVE P[k - 1] <= v
  <2>1. k - 1 \in Nat \ {0} /\ ~(k <= k - 1)
    BY <1>4
  <2>2. ~(v < P[k - 1]) /\ P[k - 1] \in Nat
    BY <1>1, <1>3, <2>1
  <2> QED BY <2>2
<1> QED BY <1>3, <1>4 DEF Fits, P

-----------------------------------------------------------------------------
(* Division by one number and then by another.                             *)
LEMMA Remainders ==
  ASSUME NEW s \in Nat, NEW q \in Nat, NEW t \in Nat, NEW p \in Nat, NEW w \in Nat,
         t < s, w < s, q * s + t = p * s + w
  PROVE  q = p
<1>1. CASE q < p
  <2>1. PICK d \in Nat : p = q + 1 + d
    BY <1>1, p - q - 1 \in Nat
  <2>2. p * s = q * s + s + d * s
    BY <2>1
  <2>3. d * s \in Nat
    OBVIOUS
  <2> QED BY <2>2, <2>3
<1>2. CASE p < q
  <2>1. PICK d \in Nat : q = p + 1 + d
    BY <1>2, q - p - 1 \in Nat
  <2>2. q * s = p * s + s + d * s
    BY <2>1
  <2>3. d * s \in Nat
    OBVIOUS
  <2> QED BY <2>2, <2>3
<1> QED BY <1>1, <1>2

LEMMA Division ==
  \A d \in Nat \ {0}, a \in Nat :
    /\ a \div d \in Nat
    /\ a % d \in 0 .. d - 1
    /\ a = (a \div d) * d + (a % d)
  BY SMTT(30)

LEMMA DivTwice ==
  ASSUME NEW v \in Nat, NEW a \in Nat \ {0}, NEW b \in Nat \ {0}
  PROVE  (v \div a) \div b = v \div (b * a)
<1> DEFINE q == v \div a
           r == v % a
           s == q \div b
           t == q % b
           D == b * a
           u == v \div D
           w == v % D
<1>1. D \in Nat \ {0}
  OBVIOUS
<1>2. q \in Nat /\ r \in 0 .. a - 1 /\ v = q * a + r
  BY Division
<1> HIDE DEF q, r
<1>3. s \in Nat /\ t \in 0 .. b - 1 /\ q = s * b + t
  BY <1>2, Division
<1> HIDE DEF s, t
<1>4. u \in Nat /\ w \in 0 .. D - 1 /\ v = u * D + w
  <2> HIDE DEF D
  <2> QED BY <1>1, Division
<1> HIDE DEF u, w
<1> DEFINE x == t * a + r
<1>5. x \in Nat /\ x < D
  <2>1. PICK c \in Nat : b = t + 1 + c
    BY <1>3, b - t - 1 \in Nat
  <2>2. D = t * a + a + c * a /\ c * a \in Nat /\ t * a \in Nat
    BY <1>3, <2>1
  <2> HIDE DEF D
  <2> QED BY <1>2, <1>3, <2>2
<1>6. s * D + x = u * D + w
  <2>1. s * D = (s * b) * a
    BY <1>3
  <2>2. (s * b + t) * a = (s * b) * a + t * a
    BY <1>3
  <2>3. v = s * D + x
    BY <1>1, <1>2, <1>3, <2>1, <2>2
  <2> QED BY <1>4, <2>3
<1> HIDE DEF x, D
<1>7. w \in Nat /\ w < D
  BY <1>1, <1>4
<1>8. s = u
  BY <1>1, <1>3, <1>4, <1>5, <1>6, <1>7, Remainders
<1> QED BY <1>8 DEF s, u, q, D

-----------------------------------------------------------------------------
(* A numeral has a digit for each place.                                   *)
NumeralDigit(v, base, k, i) == digits[((v \div Place[base][k - i]) % base) + 1]

LEMMA NumeralIs ==
  ASSUME NEW base \in {8, 10, 16}, NEW v \in Nat
  PROVE  \E k \in Nat \ {0} : /\ k = Places(v, base) /\ Fits(v, base, k)
                              /\ Numeral(v, base) = [i \in 1 .. k |-> NumeralDigit(v, base, k, i)]
<1>1. PICK k \in Nat \ {0} : Fits(v, base, k)
  BY PlacesExist
<1>2. Places(v, base) = k
  BY <1>1, PlacesAre
<1> QED BY <1>1, <1>2 DEF Numeral, NumeralDigit

LEMMA NumeralFits ==
  ASSUME NEW base \in {8, 10, 16}, NEW v \in Nat, NEW k \in Nat \ {0}, Fits(v, base, k)
  PROVE  Numeral(v, base) = [i \in 1 .. k |-> NumeralDigit(v, base, k, i)]
  BY PlacesAre DEF Numeral, NumeralDigit

Digits16 == {digits[i] : i \in 1 .. 16}

LEMMA NumeralType ==
  ASSUME NEW base \in {8, 10, 16}, NEW v \in Nat, NEW C, \A i \in 1 .. 16 : digits[i] \in C
  PROVE  Numeral(v, base) \in Seq(C) /\ Len(Numeral(v, base)) = Places(v, base)
<1>1. PICK k \in Nat \ {0} :
        /\ k = Places(v, base)
        /\ Numeral(v, base) = [i \in 1 .. k |-> NumeralDigit(v, base, k, i)]
  BY NumeralIs
<1>2. ASSUME NEW i \in 1 .. k
      PROVE  NumeralDigit(v, base, k, i) \in C
  <2>1. PICK P \in Nat \ {0} : P = Place[base][k - i]
    <3>1. k - i \in Nat
      OBVIOUS
    <3> QED BY <3>1, PlaceIs
  <2>2. PICK x \in Nat : x = v \div P
    BY Division
  <2>3. (x % base) + 1 \in 1 .. 16
    BY FewerDigits
  <2> QED BY <2>1, <2>2, <2>3 DEF NumeralDigit
<1>3. [i \in 1 .. k |-> NumeralDigit(v, base, k, i)] \in Seq(C)
  BY <1>2, SeqDef
<1>4. Len([i \in 1 .. k |-> NumeralDigit(v, base, k, i)]) = k
  OBVIOUS
<1> QED BY <1>1, <1>3, <1>4

LEMMA LastPlace ==
  ASSUME NEW base \in {8, 10, 16}, NEW v \in Nat, NEW k \in Nat
  PROVE  NumeralDigit(v, base, k, k) = digits[(v % base) + 1]
<1>1. k - k = 0 /\ Place[base][0] = 1
  BY PlaceIs
<1>2. v \div 1 = v
  OBVIOUS
<1> QED BY <1>1, <1>2 DEF NumeralDigit

LEMMA NumeralSmall ==
  ASSUME NEW base \in {8, 10, 16}, NEW v \in Nat, v < base
  PROVE  Numeral(v, base) = << digits[v + 1] >>
<1>1. Place[base][0] = 1 /\ Place[base][0 + 1] = base * Place[base][0]
  BY PlaceIs
<1>2. Fits(v, base, 1)
  <2>1. Place[base][1] = base
    BY <1>1
  <2> QED BY <2>1 DEF Fits
<1>3. Numeral(v, base) = [i \in 1 .. 1 |-> NumeralDigit(v, base, 1, i)]
  <2>1. 1 \in Nat \ {0}
    OBVIOUS
  <2> QED BY <1>2, <2>1, NumeralFits
<1>4. NumeralDigit(v, base, 1, 1) = digits[(v % base) + 1]
  <2>1. 1 \in Nat
    OBVIOUS
  <2> QED BY <2>1, LastPlace
<1>5. v % base = v
  <2>1. CASE base = 8
    BY <2>1
  <2>2. CASE base = 10
    BY <2>2
  <2>3. CASE base = 16
    BY <2>3
  <2> QED BY <2>1, <2>2, <2>3
<1>6. [i \in 1 .. 1 |-> NumeralDigit(v, base, 1, i)] = << digits[v + 1] >>
  BY <1>4, <1>5
<1> QED BY <1>3, <1>6

LEMMA FitsShorter ==
  ASSUME NEW base \in {8, 10, 16}, NEW v \in Nat, v >= base, NEW k \in Nat \ {0}, Fits(v, base, k)
  PROVE  k - 1 \in Nat \ {0} /\ v \div base \in Nat /\ Fits(v \div base, base, k - 1)
<1> DEFINE P == Place[base]
           q == v \div base
<1>1. P[0] = 1 /\ \A i \in Nat : P[i] \in Nat \ {0} /\ P[i + 1] = base * P[i]
  BY PlaceIs
<1>2. v < P[k] /\ (k > 1 => P[k - 1] <= v)
  BY DEF Fits
<1> HIDE DEF P
<1>3. k # 1
  <2> SUFFICES ASSUME k = 1 PROVE FALSE
    OBVIOUS
  <2>1. P[0 + 1] = base * P[0]
    BY <1>1
  <2>2. P[1] = base
    BY <1>1, <2>1
  <2> QED BY <1>2, <2>2
<1> PICK m \in Nat : m = k - 2
  BY <1>3
<1>4. P[m] \in Nat /\ P[m + 1] = base * P[m] /\ P[m + 1] \in Nat
  <2>1. m + 1 \in Nat
    OBVIOUS
  <2> QED BY <1>1, <2>1
<1>5. k = m + 2 /\ k - 1 = m + 1
  OBVIOUS
<1>6. P[k] = base * P[m + 1]
  <2>1. m + 1 \in Nat /\ (m + 1) + 1 = k
    OBVIOUS
  <2>2. P[(m + 1) + 1] = base * P[m + 1]
    BY <1>1, <2>1
  <2> QED BY <2>1, <2>2
<1>7. v < base * P[m + 1] /\ base * P[m] <= v
  <2>1. k > 1
    BY <1>3
  <2> QED BY <1>2, <1>4, <1>5, <1>6, <2>1
<1>8. ASSUME NEW a \in Nat, NEW b \in Nat, v < base * a, base * b <= v
      PROVE  q \in Nat /\ q < a /\ b <= q
  <2>1. CASE base = 8
    BY <1>8, <2>1
  <2>2. CASE base = 10
    BY <1>8, <2>2
  <2>3. CASE base = 16
    BY <1>8, <2>3
  <2> QED BY <2>1, <2>2, <2>3
<1>9. q \in Nat /\ q < P[m + 1] /\ P[m] <= q
  BY <1>4, <1>7, <1>8
<1> HIDE DEF q
<1>10. (m + 1) - 1 = m
  OBVIOUS
<1>11. Fits(q, base, m + 1)
  BY <1>9, <1>10 DEF Fits, P
<1> QED BY <1>5, <1>9, <1>11 DEF q

LEMMA NumeralAppend ==
  ASSUME NEW base \in {8, 10, 16}, NEW v \in Nat, v >= base
  PROVE  Numeral(v, base) = Append(Numeral(v \div base, base), digits[(v % base) + 1])
<1> DEFINE q == v \div base
<1>1. PICK k \in Nat \ {0} : Fits(v, base, k)
  BY PlacesExist
<1>2. k - 1 \in Nat \ {0} /\ q \in Nat /\ Fits(q, base, k - 1)
  BY <1>1, FitsShorter
<1> PICK m \in Nat \ {0} : m = k - 1
  BY <1>2
<1>3. Numeral(v, base) = [i \in 1 .. m + 1 |-> NumeralDigit(v, base, m + 1, i)]
  <2>1. k = m + 1
    OBVIOUS
  <2>2. Numeral(v, base) = [i \in 1 .. k |-> NumeralDigit(v, base, k, i)]
    BY <1>1, NumeralFits
  <2> QED BY <2>1, <2>2
<1>4. Numeral(q, base) = [i \in 1 .. m |-> NumeralDigit(q, base, m, i)]
  <2>1. Fits(q, base, m)
    BY <1>2
  <2> HIDE DEF q
  <2> QED BY <1>2, <2>1, NumeralFits
<1>5. ASSUME NEW i \in 1 .. m
      PROVE  NumeralDigit(v, base, m + 1, i) = NumeralDigit(q, base, m, i)
  <2> PICK j \in Nat : j = m - i
    OBVIOUS
  <2>1. (m + 1) - i = j + 1 /\ m - i = j
    OBVIOUS
  <2>2. Place[base][j] \in Nat \ {0} /\ Place[base][j + 1] = base * Place[base][j]
    BY PlaceIs
  <2>3. q \div Place[base][j] = v \div Place[base][j + 1]
    <3>1. PICK P \in Nat \ {0} : P = Place[base][j]
      BY <2>2
    <3>2. base \in Nat \ {0} /\ base * P = P * base
      OBVIOUS
    <3>3. (v \div base) \div P = v \div (P * base)
      BY <3>2, DivTwice
    <3> QED BY <2>2, <3>1, <3>2, <3>3
  <2> QED BY <2>1, <2>3 DEF NumeralDigit
<1>6. NumeralDigit(v, base, m + 1, m + 1) = digits[(v % base) + 1]
  <2>1. PICK o \in Nat : o = m + 1
    OBVIOUS
  <2>2. NumeralDigit(v, base, o, o) = digits[(v % base) + 1]
    BY LastPlace
  <2> QED BY <2>1, <2>2
<1> DEFINE c == digits[(v % base) + 1]
           f == [i \in 1 .. m |-> NumeralDigit(q, base, m, i)]
           g == [i \in 1 .. m + 1 |-> NumeralDigit(v, base, m + 1, i)]
<1>7. f \in Seq(Digits16) /\ Len(f) = m /\ g \in Seq(Digits16) /\ Len(g) = m + 1 /\ c \in Digits16
  <2>1. Numeral(v, base) = g /\ Numeral(q, base) = f
    BY <1>3, <1>4
  <2>2. (v % base) + 1 \in 1 .. 16
    BY FewerDigits
  <2>3. Numeral(v, base) \in Seq(Digits16) /\ Numeral(q, base) \in Seq(Digits16)
    <3>1. \A i \in 1 .. 16 : digits[i] \in Digits16
      BY DEF Digits16
    <3> HIDE DEF q
    <3>2. q \in Nat
      BY <1>2
    <3>3. Numeral(v, base) \in Seq(Digits16)
      BY <3>1, NumeralType
    <3>4. Numeral(q, base) \in Seq(Digits16)
      BY <3>1, <3>2, NumeralType
    <3> QED BY <3>3, <3>4
  <2>4. Len(f) = m /\ Len(g) = m + 1
    OBVIOUS
  <2>5. c \in Digits16
    BY <2>2 DEF Digits16
  <2> HIDE DEF f, g, c
  <2> QED BY <2>1, <2>3, <2>4, <2>5
<1>8. (\A i \in 1 .. m : g[i] = f[i]) /\ g[m + 1] = c
  <2>1. \A i \in 1 .. m : i \in 1 .. m + 1
    OBVIOUS
  <2> QED BY <1>5, <1>6, <2>1
<1>9. Numeral(v, base) = g /\ Numeral(q, base) = f
  BY <1>3, <1>4
<1> HIDE DEF f, g, c
<1> DEFINE h == Append(f, c)
<1>10. /\ h \in Seq(Digits16) /\ Len(h) = m + 1
       /\ \A i \in 1 .. m : h[i] = f[i]
       /\ h[m + 1] = c
  BY <1>7, AppendProperties
<1> HIDE DEF h
<1>11. \A i \in 1 .. m + 1 : g[i] = h[i]
  <2> TAKE i \in 1 .. m + 1
  <2>1. i \in 1 .. m \/ i = m + 1
    OBVIOUS
  <2> QED BY <1>8, <1>10, <2>1
<1>12. g = h
  BY <1>7, <1>10, <1>11, SeqEqual
<1> QED BY <1>9, <1>12 DEF c, h

(***************************************************************************)
(* The digits that printnum() puts, found by its recursion, are those of   *)
(* the number's places.                                                    *)
(***************************************************************************)
LEMMA DigitsAre ==
  ASSUME NEW base \in {8, 10, 16}, NEW num \in Unsigned
  PROVE  DigitsOf[base][num] = Numeral(num, base)
<1> DEFINE d == DigitsOf[base]
           H == {m \in Nat : \A k \in Unsigned : k <= m => d[k] = Numeral(k, base)}
<1>1. Unsigned \subseteq Nat /\ \A k \in Unsigned : 0 .. k \subseteq Unsigned
  BY PowerAssumption DEF Unsigned
<1>2. ASSUME NEW k \in Unsigned, \A j \in 0 .. k - 1 : d[j] = Numeral(j, base)
      PROVE  d[k] = Numeral(k, base)
  <2>1. d[k] = DigitsFrom(d, base, k) /\ k \in Nat
    BY <1>1, DigitsRecursion
  <2>2. CASE k >= base
    <3>1. k \div base \in 0 .. k - 1
      BY <2>1, <2>2, FewerDigits
    <3>2. Numeral(k, base) = Append(Numeral(k \div base, base), digits[(k % base) + 1])
      BY <2>1, <2>2, NumeralAppend
    <3>3. d[k \div base] = Numeral(k \div base, base)
      BY <1>2, <3>1
    <3> QED BY <2>1, <2>2, <3>2, <3>3 DEF DigitsFrom
  <2>3. CASE k < base
    <3>1. Numeral(k, base) = << digits[k + 1] >>
      BY <2>1, <2>3, NumeralSmall
    <3>2. ~(k >= base)
      BY <2>1, <2>3
    <3> QED BY <2>1, <3>1, <3>2 DEF DigitsFrom
  <2> QED BY <2>1, <2>2, <2>3
<1> HIDE DEF d
<1>3. 0 \in H
  <2>1. ASSUME NEW k \in Unsigned, k <= 0 PROVE d[k] = Numeral(k, base)
    <3>1. k = 0
      BY <1>1, <2>1
    <3> QED BY <1>2, <3>1
  <2> QED BY <2>1
<1>4. ASSUME NEW m \in Nat, m \in H
      PROVE  m + 1 \in H
  <2>1. ASSUME NEW k \in Unsigned, k <= m + 1
        PROVE  d[k] = Numeral(k, base)
    <3>1. \A j \in 0 .. k - 1 : j \in Unsigned /\ j <= m
      <4> TAKE j \in 0 .. k - 1
      <4>1. k \in Nat /\ j \in 0 .. k
        BY <1>1
      <4> QED BY <1>1, <2>1, <4>1
    <3>2. \A j \in 0 .. k - 1 : d[j] = Numeral(j, base)
      BY <1>4, <3>1
    <3> QED BY <1>2, <3>2
  <2> QED BY <2>1
<1>5. num \in Nat /\ num \in H
  <2> HIDE DEF H
  <2>1. \A k \in Nat : k \in H => k + 1 \in H
    BY <1>4
  <2> QED BY <1>1, <1>3, <2>1, Counting
<1> QED BY <1>5 DEF d

-----------------------------------------------------------------------------
(* A number's digits give the number back, read one after the other.       *)
LEMMA DigitsDiffer ==
  \A x, y \in 1 .. 16 : digits[x] = digits[y] => x = y
<1>1. 1 .. 16 = {1, 2, 3, 4, 5, 6, 7, 8, 9, 10, 11, 12, 13, 14, 15, 16}
  OBVIOUS
<1>2. /\ digits[1] = "0" /\ digits[2] = "1" /\ digits[3] = "2" /\ digits[4] = "3"
      /\ digits[5] = "4" /\ digits[6] = "5" /\ digits[7] = "6" /\ digits[8] = "7"
      /\ digits[9] = "8" /\ digits[10] = "9" /\ digits[11] = "a" /\ digits[12] = "b"
      /\ digits[13] = "c" /\ digits[14] = "d" /\ digits[15] = "e" /\ digits[16] = "f"
  BY DEF digits
<1> QED BY <1>1, <1>2

LEMMA DigitOf ==
  ASSUME NEW x \in 0 .. 9
  PROVE  /\ digits[x + 1] \in DecimalDigits /\ Digit(digits[x + 1]) = x
         /\ x # 0 => digits[x + 1] # "0"
<1> DEFINE c == digits[x + 1]
           m == CHOOSE k \in 1 .. 16 : digits[k] = c
<1>1. x + 1 \in 1 .. 16 /\ x + 1 \in 1 .. 10
  OBVIOUS
<1>2. m \in 1 .. 16 /\ digits[m] = c
  BY <1>1
<1>3. Digit(c) = m - 1
  BY DEF Digit
<1>4. m = x + 1
  <2> HIDE DEF m
  <2> QED BY <1>1, <1>2, DigitsDiffer
<1>5. digits[x + 1] \in DecimalDigits
  BY <1>1 DEF DecimalDigits
<1>6. ASSUME x # 0 PROVE digits[x + 1] # "0"
  <2>1. digits[1] = "0"
    BY DEF digits
  <2>2. digits[x + 1] = digits[1] => x + 1 = 1
    BY <1>1, DigitsDiffer
  <2> QED BY <1>6, <2>1, <2>2
<1> HIDE DEF m, c
<1>7. Digit(c) = x
  BY <1>3, <1>4
<1> QED BY <1>5, <1>6, <1>7 DEF c

Read(v, j) == v \div Place[10][Places(v, 10) - j]

LEMMA NumeralReads ==
  ASSUME NEW v \in Nat \ {0}
  PROVE  \E k \in Nat \ {0} :
           /\ k = Len(Numeral(v, 10)) /\ Read(v, 0) = 0 /\ Read(v, k) = v
           /\ \A j \in 0 .. k : Read(v, j) \in Nat
           /\ \A j \in 0 .. k - 1 :
                /\ Numeral(v, 10)[j + 1] \in DecimalDigits
                /\ Read(v, j + 1) = 10 * Read(v, j) + Digit(Numeral(v, 10)[j + 1])
           /\ Numeral(v, 10)[1] # "0"
<1>1. 10 \in {8, 10, 16} /\ v \in Nat
  OBVIOUS
<1> PICK base \in {8, 10, 16} : base = 10
  OBVIOUS
<1>2. PICK k \in Nat \ {0} :
        /\ k = Places(v, base) /\ Fits(v, base, k)
        /\ Numeral(v, base) = [i \in 1 .. k |-> NumeralDigit(v, base, k, i)]
  BY <1>1, NumeralIs
<1> DEFINE P == Place[base]
<1>3. P[0] = 1 /\ \A i \in Nat : P[i] \in Nat \ {0} /\ P[i + 1] = 10 * P[i]
  BY PlaceIs
<1>4. v < P[k] /\ (k > 1 => P[k - 1] <= v)
  BY <1>2 DEF Fits
<1>5. \A j : Read(v, j) = v \div P[k - j]
  BY <1>2 DEF Read
<1>6. \A j \in 1 .. k : Numeral(v, base)[j] = digits[(Read(v, j) % 10) + 1]
  BY <1>2, <1>5 DEF NumeralDigit
<1>7. \A j \in 0 .. k : Read(v, j) \in Nat
  <2> TAKE j \in 0 .. k
  <2> HIDE DEF P
  <2>1. PICK p \in Nat \ {0} : p = P[k - j]
    <3>1. k - j \in Nat
      OBVIOUS
    <3> QED BY <1>3, <3>1
  <2>2. v \div p \in Nat
    BY Division
  <2> QED BY <1>5, <2>1, <2>2
<1>8. Read(v, 0) = 0
  <2> HIDE DEF P
  <2>1. PICK p \in Nat \ {0} : p = P[k]
    BY <1>3
  <2>2. v \div p \in Nat /\ v % p \in 0 .. p - 1 /\ v = (v \div p) * p + (v % p)
    BY Division
  <2>3. PICK q \in Nat, r \in 0 .. p - 1 : q = v \div p /\ v = q * p + r
    BY <2>2
  <2>4. q = 0
    <3>1. r \in Nat /\ r < p /\ v < p /\ 0 * p + v = q * p + r
      BY <1>4, <2>1, <2>3
    <3>2. 0 = q
      BY <3>1, Remainders
    <3> QED BY <3>2
  <2>5. k - 0 = k
    OBVIOUS
  <2> QED BY <1>5, <2>1, <2>3, <2>4, <2>5
<1>9. Read(v, k) = v
  <2>1. k - k = 0 /\ v \div 1 = v
    OBVIOUS
  <2> HIDE DEF P
  <2> QED BY <1>3, <1>5, <2>1
<1>10. ASSUME NEW j \in 0 .. k - 1
       PROVE  /\ Numeral(v, base)[j + 1] \in DecimalDigits
              /\ Read(v, j + 1) = 10 * Read(v, j) + Digit(Numeral(v, base)[j + 1])
  <2> PICK i \in Nat : i = k - (j + 1)
    OBVIOUS
  <2>1. i + 1 = k - j
    OBVIOUS
  <2>0. j + 1 \in 0 .. k /\ j + 1 \in 1 .. k
    OBVIOUS
  <2> PICK x \in Nat : x = Read(v, j + 1)
    <3> HIDE DEF P
    <3>1. Read(v, j + 1) \in Nat
      BY <1>7, <2>0
    <3> QED BY <3>1
  <2>2. Read(v, j) = x \div 10
    <3> HIDE DEF P
    <3>1. PICK p \in Nat \ {0} : p = P[i] /\ P[i + 1] = 10 * p
      BY <1>3
    <3>2. (v \div p) \div 10 = v \div (10 * p)
      <4>1. PICK b \in Nat \ {0} : b = 10
        OBVIOUS
      <4>2. (v \div p) \div b = v \div (b * p)
        BY DivTwice
      <4> QED BY <4>1, <4>2
    <3>3. x = v \div P[k - (j + 1)] /\ Read(v, j) = v \div P[k - j]
      BY <1>5
    <3>4. x = v \div p /\ Read(v, j) = v \div (10 * p)
      BY <2>1, <3>1, <3>3
    <3> QED BY <3>2, <3>4
  <2>3. x % 10 \in 0 .. 9 /\ x = 10 * (x \div 10) + (x % 10)
    OBVIOUS
  <2>4. Numeral(v, base)[j + 1] = digits[(x % 10) + 1]
    <3> HIDE DEF P
    <3> QED BY <1>6, <2>0
  <2> PICK y \in 0 .. 9 : y = x % 10
    BY <2>3
  <2>5. digits[y + 1] \in DecimalDigits /\ Digit(digits[y + 1]) = y
    BY DigitOf
  <2> QED BY <2>2, <2>3, <2>4, <2>5
<1>11. Numeral(v, base)[1] # "0"
  <2> HIDE DEF P
  <2>1. PICK p \in Nat \ {0} : p = P[k - 1] /\ P[k] = 10 * p
    <3>1. k - 1 \in Nat /\ (k - 1) + 1 = k
      OBVIOUS
    <3> QED BY <1>3, <3>1
  <2>2. PICK x \in Nat : x = Read(v, 1) /\ x = v \div p
    <3>1. 1 \in 0 .. k
      OBVIOUS
    <3> QED BY <1>5, <1>7, <2>1, <3>1
  <2>3. 10 * Read(v, 0) = 0 /\ 0 \in 0 .. k - 1 /\ 0 + 1 = 1
    BY <1>8
  <2>4. x = Digit(Numeral(v, base)[1]) /\ Numeral(v, base)[1] \in DecimalDigits
    <3>1. Read(v, 0 + 1) = 10 * Read(v, 0) + Digit(Numeral(v, base)[0 + 1])
      BY <1>10, <2>3
    <3>2. Numeral(v, base)[0 + 1] \in DecimalDigits
      BY <1>10, <2>3
    <3>3. Digit(Numeral(v, base)[1]) \in Int
      BY <2>3, <3>2, DigitType
    <3> QED BY <2>2, <2>3, <3>1, <3>2, <3>3
  <2>5. x # 0
    <3> SUFFICES ASSUME x = 0 PROVE FALSE
      OBVIOUS
    <3>1. v % p \in 0 .. p - 1 /\ v = (v \div p) * p + (v % p)
      BY Division
    <3>2. v = v % p
      BY <2>2, <3>1
    <3>3. CASE k > 1
      BY <1>4, <2>1, <3>1, <3>2, <3>3
    <3>4. CASE ~(k > 1)
      <4>1. k - 1 = 0
        BY <3>4
      <4>2. p = 1
        BY <1>3, <2>1, <4>1
      <4> QED BY <3>1, <3>2, <4>2
    <3> QED BY <3>3, <3>4
  <2>6. SUFFICES ASSUME Numeral(v, base)[1] = "0" PROVE FALSE
    OBVIOUS
  <2>7. digits[0 + 1] = "0" /\ 0 \in 0 .. 9
    BY DEF digits
  <2>8. Digit("0") = 0
    BY <2>7, DigitOf
  <2> QED BY <2>4, <2>5, <2>6, <2>8
<1>12. k = Len(Numeral(v, base))
  BY <1>2
<1> QED BY <1>7, <1>8, <1>9, <1>10, <1>11, <1>12

-----------------------------------------------------------------------------
(* Sums and concatenations of the parts of a list.                         *)
Sums(g, p, top) == g = [k \in 0 .. top |-> IF k = 0 THEN 0 ELSE g[k - 1] + p[k]]

LEMMA SumExists ==
  ASSUME NEW top \in Nat, NEW p \in [1 .. top -> Nat]
  PROVE  \E g \in [0 .. top -> Nat] : Sums(g, p, top)
<1> DEFINE part == [j \in Nat |-> IF j + 1 \in 1 .. top THEN p[j + 1] ELSE 0]
           step == [x \in Nat \X Nat |-> x[2] + part[x[1]]]
<1>1. \A j \in Nat : part[j] \in Nat
  OBVIOUS
<1> HIDE DEF part
<1>2. step \in [Nat \X Nat -> Nat]
  BY <1>1
<1>3. \A j, x \in Nat : step[<< j, x >>] = x + part[j]
  <2> TAKE j, x \in Nat
  <2>1. << j, x >> \in Nat \X Nat /\ << j, x >>[1] = j /\ << j, x >>[2] = x
    OBVIOUS
  <2> QED BY <2>1
<1> HIDE DEF step
<1>4. PICK g \in [0 .. top -> Nat] : Follows(g, top, 0, step)
  BY <1>2, OneFollows
<1>5. ASSUME NEW k \in 0 .. top, k # 0
      PROVE  g[k] = g[k - 1] + p[k]
  <2> PICK j \in Nat : j = k - 1
    BY <1>5
  <2>1. j \in 0 .. top - 1 /\ j + 1 = k /\ g[j] \in Nat
    BY <1>4, <1>5
  <2>2. g[j + 1] = step[<< j, g[j] >>]
    BY <1>4, <2>1 DEF Follows
  <2>3. part[j] = p[k]
    BY <1>5, <2>1 DEF part
  <2> QED BY <1>3, <2>1, <2>2, <2>3
<1>6. g[0] = 0
  BY <1>4 DEF Follows
<1>7. \A k \in 0 .. top : g[k] = IF k = 0 THEN 0 ELSE g[k - 1] + p[k]
  BY <1>5, <1>6
<1>8. g = [k \in 0 .. top |-> IF k = 0 THEN 0 ELSE g[k - 1] + p[k]]
  BY <1>4, <1>7
<1> QED BY <1>8 DEF Sums

LEMMA SumIs ==
  ASSUME NEW top \in Nat, NEW p \in [1 .. top -> Nat], NEW g, Sums(g, p, top)
  PROVE  /\ g[0] = 0 /\ \A k \in 0 .. top : g[k] \in Nat /\ g[k] <= g[top]
         /\ \A k \in 0 .. top - 1 : g[k + 1] = g[k] + p[k + 1]
<1>1. \A k \in 0 .. top : g[k] = IF k = 0 THEN 0 ELSE g[k - 1] + p[k]
  BY DEF Sums
<1>2. g[0] = 0
  BY <1>1
<1>3. \A k \in 0 .. top - 1 : g[k + 1] = g[k] + p[k + 1]
  <2> TAKE k \in 0 .. top - 1
  <2>1. k + 1 \in 0 .. top /\ k + 1 # 0 /\ (k + 1) - 1 = k
    OBVIOUS
  <2>2. g[k + 1] = g[(k + 1) - 1] + p[k + 1]
    BY <1>1, <2>1
  <2> QED BY <2>1, <2>2
<1> DEFINE H == {m \in Nat : m <= top => g[m] \in Nat}
           M == {m \in Nat : m <= top => \A k \in 0 .. m : g[k] <= g[m]}
<1>4. \A m \in Nat : m <= top => g[m] \in Nat
  <2>1. 0 \in H
    BY <1>2
  <2>2. ASSUME NEW m \in Nat, m \in H
        PROVE  m + 1 \in H
    <3> SUFFICES ASSUME m + 1 <= top PROVE g[m + 1] \in Nat
      OBVIOUS
    <3>1. m \in 0 .. top - 1 /\ m + 1 \in 1 .. top /\ g[m] \in Nat
      BY <2>2
    <3>2. g[m + 1] = g[m] + p[m + 1] /\ p[m + 1] \in Nat
      BY <1>3, <3>1
    <3> QED BY <3>1, <3>2
  <2>3. Nat \subseteq H
    <3> HIDE DEF H
    <3> QED BY <2>1, <2>2, Counting
  <2> QED BY <2>3
<1>5. \A m \in Nat : m <= top => \A k \in 0 .. m : g[k] <= g[m]
  <2>1. 0 \in M
    BY <1>2
  <2>2. ASSUME NEW m \in Nat, m \in M
        PROVE  m + 1 \in M
    <3> SUFFICES ASSUME m + 1 <= top, NEW k \in 0 .. m + 1
                 PROVE  g[k] <= g[m + 1]
      OBVIOUS
    <3>1. m \in 0 .. top - 1 /\ m + 1 \in 1 .. top /\ m <= top /\ k \in Nat /\ k <= top
      OBVIOUS
    <3>2. g[m] \in Nat /\ g[k] \in Nat
      BY <1>4, <3>1
    <3>3. g[m + 1] = g[m] + p[m + 1] /\ p[m + 1] \in Nat
      BY <1>3, <3>1
    <3>4. CASE k = m + 1
      BY <3>2, <3>4
    <3>5. CASE k # m + 1
      <4>1. k \in 0 .. m
        BY <3>5
      <4>2. g[k] <= g[m]
        BY <2>2, <3>1, <4>1
      <4> QED BY <3>2, <3>3, <4>2
    <3> QED BY <3>4, <3>5
  <2>3. Nat \subseteq M
    <3> HIDE DEF M
    <3> QED BY <2>1, <2>2, Counting
  <2> QED BY <2>3
<1> QED BY <1>2, <1>3, <1>4, <1>5

Joins(g, p, top) == \A k \in 0 .. top : g[k] = IF k = 0 THEN << >> ELSE g[k - 1] \o p[k]

LEMMA JoinExists ==
  ASSUME NEW top \in Nat, NEW p
  PROVE  \E g : g = [k \in 0 .. top |-> IF k = 0 THEN << >> ELSE g[k - 1] \o p[k]]
<1> DEFINE H == {m \in Nat : \E g : Joins(g, p, m)}
<1>1. 0 \in H
  <2> DEFINE e == [k \in {0} |-> << >>]
  <2>1. e[0] = << >> /\ \A k \in 0 .. 0 : k = 0
    OBVIOUS
  <2> HIDE DEF e
  <2>2. Joins(e, p, 0)
    BY <2>1 DEF Joins
  <2> QED BY <2>2
<1>2. ASSUME NEW m \in Nat, m \in H
      PROVE  m + 1 \in H
  <2>1. PICK g : Joins(g, p, m)
    BY <1>2
  <2> DEFINE new == g[m] \o p[m + 1]
             h   == [k \in 0 .. m + 1 |-> IF k <= m THEN g[k] ELSE new]
  <2>2. \A k \in 0 .. m : k \in 0 .. m + 1 /\ k <= m
    OBVIOUS
  <2>3. (\A k \in 0 .. m : h[k] = g[k]) /\ h[m + 1] = new
    <3> HIDE DEF new
    <3> QED BY <2>2
  <2> HIDE DEF h, new
  <2>4. ASSUME NEW k \in 0 .. m + 1
        PROVE  h[k] = IF k = 0 THEN << >> ELSE h[k - 1] \o p[k]
    <3>1. CASE k = m + 1
      <4>1. k # 0 /\ k - 1 = m /\ m \in 0 .. m
        BY <3>1
      <4>2. h[k - 1] = g[m] /\ h[k] = g[m] \o p[k]
        BY <2>3, <3>1, <4>1 DEF new
      <4> QED BY <4>1, <4>2
    <3>2. CASE k # m + 1
      <4>1. k \in 0 .. m /\ (k # 0 => k - 1 \in 0 .. m)
        BY <3>2
      <4>2. g[k] = IF k = 0 THEN << >> ELSE g[k - 1] \o p[k]
        BY <2>1, <4>1 DEF Joins
      <4> QED BY <2>3, <4>1, <4>2
    <3> QED BY <3>1, <3>2
  <2>5. m + 1 \in Nat /\ Joins(h, p, m + 1)
    BY <2>4 DEF Joins
  <2> QED BY <2>5
<1>3. top \in H
  <2> HIDE DEF H
  <2>1. \A k \in Nat : k \in H => k + 1 \in H
    BY <1>2
  <2> QED BY <1>1, <2>1, Counting
<1>4. PICK g : Joins(g, p, top)
  BY <1>3
<1> DEFINE h == [k \in 0 .. top |-> g[k]]
<1>5. \A k \in 0 .. top : h[k] = g[k]
  OBVIOUS
<1>6. h = [k \in 0 .. top |-> IF k = 0 THEN << >> ELSE h[k - 1] \o p[k]]
  <2> HIDE DEF h
  <2>1. ASSUME NEW k \in 0 .. top
        PROVE  g[k] = IF k = 0 THEN << >> ELSE h[k - 1] \o p[k]
    <3>1. k # 0 => k - 1 \in 0 .. top
      OBVIOUS
    <3> QED BY <1>4, <1>5, <3>1 DEF Joins
  <2> QED BY <2>1 DEF h
<1> QED BY <1>6

(* The lists of the reference meaning.                                     *)
LEMMA StartIs ==
  ASSUME NEW m, Len(m) \in Nat, \A k \in 1 .. Len(m) : Len(Written(m[k])) \in Nat
  PROVE  /\ Start(m)[0] = 0
         /\ \A k \in 0 .. Len(m) : Start(m)[k] \in Nat /\ Start(m)[k] <= Start(m)[Len(m)]
         /\ \A k \in 0 .. Len(m) - 1 : Start(m)[k + 1] = Start(m)[k] + Len(Written(m[k + 1]))
<1> DEFINE p     == [k \in 1 .. Len(m) |-> Len(Written(m[k]))]
           Is(g) == g = [k \in 0 .. Len(m) |-> IF k = 0 THEN 0
                                               ELSE g[k - 1] + Len(Written(m[k]))]
           s     == Start(m)
<1>1. s = CHOOSE g : Is(g)
  BY DEF Start
<1>2. p \in [1 .. Len(m) -> Nat]
  OBVIOUS
<1>3. \A k \in 1 .. Len(m) : p[k] = Len(Written(m[k]))
  OBVIOUS
<1>4. ASSUME NEW g
      PROVE  Is(g) <=> Sums(g, p, Len(m))
  <2>1. \A k \in 0 .. Len(m) : (IF k = 0 THEN 0 ELSE g[k - 1] + Len(Written(m[k])))
                                 = (IF k = 0 THEN 0 ELSE g[k - 1] + p[k])
    <3> TAKE k \in 0 .. Len(m)
    <3>1. k # 0 => k \in 1 .. Len(m)
      OBVIOUS
    <3> HIDE DEF p
    <3> QED BY <1>3, <3>1
  <2> HIDE DEF p
  <2> QED BY <2>1 DEF Sums
<1> HIDE DEF p, Is, s
<1>5. \E g : Sums(g, p, Len(m))
  BY <1>2, SumExists
<1>6. Sums(s, p, Len(m))
  BY <1>1, <1>4, <1>5
<1>7. /\ s[0] = 0 /\ \A k \in 0 .. Len(m) : s[k] \in Nat /\ s[k] <= s[Len(m)]
      /\ \A k \in 0 .. Len(m) - 1 : s[k + 1] = s[k] + p[k + 1]
  BY <1>2, <1>6, SumIs
<1>8. \A k \in 0 .. Len(m) - 1 : p[k + 1] = Len(Written(m[k + 1]))
  BY <1>3
<1> QED BY <1>7, <1>8 DEF s

LEMMA UsedIs ==
  ASSUME NEW m, Len(m) \in Nat
  PROVE  /\ Used(m)[0] = 0
         /\ \A k \in 0 .. Len(m) : Used(m)[k] \in Nat
         /\ \A k \in 0 .. Len(m) - 1 : Used(m)[k + 1] = Used(m)[k] + Taken(m[k + 1])
<1> DEFINE p     == [k \in 1 .. Len(m) |-> Taken(m[k])]
           Is(g) == g = [k \in 0 .. Len(m) |-> IF k = 0 THEN 0 ELSE g[k - 1] + Taken(m[k])]
           s     == Used(m)
<1>1. s = CHOOSE g : Is(g)
  BY DEF Used
<1>2. p \in [1 .. Len(m) -> Nat]
  BY DEF Taken, Stars
<1>3. \A k \in 1 .. Len(m) : p[k] = Taken(m[k])
  OBVIOUS
<1>4. ASSUME NEW g
      PROVE  Is(g) <=> Sums(g, p, Len(m))
  <2>1. \A k \in 0 .. Len(m) : (IF k = 0 THEN 0 ELSE g[k - 1] + Taken(m[k]))
                                 = (IF k = 0 THEN 0 ELSE g[k - 1] + p[k])
    <3> TAKE k \in 0 .. Len(m)
    <3>1. k # 0 => k \in 1 .. Len(m)
      OBVIOUS
    <3> HIDE DEF p
    <3> QED BY <1>3, <3>1
  <2> HIDE DEF p
  <2> QED BY <2>1 DEF Sums
<1> HIDE DEF p, Is, s
<1>5. \E g : Sums(g, p, Len(m))
  BY <1>2, SumExists
<1>6. Sums(s, p, Len(m))
  BY <1>1, <1>4, <1>5
<1>7. /\ s[0] = 0 /\ \A k \in 0 .. Len(m) : s[k] \in Nat /\ s[k] <= s[Len(m)]
      /\ \A k \in 0 .. Len(m) - 1 : s[k + 1] = s[k] + p[k + 1]
  BY <1>2, <1>6, SumIs
<1>8. \A k \in 0 .. Len(m) - 1 : p[k + 1] = Taken(m[k + 1])
  BY <1>3
<1> QED BY <1>7, <1>8 DEF s

LEMMA SaidIs ==
  ASSUME NEW m, NEW as, Len(m) \in Nat
  PROVE  /\ Said(m, as)[0] = << >>
         /\ \A k \in 0 .. Len(m) - 1 :
              Said(m, as)[k + 1] = Said(m, as)[k] \o MeaningAt(m[k + 1], as, Used(m)[k])
<1> DEFINE q(k)  == MeaningAt(m[k], as, Used(m)[k - 1])
           p     == [k \in 1 .. Len(m) |-> q(k)]
           Is(g) == g = [k \in 0 .. Len(m) |-> IF k = 0 THEN << >> ELSE g[k - 1] \o q(k)]
           s     == Said(m, as)
<1>1. s = CHOOSE g : Is(g)
  BY DEF Said
<1>2. \A k \in 0 .. Len(m) - 1 : q(k + 1) = MeaningAt(m[k + 1], as, Used(m)[k])
  <2>1. \A k \in 0 .. Len(m) - 1 : (k + 1) - 1 = k
    OBVIOUS
  <2> QED BY <2>1
<1> HIDE DEF q
<1>3. \A k \in 1 .. Len(m) : p[k] = q(k)
  OBVIOUS
<1>4. ASSUME NEW g
      PROVE  Is(g) <=> g = [k \in 0 .. Len(m) |-> IF k = 0 THEN << >> ELSE g[k - 1] \o p[k]]
  <2>1. \A k \in 0 .. Len(m) : (IF k = 0 THEN << >> ELSE g[k - 1] \o q(k))
                                 = (IF k = 0 THEN << >> ELSE g[k - 1] \o p[k])
    <3> TAKE k \in 0 .. Len(m)
    <3>1. k # 0 => k \in 1 .. Len(m)
      OBVIOUS
    <3> HIDE DEF p
    <3> QED BY <1>3, <3>1
  <2> HIDE DEF p
  <2> QED BY <2>1
<1> HIDE DEF p, Is, s
<1>5. \E g : g = [k \in 0 .. Len(m) |-> IF k = 0 THEN << >> ELSE g[k - 1] \o p[k]]
  BY JoinExists
<1>6. s = [k \in 0 .. Len(m) |-> IF k = 0 THEN << >> ELSE s[k - 1] \o p[k]]
  BY <1>1, <1>4, <1>5
<1>7. \A k \in 0 .. Len(m) : s[k] = IF k = 0 THEN << >> ELSE s[k - 1] \o p[k]
  BY <1>6
<1>8. s[0] = << >>
  BY <1>7
<1>9. ASSUME NEW k \in 0 .. Len(m) - 1
      PROVE  s[k + 1] = s[k] \o MeaningAt(m[k + 1], as, Used(m)[k])
  <2>1. k + 1 \in 0 .. Len(m) /\ k + 1 # 0 /\ (k + 1) - 1 = k /\ k + 1 \in 1 .. Len(m)
    OBVIOUS
  <2>2. s[k + 1] = s[(k + 1) - 1] \o p[k + 1]
    BY <1>7, <2>1
  <2> QED BY <1>2, <1>3, <2>1, <2>2
<1> QED BY <1>8, <1>9 DEF s

-----------------------------------------------------------------------------
(***************************************************************************)
(* Where the walk is in what the format means.  Behind the first k         *)
(* directives of the format, all that was put is what they say             *)
(* (Between).  In the next one, behind j of its characters, the flags are  *)
(* those that they give (In), and the number that is gathered is that of   *)
(* the digits read (Switching, Gathering).  An escape that is not          *)
(* understood is put as it is written, a character after the other (Back). *)
(***************************************************************************)
FlagEnd(d)    == 1 + Len(FlagText(d))
WidthTo(d)    == FlagEnd(d) + Len(Field(d.width))
PointEnd(d)   == WidthTo(d) + IF d.prec = None THEN 0 ELSE 1
PrecEnd(d)    == PointEnd(d) + IF d.prec = None THEN 0 ELSE Len(Field(d.prec))
LongsEnd(d)   == PrecEnd(d) + d.longs

NextMeant(k) == meant[k + 1]
Before(k)    == Used(meant)[k]
WideOf(k)    == Wide(NextMeant(k), args, Before(k))
PreciseOf(k) == Precise(NextMeant(k), args, Before(k))
NotLess(x)   == IF x < 0 THEN 0 ELSE x

StarsBy(d, j) == (IF d.width = Starred /\ j >= WidthTo(d) THEN 1 ELSE 0)
                 + (IF d.prec = Starred /\ j >= PrecEnd(d) THEN 1 ELSE 0)

WidthBy(k, j) ==
  LET d == NextMeant(k)
  IN  IF j < WidthTo(d) THEN -1
      ELSE IF d.prec = None \/ j < PointEnd(d) THEN WideOf(k) ELSE NotLess(WideOf(k))

PrecBy(k, j) == IF j < PrecEnd(NextMeant(k)) THEN -1 ELSE PreciseOf(k)

(* Not in the middle of a number. *)
Outside(d, j) == ~(FlagEnd(d) < j /\ j < WidthTo(d)) /\ ~(PointEnd(d) < j /\ j < PrecEnd(d))

Switching(k, j) ==
  /\ pc = "switch" /\ Outside(NextMeant(k), j)
  /\ width = WidthBy(k, j) /\ precision = PrecBy(k, j)

(* In the middle of the width or of the precision, or just behind it: w    *)
(* and p are in `width' and `precision'.                                   *)
Gathered(k, j, w, p) ==
  LET d == NextMeant(k)
  IN  \/ /\ d.width \in Nat \ {0} /\ FlagEnd(d) < j /\ j <= WidthTo(d)
         /\ w = -1 /\ p = Read(d.width, j - FlagEnd(d))
      \/ /\ d.prec \in Nat \ {0} /\ PointEnd(d) < j /\ j <= PrecEnd(d)
         /\ w = NotLess(WideOf(k)) /\ p = Read(d.prec, j - PointEnd(d))

Gathering(k, j) == pc = "number" /\ Gathered(k, j, width, precision)

(* What the code makes of the flag of an escape: it keeps the '-' itself.   *)
PadChar(d)   == IF d.flag \in {"0", "-"} THEN d.flag ELSE " "
PadBy(d, j)  == IF j >= FlagEnd(d) THEN PadChar(d) ELSE " "
AltBy(d, j)  == j >= FlagEnd(d) /\ d.flag = "#"
LongBy(d, j) == IF j >= PrecEnd(d) THEN j - PrecEnd(d) ELSE 0

In(k, j) ==
  LET d == NextMeant(k)
  IN  /\ ~d.text /\ j \in 1 .. LongsEnd(d)
      /\ fi = Start(meant)[k] + j /\ ai = Before(k) + StarsBy(d, j)
      /\ out = Said(meant, args)[k]
      /\ padc = PadBy(d, j) /\ altflag = AltBy(d, j) /\ lflag = LongBy(d, j)
      /\ Switching(k, j) \/ Gathering(k, j)

Unknown(d) == ~d.text /\ d.conv \notin Conversions \cup {"%"}

Back(k, j) ==
  LET d == NextMeant(k)
  IN  /\ Unknown(d) /\ pc = "text" /\ j \in 1 .. Len(Written(d))
      /\ fi = Start(meant)[k] + j /\ ai = Used(meant)[k + 1]
      /\ Said(meant, args)[k] \in Seq(Chars)
      /\ out = Said(meant, args)[k] \o SubSeq(Written(d), 1, j)

Between(k) ==
  /\ pc \in {"call", "text", "returned"}
  /\ fi = Start(meant)[k] /\ ai = Used(meant)[k] /\ out = Said(meant, args)[k]
  /\ pc = "returned" /\ ~NoRoom => k = Len(meant)

Saying ==
  \/ \E k \in 0 .. Len(meant) : Between(k)
  \/ \E k \in 0 .. Len(meant) - 1 :
        \E j \in 1 .. Len(Written(NextMeant(k))) : In(k, j) \/ Back(k, j)

-----------------------------------------------------------------------------
(* The characters of an escape, by their places in it.                     *)
LEMMA Appended ==
  ASSUME NEW C, NEW s \in Seq(C), NEW t \in Seq(C)
  PROVE  /\ s \o t \in Seq(C) /\ Len(s) \in Nat /\ Len(t) \in Nat
         /\ Len(s \o t) = Len(s) + Len(t)
         /\ \A i \in 1 .. Len(s) : (s \o t)[i] = s[i]
         /\ \A i \in 1 .. Len(t) : (s \o t)[Len(s) + i] = t[i]
<1>1. Len(s) \in Nat /\ Len(t) \in Nat
  BY LenProperties
<1>2. /\ s \o t \in Seq(C) /\ Len(s \o t) = Len(s) + Len(t)
      /\ \A i \in 1 .. Len(s) + Len(t) :
           (s \o t)[i] = IF i <= Len(s) THEN s[i] ELSE t[i - Len(s)]
  BY ConcatProperties
<1>3. \A i \in 1 .. Len(s) : i \in 1 .. Len(s) + Len(t) /\ i <= Len(s)
  BY <1>1
<1>4. \A i \in 1 .. Len(t) : /\ Len(s) + i \in 1 .. Len(s) + Len(t)
                             /\ ~(Len(s) + i <= Len(s)) /\ (Len(s) + i) - Len(s) = i
  BY <1>1
<1> QED BY <1>1, <1>2, <1>3, <1>4

Letters == Chars \cup Going \cup {"%"}

LEMMA FieldIs ==
  ASSUME NEW v \in Fields
  PROVE  /\ Field(v) \in Seq(Letters) /\ Len(Field(v)) \in Nat
         /\ v = None => Len(Field(v)) = 0
         /\ v = Starred => Len(Field(v)) = 1 /\ Field(v)[1] = "*"
         /\ v \in Nat \ {0} => Field(v) = Numeral(v, 10)
<1>1. CASE v = None
  <2>1. Field(v) = << >>
    BY <1>1 DEF Field
  <2>2. << >> \in Seq(Letters) /\ Len(<< >>) = 0
    BY EmptySeq
  <2>3. v # Starred /\ v \notin Nat
    BY <1>1 DEF None, Starred
  <2> QED BY <2>1, <2>2, <2>3
<1>2. CASE v = Starred
  <2>1. Field(v) = << "*" >> /\ v # None
    BY <1>2 DEF Field, None, Starred
  <2>2. "*" \in Letters
    BY DEF Letters, Going
  <2>3. << "*" >> \in Seq(Letters) /\ Len(<< "*" >>) = 1 /\ << "*" >>[1] = "*"
    BY <2>2
  <2>4. v \notin Nat
    BY <1>2 DEF Starred
  <2> QED BY <2>1, <2>3, <2>4
<1>3. CASE v \in Nat \ {0}
  <2>1. v # None /\ v # Starred
    BY <1>3 DEF None, Starred
  <2>2. Field(v) = Numeral(v, 10)
    BY <2>1 DEF Field
  <2>3. \A i \in 1 .. 16 : digits[i] \in Letters
    BY DigitChars DEF Letters
  <2>4. Numeral(v, 10) \in Seq(Letters)
    <3> PICK base \in {8, 10, 16} : base = 10
      OBVIOUS
    <3>1. v \in Nat
      BY <1>3
    <3>2. Numeral(v, base) \in Seq(Letters)
      BY <2>3, <3>1, NumeralType
    <3> QED BY <3>2
  <2> QED BY <2>1, <2>2, <2>4, LenProperties
<1> QED BY <1>1, <1>2, <1>3 DEF Fields

Ends(d) == /\ FlagEnd(d) \in Nat /\ WidthTo(d) \in Nat /\ PointEnd(d) \in Nat
           /\ PrecEnd(d) \in Nat /\ LongsEnd(d) \in Nat
           /\ 1 <= FlagEnd(d) /\ FlagEnd(d) <= WidthTo(d) /\ WidthTo(d) <= PointEnd(d)
           /\ PointEnd(d) <= PrecEnd(d) /\ PrecEnd(d) <= LongsEnd(d)

LEMMA EscapeWritten ==
  ASSUME NEW d \in Directive, Proper(d), ~d.text
  PROVE  /\ Ends(d) /\ Written(d) \in Seq(Letters)
         /\ Len(Written(d)) = LongsEnd(d) + IF d.conv = "end" THEN 0 ELSE 1
         /\ Written(d)[1] = "%"
         /\ FlagEnd(d) = IF d.flag = "none" THEN 1 ELSE 2
         /\ d.flag # "none" => Written(d)[2] = d.flag
         /\ \A i \in 1 .. Len(Field(d.width)) : Written(d)[FlagEnd(d) + i] = Field(d.width)[i]
         /\ d.prec # None =>
              /\ PointEnd(d) = WidthTo(d) + 1 /\ Written(d)[PointEnd(d)] = "."
              /\ PrecEnd(d) = PointEnd(d) + Len(Field(d.prec))
              /\ \A i \in 1 .. Len(Field(d.prec)) : Written(d)[PointEnd(d) + i] = Field(d.prec)[i]
         /\ d.prec = None => PointEnd(d) = WidthTo(d) /\ PrecEnd(d) = WidthTo(d)
         /\ \A i \in 1 .. d.longs : Written(d)[PrecEnd(d) + i] = "l"
         /\ d.conv # "end" => Written(d)[LongsEnd(d) + 1] = d.conv
<1> DEFINE S  == Seq(Letters)
           fl == FlagText(d)
           wi == Field(d.width)
           pr == PrecText(d)
           lo == LongsText(d)
           co == ConvText(d)
           s1 == << "%" >>
           s2 == s1 \o fl
           s3 == s2 \o wi
           s4 == s3 \o pr
           s5 == s4 \o lo
           W  == Written(d)
<1>1. /\ d.flag \in {"none", "0", "-", "#"} /\ d.width \in Fields /\ d.prec \in Fields
      /\ d.longs \in Nat /\ d.conv \in Chars \cup {"end"}
  BY DEF Directive
<1>2. {"0", "-", "#", ".", "l", "%"} \subseteq Letters
  BY DEF Letters, Going, FlagChars
<1>3. W = s5 \o co
  BY DEF Written
<1>4. /\ fl \in S
      /\ Len(fl) = (IF d.flag = "none" THEN 0 ELSE 1)
      /\ d.flag # "none" => fl[1] = d.flag
  <2>1. CASE d.flag = "none"
    BY <2>1, EmptySeq DEF FlagText
  <2>2. CASE d.flag # "none"
    <3>1. d.flag \in Letters /\ fl = << d.flag >>
      BY <1>1, <1>2, <2>2 DEF FlagText
    <3>2. << d.flag >> \in S /\ Len(<< d.flag >>) = 1 /\ << d.flag >>[1] = d.flag
      BY <3>1
    <3> QED BY <2>2, <3>1, <3>2
  <2> QED BY <2>1, <2>2
<1>5. wi \in S
  BY <1>1, FieldIs
<1>6. /\ pr \in S /\ Len(pr) = IF d.prec = None THEN 0 ELSE 1 + Len(Field(d.prec))
      /\ Len(Field(d.prec)) \in Nat
      /\ d.prec # None => /\ pr[1] = "."
                          /\ \A i \in 1 .. Len(Field(d.prec)) : pr[1 + i] = Field(d.prec)[i]
  <2>1. Field(d.prec) \in S /\ Len(Field(d.prec)) \in Nat
    BY <1>1, FieldIs
  <2>2. CASE d.prec = None
    BY <2>1, <2>2, EmptySeq DEF PrecText
  <2>3. CASE d.prec # None
    <3> DEFINE g == Field(d.prec)
               o == << "." >>
    <3>1. pr = o \o g
      BY <2>3 DEF PrecText
    <3>2. "." \in Letters
      BY <1>2
    <3>3. o \in S /\ Len(o) = 1 /\ o[1] = "."
      BY <3>2
    <3> HIDE DEF g, o
    <3>4. g \in S /\ Len(g) \in Nat
      BY <2>1 DEF g
    <3>5. /\ o \o g \in S /\ Len(o \o g) = Len(o) + Len(g)
          /\ \A i \in 1 .. Len(o) : (o \o g)[i] = o[i]
          /\ \A i \in 1 .. Len(g) : (o \o g)[Len(o) + i] = g[i]
      BY <3>3, <3>4, Appended
    <3>6. pr[1] = "." /\ \A i \in 1 .. Len(g) : pr[1 + i] = g[i]
      BY <3>1, <3>3, <3>5
    <3> QED BY <2>3, <3>1, <3>3, <3>4, <3>5, <3>6 DEF g
  <2> QED BY <2>2, <2>3
<1>7. lo \in S /\ Len(lo) = d.longs /\ \A i \in 1 .. d.longs : lo[i] = "l"
  <2>1. "l" \in Letters
    BY <1>2
  <2>2. lo = [k \in 1 .. d.longs |-> "l"]
    BY DEF LongsText
  <2>3. [k \in 1 .. d.longs |-> "l"] \in S
    BY <1>1, <2>1, SeqDef
  <2>4. Len([k \in 1 .. d.longs |-> "l"]) = d.longs
    BY <1>1
  <2> QED BY <2>2, <2>3, <2>4
<1>8. co \in S /\ Len(co) = (IF d.conv = "end" THEN 0 ELSE 1) /\ (d.conv # "end" => co[1] = d.conv)
  <2>1. CASE d.conv = "end"
    BY <2>1, EmptySeq DEF ConvText
  <2>2. CASE d.conv # "end"
    <3>1. d.conv \in Letters /\ co = << d.conv >>
      BY <1>1, <2>2 DEF ConvText, Letters
    <3>2. << d.conv >> \in S /\ Len(<< d.conv >>) = 1 /\ << d.conv >>[1] = d.conv
      BY <3>1
    <3> QED BY <2>2, <3>1, <3>2
  <2> QED BY <2>1, <2>2
<1>9. s1 \in S /\ Len(s1) = 1 /\ s1[1] = "%"
  BY <1>2
<1> HIDE DEF S, fl, wi, pr, lo, co, s1, s2, s3, s4, s5, W
<1>10. /\ s2 \in S /\ Len(s2) = 1 + Len(fl) /\ Len(fl) \in Nat
       /\ s2[1] = "%" /\ \A i \in 1 .. Len(fl) : s2[1 + i] = fl[i]
  <2>1. /\ s1 \o fl \in S /\ Len(s1 \o fl) = Len(s1) + Len(fl) /\ Len(fl) \in Nat
        /\ \A i \in 1 .. Len(s1) : (s1 \o fl)[i] = s1[i]
        /\ \A i \in 1 .. Len(fl) : (s1 \o fl)[Len(s1) + i] = fl[i]
    <3>1. s1 \in Seq(Letters) /\ fl \in Seq(Letters)
      BY <1>4, <1>9 DEF S
    <3> QED BY <3>1, Appended DEF S
  <2> QED BY <1>9, <2>1 DEF s2
<1>11. /\ s3 \in S /\ Len(s3) = Len(s2) + Len(wi) /\ Len(wi) \in Nat /\ Len(s2) \in Nat
       /\ \A i \in 1 .. Len(s2) : s3[i] = s2[i]
       /\ \A i \in 1 .. Len(wi) : s3[Len(s2) + i] = wi[i]
  <2>1. /\ s2 \o wi \in S /\ Len(s2 \o wi) = Len(s2) + Len(wi) /\ Len(wi) \in Nat /\ Len(s2) \in Nat
        /\ \A i \in 1 .. Len(s2) : (s2 \o wi)[i] = s2[i]
        /\ \A i \in 1 .. Len(wi) : (s2 \o wi)[Len(s2) + i] = wi[i]
    <3>1. s2 \in Seq(Letters) /\ wi \in Seq(Letters)
      BY <1>5, <1>10 DEF S
    <3> QED BY <3>1, Appended DEF S
  <2> QED BY <2>1 DEF s3
<1>12. /\ s4 \in S /\ Len(s4) = Len(s3) + Len(pr) /\ Len(pr) \in Nat /\ Len(s3) \in Nat
       /\ \A i \in 1 .. Len(s3) : s4[i] = s3[i]
       /\ \A i \in 1 .. Len(pr) : s4[Len(s3) + i] = pr[i]
  <2>1. /\ s3 \o pr \in S /\ Len(s3 \o pr) = Len(s3) + Len(pr) /\ Len(pr) \in Nat /\ Len(s3) \in Nat
        /\ \A i \in 1 .. Len(s3) : (s3 \o pr)[i] = s3[i]
        /\ \A i \in 1 .. Len(pr) : (s3 \o pr)[Len(s3) + i] = pr[i]
    <3>1. s3 \in Seq(Letters) /\ pr \in Seq(Letters)
      BY <1>6, <1>11 DEF S
    <3> QED BY <3>1, Appended DEF S
  <2> QED BY <2>1 DEF s4
<1>13. /\ s5 \in S /\ Len(s5) = Len(s4) + Len(lo) /\ Len(lo) \in Nat /\ Len(s4) \in Nat
       /\ \A i \in 1 .. Len(s4) : s5[i] = s4[i]
       /\ \A i \in 1 .. Len(lo) : s5[Len(s4) + i] = lo[i]
  <2>1. /\ s4 \o lo \in S /\ Len(s4 \o lo) = Len(s4) + Len(lo) /\ Len(lo) \in Nat /\ Len(s4) \in Nat
        /\ \A i \in 1 .. Len(s4) : (s4 \o lo)[i] = s4[i]
        /\ \A i \in 1 .. Len(lo) : (s4 \o lo)[Len(s4) + i] = lo[i]
    <3>1. s4 \in Seq(Letters) /\ lo \in Seq(Letters)
      BY <1>7, <1>12 DEF S
    <3> QED BY <3>1, Appended DEF S
  <2> QED BY <2>1 DEF s5
<1>14. /\ W \in S /\ Len(W) = Len(s5) + Len(co) /\ Len(co) \in Nat /\ Len(s5) \in Nat
       /\ \A i \in 1 .. Len(s5) : W[i] = s5[i]
       /\ \A i \in 1 .. Len(co) : W[Len(s5) + i] = co[i]
  <2>1. /\ s5 \o co \in S /\ Len(s5 \o co) = Len(s5) + Len(co) /\ Len(co) \in Nat /\ Len(s5) \in Nat
        /\ \A i \in 1 .. Len(s5) : (s5 \o co)[i] = s5[i]
        /\ \A i \in 1 .. Len(co) : (s5 \o co)[Len(s5) + i] = co[i]
    <3>1. s5 \in Seq(Letters) /\ co \in Seq(Letters)
      BY <1>8, <1>13 DEF S
    <3> QED BY <3>1, Appended DEF S
  <2> QED BY <1>3, <2>1
<1>15. /\ FlagEnd(d) = Len(s2) /\ WidthTo(d) = Len(s3) /\ LongsEnd(d) = Len(s5)
       /\ PointEnd(d) = Len(s3) + (IF d.prec = None THEN 0 ELSE 1) /\ PrecEnd(d) = Len(s4)
  <2>1. FlagEnd(d) = 1 + Len(fl)
    BY DEF FlagEnd, fl
  <2>2. WidthTo(d) = FlagEnd(d) + Len(wi)
    BY DEF WidthTo, wi
  <2>3. PointEnd(d) = Len(s3) + (IF d.prec = None THEN 0 ELSE 1)
    BY <1>10, <1>11, <2>1, <2>2 DEF PointEnd
  <2>4. PrecEnd(d) = Len(s4)
    BY <1>6, <1>12, <2>3 DEF PrecEnd
  <2>5. LongsEnd(d) = Len(s5)
    BY <1>7, <1>13, <2>4 DEF LongsEnd
  <2> QED BY <1>10, <1>11, <2>1, <2>2, <2>3, <2>4, <2>5
<1>16. Ends(d)
  <2>1. 1 <= Len(s2) /\ Len(s2) <= Len(s3) /\ Len(s3) <= Len(s4) /\ Len(s4) <= Len(s5)
    BY <1>10, <1>11, <1>12, <1>13, <1>14
  <2>2. PointEnd(d) \in Nat /\ Len(s3) <= PointEnd(d) /\ PointEnd(d) <= Len(s4)
    BY <1>6, <1>11, <1>12, <1>15
  <2> QED BY <1>11, <1>12, <1>13, <1>14, <1>15, <2>1, <2>2 DEF Ends
<1>17. \A i \in 1 .. Len(s4) : W[i] = s4[i]
  <2>1. \A i \in 1 .. Len(s4) : i \in 1 .. Len(s5)
    BY <1>13
  <2> QED BY <1>13, <1>14, <2>1
<1>18. \A i \in 1 .. Len(s3) : W[i] = s3[i]
  <2>1. \A i \in 1 .. Len(s3) : i \in 1 .. Len(s4)
    BY <1>12
  <2> QED BY <1>12, <1>17, <2>1
<1>19. \A i \in 1 .. Len(s2) : W[i] = s2[i]
  <2>1. \A i \in 1 .. Len(s2) : i \in 1 .. Len(s3)
    BY <1>11
  <2> QED BY <1>11, <1>18, <2>1
<1>20. Len(W) = LongsEnd(d) + IF d.conv = "end" THEN 0 ELSE 1
  BY <1>8, <1>14, <1>15
<1>21. W[1] = "%" /\ FlagEnd(d) = (IF d.flag = "none" THEN 1 ELSE 2)
       /\ (d.flag # "none" => W[2] = d.flag)
  <2>1. 1 \in 1 .. Len(s2)
    BY <1>10
  <2>2. FlagEnd(d) = IF d.flag = "none" THEN 1 ELSE 2
    BY <1>4, <1>10, <1>15
  <2>3. ASSUME d.flag # "none" PROVE W[2] = d.flag
    <3>1. Len(fl) = 1 /\ 1 \in 1 .. Len(fl) /\ 1 + 1 = 2 /\ 2 \in 1 .. Len(s2)
      BY <1>4, <1>10, <2>3
    <3>2. s2[1 + 1] = fl[1]
      BY <1>10, <3>1
    <3> QED BY <1>4, <1>19, <2>3, <3>1, <3>2
  <2> QED BY <1>10, <1>19, <2>1, <2>2, <2>3
<1>22. \A i \in 1 .. Len(wi) : W[FlagEnd(d) + i] = wi[i]
  <2>1. \A i \in 1 .. Len(wi) : Len(s2) + i \in 1 .. Len(s3)
    BY <1>11
  <2> QED BY <1>11, <1>15, <1>18, <2>1
<1>23. d.prec # None =>
         /\ PointEnd(d) = WidthTo(d) + 1 /\ W[PointEnd(d)] = "."
         /\ PrecEnd(d) = PointEnd(d) + Len(Field(d.prec))
         /\ \A i \in 1 .. Len(Field(d.prec)) : W[PointEnd(d) + i] = Field(d.prec)[i]
  <2> SUFFICES ASSUME d.prec # None
               PROVE  /\ PointEnd(d) = WidthTo(d) + 1 /\ W[PointEnd(d)] = "."
                      /\ PrecEnd(d) = PointEnd(d) + Len(Field(d.prec))
                      /\ \A i \in 1 .. Len(Field(d.prec)) : W[PointEnd(d) + i] = Field(d.prec)[i]
    OBVIOUS
  <2>1. Len(pr) = 1 + Len(Field(d.prec)) /\ PointEnd(d) = Len(s3) + 1
    BY <1>6, <1>15
  <2>2. \A i \in 1 .. Len(pr) : W[Len(s3) + i] = pr[i]
    <3>1. \A i \in 1 .. Len(pr) : Len(s3) + i \in 1 .. Len(s4)
      BY <1>12
    <3> QED BY <1>12, <1>17, <3>1
  <2>3. 1 \in 1 .. Len(pr)
    BY <1>6, <2>1
  <2>4. W[PointEnd(d)] = "."
    BY <1>6, <2>1, <2>2, <2>3
  <2>5. ASSUME NEW i \in 1 .. Len(Field(d.prec))
        PROVE  W[PointEnd(d) + i] = Field(d.prec)[i]
    <3>1. 1 + i \in 1 .. Len(pr) /\ PointEnd(d) + i = Len(s3) + (1 + i)
      BY <1>6, <1>12, <2>1
    <3>2. W[Len(s3) + (1 + i)] = pr[1 + i]
      BY <2>2, <3>1
    <3> QED BY <1>6, <3>1, <3>2
  <2>6. PrecEnd(d) = PointEnd(d) + Len(Field(d.prec))
    BY <1>6, <1>12, <1>15, <2>1
  <2> QED BY <1>15, <2>1, <2>4, <2>5, <2>6
<1>24. d.prec = None => PointEnd(d) = WidthTo(d) /\ PrecEnd(d) = WidthTo(d)
  BY <1>6, <1>12, <1>15
<1>25. \A i \in 1 .. d.longs : W[PrecEnd(d) + i] = "l"
  <2>1. \A i \in 1 .. Len(lo) : Len(s4) + i \in 1 .. Len(s5)
    BY <1>13
  <2> QED BY <1>7, <1>13, <1>14, <1>15, <2>1
<1>26. d.conv # "end" => W[LongsEnd(d) + 1] = d.conv
  <2> SUFFICES ASSUME d.conv # "end" PROVE W[LongsEnd(d) + 1] = d.conv
    OBVIOUS
  <2>1. Len(co) = 1 /\ 1 \in 1 .. Len(co)
    BY <1>8
  <2> QED BY <1>8, <1>14, <1>15, <2>1
<1> QED BY <1>14, <1>16, <1>20, <1>21, <1>22, <1>23, <1>24, <1>25, <1>26 DEF W, wi, S

-----------------------------------------------------------------------------
(* The format, as the directives that it is.                               *)
LEMMA TextWritten ==
  ASSUME NEW d, d.text
  PROVE  Written(d) = << d.conv >> /\ Len(Written(d)) = 1 /\ Written(d)[1] = d.conv
  BY DEF Written

LEMMA LongEnough ==
  ASSUME NEW d \in Directive, Proper(d)
  PROVE  Len(Written(d)) \in Nat \ {0}
<1>1. CASE d.text
  BY <1>1, TextWritten
<1>2. CASE ~d.text
  <2>1. Ends(d) /\ Len(Written(d)) = LongsEnd(d) + IF d.conv = "end" THEN 0 ELSE 1
    BY <1>2, EscapeWritten
  <2>2. LongsEnd(d) \in Nat /\ 1 <= LongsEnd(d)
    BY <2>1 DEF Ends
  <2> QED BY <2>1, <2>2
<1> QED BY <1>1, <1>2

Told == Says(meant, fmt) /\ Undisputed

LEMMA Lists ==
  ASSUME Told
  PROVE  /\ Len(meant) \in Nat
         /\ \A k \in 0 .. Len(meant) - 1 :
              /\ NextMeant(k) \in Directive /\ Proper(NextMeant(k))
              /\ Len(Written(NextMeant(k))) \in Nat \ {0}
              /\ ~NextMeant(k).text /\ NextMeant(k).conv = "end" => k + 1 = Len(meant)
<1>1. meant \in Seq({d \in Directive : Proper(d)})
  BY DEF Told, Says
<1>2. Len(meant) \in Nat
  BY <1>1, LenProperties
<1>3. ASSUME NEW k \in 0 .. Len(meant) - 1
      PROVE  NextMeant(k) \in Directive /\ Proper(NextMeant(k))
  <2>1. k + 1 \in 1 .. Len(meant)
    BY <1>2
  <2>2. meant[k + 1] \in {d \in Directive : Proper(d)}
    BY <1>1, <2>1, ElementOfSeq
  <2> QED BY <2>2 DEF NextMeant
<1>4. ASSUME NEW k \in 0 .. Len(meant) - 1, ~NextMeant(k).text, NextMeant(k).conv = "end"
      PROVE  k + 1 = Len(meant)
  <2>1. k + 1 \in 1 .. Len(meant)
    BY <1>2
  <2> QED BY <1>4, <2>1 DEF Told, Says, NextMeant
<1> QED BY <1>2, <1>3, <1>4, LongEnough

LEMMA Starts ==
  ASSUME Told
  PROVE  /\ Start(meant)[0] = 0 /\ Start(meant)[Len(meant)] = Len(fmt)
         /\ \A k \in 0 .. Len(meant) : Start(meant)[k] \in Nat /\ Start(meant)[k] <= Len(fmt)
         /\ \A k \in 0 .. Len(meant) - 1 :
              Start(meant)[k + 1] = Start(meant)[k] + Len(Written(NextMeant(k)))
<1>1. Len(meant) \in Nat
  BY Lists
<1>2. \A k \in 1 .. Len(meant) : Len(Written(meant[k])) \in Nat
  <2> TAKE k \in 1 .. Len(meant)
  <2> PICK i \in 0 .. Len(meant) - 1 : i = k - 1
    BY <1>1
  <2>1. NextMeant(i) = meant[k]
    BY DEF NextMeant
  <2> QED BY <2>1, Lists
<1>3. /\ Start(meant)[0] = 0
      /\ \A k \in 0 .. Len(meant) :
           Start(meant)[k] \in Nat /\ Start(meant)[k] <= Start(meant)[Len(meant)]
      /\ \A k \in 0 .. Len(meant) - 1 :
           Start(meant)[k + 1] = Start(meant)[k] + Len(Written(meant[k + 1]))
  BY <1>1, <1>2, StartIs
<1>4. Start(meant)[Len(meant)] = Len(fmt)
  BY DEF Told, Says
<1> QED BY <1>3, <1>4 DEF NextMeant

(* The next character, where j of the directive are consumed.              *)
LEMMA CharAt ==
  ASSUME Told, NEW k \in 0 .. Len(meant) - 1, NEW j \in 0 .. Len(Written(NextMeant(k))) - 1,
         fi = Start(meant)[k] + j
  PROVE  ch = Written(NextMeant(k))[j + 1] /\ fi \in 0 .. Len(fmt) - 1
<1>1. Len(meant) \in Nat /\ Len(Written(NextMeant(k))) \in Nat
  BY Lists
<1>2. k \in 0 .. Len(meant) /\ k + 1 \in 0 .. Len(meant) /\ k + 1 \in 1 .. Len(meant)
  BY <1>1
<1>3. /\ Start(meant)[k] \in Nat /\ Start(meant)[k + 1] \in Nat /\ Start(meant)[k + 1] <= Len(fmt)
      /\ Start(meant)[k + 1] = Start(meant)[k] + Len(Written(NextMeant(k)))
  BY <1>2, Starts
<1>4. Len(fmt) \in Int
  <2>1. Start(meant)[Len(meant)] \in Nat /\ Start(meant)[Len(meant)] = Len(fmt)
    BY <1>1, Starts
  <2> QED BY <2>1
<1>5. fi \in Nat /\ fi < Len(fmt)
  BY <1>1, <1>3, <1>4
<1>6. fmt[Start(meant)[k] + (j + 1)] = Written(NextMeant(k))[j + 1]
  <2>1. j + 1 \in 1 .. Len(Written(meant[k + 1])) /\ (k + 1) - 1 = k
    BY <1>1 DEF NextMeant
  <2>2. \A i \in 1 .. Len(meant) :
          \A o \in 1 .. Len(Written(meant[i])) :
            fmt[Start(meant)[i - 1] + o] = Written(meant[i])[o]
    BY DEF Told, Says
  <2>3. fmt[Start(meant)[(k + 1) - 1] + (j + 1)] = Written(meant[k + 1])[j + 1]
    BY <1>2, <2>1, <2>2
  <2> QED BY <2>1, <2>3 DEF NextMeant
<1>7. fi + 1 = Start(meant)[k] + (j + 1)
  BY <1>3, SMTT(30)
<1>8. ch = fmt[fi + 1]
  BY <1>5 DEF ch
<1> QED BY <1>4, <1>5, <1>6, <1>7, <1>8

LEMMA CharBehind ==
  ASSUME Told, fi = Start(meant)[Len(meant)]
  PROVE  ch = NUL
<1>1. Len(meant) \in Nat
  BY Lists
<1>2. fi \in Nat /\ fi = Len(fmt)
  BY <1>1, Starts
<1> QED BY <1>2 DEF ch

(* Behind a directive is the next.                                         *)
LEMMA CharAfter ==
  ASSUME Told, NEW k \in 0 .. Len(meant) - 1, ~NextMeant(k).text, NextMeant(k).conv = "end",
         fi = Start(meant)[k] + Len(Written(NextMeant(k)))
  PROVE  ch = NUL
<1>1. k + 1 = Len(meant)
  BY Lists
<1>2. Start(meant)[k + 1] = Start(meant)[k] + Len(Written(NextMeant(k)))
  BY Starts
<1> QED BY <1>1, <1>2, CharBehind

-----------------------------------------------------------------------------
(* Which step is taken is a matter of the next character.                  *)
LEMMA Arms ==
  /\ \A c \in {"0", "-", "#", ".", "l"} : c \in FlagChars
  /\ \A c \in DecimalDigits \ {"0"} : c \notin FlagChars
  /\ "." \notin DecimalDigits /\ "l" \notin DecimalDigits /\ NUL \notin DecimalDigits
  /\ NUL \notin Going \cup Conversions \cup {"%"} /\ "%" \notin Going \cup Conversions
<1>1. DecimalDigits = {"0", "1", "2", "3", "4", "5", "6", "7", "8", "9"}
  <2>1. 1 .. 10 = {1, 2, 3, 4, 5, 6, 7, 8, 9, 10}
    OBVIOUS
  <2>2. DecimalDigits = {digits[k] : k \in {1, 2, 3, 4, 5, 6, 7, 8, 9, 10}}
    BY <2>1 DEF DecimalDigits
  <2>3. /\ digits[1] = "0" /\ digits[2] = "1" /\ digits[3] = "2" /\ digits[4] = "3"
        /\ digits[5] = "4" /\ digits[6] = "5" /\ digits[7] = "6" /\ digits[8] = "7"
        /\ digits[9] = "8" /\ digits[10] = "9"
    BY DEF digits
  <2> QED BY <2>2, <2>3
<1>2. \A c \in {"0", "-", "#", ".", "l"} : c \in FlagChars
  BY DEF FlagChars
<1>3. \A c \in DecimalDigits \ {"0"} : c \notin FlagChars
  BY <1>1 DEF FlagChars
<1>4. "." \notin DecimalDigits /\ "l" \notin DecimalDigits /\ NUL \notin DecimalDigits
  BY <1>1 DEF NUL
<1>5. NUL \notin Going \cup Conversions \cup {"%"} /\ "%" \notin Going \cup Conversions
  BY Kinds DEF NUL
<1> QED BY <1>2, <1>3, <1>4, <1>5

LEMMA Guards ==
  /\ Refuse => pc = "call" /\ NoRoom
  /\ Begin => pc = "call" /\ ~NoRoom
  /\ Text => pc = "text" /\ ch # "%" /\ ch # NUL
  /\ End => pc = "text" /\ ch = NUL
  /\ Percent => pc = "text" /\ ch = "%"
  /\ Flag => pc = "switch" /\ ch \in FlagChars
  /\ WidthDigit => \/ pc = "switch" /\ ch \in DecimalDigits \ {"0"}
                   \/ pc = "number" /\ ch \in DecimalDigits
  /\ WidthEnd => pc = "number" /\ ch \notin DecimalDigits
  /\ Star => pc = "switch" /\ ch = "*"
  /\ Convert => pc = "switch" /\ ch \in Conversions
  /\ PercentSign => pc = "switch" /\ ch = "%"
  /\ Unrecognized => pc = "switch" /\ ch \notin Going \cup Conversions \cup {"%"}
<1>1. (Refuse => pc = "call" /\ NoRoom) /\ (Begin => pc = "call" /\ ~NoRoom)
  BY DEF Refuse, Begin
<1>2. (Text => pc = "text" /\ ch # "%" /\ ch # NUL) /\ (End => pc = "text" /\ ch = NUL)
  BY DEF Text, End
<1>3. (Percent => pc = "text" /\ ch = "%") /\ (Flag => pc = "switch" /\ ch \in FlagChars)
  BY DEF Percent, Flag
<1>4. WidthDigit => \/ pc = "switch" /\ ch \in DecimalDigits \ {"0"}
                    \/ pc = "number" /\ ch \in DecimalDigits
  BY DEF WidthDigit
<1>5. /\ WidthEnd => pc = "number" /\ ch \notin DecimalDigits
      /\ Star => pc = "switch" /\ ch = "*"
  BY DEF WidthEnd, Star
<1>6. /\ Convert => pc = "switch" /\ ch \in Conversions
      /\ PercentSign => pc = "switch" /\ ch = "%"
  BY DEF Convert, PercentSign
<1>7. Unrecognized => pc = "switch" /\ ch \notin Going \cup Conversions \cup {"%"}
  BY DEF Unrecognized
<1> QED BY <1>1, <1>2, <1>3, <1>4, <1>5, <1>6, <1>7

LEMMA SwitchArm ==
  ASSUME Next, pc = "switch"
  PROVE  /\ ch \in FlagChars => Flag
         /\ ch \in DecimalDigits \ {"0"} => WidthDigit
         /\ ch = "*" => Star
         /\ ch \in Conversions => Convert
         /\ ch = "%" => PercentSign
         /\ ch \notin Going \cup Conversions \cup {"%"} => Unrecognized
<1>1. Flag \/ WidthDigit \/ Star \/ Convert \/ PercentSign \/ Unrecognized
  BY Guards DEF Next
<1>2. Flag => ch \in FlagChars /\ ch \in Going
  BY Guards, Kinds
<1>3. WidthDigit => ch \in DecimalDigits \ {"0"} /\ ch \in Going
  BY Guards, Kinds
<1>4. Star => ch = "*" /\ ch \in Going
  BY Guards, Kinds
<1>5. /\ Convert => ch \in Conversions
      /\ PercentSign => ch = "%"
      /\ Unrecognized => ch \notin Going \cup Conversions \cup {"%"}
  BY Guards
<1>6. /\ \A c \in Going : c \notin Conversions /\ c # "%"
      /\ \A c \in Conversions : c \notin Going /\ c # "%" /\ c # "*"
      /\ \A c \in FlagChars \cup DecimalDigits : c # "*"
      /\ FlagChars \subseteq Going /\ DecimalDigits \subseteq Going /\ "*" \in Going
  BY Kinds
<1>7. \A c \in DecimalDigits \ {"0"} : c \notin FlagChars
  BY Arms
<1> HIDE DEF Next
<1>8. ch \in FlagChars => Flag
  BY <1>1, <1>2, <1>3, <1>4, <1>5, <1>6, <1>7
<1>9. ch \in DecimalDigits \ {"0"} => WidthDigit
  BY <1>1, <1>2, <1>3, <1>4, <1>5, <1>6, <1>7
<1>10. ch = "*" => Star
  BY <1>1, <1>2, <1>3, <1>4, <1>5, <1>6
<1>11. ch \in Conversions => Convert
  BY <1>1, <1>2, <1>3, <1>4, <1>5, <1>6
<1>12. ch = "%" => PercentSign
  BY <1>1, <1>2, <1>3, <1>4, <1>5, <1>6
<1>13. ch \notin Going \cup Conversions \cup {"%"} => Unrecognized
  BY <1>1, <1>2, <1>3, <1>4, <1>5, <1>6
<1> QED BY <1>8, <1>9, <1>10, <1>11, <1>12, <1>13

LEMMA NumberArm ==
  ASSUME Next, pc = "number"
  PROVE  (ch \in DecimalDigits => WidthDigit) /\ (ch \notin DecimalDigits => WidthEnd)
<1>1. WidthDigit \/ WidthEnd
  BY Guards DEF Next
<1>2. (WidthDigit => ch \in DecimalDigits) /\ (WidthEnd => ch \notin DecimalDigits)
  BY Guards
<1> QED BY <1>1, <1>2

LEMMA TextArm ==
  ASSUME Next, pc = "text"
  PROVE  /\ ch = "%" => Percent
         /\ ch = NUL => End
         /\ ch # "%" /\ ch # NUL => Text
<1>1. Text \/ End \/ Percent
  BY Guards DEF Next
<1>2. (Text => ch # "%" /\ ch # NUL) /\ (End => ch = NUL) /\ (Percent => ch = "%")
  BY Guards
<1>3. NUL # "%"
  BY DEF NUL
<1> QED BY <1>1, <1>2, <1>3

-----------------------------------------------------------------------------
(* The conversions, each as it is meant.                                   *)
LEMMA Padding ==
  ASSUME NEW c, NEW w \in Int, NEW l \in Nat, width \in {w, NotLess(w)}
  PROVE  Repeat(c, width - l) = Repeat(c, w - l)
<1>1. NotLess(w) \in Int /\ width \in Int
  BY DEF NotLess
<1> DEFINE a == width - l
           b == w - l
<1>2. a \in Int /\ b \in Int
  BY <1>1
<1>3. (IF 0 >= a THEN 0 ELSE a) = (IF 0 >= b THEN 0 ELSE b)
  BY DEF NotLess
<1> HIDE DEF a, b
<1>4. Max({0, a}) = Max({0, b})
  BY <1>2, <1>3, Greater
<1>5. Repeat(c, a) = Repeat(c, b)
  BY <1>4 DEF Repeat
<1> QED BY <1>5 DEF a, b

LEMMA Printed ==
  ASSUME NEW base \in {8, 10, 16}, NEW num \in Unsigned, NEW w \in Int, width \in {w, NotLess(w)}
  PROVE  printnum(num, base) = Repeat(padc, w - Len(Numeral(num, base))) \o Numeral(num, base)
<1> DEFINE b == Numeral(num, base)
<1>1. DigitsOf[base][num] = b
  BY DigitsAre
<1>2. num \in Nat
  BY PowerAssumption DEF Unsigned
<1>3. b \in Seq(Chars) /\ Len(b) \in Nat
  BY <1>2, DigitChars, NumeralType, LenProperties
<1>4. printnum(num, base) = Repeat(padc, width - Len(b)) \o b
  BY <1>1 DEF printnum
<1> HIDE DEF b
<1>5. Repeat(padc, width - Len(b)) = Repeat(padc, w - Len(b))
  BY <1>3, Padding
<1> QED BY <1>4, <1>5 DEF b

LEMMA Modulo ==
  ASSUME NEW p \in Nat \ {0}, NEW a \in Int, -p <= a, a < p
  PROVE  a % p = IF a < 0 THEN a + p ELSE a
<1>1. \A d \in Nat \ {0}, x \in Nat : x < d => x % d = x
  <2> TAKE d \in Nat \ {0}, x \in Nat
  <2> SUFFICES ASSUME x < d PROVE x % d = x
    OBVIOUS
  <2>1. PICK q \in Nat, r \in 0 .. d - 1 : r = x % d /\ x = q * d + r
    BY Division
  <2>2. r \in Nat /\ r < d /\ 0 * d + x = q * d + r
    BY <2>1
  <2>3. 0 = q
    BY <2>2, Remainders
  <2> QED BY <2>1, <2>3
<1>2. CASE a >= 0
  BY <1>1, <1>2
<1>3. CASE a < 0
  BY <1>3, SMTT(30)
<1> QED BY <1>2, <1>3

-----------------------------------------------------------------------------
(* Signed numbers, as the 64 bits that hold them.                          *)
LEMMA Powers ==
  /\ 2 ^ (LongLongBits - 1) \in Nat \ {0} /\ 2 ^ LongLongBits = 2 * 2 ^ (LongLongBits - 1)
  /\ \A b \in {IntBits, LongLongBits} :
       /\ 2 ^ (b - 1) \in Nat \ {0} /\ 2 ^ b = 2 * 2 ^ (b - 1) /\ 2 ^ b \in Nat \ {0}
       /\ 2 ^ (b - 1) <= 2 ^ (LongLongBits - 1) /\ 2 ^ b <= 2 ^ LongLongBits
<1> DEFINE H == 2 ^ (LongLongBits - 1)
           p == 2 ^ LongLongBits
           h == 2 ^ (IntBits - 1)
           q == 2 ^ IntBits
<1>1. H \in Nat \ {0} /\ p = 2 * H /\ h \in Nat \ {0} /\ q = 2 * h /\ q <= p
      /\ p \in Nat \ {0} /\ q \in Nat \ {0}
  BY PowerAssumption
<1> HIDE DEF H, p, h, q
<1>2. h <= H /\ H <= H /\ p <= p
  BY <1>1
<1> QED BY <1>1, <1>2 DEF H, p, h, q

LEMMA SignedRange ==
  ASSUME NEW v \in Int, NEW bits \in {IntBits, LongLongBits}
  PROVE  /\ Signed(v, bits) \in Int /\ -(2 ^ (LongLongBits - 1)) <= Signed(v, bits)
         /\ Signed(v, bits) < 2 ^ (LongLongBits - 1)
<1> DEFINE H == 2 ^ (LongLongBits - 1)
           h == 2 ^ (bits - 1)
           q == 2 ^ bits
           u == Pattern(v, bits)
           s == Signed(v, bits)
<1>1. H \in Nat \ {0} /\ h \in Nat \ {0} /\ q = 2 * h /\ h <= H
  BY Powers
<1>2. u \in 0 .. q - 1
  BY PatternType
<1>3. s = IF u < h THEN u ELSE u - q
  BY DEF Signed
<1> HIDE DEF H, h, q, u, s
<1>4. s \in Int /\ -H <= s /\ s < H
  BY <1>1, <1>2, <1>3
<1> QED BY <1>4 DEF H, s

LEMMA SignedHeld ==
  ASSUME NEW s \in Int, -(2 ^ (LongLongBits - 1)) <= s, s < 2 ^ (LongLongBits - 1)
  PROVE  LET g == Pattern(s, LongLongBits)
         IN  /\ Negative(g) <=> s < 0
             /\ s >= 0 => g = s /\ s \in Unsigned
             /\ s < 0 => Pattern(-g, LongLongBits) = -s /\ -s \in Unsigned
<1> DEFINE H == 2 ^ (LongLongBits - 1)
           p == 2 ^ LongLongBits
           g == Pattern(s, LongLongBits)
<1>1. H \in Nat \ {0} /\ p = 2 * H /\ p \in Nat \ {0} /\ -H <= s /\ s < H
  BY Powers
<1>2. g = s % p /\ (Negative(g) <=> g >= H) /\ Pattern(-g, LongLongBits) = (-g) % p
  BY DEF Pattern, Negative
<1>3. Unsigned = 0 .. p - 1
  BY DEF Unsigned
<1> DEFINE N == Negative(g)
           P == Pattern(-g, LongLongBits)
<1> HIDE DEF H, p, g, N, P
<1>4. g = IF s < 0 THEN s + p ELSE s
  <2>1. -p <= s /\ s < p
    BY <1>1
  <2> QED BY <1>1, <1>2, <2>1, Modulo
<1>5. N <=> s < 0
  <2>1. N <=> g >= H
    BY <1>2 DEF N
  <2>2. g >= H <=> s < 0
    BY <1>1, <1>4
  <2> QED BY <2>1, <2>2
<1>6. ASSUME s < 0 PROVE P = -s /\ -s \in Unsigned
  <2>1. -g \in Int /\ -p <= -g /\ -g < p /\ -g < 0 /\ -g + p = -s
    BY <1>1, <1>4, <1>6
  <2>2. (-g) % p = -g + p
    <3>1. PICK a \in Int : a = -g
      BY <2>1
    <3>2. a % p = IF a < 0 THEN a + p ELSE a
      BY <1>1, <2>1, <3>1, Modulo
    <3> QED BY <2>1, <3>1, <3>2
  <2>3. P = (-g) % p
    BY <1>2 DEF P
  <2>4. -s \in Unsigned
    BY <1>1, <1>3, <1>6
  <2> QED BY <2>1, <2>2, <2>3, <2>4
<1>7. s >= 0 => g = s /\ s \in Unsigned
  BY <1>1, <1>3, <1>4
<1> QED BY <1>5, <1>6, <1>7 DEF N, P, g

(* The number of a directive, with its prefix, its padding and its digits. *)
NumberOf(c, v, base, w, prefix) ==
  LET body == Numeral(IF v < 0 THEN -v ELSE v, base)
  IN  prefix \o (Repeat(c, w - Len(body)) \o body)

LEMMA PrintedType ==
  ASSUME padc \in Chars, NEW w \in Int, NEW base \in {8, 10, 16}, NEW v \in Nat
  PROVE  Repeat(padc, w - Len(Numeral(v, base))) \o Numeral(v, base) \in Seq(Chars)
<1> DEFINE b == Numeral(v, base)
<1>1. b \in Seq(Chars) /\ Len(b) \in Nat
  BY DigitChars, NumeralType, LenProperties
<1> HIDE DEF b
<1>2. w - Len(b) \in Int
  BY <1>1
<1>3. Repeat(padc, w - Len(b)) \in Seq(Chars)
  BY <1>2, RepeatType
<1>4. Repeat(padc, w - Len(b)) \o b \in Seq(Chars)
  BY <1>1, <1>3, ConcatProperties
<1> QED BY <1>4 DEF b

LEMMA SignedPrinted ==
  ASSUME padc \in Chars, NEW w \in Int, width \in {w, NotLess(w)}, NEW base \in {8, 10, 16},
         arg.num \in Int
  PROVE  LET v == Signed(arg.num, Bits)
         IN  SignedNumber(getint, base)
               = NumberOf(padc, v, base, w, IF v < 0 THEN << "-" >> ELSE << >>)
<1> DEFINE v == Signed(arg.num, Bits)
           g == Pattern(v, LongLongBits)
           u == IF v < 0 THEN -v ELSE v
           t == Repeat(padc, w - Len(Numeral(u, base))) \o Numeral(u, base)
<1>1. Bits \in {IntBits, LongLongBits}
  BY DEF Bits
<1>2. v \in Int /\ -(2 ^ (LongLongBits - 1)) <= v /\ v < 2 ^ (LongLongBits - 1)
  BY <1>1, SignedRange
<1>3. getint = g
  BY DEF getint
<1> HIDE DEF v
<1>4. /\ Negative(g) <=> v < 0
      /\ v >= 0 => g = v /\ v \in Unsigned
      /\ v < 0 => Pattern(-g, LongLongBits) = -v /\ -v \in Unsigned
  BY <1>2, SignedHeld
<1> HIDE DEF g
<1>5. u \in Unsigned /\ u \in Nat
  BY <1>2, <1>4, PowerAssumption DEF Unsigned
<1>6. printnum(u, base) = t
  <2> HIDE DEF u
  <2> QED BY <1>5, Printed
<1>7. t \in Seq(Chars)
  <2> HIDE DEF u
  <2> QED BY <1>5, PrintedType
<1>8. CASE v < 0
  <2>1. SignedNumber(g, base) = << "-" >> \o printnum(u, base)
    BY <1>4, <1>8 DEF SignedNumber
  <2> HIDE DEF t
  <2>2. SignedNumber(g, base) = << "-" >> \o t
    BY <1>6, <2>1
  <2>3. NumberOf(padc, v, base, w, << "-" >>) = << "-" >> \o t
    BY DEF NumberOf, t
  <2> QED BY <1>3, <1>8, <2>2, <2>3 DEF v
<1>9. CASE ~(v < 0)
  <2>1. SignedNumber(g, base) = printnum(u, base)
    BY <1>2, <1>4, <1>9 DEF SignedNumber
  <2> HIDE DEF t
  <2>2. << >> \o t = t
    BY <1>7, ConcatEmptySeq
  <2>3. NumberOf(padc, v, base, w, << >>) = << >> \o t
    BY DEF NumberOf, t
  <2> QED BY <1>3, <1>6, <1>9, <2>1, <2>2, <2>3 DEF v
<1> QED BY <1>8, <1>9

LEMMA UnsignedPrinted ==
  ASSUME padc \in Chars, NEW w \in Int, width \in {w, NotLess(w)}, NEW base \in {8, 10, 16},
         NEW v \in Unsigned
  PROVE  /\ printnum(v, base) = NumberOf(padc, v, base, w, << >>)
         /\ \A s : s \o printnum(v, base) = NumberOf(padc, v, base, w, s)
<1> DEFINE t == Repeat(padc, w - Len(Numeral(v, base))) \o Numeral(v, base)
<1>1. v \in Nat /\ ~(v < 0)
  BY PowerAssumption DEF Unsigned
<1>2. printnum(v, base) = t
  BY Printed
<1>3. t \in Seq(Chars)
  BY <1>1, PrintedType
<1>4. \A s : NumberOf(padc, v, base, w, s) = s \o t
  BY <1>1 DEF NumberOf
<1> HIDE DEF t
<1>5. << >> \o t = t
  BY <1>3, ConcatEmptySeq
<1> QED BY <1>2, <1>4, <1>5

-----------------------------------------------------------------------------
LEMMA Fills ==
  ASSUME NEW d, d.flag \in {"none", "0", "-", "#"}
  PROVE  (PadChar(d) = "-" <=> d.flag = "-") /\ PadChar(d) \in Chars
<1>1. "0" \in Chars /\ "-" \in Chars /\ " " \in Chars
  <2>1. digits[1] \in Chars /\ digits[1] = "0"
    BY DigitChars DEF digits
  <2>2. "-" \in Chars
    BY CharsAssumption DEF Named
  <2> QED BY <2>1, <2>2, NamedChars, Zenon
<1>2. CASE d.flag = "0"
  <2>1. PadChar(d) = "0"
    BY <1>2, Zenon DEF PadChar
  <2>2. "0" # "-"
    OBVIOUS
  <2> QED BY <1>1, <1>2, <2>1, <2>2, Zenon
<1>3. CASE d.flag = "-"
  <2>1. PadChar(d) = "-"
    BY <1>3, Zenon DEF PadChar
  <2> QED BY <1>1, <1>3, <2>1, Zenon
<1>4. CASE d.flag \in {"none", "#"}
  <2>1. d.flag # "0" /\ d.flag # "-"
    BY <1>4
  <2>2. PadChar(d) = " "
    BY <2>1, Zenon DEF PadChar
  <2>3. " " # "-"
    BY Zenon
  <2> QED BY <1>1, <2>1, <2>2, <2>3, Zenon
<1> QED BY <1>2, <1>3, <1>4

LEMMA FillIs ==
  ASSUME NEW d, d.flag # "-"
  PROVE  Fill(d) = PadChar(d)
<1>1. CASE d.flag = "0"
  <2>1. Fill(d) = "0" /\ PadChar(d) = d.flag
    BY <1>1, Zenon DEF Fill, PadChar
  <2> QED BY <1>1, <2>1, Zenon
<1>2. CASE d.flag # "0"
  BY <1>2, Zenon DEF Fill, PadChar
<1> QED BY <1>1, <1>2, Zenon

(* No width, no padding.                                                   *)
LEMMA Unpadded ==
  ASSUME NEW b \in Seq(Chars), NEW c
  PROVE  Repeat(c, -1 - Len(b)) = << >>
<1>1. Len(b) \in Nat
  BY LenProperties
<1>2. Max({0, -1 - Len(b)}) = 0
  BY <1>1, Greater
<1>3. Repeat(c, -1 - Len(b)) = [k \in 1 .. 0 |-> c]
  BY <1>2 DEF Repeat
<1> QED BY <1>3

LEMMA StringPrinted ==
  ASSUME NEW d, d.flag \in {"none", "0", "-", "#"}, padc = PadChar(d), altflag = (d.flag = "#"),
         NEW w \in Int, width \in {w, NotLess(w)}, precision \in Int, NEW s \in Seq(Chars)
  PROVE  StringField(s) = StringText(d, s, w, precision)
<1> DEFINE l   == strnlen(s)
           cut == IF precision < 0 THEN s ELSE SubSeq(s, 1, Min({precision, Len(s)}))
           t   == SubSeq(s, 1, l)
           b   == [k \in 1 .. Len(cut) |-> IF d.flag = "#" /\ cut[k] = "ctl" THEN "?" ELSE cut[k]]
<1>1. Len(s) \in Nat
  BY LenProperties
<1>2. Min({Len(s), precision}) = IF Len(s) <= precision THEN Len(s) ELSE precision
  BY <1>1, Lesser
<1>3. l \in 0 .. Len(s) /\ (precision < 0 => l = Len(s))
      /\ (~(precision < 0) => l = Min({Len(s), precision}))
  BY <1>1, <1>2 DEF strnlen
<1>4. {precision, Len(s)} = {Len(s), precision}
  OBVIOUS
<1> HIDE DEF l
<1>5. t \in Seq(Chars) /\ Len(t) = l /\ \A i \in 1 .. l : t[i] = s[i]
  BY <1>3, FirstOf
<1>6. t = cut
  <2>1. CASE precision < 0
    <3>1. Len(t) = Len(s) /\ \A i \in 1 .. Len(t) : t[i] = s[i]
      BY <1>3, <1>5, <2>1
    <3> HIDE DEF t
    <3>2. t = s
      BY <1>5, <3>1, SeqEqual
    <3> QED BY <2>1, <3>2
  <2>2. CASE ~(precision < 0)
    BY <1>3, <1>4, <2>2
  <2> QED BY <2>1, <2>2
<1>7. Visible(t) = b
  <2>1. Visible(t) = [k \in 1 .. Len(t) |-> IF altflag /\ t[k] = "ctl" THEN "?" ELSE t[k]]
    BY DEF Visible
  <2> HIDE DEF t, cut
  <2>2. Visible(cut) = [k \in 1 .. Len(cut) |-> IF altflag /\ cut[k] = "ctl" THEN "?" ELSE cut[k]]
    BY <1>6, <2>1
  <2>3. CASE d.flag = "#"
    <3>1. altflag
      BY <2>3, Zenon
    <3> QED BY <1>6, <2>2, <2>3, <3>1
  <2>4. CASE d.flag # "#"
    <3>1. ~altflag
      BY <2>4, Zenon
    <3> QED BY <1>6, <2>2, <2>4, <3>1
  <2> QED BY <2>3, <2>4
<1>8. Len(b) = l /\ l \in Nat
  <2> HIDE DEF cut, t
  <2>1. Len(cut) = l /\ l \in Nat
    BY <1>1, <1>3, <1>5, <1>6
  <2> QED BY <2>1
<1>9. StringField(s) = IF padc # "-" THEN Repeat(padc, width - l) \o Visible(t)
                       ELSE Visible(t) \o Repeat(" ", width - l)
  BY Zenon DEF StringField, l, t
<1>10. StringText(d, s, w, precision)
         = IF d.flag = "-" THEN b \o Repeat(" ", w - Len(b)) ELSE Repeat(PadChar(d), w - Len(b)) \o b
  <2>1. StringText(d, s, w, precision)
         = IF d.flag = "-" THEN b \o Repeat(" ", w - Len(b)) ELSE Repeat(Fill(d), w - Len(b)) \o b
    BY Zenon DEF StringText
  <2>2. d.flag # "-" => Fill(d) = PadChar(d)
    BY FillIs
  <2> HIDE DEF b, cut, t
  <2> QED BY <2>1, <2>2, Zenon
<1> HIDE DEF b, t, cut
<1>11. \A c : Repeat(c, width - l) = Repeat(c, w - l)
  BY <1>8, Padding
<1>12. padc # "-" <=> d.flag # "-"
  BY Fills
<1> QED BY <1>7, <1>8, <1>9, <1>10, <1>11, <1>12, Zenon

LEMMA ErrorPrinted ==
  ASSUME arg.num \in Int
  PROVE  ErrorText = ErrorMessage(Signed(arg.num, IntBits))
<1> DEFINE v == Signed(arg.num, IntBits)
           e == IF v < 0 THEN -v ELSE v
<1>1. e \in Unsigned
  BY FitsLongLong
<1>2. ErrorText = IF e \in 1 .. Len(error_string) THEN error_string[e]
                  ELSE << "e" >> \o DigitsOf[10][e]
  BY DEF ErrorText
<1>3. ErrorMessage(v) = IF e \in 1 .. Len(error_string) THEN error_string[e]
                        ELSE << "e" >> \o Numeral(e, 10)
  BY DEF ErrorMessage
<1> HIDE DEF e
<1>4. DigitsOf[10][e] = Numeral(e, 10)
  BY <1>1, DigitsAre
<1> QED BY <1>2, <1>3, <1>4

(* With the flags of an escape as they are meant, its conversion gives     *)
(* what the directive means.                                               *)
LEMMA ConversionMeant ==
  ASSUME Flags, NEW d \in Directive, ~d.text, d.conv \in Conversions, ch = d.conv,
         arg \in Argument, padc = PadChar(d), altflag = (d.flag = "#"), lflag = d.longs,
         NEW w \in Int, width \in {w, NotLess(w)}, ~Disputed(d, arg), d.width = None => w = -1
  PROVE  Converted = Meaning(d, arg, w, precision)
<1> DEFINE a == arg
<1>1. padc \in Chars /\ width \in Int /\ precision \in Int
  BY DEF Flags
<1>2. a.num \in Int /\ a.str \in Seq(Chars) /\ a.char \in Chars
  BY DEF Argument
<1>3. d.flag \in {"none", "0", "-", "#"} /\ d.longs \in Nat
  BY DEF Directive
<1>4. Bits \in {IntBits, LongLongBits} /\ Bits = IF d.longs >= 2 THEN LongLongBits ELSE IntBits
  BY DEF Bits
<1>5. d.conv \in {"c", "e", "s", "d", "o", "u", "x", "p"}
  BY DEF Conversions
<1>6. CASE d.conv = "c"
  <2>1. Converted = << a.char >>
    BY <1>6 DEF Converted
  <2>2. Meaning(d, a, w, precision) = << a.char >>
    BY <1>6 DEF Meaning, Numeric
  <2> QED BY <2>1, <2>2
<1>7. CASE d.conv = "e"
  <2>1. Converted = ErrorText
    BY <1>7 DEF Converted
  <2>2. Meaning(d, a, w, precision) = ErrorMessage(Signed(a.num, IntBits))
    BY <1>7 DEF Meaning, Numeric
  <2> QED BY <1>2, <2>1, <2>2, ErrorPrinted
<1>8. CASE d.conv = "s"
  <2> DEFINE t == IF a.str = Null THEN << "(", "n", "u", "l", "l", ")" >> ELSE a.str
  <2>1. t \in Seq(Chars)
    BY <1>2, NamedChars
  <2>2. Converted = StringField(t)
    BY <1>8 DEF Converted
  <2>3. Meaning(d, a, w, precision) = StringText(d, t, w, precision)
    BY <1>8 DEF Meaning, Numeric
  <2> HIDE DEF t
  <2>4. StringField(t) = StringText(d, t, w, precision)
    BY <1>1, <1>3, <2>1, StringPrinted
  <2> QED BY <2>2, <2>3, <2>4
<1>9. ASSUME d.conv \in Numeric
      PROVE  Meaning(d, a, w, precision)
               = NumberOf(padc, Value(d, a), Base(d), w, Prefix(d, Value(d, a)))
  <2>1. Meaning(d, a, w, precision) = NumberText(d, Value(d, a), w)
    BY <1>9 DEF Meaning, Numeric
  <2>2. CASE d.flag # "-"
    <3>1. Fill(d) = PadChar(d)
      BY <2>2, FillIs
    <3>2. \A v : NumberText(d, v, w)
                  = Prefix(d, v) \o (Repeat(Fill(d), w - Len(Numeral(IF v < 0 THEN -v ELSE v, Base(d))))
                                     \o Numeral(IF v < 0 THEN -v ELSE v, Base(d)))
      BY <2>2, Zenon DEF NumberText
    <3> QED BY <2>1, <3>1, <3>2, Zenon DEF NumberOf
  <2>3. CASE d.flag = "-"
    <3> DEFINE v == Value(d, a)
               b == Numeral(IF v < 0 THEN -v ELSE v, Base(d))
    <3>1. w = -1
      BY <1>9, <2>3 DEF Disputed
    <3>2. b \in Seq(Chars)
      <4>1. v \in Int
        <5>1. PICK bits \in {IntBits, LongLongBits} :
                v \in {Signed(a.num, bits), Pattern(a.num, bits)}
          BY DEF Value
        <5>2. Signed(a.num, bits) \in Int /\ Pattern(a.num, bits) \in 0 .. 2 ^ bits - 1
          BY <1>2, PatternType
        <5>3. 2 ^ bits \in Nat
          BY PowerAssumption
        <5> HIDE DEF v
        <5> QED BY <5>1, <5>2, <5>3
      <4>2. PICK u \in Nat : u = IF v < 0 THEN -v ELSE v
        BY <4>1
      <4>3. Base(d) \in {8, 10, 16}
        BY DEF Base
      <4>4. Numeral(u, Base(d)) \in Seq(Chars)
        BY <4>3, DigitChars, NumeralType
      <4> QED BY <4>2, <4>4
    <3>3. NumberText(d, v, w) = Prefix(d, v) \o (b \o Repeat(Fill(d), w - Len(b)))
      BY <2>3, Zenon DEF NumberText
    <3>4. NumberOf(padc, v, Base(d), w, Prefix(d, v)) = Prefix(d, v) \o (Repeat(padc, w - Len(b)) \o b)
      BY Zenon DEF NumberOf
    <3> HIDE DEF b, v
    <3>5. Repeat(Fill(d), w - Len(b)) = << >> /\ Repeat(padc, w - Len(b)) = << >>
      BY <3>1, <3>2, Unpadded
    <3>6. << >> \o b = b /\ b \o << >> = b
      BY <3>2, ConcatEmptySeq
    <3>7. NumberText(d, v, w) = NumberOf(padc, v, Base(d), w, Prefix(d, v))
      BY <3>3, <3>4, <3>5, <3>6
    <3> QED BY <2>1, <3>7 DEF v
  <2> QED BY <2>2, <2>3
<1>10. ASSUME d.conv \in {"d", "o"}, Value(d, a) = Signed(a.num, Bits), NEW base \in {8, 10},
              Base(d) = base, Converted = SignedNumber(getint, base)
       PROVE  Converted = Meaning(d, a, w, precision)
  <2> DEFINE v == Signed(a.num, Bits)
             p == IF v < 0 THEN << "-" >> ELSE << >>
  <2>1. Value(d, a) = v
    BY <1>10
  <2>2. Prefix(d, Value(d, a)) = p
    BY <1>10, <2>1 DEF Prefix
  <2>3. SignedNumber(getint, base) = NumberOf(padc, v, base, w, p)
    BY <1>1, <1>2, SignedPrinted
  <2>4. d.conv \in Numeric
    BY <1>10 DEF Numeric
  <2> HIDE DEF v, p
  <2> QED BY <1>9, <1>10, <2>1, <2>2, <2>3, <2>4
<1>11. CASE d.conv = "d"
  <2>1. Converted = SignedNumber(getint, 10) /\ Base(d) = 10
    BY <1>11 DEF Converted, Base
  <2>2. Value(d, a) = Signed(a.num, Bits)
    BY <1>4, <1>11 DEF Value
  <2> QED BY <1>10, <1>11, <2>1, <2>2
<1>12. CASE d.conv = "o"
  <2>1. Converted = SignedNumber(getint, 8) /\ Base(d) = 8
    BY <1>12 DEF Converted, Base
  <2>2. Value(d, a) = Pattern(a.num, Bits)
    BY <1>4, <1>12 DEF Value
  <2>3. ~(Signed(a.num, Bits) < 0)
    BY <1>4, <1>12, Zenon DEF Disputed
  <2>4. Pattern(a.num, Bits) = Signed(a.num, Bits)
    <3>1. Pattern(a.num, Bits) \in 0 .. 2 ^ Bits - 1
      BY <1>2, <1>4, PatternType
    <3>2. 2 ^ Bits \in Nat
      BY <1>4, PowerAssumption
    <3> QED BY <2>3, <3>1, <3>2 DEF Signed
  <2> QED BY <1>10, <1>12, <2>1, <2>2, <2>4
<1>13. \A b \in {IntBits, LongLongBits} : Pattern(a.num, b) \in Unsigned /\ ~(Pattern(a.num, b) < 0)
  <2> TAKE b \in {IntBits, LongLongBits}
  <2>1. Pattern(a.num, b) \in Unsigned
    BY <1>2, FitsLongLong
  <2> QED BY <2>1, PowerAssumption DEF Unsigned
<1>14. ASSUME d.conv \in {"u", "x"}, NEW base \in {10, 16}, Base(d) = base,
              Converted = printnum(getuint, base)
       PROVE  Converted = Meaning(d, a, w, precision)
  <2> DEFINE v == Pattern(a.num, Bits)
  <2>1. Value(d, a) = v
    BY <1>4, <1>14 DEF Value
  <2>2. v \in Unsigned /\ ~(v < 0) /\ getuint = v
    BY <1>4, <1>13 DEF getuint
  <2> HIDE DEF v
  <2>3. Prefix(d, v) = << >>
    BY <1>14, <2>2 DEF Prefix
  <2>4. printnum(v, base) = NumberOf(padc, v, base, w, << >>)
    BY <1>1, <2>2, UnsignedPrinted
  <2>5. d.conv \in Numeric
    BY <1>14 DEF Numeric
  <2> QED BY <1>9, <1>14, <2>1, <2>2, <2>3, <2>4, <2>5
<1>15. CASE d.conv = "u"
  <2>1. Converted = printnum(getuint, 10) /\ Base(d) = 10
    BY <1>15 DEF Converted, Base
  <2> QED BY <1>14, <1>15, <2>1
<1>16. CASE d.conv = "x"
  <2>1. Converted = printnum(getuint, 16) /\ Base(d) = 16
    BY <1>16 DEF Converted, Base
  <2> QED BY <1>14, <1>16, <2>1
<1>17. CASE d.conv = "p"
  <2> DEFINE v == Pattern(a.num, IntBits)
  <2>1. Converted = << "0", "x" >> \o printnum(v, 16) /\ Base(d) = 16 /\ Value(d, a) = v
    BY <1>17 DEF Converted, Base, Value
  <2>2. v \in Unsigned /\ ~(v < 0)
    BY <1>13
  <2> HIDE DEF v
  <2>3. Prefix(d, v) = << "0", "x" >>
    BY <1>17, <2>2 DEF Prefix
  <2>4. \A s : s \o printnum(v, 16) = NumberOf(padc, v, 16, w, s)
    BY <1>1, <2>2, UnsignedPrinted
  <2>5. d.conv \in Numeric
    BY <1>17 DEF Numeric
  <2> QED BY <1>9, <2>1, <2>3, <2>4, <2>5
<1> QED BY <1>5, <1>6, <1>7, <1>8, <1>11, <1>12, <1>15, <1>16, <1>17

-----------------------------------------------------------------------------
(* The places of an escape at which something changes.                     *)
LEMMA Shape ==
  ASSUME NEW d \in Directive, Proper(d), ~d.text
  PROVE  /\ Ends(d) /\ FlagEnd(d) = IF d.flag = "none" THEN 1 ELSE 2
         /\ d.width = None \/ d.width = Starred \/ d.width \in Nat \ {0}
         /\ d.width = None => WidthTo(d) = FlagEnd(d)
         /\ d.width = Starred => WidthTo(d) = FlagEnd(d) + 1
         /\ d.width \in Nat \ {0} => /\ WidthTo(d) = FlagEnd(d) + Len(Numeral(d.width, 10))
                                     /\ FlagEnd(d) < WidthTo(d)
         /\ d.prec = None \/ d.prec = Starred \/ d.prec \in Nat \ {0}
         /\ d.prec = None => PointEnd(d) = WidthTo(d) /\ PrecEnd(d) = WidthTo(d)
         /\ d.prec # None => PointEnd(d) = WidthTo(d) + 1 /\ PointEnd(d) < PrecEnd(d)
         /\ d.prec = Starred => PrecEnd(d) = PointEnd(d) + 1
         /\ d.prec \in Nat \ {0} => PrecEnd(d) = PointEnd(d) + Len(Numeral(d.prec, 10))
         /\ LongsEnd(d) = PrecEnd(d) + d.longs /\ d.longs \in Nat
         /\ d.prec = Starred => d.prec # None
<1>1. d.width \in Fields /\ d.prec \in Fields /\ d.longs \in Nat
  BY DEF Directive
<1>2. Ends(d) /\ FlagEnd(d) = IF d.flag = "none" THEN 1 ELSE 2
  BY EscapeWritten
<1>3. FlagEnd(d) \in Nat /\ WidthTo(d) \in Nat /\ PointEnd(d) \in Nat /\ PrecEnd(d) \in Nat
  BY <1>2 DEF Ends
<1>4. ASSUME NEW v \in Fields
      PROVE  /\ v = None \/ v = Starred \/ v \in Nat \ {0}
             /\ Len(Field(v)) \in Nat
             /\ v = None => Len(Field(v)) = 0
             /\ v # None => Len(Field(v)) >= 1
             /\ v = Starred => Len(Field(v)) = 1 /\ v # None
             /\ v \in Nat \ {0} => Len(Field(v)) = Len(Numeral(v, 10))
  <2>1. v = None \/ v = Starred \/ v \in Nat \ {0}
    BY DEF Fields
  <2>2. /\ Len(Field(v)) \in Nat
        /\ v = None => Len(Field(v)) = 0
        /\ v = Starred => Len(Field(v)) = 1
        /\ v \in Nat \ {0} => Field(v) = Numeral(v, 10)
    BY FieldIs
  <2>3. v \in Nat \ {0} => Len(Numeral(v, 10)) \in Nat \ {0}
    BY NumeralReads
  <2>4. Starred # None
    BY DEF Starred, None
  <2> QED BY <2>1, <2>2, <2>3, <2>4
<1>5. WidthTo(d) = FlagEnd(d) + Len(Field(d.width))
  BY DEF WidthTo
<1>6. /\ d.prec = None => PointEnd(d) = WidthTo(d) /\ PrecEnd(d) = WidthTo(d)
      /\ d.prec # None => /\ PointEnd(d) = WidthTo(d) + 1
                          /\ PrecEnd(d) = PointEnd(d) + Len(Field(d.prec))
  BY EscapeWritten
<1>7. LongsEnd(d) = PrecEnd(d) + d.longs
  BY DEF LongsEnd
<1>8. /\ d.width = None \/ d.width = Starred \/ d.width \in Nat \ {0}
      /\ d.width = None => WidthTo(d) = FlagEnd(d)
      /\ d.width = Starred => WidthTo(d) = FlagEnd(d) + 1
      /\ d.width \in Nat \ {0} => /\ WidthTo(d) = FlagEnd(d) + Len(Numeral(d.width, 10))
                                  /\ FlagEnd(d) < WidthTo(d)
  <2>1. /\ d.width = None \/ d.width = Starred \/ d.width \in Nat \ {0}
        /\ Len(Field(d.width)) \in Nat
        /\ d.width = None => Len(Field(d.width)) = 0
        /\ d.width # None => Len(Field(d.width)) >= 1
        /\ d.width = Starred => Len(Field(d.width)) = 1
        /\ d.width \in Nat \ {0} => Len(Field(d.width)) = Len(Numeral(d.width, 10))
    BY <1>1, <1>4
  <2>2. d.width \in Nat \ {0} => d.width # None
    BY DEF None
  <2> PICK l \in Nat : l = Len(Field(d.width))
    BY <2>1
  <2>3. WidthTo(d) = FlagEnd(d) + l
    BY <1>5
  <2>4. d.width = None => WidthTo(d) = FlagEnd(d)
    BY <1>3, <2>1, <2>3
  <2>5. d.width = Starred => WidthTo(d) = FlagEnd(d) + 1
    BY <1>3, <2>1, <2>3
  <2>6. d.width \in Nat \ {0} => WidthTo(d) = FlagEnd(d) + Len(Numeral(d.width, 10))
    BY <1>5, <2>1
  <2>7. d.width \in Nat \ {0} => FlagEnd(d) < WidthTo(d)
    BY <1>3, <2>1, <2>2, <2>3
  <2> QED BY <2>1, <2>4, <2>5, <2>6, <2>7
<1>9. /\ d.prec = None \/ d.prec = Starred \/ d.prec \in Nat \ {0}
      /\ d.prec # None => PointEnd(d) = WidthTo(d) + 1 /\ PointEnd(d) < PrecEnd(d)
      /\ d.prec = Starred => PrecEnd(d) = PointEnd(d) + 1 /\ d.prec # None
      /\ d.prec \in Nat \ {0} => PrecEnd(d) = PointEnd(d) + Len(Numeral(d.prec, 10))
  <2>1. /\ d.prec = None \/ d.prec = Starred \/ d.prec \in Nat \ {0}
        /\ Len(Field(d.prec)) \in Nat
        /\ d.prec # None => Len(Field(d.prec)) >= 1
        /\ d.prec = Starred => Len(Field(d.prec)) = 1 /\ d.prec # None
        /\ d.prec \in Nat \ {0} => Len(Field(d.prec)) = Len(Numeral(d.prec, 10))
    BY <1>1, <1>4
  <2>2. d.prec \in Nat \ {0} => d.prec # None
    BY DEF None
  <2> PICK l \in Nat : l = Len(Field(d.prec))
    BY <2>1
  <2>3. d.prec # None => PointEnd(d) = WidthTo(d) + 1 /\ PrecEnd(d) = PointEnd(d) + l /\ l >= 1
    BY <1>6, <2>1
  <2>4. d.prec # None => PointEnd(d) < PrecEnd(d)
    BY <1>3, <2>3
  <2>5. d.prec = Starred => PrecEnd(d) = PointEnd(d) + 1
    BY <2>1, <2>3
  <2>6. d.prec \in Nat \ {0} => PrecEnd(d) = PointEnd(d) + Len(Numeral(d.prec, 10))
    BY <1>6, <2>1, <2>2
  <2> QED BY <2>1, <2>3, <2>4, <2>5, <2>6
<1> QED BY <1>1, <1>2, <1>6, <1>7, <1>8, <1>9

(* The next character inside an escape.                                    *)
LEMMA Reading ==
  ASSUME Told, NEW k \in 0 .. Len(meant) - 1, NEW d, d = NextMeant(k), ~d.text,
         NEW j \in 1 .. LongsEnd(d), fi = Start(meant)[k] + j
  PROVE  /\ j < FlagEnd(d) => j = 1 /\ FlagEnd(d) = 2 /\ d.flag # "none" /\ ch = d.flag
         /\ \A i \in 0 .. Len(Field(d.width)) - 1 :
              j = FlagEnd(d) + i => ch = Field(d.width)[i + 1]
         /\ d.prec # None =>
              /\ j = WidthTo(d) => ch = "."
              /\ \A i \in 0 .. Len(Field(d.prec)) - 1 :
                   j = PointEnd(d) + i => ch = Field(d.prec)[i + 1]
         /\ PrecEnd(d) <= j /\ j < LongsEnd(d) => ch = "l"
         /\ j = LongsEnd(d) => ch = IF d.conv = "end" THEN NUL ELSE d.conv
<1> DEFINE W == Written(NextMeant(k))
<1>1. d \in Directive /\ Proper(d)
  BY Lists
<1>2. Ends(d) /\ FlagEnd(d) = IF d.flag = "none" THEN 1 ELSE 2
  BY <1>1, EscapeWritten
<1>3. /\ FlagEnd(d) \in Nat /\ WidthTo(d) \in Nat /\ PointEnd(d) \in Nat
      /\ PrecEnd(d) \in Nat /\ LongsEnd(d) \in Nat
      /\ 1 <= FlagEnd(d) /\ FlagEnd(d) <= WidthTo(d) /\ WidthTo(d) <= PointEnd(d)
      /\ PointEnd(d) <= PrecEnd(d) /\ PrecEnd(d) <= LongsEnd(d)
  BY <1>2 DEF Ends
<1>4. Len(W) = LongsEnd(d) + IF d.conv = "end" THEN 0 ELSE 1
  BY <1>1, EscapeWritten
<1> HIDE DEF W
<1>5. j < Len(W) => ch = W[j + 1]
  <2> SUFFICES ASSUME j < Len(W) PROVE ch = W[j + 1]
    OBVIOUS
  <2>1. j \in 0 .. Len(Written(NextMeant(k))) - 1
    BY <1>3, <1>4 DEF W
  <2> QED BY <2>1, CharAt DEF W
<1>6. j < LongsEnd(d) => ch = W[j + 1]
  BY <1>3, <1>4, <1>5
<1>7. ASSUME j < FlagEnd(d)
      PROVE  j = 1 /\ FlagEnd(d) = 2 /\ d.flag # "none" /\ ch = d.flag
  <2>1. j = 1 /\ FlagEnd(d) = 2 /\ d.flag # "none" /\ j < LongsEnd(d)
    BY <1>2, <1>3, <1>7
  <2>2. W[2] = d.flag
    BY <1>1, <2>1, EscapeWritten DEF W
  <2> QED BY <1>6, <2>1, <2>2
<1>8. ASSUME NEW i \in 0 .. Len(Field(d.width)) - 1, j = FlagEnd(d) + i
      PROVE  ch = Field(d.width)[i + 1]
  <2>1. Len(Field(d.width)) \in Nat
    BY <1>1, FieldIs DEF Directive
  <2>2. WidthTo(d) = FlagEnd(d) + Len(Field(d.width))
    BY DEF WidthTo
  <2>3. i + 1 \in 1 .. Len(Field(d.width)) /\ j < LongsEnd(d) /\ j + 1 = FlagEnd(d) + (i + 1)
    BY <1>3, <1>8, <2>1, <2>2, SMTT(30)
  <2>4. \A o \in 1 .. Len(Field(d.width)) : W[FlagEnd(d) + o] = Field(d.width)[o]
    BY <1>1, EscapeWritten DEF W
  <2>5. W[FlagEnd(d) + (i + 1)] = Field(d.width)[i + 1]
    BY <2>3, <2>4
  <2> QED BY <1>6, <2>3, <2>5
<1>9. ASSUME d.prec # None
      PROVE  /\ j = WidthTo(d) => ch = "."
             /\ \A i \in 0 .. Len(Field(d.prec)) - 1 :
                  j = PointEnd(d) + i => ch = Field(d.prec)[i + 1]
  <2>1. /\ PointEnd(d) = WidthTo(d) + 1 /\ W[PointEnd(d)] = "."
        /\ PrecEnd(d) = PointEnd(d) + Len(Field(d.prec))
        /\ \A i \in 1 .. Len(Field(d.prec)) : W[PointEnd(d) + i] = Field(d.prec)[i]
    BY <1>1, <1>9, EscapeWritten DEF W
  <2>2. Len(Field(d.prec)) \in Nat
    BY <1>1, FieldIs DEF Directive
  <2>3. j = WidthTo(d) => ch = "."
    BY <1>3, <1>6, <2>1
  <2>4. ASSUME NEW i \in 0 .. Len(Field(d.prec)) - 1, j = PointEnd(d) + i
        PROVE  ch = Field(d.prec)[i + 1]
    <3>1. i + 1 \in 1 .. Len(Field(d.prec)) /\ j < LongsEnd(d) /\ j + 1 = PointEnd(d) + (i + 1)
      BY <1>3, <2>1, <2>2, <2>4, SMTT(30)
    <3>2. W[PointEnd(d) + (i + 1)] = Field(d.prec)[i + 1]
      BY <2>1, <3>1
    <3> QED BY <1>6, <3>1, <3>2
  <2> QED BY <2>3, <2>4
<1>10. ASSUME PrecEnd(d) <= j, j < LongsEnd(d)
       PROVE  ch = "l"
  <2>1. d.longs \in Nat /\ LongsEnd(d) = PrecEnd(d) + d.longs
    BY <1>1 DEF Directive, LongsEnd
  <2>2. PICK i \in 1 .. d.longs : j + 1 = PrecEnd(d) + i
    <3>1. (j + 1) - PrecEnd(d) \in 1 .. d.longs /\ j + 1 = PrecEnd(d) + ((j + 1) - PrecEnd(d))
      BY <1>3, <1>10, <2>1, SMTT(30)
    <3> QED BY <3>1
  <2>3. W[PrecEnd(d) + i] = "l"
    BY <1>1, EscapeWritten DEF W
  <2> QED BY <1>6, <1>10, <2>2, <2>3
<1>11. ASSUME j = LongsEnd(d)
       PROVE  ch = IF d.conv = "end" THEN NUL ELSE d.conv
  <2>1. CASE d.conv = "end"
    <3>1. Len(W) = j
      BY <1>3, <1>4, <1>11, <2>1
    <3>2. fi = Start(meant)[k] + Len(Written(NextMeant(k)))
      BY <3>1 DEF W
    <3>3. ch = NUL
      BY <2>1, <3>2, CharAfter
    <3> QED BY <2>1, <3>3
  <2>2. CASE d.conv # "end"
    <3>1. j < Len(W) /\ W[j + 1] = d.conv
      BY <1>1, <1>3, <1>4, <1>11, <2>2, EscapeWritten DEF W
    <3> QED BY <1>5, <2>2, <3>1
  <2> QED BY <2>1, <2>2
<1> QED BY <1>7, <1>8, <1>9, <1>10, <1>11

-----------------------------------------------------------------------------
(* What the flags are at each place.                                       *)
LEMMA FlagsAt ==
  ASSUME NEW k, NEW d, d = NextMeant(k), d \in Directive, Proper(d), ~d.text, NEW j \in Nat
  PROVE  /\ j < WidthTo(d) => WidthBy(k, j) = -1
         /\ WidthTo(d) <= j /\ (d.prec = None \/ j < PointEnd(d)) => WidthBy(k, j) = WideOf(k)
         /\ d.prec # None /\ PointEnd(d) <= j => WidthBy(k, j) = NotLess(WideOf(k))
         /\ j < PrecEnd(d) => PrecBy(k, j) = -1
         /\ PrecEnd(d) <= j => PrecBy(k, j) = PreciseOf(k)
         /\ j < PrecEnd(d) => LongBy(d, j) = 0
         /\ PrecEnd(d) <= j => LongBy(d, j) = j - PrecEnd(d)
         /\ FlagEnd(d) <= j => AltBy(d, j) = (d.flag = "#")
         /\ FlagEnd(d) <= j => PadBy(d, j) = PadChar(d)
<1>1. /\ FlagEnd(d) \in Nat /\ WidthTo(d) \in Nat /\ PointEnd(d) \in Nat /\ PrecEnd(d) \in Nat
      /\ WidthTo(d) <= PointEnd(d)
  BY Shape DEF Ends
<1>2. /\ j < WidthTo(d) => WidthBy(k, j) = -1
      /\ WidthTo(d) <= j /\ (d.prec = None \/ j < PointEnd(d)) => WidthBy(k, j) = WideOf(k)
      /\ d.prec # None /\ PointEnd(d) <= j => WidthBy(k, j) = NotLess(WideOf(k))
  BY <1>1 DEF WidthBy
<1>3. /\ j < PrecEnd(d) => PrecBy(k, j) = -1
      /\ PrecEnd(d) <= j => PrecBy(k, j) = PreciseOf(k)
  BY <1>1 DEF PrecBy
<1>4. /\ j < PrecEnd(d) => LongBy(d, j) = 0
      /\ PrecEnd(d) <= j => LongBy(d, j) = j - PrecEnd(d)
  BY <1>1 DEF LongBy
<1>5. FlagEnd(d) <= j => j >= FlagEnd(d)
  BY <1>1
<1>6. FlagEnd(d) <= j => AltBy(d, j) = (d.flag = "#")
  BY <1>5, Zenon DEF AltBy
<1>7. FlagEnd(d) <= j => PadBy(d, j) = PadChar(d)
  BY <1>5, Zenon DEF PadBy
<1> QED BY <1>2, <1>3, <1>4, <1>6, <1>7

LEMMA FieldsMeant ==
  ASSUME NEW k, NEW d, d = NextMeant(k), d \in Directive
  PROVE  /\ d.width = None => WideOf(k) = -1
         /\ d.width \in Nat \ {0} => WideOf(k) = d.width
         /\ d.width = Starred => WideOf(k) = Signed(args[Before(k) + 1].num, IntBits)
         /\ d.prec = None => PreciseOf(k) = -1
         /\ d.prec \in Nat \ {0} => PreciseOf(k) = d.prec
         /\ d.prec = Starred => PreciseOf(k) = Signed(args[Before(k) + Stars(d)].num, IntBits)
<1>1. -1 \notin Nat /\ -2 \notin Nat /\ -1 # -2
  OBVIOUS
<1>2. /\ d.width = None => WideOf(k) = -1
      /\ d.width \in Nat \ {0} => WideOf(k) = d.width
      /\ d.width = Starred => WideOf(k) = Signed(args[Before(k) + 1].num, IntBits)
  BY <1>1 DEF WideOf, Wide, None, Starred
<1>3. /\ d.prec = None => PreciseOf(k) = -1
      /\ d.prec \in Nat \ {0} => PreciseOf(k) = d.prec
      /\ d.prec = Starred => PreciseOf(k) = Signed(args[Before(k) + Stars(d)].num, IntBits)
  BY <1>1 DEF PreciseOf, Precise, None, Starred
<1> QED BY <1>2, <1>3

(* The call stays the same.                                                *)
LEMMA CallStays ==
  ASSUME [Next]_vars
  PROVE  given' = given
  BY DEF Next, vars, Refuse, Begin, Text, End, Percent, Flag, WidthDigit, WidthEnd,
         Star, Convert, PercentSign, Unrecognized

LEMMA MeaningStays ==
  ASSUME given' = given
  PROVE  /\ Told => Told'
         /\ (Says(meant, fmt) => Says(meant, fmt)') /\ (Undisputed' => Undisputed)
         /\ meant' = meant /\ args' = args /\ fmt' = fmt /\ n' = n
         /\ \A k : /\ Start(meant)[k]' = Start(meant)[k]
                   /\ Used(meant)[k]' = Used(meant)[k]
                   /\ Said(meant, args)[k]' = Said(meant, args)[k]
                   /\ NextMeant(k)' = NextMeant(k) /\ Before(k)' = Before(k)
                   /\ WideOf(k)' = WideOf(k) /\ PreciseOf(k)' = PreciseOf(k)
         /\ \A k, j : WidthBy(k, j)' = WidthBy(k, j) /\ PrecBy(k, j)' = PrecBy(k, j)
<1>1. meant' = meant /\ args' = args /\ fmt' = fmt /\ n' = n
  BY DEF given
<1>2. /\ Told => Told'
      /\ (Says(meant, fmt) => Says(meant, fmt)') /\ (Undisputed' => Undisputed)
  <2>1. Says(meant, fmt) => Says(meant, fmt)'
    BY <1>1
  <2>2. (Undisputed' => Undisputed) /\ (Undisputed => Undisputed')
    BY <1>1, Zenon DEF Undisputed
  <2> QED BY <2>1, <2>2 DEF Told
<1>3. \A k : /\ Start(meant)[k]' = Start(meant)[k]
             /\ Used(meant)[k]' = Used(meant)[k]
             /\ Said(meant, args)[k]' = Said(meant, args)[k]
  BY <1>1
<1>4. \A k : NextMeant(k)' = NextMeant(k) /\ Before(k)' = Before(k)
  BY <1>1 DEF NextMeant, Before
<1>5. \A k : WideOf(k)' = WideOf(k) /\ PreciseOf(k)' = PreciseOf(k)
  BY <1>1, <1>4 DEF WideOf, PreciseOf
<1>6. \A k, j : WidthBy(k, j)' = WidthBy(k, j) /\ PrecBy(k, j)' = PrecBy(k, j)
  BY <1>4, <1>5 DEF WidthBy, PrecBy
<1> QED BY <1>1, <1>2, <1>3, <1>4, <1>5, <1>6

(* A step to the i-th character of an escape, or past it.                  *)
LEMMA StaysIn ==
  ASSUME given' = given, NEW k, NEW d, d = NextMeant(k), ~d.text, NEW i \in 1 .. LongsEnd(d),
         fi' = Start(meant)[k] + i, ai' = Before(k) + StarsBy(d, i), out' = Said(meant, args)[k],
         padc' = PadBy(d, i), altflag' = AltBy(d, i), lflag' = LongBy(d, i),
         \/ /\ pc' = "switch" /\ Outside(d, i)
            /\ width' = WidthBy(k, i) /\ precision' = PrecBy(k, i)
         \/ pc' = "number" /\ Gathered(k, i, width', precision')
  PROVE  In(k, i)'
<1>1. /\ meant' = meant /\ args' = args /\ NextMeant(k)' = NextMeant(k) /\ Before(k)' = Before(k)
      /\ WideOf(k)' = WideOf(k)
      /\ WidthBy(k, i)' = WidthBy(k, i) /\ PrecBy(k, i)' = PrecBy(k, i)
  BY MeaningStays
<1>2. (pc = "switch" /\ Outside(NextMeant(k), i)
        /\ width = WidthBy(k, i) /\ precision = PrecBy(k, i))' => Switching(k, i)'
  BY DEF Switching
<1>3. (pc' = "switch" /\ Outside(d, i)
        /\ width' = WidthBy(k, i) /\ precision' = PrecBy(k, i)) => Switching(k, i)'
  BY <1>1, <1>2
<1>4. pc' = "number" /\ Gathered(k, i, width', precision') => Gathering(k, i)'
  <2> SUFFICES ASSUME pc' = "number", Gathered(k, i, width', precision')
               PROVE  Gathering(k, i)'
    OBVIOUS
  <2>1. Gathered(k, i, width, precision)'
    BY <1>1 DEF Gathered
  <2> QED BY <2>1 DEF Gathering
<1>5. Switching(k, i)' \/ Gathering(k, i)'
  BY <1>3, <1>4
<1>6. (/\ ~NextMeant(k).text /\ i \in 1 .. LongsEnd(NextMeant(k))
       /\ fi = Start(meant)[k] + i /\ ai = Before(k) + StarsBy(NextMeant(k), i)
       /\ out = Said(meant, args)[k] /\ padc = PadBy(NextMeant(k), i)
       /\ altflag = AltBy(NextMeant(k), i) /\ lflag = LongBy(NextMeant(k), i)
       /\ Switching(k, i) \/ Gathering(k, i))' => In(k, i)'
  BY DEF In
<1> QED BY <1>1, <1>5, <1>6

-----------------------------------------------------------------------------
(* The steps inside an escape.                                             *)
LEMMA InAt ==
  ASSUME Told, NEW k \in 0 .. Len(meant) - 1, NEW d, d = NextMeant(k), NEW j, In(k, j)
  PROVE  /\ d \in Directive /\ Proper(d) /\ ~d.text /\ j \in Nat /\ j \in 1 .. LongsEnd(d)
         /\ fi = Start(meant)[k] + j /\ ai = Before(k) + StarsBy(d, j)
         /\ out = Said(meant, args)[k]
         /\ padc = PadBy(d, j) /\ altflag = AltBy(d, j) /\ lflag = LongBy(d, j)
         /\ Start(meant)[k] \in Nat /\ Before(k) \in Nat
         /\ Switching(k, j) \/ Gathering(k, j)
<1>1. /\ ~d.text /\ j \in 1 .. LongsEnd(d)
      /\ fi = Start(meant)[k] + j /\ ai = Before(k) + StarsBy(d, j)
      /\ out = Said(meant, args)[k]
      /\ padc = PadBy(d, j) /\ altflag = AltBy(d, j) /\ lflag = LongBy(d, j)
      /\ Switching(k, j) \/ Gathering(k, j)
  BY DEF In
<1>2. d \in Directive /\ Proper(d)
  BY Lists
<1>3. LongsEnd(d) \in Nat
  BY <1>1, <1>2, Shape DEF Ends
<1>4. Len(meant) \in Nat /\ k \in 0 .. Len(meant)
  BY Lists
<1>5. Start(meant)[k] \in Nat
  BY <1>4, Starts
<1>6. Before(k) \in Nat
  BY <1>4, UsedIs DEF Before
<1> QED BY <1>1, <1>2, <1>3, <1>5, <1>6

LEMMA FlagMeant ==
  ASSUME Inv, Told, Next, NEW k \in 0 .. Len(meant) - 1, NEW d, d = NextMeant(k),
         NEW j, In(k, j), Switching(k, j), j < FlagEnd(d)
  PROVE  In(k, j + 1)'
<1>1. /\ d \in Directive /\ Proper(d) /\ ~d.text /\ j \in Nat /\ j \in 1 .. LongsEnd(d)
      /\ fi = Start(meant)[k] + j /\ ai = Before(k) + StarsBy(d, j)
      /\ out = Said(meant, args)[k]
      /\ padc = PadBy(d, j) /\ altflag = AltBy(d, j) /\ lflag = LongBy(d, j)
      /\ Start(meant)[k] \in Nat
  BY InAt
<1>2. j = 1 /\ FlagEnd(d) = 2 /\ d.flag # "none" /\ ch = d.flag
  BY <1>1, Reading
<1>3. ch \in {"0", "-", "#"}
  BY <1>1, <1>2 DEF Directive
<1>4. pc = "switch" /\ width = WidthBy(k, j) /\ precision = PrecBy(k, j)
  BY DEF Switching
<1>5. Flag
  <2>1. ch \in FlagChars
    BY <1>3, Arms
  <2> QED BY <1>4, <2>1, SwitchArm
<1>6. /\ given' = given /\ fi' = fi + 1 /\ ai' = ai /\ precision' = precision /\ pc' = "switch"
      /\ out' = out /\ width' = width /\ lflag' = lflag
      /\ padc' = (IF ch \in {"-", "0"} THEN ch ELSE padc)
      /\ altflag' = (altflag \/ ch = "#")
  BY <1>3, <1>5 DEF Flag, output
<1>7. PICK i \in Nat : i = j + 1 /\ i = 2
  BY <1>2
<1>8. /\ Ends(d) /\ LongsEnd(d) = PrecEnd(d) + d.longs /\ d.longs \in Nat
      /\ d.width = None \/ d.width = Starred \/ d.width \in Nat \ {0}
      /\ d.width = Starred => WidthTo(d) = FlagEnd(d) + 1
      /\ d.width \in Nat \ {0} => FlagEnd(d) < WidthTo(d)
      /\ d.prec = None \/ d.prec = Starred \/ d.prec \in Nat \ {0}
      /\ d.prec # None => PointEnd(d) = WidthTo(d) + 1 /\ PointEnd(d) < PrecEnd(d)
      /\ d.prec = Starred => d.prec # None
  BY <1>1, Shape
<1>9. /\ WidthTo(d) \in Nat /\ PointEnd(d) \in Nat /\ PrecEnd(d) \in Nat /\ LongsEnd(d) \in Nat
      /\ 2 <= WidthTo(d) /\ WidthTo(d) <= PointEnd(d) /\ PointEnd(d) <= PrecEnd(d)
      /\ PrecEnd(d) <= LongsEnd(d)
  BY <1>2, <1>8 DEF Ends
<1>10. padc' = PadBy(d, i)
  <2>1. ~(1 >= FlagEnd(d)) /\ 2 >= FlagEnd(d)
    BY <1>2
  <2>2. padc = " "
    BY <1>1, <1>2, <2>1, Zenon DEF PadBy
  <2>3. PadBy(d, 2) = IF d.flag \in {"0", "-"} THEN d.flag ELSE " "
    BY <2>1, Zenon DEF PadBy, PadChar
  <2>4. padc' = IF d.flag \in {"-", "0"} THEN d.flag ELSE " "
    BY <1>2, <1>6, <2>2, Zenon
  <2> QED BY <1>7, <2>3, <2>4, Zenon
<1>11. altflag' = AltBy(d, i)
  <2>1. ~(1 >= FlagEnd(d)) /\ 2 >= FlagEnd(d)
    BY <1>2
  <2>2. altflag = FALSE
    BY <1>1, <1>2, <2>1, Zenon DEF AltBy
  <2>3. AltBy(d, 2) = (d.flag = "#")
    BY <2>1, Zenon DEF AltBy
  <2> QED BY <1>2, <1>6, <1>7, <2>2, <2>3, Zenon
<1>12. lflag' = LongBy(d, i)
  <2>1. LongBy(d, j) = 0 /\ LongBy(d, i) = 0
    BY <1>2, <1>7, <1>9 DEF LongBy
  <2> QED BY <1>1, <1>6, <2>1
<1>13. StarsBy(d, i) = StarsBy(d, j)
  BY <1>2, <1>7, <1>8, <1>9 DEF StarsBy
<1>14. width' = WidthBy(k, i)
  <2>1. WidthBy(k, j) = -1
    BY <1>1, <1>2, <1>9, FlagsAt
  <2>2. CASE i < WidthTo(d)
    BY <1>1, <1>4, <1>6, <2>1, <2>2, FlagsAt
  <2>3. CASE ~(i < WidthTo(d))
    <3>1. d.width = None /\ WidthTo(d) <= i /\ (d.prec = None \/ i < PointEnd(d))
      BY <1>2, <1>7, <1>8, <1>9, <2>3
    <3>2. WidthBy(k, i) = WideOf(k)
      BY <1>1, <3>1, FlagsAt
    <3>3. WideOf(k) = -1
      BY <1>1, <3>1, FieldsMeant
    <3> QED BY <1>4, <1>6, <2>1, <3>2, <3>3
  <2> QED BY <2>2, <2>3
<1>15. precision' = PrecBy(k, i)
  <2>1. PrecBy(k, j) = -1
    BY <1>1, <1>2, <1>9, FlagsAt
  <2>2. CASE i < PrecEnd(d)
    BY <1>1, <1>4, <1>6, <2>1, <2>2, FlagsAt
  <2>3. CASE ~(i < PrecEnd(d))
    <3>1. d.prec = None /\ PrecEnd(d) <= i
      BY <1>7, <1>8, <1>9, <2>3
    <3>2. PrecBy(k, i) = PreciseOf(k)
      BY <1>1, <3>1, FlagsAt
    <3>3. PreciseOf(k) = -1
      BY <1>1, <3>1, FieldsMeant
    <3> QED BY <1>4, <1>6, <2>1, <3>2, <3>3
  <2> QED BY <2>2, <2>3
<1>16. Outside(d, i) /\ i \in 1 .. LongsEnd(d)
  BY <1>2, <1>7, <1>9 DEF Outside
<1>17. fi' = Start(meant)[k] + i /\ ai' = Before(k) + StarsBy(d, i) /\ out' = Said(meant, args)[k]
  BY <1>1, <1>6, <1>7, <1>13
<1>18. In(k, i)'
  BY <1>1, <1>6, <1>10, <1>11, <1>12, <1>14, <1>15, <1>16, <1>17, StaysIn
<1> QED BY <1>7, <1>18

-----------------------------------------------------------------------------
LEMMA GoesOnIn ==
  ASSUME Told, NEW k \in 0 .. Len(meant) - 1, NEW d, d = NextMeant(k), NEW j, In(k, j),
         FlagEnd(d) <= j, NEW i \in 1 .. LongsEnd(d), i = j + 1,
         given' = given, fi' = fi + 1, out' = out, padc' = padc, altflag' = altflag,
         lflag' = LongBy(d, i), ai' = Before(k) + StarsBy(d, i),
         \/ /\ pc' = "switch" /\ Outside(d, i)
            /\ width' = WidthBy(k, i) /\ precision' = PrecBy(k, i)
         \/ pc' = "number" /\ Gathered(k, i, width', precision')
  PROVE  In(k, i)'
<1>1. /\ d \in Directive /\ Proper(d) /\ ~d.text /\ j \in Nat
      /\ fi = Start(meant)[k] + j /\ out = Said(meant, args)[k]
      /\ padc = PadBy(d, j) /\ altflag = AltBy(d, j) /\ Start(meant)[k] \in Nat
  BY InAt
<1>2. FlagEnd(d) \in Nat
  BY <1>1, Shape DEF Ends
<1>3. i \in Nat /\ FlagEnd(d) <= i /\ fi' = Start(meant)[k] + i
  BY <1>1, <1>2
<1>4. PadBy(d, j) = PadChar(d) /\ PadBy(d, i) = PadChar(d)
      /\ AltBy(d, j) = (d.flag = "#") /\ AltBy(d, i) = (d.flag = "#")
  BY <1>1, <1>3, FlagsAt
<1>5. padc' = PadBy(d, i) /\ altflag' = AltBy(d, i)
  BY <1>1, <1>4, Zenon
<1>6. out' = Said(meant, args)[k]
  BY <1>1
<1> QED BY <1>1, <1>3, <1>5, <1>6, StaysIn

LEMMA StarGives ==
  ASSUME Star
  PROVE  /\ given' = given /\ fi' = fi + 1 /\ ai' = ai + 1 /\ out' = out /\ pc' = "switch"
         /\ padc' = padc /\ altflag' = altflag /\ lflag' = lflag
         /\ width < 0 => width' = Signed(args[ai + 1].num, IntBits) /\ precision' = -1
         /\ ~(width < 0) => width' = width /\ precision' = Signed(args[ai + 1].num, IntBits)
  BY DEF Star, Number, arg, output

LEMMA DigitGives ==
  ASSUME WidthDigit
  PROVE  /\ given' = given /\ fi' = fi + 1 /\ ai' = ai /\ out' = out /\ pc' = "number"
         /\ padc' = padc /\ altflag' = altflag /\ lflag' = lflag /\ width' = width
         /\ precision' = Digit(ch) + IF pc = "number" THEN 10 * precision ELSE 0
  BY DEF WidthDigit, output

LEMMA FlagGives ==
  ASSUME Flag, altflag \in BOOLEAN
  PROVE  /\ given' = given /\ fi' = fi + 1 /\ ai' = ai /\ out' = out /\ pc' = "switch"
         /\ precision' = precision
         /\ ch = "." => /\ padc' = padc /\ altflag' = altflag /\ lflag' = lflag
                        /\ width' = NotLess(width)
         /\ ch = "l" => /\ padc' = padc /\ altflag' = altflag /\ lflag' = lflag + 1
                        /\ width' = width
<1>1. /\ given' = given /\ fi' = fi + 1 /\ ai' = ai /\ out' = out /\ pc' = "switch"
      /\ precision' = precision
  BY DEF Flag, output
<1>2. ASSUME ch = "." PROVE padc' = padc /\ lflag' = lflag /\ width' = NotLess(width)
  BY <1>2 DEF Flag, NotLess
<1>3. ASSUME ch = "l" PROVE padc' = padc /\ lflag' = lflag + 1 /\ width' = width
  BY <1>3 DEF Flag
<1>4. ch # "#" => altflag' = altflag
  BY Zenon DEF Flag
<1>5. ch \in {".", "l"} => ch # "#"
  OBVIOUS
<1> QED BY <1>1, <1>2, <1>3, <1>4, <1>5

(* The first digit reads as it is.                                         *)
LEMMA FirstDigit ==
  ASSUME NEW v \in Nat \ {0}
  PROVE  LET c == Numeral(v, 10)[1]
         IN  c \in DecimalDigits \ {"0"} /\ Read(v, 1) = Digit(c)
<1> DEFINE c == Numeral(v, 10)[1]
<1>1. PICK m \in Nat \ {0} :
        /\ Read(v, 0) = 0 /\ Numeral(v, 10)[1] # "0"
        /\ \A o \in 0 .. m - 1 :
             /\ Numeral(v, 10)[o + 1] \in DecimalDigits
             /\ Read(v, o + 1) = 10 * Read(v, o) + Digit(Numeral(v, 10)[o + 1])
  BY NumeralReads
<1>2. 0 \in 0 .. m - 1 /\ 0 + 1 = 1
  BY <1>1
<1>3. c \in DecimalDigits /\ Read(v, 1) = 10 * Read(v, 0) + Digit(c)
  <2> PICK o \in 0 .. m - 1 : o = 0
    BY <1>2
  <2>1. o + 1 = 1
    BY <1>2
  <2> QED BY <1>1, <2>1
<1>4. Digit(c) \in Int
  BY <1>3, DigitType
<1> QED BY <1>1, <1>3, <1>4

(* A width begins, or is passed.                                           *)
LEMMA WidthMeant ==
  ASSUME Inv, Told, Next, NEW k \in 0 .. Len(meant) - 1, NEW d, d = NextMeant(k),
         NEW j, In(k, j), Switching(k, j), j = FlagEnd(d), j < WidthTo(d)
  PROVE  In(k, j + 1)'
<1>1. /\ d \in Directive /\ Proper(d) /\ ~d.text /\ j \in Nat /\ j \in 1 .. LongsEnd(d)
      /\ fi = Start(meant)[k] + j /\ ai = Before(k) + StarsBy(d, j)
      /\ out = Said(meant, args)[k] /\ lflag = LongBy(d, j) /\ Before(k) \in Nat
  BY InAt
<1>2. /\ Ends(d)
      /\ d.width = None \/ d.width = Starred \/ d.width \in Nat \ {0}
      /\ d.width = None => WidthTo(d) = FlagEnd(d)
      /\ d.width = Starred => WidthTo(d) = FlagEnd(d) + 1
      /\ d.prec = Starred => d.prec # None
      /\ d.prec # None => PointEnd(d) = WidthTo(d) + 1 /\ PointEnd(d) < PrecEnd(d)
      /\ d.prec = None => PrecEnd(d) = WidthTo(d)
  BY <1>1, Shape
<1>3. /\ FlagEnd(d) \in Nat /\ WidthTo(d) \in Nat /\ PointEnd(d) \in Nat
      /\ PrecEnd(d) \in Nat /\ LongsEnd(d) \in Nat
      /\ WidthTo(d) <= PointEnd(d) /\ PointEnd(d) <= PrecEnd(d) /\ PrecEnd(d) <= LongsEnd(d)
  BY <1>2 DEF Ends
<1>4. PICK i \in Nat : i = j + 1
  BY <1>1
<1>5. /\ i \in 1 .. LongsEnd(d) /\ i <= WidthTo(d)
      /\ FlagEnd(d) <= j /\ j < PrecEnd(d) /\ i <= PrecEnd(d)
  BY <1>3, <1>4
<1>6. pc = "switch" /\ width = -1 /\ precision = -1
  BY <1>1, <1>5, FlagsAt DEF Switching
<1>7. LongBy(d, j) = 0 /\ LongBy(d, i) = 0
  BY <1>3, <1>5 DEF LongBy
<1>8. StarsBy(d, j) = 0
  BY <1>2, <1>3, <1>5 DEF StarsBy
<1>9. ai = Before(k)
  BY <1>1, <1>8
<1>10. ch = Field(d.width)[1]
  <2>1. Len(Field(d.width)) \in Nat /\ WidthTo(d) = FlagEnd(d) + Len(Field(d.width))
    BY <1>1, FieldIs DEF Directive, WidthTo
  <2>2. PICK o \in 0 .. Len(Field(d.width)) - 1 : o = 0
    BY <1>3, <2>1
  <2>3. j = FlagEnd(d) + o /\ o + 1 = 1
    BY <1>3, <2>2
  <2>4. ch = Field(d.width)[o + 1]
    BY <1>1, <2>3, Reading
  <2> QED BY <2>3, <2>4
<1>11. CASE d.width = Starred
  <2>1. ch = "*"
    BY <1>1, <1>10, <1>11, FieldIs DEF Directive
  <2>2. Star
    BY <1>6, <2>1, SwitchArm
  <2>3. /\ given' = given /\ fi' = fi + 1 /\ ai' = ai + 1 /\ out' = out /\ pc' = "switch"
        /\ padc' = padc /\ altflag' = altflag /\ lflag' = lflag
        /\ width' = Signed(args[ai + 1].num, IntBits) /\ precision' = -1
    BY <1>6, <2>2, StarGives
  <2>4. i = WidthTo(d) /\ (d.prec = None \/ i < PointEnd(d))
    BY <1>2, <1>3, <1>4, <1>11
  <2>5. width' = WidthBy(k, i)
    <3>1. WideOf(k) = Signed(args[Before(k) + 1].num, IntBits)
      BY <1>1, <1>11, FieldsMeant
    <3>2. WidthBy(k, i) = WideOf(k)
      BY <1>1, <1>3, <2>4, FlagsAt
    <3> QED BY <1>9, <2>3, <3>1, <3>2
  <2>6. precision' = PrecBy(k, i)
    <3>1. CASE d.prec = None
      <4>1. PrecEnd(d) <= i
        BY <1>2, <1>3, <2>4, <3>1
      <4>2. PrecBy(k, i) = PreciseOf(k) /\ PreciseOf(k) = -1
        BY <1>1, <3>1, <4>1, FlagsAt, FieldsMeant
      <4> QED BY <2>3, <4>2
    <3>2. CASE d.prec # None
      <4>1. i < PrecEnd(d)
        BY <1>2, <1>3, <2>4, <3>2
      <4> QED BY <1>1, <2>3, <4>1, FlagsAt
    <3> QED BY <3>1, <3>2
  <2>7. StarsBy(d, i) = 1
    BY <1>2, <1>3, <1>11, <2>4 DEF StarsBy
  <2>8. ai' = Before(k) + StarsBy(d, i) /\ lflag' = LongBy(d, i) /\ Outside(d, i)
    BY <1>1, <1>3, <1>7, <1>9, <2>3, <2>4, <2>7 DEF Outside
  <2>9. In(k, i)'
    BY <1>4, <1>5, <2>3, <2>5, <2>6, <2>8, GoesOnIn
  <2> QED BY <1>4, <2>9
<1>12. CASE d.width \in Nat \ {0}
  <2>1. PICK v \in Nat \ {0} : v = d.width
    BY <1>12
  <2>2. Field(d.width) = Numeral(v, 10)
    BY <1>1, <1>12, <2>1, FieldIs DEF Directive
  <2>3. ch \in DecimalDigits \ {"0"} /\ Read(v, 1) = Digit(ch)
    BY <1>10, <2>2, FirstDigit
  <2>4. WidthDigit
    BY <1>6, <2>3, SwitchArm
  <2>5. /\ given' = given /\ fi' = fi + 1 /\ ai' = ai /\ out' = out /\ pc' = "number"
        /\ padc' = padc /\ altflag' = altflag /\ lflag' = lflag /\ width' = width
        /\ precision' = Digit(ch) + 0
    BY <1>6, <2>4, DigitGives
  <2>6. precision' = Read(v, 1)
    BY <2>3, <2>5, DigitType
  <2>7. i - FlagEnd(d) = 1 /\ FlagEnd(d) < i
    BY <1>3, <1>4
  <2>8. Gathered(k, i, width', precision')
    BY <1>5, <1>6, <1>12, <2>1, <2>5, <2>6, <2>7 DEF Gathered
  <2>9. StarsBy(d, i) = 0
    <3>1. d.width # Starred
      BY <1>12 DEF Starred
    <3>2. d.prec = Starred => ~(i >= PrecEnd(d))
      BY <1>2, <1>3, <1>5
    <3> QED BY <3>1, <3>2 DEF StarsBy
  <2>10. ai' = Before(k) + StarsBy(d, i) /\ lflag' = LongBy(d, i)
    BY <1>1, <1>7, <1>9, <2>5, <2>9
  <2>11. In(k, i)'
    BY <1>4, <1>5, <2>5, <2>8, <2>10, GoesOnIn
  <2> QED BY <1>4, <2>11
<1>13. d.width # None
  BY <1>2, <1>3
<1> QED BY <1>2, <1>11, <1>12, <1>13

-----------------------------------------------------------------------------
(* The '.', behind which a width that there is none of is zero.            *)
LEMMA PointMeant ==
  ASSUME Inv, Told, Next, NEW k \in 0 .. Len(meant) - 1, NEW d, d = NextMeant(k),
         NEW j, In(k, j), Switching(k, j), j = WidthTo(d), j < PointEnd(d)
  PROVE  In(k, j + 1)'
<1>1. /\ d \in Directive /\ Proper(d) /\ ~d.text /\ j \in Nat /\ j \in 1 .. LongsEnd(d)
      /\ fi = Start(meant)[k] + j /\ ai = Before(k) + StarsBy(d, j)
      /\ lflag = LongBy(d, j) /\ altflag = AltBy(d, j)
  BY InAt
<1>2. /\ Ends(d)
      /\ d.prec = None => PointEnd(d) = WidthTo(d)
      /\ d.prec # None => PointEnd(d) = WidthTo(d) + 1 /\ PointEnd(d) < PrecEnd(d)
  BY <1>1, Shape
<1>3. /\ FlagEnd(d) \in Nat /\ WidthTo(d) \in Nat /\ PointEnd(d) \in Nat
      /\ PrecEnd(d) \in Nat /\ LongsEnd(d) \in Nat
      /\ FlagEnd(d) <= WidthTo(d) /\ WidthTo(d) <= PointEnd(d) /\ PointEnd(d) <= PrecEnd(d)
      /\ PrecEnd(d) <= LongsEnd(d)
  BY <1>2 DEF Ends
<1>4. PICK i \in Nat : i = j + 1
  BY <1>1
<1>5. /\ d.prec # None /\ i = PointEnd(d) /\ i < PrecEnd(d) /\ j < PrecEnd(d)
      /\ i \in 1 .. LongsEnd(d) /\ FlagEnd(d) <= j
  BY <1>2, <1>3, <1>4
<1>6. ch = "."
  BY <1>1, <1>5, Reading
<1>7. pc = "switch" /\ width = WideOf(k) /\ precision = -1
  <2>1. WidthBy(k, j) = WideOf(k) /\ PrecBy(k, j) = -1
    BY <1>1, <1>3, <1>5, FlagsAt
  <2> QED BY <2>1 DEF Switching
<1>8. Flag
  <2>1. ch \in FlagChars
    BY <1>6, Arms
  <2> QED BY <1>7, <2>1, SwitchArm
<1>9. altflag \in BOOLEAN
  BY <1>1, Zenon DEF AltBy
<1>10. /\ given' = given /\ fi' = fi + 1 /\ ai' = ai /\ out' = out /\ pc' = "switch"
       /\ precision' = precision /\ padc' = padc /\ altflag' = altflag /\ lflag' = lflag
       /\ width' = NotLess(width)
  BY <1>6, <1>8, <1>9, FlagGives
<1>11. width' = WidthBy(k, i) /\ precision' = PrecBy(k, i)
  <2>1. WidthBy(k, i) = NotLess(WideOf(k)) /\ PrecBy(k, i) = -1
    BY <1>1, <1>3, <1>5, FlagsAt
  <2> QED BY <1>7, <1>10, <2>1
<1>12. lflag' = LongBy(d, i)
  <2>1. LongBy(d, i) = 0 /\ LongBy(d, j) = 0
    BY <1>3, <1>5 DEF LongBy
  <2> QED BY <1>1, <1>10, <2>1
<1>13. ai' = Before(k) + StarsBy(d, i)
  <2>1. StarsBy(d, i) = StarsBy(d, j)
    <3>1. j >= WidthTo(d) /\ i >= WidthTo(d) /\ ~(j >= PrecEnd(d)) /\ ~(i >= PrecEnd(d))
      BY <1>3, <1>4, <1>5
    <3> QED BY <3>1 DEF StarsBy
  <2> QED BY <1>1, <1>10, <2>1
<1>14. Outside(d, i)
  BY <1>3, <1>5 DEF Outside
<1>15. In(k, i)'
  BY <1>4, <1>5, <1>10, <1>11, <1>12, <1>13, <1>14, GoesOnIn
<1> QED BY <1>4, <1>15

(* A precision begins, or is passed.                                       *)
LEMMA PrecMeant ==
  ASSUME Inv, Told, Next, NEW k \in 0 .. Len(meant) - 1, NEW d, d = NextMeant(k),
         NEW j, In(k, j), Switching(k, j), j = PointEnd(d), j < PrecEnd(d)
  PROVE  In(k, j + 1)'
<1>1. /\ d \in Directive /\ Proper(d) /\ ~d.text /\ j \in Nat /\ j \in 1 .. LongsEnd(d)
      /\ fi = Start(meant)[k] + j /\ ai = Before(k) + StarsBy(d, j)
      /\ lflag = LongBy(d, j) /\ Before(k) \in Nat
  BY InAt
<1>2. /\ Ends(d)
      /\ d.prec = None \/ d.prec = Starred \/ d.prec \in Nat \ {0}
      /\ d.prec = None => PrecEnd(d) = WidthTo(d)
      /\ d.prec = Starred => PrecEnd(d) = PointEnd(d) + 1
      /\ d.prec # None => PointEnd(d) = WidthTo(d) + 1
  BY <1>1, Shape
<1>3. /\ FlagEnd(d) \in Nat /\ WidthTo(d) \in Nat /\ PointEnd(d) \in Nat
      /\ PrecEnd(d) \in Nat /\ LongsEnd(d) \in Nat
      /\ FlagEnd(d) <= WidthTo(d) /\ WidthTo(d) <= PointEnd(d) /\ PointEnd(d) <= PrecEnd(d)
      /\ PrecEnd(d) <= LongsEnd(d)
  BY <1>2 DEF Ends
<1>4. PICK i \in Nat : i = j + 1
  BY <1>1
<1>5. /\ d.prec # None /\ i <= PrecEnd(d) /\ i \in 1 .. LongsEnd(d) /\ FlagEnd(d) <= j
      /\ WidthTo(d) <= j
  BY <1>2, <1>3, <1>4
<1>6. pc = "switch" /\ width = NotLess(WideOf(k)) /\ precision = -1
  <2>1. WidthBy(k, j) = NotLess(WideOf(k)) /\ PrecBy(k, j) = -1
    BY <1>1, <1>3, <1>5, FlagsAt
  <2> QED BY <2>1 DEF Switching
<1>7. ~(width < 0)
  BY <1>6 DEF NotLess
<1>8. lflag = 0 /\ LongBy(d, i) = 0
  BY <1>1, <1>3, <1>4, <1>5 DEF LongBy
<1>9. StarsBy(d, j) = IF d.width = Starred THEN 1 ELSE 0
  <2>1. j >= WidthTo(d) /\ ~(j >= PrecEnd(d))
    BY <1>3, <1>5
  <2> QED BY <2>1 DEF StarsBy
<1>10. ch = Field(d.prec)[1]
  <2>1. Len(Field(d.prec)) \in Nat /\ PrecEnd(d) = PointEnd(d) + Len(Field(d.prec))
    BY <1>1, <1>5, FieldIs, EscapeWritten DEF Directive
  <2>2. PICK o \in 0 .. Len(Field(d.prec)) - 1 : o = 0
    BY <1>3, <2>1
  <2>3. j = PointEnd(d) + o /\ o + 1 = 1
    BY <1>3, <2>2
  <2>4. ch = Field(d.prec)[o + 1]
    BY <1>1, <1>5, <2>3, Reading
  <2> QED BY <2>3, <2>4
<1>11. CASE d.prec = Starred
  <2>1. ch = "*"
    BY <1>1, <1>10, <1>11, FieldIs DEF Directive
  <2>2. Star
    BY <1>6, <2>1, SwitchArm
  <2>3. /\ given' = given /\ fi' = fi + 1 /\ ai' = ai + 1 /\ out' = out /\ pc' = "switch"
        /\ padc' = padc /\ altflag' = altflag /\ lflag' = lflag
        /\ width' = width /\ precision' = Signed(args[ai + 1].num, IntBits)
    BY <1>7, <2>2, StarGives
  <2>4. i = PrecEnd(d) /\ PrecEnd(d) <= i /\ PointEnd(d) <= i
    BY <1>2, <1>3, <1>4, <1>11
  <2>5. ai + 1 = Before(k) + Stars(d) /\ StarsBy(d, i) = Stars(d)
    <3>1. Stars(d) = (IF d.width = Starred THEN 1 ELSE 0) + 1
      BY <1>11 DEF Stars
    <3>2. i >= WidthTo(d) /\ i >= PrecEnd(d)
      BY <1>3, <2>4
    <3>3. StarsBy(d, i) = Stars(d)
      BY <3>2 DEF StarsBy, Stars
    <3> QED BY <1>1, <1>9, <3>1, <3>3
  <2>6. width' = WidthBy(k, i)
    BY <1>1, <1>5, <1>6, <2>3, <2>4, FlagsAt
  <2>7. precision' = PrecBy(k, i)
    <3>1. PrecBy(k, i) = PreciseOf(k)
      BY <1>1, <2>4, FlagsAt
    <3>2. PreciseOf(k) = Signed(args[Before(k) + Stars(d)].num, IntBits)
      BY <1>1, <1>11, FieldsMeant
    <3> QED BY <2>3, <2>5, <3>1, <3>2
  <2>8. ai' = Before(k) + StarsBy(d, i) /\ lflag' = LongBy(d, i)
    BY <1>8, <2>3, <2>5
  <2>9. Outside(d, i)
    BY <1>3, <2>4 DEF Outside
  <2>10. In(k, i)'
    BY <1>4, <1>5, <2>3, <2>6, <2>7, <2>8, <2>9, GoesOnIn
  <2> QED BY <1>4, <2>10
<1>12. CASE d.prec \in Nat \ {0}
  <2>1. PICK v \in Nat \ {0} : v = d.prec
    BY <1>12
  <2>2. Field(d.prec) = Numeral(v, 10)
    BY <1>1, <1>12, <2>1, FieldIs DEF Directive
  <2>3. ch \in DecimalDigits \ {"0"} /\ Read(v, 1) = Digit(ch)
    BY <1>10, <2>2, FirstDigit
  <2>4. WidthDigit
    BY <1>6, <2>3, SwitchArm
  <2>5. /\ given' = given /\ fi' = fi + 1 /\ ai' = ai /\ out' = out /\ pc' = "number"
        /\ padc' = padc /\ altflag' = altflag /\ lflag' = lflag /\ width' = width
        /\ precision' = Digit(ch) + 0
    BY <1>6, <2>4, DigitGives
  <2>6. precision' = Read(v, 1)
    BY <2>3, <2>5, DigitType
  <2>7. i - PointEnd(d) = 1 /\ PointEnd(d) < i
    BY <1>3, <1>4
  <2>8. Gathered(k, i, width', precision')
    BY <1>5, <1>6, <1>12, <2>1, <2>5, <2>6, <2>7 DEF Gathered
  <2>9. StarsBy(d, i) = StarsBy(d, j)
    <3>1. d.prec # Starred
      BY <1>12 DEF Starred
    <3>2. i >= WidthTo(d)
      BY <1>3, <1>4, <1>5
    <3> QED BY <1>9, <3>1, <3>2 DEF StarsBy
  <2>10. ai' = Before(k) + StarsBy(d, i) /\ lflag' = LongBy(d, i)
    BY <1>1, <1>8, <2>5, <2>9
  <2>11. In(k, i)'
    BY <1>4, <1>5, <2>5, <2>8, <2>10, GoesOnIn
  <2> QED BY <1>4, <2>11
<1> QED BY <1>2, <1>5, <1>11, <1>12

LEMMA LongMeant ==
  ASSUME Inv, Told, Next, NEW k \in 0 .. Len(meant) - 1, NEW d, d = NextMeant(k),
         NEW j, In(k, j), Switching(k, j), PrecEnd(d) <= j, j < LongsEnd(d)
  PROVE  In(k, j + 1)'
<1>1. /\ d \in Directive /\ Proper(d) /\ ~d.text /\ j \in Nat /\ j \in 1 .. LongsEnd(d)
      /\ fi = Start(meant)[k] + j /\ ai = Before(k) + StarsBy(d, j)
      /\ lflag = LongBy(d, j) /\ altflag = AltBy(d, j)
  BY InAt
<1>2. Ends(d)
  BY <1>1, Shape
<1>3. /\ FlagEnd(d) \in Nat /\ WidthTo(d) \in Nat /\ PointEnd(d) \in Nat
      /\ PrecEnd(d) \in Nat /\ LongsEnd(d) \in Nat
      /\ FlagEnd(d) <= WidthTo(d) /\ WidthTo(d) <= PointEnd(d) /\ PointEnd(d) <= PrecEnd(d)
      /\ PrecEnd(d) <= LongsEnd(d)
  BY <1>2 DEF Ends
<1>4. PICK i \in Nat : i = j + 1
  BY <1>1
<1>5. /\ PrecEnd(d) <= i /\ PointEnd(d) <= i /\ WidthTo(d) <= i /\ PointEnd(d) <= j
      /\ WidthTo(d) <= j /\ i \in 1 .. LongsEnd(d) /\ FlagEnd(d) <= j
  BY <1>1, <1>3, <1>4
<1>6. ch = "l"
  BY <1>1, Reading
<1>7. pc = "switch" /\ width = WidthBy(k, j) /\ precision = PrecBy(k, j)
  BY DEF Switching
<1>8. Flag
  <2>1. ch \in FlagChars
    BY <1>6, Arms
  <2> QED BY <1>7, <2>1, SwitchArm
<1>9. altflag \in BOOLEAN
  BY <1>1, Zenon DEF AltBy
<1>10. /\ given' = given /\ fi' = fi + 1 /\ ai' = ai /\ out' = out /\ pc' = "switch"
       /\ precision' = precision /\ padc' = padc /\ altflag' = altflag /\ lflag' = lflag + 1
       /\ width' = width
  BY <1>6, <1>8, <1>9, FlagGives
<1>11. WidthBy(k, i) = WidthBy(k, j) /\ PrecBy(k, i) = PrecBy(k, j)
  <2>1. /\ d.prec = None => WidthBy(k, i) = WideOf(k) /\ WidthBy(k, j) = WideOf(k)
        /\ d.prec # None => WidthBy(k, i) = NotLess(WideOf(k)) /\ WidthBy(k, j) = NotLess(WideOf(k))
    BY <1>1, <1>5, FlagsAt
  <2>2. PrecBy(k, i) = PreciseOf(k) /\ PrecBy(k, j) = PreciseOf(k)
    BY <1>1, <1>5, FlagsAt
  <2> QED BY <2>1, <2>2
<1>12. lflag' = LongBy(d, i)
  <2>1. LongBy(d, i) = i - PrecEnd(d) /\ LongBy(d, j) = j - PrecEnd(d)
    BY <1>1, <1>5, FlagsAt
  <2> QED BY <1>1, <1>3, <1>4, <1>10, <2>1
<1>13. ai' = Before(k) + StarsBy(d, i)
  <2>1. StarsBy(d, i) = StarsBy(d, j)
    <3>1. j >= WidthTo(d) /\ i >= WidthTo(d) /\ j >= PrecEnd(d) /\ i >= PrecEnd(d)
      BY <1>3, <1>4, <1>5
    <3> QED BY <3>1 DEF StarsBy
  <2> QED BY <1>1, <1>10, <2>1
<1>14. Outside(d, i)
  BY <1>3, <1>5 DEF Outside
<1>15. In(k, i)'
  BY <1>4, <1>5, <1>7, <1>10, <1>11, <1>12, <1>13, <1>14, GoesOnIn
<1> QED BY <1>4, <1>15

-----------------------------------------------------------------------------
(* A number goes on for as long as there are digits.                       *)
LEMMA NextDigit ==
  ASSUME NEW v \in Nat \ {0}, NEW o \in Nat \ {0}, o < Len(Numeral(v, 10))
  PROVE  LET c == Numeral(v, 10)[o + 1]
         IN  /\ c \in DecimalDigits /\ Read(v, o) \in Nat
              /\ Read(v, o + 1) = Digit(c) + 10 * Read(v, o)
<1> DEFINE c == Numeral(v, 10)[o + 1]
<1>1. PICK m \in Nat \ {0} :
        /\ m = Len(Numeral(v, 10)) /\ \A i \in 0 .. m : Read(v, i) \in Nat
        /\ \A i \in 0 .. m - 1 :
             /\ Numeral(v, 10)[i + 1] \in DecimalDigits
             /\ Read(v, i + 1) = 10 * Read(v, i) + Digit(Numeral(v, 10)[i + 1])
  BY NumeralReads
<1>2. o \in 0 .. m - 1 /\ o \in 0 .. m
  BY <1>1
<1>3. c \in DecimalDigits /\ Read(v, o + 1) = 10 * Read(v, o) + Digit(c) /\ Read(v, o) \in Nat
  BY <1>1, <1>2
<1>4. Digit(c) \in Int
  BY <1>3, DigitType
<1> QED BY <1>3, <1>4

LEMMA AllRead ==
  ASSUME NEW v \in Nat \ {0}
  PROVE  Read(v, Len(Numeral(v, 10))) = v
  BY NumeralReads

LEMMA NotADigit ==
  ASSUME Told, NEW k \in 0 .. Len(meant) - 1, NEW d, d = NextMeant(k), ~d.text,
         NEW j \in 1 .. LongsEnd(d), fi = Start(meant)[k] + j, j \in {WidthTo(d), PrecEnd(d)}
  PROVE  ch \notin DecimalDigits
<1>1. d \in Directive /\ Proper(d)
  BY Lists
<1>2. /\ Ends(d)
      /\ d.prec = None => PrecEnd(d) = WidthTo(d)
  BY <1>1, Shape
<1>3. PrecEnd(d) \in Nat /\ LongsEnd(d) \in Nat
  BY <1>2 DEF Ends
<1>4. CASE j = WidthTo(d) /\ d.prec # None
  BY <1>4, Reading, Arms
<1>5. CASE j = PrecEnd(d) /\ j < LongsEnd(d)
  <2>1. PrecEnd(d) <= j
    BY <1>3, <1>5
  <2>2. ch = "l"
    BY <1>5, <2>1, Reading
  <2> QED BY <2>2, Arms
<1>6. CASE j = LongsEnd(d)
  <2>1. ch = IF d.conv = "end" THEN NUL ELSE d.conv
    BY <1>6, Reading
  <2>2. d.conv \notin Going
    BY <1>1 DEF Proper
  <2> QED BY <2>1, <2>2, Arms, Kinds
<1> QED BY <1>2, <1>3, <1>4, <1>5, <1>6

LEMMA DigitMeant ==
  ASSUME Inv, Told, Next, NEW k \in 0 .. Len(meant) - 1, NEW d, d = NextMeant(k),
         NEW j, In(k, j), Gathering(k, j), j # WidthTo(d), j # PrecEnd(d)
  PROVE  In(k, j + 1)'
<1>1. /\ d \in Directive /\ Proper(d) /\ ~d.text /\ j \in Nat /\ j \in 1 .. LongsEnd(d)
      /\ fi = Start(meant)[k] + j /\ ai = Before(k) + StarsBy(d, j)
      /\ lflag = LongBy(d, j) /\ Before(k) \in Nat
  BY InAt
<1>2. /\ Ends(d)
      /\ d.prec = Starred => d.prec # None
      /\ d.prec # None => PointEnd(d) = WidthTo(d) + 1 /\ PointEnd(d) < PrecEnd(d)
      /\ d.width \in Nat \ {0} => WidthTo(d) = FlagEnd(d) + Len(Numeral(d.width, 10))
      /\ d.prec \in Nat \ {0} => PrecEnd(d) = PointEnd(d) + Len(Numeral(d.prec, 10))
  BY <1>1, Shape
<1>3. /\ FlagEnd(d) \in Nat /\ WidthTo(d) \in Nat /\ PointEnd(d) \in Nat
      /\ PrecEnd(d) \in Nat /\ LongsEnd(d) \in Nat
      /\ FlagEnd(d) <= WidthTo(d) /\ WidthTo(d) <= PointEnd(d) /\ PointEnd(d) <= PrecEnd(d)
      /\ PrecEnd(d) <= LongsEnd(d)
  BY <1>2 DEF Ends
<1>4. PICK i \in Nat : i = j + 1
  BY <1>1
<1>5. pc = "number" /\ Gathered(k, j, width, precision)
  BY DEF Gathering
(* What holds of the width and of the precision alike. *)
<1>6. ASSUME NEW v \in Nat \ {0}, NEW b \in Nat, b < j, j < b + Len(Numeral(v, 10)),
             ch = Numeral(v, 10)[(j - b) + 1], precision = Read(v, j - b)
      PROVE  /\ given' = given /\ fi' = fi + 1 /\ ai' = ai /\ out' = out /\ pc' = "number"
             /\ padc' = padc /\ altflag' = altflag /\ lflag' = lflag /\ width' = width
             /\ precision' = Read(v, i - b)
  <2>1. PICK o \in Nat \ {0} : o = j - b
    BY <1>1, <1>6
  <2>2. Len(Numeral(v, 10)) \in Nat
    BY NumeralReads
  <2>3. o < Len(Numeral(v, 10)) /\ i - b = o + 1
    BY <1>1, <1>4, <1>6, <2>1, <2>2
  <2>4. ch = Numeral(v, 10)[o + 1] /\ precision = Read(v, o)
    BY <1>6, <2>1
  <2>5. ch \in DecimalDigits /\ Read(v, o + 1) = Digit(ch) + 10 * precision
    BY <2>3, <2>4, NextDigit
  <2>6. WidthDigit
    BY <1>5, <2>5, NumberArm
  <2>7. /\ given' = given /\ fi' = fi + 1 /\ ai' = ai /\ out' = out /\ pc' = "number"
        /\ padc' = padc /\ altflag' = altflag /\ lflag' = lflag /\ width' = width
        /\ precision' = Digit(ch) + 10 * precision
    BY <1>5, <2>6, DigitGives
  <2>8. precision' = Read(v, i - b)
    BY <2>3, <2>5, <2>7
  <2> QED BY <2>7, <2>8
<1>7. CASE /\ d.width \in Nat \ {0} /\ FlagEnd(d) < j /\ j <= WidthTo(d)
           /\ width = -1 /\ precision = Read(d.width, j - FlagEnd(d))
  <2>1. PICK v \in Nat \ {0} : v = d.width
    BY <1>7
  <2>2. Field(d.width) = Numeral(v, 10)
    BY <1>1, <1>7, <2>1, FieldIs DEF Directive
  <2>3. Len(Numeral(v, 10)) \in Nat
    BY NumeralReads
  <2>4. WidthTo(d) = FlagEnd(d) + Len(Numeral(v, 10))
    BY <1>2, <1>7, <2>1
  <2>5. j < WidthTo(d)
    BY <1>1, <1>3, <1>7
  <2>6. ch = Numeral(v, 10)[(j - FlagEnd(d)) + 1]
    <3>1. PICK o \in 0 .. Len(Numeral(v, 10)) - 1 : o = j - FlagEnd(d)
      BY <1>1, <1>3, <1>7, <2>3, <2>4, <2>5
    <3>2. j = FlagEnd(d) + o
      BY <1>1, <1>3, <3>1
    <3>3. ch = Field(d.width)[o + 1]
      BY <1>1, <2>2, <3>2, Reading
    <3> QED BY <2>2, <3>1, <3>3
  <2>7. /\ given' = given /\ fi' = fi + 1 /\ ai' = ai /\ out' = out /\ pc' = "number"
        /\ padc' = padc /\ altflag' = altflag /\ lflag' = lflag /\ width' = width
        /\ precision' = Read(v, i - FlagEnd(d))
    <3>1. PICK b \in Nat : b = FlagEnd(d)
      BY <1>3
    <3>2. b < j /\ j < b + Len(Numeral(v, 10)) /\ ch = Numeral(v, 10)[(j - b) + 1]
          /\ precision = Read(v, j - b)
      BY <1>7, <2>1, <2>4, <2>5, <2>6, <3>1
    <3> QED BY <1>6, <3>1, <3>2
  <2>8. i <= WidthTo(d) /\ FlagEnd(d) < i /\ FlagEnd(d) <= j /\ i \in 1 .. LongsEnd(d)
        /\ i <= PrecEnd(d) /\ j < PrecEnd(d)
    BY <1>1, <1>3, <1>4, <1>7, <2>5, SMTT(30)
  <2>9. Gathered(k, i, width', precision')
    BY <1>7, <2>1, <2>7, <2>8 DEF Gathered
  <2>10. StarsBy(d, i) = 0 /\ StarsBy(d, j) = 0
    <3>1. d.width # Starred
      BY <1>7 DEF Starred
    <3>2. d.prec = Starred => ~(i >= PrecEnd(d)) /\ ~(j >= PrecEnd(d))
      BY <1>1, <1>2, <1>3, <1>4, <2>8
    <3> QED BY <3>1, <3>2 DEF StarsBy
  <2>11. lflag' = LongBy(d, i)
    <3>1. LongBy(d, i) = 0 /\ LongBy(d, j) = 0
      BY <1>1, <1>3, <1>4, <2>8 DEF LongBy
    <3> QED BY <1>1, <2>7, <3>1
  <2>12. ai' = Before(k) + StarsBy(d, i)
    BY <1>1, <2>7, <2>10
  <2>13. In(k, i)'
    BY <1>4, <2>7, <2>8, <2>9, <2>11, <2>12, GoesOnIn
  <2> QED BY <1>4, <2>13
<1>8. CASE /\ d.prec \in Nat \ {0} /\ PointEnd(d) < j /\ j <= PrecEnd(d)
           /\ width = NotLess(WideOf(k)) /\ precision = Read(d.prec, j - PointEnd(d))
  <2>1. PICK v \in Nat \ {0} : v = d.prec
    BY <1>8
  <2>2. Field(d.prec) = Numeral(v, 10) /\ d.prec # None /\ d.prec # Starred
    BY <1>1, <1>8, <2>1, FieldIs DEF Directive, None, Starred
  <2>3. Len(Numeral(v, 10)) \in Nat
    BY NumeralReads
  <2>4. PrecEnd(d) = PointEnd(d) + Len(Numeral(v, 10))
    BY <1>2, <1>8, <2>1
  <2>5. j < PrecEnd(d)
    BY <1>1, <1>3, <1>8
  <2>6. ch = Numeral(v, 10)[(j - PointEnd(d)) + 1]
    <3>1. PICK o \in 0 .. Len(Numeral(v, 10)) - 1 : o = j - PointEnd(d)
      BY <1>1, <1>3, <1>8, <2>3, <2>4, <2>5
    <3>2. j = PointEnd(d) + o
      BY <1>1, <1>3, <3>1
    <3>3. ch = Field(d.prec)[o + 1]
      BY <1>1, <2>2, <3>2, Reading, SMTT(30)
    <3> QED BY <2>2, <3>1, <3>3
  <2>7. /\ given' = given /\ fi' = fi + 1 /\ ai' = ai /\ out' = out /\ pc' = "number"
        /\ padc' = padc /\ altflag' = altflag /\ lflag' = lflag /\ width' = width
        /\ precision' = Read(v, i - PointEnd(d))
    <3>1. PICK b \in Nat : b = PointEnd(d)
      BY <1>3
    <3>2. b < j /\ j < b + Len(Numeral(v, 10)) /\ ch = Numeral(v, 10)[(j - b) + 1]
          /\ precision = Read(v, j - b)
      BY <1>8, <2>1, <2>4, <2>5, <2>6, <3>1
    <3> QED BY <1>6, <3>1, <3>2
  <2>8. i <= PrecEnd(d) /\ PointEnd(d) < i /\ FlagEnd(d) <= j /\ i \in 1 .. LongsEnd(d)
        /\ WidthTo(d) <= i /\ WidthTo(d) <= j
    BY <1>1, <1>3, <1>4, <1>8, <2>5
  <2>9. Gathered(k, i, width', precision')
    BY <1>8, <2>1, <2>7, <2>8 DEF Gathered
  <2>10. StarsBy(d, i) = StarsBy(d, j)
    <3>1. i >= WidthTo(d) /\ j >= WidthTo(d)
      BY <1>1, <1>3, <1>4, <2>8
    <3> QED BY <2>2, <3>1 DEF StarsBy
  <2>11. lflag' = LongBy(d, i)
    <3>1. LongBy(d, i) = 0 /\ LongBy(d, j) = 0
      BY <1>1, <1>3, <1>4, <2>5, <2>8 DEF LongBy
    <3> QED BY <1>1, <2>7, <3>1
  <2>12. ai' = Before(k) + StarsBy(d, i)
    BY <1>1, <2>7, <2>10
  <2>13. In(k, i)'
    BY <1>4, <2>7, <2>8, <2>9, <2>11, <2>12, GoesOnIn
  <2> QED BY <1>4, <2>13
<1> QED BY <1>5, <1>7, <1>8 DEF Gathered

(* Behind its last digit the number is the width or the precision.         *)
LEMMA NumberMeant ==
  ASSUME Inv, Told, Next, NEW k \in 0 .. Len(meant) - 1, NEW d, d = NextMeant(k),
         NEW j, In(k, j), Gathering(k, j), j \in {WidthTo(d), PrecEnd(d)}
  PROVE  In(k, j)'
<1>1. /\ d \in Directive /\ Proper(d) /\ ~d.text /\ j \in Nat /\ j \in 1 .. LongsEnd(d)
      /\ fi = Start(meant)[k] + j /\ ai = Before(k) + StarsBy(d, j)
      /\ out = Said(meant, args)[k]
      /\ padc = PadBy(d, j) /\ altflag = AltBy(d, j) /\ lflag = LongBy(d, j)
  BY InAt
<1>2. /\ Ends(d)
      /\ d.prec = None => PrecEnd(d) = WidthTo(d)
      /\ d.prec # None => PointEnd(d) = WidthTo(d) + 1 /\ PointEnd(d) < PrecEnd(d)
      /\ d.width \in Nat \ {0} => /\ WidthTo(d) = FlagEnd(d) + Len(Numeral(d.width, 10))
                                  /\ FlagEnd(d) < WidthTo(d)
      /\ d.prec \in Nat \ {0} => PrecEnd(d) = PointEnd(d) + Len(Numeral(d.prec, 10))
  BY <1>1, Shape
<1>3. /\ FlagEnd(d) \in Nat /\ WidthTo(d) \in Nat /\ PointEnd(d) \in Nat
      /\ PrecEnd(d) \in Nat /\ LongsEnd(d) \in Nat
      /\ FlagEnd(d) <= WidthTo(d) /\ WidthTo(d) <= PointEnd(d) /\ PointEnd(d) <= PrecEnd(d)
      /\ PrecEnd(d) <= LongsEnd(d)
  BY <1>2 DEF Ends
<1>4. pc = "number" /\ Gathered(k, j, width, precision)
  BY DEF Gathering
<1>5. WidthEnd
  <2>1. ch \notin DecimalDigits
    BY <1>1, NotADigit
  <2> QED BY <1>4, <2>1, NumberArm
<1>6. /\ given' = given /\ fi' = fi /\ ai' = ai /\ out' = out /\ pc' = "switch"
      /\ padc' = padc /\ altflag' = altflag /\ lflag' = lflag
      /\ width < 0 => width' = precision /\ precision' = -1
      /\ ~(width < 0) => width' = width /\ precision' = precision
  BY <1>5 DEF WidthEnd, Number, output
<1>7. Outside(d, j)
  BY <1>2, <1>3 DEF Outside
<1>8. width' = WidthBy(k, j) /\ precision' = PrecBy(k, j)
  <2>1. CASE /\ d.width \in Nat \ {0} /\ FlagEnd(d) < j /\ j <= WidthTo(d)
             /\ width = -1 /\ precision = Read(d.width, j - FlagEnd(d))
    <3>1. PICK v \in Nat \ {0} : v = d.width
      BY <2>1
    <3>2. PICK o \in Nat : o = Len(Numeral(v, 10))
      BY NumeralReads
    <3>3. j = WidthTo(d) /\ j - FlagEnd(d) = o /\ (d.prec = None \/ j < PointEnd(d))
      BY <1>1, <1>2, <1>3, <2>1, <3>1, <3>2, SMTT(30)
    <3>4. precision = v
      BY <2>1, <3>1, <3>2, <3>3, AllRead
    <3>5. WidthTo(d) <= j
      BY <1>3, <3>3
    <3>6. WidthBy(k, j) = WideOf(k) /\ WideOf(k) = v
      BY <1>1, <2>1, <3>1, <3>3, <3>5, FlagsAt, FieldsMeant
    <3>7. PrecBy(k, j) = -1
      <4>1. CASE d.prec = None
        <5>1. PrecEnd(d) <= j
          BY <1>2, <1>3, <3>3, <4>1
        <5> QED BY <1>1, <4>1, <5>1, FlagsAt, FieldsMeant
      <4>2. CASE d.prec # None
        <5>1. j < PrecEnd(d)
          BY <1>2, <1>3, <3>3, <4>2
        <5> QED BY <1>1, <5>1, FlagsAt
      <4> QED BY <4>1, <4>2
    <3>8. width' = precision /\ precision' = -1
      BY <1>6, <2>1
    <3> QED BY <3>4, <3>6, <3>7, <3>8
  <2>2. CASE /\ d.prec \in Nat \ {0} /\ PointEnd(d) < j /\ j <= PrecEnd(d)
             /\ width = NotLess(WideOf(k)) /\ precision = Read(d.prec, j - PointEnd(d))
    <3>1. PICK v \in Nat \ {0} : v = d.prec
      BY <2>2
    <3>2. PICK o \in Nat : o = Len(Numeral(v, 10))
      BY NumeralReads
    <3>3. d.prec # None
      BY <2>2 DEF None
    <3>4. j = PrecEnd(d) /\ j - PointEnd(d) = o /\ PointEnd(d) <= j /\ PrecEnd(d) <= j
      BY <1>1, <1>2, <1>3, <2>2, <3>1, <3>2, <3>3, SMTT(30)
    <3>5. precision = v
      BY <2>2, <3>1, <3>2, <3>4, AllRead
    <3>6. PrecBy(k, j) = PreciseOf(k) /\ PreciseOf(k) = v
      BY <1>1, <2>2, <3>1, <3>4, FlagsAt, FieldsMeant
    <3>7. WidthBy(k, j) = NotLess(WideOf(k))
      BY <1>1, <3>3, <3>4, FlagsAt
    <3>8. ~(width < 0)
      BY <2>2 DEF NotLess
    <3>9. width' = width /\ precision' = precision
      BY <1>6, <3>8
    <3> QED BY <2>2, <3>5, <3>6, <3>7, <3>9
  <2> QED BY <1>4, <2>1, <2>2 DEF Gathered
<1>9. fi' = Start(meant)[k] + j /\ ai' = Before(k) + StarsBy(d, j) /\ out' = Said(meant, args)[k]
      /\ padc' = PadBy(d, j) /\ altflag' = AltBy(d, j) /\ lflag' = LongBy(d, j)
  BY <1>1, <1>6, Zenon
<1> QED BY <1>1, <1>6, <1>7, <1>8, <1>9, StaysIn

-----------------------------------------------------------------------------
(* Behind an escape.                                                       *)
LEMMA NextSaid ==
  ASSUME Told, NEW k \in 0 .. Len(meant) - 1, NEW d, d = NextMeant(k)
  PROVE  /\ k + 1 \in 0 .. Len(meant) /\ Before(k) \in Nat
         /\ Start(meant)[k + 1] = Start(meant)[k] + Len(Written(d))
         /\ Used(meant)[k + 1] = Before(k) + Taken(d)
         /\ Said(meant, args)[k + 1]
              = Said(meant, args)[k]
                \o Meaning(d, args[Before(k) + Taken(d)], WideOf(k), PreciseOf(k))
<1>1. Len(meant) \in Nat
  BY Lists
<1>2. k + 1 \in 0 .. Len(meant) /\ k \in 0 .. Len(meant)
  BY <1>1
<1>3. Start(meant)[k + 1] = Start(meant)[k] + Len(Written(d))
  BY Starts
<1>4. Before(k) \in Nat /\ Used(meant)[k + 1] = Before(k) + Taken(d)
  BY <1>1, <1>2, UsedIs DEF Before, NextMeant
<1>5. Said(meant, args)[k + 1] = Said(meant, args)[k] \o MeaningAt(d, args, Before(k))
  BY <1>1, SaidIs DEF Before, NextMeant
<1>6. MeaningAt(d, args, Before(k))
        = Meaning(d, args[Before(k) + Taken(d)], WideOf(k), PreciseOf(k))
  BY DEF MeaningAt, WideOf, PreciseOf
<1> QED BY <1>2, <1>3, <1>4, <1>5, <1>6

LEMMA ComesBetween ==
  ASSUME given' = given, NEW k, pc' = "text", fi' = Start(meant)[k], ai' = Used(meant)[k],
         out' = Said(meant, args)[k]
  PROVE  Between(k)'
<1>1. /\ Start(meant)[k]' = Start(meant)[k] /\ Used(meant)[k]' = Used(meant)[k]
      /\ Said(meant, args)[k]' = Said(meant, args)[k]
  BY MeaningStays
<1> QED BY <1>1 DEF Between

(* At the conversion of an escape.                                         *)
LEMMA AtConversion ==
  ASSUME Told, NEW k \in 0 .. Len(meant) - 1, NEW d, d = NextMeant(k),
         NEW j, In(k, j), Switching(k, j), j = LongsEnd(d)
  PROVE  /\ pc = "switch" /\ precision = PreciseOf(k) /\ width \in {WideOf(k), NotLess(WideOf(k))}
         /\ padc = PadChar(d) /\ altflag = (d.flag = "#") /\ lflag = d.longs
         /\ ai = Before(k) + Stars(d)
         /\ ch = IF d.conv = "end" THEN NUL ELSE d.conv
         /\ Len(Written(d)) = j + IF d.conv = "end" THEN 0 ELSE 1
<1>1. /\ d \in Directive /\ Proper(d) /\ ~d.text /\ j \in Nat /\ j \in 1 .. LongsEnd(d)
      /\ fi = Start(meant)[k] + j /\ ai = Before(k) + StarsBy(d, j)
      /\ padc = PadBy(d, j) /\ altflag = AltBy(d, j) /\ lflag = LongBy(d, j)
  BY InAt
<1>2. Ends(d) /\ LongsEnd(d) = PrecEnd(d) + d.longs /\ d.longs \in Nat
  BY <1>1, Shape
<1>3. /\ FlagEnd(d) \in Nat /\ WidthTo(d) \in Nat /\ PointEnd(d) \in Nat
      /\ PrecEnd(d) \in Nat /\ LongsEnd(d) \in Nat
      /\ FlagEnd(d) <= j /\ WidthTo(d) <= j /\ PointEnd(d) <= j /\ PrecEnd(d) <= j
  BY <1>2 DEF Ends
<1>4. pc = "switch" /\ width = WidthBy(k, j) /\ precision = PrecBy(k, j)
  BY DEF Switching
<1>5. width \in {WideOf(k), NotLess(WideOf(k))} /\ precision = PreciseOf(k)
  <2>1. /\ d.prec = None => WidthBy(k, j) = WideOf(k)
        /\ d.prec # None => WidthBy(k, j) = NotLess(WideOf(k))
        /\ PrecBy(k, j) = PreciseOf(k)
    BY <1>1, <1>3, FlagsAt
  <2> QED BY <1>4, <2>1
<1>6. padc = PadChar(d) /\ altflag = (d.flag = "#")
  <2>1. PadBy(d, j) = PadChar(d) /\ AltBy(d, j) = (d.flag = "#")
    BY <1>1, <1>3, FlagsAt
  <2> QED BY <1>1, <2>1, Zenon
<1>7. lflag = d.longs
  <2>1. LongBy(d, j) = j - PrecEnd(d)
    BY <1>1, <1>3, FlagsAt
  <2> QED BY <1>1, <1>2, <1>3, <2>1
<1>8. ai = Before(k) + Stars(d)
  <2>1. j >= WidthTo(d) /\ j >= PrecEnd(d)
    BY <1>3
  <2>2. StarsBy(d, j) = Stars(d)
    BY <2>1 DEF StarsBy, Stars
  <2> QED BY <1>1, <2>2
<1>9. ch = IF d.conv = "end" THEN NUL ELSE d.conv
  BY <1>1, Reading
<1>10. Len(Written(d)) = j + IF d.conv = "end" THEN 0 ELSE 1
  BY <1>1, EscapeWritten
<1> QED BY <1>4, <1>5, <1>6, <1>7, <1>8, <1>9, <1>10

LEMMA WideType ==
  ASSUME Inv, Told, NEW k \in 0 .. Len(meant) - 1, NEW d, d = NextMeant(k),
         ai = Before(k) + Stars(d)
  PROVE  WideOf(k) \in Int
<1>1. d \in Directive /\ Before(k) \in Nat
  BY Lists, NextSaid
<1>2. d.width = None \/ d.width = Starred \/ d.width \in Nat \ {0}
  BY <1>1 DEF Directive, Fields
<1>3. CASE d.width = Starred
  <2>1. Stars(d) \in Nat /\ Stars(d) >= 1
    BY <1>3 DEF Stars
  <2>2. ai \in Nat /\ ai <= Len(args)
    BY ArgsSuffice DEF Inv
  <2>3. args \in Seq(Argument) /\ Len(args) \in Nat
    BY LenProperties DEF Inv, Caller
  <2>4. PICK i \in 1 .. Len(args) : i = Before(k) + 1
    <3>1. Before(k) + 1 \in 1 .. Len(args)
      BY <1>1, <2>1, <2>2, <2>3
    <3> QED BY <3>1
  <2>5. args[i] \in Argument
    BY <2>3, ElementOfSeq
  <2>6. args[i].num \in Int
    BY <2>5 DEF Argument
  <2>7. Signed(args[i].num, IntBits) \in Int
    BY <2>6, SignedRange
  <2> QED BY <1>1, <1>3, <2>4, <2>7, FieldsMeant
<1> QED BY <1>1, <1>2, <1>3, FieldsMeant

LEMMA ConvertMeant ==
  ASSUME Inv, Told, Next, NEW k \in 0 .. Len(meant) - 1, NEW d, d = NextMeant(k),
         NEW j, In(k, j), Switching(k, j), j = LongsEnd(d), d.conv \in Conversions
  PROVE  Between(k + 1)'
<1>1. /\ d \in Directive /\ ~d.text /\ j \in Nat
      /\ fi = Start(meant)[k] + j /\ out = Said(meant, args)[k] /\ Start(meant)[k] \in Nat
  BY InAt
<1>2. d.conv # "end"
  BY DEF Conversions
<1>3. /\ pc = "switch" /\ precision = PreciseOf(k) /\ width \in {WideOf(k), NotLess(WideOf(k))}
      /\ padc = PadChar(d) /\ altflag = (d.flag = "#") /\ lflag = d.longs
      /\ ai = Before(k) + Stars(d) /\ ch = d.conv /\ Len(Written(d)) = j + 1
  BY <1>1, <1>2, AtConversion
<1>4. Convert
  BY <1>3, SwitchArm
<1>5. /\ given' = given /\ fi' = fi + 1 /\ ai' = ai + 1 /\ pc' = "text"
      /\ out' = out \o Converted
  BY <1>4 DEF Convert, Put
<1>6. arg \in Argument
  BY <1>3, ArgumentThere DEF Inv
<1>7. Taken(d) = Stars(d) + 1 /\ Stars(d) \in Nat
  BY <1>1 DEF Taken, Stars
<1>8. /\ Before(k) \in Nat
      /\ Start(meant)[k + 1] = Start(meant)[k] + Len(Written(d))
      /\ Used(meant)[k + 1] = Before(k) + Taken(d)
      /\ Said(meant, args)[k + 1]
           = Said(meant, args)[k]
             \o Meaning(d, args[Before(k) + Taken(d)], WideOf(k), PreciseOf(k))
  BY NextSaid
<1>9. arg = args[Before(k) + Taken(d)]
  <2>1. ai + 1 = Before(k) + Taken(d)
    BY <1>3, <1>7, <1>8
  <2> QED BY <2>1 DEF arg
<1>10. Converted = Meaning(d, arg, WideOf(k), precision)
  <2>1. WideOf(k) \in Int
    BY <1>3, WideType
  <2>2. Flags
    BY DEF Inv
  <2>3. PICK w \in Int : w = WideOf(k)
    BY <2>1
  <2>4. ~Disputed(d, arg)
    <3>1. PICK i \in 1 .. Len(meant) : i = k + 1
      BY Lists
    <3>2. NextMeant(k) = meant[i] /\ Used(meant)[i] = Before(k) + Taken(d)
      BY <1>8, <3>1 DEF NextMeant
    <3> QED BY <1>9, <3>2 DEF Told, Undisputed
  <2>5. d.width = None => w = -1
    BY <1>1, <2>3 DEF WideOf, Wide, None, Starred
  <2>6. Converted = Meaning(d, arg, w, precision)
    BY <1>1, <1>3, <1>6, <2>2, <2>3, <2>4, <2>5, ConversionMeant
  <2> QED BY <2>3, <2>6
<1>11. out' = Said(meant, args)[k + 1]
  BY <1>1, <1>3, <1>5, <1>10, <1>8, <1>9
<1>12. fi' = Start(meant)[k + 1] /\ ai' = Used(meant)[k + 1]
  <2>1. fi' = (Start(meant)[k] + j) + 1 /\ ai' = (Before(k) + Stars(d)) + 1
    BY <1>1, <1>3, <1>5
  <2>2. Start(meant)[k + 1] = Start(meant)[k] + (j + 1)
    BY <1>3, <1>8
  <2>3. Used(meant)[k + 1] = Before(k) + (Stars(d) + 1)
    BY <1>7, <1>8
  <2>4. fi' = Start(meant)[k + 1]
    BY <1>1, <2>1, <2>2
  <2>5. ai' = Used(meant)[k + 1]
    BY <1>7, <1>8, <2>1, <2>3
  <2> QED BY <2>4, <2>5
<1> PICK i : i = k + 1
  OBVIOUS
<1> QED BY <1>5, <1>11, <1>12, ComesBetween

LEMMA PercentMeant ==
  ASSUME Inv, Told, Next, NEW k \in 0 .. Len(meant) - 1, NEW d, d = NextMeant(k),
         NEW j, In(k, j), Switching(k, j), j = LongsEnd(d), d.conv = "%"
  PROVE  Between(k + 1)'
<1>1. /\ d \in Directive /\ ~d.text /\ j \in Nat
      /\ fi = Start(meant)[k] + j /\ out = Said(meant, args)[k] /\ Start(meant)[k] \in Nat
  BY InAt
<1>2. d.conv # "end" /\ d.conv \notin Conversions
  BY DEF Conversions
<1>3. /\ pc = "switch" /\ ai = Before(k) + Stars(d) /\ ch = d.conv /\ Len(Written(d)) = j + 1
  BY <1>1, <1>2, AtConversion
<1>4. PercentSign
  BY <1>3, SwitchArm
<1>5. given' = given /\ fi' = fi + 1 /\ ai' = ai /\ pc' = "text" /\ out' = out \o << "%" >>
  BY <1>4 DEF PercentSign, Put
<1>6. Taken(d) = Stars(d) /\ Stars(d) \in Nat
  BY <1>1, <1>2 DEF Taken, Stars
<1>7. \A a, w, p : Meaning(d, a, w, p) = << "%" >>
  BY <1>1 DEF Meaning, Numeric
<1>8. /\ Before(k) \in Nat
      /\ Start(meant)[k + 1] = Start(meant)[k] + Len(Written(d))
      /\ Used(meant)[k + 1] = Before(k) + Taken(d)
      /\ Said(meant, args)[k + 1]
           = Said(meant, args)[k]
             \o Meaning(d, args[Before(k) + Taken(d)], WideOf(k), PreciseOf(k))
  BY NextSaid
<1>9. out' = Said(meant, args)[k + 1]
  BY <1>1, <1>5, <1>7, <1>8
<1>10. fi' = Start(meant)[k + 1] /\ ai' = Used(meant)[k + 1]
  BY <1>1, <1>3, <1>5, <1>6, <1>8, SMTT(30)
<1> PICK i : i = k + 1
  OBVIOUS
<1> QED BY <1>5, <1>9, <1>10, ComesBetween

-----------------------------------------------------------------------------
(* An escape that is not understood.                                       *)
LEMMA OnlyPercent ==
  ASSUME NEW d \in Directive, Proper(d), Unknown(d), NEW i \in 2 .. Len(Written(d))
  PROVE  Written(d)[i] # "%" /\ Written(d)[i] # NUL
<1> DEFINE W == Written(d)
<1>1. ~d.text /\ d.conv \notin Conversions /\ d.conv # "%"
  BY DEF Unknown
<1>2. /\ Ends(d) /\ Len(W) = LongsEnd(d) + (IF d.conv = "end" THEN 0 ELSE 1)
      /\ FlagEnd(d) = (IF d.flag = "none" THEN 1 ELSE 2)
      /\ d.flag # "none" => W[2] = d.flag
      /\ \A o \in 1 .. Len(Field(d.width)) : W[FlagEnd(d) + o] = Field(d.width)[o]
      /\ d.prec # None =>
           /\ PointEnd(d) = WidthTo(d) + 1 /\ W[PointEnd(d)] = "."
           /\ PrecEnd(d) = PointEnd(d) + Len(Field(d.prec))
           /\ \A o \in 1 .. Len(Field(d.prec)) : W[PointEnd(d) + o] = Field(d.prec)[o]
      /\ d.prec = None => PointEnd(d) = WidthTo(d) /\ PrecEnd(d) = WidthTo(d)
      /\ \A o \in 1 .. d.longs : W[PrecEnd(d) + o] = "l"
      /\ d.conv # "end" => W[LongsEnd(d) + 1] = d.conv
  BY <1>1, EscapeWritten
<1>3. /\ FlagEnd(d) \in Nat /\ WidthTo(d) \in Nat /\ PointEnd(d) \in Nat
      /\ PrecEnd(d) \in Nat /\ LongsEnd(d) \in Nat
  BY <1>2 DEF Ends
<1>4. /\ d.width \in Fields /\ d.prec \in Fields /\ d.longs \in Nat
      /\ d.flag \in {"none", "0", "-", "#"}
  BY DEF Directive
<1>5. LongsEnd(d) = PrecEnd(d) + d.longs /\ WidthTo(d) = FlagEnd(d) + Len(Field(d.width))
  BY DEF LongsEnd, WidthTo
<1>6. ASSUME NEW v \in Fields, NEW o \in 1 .. Len(Field(v))
      PROVE  Field(v)[o] \in Going
  <2>1. CASE v = None
    BY <2>1, FieldIs
  <2>2. CASE v = Starred
    <3>1. Len(Field(v)) = 1 /\ Field(v)[1] = "*"
      BY <2>2, FieldIs
    <3>2. o = 1
      BY <3>1
    <3> QED BY <3>1, <3>2, Kinds
  <2>3. CASE v \in Nat \ {0}
    <3>1. Field(v) = Numeral(v, 10)
      BY <2>3, FieldIs
    <3>2. PICK m \in Nat \ {0} :
            /\ m = Len(Numeral(v, 10))
            /\ \A e \in 0 .. m - 1 : Numeral(v, 10)[e + 1] \in DecimalDigits
      BY <2>3, NumeralReads
    <3>3. PICK e \in 0 .. m - 1 : e + 1 = o
      <4>1. o - 1 \in 0 .. m - 1 /\ (o - 1) + 1 = o
        BY <3>1, <3>2
      <4> QED BY <4>1
    <3>4. Numeral(v, 10)[e + 1] \in DecimalDigits
      BY <3>2
    <3> QED BY <3>1, <3>3, <3>4, Kinds
  <2> QED BY <2>1, <2>2, <2>3 DEF Fields
<1>7. Len(Field(d.width)) \in Nat /\ Len(Field(d.prec)) \in Nat
  BY <1>4, FieldIs
<1> HIDE DEF W
<1>8. \A c \in Going : c # "%" /\ c # NUL
  BY Kinds
<1>9. CASE i <= FlagEnd(d)
  <2>1. i = 2 /\ d.flag # "none"
    BY <1>2, <1>9
  <2>2. d.flag \in FlagChars
    BY <1>4, <2>1, Arms
  <2> QED BY <1>2, <1>8, <2>1, <2>2, Kinds DEF W
<1>10. CASE FlagEnd(d) < i /\ i <= WidthTo(d)
  <2>1. PICK o \in 1 .. Len(Field(d.width)) : i = FlagEnd(d) + o
    <3>1. i - FlagEnd(d) \in 1 .. Len(Field(d.width)) /\ i = FlagEnd(d) + (i - FlagEnd(d))
      BY <1>3, <1>5, <1>7, <1>10
    <3> QED BY <3>1
  <2>2. W[i] = Field(d.width)[o]
    BY <1>2, <2>1
  <2>3. Field(d.width)[o] \in Going
    BY <1>4, <1>6
  <2> QED BY <1>8, <2>2, <2>3 DEF W
<1>11. CASE WidthTo(d) < i /\ i <= PrecEnd(d)
  <2>1. d.prec # None
    BY <1>2, <1>3, <1>11
  <2>2. CASE i = PointEnd(d)
    <3>1. W[i] = "." /\ "." # "%" /\ "." # NUL
      BY <1>2, <2>1, <2>2 DEF NUL
    <3> QED BY <3>1 DEF W
  <2>3. CASE i # PointEnd(d)
    <3>1. PICK o \in 1 .. Len(Field(d.prec)) : i = PointEnd(d) + o
      <4>1. i - PointEnd(d) \in 1 .. Len(Field(d.prec)) /\ i = PointEnd(d) + (i - PointEnd(d))
        BY <1>2, <1>3, <1>7, <1>11, <2>1, <2>3, SMTT(30)
      <4> QED BY <4>1
    <3>2. W[i] = Field(d.prec)[o]
      BY <1>2, <2>1, <3>1
    <3>3. Field(d.prec)[o] \in Going
      BY <1>4, <1>6
    <3> QED BY <1>8, <3>2, <3>3 DEF W
  <2> QED BY <2>2, <2>3
<1>12. CASE PrecEnd(d) < i /\ i <= LongsEnd(d)
  <2>1. PICK o \in 1 .. d.longs : i = PrecEnd(d) + o
    <3>1. i - PrecEnd(d) \in 1 .. d.longs /\ i = PrecEnd(d) + (i - PrecEnd(d))
      BY <1>3, <1>4, <1>5, <1>12
    <3> QED BY <3>1
  <2>2. W[i] = "l" /\ "l" # "%" /\ "l" # NUL
    BY <1>2, <2>1 DEF NUL
  <2> QED BY <2>2 DEF W
<1>13. CASE LongsEnd(d) < i
  <2>1. d.conv # "end" /\ i = LongsEnd(d) + 1
    <3>1. i <= Len(W) /\ i \in Nat
      BY <1>2, <1>3 DEF W
    <3> QED BY <1>2, <1>3, <1>13, <3>1
  <2>2. d.conv # NUL
    BY <1>1 DEF Proper
  <2> QED BY <1>1, <1>2, <2>1, <2>2 DEF W
<1>14. i \in Nat
  OBVIOUS
<1> QED BY <1>3, <1>9, <1>10, <1>11, <1>12, <1>13, <1>14

(* Text that is put once, and what it then has put.                        *)
LEMMA TextGives ==
  ASSUME Text
  PROVE  /\ given' = given /\ fi' = fi + 1 /\ ai' = ai /\ pc' = "text"
         /\ out' = out \o << ch >>
  BY DEF Text, Put

LEMMA UnknownMeant ==
  ASSUME Inv, Told, Next, NEW k \in 0 .. Len(meant) - 1, NEW d, d = NextMeant(k),
         NEW j, In(k, j), Switching(k, j), j = LongsEnd(d), Unknown(d)
  PROVE  Back(k, 1)'
<1> DEFINE W == Written(d)
           s == Start(meant)[k]
           P == {i \in 1 .. fi : fmt[i] = "%"}
<1>1. /\ d \in Directive /\ Proper(d) /\ ~d.text /\ j \in Nat /\ j \in 1 .. LongsEnd(d)
      /\ fi = s + j /\ out = Said(meant, args)[k] /\ s \in Nat
  BY InAt
<1>2. /\ pc = "switch" /\ ai = Before(k) + Stars(d)
      /\ ch = (IF d.conv = "end" THEN NUL ELSE d.conv)
      /\ Len(W) = j + IF d.conv = "end" THEN 0 ELSE 1
  BY AtConversion
<1>3. d.conv \notin Conversions /\ d.conv # "%" /\ d.conv \notin Going
  BY <1>1 DEF Unknown, Proper
<1>4. Unrecognized
  <2>1. ch \notin Going \cup Conversions \cup {"%"}
    BY <1>2, <1>3, Arms
  <2> QED BY <1>2, <2>1, SwitchArm
<1>5. given' = given /\ fi' = Max(P) /\ ai' = ai /\ pc' = "text" /\ out' = out \o << "%" >>
  BY <1>4 DEF Unrecognized, Put
<1>6. W \in Seq(Letters) /\ W[1] = "%" /\ Len(W) \in Nat \ {0}
  BY <1>1, EscapeWritten, LongEnough
<1>7. ASSUME NEW i \in 1 .. j
      PROVE  fmt[s + i] = W[i]
  <2>1. Len(meant) \in Nat /\ k + 1 \in 1 .. Len(meant) /\ (k + 1) - 1 = k
    BY Lists
  <2>2. i \in 1 .. Len(Written(meant[k + 1]))
    BY <1>1, <1>2 DEF NextMeant
  <2>3. \A m \in 1 .. Len(meant) :
          \A o \in 1 .. Len(Written(meant[m])) :
            fmt[Start(meant)[m - 1] + o] = Written(meant[m])[o]
    BY DEF Told, Says
  <2>4. fmt[Start(meant)[(k + 1) - 1] + i] = Written(meant[k + 1])[i]
    BY <2>1, <2>2, <2>3
  <2> QED BY <2>1, <2>4 DEF NextMeant
<1>8. s + 1 \in P
  <2>1. fmt[s + 1] = W[1]
    <3> PICK i \in 1 .. j : i = 1
      BY <1>1
    <3> QED BY <1>7
  <2>2. s + 1 \in 1 .. fi
    BY <1>1
  <2> QED BY <1>6, <2>1, <2>2
<1>9. \A o \in P : o <= s + 1
  <2> SUFFICES ASSUME NEW o \in 1 .. fi, fmt[o] = "%", s + 1 < o PROVE FALSE
    BY <1>1
  <2>1. PICK i \in 2 .. j : o = s + i
    <3>1. o - s \in 2 .. j /\ o = s + (o - s)
      BY <1>1
    <3> QED BY <3>1
  <2>2. i \in 1 .. j
    BY <1>1
  <2>3. fmt[o] = W[i]
    BY <1>7, <2>1, <2>2
  <2>4. i \in 2 .. Len(W)
    BY <1>1, <1>2
  <2>5. W[i] # "%"
    BY <1>1, <2>4, OnlyPercent
  <2> QED BY <2>3, <2>5
<1>10. Max(P) = s + 1
  <2>1. fi \in Nat /\ P \subseteq 1 .. fi /\ P # {}
    BY <1>1, <1>8
  <2> HIDE DEF P
  <2>2. Max(P) \in P /\ \A o \in P : o <= Max(P)
    BY <2>1, Greatest
  <2>3. Max(P) <= s + 1 /\ s + 1 <= Max(P) /\ Max(P) \in 1 .. fi
    BY <1>8, <1>9, <2>1, <2>2
  <2> QED BY <1>1, <2>3
<1> HIDE DEF P
<1>11. Used(meant)[k + 1] = ai
  <2>1. Taken(d) = Stars(d)
    BY <1>1, <1>3 DEF Taken, Stars
  <2> QED BY <1>2, <2>1, NextSaid
<1>12. Said(meant, args)[k] \in Seq(Chars)
  <2>1. out \in Seq(Chars)
    BY DEF Inv, Stored
  <2> QED BY <1>1, <2>1
<1>13. SubSeq(W, 1, 1) = << "%" >>
  <2> HIDE DEF W
  <2>1. 1 \in 0 .. Len(W) /\ 1 \in 1 .. Len(W)
    BY <1>6
  <2>2. SubSeq(W, 1, 1) = SubSeq(W, 1, 0) \o << W[1] >>
    <3>1. 1 \in 1 .. Len(W) /\ 1 - 1 = 0
      BY <2>1
    <3>2. SubSeq(W, 1, 1) = SubSeq(W, 1, 1 - 1) \o << W[1] >>
      BY <1>6, <3>1, SubSeqRecursiveSecond
    <3> QED BY <3>1, <3>2
  <2>3. SubSeq(W, 1, 0) = << >>
    BY SubSeqEmpty
  <2>4. << "%" >> \in Seq(Letters)
    BY DEF Letters
  <2> QED BY <1>6, <2>2, <2>3, <2>4, ConcatEmptySeq
<1>14. /\ Start(meant)[k]' = s /\ Used(meant)[k + 1]' = Used(meant)[k + 1]
       /\ Said(meant, args)[k]' = Said(meant, args)[k] /\ NextMeant(k)' = d
  BY <1>5, MeaningStays
<1>15. 1 \in 1 .. Len(W)
  BY <1>6
<1>16. out' = Said(meant, args)[k] \o SubSeq(W, 1, 1)
  BY <1>1, <1>5, <1>13
<1>17. fi' = s + 1 /\ ai' = Used(meant)[k + 1]
  BY <1>5, <1>10, <1>11
<1> HIDE DEF s
<1> QED BY <1>5, <1>12, <1>14, <1>15, <1>16, <1>17 DEF Back

-----------------------------------------------------------------------------
(* The steps between two directives.                                       *)
LEMMA CallMeant ==
  ASSUME Inv, Told, Next, NEW k \in 0 .. Len(meant), Between(k), pc = "call"
  PROVE  Between(k)'
<1>1. Refuse \/ Begin
  BY Guards DEF Next
<1>2. /\ given' = given /\ fi' = fi /\ ai' = ai /\ out' = out
      /\ pc' = "text" \/ (pc' = "returned" /\ NoRoom)
  BY <1>1 DEF Refuse, Begin, output
<1>3. /\ Start(meant)[k]' = Start(meant)[k] /\ Used(meant)[k]' = Used(meant)[k]
      /\ Said(meant, args)[k]' = Said(meant, args)[k] /\ n' = n
  BY <1>2, MeaningStays
<1>4. fi = Start(meant)[k] /\ ai = Used(meant)[k] /\ out = Said(meant, args)[k]
  BY DEF Between
<1>5. CASE pc' = "text"
  BY <1>2, <1>3, <1>4, <1>5 DEF Between
<1>6. CASE pc' = "returned" /\ NoRoom
  <2>1. NoRoom'
    BY <1>2, <1>6 DEF NoRoom, given
  <2> QED BY <1>2, <1>3, <1>4, <1>6, <2>1 DEF Between
<1> QED BY <1>2, <1>5, <1>6

LEMMA EndMeant ==
  ASSUME Told, Next, Between(Len(meant)), pc = "text"
  PROVE  Between(Len(meant))'
<1> PICK k : k = Len(meant)
  OBVIOUS
<1>1. fi = Start(meant)[k] /\ ai = Used(meant)[k] /\ out = Said(meant, args)[k]
  BY DEF Between
<1>2. ch = NUL
  BY <1>1, CharBehind
<1>3. End
  BY <1>2, TextArm
<1>4. given' = given /\ fi' = fi /\ ai' = ai /\ out' = out /\ pc' = "returned"
  BY <1>3 DEF End
<1>5. /\ Start(meant)[k]' = Start(meant)[k] /\ Used(meant)[k]' = Used(meant)[k]
      /\ Said(meant, args)[k]' = Said(meant, args)[k] /\ meant' = meant
  BY <1>4, MeaningStays
<1>6. k = Len(meant')
  BY <1>5
<1>7. Between(k)'
  BY <1>1, <1>4, <1>5, <1>6 DEF Between
<1> QED BY <1>5, <1>7

LEMMA TextMeant ==
  ASSUME Told, Next, NEW k \in 0 .. Len(meant) - 1, Between(k), pc = "text", NextMeant(k).text
  PROVE  Between(k + 1)'
<1> DEFINE d == NextMeant(k)
<1>1. fi = Start(meant)[k] /\ ai = Used(meant)[k] /\ out = Said(meant, args)[k]
  BY DEF Between
<1>2. Proper(d) /\ Len(Written(d)) = 1 /\ Written(d)[1] = d.conv
  BY Lists, TextWritten
<1>3. d.conv \in Chars \ {"%", NUL}
  BY <1>2 DEF Proper
<1>4. Start(meant)[k] \in Nat
  <2>1. k \in 0 .. Len(meant)
    BY Lists
  <2> QED BY <2>1, Starts
<1>5. ch = d.conv
  <2>1. PICK j \in 0 .. Len(Written(NextMeant(k))) - 1 : j = 0
    BY <1>2
  <2>2. fi = Start(meant)[k] + j /\ j + 1 = 1
    BY <1>1, <1>4, <2>1
  <2>3. ch = Written(NextMeant(k))[j + 1]
    BY <2>2, CharAt
  <2> QED BY <1>2, <2>2, <2>3
<1>6. Text
  BY <1>3, <1>5, TextArm
<1>7. given' = given /\ fi' = fi + 1 /\ ai' = ai /\ pc' = "text" /\ out' = out \o << ch >>
  BY <1>6, TextGives
<1>8. \A a, w, p : Meaning(d, a, w, p) = << d.conv >>
  BY DEF Meaning
<1>9. Taken(d) = 0
  BY DEF Taken
<1> HIDE DEF d
<1>10. /\ Before(k) \in Nat
       /\ Start(meant)[k + 1] = Start(meant)[k] + Len(Written(d))
       /\ Used(meant)[k + 1] = Before(k) + Taken(d)
       /\ Said(meant, args)[k + 1]
            = Said(meant, args)[k]
              \o Meaning(d, args[Before(k) + Taken(d)], WideOf(k), PreciseOf(k))
  BY NextSaid DEF d
<1>11. out' = Said(meant, args)[k + 1]
  BY <1>1, <1>5, <1>7, <1>8, <1>10
<1>12. fi' = Start(meant)[k + 1]
  BY <1>1, <1>2, <1>7, <1>10
<1>13. ai' = Used(meant)[k + 1]
  <2>1. Before(k) = Used(meant)[k]
    BY DEF Before
  <2> QED BY <1>1, <1>7, <1>9, <1>10, <2>1
<1> PICK i : i = k + 1
  OBVIOUS
<1> QED BY <1>7, <1>11, <1>12, <1>13, ComesBetween

LEMMA EscapeBegins ==
  ASSUME Told, Next, NEW k \in 0 .. Len(meant) - 1, NEW d, d = NextMeant(k),
         Between(k), pc = "text", ~d.text
  PROVE  In(k, 1)'
<1>1. fi = Start(meant)[k] /\ ai = Used(meant)[k] /\ out = Said(meant, args)[k]
  BY DEF Between
<1>2. d \in Directive /\ Proper(d) /\ Len(Written(d)) \in Nat \ {0}
  BY Lists
<1>3. Written(d)[1] = "%"
  BY <1>2, EscapeWritten
<1>4. /\ Ends(d) /\ FlagEnd(d) = (IF d.flag = "none" THEN 1 ELSE 2)
      /\ LongsEnd(d) = PrecEnd(d) + d.longs /\ d.longs \in Nat
      /\ d.width = None \/ d.width = Starred \/ d.width \in Nat \ {0}
      /\ d.width = Starred => WidthTo(d) = FlagEnd(d) + 1
      /\ d.width \in Nat \ {0} => FlagEnd(d) < WidthTo(d)
      /\ d.prec # None => PointEnd(d) = WidthTo(d) + 1 /\ PointEnd(d) < PrecEnd(d)
      /\ d.prec = None => PrecEnd(d) = WidthTo(d)
      /\ d.prec = Starred => d.prec # None
  BY <1>2, Shape
<1>5. /\ FlagEnd(d) \in Nat /\ WidthTo(d) \in Nat /\ PointEnd(d) \in Nat
      /\ PrecEnd(d) \in Nat /\ LongsEnd(d) \in Nat
      /\ 1 <= FlagEnd(d) /\ FlagEnd(d) <= WidthTo(d) /\ WidthTo(d) <= PointEnd(d)
      /\ PointEnd(d) <= PrecEnd(d) /\ PrecEnd(d) <= LongsEnd(d)
  BY <1>4 DEF Ends
<1>6. Start(meant)[k] \in Nat /\ Before(k) \in Nat
  <2>1. k \in 0 .. Len(meant)
    BY Lists
  <2> QED BY <2>1, Starts, NextSaid
<1>7. ch = "%"
  <2>1. PICK j \in 0 .. Len(Written(NextMeant(k))) - 1 : j = 0
    BY <1>2
  <2>2. fi = Start(meant)[k] + j /\ j + 1 = 1
    BY <1>1, <1>6, <2>1
  <2>3. ch = Written(NextMeant(k))[j + 1]
    BY <2>2, CharAt
  <2> QED BY <1>3, <2>2, <2>3
<1>8. Percent
  BY <1>7, TextArm
<1>9. /\ given' = given /\ fi' = fi + 1 /\ ai' = ai /\ pc' = "switch" /\ out' = out
      /\ width' = -1 /\ precision' = -1 /\ lflag' = 0
  BY <1>8 DEF Percent, output
<1> PICK i \in Nat : i = 1
  OBVIOUS
<1>10. padc' = PadBy(d, i)
  <2>1. padc' = " "
    BY <1>8, Zenon DEF Percent
  <2>2. 1 >= FlagEnd(d) => d.flag = "none"
    BY <1>4
  <2>3. "none" # "0" /\ "none" # "-"
    OBVIOUS
  <2> QED BY <2>1, <2>2, <2>3, Zenon DEF PadBy, PadChar
<1>11. altflag' = AltBy(d, i)
  <2>1. altflag' = FALSE
    BY <1>8, Zenon DEF Percent
  <2>2. 1 >= FlagEnd(d) => d.flag = "none"
    BY <1>4
  <2>3. "none" # "#"
    OBVIOUS
  <2> QED BY <2>1, <2>2, <2>3, Zenon DEF AltBy
<1>12. lflag' = LongBy(d, i)
  BY <1>5, <1>9 DEF LongBy
<1>13. width' = WidthBy(k, i)
  <2>1. CASE i < WidthTo(d)
    BY <1>2, <1>9, <2>1, FlagsAt
  <2>2. CASE ~(i < WidthTo(d))
    <3>1. d.width = None /\ WidthTo(d) <= i /\ (d.prec = None \/ i < PointEnd(d))
      BY <1>4, <1>5, <2>2
    <3>2. WidthBy(k, i) = WideOf(k)
      BY <1>2, <3>1, FlagsAt
    <3> QED BY <1>2, <1>9, <3>1, <3>2, FieldsMeant
  <2> QED BY <2>1, <2>2
<1>14. precision' = PrecBy(k, i)
  <2>1. CASE i < PrecEnd(d)
    BY <1>2, <1>9, <2>1, FlagsAt
  <2>2. CASE ~(i < PrecEnd(d))
    <3>1. d.prec = None /\ PrecEnd(d) <= i
      BY <1>4, <1>5, <2>2
    <3>2. PrecBy(k, i) = PreciseOf(k)
      BY <1>2, <3>1, FlagsAt
    <3> QED BY <1>2, <1>9, <3>1, <3>2, FieldsMeant
  <2> QED BY <2>1, <2>2
<1>15. StarsBy(d, i) = 0
  BY <1>4, <1>5 DEF StarsBy
<1>16. Outside(d, i) /\ i \in 1 .. LongsEnd(d)
  BY <1>5 DEF Outside
<1>17. fi' = Start(meant)[k] + i /\ ai' = Before(k) + StarsBy(d, i) /\ out' = Said(meant, args)[k]
  <2>1. Before(k) = Used(meant)[k]
    BY DEF Before
  <2> QED BY <1>1, <1>6, <1>9, <1>15, <2>1
<1>18. In(k, i)'
  BY <1>9, <1>10, <1>11, <1>12, <1>13, <1>14, <1>16, <1>17, StaysIn
<1> QED BY <1>18

-----------------------------------------------------------------------------
(* An escape that is not understood, a character after the other.          *)
LEMMA BackMeant ==
  ASSUME Inv, Told, Next, NEW k \in 0 .. Len(meant) - 1, NEW d, d = NextMeant(k),
         NEW j, Back(k, j), j < Len(Written(d))
  PROVE  Back(k, j + 1)'
<1> DEFINE W == Written(d)
           s == Said(meant, args)[k]
<1>1. /\ Unknown(d) /\ pc = "text" /\ j \in 1 .. Len(W)
      /\ fi = Start(meant)[k] + j /\ ai = Used(meant)[k + 1]
      /\ s \in Seq(Chars) /\ out = s \o SubSeq(W, 1, j)
  BY DEF Back
<1>2. d \in Directive /\ Proper(d) /\ ~d.text /\ Len(W) \in Nat \ {0}
  BY <1>1, Lists DEF Unknown
<1>3. W \in Seq(Letters)
  BY <1>2, EscapeWritten
<1>4. Start(meant)[k] \in Nat
  <2>1. k \in 0 .. Len(meant)
    BY Lists
  <2> QED BY <2>1, Starts
<1> HIDE DEF W, s
<1>5. j \in Nat /\ j + 1 \in 2 .. Len(W) /\ j + 1 \in 1 .. Len(W) /\ j \in 0 .. Len(W) - 1
  BY <1>1, <1>2 DEF W
<1>6. ch = W[j + 1]
  <2>1. j \in 0 .. Len(Written(NextMeant(k))) - 1
    BY <1>5 DEF W
  <2> QED BY <1>1, <2>1, CharAt DEF W
<1>7. ch # "%" /\ ch # NUL
  <2>1. PICK i \in 2 .. Len(W) : i = j + 1
    BY <1>5
  <2>2. W[i] # "%" /\ W[i] # NUL
    BY <1>1, <1>2, OnlyPercent DEF W
  <2> QED BY <1>6, <2>1, <2>2
<1>8. Text
  BY <1>1, <1>7, TextArm
<1>9. given' = given /\ fi' = fi + 1 /\ ai' = ai /\ pc' = "text" /\ out' = out \o << ch >>
  BY <1>8, TextGives
<1> PICK i \in 1 .. Len(W) : i = j + 1
  BY <1>5
<1>10. out' = s \o SubSeq(W, 1, i)
  <2>1. s \in Seq(Letters)
    BY <1>1 DEF Letters
  <2>2. SubSeq(W, 1, j) \in Seq(Letters)
    <3>1. j \in 0 .. Len(W)
      BY <1>5
    <3> QED BY <1>3, <3>1, FirstOf
  <2>3. << W[i] >> \in Seq(Letters)
    <3>1. W[i] \in Letters
      BY <1>3, ElementOfSeq
    <3> QED BY <3>1
  <2>4. SubSeq(W, 1, i) = SubSeq(W, 1, j) \o << W[i] >>
    <3>1. 1 \in 1 .. Len(W) /\ i \in 1 .. Len(W) /\ i - 1 = j
      BY <1>5
    <3>2. SubSeq(W, 1, i) = SubSeq(W, 1, i - 1) \o << W[i] >>
      BY <1>3, <3>1, SubSeqRecursiveSecond
    <3> QED BY <3>1, <3>2
  <2>5. (s \o SubSeq(W, 1, j)) \o << W[i] >> = s \o (SubSeq(W, 1, j) \o << W[i] >>)
    <3> DEFINE t == SubSeq(W, 1, j)
               u == << W[i] >>
    <3> HIDE DEF t, u
    <3>1. t \in Seq(Letters) /\ u \in Seq(Letters)
      BY <2>2, <2>3 DEF t, u
    <3>2. (s \o t) \o u = s \o (t \o u)
      BY <2>1, <3>1, ConcatAssociative, SMTT(30)
    <3> QED BY <3>2 DEF t, u
  <2> QED BY <1>1, <1>6, <1>9, <2>4, <2>5
<1>11. fi' = Start(meant)[k] + i /\ ai' = Used(meant)[k + 1]
  BY <1>1, <1>4, <1>5, <1>9
<1>12. /\ Start(meant)[k]' = Start(meant)[k] /\ Used(meant)[k + 1]' = Used(meant)[k + 1]
       /\ Said(meant, args)[k]' = Said(meant, args)[k] /\ NextMeant(k)' = d
  BY <1>9, MeaningStays
<1>13. Back(k, i)'
  BY <1>1, <1>9, <1>10, <1>11, <1>12 DEF Back, W, s
<1> QED BY <1>13

LEMMA BackEnds ==
  ASSUME Told, NEW k \in 0 .. Len(meant) - 1, NEW d, d = NextMeant(k),
         NEW j, Back(k, j), ~(j < Len(Written(d)))
  PROVE  Between(k + 1) /\ pc = "text"
<1> DEFINE W == Written(d)
           s == Said(meant, args)[k]
<1>1. /\ Unknown(d) /\ pc = "text" /\ j \in 1 .. Len(W)
      /\ fi = Start(meant)[k] + j /\ ai = Used(meant)[k + 1] /\ out = s \o SubSeq(W, 1, j)
  BY DEF Back
<1>2. d \in Directive /\ Proper(d) /\ ~d.text /\ Len(W) \in Nat \ {0}
  BY <1>1, Lists DEF Unknown
<1>3. W \in Seq(Letters)
  BY <1>2, EscapeWritten
<1>4. \A a, w, p : Meaning(d, a, w, p) = W
  <2>1. d.conv \notin Conversions /\ d.conv # "%"
    BY <1>1 DEF Unknown
  <2>2. d.conv \notin Numeric /\ d.conv # "s" /\ d.conv # "c" /\ d.conv # "e"
    BY <2>1 DEF Conversions, Numeric
  <2> QED BY <1>2, <2>1, <2>2 DEF Meaning
<1> HIDE DEF W, s
<1>5. j = Len(W)
  BY <1>1, <1>2 DEF W
<1>6. SubSeq(W, 1, j) = W
  BY <1>3, <1>5, SubSeqFull
<1>7. /\ Start(meant)[k + 1] = Start(meant)[k] + Len(Written(d))
      /\ Said(meant, args)[k + 1]
           = Said(meant, args)[k]
             \o Meaning(d, args[Before(k) + Taken(d)], WideOf(k), PreciseOf(k))
  BY NextSaid
<1>8. out = Said(meant, args)[k + 1]
  BY <1>1, <1>4, <1>6, <1>7 DEF s
<1>9. fi = Start(meant)[k + 1]
  BY <1>1, <1>5, <1>7 DEF W
<1> QED BY <1>1, <1>8, <1>9 DEF Between

-----------------------------------------------------------------------------
(* Every step leads from a place in the meaning to a place in it.          *)
LEMMA BetweenStep ==
  ASSUME Inv, Told, Next, NEW k \in 0 .. Len(meant), Between(k)
  PROVE  Saying'
<1>1. /\ given' = given /\ Told' /\ meant' = meant
      /\ \A m : NextMeant(m)' = NextMeant(m)
  BY CallStays, MeaningStays
<1>2. Len(meant) \in Nat
  BY Lists
<1>3. ASSUME NEW m \in 0 .. Len(meant), Between(m)'
      PROVE  Saying'
  BY <1>1, <1>3 DEF Saying
<1>4. pc \in {"call", "text", "returned"}
  BY DEF Between
<1>5. pc # "returned"
  BY Guards DEF Next
<1>6. CASE pc = "call"
  BY <1>3, <1>6, CallMeant
<1>7. CASE pc = "text" /\ k = Len(meant)
  <2>1. Between(Len(meant))
    BY <1>7
  <2>2. Between(Len(meant))'
    BY <1>7, <2>1, EndMeant
  <2>3. PICK m \in 0 .. Len(meant) : m = Len(meant)
    BY <1>2
  <2>4. Between(m)'
    BY <1>1, <2>2, <2>3
  <2> QED BY <1>3, <2>4
<1>8. CASE pc = "text" /\ k # Len(meant)
  <2>1. k \in 0 .. Len(meant) - 1 /\ k + 1 \in 0 .. Len(meant)
    BY <1>2, <1>8
  <2>2. CASE NextMeant(k).text
    <3>1. Between(k + 1)'
      BY <1>8, <2>1, <2>2, TextMeant
    <3>2. PICK m \in 0 .. Len(meant) : m = k + 1
      BY <2>1
    <3> QED BY <1>3, <3>1, <3>2
  <2>3. CASE ~NextMeant(k).text
    <3>1. In(k, 1)'
      BY <1>8, <2>1, <2>3, EscapeBegins
    <3>2. Len(Written(NextMeant(k))) \in Nat \ {0}
      BY <2>1, Lists
    <3>3. 1 \in 1 .. Len(Written(NextMeant(k)'))
      BY <1>1, <3>2
    <3> QED BY <1>1, <2>1, <3>1, <3>3 DEF Saying
  <2> QED BY <2>2, <2>3
<1> QED BY <1>4, <1>5, <1>6, <1>7, <1>8

LEMMA InStep ==
  ASSUME Inv, Told, Next, NEW k \in 0 .. Len(meant) - 1, NEW j, In(k, j)
  PROVE  Saying'
<1> DEFINE d == NextMeant(k)
<1>1. /\ given' = given /\ meant' = meant /\ NextMeant(k)' = d
  BY CallStays, MeaningStays
<1>2. /\ d \in Directive /\ Proper(d) /\ ~d.text /\ j \in Nat /\ j \in 1 .. LongsEnd(d)
      /\ Switching(k, j) \/ Gathering(k, j)
  BY InAt
<1>3. /\ Ends(d)
      /\ d.prec = None => PointEnd(d) = WidthTo(d) /\ PrecEnd(d) = WidthTo(d)
      /\ d.prec # None => PointEnd(d) = WidthTo(d) + 1 /\ PointEnd(d) < PrecEnd(d)
  BY <1>2, Shape
<1>4. /\ FlagEnd(d) \in Nat /\ WidthTo(d) \in Nat /\ PointEnd(d) \in Nat
      /\ PrecEnd(d) \in Nat /\ LongsEnd(d) \in Nat
      /\ FlagEnd(d) <= WidthTo(d) /\ WidthTo(d) <= PointEnd(d) /\ PointEnd(d) <= PrecEnd(d)
      /\ PrecEnd(d) <= LongsEnd(d)
  BY <1>3 DEF Ends
<1>5. Len(Written(d)) = LongsEnd(d) + (IF d.conv = "end" THEN 0 ELSE 1)
  BY <1>2, EscapeWritten
<1>6. Len(meant) \in Nat /\ k + 1 \in 0 .. Len(meant)
  BY Lists
<1> HIDE DEF d
<1>7. ASSUME NEW i \in 1 .. LongsEnd(d), In(k, i)'
      PROVE  Saying'
  <2>1. i \in 1 .. Len(Written(NextMeant(k)'))
    BY <1>1, <1>4, <1>5
  <2> QED BY <1>1, <1>7, <2>1 DEF Saying
<1>8. ASSUME Between(k + 1)'
      PROVE  Saying'
  BY <1>1, <1>6, <1>8 DEF Saying
<1>9. ASSUME In(k, j + 1)', j < LongsEnd(d)
      PROVE  Saying'
  <2>1. PICK i \in 1 .. LongsEnd(d) : i = j + 1
    BY <1>2, <1>4, <1>9
  <2> QED BY <1>7, <1>9, <2>1
<1>10. CASE Gathering(k, j)
  <2>1. CASE j \in {WidthTo(d), PrecEnd(d)}
    <3>1. In(k, j)'
      BY <1>10, <2>1, NumberMeant DEF d
    <3> QED BY <1>2, <1>7, <3>1
  <2>2. CASE j \notin {WidthTo(d), PrecEnd(d)}
    <3>1. In(k, j + 1)'
      BY <1>10, <2>2, DigitMeant DEF d
    <3>2. j <= PrecEnd(d)
      <4>1. j <= WidthTo(d) \/ j <= PrecEnd(d)
        BY <1>10 DEF Gathering, Gathered, d
      <4> QED BY <1>2, <1>4, <4>1
    <3>3. j < LongsEnd(d)
      BY <1>2, <1>4, <2>2, <3>2
    <3> QED BY <1>9, <3>1, <3>3
  <2> QED BY <2>1, <2>2
<1>11. CASE Switching(k, j)
  <2>1. Outside(d, j)
    BY <1>11 DEF Switching, d
  <2>2. \/ j < FlagEnd(d)
        \/ j = FlagEnd(d) /\ j < WidthTo(d)
        \/ j = WidthTo(d) /\ j < PointEnd(d)
        \/ j = PointEnd(d) /\ j < PrecEnd(d)
        \/ PrecEnd(d) <= j /\ j < LongsEnd(d)
        \/ j = LongsEnd(d)
    BY <1>2, <1>3, <1>4, <2>1 DEF Outside
  <2>3. ASSUME j # LongsEnd(d)
        PROVE  In(k, j + 1)'
    <3>1. CASE j < FlagEnd(d)
      BY <1>11, <3>1, FlagMeant DEF d
    <3>2. CASE j = FlagEnd(d) /\ j < WidthTo(d)
      BY <1>11, <3>2, WidthMeant DEF d
    <3>3. CASE j = WidthTo(d) /\ j < PointEnd(d)
      BY <1>11, <3>3, PointMeant DEF d
    <3>4. CASE j = PointEnd(d) /\ j < PrecEnd(d)
      BY <1>11, <3>4, PrecMeant DEF d
    <3>5. CASE PrecEnd(d) <= j /\ j < LongsEnd(d)
      BY <1>11, <3>5, LongMeant DEF d
    <3> QED BY <2>2, <2>3, <3>1, <3>2, <3>3, <3>4, <3>5
  <2>4. CASE j # LongsEnd(d)
    <3>1. j < LongsEnd(d)
      BY <1>2, <1>4, <2>4
    <3> QED BY <1>9, <2>3, <2>4, <3>1
  <2>5. CASE j = LongsEnd(d) /\ d.conv \in Conversions
    <3>1. Between(k + 1)'
      BY <1>11, <2>5, ConvertMeant DEF d
    <3> QED BY <1>8, <3>1
  <2>6. CASE j = LongsEnd(d) /\ d.conv = "%"
    <3>1. Between(k + 1)'
      BY <1>11, <2>6, PercentMeant DEF d
    <3> QED BY <1>8, <3>1
  <2>7. CASE j = LongsEnd(d) /\ d.conv \notin Conversions \cup {"%"}
    <3>1. Unknown(d)
      BY <1>2, <2>7 DEF Unknown
    <3>2. Back(k, 1)'
      BY <1>11, <2>7, <3>1, UnknownMeant DEF d
    <3>3. 1 \in 1 .. Len(Written(NextMeant(k)'))
      BY <1>1, <1>2, <1>4, <1>5
    <3> QED BY <1>1, <3>2, <3>3 DEF Saying
  <2> QED BY <2>4, <2>5, <2>6, <2>7
<1> QED BY <1>2, <1>10, <1>11

LEMMA BackStep ==
  ASSUME Inv, Told, Next, NEW k \in 0 .. Len(meant) - 1, NEW j, Back(k, j)
  PROVE  Saying'
<1> DEFINE d == NextMeant(k)
<1>1. given' = given /\ meant' = meant /\ NextMeant(k)' = d
  BY CallStays, MeaningStays
<1>2. Len(meant) \in Nat /\ Len(Written(d)) \in Nat /\ k + 1 \in 0 .. Len(meant)
  BY Lists
<1>3. CASE j < Len(Written(d))
  <2>1. Back(k, j + 1)'
    BY <1>3, BackMeant
  <2>2. PICK i \in 1 .. Len(Written(NextMeant(k)')) : i = j + 1
    <3>1. j \in 1 .. Len(Written(d))
      BY DEF Back
    <3>2. j + 1 \in 1 .. Len(Written(d))
      BY <1>2, <1>3, <3>1
    <3> QED BY <1>1, <3>2
  <2> QED BY <1>1, <2>1, <2>2 DEF Saying
<1>4. CASE ~(j < Len(Written(d)))
  <2>1. Between(k + 1)
    BY <1>4, BackEnds
  <2>2. PICK i \in 0 .. Len(meant) : i = k + 1
    BY <1>2
  <2> QED BY <2>1, <2>2, BetweenStep
<1> QED BY <1>3, <1>4

LEMMA SayingStands ==
  ASSUME Told, Saying, UNCHANGED vars
  PROVE  Saying'
<1>1. /\ given' = given /\ fi' = fi /\ ai' = ai /\ pc' = pc /\ out' = out /\ padc' = padc
      /\ width' = width /\ precision' = precision /\ lflag' = lflag /\ altflag' = altflag
  BY DEF vars, escape, output
<1>2. /\ meant' = meant /\ n' = n
      /\ \A k : /\ Start(meant)[k]' = Start(meant)[k]
                /\ Used(meant)[k]' = Used(meant)[k]
                /\ Said(meant, args)[k]' = Said(meant, args)[k]
                /\ NextMeant(k)' = NextMeant(k) /\ Before(k)' = Before(k)
                /\ WideOf(k)' = WideOf(k)
      /\ \A k, j : WidthBy(k, j)' = WidthBy(k, j) /\ PrecBy(k, j)' = PrecBy(k, j)
  BY <1>1, MeaningStays
<1>3. ASSUME NEW k \in 0 .. Len(meant), Between(k)
      PROVE  Saying'
  <2>1. NoRoom' <=> NoRoom
    BY <1>1 DEF NoRoom, given
  <2>2. Between(k)'
    BY <1>1, <1>2, <1>3, <2>1 DEF Between
  <2> QED BY <1>2, <2>2 DEF Saying
<1>4. ASSUME NEW k \in 0 .. Len(meant) - 1, NEW j \in 1 .. Len(Written(NextMeant(k))), Back(k, j)
      PROVE  Saying'
  <2>1. Back(k, j)'
    BY <1>1, <1>2, <1>4 DEF Back
  <2>2. j \in 1 .. Len(Written(NextMeant(k)'))
    BY <1>2
  <2> QED BY <1>2, <2>1, <2>2 DEF Saying
<1>5. ASSUME NEW k \in 0 .. Len(meant) - 1, NEW j \in 1 .. Len(Written(NextMeant(k))), In(k, j)
      PROVE  Saying'
  <2> PICK d : d = NextMeant(k)
    OBVIOUS
  <2>1. /\ ~d.text /\ j \in 1 .. LongsEnd(d)
        /\ fi = Start(meant)[k] + j /\ ai = Before(k) + StarsBy(d, j)
        /\ out = Said(meant, args)[k]
        /\ padc = PadBy(d, j) /\ altflag = AltBy(d, j) /\ lflag = LongBy(d, j)
        /\ Switching(k, j) \/ Gathering(k, j)
    BY <1>5, InAt
  <2>2. \/ /\ pc' = "switch" /\ Outside(d, j)
           /\ width' = WidthBy(k, j) /\ precision' = PrecBy(k, j)
        \/ pc' = "number" /\ Gathered(k, j, width', precision')
    BY <1>1, <2>1 DEF Switching, Gathering
  <2>3. padc' = PadBy(d, j) /\ altflag' = AltBy(d, j) /\ lflag' = LongBy(d, j)
        /\ fi' = Start(meant)[k] + j /\ ai' = Before(k) + StarsBy(d, j)
        /\ out' = Said(meant, args)[k]
    BY <1>1, <2>1, Zenon
  <2>4. In(k, j)'
    BY <1>1, <2>1, <2>2, <2>3, StaysIn
  <2>5. j \in 1 .. Len(Written(NextMeant(k)'))
    BY <1>2
  <2> QED BY <1>2, <2>4, <2>5 DEF Saying
<1> QED BY <1>3, <1>4, <1>5 DEF Saying

LEMMA SayingNext ==
  ASSUME Inv, Told, Saying, [Next]_vars
  PROVE  Told' /\ Saying'
<1>1. Told'
  BY CallStays, MeaningStays
<1>2. CASE UNCHANGED vars
  BY <1>1, <1>2, SayingStands
<1>3. CASE Next
  <2>1. Saying'
    BY <1>3, BetweenStep, InStep, BackStep DEF Saying
  <2> QED BY <1>1, <2>1
<1> QED BY <1>1, <1>2, <1>3

LEMMA SayingInit ==
  ASSUME Init
  PROVE  Says(meant, fmt) /\ (Undisputed => Saying)
<1>1. PICK call \in Calls : meant = call.meant /\ fmt = call.fmt
  BY DEF Init
<1>2. Says(meant, fmt)
  BY <1>1, MeantAssumption
<1>3. ASSUME Undisputed PROVE Saying
  <2>1. Told
    BY <1>2, <1>3 DEF Told
  <2>2. Len(meant) \in Nat
    BY <2>1, Lists
  <2>3. Start(meant)[0] = 0 /\ Used(meant)[0] = 0 /\ Said(meant, args)[0] = << >>
    BY <2>1, <2>2, Starts, UsedIs, SaidIs
  <2>4. fi = 0 /\ ai = 0 /\ out = << >> /\ pc = "call"
    BY DEF Init
  <2>5. Between(0)
    BY <2>3, <2>4 DEF Between
  <2> QED BY <2>2, <2>5 DEF Saying
<1> QED BY <1>2, <1>3

(* vprintfmt() puts each directive of a format as the comments of the code *)
(* mean it, if there is none in the format that they dispute with the code *)
(* (a number with a width, padded on the right; a negative number as %o):  *)
(* whatever the flags, the widths and the precisions of a directive, its   *)
(* argument and the directives before it are, and in whatever order they   *)
(* come.  An escape that is not understood comes out as it is written.     *)
THEOREM SaysWhatIsMeant == Spec => []OutputRight
<1> DEFINE J == Inv /\ Says(meant, fmt) /\ (Undisputed => Saying)
<1>1. Init => J
  BY InitInv, SayingInit
<1>2. J /\ [Next]_vars => J'
  <2> SUFFICES ASSUME Inv, Says(meant, fmt), Undisputed => Saying, [Next]_vars
               PROVE  J'
    OBVIOUS
  <2>1. Inv'
    BY NextInv
  <2>2. Says(meant, fmt)' /\ (Undisputed' => Undisputed)
    BY CallStays, MeaningStays
  <2>3. ASSUME Undisputed' PROVE Saying'
    <3>1. Told /\ Saying
      BY <2>2, <2>3 DEF Told
    <3> QED BY <3>1, SayingNext
  <2> QED BY <2>1, <2>2, <2>3
<1>3. J => OutputRight
  <2> SUFFICES ASSUME Inv, Saying, pc = "returned", ~NoRoom
               PROVE  out = Said(meant, args)[Len(meant)]
    BY DEF OutputRight
  <2>1. \A k, j : ~In(k, j) /\ ~Back(k, j)
    BY DEF In, Back, Switching, Gathering
  <2>2. PICK k \in 0 .. Len(meant) : Between(k)
    BY <2>1 DEF Saying
  <2> QED BY <2>2 DEF Between
<1> QED BY <1>1, <1>2, <1>3, PTL DEF Spec
=============================================================================
