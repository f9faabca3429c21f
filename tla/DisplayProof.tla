---------------------------- MODULE DisplayProof ----------------------------
(***************************************************************************)
(* The users of the screen.  What the user sees is what readline()         *)
(* returns, for every screen and every buffer that fits on it; and what    *)
(* cons_putc() is given reaches the devices, whole and in order if they    *)
(* are in time, and the screen always, however long the text.              *)
(***************************************************************************)
EXTENDS Readline, ConsoleOutput, SequenceTheorems, WellFoundedInduction, TLAPS

-----------------------------------------------------------------------------
(* The size of the screen, and where a line starts.                        *)
LEMMA ScreenSize ==
  /\ CRT_SIZE \in Nat /\ CRT_COLS \in Nat
  /\ CRT_SIZE >= CRT_COLS + 1 /\ CRT_COLS >= 1
  BY ScreenAssumption DEF CRT_SIZE

LEMMA StartOfLine ==
  ASSUME NEW p \in Nat
  PROVE  LineStart(p) \in 0 .. p /\ LineStart(p) > p - CRT_COLS
<1>1. p % CRT_COLS \in 0 .. CRT_COLS - 1
  BY ScreenAssumption
<1>2. p % CRT_COLS <= p
  BY ScreenAssumption
<1> QED BY <1>1, <1>2, ScreenAssumption DEF LineStart

-----------------------------------------------------------------------------
(* A character leaves the cursor inside the screen and cells that hold     *)
(* characters: cga_putc() never writes outside crt_buf.                    *)
LEMMA ScrollType ==
  ASSUME NEW s \in [pos : 0 .. CRT_SIZE + CRT_COLS - 1, cells : [Cells -> Char]]
  PROVE  Scroll(s) \in Screens
<1>1. CASE s.pos < CRT_SIZE
  BY <1>1, ScreenSize DEF Scroll, Screens, Cells
<1>2. CASE ~(s.pos < CRT_SIZE)
  <2> DEFINE up == [p \in Cells |-> IF p < CRT_SIZE - CRT_COLS
                                    THEN s.cells[p + CRT_COLS] ELSE Blank]
  <2>1. \A p \in Cells : p < CRT_SIZE - CRT_COLS => p + CRT_COLS \in Cells
    BY ScreenSize DEF Cells
  <2>2. Blank \in Char
    BY DEF Blank, Char
  <2>3. up \in [Cells -> Char]
    BY <2>1, <2>2
  <2>4. s.pos - CRT_COLS \in Cells
    BY <1>2, ScreenSize DEF Cells
  <2> QED BY <1>2, <2>3, <2>4 DEF Scroll, Screens
<1> QED BY <1>1, <1>2

LEMMA WriteType ==
  ASSUME NEW s \in Screens, NEW c \in Char
  PROVE  Write(s, c) \in [pos : 0 .. CRT_SIZE + CRT_COLS - 1, cells : [Cells -> Char]]
<1>1. s.pos \in Cells /\ s.cells \in [Cells -> Char]
  BY DEF Screens
<1>2. Blank \in Char
  BY DEF Blank, Char
<1>3. CASE c = BS
  <2>1. s.pos - 1 \in 0 .. CRT_SIZE + CRT_COLS - 1 \/ ~(s.pos > 0)
    BY <1>1, ScreenSize DEF Cells
  <2>2. s.pos \in 0 .. CRT_SIZE + CRT_COLS - 1 /\ s = [pos |-> s.pos, cells |-> s.cells]
    BY <1>1, ScreenSize DEF Cells, Screens
  <2>3. [s.cells EXCEPT ![s.pos - 1] = Blank] \in [Cells -> Char]
    BY <1>1, <1>2
  <2> QED BY <1>1, <1>3, <2>1, <2>2, <2>3 DEF Write
<1>4. CASE c = Newline
  <2>1. LineStart(s.pos + CRT_COLS) \in 0 .. CRT_SIZE + CRT_COLS - 1
    <3>1. s.pos + CRT_COLS \in Nat /\ s.pos + CRT_COLS <= CRT_SIZE + CRT_COLS - 1
      BY <1>1, ScreenSize DEF Cells
    <3>2. LineStart(s.pos + CRT_COLS) \in 0 .. s.pos + CRT_COLS
      BY <3>1, StartOfLine
    <3> QED BY <3>1, <3>2, ScreenSize
  <2>2. Write(s, c) = [s EXCEPT !.pos = LineStart(s.pos + CRT_COLS)]
    BY <1>4 DEF Write, BS, Newline
  <2> QED BY <2>1, <2>2 DEF Screens
<1>5. CASE c = Return
  <2>1. LineStart(s.pos) \in 0 .. CRT_SIZE + CRT_COLS - 1
    <3>1. s.pos \in Nat /\ s.pos <= CRT_SIZE + CRT_COLS - 1
      BY <1>1, ScreenSize DEF Cells
    <3>2. LineStart(s.pos) \in 0 .. s.pos
      BY <3>1, StartOfLine
    <3> QED BY <3>1, <3>2, ScreenSize
  <2>2. Write(s, c) = [s EXCEPT !.pos = LineStart(s.pos)]
    BY <1>5 DEF Write, BS, Newline, Return
  <2> QED BY <2>1, <2>2 DEF Screens
<1>6. CASE c \notin {BS, Newline, Return}
  BY <1>1, <1>6, ScreenSize DEF Write, Cells
<1> QED BY <1>3, <1>4, <1>5, <1>6

LEMMA PutType ==
  ASSUME NEW s \in Screens, NEW c \in Char
  PROVE  CgaPut(s, c) \in Screens
  BY WriteType, ScrollType DEF CgaPut

(* What the echo of an ordinary character and of a backspace do to the     *)
(* cells before the cursor.                                                *)
LEMMA PutOrdinary ==
  ASSUME NEW s \in Screens, NEW c \in Char, c >= Blank, NEW n \in Nat,
         n <= s.pos, n + 1 <= CRT_SIZE - CRT_COLS
  PROVE  LET t == CgaPut(s, c)
         IN  /\ n + 1 <= t.pos
             /\ t.cells[t.pos - 1] = c
             /\ \A k \in 0 .. n - 1 :
                  t.cells[t.pos - (n + 1) + k] = s.cells[s.pos - n + k]
<1> DEFINE w == [pos |-> s.pos + 1, cells |-> [s.cells EXCEPT ![s.pos] = c]]
<1>0. s.pos \in Cells /\ s.cells \in [Cells -> Char]
  BY DEF Screens
<1>1. CgaPut(s, c) = Scroll(w)
  <2>1. c \notin {BS, Newline, Return}
    BY DEF Blank, BS, Newline, Return, Char
  <2>2. Write(s, c) = w
    BY <2>1 DEF Write
  <2> QED BY <2>2 DEF CgaPut
<1>2. CASE s.pos + 1 < CRT_SIZE
  <2>1. CgaPut(s, c) = w
    BY <1>1, <1>2 DEF Scroll
  <2>2. w.pos = s.pos + 1 /\ w.cells[s.pos] = c
        /\ \A p \in 0 .. s.pos - 1 : w.cells[p] = s.cells[p]
    BY <1>0, ScreenSize DEF Cells
  <2>3. s.pos \in Nat
    BY <1>0, ScreenSize DEF Cells
  <2>4. \A k \in 0 .. n - 1 : /\ s.pos - n + k \in 0 .. s.pos - 1
                              /\ s.pos + 1 - (n + 1) + k = s.pos - n + k
    BY <2>3
  <2> HIDE DEF w
  <2>5. w.pos - 1 = s.pos /\ n + 1 <= w.pos
    BY <2>2, <2>3
  <2>6. \A k \in 0 .. n - 1 : w.cells[w.pos - (n + 1) + k] = s.cells[s.pos - n + k]
    <3> TAKE k \in 0 .. n - 1
    <3>1. w.pos - (n + 1) + k = s.pos - n + k
      BY <2>2, <2>3
    <3> QED BY <2>2, <2>4, <3>1
  <2> QED BY <2>1, <2>2, <2>5, <2>6
<1>3. CASE ~(s.pos + 1 < CRT_SIZE)
  <2> DEFINE up == [p \in Cells |-> IF p < CRT_SIZE - CRT_COLS
                                    THEN w.cells[p + CRT_COLS] ELSE Blank]
  <2>1. s.pos = CRT_SIZE - 1
    BY <1>0, <1>3, ScreenSize DEF Cells
  <2>2. CgaPut(s, c) = [pos |-> CRT_SIZE - CRT_COLS, cells |-> up]
    BY <1>1, <2>1, ScreenSize DEF Scroll
  <2>3. \A p \in 0 .. CRT_SIZE - CRT_COLS - 1 :
          up[p] = IF p + CRT_COLS = s.pos THEN c ELSE s.cells[p + CRT_COLS]
    BY <1>0, <2>1, ScreenSize DEF Cells
  <2> HIDE DEF up
  <2>4. up[CRT_SIZE - CRT_COLS - 1] = c
    BY <2>1, <2>3, ScreenSize
  <2>5. \A k \in 0 .. n - 1 :
          up[CRT_SIZE - CRT_COLS - (n + 1) + k] = s.cells[s.pos - n + k]
    <3> TAKE k \in 0 .. n - 1
    <3> DEFINE p == CRT_SIZE - CRT_COLS - (n + 1) + k
    <3>1. p \in 0 .. CRT_SIZE - CRT_COLS - 1 /\ p + CRT_COLS # s.pos
          /\ p + CRT_COLS = s.pos - n + k
      BY <2>1, ScreenSize
    <3> QED BY <2>3, <3>1
  <2> QED BY <2>2, <2>4, <2>5
<1> QED BY <1>2, <1>3

LEMMA PutBackspace ==
  ASSUME NEW s \in Screens, s.pos > 0
  PROVE  LET t == CgaPut(s, BS)
         IN  /\ t.pos = s.pos - 1
             /\ \A p \in 0 .. s.pos - 2 : t.cells[p] = s.cells[p]
<1>0. s.pos \in Cells /\ s.cells \in [Cells -> Char]
  BY DEF Screens
<1> DEFINE w == [pos |-> s.pos - 1, cells |-> [s.cells EXCEPT ![s.pos - 1] = Blank]]
<1>1. Write(s, BS) = w
  BY DEF Write
<1>2. w.pos < CRT_SIZE
  BY <1>0, ScreenSize DEF Cells
<1>3. CgaPut(s, BS) = w
  <2> HIDE DEF w
  <2> QED BY <1>1, <1>2 DEF CgaPut, Scroll
<1>4. \A p \in 0 .. s.pos - 2 : w.cells[p] = s.cells[p]
  BY <1>0, ScreenSize DEF Cells
<1> QED BY <1>3, <1>4

-----------------------------------------------------------------------------
ReadlineInv == TypeOK /\ LineEchoed /\ LineReturned

LEMMA StoreStep ==
  ASSUME ReadlineInv, pc = "reading", NEW c \in Typed, Store(c), kept' = Edited(kept, c)
  PROVE  ReadlineInv'
<1> USE DEF ReadlineInv
<1>0. /\ scr \in Screens /\ buf \in [0 .. BUFLEN - 1 -> Char]
      /\ i \in Nat /\ i + 1 <= BUFLEN - 1
      /\ c \in Char /\ c >= Blank
      /\ scr' = CgaPut(scr, c) /\ buf' = [buf EXCEPT ![i] = c] /\ i' = i + 1
      /\ pc' = "reading"
  BY TypedAssumption, BuflenAssumption DEF TypeOK, Store, Char
<1>4. /\ kept \in Seq(Char) /\ Len(kept) = i
      /\ \A k \in 0 .. i - 1 : buf[k] = kept[k + 1] /\ buf[k] >= Blank
  BY DEF TypeOK, LineReturned
<1>5. kept' = Append(kept, c)
  <2>1. ~(c \in {BS, Delete} /\ kept # << >>)
    <3>1. kept # << >> => i > 0
      BY <1>0, <1>4, EmptySeq
    <3> QED BY <3>1 DEF Store, Erases
  <2> QED BY <1>0, <1>4, <2>1, BuflenAssumption DEF Edited
<1>1. TypeOK'
  <2>1. scr' \in Screens
    BY <1>0, PutType
  <2>2. kept' \in Seq(Char)
    BY <1>0, <1>4, <1>5
  <2> QED BY <1>0, <2>1, <2>2, BuflenAssumption DEF TypeOK
<1>2. LineEchoed'
  <2>1. i <= scr.pos /\ \A k \in 0 .. i - 1 : scr.cells[scr.pos - i + k] = buf[k]
    BY DEF LineEchoed
  <2>2. i + 1 <= CRT_SIZE - CRT_COLS
    BY <1>0, BuflenAssumption, ScreenSize
  <2>3. /\ i + 1 <= scr'.pos
        /\ scr'.cells[scr'.pos - 1] = c
        /\ \A k \in 0 .. i - 1 :
             scr'.cells[scr'.pos - (i + 1) + k] = scr.cells[scr.pos - i + k]
    BY <1>0, <2>1, <2>2, PutOrdinary
  <2>4. scr'.pos \in Nat
    BY <1>1, ScreenSize DEF TypeOK, Screens, Cells
  <2>5. ASSUME NEW k \in 0 .. i
        PROVE  scr'.cells[scr'.pos - i' + k] = buf'[k]
    <3>1. CASE k = i
      <4>1. scr'.pos - i' + k = scr'.pos - 1
        BY <3>1, <1>0, <2>4
      <4> QED BY <4>1, <3>1, <1>0, <2>3, BuflenAssumption
    <3>2. CASE k # i
      <4>1. buf'[k] = buf[k]
        BY <3>2, <1>0, BuflenAssumption
      <4>2. k \in 0 .. i - 1
        BY <3>2, <1>0
      <4> QED BY <4>1, <4>2, <1>0, <2>1, <2>3
    <3> QED BY <3>1, <3>2
  <2> QED BY <1>0, <2>3, <2>5 DEF LineEchoed
<1>3. LineReturned'
  <2>1. /\ Len(kept') = i + 1 /\ kept'[i + 1] = c
        /\ \A k \in 0 .. i - 1 : kept'[k + 1] = kept[k + 1]
    BY <1>4, <1>5
  <2>2. \A k \in 0 .. i : buf'[k] = kept'[k + 1] /\ buf'[k] >= Blank
    BY <1>0, <1>4, <2>1, BuflenAssumption
  <2> QED BY <1>0, <2>1, <2>2 DEF LineReturned
<1> QED BY <1>1, <1>2, <1>3

LEMMA EraseStep ==
  ASSUME ReadlineInv, pc = "reading", NEW c \in Typed, Erase(c), kept' = Edited(kept, c)
  PROVE  ReadlineInv'
<1> USE DEF ReadlineInv
<1>0. /\ scr \in Screens /\ scr.pos \in Nat /\ i \in Nat /\ i > 0
      /\ BS \in Char
      /\ scr' = CgaPut(scr, BS) /\ buf' = buf /\ i' = i - 1 /\ pc' = "reading"
  BY ScreenSize, BuflenAssumption DEF TypeOK, Erase, Erases, Screens, Cells, Char, BS
<1>4. /\ kept \in Seq(Char) /\ Len(kept) = i
      /\ \A k \in 0 .. i - 1 : buf[k] = kept[k + 1] /\ buf[k] >= Blank
  BY DEF TypeOK, LineReturned
<1>5. kept' = SubSeq(kept, 1, i - 1)
  <2>1. c \in {BS, Delete} /\ kept # << >>
    BY <1>0, <1>4, EmptySeq DEF Erase, Erases
  <2> QED BY <1>4, <2>1 DEF Edited
<1>6. /\ kept' \in Seq(Char) /\ Len(kept') = i - 1
      /\ \A k \in 0 .. i - 2 : kept'[k + 1] = kept[k + 1]
  BY <1>0, <1>4, <1>5
<1>1. TypeOK'
  <2>1. scr' \in Screens
    BY <1>0, PutType
  <2> QED BY <1>0, <1>6, <2>1, BuflenAssumption DEF TypeOK
<1>2. LineEchoed'
  <2>1. i <= scr.pos /\ \A k \in 0 .. i - 1 : scr.cells[scr.pos - i + k] = buf[k]
    BY DEF LineEchoed
  <2>2. /\ scr'.pos = scr.pos - 1
        /\ \A p \in 0 .. scr.pos - 2 : scr'.cells[p] = scr.cells[p]
    BY <1>0, <2>1, PutBackspace
  <2>3. ASSUME NEW k \in 0 .. i - 2
        PROVE  scr'.cells[scr'.pos - i' + k] = buf'[k]
    <3>1. scr'.pos - i' + k = scr.pos - i + k /\ scr.pos - i + k \in 0 .. scr.pos - 2
      BY <1>0, <2>1, <2>2
    <3>2. k \in 0 .. i - 1
      BY <1>0
    <3> QED BY <1>0, <2>1, <2>2, <3>1, <3>2
  <2> QED BY <1>0, <2>1, <2>2, <2>3 DEF LineEchoed
<1>3. LineReturned'
  <2>1. \A k \in 0 .. i - 2 : buf'[k] = kept'[k + 1] /\ buf'[k] >= Blank
    BY <1>0, <1>4, <1>6
  <2> QED BY <1>0, <1>6, <2>1 DEF LineReturned
<1> QED BY <1>1, <1>2, <1>3

(* The inductive invariant. *)
LEMMA ReadlineInvariant == Spec => []ReadlineInv
<1>1. Init => ReadlineInv
  <2> SUFFICES ASSUME Init PROVE ReadlineInv
    OBVIOUS
  <2>1. PICK p \in Cells : scr = StartScreen(p)
    BY DEF Init
  <2>2. scr \in Screens
    BY <2>1 DEF StartScreen, Screens, Char, Blank
  <2>3. 0 \in Char
    BY DEF Char
  <2> QED BY <2>2, <2>3, BuflenAssumption
          DEF Init, ReadlineInv, TypeOK, LineEchoed, LineReturned
<1>2. ReadlineInv /\ [Next]_vars => ReadlineInv'
  <2> SUFFICES ASSUME ReadlineInv, [Next]_vars
               PROVE  ReadlineInv'
    OBVIOUS
  <2> USE DEF ReadlineInv
  <2>1. CASE Cprintf
    <3>1. scr' \in Screens
      BY <2>1, PutType, TypedAssumption DEF Cprintf, TypeOK
    <3> QED BY <2>1, <3>1 DEF Cprintf, TypeOK, LineEchoed, LineReturned
  <2>2. CASE Call
    <3>1. scr.pos \in Nat
      BY ScreenSize DEF TypeOK, Screens, Cells
    <3> QED BY <2>2, <3>1, BuflenAssumption DEF Call, TypeOK, LineEchoed, LineReturned
  <2>3. ASSUME NEW c \in Typed, Key(c)
        PROVE  ReadlineInv'
    <3>0. pc = "reading" /\ kept' = Edited(kept, c) /\ kept \in Seq(Char) /\ Len(kept) = i
      BY <2>3 DEF Key, TypeOK, LineReturned
    <3>1. CASE Enter(c)
      <4>1. scr' \in Screens
        BY <3>1, PutType DEF Enter, TypeOK, Newline, Char
      <4>2. 0 \in Char
        BY DEF Char
      <4>3. kept' = kept
        BY <3>0, <3>1 DEF Enter, Edited, Newline, Return, BS, Delete, Blank
      <4>4. /\ buf' = [buf EXCEPT ![i] = 0] /\ i' = i /\ pc' = "returned"
            /\ i \in 0 .. BUFLEN - 1 /\ buf \in [0 .. BUFLEN - 1 -> Char]
        BY <3>1 DEF Enter, TypeOK
      <4>5. LineReturned'
        BY <3>0, <4>3, <4>4 DEF LineReturned
      <4> QED BY <3>0, <4>1, <4>2, <4>3, <4>4, <4>5, BuflenAssumption DEF TypeOK, LineEchoed
    <3>2. CASE Ignore(c)
      <4>1. kept' = kept
        <5>1. kept # << >> => i > 0
          BY <3>0, EmptySeq
        <5>2. i \in Int /\ BUFLEN \in Int /\ c \in Int /\ Blank \in Int
          BY TypedAssumption, BuflenAssumption DEF TypeOK, Blank
        <5>3. ~(c \in {BS, Delete} /\ kept # << >>)
          BY <3>2, <5>1 DEF Ignore, Erases
        <5>4. ~(c >= Blank /\ Len(kept) < BUFLEN - 1)
          BY <3>0, <3>2, <5>2 DEF Ignore
        <5> QED BY <3>0, <5>3, <5>4 DEF Edited
      <4> QED BY <3>2, <4>1 DEF Ignore, editor, TypeOK, LineEchoed, LineReturned
    <3> QED BY <2>3, <3>1, <3>2, StoreStep, EraseStep DEF Key
  <2>4. CASE UNCHANGED vars
    BY <2>4 DEF vars, editor, TypeOK, LineEchoed, LineReturned
  <2> QED BY <2>1, <2>2, <2>3, <2>4 DEF Next
<1> QED BY <1>1, <1>2, PTL DEF Spec

(* The cursor and the index into the line stay inside their arrays.        *)
THEOREM TypeCorrect == Spec => []TypeOK
  BY ReadlineInvariant, PTL DEF ReadlineInv

(* The cells before the cursor show the line that will be returned.        *)
THEOREM EchoIsLine == Spec => []LineEchoed
  BY ReadlineInvariant, PTL DEF ReadlineInv

(* What readline() returns is what was typed less what was erased, without *)
(* control characters, and terminated.                                     *)
THEOREM ReturnsLine == Spec => []LineReturned
  BY ReadlineInvariant, PTL DEF ReadlineInv

-----------------------------------------------------------------------------
(* The cells before the line: the echo of a character leaves them where    *)
(* they are, or moves them and the line up by a row.                       *)
LEMMA PutOrdinaryAbove ==
  ASSUME NEW s \in Screens, NEW c \in Char, c >= Blank, NEW n \in Nat, n <= s.pos
  PROVE  \E up \in {0, CRT_COLS} :
           /\ CgaPut(s, c).pos - (n + 1) = s.pos - n - up
           /\ \A p \in 0 .. s.pos - n - up - 1 : CgaPut(s, c).cells[p] = s.cells[p + up]
<1> DEFINE w == [pos |-> s.pos + 1, cells |-> [s.cells EXCEPT ![s.pos] = c]]
<1>0. s.pos \in Cells /\ s.pos \in Nat /\ s.cells \in [Cells -> Char]
  BY ScreenSize DEF Screens, Cells
<1>1. CgaPut(s, c) = Scroll(w)
  <2>1. c \notin {BS, Newline, Return}
    BY DEF Blank, BS, Newline, Return, Char
  <2>2. Write(s, c) = w
    BY <2>1 DEF Write
  <2> QED BY <2>2 DEF CgaPut
<1>2. CASE s.pos + 1 < CRT_SIZE
  <2>1. CgaPut(s, c) = w
    BY <1>1, <1>2 DEF Scroll
  <2>2. /\ w.pos = s.pos + 1
        /\ \A p \in 0 .. s.pos - n - 0 - 1 : w.cells[p] = s.cells[p + 0]
    BY <1>0, ScreenSize DEF Cells
  <2> HIDE DEF w
  <2>3. w.pos - (n + 1) = s.pos - n - 0
    BY <1>0, <2>2
  <2> QED BY <2>1, <2>2, <2>3
<1>3. CASE ~(s.pos + 1 < CRT_SIZE)
  <2> DEFINE cells == [p \in Cells |-> IF p < CRT_SIZE - CRT_COLS
                                       THEN w.cells[p + CRT_COLS] ELSE Blank]
  <2>1. s.pos = CRT_SIZE - 1
    BY <1>0, <1>3, ScreenSize DEF Cells
  <2>2. CgaPut(s, c) = [pos |-> CRT_SIZE - CRT_COLS, cells |-> cells]
    BY <1>1, <2>1, ScreenSize DEF Scroll
  <2>3. \A p \in 0 .. CRT_SIZE - CRT_COLS - 1 :
          p + CRT_COLS # s.pos => cells[p] = s.cells[p + CRT_COLS]
    BY <1>0, <2>1, ScreenSize DEF Cells
  <2> HIDE DEF cells
  <2>4. CgaPut(s, c).pos - (n + 1) = s.pos - n - CRT_COLS
    BY <2>1, <2>2, ScreenSize
  <2>5. ASSUME NEW p \in 0 .. s.pos - n - CRT_COLS - 1
        PROVE  CgaPut(s, c).cells[p] = s.cells[p + CRT_COLS]
    <3>1. p \in 0 .. CRT_SIZE - CRT_COLS - 1 /\ p + CRT_COLS # s.pos
      BY <2>1, ScreenSize
    <3> QED BY <2>2, <2>3, <3>1
  <2> QED BY <2>4, <2>5
<1> QED BY <1>2, <1>3

LEMMA StoreKeepsRest ==
  ASSUME ReadlineInv, pc = "reading", NEW c \in Typed, Store(c)
  PROVE  \E up \in {0, CRT_COLS} :
           /\ FirstCell' = FirstCell - up
           /\ \A p \in 0 .. FirstCell' - 1 : scr'.cells[p] = scr.cells[p + up]
<1>1. /\ scr \in Screens /\ i \in Nat /\ c \in Char /\ c >= Blank
      /\ scr' = CgaPut(scr, c) /\ i' = i + 1
      /\ i <= scr.pos
  BY TypedAssumption, BuflenAssumption DEF ReadlineInv, TypeOK, LineEchoed, Store, Char
<1>2. PICK up \in {0, CRT_COLS} :
        /\ scr'.pos - (i + 1) = scr.pos - i - up
        /\ \A p \in 0 .. scr.pos - i - up - 1 : scr'.cells[p] = scr.cells[p + up]
  BY <1>1, PutOrdinaryAbove
<1>3. FirstCell' = FirstCell - up
  BY <1>1, <1>2 DEF FirstCell
<1>4. FirstCell' = scr.pos - i - up
  BY <1>3 DEF FirstCell
<1> QED BY <1>2, <1>3, <1>4

LEMMA EraseKeepsRest ==
  ASSUME ReadlineInv, pc = "reading", NEW c \in Typed, Erase(c)
  PROVE  \E up \in {0, CRT_COLS} :
           /\ FirstCell' = FirstCell - up
           /\ \A p \in 0 .. FirstCell' - 1 : scr'.cells[p] = scr.cells[p + up]
<1>1. /\ scr \in Screens /\ scr.pos \in Nat /\ i \in Nat /\ i > 0 /\ i <= scr.pos
      /\ scr' = CgaPut(scr, BS) /\ i' = i - 1
  BY ScreenSize, BuflenAssumption
     DEF ReadlineInv, TypeOK, LineEchoed, Erase, Erases, Screens, Cells
<1>2. /\ scr'.pos = scr.pos - 1
      /\ \A p \in 0 .. scr.pos - 2 : scr'.cells[p] = scr.cells[p]
  BY <1>1, PutBackspace
<1>3. FirstCell' = FirstCell - 0 /\ FirstCell' = scr.pos - i
  BY <1>1, <1>2 DEF FirstCell
<1>4. ASSUME NEW p \in 0 .. FirstCell' - 1
      PROVE  scr'.cells[p] = scr.cells[p + 0]
  <2>1. p \in 0 .. scr.pos - 2 /\ p + 0 = p
    BY <1>1, <1>3
  <2> QED BY <1>2, <2>1
<1> QED BY <1>3, <1>4

(* Editing a line never changes what was on the screen before it.          *)
THEOREM EditsOnlyItsLine == Spec => RestUntouched
<1> DEFINE Kept == \E up \in {0, CRT_COLS} :
                     /\ FirstCell' = FirstCell - up
                     /\ \A p \in 0 .. FirstCell' - 1 : scr'.cells[p] = scr.cells[p + up]
           Step == pc = "reading" /\ pc' = "reading" => Kept
<1>1. ReadlineInv /\ [Next]_vars => [Step]_vars
  <2> SUFFICES ASSUME ReadlineInv, Next, pc = "reading", pc' = "reading"
               PROVE  Kept
    BY DEF vars, editor
  <2>1. PICK c \in Typed : Key(c)
    BY DEF Next, Cprintf, Call
  <2>2. CASE Store(c)
    BY <2>2, StoreKeepsRest
  <2>3. CASE Erase(c)
    BY <2>3, EraseKeepsRest
  <2>4. CASE Enter(c)
    BY <2>4 DEF Enter
  <2>5. CASE Ignore(c)
    <3>1. scr' = scr /\ i' = i /\ scr.pos \in Nat /\ i \in Nat
      BY <2>5, ScreenSize, BuflenAssumption
         DEF Ignore, editor, ReadlineInv, TypeOK, Screens, Cells
    <3>2. FirstCell' = FirstCell - 0
      BY <3>1 DEF FirstCell
    <3>3. ASSUME NEW p \in 0 .. FirstCell' - 1
          PROVE  scr'.cells[p] = scr.cells[p + 0]
      <4>1. p + 0 = p
        OBVIOUS
      <4> QED BY <3>1, <4>1
    <3> QED BY <3>2, <3>3
  <2> QED BY <2>1, <2>2, <2>3, <2>4, <2>5 DEF Key
<1> QED BY ReadlineInvariant, <1>1, PTL DEF Spec, RestUntouched

-----------------------------------------------------------------------------
(***************************************************************************)
(* Console output.  First induction, and what it says about FoldLeft.      *)
(***************************************************************************)
LEMMA Least ==
  ASSUME NEW T, T \subseteq Nat, T # {}
  PROVE  \E m \in T : \A o \in T : m <= o
<1> DEFINE R == {p \in Nat \X Nat : p[1] < p[2]}
<1>1. IsWellFoundedOn(R, Nat)
  BY NatLessThanWellFounded, Zenon DEF OpToRel
<1>2. \A m, o \in T : m <= o \/ << o, m >> \in R
  OBVIOUS
<1> HIDE DEF R
<1>3. \E m \in T : \A o \in T : ~(<< o, m >> \in R)
  BY <1>1, WFMin
<1> QED BY <1>2, <1>3

LEMMA Counting ==
  ASSUME NEW H, 0 \in H, \A k \in Nat : k \in H => k + 1 \in H
  PROVE  Nat \subseteq H
<1> SUFFICES ASSUME Nat \ H # {} PROVE FALSE
  OBVIOUS
<1>1. PICK m \in Nat \ H : \A o \in Nat \ H : m <= o
  <2>1. Nat \ H \subseteq Nat
    OBVIOUS
  <2> QED BY <2>1, Least
<1>2. m - 1 \in Nat /\ m - 1 \in H /\ m = (m - 1) + 1
  BY <1>1
<1> QED BY <1>1, <1>2

(* What holds for the empty sequence and goes on from one element to the   *)
(* next holds for every sequence.                                          *)
LEMMA Extending ==
  ASSUME NEW C, NEW H, << >> \in H,
         \A t \in Seq(C) : \A c \in C : t \in H => Append(t, c) \in H
  PROVE  Seq(C) \subseteq H
<1> DEFINE N == {k \in Nat : \A t \in Seq(C) : Len(t) = k => t \in H}
<1>1. 0 \in N
  BY EmptySeq
<1>2. ASSUME NEW k \in Nat, k \in N
      PROVE  k + 1 \in N
  <2> SUFFICES ASSUME NEW t \in Seq(C), Len(t) = k + 1 PROVE t \in H
    OBVIOUS
  <2>1. t # << >>
    BY EmptySeq
  <2>2. PICK u \in Seq(C), c \in C : t = Append(u, c)
    BY <2>1, SequenceEmptyOrAppend
  <2>3. Len(u) = k
    BY <2>2, AppendProperties, LenProperties
  <2> QED BY <1>2, <2>2, <2>3
<1>3. Nat \subseteq N
  <2> HIDE DEF N
  <2>1. \A k \in Nat : k \in N => k + 1 \in N
    BY <1>2
  <2> QED BY <1>1, <2>1, Counting
<1>4. \A t \in Seq(C) : Len(t) \in Nat
  BY LenProperties
<1> QED BY <1>3, <1>4

-----------------------------------------------------------------------------
LEMMA Greatest ==
  ASSUME NEW k \in Nat, NEW s \in SUBSET (1 .. k + 1), k + 1 \in s
  PROVE  Max(s) = k + 1
<1>1. \A y \in s : k + 1 >= y
  OBVIOUS
<1>2. \A x \in s : (\A y \in s : x >= y) => x = k + 1
  <2> TAKE x \in s
  <2> HAVE \A y \in s : x >= y
  <2>1. x \in 1 .. k + 1 /\ x >= k + 1
    OBVIOUS
  <2> QED BY <2>1
<1> QED BY <1>1, <1>2 DEF Max

(* The function in the definition of the folds: op combines what the       *)
(* elements of t at the other places of s give with the last one of them.  *)
Folds(g, op, base, t, n) ==
  \A s \in SUBSET (1 .. n) :
    g[s] = IF s = {} THEN base ELSE op[<< g[s \ {Max(s)}], t[Max(s)] >>]

FoldsTo(S, op, base, t, n) == \E g \in [SUBSET (1 .. n) -> S] : Folds(g, op, base, t, n)

LEMMA FoldExists ==
  ASSUME NEW S, NEW C, NEW base \in S, NEW op \in [S \X C -> S], NEW t \in Seq(C)
  PROVE  FoldsTo(S, op, base, t, Len(t))
<1> DEFINE H == {k \in Nat : k <= Len(t) => FoldsTo(S, op, base, t, k)}
<1>0. Len(t) \in Nat
  BY LenProperties
<1>1. 0 \in H
  <2>1. \A s \in SUBSET (1 .. 0) : s = {}
    OBVIOUS
  <2>2. [s \in SUBSET (1 .. 0) |-> base] \in [SUBSET (1 .. 0) -> S]
    OBVIOUS
  <2>3. Folds([s \in SUBSET (1 .. 0) |-> base], op, base, t, 0)
    BY <2>1 DEF Folds
  <2>4. FoldsTo(S, op, base, t, 0)
    BY <2>2, <2>3 DEF FoldsTo
  <2> QED BY <2>4
<1>2. ASSUME NEW k \in Nat, k \in H
      PROVE  k + 1 \in H
  <2> SUFFICES ASSUME k + 1 <= Len(t)
               PROVE  FoldsTo(S, op, base, t, k + 1)
    OBVIOUS
  <2>0. FoldsTo(S, op, base, t, k)
    BY <1>0, <1>2
  <2>1. PICK g \in [SUBSET (1 .. k) -> S] : Folds(g, op, base, t, k)
    BY <2>0 DEF FoldsTo
  <2> DEFINE h == [s \in SUBSET (1 .. k + 1) |->
                     IF k + 1 \in s THEN op[<< g[s \ {k + 1}], t[k + 1] >>] ELSE g[s]]
  <2>2. t[k + 1] \in C
    BY <1>0, ElementOfSeq
  <2>3. ASSUME NEW s \in SUBSET (1 .. k + 1)
        PROVE  s \ {k + 1} \in SUBSET (1 .. k)
    OBVIOUS
  <2>4. ASSUME NEW s \in SUBSET (1 .. k + 1)
        PROVE  (IF k + 1 \in s THEN op[<< g[s \ {k + 1}], t[k + 1] >>] ELSE g[s]) \in S
    <3>1. CASE k + 1 \in s
      <4>1. << g[s \ {k + 1}], t[k + 1] >> \in S \X C
        BY <2>1, <2>2, <2>3
      <4> QED BY <3>1, <4>1
    <3>2. CASE k + 1 \notin s
      <4>1. s \in SUBSET (1 .. k)
        BY <3>2
      <4> QED BY <3>2, <4>1, <2>1
    <3> QED BY <3>1, <3>2
  <2>5. h \in [SUBSET (1 .. k + 1) -> S]
    BY <2>4
  <2>6. ASSUME NEW s \in SUBSET (1 .. k + 1)
        PROVE  h[s] = IF s = {} THEN base ELSE op[<< h[s \ {Max(s)}], t[Max(s)] >>]
    <3>1. CASE k + 1 \in s
      <4>1. Max(s) = k + 1
        BY <3>1, Greatest
      <4>2. s \ {k + 1} \in SUBSET (1 .. k + 1) /\ k + 1 \notin s \ {k + 1}
        OBVIOUS
      <4>3. h[s \ {k + 1}] = g[s \ {k + 1}]
        BY <4>2
      <4>4. h[s] = op[<< g[s \ {k + 1}], t[k + 1] >>]
        BY <3>1
      <4> HIDE DEF h
      <4> QED BY <3>1, <4>1, <4>3, <4>4
    <3>2. CASE k + 1 \notin s
      <4>0. s \ {k + 1} = s
        BY <3>2
      <4>1. s \in SUBSET (1 .. k) /\ s \ {Max(s)} \in SUBSET (1 .. k)
        BY <2>3, <4>0
      <4>2. s \ {Max(s)} \in SUBSET (1 .. k + 1) /\ k + 1 \notin s \ {Max(s)}
        BY <4>1
      <4>3. h[s] = g[s] /\ h[s \ {Max(s)}] = g[s \ {Max(s)}]
        BY <3>2, <4>2
      <4> HIDE DEF h
      <4> QED BY <2>1, <4>1, <4>3 DEF Folds
    <3> QED BY <3>1, <3>2
  <2> HIDE DEF h
  <2>7. Folds(h, op, base, t, k + 1)
    BY <2>6 DEF Folds
  <2> QED BY <2>5, <2>7 DEF FoldsTo
<1>3. Len(t) \in H
  <2> HIDE DEF H
  <2>1. \A k \in Nat : k \in H => k + 1 \in H
    BY <1>2
  <2> QED BY <1>0, <1>1, <2>1, Counting
<1> QED BY <1>0, <1>3

(* Folding op over t, one element after the other.                         *)
Foldable(S, C, op, base) == base \in S /\ op \in [S \X C -> S]

FoldFn(S, op, base, t) ==
  CHOOSE g \in [SUBSET (1 .. Len(t)) -> S] : Folds(g, op, base, t, Len(t))

Folding(S, op, base, t) == FoldFn(S, op, base, t)[1 .. Len(t)]

LEMMA FoldFnFolds ==
  ASSUME NEW S, NEW C, NEW base, NEW op, Foldable(S, C, op, base), NEW t \in Seq(C)
  PROVE  /\ FoldFn(S, op, base, t) \in [SUBSET (1 .. Len(t)) -> S]
         /\ Folds(FoldFn(S, op, base, t), op, base, t, Len(t))
<1>1. FoldsTo(S, op, base, t, Len(t))
  BY FoldExists DEF Foldable
<1> QED BY <1>1 DEF FoldsTo, FoldFn

(* One step of a function that obeys the definition of a fold.             *)
Steps(g, op, base, t, n) ==
  /\ g[1 .. 0] = base
  /\ \A k \in 0 .. n - 1 : g[1 .. k + 1] = op[<< g[1 .. k], t[k + 1] >>]

LEMMA Interval ==
  ASSUME NEW k \in Nat
  PROVE  /\ 1 .. k + 1 \in SUBSET (1 .. k + 1) /\ 1 .. k + 1 # {}
         /\ Max(1 .. k + 1) = k + 1
         /\ (1 .. k + 1) \ {k + 1} = 1 .. k
<1>1. 1 .. k + 1 \in SUBSET (1 .. k + 1) /\ k + 1 \in 1 .. k + 1
  OBVIOUS
<1>2. Max(1 .. k + 1) = k + 1
  BY <1>1, Greatest
<1>3. ASSUME NEW j
      PROVE  j \in (1 .. k + 1) \ {k + 1} <=> j \in 1 .. k
  OBVIOUS
<1> QED BY <1>1, <1>2, <1>3

LEMMA MaxInside ==
  ASSUME NEW k \in Nat, NEW s \in SUBSET (1 .. k), s # {}
  PROVE  Max(s) \in s
<1> DEFINE T == {j \in Nat : \A y \in s : y <= j}
<1>1. k \in T
  OBVIOUS
<1>2. PICK m \in T : \A o \in T : m <= o
  <2>1. T \subseteq Nat /\ T # {}
    BY <1>1
  <2> HIDE DEF T
  <2> QED BY <2>1, Least
<1>3. m \in s
  <2> SUFFICES ASSUME m \notin s PROVE FALSE
    OBVIOUS
  <2>1. PICK y \in s : TRUE
    OBVIOUS
  <2>2. m - 1 \in Nat
    BY <2>1
  <2>3. \A z \in s : z <= m - 1
    OBVIOUS
  <2>4. m - 1 \in T
    BY <2>2, <2>3
  <2> QED BY <1>2, <2>2, <2>4
<1>4. \A y \in s : m >= y
  OBVIOUS
<1> QED BY <1>3, <1>4 DEF Max

LEMMA FoldSteps ==
  ASSUME NEW op, NEW base, NEW t, NEW n \in Nat, NEW g, Folds(g, op, base, t, n)
  PROVE  Steps(g, op, base, t, n)
<1>1. 1 .. 0 = {} /\ 1 .. 0 \in SUBSET (1 .. n)
  OBVIOUS
<1>2. g[1 .. 0] = base
  BY <1>1 DEF Folds
<1>3. ASSUME NEW k \in 0 .. n - 1
      PROVE  g[1 .. k + 1] = op[<< g[1 .. k], t[k + 1] >>]
  <2>1. k \in Nat /\ 1 .. k + 1 \in SUBSET (1 .. n)
    OBVIOUS
  <2> QED BY <2>1, Interval, ZenonT(60) DEF Folds
<1> QED BY <1>2, <1>3 DEF Steps

(* Two such functions give the same, even if one of them has a longer      *)
(* sequence of which the other's is the beginning.                         *)
LEMMA SameFolds ==
  ASSUME NEW op, NEW base, NEW t, NEW u, NEW n \in Nat, NEW m \in Nat, n <= m,
         \A k \in 1 .. n : t[k] = u[k],
         NEW f, Folds(f, op, base, t, n), NEW g, Folds(g, op, base, u, m)
  PROVE  f[1 .. n] = g[1 .. n]
<1> DEFINE H == {k \in Nat : k <= n => f[1 .. k] = g[1 .. k]}
<1>0. Steps(f, op, base, t, n) /\ Steps(g, op, base, u, m)
  BY FoldSteps
<1>1. 0 \in H
  BY <1>0 DEF Steps
<1>2. ASSUME NEW k \in Nat, k \in H
      PROVE  k + 1 \in H
  <2> SUFFICES ASSUME k + 1 <= n PROVE f[1 .. k + 1] = g[1 .. k + 1]
    OBVIOUS
  <2>1. f[1 .. k] = g[1 .. k]
    BY <1>2
  <2>2. k \in 0 .. n - 1 /\ k \in 0 .. m - 1 /\ t[k + 1] = u[k + 1]
    OBVIOUS
  <2> QED BY <1>0, <2>1, <2>2 DEF Steps
<1>3. n \in H
  <2> HIDE DEF H
  <2>1. \A k \in Nat : k \in H => k + 1 \in H
    BY <1>2
  <2> QED BY <1>1, <2>1, Counting
<1> QED BY <1>3

LEMMA FoldEmpty ==
  ASSUME NEW S, NEW C, NEW base, NEW op, Foldable(S, C, op, base)
  PROVE  Folding(S, op, base, << >>) = base
<1> DEFINE g == FoldFn(S, op, base, << >>)
<1>1. << >> \in Seq(C) /\ Len(<< >>) = 0
  BY EmptySeq
<1>2. Folds(g, op, base, << >>, 0)
  BY <1>1, FoldFnFolds
<1>3. Steps(g, op, base, << >>, 0)
  BY <1>2, FoldSteps
<1> QED BY <1>1, <1>3 DEF Folding, Steps

LEMMA FoldAppend ==
  ASSUME NEW S, NEW C, NEW base, NEW op, Foldable(S, C, op, base),
         NEW t \in Seq(C), NEW c \in C
  PROVE  /\ Folding(S, op, base, t) \in S
         /\ Folding(S, op, base, Append(t, c)) = op[<< Folding(S, op, base, t), c >>]
<1> DEFINE u == Append(t, c)
           f == FoldFn(S, op, base, t)
           g == FoldFn(S, op, base, u)
<1>0. /\ Len(t) \in Nat /\ u \in Seq(C) /\ Len(u) = Len(t) + 1 /\ u[Len(t) + 1] = c
      /\ \A k \in 1 .. Len(t) : t[k] = u[k]
  BY LenProperties, AppendProperties
<1> HIDE DEF u
<1>1. f \in [SUBSET (1 .. Len(t)) -> S] /\ Folds(f, op, base, t, Len(t))
  BY FoldFnFolds
<1>2. Folds(g, op, base, u, Len(t) + 1)
  <2>1. Folds(g, op, base, u, Len(u))
    BY <1>0, FoldFnFolds
  <2> HIDE DEF g
  <2> QED BY <1>0, <2>1
<1>3. Folding(S, op, base, t) = f[1 .. Len(t)] /\ Folding(S, op, base, u) = g[1 .. Len(t) + 1]
  BY <1>0 DEF Folding
<1> HIDE DEF f, g
<1>4. f[1 .. Len(t)] = g[1 .. Len(t)]
  <2>1. Len(t) + 1 \in Nat /\ Len(t) <= Len(t) + 1
    BY <1>0
  <2> QED BY <1>0, <1>1, <1>2, <2>1, SameFolds
<1>5. g[1 .. Len(t) + 1] = op[<< g[1 .. Len(t)], u[Len(t) + 1] >>]
  <2>1. Len(t) + 1 \in Nat /\ Len(t) \in 0 .. Len(t) + 1 - 1
    BY <1>0
  <2>2. Steps(g, op, base, u, Len(t) + 1)
    BY <1>2, <2>1, FoldSteps
  <2> QED BY <2>1, <2>2 DEF Steps
<1>6. f[1 .. Len(t)] \in S
  <2>1. 1 .. Len(t) \in SUBSET (1 .. Len(t))
    OBVIOUS
  <2> QED BY <1>1, <2>1
<1> QED BY <1>0, <1>3, <1>4, <1>5, <1>6 DEF u

(***************************************************************************)
(* A function f that obeys the definition of FoldLeft wherever it stays in *)
(* S gives what Folding gives.                                                *)
(***************************************************************************)
Obeys(f, S, op, base, t) ==
  /\ f[{}] = base
  /\ \A s \in SUBSET (1 .. Len(t)) :
       s # {} /\ f[s \ {Max(s)}] \in S => f[s] = op[<< f[s \ {Max(s)}], t[Max(s)] >>]

LEMMA FoldOf ==
  ASSUME NEW S, NEW C, NEW base, NEW op, Foldable(S, C, op, base), NEW t \in Seq(C),
         NEW f, Obeys(f, S, op, base, t)
  PROVE  f[1 .. Len(t)] = Folding(S, op, base, t)
<1>0. Len(t) \in Nat
  BY LenProperties
<1> DEFINE g == FoldFn(S, op, base, t)
<1>1. g \in [SUBSET (1 .. Len(t)) -> S] /\ Folds(g, op, base, t, Len(t))
  BY FoldFnFolds
<1>2. Steps(g, op, base, t, Len(t))
  BY <1>0, <1>1, FoldSteps
<1>a. Folding(S, op, base, t) = g[1 .. Len(t)]
  BY DEF Folding
<1> HIDE DEF g
<1> DEFINE H == {k \in Nat : k <= Len(t) => f[1 .. k] = g[1 .. k]}
<1>3. 0 \in H
  <2>1. 1 .. 0 = {}
    OBVIOUS
  <2> QED BY <1>2, <2>1 DEF Obeys, Steps
<1>4. ASSUME NEW k \in Nat, k \in H
      PROVE  k + 1 \in H
  <2> SUFFICES ASSUME k + 1 <= Len(t) PROVE f[1 .. k + 1] = g[1 .. k + 1]
    OBVIOUS
  <2>1. f[1 .. k] = g[1 .. k]
    BY <1>0, <1>4
  <2>2. 1 .. k \in SUBSET (1 .. Len(t))
    BY <1>0
  <2>3. f[1 .. k] \in S
    BY <1>1, <2>1, <2>2
  <2>4. 1 .. k + 1 \in SUBSET (1 .. Len(t))
    BY <1>0
  <2>5. f[1 .. k + 1] = op[<< f[1 .. k], t[k + 1] >>]
    BY <2>3, <2>4, Interval DEF Obeys
  <2>6. k \in 0 .. Len(t) - 1
    BY <1>0
  <2> QED BY <1>2, <2>1, <2>5, <2>6 DEF Steps
<1>5. Len(t) \in H
  <2> HIDE DEF H
  <2>1. \A k \in Nat : k \in H => k + 1 \in H
    BY <1>4
  <2> QED BY <1>0, <1>3, <2>1, Counting
<1> QED BY <1>0, <1>a, <1>5

-----------------------------------------------------------------------------
(* What the devices should get and what the screen should show, one        *)
(* character after the other.                                              *)
ShowFn == [x \in Screens \X Char |-> Show(x[1], x[2])]

LEMMA ShownIs ==
  ASSUME NEW t \in Seq(Char), Foldable(Screens, Char, ShowFn, StartScreen(BiosCursor))
  PROVE  Shown(t) = Folding(Screens, ShowFn, StartScreen(BiosCursor), t)
<1> DEFINE Is(f) == f = [s \in SUBSET (1 .. Len(t)) |->
                           IF s = {} THEN StartScreen(BiosCursor)
                           ELSE Show(f[s \ {Max(s)}], t[Max(s)])]
           g == FoldFn(Screens, ShowFn, StartScreen(BiosCursor), t)
           f == CHOOSE h : Is(h)
<1>0. DOMAIN t = 1 .. Len(t) /\ Len(t) \in Nat
  BY LenProperties
<1>1. Shown(t) = f[1 .. Len(t)]
  BY <1>0, Zenon DEF Shown, FoldLeft, MapThenFoldSet
<1>2. ASSUME NEW s \in SUBSET (1 .. Len(t)), s # {}
      PROVE  t[Max(s)] \in Char /\ s \ {Max(s)} \in SUBSET (1 .. Len(t))
  BY <1>0, <1>2, MaxInside, ElementOfSeq
<1>3. Is(g)
  <2>1. g \in [SUBSET (1 .. Len(t)) -> Screens]
        /\ Folds(g, ShowFn, StartScreen(BiosCursor), t, Len(t))
    BY FoldFnFolds
  <2> HIDE DEF g
  <2>2. ASSUME NEW s \in SUBSET (1 .. Len(t))
        PROVE  g[s] = IF s = {} THEN StartScreen(BiosCursor)
                      ELSE Show(g[s \ {Max(s)}], t[Max(s)])
    <3>1. CASE s = {}
      BY <2>1, <3>1 DEF Folds
    <3>2. CASE s # {}
      <4>1. << g[s \ {Max(s)}], t[Max(s)] >> \in Screens \X Char
        BY <1>2, <2>1, <3>2
      <4>2. g[s] = ShowFn[<< g[s \ {Max(s)}], t[Max(s)] >>]
        BY <2>1, <3>2 DEF Folds
      <4> QED BY <3>2, <4>1, <4>2 DEF ShowFn
    <3> QED BY <3>1, <3>2
  <2> QED BY <2>1, <2>2
<1>4. Is(f)
  <2> HIDE DEF Is, g
  <2> QED BY <1>3
<1>5. Obeys(f, Screens, ShowFn, StartScreen(BiosCursor), t)
  <2> HIDE DEF f
  <2>1. f[{}] = StartScreen(BiosCursor)
    BY <1>4
  <2>2. ASSUME NEW s \in SUBSET (1 .. Len(t)), s # {}, f[s \ {Max(s)}] \in Screens
        PROVE  f[s] = ShowFn[<< f[s \ {Max(s)}], t[Max(s)] >>]
    <3>1. << f[s \ {Max(s)}], t[Max(s)] >> \in Screens \X Char
      BY <1>2, <2>2
    <3>2. f[s] = Show(f[s \ {Max(s)}], t[Max(s)])
      BY <1>4, <2>2
    <3> QED BY <3>1, <3>2 DEF ShowFn
  <2> QED BY <2>1, <2>2 DEF Obeys
<1> HIDE DEF f
<1>6. f[1 .. Len(t)] = Folding(Screens, ShowFn, StartScreen(BiosCursor), t)
  BY <1>5, FoldOf
<1> QED BY <1>1, <1>6

ExpandFn == [x \in Seq(Char) \X Char |-> x[1] \o Sent(x[2])]

LEMMA ExpandedIs ==
  ASSUME NEW t \in Seq(Char), Foldable(Seq(Char), Char, ExpandFn, << >>)
  PROVE  Expanded(t) = Folding(Seq(Char), ExpandFn, << >>, t)
<1> DEFINE Is(f) == f = [s \in SUBSET (1 .. Len(t)) |->
                           IF s = {} THEN << >>
                           ELSE f[s \ {Max(s)}] \o Sent(t[Max(s)])]
           g == FoldFn(Seq(Char), ExpandFn, << >>, t)
           f == CHOOSE h : Is(h)
<1>0. DOMAIN t = 1 .. Len(t) /\ Len(t) \in Nat
  BY LenProperties
<1>1. Expanded(t) = f[1 .. Len(t)]
  BY <1>0, Zenon DEF Expanded, FoldLeft, MapThenFoldSet
<1>2. ASSUME NEW s \in SUBSET (1 .. Len(t)), s # {}
      PROVE  t[Max(s)] \in Char /\ s \ {Max(s)} \in SUBSET (1 .. Len(t))
  BY <1>0, <1>2, MaxInside, ElementOfSeq
<1>3. Is(g)
  <2>1. g \in [SUBSET (1 .. Len(t)) -> Seq(Char)]
        /\ Folds(g, ExpandFn, << >>, t, Len(t))
    BY FoldFnFolds
  <2> HIDE DEF g
  <2>2. ASSUME NEW s \in SUBSET (1 .. Len(t))
        PROVE  g[s] = IF s = {} THEN << >> ELSE g[s \ {Max(s)}] \o Sent(t[Max(s)])
    <3>1. CASE s = {}
      BY <2>1, <3>1 DEF Folds
    <3>2. CASE s # {}
      <4>1. << g[s \ {Max(s)}], t[Max(s)] >> \in Seq(Char) \X Char
        BY <1>2, <2>1, <3>2
      <4>2. g[s] = ExpandFn[<< g[s \ {Max(s)}], t[Max(s)] >>]
        BY <2>1, <3>2 DEF Folds
      <4> QED BY <3>2, <4>1, <4>2 DEF ExpandFn
    <3> QED BY <3>1, <3>2
  <2> QED BY <2>1, <2>2
<1>4. Is(f)
  <2> HIDE DEF Is, g
  <2> QED BY <1>3
<1>5. Obeys(f, Seq(Char), ExpandFn, << >>, t)
  <2> HIDE DEF f
  <2>1. f[{}] = << >>
    BY <1>4
  <2>2. ASSUME NEW s \in SUBSET (1 .. Len(t)), s # {}, f[s \ {Max(s)}] \in Seq(Char)
        PROVE  f[s] = ExpandFn[<< f[s \ {Max(s)}], t[Max(s)] >>]
    <3>1. << f[s \ {Max(s)}], t[Max(s)] >> \in Seq(Char) \X Char
      BY <1>2, <2>2
    <3>2. f[s] = f[s \ {Max(s)}] \o Sent(t[Max(s)])
      BY <1>4, <2>2
    <3> QED BY <3>1, <3>2 DEF ExpandFn
  <2> QED BY <2>1, <2>2 DEF Obeys
<1> HIDE DEF f
<1>6. f[1 .. Len(t)] = Folding(Seq(Char), ExpandFn, << >>, t)
  BY <1>5, FoldOf
<1> QED BY <1>1, <1>6

(* The greedy match, one character further.                                *)
Further(u, k, c) == IF k < Len(u) /\ u[k + 1] = c THEN k + 1 ELSE k

MatchFn(u) == [x \in (0 .. Len(u)) \X Char |-> Further(u, x[1], x[2])]

LEMMA MatchedIs ==
  ASSUME NEW t \in Seq(Char), NEW u \in Seq(Char), Foldable(0 .. Len(u), Char, MatchFn(u), 0)
  PROVE  Matched(u, t) = Folding(0 .. Len(u), MatchFn(u), 0, t)
<1> DEFINE Is(f) == f = [s \in SUBSET (1 .. Len(t)) |->
                           IF s = {} THEN 0
                           ELSE Further(u, f[s \ {Max(s)}], t[Max(s)])]
           g == FoldFn(0 .. Len(u), MatchFn(u), 0, t)
           f == CHOOSE h : Is(h)
<1>0. DOMAIN t = 1 .. Len(t) /\ Len(t) \in Nat
  BY LenProperties
<1>1. Matched(u, t) = f[1 .. Len(t)]
  BY <1>0, Zenon DEF Matched, Further, FoldLeft, MapThenFoldSet
<1>2. ASSUME NEW s \in SUBSET (1 .. Len(t)), s # {}
      PROVE  t[Max(s)] \in Char /\ s \ {Max(s)} \in SUBSET (1 .. Len(t))
  BY <1>0, <1>2, MaxInside, ElementOfSeq
<1>3. Is(g)
  <2>1. g \in [SUBSET (1 .. Len(t)) -> 0 .. Len(u)]
        /\ Folds(g, MatchFn(u), 0, t, Len(t))
    BY FoldFnFolds
  <2> HIDE DEF g
  <2>2. ASSUME NEW s \in SUBSET (1 .. Len(t))
        PROVE  g[s] = IF s = {} THEN 0 ELSE Further(u, g[s \ {Max(s)}], t[Max(s)])
    <3>1. CASE s = {}
      BY <2>1, <3>1 DEF Folds
    <3>2. CASE s # {}
      <4>1. << g[s \ {Max(s)}], t[Max(s)] >> \in (0 .. Len(u)) \X Char
        BY <1>2, <2>1, <3>2
      <4>2. g[s] = MatchFn(u)[<< g[s \ {Max(s)}], t[Max(s)] >>]
        BY <2>1, <3>2 DEF Folds
      <4> QED BY <3>2, <4>1, <4>2 DEF MatchFn
    <3> QED BY <3>1, <3>2
  <2> QED BY <2>1, <2>2
<1>4. Is(f)
  <2> HIDE DEF Is, g
  <2> QED BY <1>3
<1>5. Obeys(f, 0 .. Len(u), MatchFn(u), 0, t)
  <2> HIDE DEF f
  <2>1. f[{}] = 0
    BY <1>4
  <2>2. ASSUME NEW s \in SUBSET (1 .. Len(t)), s # {}, f[s \ {Max(s)}] \in 0 .. Len(u)
        PROVE  f[s] = MatchFn(u)[<< f[s \ {Max(s)}], t[Max(s)] >>]
    <3>1. << f[s \ {Max(s)}], t[Max(s)] >> \in (0 .. Len(u)) \X Char
      BY <1>2, <2>2
    <3>2. f[s] = Further(u, f[s \ {Max(s)}], t[Max(s)])
      BY <1>4, <2>2
    <3> QED BY <3>1, <3>2 DEF MatchFn
  <2> QED BY <2>1, <2>2 DEF Obeys
<1> HIDE DEF f
<1>6. f[1 .. Len(t)] = Folding(0 .. Len(u), MatchFn(u), 0, t)
  BY <1>5, FoldOf
<1> QED BY <1>1, <1>6

LEMMA ShownFacts ==
  /\ Shown(<< >>) = StartScreen(BiosCursor) /\ StartScreen(BiosCursor) \in Screens
  /\ \A t \in Seq(Char), c \in Char :
       Shown(t) \in Screens /\ Shown(Append(t, c)) = Show(Shown(t), c)
<1>1. StartScreen(BiosCursor) \in Screens
  BY CursorAssumption DEF StartScreen, Screens, Blank, Char
<1>2. ShowFn \in [Screens \X Char -> Screens]
  <2>1. ASSUME NEW x \in Screens \X Char
        PROVE  Show(x[1], x[2]) \in Screens
    <3>1. x[1] \in Screens /\ x[2] \in Char
      OBVIOUS
    <3> QED BY <3>1, PutType DEF Show
  <2> QED BY <2>1 DEF ShowFn
<1>3. Foldable(Screens, Char, ShowFn, StartScreen(BiosCursor))
  BY <1>1, <1>2 DEF Foldable
<1>4. Shown(<< >>) = StartScreen(BiosCursor)
  <2>1. << >> \in Seq(Char)
    BY EmptySeq
  <2> QED BY <1>3, <2>1, ShownIs, FoldEmpty
<1>5. ASSUME NEW t \in Seq(Char), NEW c \in Char
      PROVE  Shown(t) \in Screens /\ Shown(Append(t, c)) = Show(Shown(t), c)
  <2>1. Append(t, c) \in Seq(Char)
    BY AppendProperties
  <2>2. /\ Folding(Screens, ShowFn, StartScreen(BiosCursor), t) \in Screens
        /\ Folding(Screens, ShowFn, StartScreen(BiosCursor), Append(t, c))
             = ShowFn[<< Folding(Screens, ShowFn, StartScreen(BiosCursor), t), c >>]
    BY <1>3, FoldAppend
  <2>3. Shown(t) \in Screens /\ Shown(Append(t, c)) = ShowFn[<< Shown(t), c >>]
    BY <1>3, <2>1, <2>2, ShownIs
  <2>4. << Shown(t), c >> \in Screens \X Char
    BY <2>3
  <2> QED BY <2>3, <2>4 DEF ShowFn
<1> QED BY <1>1, <1>4, <1>5

LEMMA SentType ==
  /\ Spaces \in Seq(Char) /\ << Tab >> \in Seq(Char)
  /\ \A c \in Char : Sent(c) \in Seq(Char)
<1>1. Blank \in Char /\ Tab \in Char
  BY DEF Blank, Tab, Char
<1>2. Spaces \in Seq(Char) /\ << Tab >> \in Seq(Char)
  BY <1>1 DEF Spaces
<1>3. << Tab >> \o Spaces \in Seq(Char)
  BY <1>2, ConcatProperties
<1> QED BY <1>2, <1>3 DEF Sent

LEMMA ExpandedFacts ==
  /\ Expanded(<< >>) = << >>
  /\ \A t \in Seq(Char), c \in Char :
       Expanded(t) \in Seq(Char) /\ Expanded(Append(t, c)) = Expanded(t) \o Sent(c)
<1>2. ExpandFn \in [Seq(Char) \X Char -> Seq(Char)]
  <2>1. ASSUME NEW x \in Seq(Char) \X Char
        PROVE  x[1] \o Sent(x[2]) \in Seq(Char)
    <3>1. x[1] \in Seq(Char) /\ Sent(x[2]) \in Seq(Char)
      BY SentType
    <3> QED BY <3>1, ConcatProperties
  <2> QED BY <2>1 DEF ExpandFn
<1>0. << >> \in Seq(Char)
  BY EmptySeq
<1>3. Foldable(Seq(Char), Char, ExpandFn, << >>)
  BY <1>0, <1>2 DEF Foldable
<1>4. Expanded(<< >>) = << >>
  BY <1>0, <1>3, ExpandedIs, FoldEmpty
<1>5. ASSUME NEW t \in Seq(Char), NEW c \in Char
      PROVE  Expanded(t) \in Seq(Char) /\ Expanded(Append(t, c)) = Expanded(t) \o Sent(c)
  <2>1. Append(t, c) \in Seq(Char)
    BY AppendProperties
  <2>2. /\ Folding(Seq(Char), ExpandFn, << >>, t) \in Seq(Char)
        /\ Folding(Seq(Char), ExpandFn, << >>, Append(t, c))
             = ExpandFn[<< Folding(Seq(Char), ExpandFn, << >>, t), c >>]
    BY <1>3, FoldAppend
  <2>3. Expanded(t) \in Seq(Char) /\ Expanded(Append(t, c)) = ExpandFn[<< Expanded(t), c >>]
    BY <1>3, <2>1, <2>2, ExpandedIs
  <2>4. << Expanded(t), c >> \in Seq(Char) \X Char
    BY <2>3
  <2> QED BY <2>3, <2>4 DEF ExpandFn
<1> QED BY <1>4, <1>5

LEMMA MatchedFacts ==
  ASSUME NEW u \in Seq(Char)
  PROVE  /\ Matched(u, << >>) = 0
         /\ \A t \in Seq(Char), c \in Char :
              /\ Matched(u, t) \in 0 .. Len(u)
              /\ Matched(u, Append(t, c)) = Further(u, Matched(u, t), c)
<1>a. Len(u) \in Nat
  BY LenProperties
<1>2. MatchFn(u) \in [(0 .. Len(u)) \X Char -> 0 .. Len(u)]
  <2>1. ASSUME NEW x \in (0 .. Len(u)) \X Char
        PROVE  Further(u, x[1], x[2]) \in 0 .. Len(u)
    <3>1. x[1] \in 0 .. Len(u)
      OBVIOUS
    <3> QED BY <3>1, <1>a DEF Further
  <2> QED BY <2>1 DEF MatchFn
<1>0. << >> \in Seq(Char) /\ 0 \in 0 .. Len(u)
  BY <1>a, EmptySeq
<1>3. Foldable(0 .. Len(u), Char, MatchFn(u), 0)
  BY <1>0, <1>2 DEF Foldable
<1>4. Matched(u, << >>) = 0
  <2>1. Matched(u, << >>) = Folding(0 .. Len(u), MatchFn(u), 0, << >>)
    BY <1>0, <1>3, MatchedIs
  <2>2. Folding(0 .. Len(u), MatchFn(u), 0, << >>) = 0
    BY <1>3, FoldEmpty
  <2> QED BY <2>1, <2>2
<1>5. ASSUME NEW t \in Seq(Char), NEW c \in Char
      PROVE  /\ Matched(u, t) \in 0 .. Len(u)
             /\ Matched(u, Append(t, c)) = Further(u, Matched(u, t), c)
  <2>1. Append(t, c) \in Seq(Char)
    BY AppendProperties
  <2>2. /\ Folding(0 .. Len(u), MatchFn(u), 0, t) \in 0 .. Len(u)
        /\ Folding(0 .. Len(u), MatchFn(u), 0, Append(t, c))
             = MatchFn(u)[<< Folding(0 .. Len(u), MatchFn(u), 0, t), c >>]
    BY <1>3, FoldAppend
  <2>3. /\ Matched(u, t) \in 0 .. Len(u)
        /\ Matched(u, Append(t, c)) = MatchFn(u)[<< Matched(u, t), c >>]
    BY <1>3, <2>1, <2>2, MatchedIs
  <2>4. << Matched(u, t), c >> \in (0 .. Len(u)) \X Char
    BY <2>3
  <2> QED BY <2>3, <2>4 DEF MatchFn
<1> QED BY <1>4, <1>5

(* A sequence with one more character matches as far, and then one further *)
(* at most.                                                                *)
Shorter(n, k) == IF k <= n THEN k ELSE n

LEMMA MatchedShorter ==
  ASSUME NEW u \in Seq(Char), NEW x \in Char, NEW t \in Seq(Char)
  PROVE  Matched(u, t) = Shorter(Len(u), Matched(Append(u, x), t))
<1> DEFINE v == Append(u, x)
           H == {r \in Seq(Char) : Matched(u, r) = Shorter(Len(u), Matched(v, r))}
<1>0. /\ v \in Seq(Char) /\ Len(u) \in Nat /\ Len(v) = Len(u) + 1
      /\ \A k \in 1 .. Len(u) : v[k] = u[k]
  BY LenProperties, AppendProperties
<1> HIDE DEF v
<1>1. << >> \in H
  <2>1. << >> \in Seq(Char)
    BY EmptySeq
  <2>2. Matched(u, << >>) = 0 /\ Matched(v, << >>) = 0
    BY <1>0, MatchedFacts
  <2> QED BY <1>0, <2>1, <2>2 DEF Shorter
<1>2. ASSUME NEW r \in Seq(Char), NEW c \in Char, r \in H
      PROVE  Append(r, c) \in H
  <2>1. Append(r, c) \in Seq(Char)
    BY AppendProperties
  <2> DEFINE k == Matched(u, r)
             l == Matched(v, r)
  <2>2. /\ k \in 0 .. Len(u) /\ Matched(u, Append(r, c)) = Further(u, k, c)
        /\ l \in 0 .. Len(v) /\ Matched(v, Append(r, c)) = Further(v, l, c)
    BY <1>0, MatchedFacts
  <2>3. k = Shorter(Len(u), l)
    BY <1>2
  <2> HIDE DEF k, l
  <2>4. Further(u, k, c) = Shorter(Len(u), Further(v, l, c))
    <3>1. CASE l < Len(u)
      <4>1. k = l /\ v[l + 1] = u[l + 1]
        BY <1>0, <2>2, <2>3, <3>1, SMTT(30) DEF Shorter
      <4> QED BY <1>0, <2>2, <3>1, <4>1 DEF Shorter, Further
    <3>2. CASE ~(l < Len(u))
      <4>1. k = Len(u)
        BY <1>0, <2>2, <2>3, <3>2 DEF Shorter
      <4> QED BY <1>0, <2>2, <3>2, <4>1 DEF Shorter, Further
    <3> QED BY <3>1, <3>2
  <2> QED BY <2>1, <2>2, <2>4
<1>3. Seq(Char) \subseteq H
  <2> HIDE DEF H
  <2>1. \A r \in Seq(Char) : \A c \in Char : r \in H => Append(r, c) \in H
    BY <1>2
  <2> QED BY <1>1, <2>1, Extending
<1> QED BY <1>3 DEF v

-----------------------------------------------------------------------------
(* Characters appended to a concatenation.                                 *)
LEMMA AppendConcat ==
  ASSUME NEW C, NEW t \in Seq(C), NEW q \in Seq(C), NEW c \in C
  PROVE  t \o Append(q, c) = Append(t \o q, c)
<1>1. << c >> \in Seq(C) /\ t \o q \in Seq(C)
  BY ConcatProperties
<1>2. Append(q, c) = q \o << c >> /\ Append(t \o q, c) = (t \o q) \o << c >>
  BY <1>1, AppendIsConcat
<1>3. (t \o q) \o << c >> = t \o (q \o << c >>)
  BY <1>1, ConcatAssociative
<1> QED BY <1>2, <1>3

(* Subsequences.                                                           *)
LEMMA EmptySubsequence ==
  ASSUME NEW t \in Seq(Char)
  PROVE  SubsequenceOf(<< >>, t)
<1>1. << >> \in Seq(Char) /\ Len(<< >>) = 0
  BY EmptySeq
<1>2. 0 \in Char
  BY DEF Char
<1>3. Matched(<< >>, t) \in 0 .. 0
  BY <1>1, <1>2, MatchedFacts
<1> QED BY <1>1, <1>3 DEF SubsequenceOf

LEMMA StaysSubsequence ==
  ASSUME NEW u \in Seq(Char), NEW t \in Seq(Char), SubsequenceOf(u, t), NEW c \in Char
  PROVE  SubsequenceOf(u, Append(t, c))
<1>1. Matched(u, Append(t, c)) = Further(u, Matched(u, t), c)
  BY MatchedFacts
<1>2. Len(u) \in Nat /\ Matched(u, t) = Len(u)
  BY LenProperties DEF SubsequenceOf
<1> QED BY <1>1, <1>2 DEF Further, SubsequenceOf

LEMMA LongerSubsequence ==
  ASSUME NEW u \in Seq(Char), NEW t \in Seq(Char), SubsequenceOf(u, t), NEW c \in Char
  PROVE  SubsequenceOf(Append(u, c), Append(t, c))
<1> DEFINE v == Append(u, c)
<1>0. v \in Seq(Char) /\ Len(u) \in Nat /\ Len(v) = Len(u) + 1 /\ v[Len(u) + 1] = c
  BY LenProperties, AppendProperties
<1>1. Matched(u, t) = Len(u) /\ Matched(u, t) = Shorter(Len(u), Matched(v, t))
  BY MatchedShorter DEF SubsequenceOf
<1> HIDE DEF v
<1>2. Matched(v, t) \in 0 .. Len(v) /\ Matched(v, Append(t, c)) = Further(v, Matched(v, t), c)
  BY <1>0, MatchedFacts
<1>3. Matched(v, Append(t, c)) = Len(v)
  BY <1>0, <1>1, <1>2 DEF Shorter, Further
<1> QED BY <1>3 DEF SubsequenceOf, v

LEMMA ShorterSubsequence ==
  ASSUME NEW u \in Seq(Char), NEW x \in Char, NEW t \in Seq(Char), SubsequenceOf(Append(u, x), t)
  PROVE  SubsequenceOf(u, t)
<1>1. Len(u) \in Nat /\ Len(Append(u, x)) = Len(u) + 1
  BY LenProperties, AppendProperties
<1>2. Matched(u, t) = Shorter(Len(u), Len(u) + 1)
  BY <1>1, MatchedShorter DEF SubsequenceOf
<1> QED BY <1>1, <1>2 DEF Shorter, SubsequenceOf

LEMMA SubsequenceOfLonger ==
  ASSUME NEW u \in Seq(Char), NEW t \in Seq(Char), SubsequenceOf(u, t), NEW r \in Seq(Char)
  PROVE  SubsequenceOf(u, t \o r)
<1> DEFINE H == {q \in Seq(Char) : SubsequenceOf(u, t \o q)}
<1>1. << >> \in H
  BY EmptySeq, ConcatEmptySeq
<1>2. ASSUME NEW q \in Seq(Char), NEW c \in Char, q \in H
      PROVE  Append(q, c) \in H
  <2>1. Append(q, c) \in Seq(Char) /\ t \o q \in Seq(Char)
    BY AppendProperties, ConcatProperties
  <2>2. t \o Append(q, c) = Append(t \o q, c)
    BY <2>1, AppendConcat
  <2>3. SubsequenceOf(u, Append(t \o q, c))
    BY <1>2, <2>1, StaysSubsequence
  <2> QED BY <2>1, <2>2, <2>3
<1>3. Seq(Char) \subseteq H
  <2> HIDE DEF H
  <2>1. \A q \in Seq(Char) : \A c \in Char : q \in H => Append(q, c) \in H
    BY <1>2
  <2> QED BY <1>1, <2>1, Extending
<1> QED BY <1>3

-----------------------------------------------------------------------------
(***************************************************************************)
(* What is still to be sent of the text: the rest of the cons_putc() in    *)
(* progress, and the spaces a tab will leave behind.                       *)
(***************************************************************************)
Rest == IF todo = << Tab >> THEN Sent(Tab) ELSE todo

OutputType ==
  /\ asked \in Seq(Char)
  /\ todo \in Seq(Char)
  /\ turn \in {"idle", "serial", "lpt", "cga"}
  /\ turn = "idle" <=> todo = << >>
  /\ line \in Seq(Char)
  /\ thr = << >> \/ \E x \in Char : thr = << x >>
  /\ paper \in Seq(Char)

(* A tab is alone: its spaces come after it.                               *)
TabIsAlone == todo # << >> => todo = << Tab >> \/ \A j \in 1 .. Len(todo) : todo[j] # Tab

(***************************************************************************)
(* The characters that are through, `sent', and the next one too for those *)
(* devices that have had their turn with it.  A device has taken all of    *)
(* them or, if it was ever late, some.                                     *)
(***************************************************************************)
UpTo(sent, turns) == IF turn \in turns THEN Append(sent, Head(todo)) ELSE sent

TextIs(sent) == Expanded(asked) = sent \o Rest /\ scr = Shown(sent)

SerialTook(sent) ==
  /\ uart /\ "serial" \notin late => line \o thr = UpTo(sent, {"lpt", "cga"})
  /\ SubsequenceOf(line \o thr, UpTo(sent, {"lpt", "cga"}))

PrinterTook(sent) ==
  /\ "lpt" \notin late => paper = UpTo(sent, {"cga"})
  /\ SubsequenceOf(paper, UpTo(sent, {"cga"}))

Through(sent) == TextIs(sent) /\ SerialTook(sent) /\ PrinterTook(sent)

OutputInv == OutputType /\ TabIsAlone /\ \E sent \in Seq(Char) : Through(sent)

Situation(sent) == OutputType /\ TabIsAlone /\ sent \in Seq(Char) /\ Through(sent)

LEMMA OnlyElement ==
  ASSUME NEW x, NEW r, r = << x >>
  PROVE  1 \in 1 .. Len(r) /\ r[1] = x
OBVIOUS

LEMMA Heads ==
  ASSUME OutputType, turn # "idle"
  PROVE  /\ todo # << >> /\ Head(todo) \in Char /\ Head(todo) = todo[1]
         /\ Tail(todo) \in Seq(Char) /\ todo = << Head(todo) >> \o Tail(todo)
         /\ Len(todo) \in Nat /\ Len(todo) >= 1 /\ Len(Tail(todo)) = Len(todo) - 1
         /\ \A j \in 1 .. Len(Tail(todo)) : Tail(todo)[j] = todo[j + 1]
<1>1. todo \in Seq(Char) /\ todo # << >>
  BY DEF OutputType
<1>2. /\ Head(todo) \in Char /\ Tail(todo) \in Seq(Char) /\ Len(Tail(todo)) = Len(todo) - 1
      /\ \A j \in 1 .. Len(Tail(todo)) : Tail(todo)[j] = todo[j + 1]
  BY <1>1, HeadTailProperties
<1>3. Len(todo) \in Nat /\ Len(todo) >= 1
  BY <1>1, EmptySeq
<1>4. Head(todo) = todo[1]
  BY <1>1
<1>5. todo = << Head(todo) >> \o Tail(todo)
  <2> DEFINE r == << Head(todo) >> \o Tail(todo)
  <2>1. << Head(todo) >> \in Seq(Char) /\ Len(<< Head(todo) >>) = 1
    BY <1>2
  <2>2. /\ r \in Seq(Char) /\ Len(r) = 1 + Len(Tail(todo))
        /\ \A j \in 1 .. 1 + Len(Tail(todo)) :
             r[j] = IF j <= 1 THEN << Head(todo) >>[j] ELSE Tail(todo)[j - 1]
    BY <1>2, <2>1, ConcatProperties
  <2> HIDE DEF r
  <2>3. ASSUME NEW j \in 1 .. Len(todo)
        PROVE  todo[j] = r[j]
    <3>1. CASE j = 1
      BY <1>2, <1>3, <1>4, <2>2, <3>1
    <3>2. CASE j # 1
      <4>1. j - 1 \in 1 .. Len(Tail(todo)) /\ (j - 1) + 1 = j /\ j \in 1 .. 1 + Len(Tail(todo))
        BY <1>2, <1>3, <3>2
      <4> QED BY <1>2, <2>2, <3>2, <4>1
    <3> QED BY <3>1, <3>2
  <2>4. todo = r
    BY <1>1, <1>2, <1>3, <2>2, <2>3, SeqEqual
  <2> QED BY <2>4 DEF r
<1> QED BY <1>1, <1>2, <1>3, <1>4, <1>5

LEMMA LineType ==
  ASSUME OutputType
  PROVE  /\ thr \in Seq(Char) /\ line \o thr \in Seq(Char)
         /\ line \o << >> = line
<1>1. thr \in Seq(Char)
  <2>1. CASE thr = << >>
    BY <2>1, EmptySeq
  <2>2. ASSUME NEW x \in Char, thr = << x >>
        PROVE  thr \in Seq(Char)
    BY <2>2
  <2> QED BY <2>1, <2>2 DEF OutputType
<1> QED BY <1>1, ConcatProperties, ConcatEmptySeq DEF OutputType

LEMMA TransmitStep ==
  ASSUME NEW sent \in Seq(Char), Situation(sent), Transmit
  PROVE  OutputInv'
<1>0. OutputType /\ TabIsAlone /\ TextIs(sent) /\ SerialTook(sent) /\ PrinterTook(sent)
  BY DEF Situation, Through
<1>1. line' \o thr' = line \o thr
  <2>1. line \o thr \in Seq(Char)
    BY <1>0, LineType
  <2> QED BY <2>1, ConcatEmptySeq DEF Transmit
<1>2. OutputType'
  BY <1>0, LineType DEF OutputType, Transmit, printer, kernel
<1>3. TabIsAlone' /\ TextIs(sent)' /\ SerialTook(sent)' /\ PrinterTook(sent)'
  BY <1>0, <1>1
     DEF TabIsAlone, TextIs, SerialTook, PrinterTook, UpTo, Rest, Transmit, printer, kernel
<1> QED BY <1>2, <1>3 DEF OutputInv, Through

LEMMA StutterStep ==
  ASSUME NEW sent \in Seq(Char), Situation(sent),
         UNCHANGED << asked, todo, turn, uart, serial, paper, scr, late >>
  PROVE  OutputInv'
<1>0. OutputType /\ TabIsAlone /\ TextIs(sent) /\ SerialTook(sent) /\ PrinterTook(sent)
  BY DEF Situation, Through
<1>2. OutputType'
  BY <1>0 DEF OutputType, serial
<1>3. TabIsAlone' /\ TextIs(sent)' /\ SerialTook(sent)' /\ PrinterTook(sent)'
  BY <1>0 DEF TabIsAlone, TextIs, SerialTook, PrinterTook, UpTo, Rest, serial
<1> QED BY <1>2, <1>3 DEF OutputInv, Through

LEMMA PutcStep ==
  ASSUME NEW sent \in Seq(Char), Situation(sent), Putc
  PROVE  OutputInv'
<1>0. OutputType /\ TabIsAlone /\ TextIs(sent) /\ SerialTook(sent) /\ PrinterTook(sent)
  BY DEF Situation, Through
<1>1. PICK c \in Char : todo' = << c >> /\ asked' = Append(asked, c)
  BY TextAssumption DEF Putc
<1>2. /\ todo = << >> /\ turn = "idle" /\ turn' = "serial"
      /\ UNCHANGED << uart, line, thr, paper, scr, late >>
  BY <1>0 DEF Putc, OutputType, serial, printer
<1>3. todo' \in Seq(Char) /\ todo' # << >> /\ Len(todo') = 1 /\ todo'[1] = c
  BY <1>1
<1>4. OutputType'
  <2>1. asked' \in Seq(Char)
    BY <1>0, <1>1, AppendProperties DEF OutputType
  <2> QED BY <1>0, <1>2, <1>3, <2>1 DEF OutputType
<1>5. TabIsAlone'
  BY <1>1, <1>3 DEF TabIsAlone
<1>6. TextIs(sent)'
  <2>1. Expanded(asked) = sent
    <3>1. Rest = << >>
      BY <1>2 DEF Rest
    <3> QED BY <1>0, <3>1, ConcatEmptySeq DEF TextIs
  <2>2. Expanded(asked') = Expanded(asked) \o Sent(c)
    BY <1>0, <1>1, ExpandedFacts DEF OutputType
  <2>3. Rest' = Sent(c)
    BY <1>1 DEF Rest, Sent
  <2> QED BY <1>0, <1>2, <2>1, <2>2, <2>3 DEF TextIs
<1>7. SerialTook(sent)' /\ PrinterTook(sent)'
  BY <1>0, <1>2 DEF SerialTook, PrinterTook, UpTo
<1> QED BY <1>4, <1>5, <1>6, <1>7 DEF OutputInv, Through

LEMMA SerialPutcStep ==
  ASSUME NEW sent \in Seq(Char), Situation(sent), SerialPutc
  PROVE  OutputInv'
<1>0. OutputType /\ TabIsAlone /\ TextIs(sent) /\ SerialTook(sent) /\ PrinterTook(sent)
  BY DEF Situation, Through
<1>1. /\ turn = "serial" /\ turn' = "lpt" /\ UNCHANGED << asked, todo, uart, line, paper, scr >>
      /\ thr' = IF uart THEN << Head(todo) >> ELSE thr
      /\ late' = late \/ late' = late \cup {"serial"}
      /\ ~(uart => thr = << >>) => late' = late \cup {"serial"}
  BY DEF SerialPutc, WaitOver, Ready, printer
<1>2. Head(todo) \in Char /\ todo # << >> /\ Append(sent, Head(todo)) \in Seq(Char)
  BY <1>0, <1>1, Heads, AppendProperties
<1>3. OutputType'
  BY <1>0, <1>1, <1>2 DEF OutputType
<1>4. TabIsAlone' /\ TextIs(sent)'
  BY <1>0, <1>1 DEF TabIsAlone, TextIs, Rest
<1>5. PrinterTook(sent)'
  BY <1>0, <1>1 DEF PrinterTook, UpTo
<1>6. SerialTook(sent)'
  <2>0. /\ uart /\ "serial" \notin late => line \o thr = sent
        /\ SubsequenceOf(line \o thr, sent)
        /\ line \in Seq(Char) /\ thr \in Seq(Char) /\ line \o thr \in Seq(Char)
    BY <1>0, <1>1, LineType DEF SerialTook, UpTo, OutputType
  <2>1. UpTo(sent, {"lpt", "cga"})' = Append(sent, Head(todo))
    BY <1>1 DEF UpTo
  <2>2. CASE ~uart
    <3>1. SubsequenceOf(line \o thr, Append(sent, Head(todo)))
      BY <1>2, <2>0, StaysSubsequence
    <3> QED BY <1>1, <2>1, <2>2, <3>1 DEF SerialTook
  <2>3. CASE uart
    <3>1. SubsequenceOf(line, sent)
      <4>1. CASE thr = << >>
        BY <2>0, <4>1, ConcatEmptySeq
      <4>2. ASSUME NEW x \in Char, thr = << x >>
            PROVE  SubsequenceOf(line, sent)
        <5>1. line \o thr = Append(line, x)
          BY <2>0, <4>2, AppendIsConcat
        <5>2. SubsequenceOf(Append(line, x), sent)
          BY <2>0, <5>1
        <5> QED BY <2>0, <4>2, <5>2, ShorterSubsequence
      <4> QED BY <1>0, <4>1, <4>2 DEF OutputType
    <3>2. line' \o thr' = Append(line, Head(todo))
      BY <1>1, <1>2, <2>0, <2>3, AppendIsConcat
    <3>3. SubsequenceOf(Append(line, Head(todo)), Append(sent, Head(todo)))
      BY <1>2, <2>0, <3>1, LongerSubsequence
    <3>4. ASSUME "serial" \notin late'
          PROVE  Append(line, Head(todo)) = Append(sent, Head(todo))
      <4>1. thr = << >> /\ "serial" \notin late
        BY <1>1, <2>3, <3>4
      <4>2. line = sent
        BY <2>0, <2>3, <4>1, ConcatEmptySeq
      <4> QED BY <4>2
    <3> QED BY <2>1, <3>2, <3>3, <3>4 DEF SerialTook
  <2> QED BY <2>2, <2>3
<1> QED BY <1>3, <1>4, <1>5, <1>6 DEF OutputInv, Through

LEMMA LptPutcStep ==
  ASSUME NEW sent \in Seq(Char), Situation(sent), LptPutc
  PROVE  OutputInv'
<1>0. OutputType /\ TabIsAlone /\ TextIs(sent) /\ SerialTook(sent) /\ PrinterTook(sent)
  BY DEF Situation, Through
<1>1. /\ turn = "lpt" /\ turn' = "cga" /\ UNCHANGED << asked, todo, uart, line, thr, scr >>
      /\ \/ paper' = Append(paper, Head(todo)) /\ late' = late
         \/ paper' = paper /\ late' = late \cup {"lpt"}
  BY DEF LptPutc, serial, printer
<1>2. Head(todo) \in Char /\ todo # << >>
  BY <1>0, <1>1, Heads
<1>3. OutputType'
  <2>1. Append(paper, Head(todo)) \in Seq(Char)
    BY <1>0, <1>2, AppendProperties DEF OutputType
  <2> QED BY <1>0, <1>1, <1>2, <2>1 DEF OutputType
<1>4. TabIsAlone' /\ TextIs(sent)'
  BY <1>0, <1>1 DEF TabIsAlone, TextIs, Rest
<1>5. SerialTook(sent)'
  BY <1>0, <1>1 DEF SerialTook, UpTo
<1>6. PrinterTook(sent)'
  <2>0. ("lpt" \notin late => paper = sent) /\ SubsequenceOf(paper, sent) /\ paper \in Seq(Char)
    BY <1>0, <1>1 DEF PrinterTook, UpTo, OutputType
  <2>1. UpTo(sent, {"cga"})' = Append(sent, Head(todo))
    BY <1>1 DEF UpTo
  <2>2. CASE paper' = Append(paper, Head(todo)) /\ late' = late
    <3>1. SubsequenceOf(Append(paper, Head(todo)), Append(sent, Head(todo)))
      BY <1>2, <2>0, LongerSubsequence
    <3> QED BY <2>0, <2>1, <2>2, <3>1 DEF PrinterTook
  <2>3. CASE paper' = paper /\ late' = late \cup {"lpt"}
    <3>1. SubsequenceOf(paper, Append(sent, Head(todo)))
      BY <1>2, <2>0, StaysSubsequence
    <3> QED BY <2>1, <2>3, <3>1 DEF PrinterTook
  <2> QED BY <1>1, <2>2, <2>3
<1> QED BY <1>3, <1>4, <1>5, <1>6 DEF OutputInv, Through

(* The character is through.                                               *)
LEMMA CgaPutcStep ==
  ASSUME NEW sent \in Seq(Char), Situation(sent), CgaPutc
  PROVE  OutputInv'
<1>0. OutputType /\ TabIsAlone /\ TextIs(sent) /\ SerialTook(sent) /\ PrinterTook(sent)
  BY DEF Situation, Through
<1>1. /\ turn = "cga" /\ UNCHANGED << asked, uart, line, thr, paper, late >>
      /\ turn' = IF todo' = << >> THEN "idle" ELSE "serial"
  BY DEF CgaPutc, serial, printer
<1>2. /\ Head(todo) \in Char /\ todo # << >> /\ Tail(todo) \in Seq(Char)
      /\ todo = << Head(todo) >> \o Tail(todo)
  BY <1>0, <1>1, Heads
<1>3. PICK more \in Seq(Char) : more = Append(sent, Head(todo))
  BY <1>2, AppendProperties
<1>4. SerialTook(more)' /\ PrinterTook(more)'
  BY <1>0, <1>1, <1>3 DEF SerialTook, PrinterTook, UpTo
<1>5. more = sent \o << Head(todo) >> /\ << Head(todo) >> \in Seq(Char)
  BY <1>2, <1>3, AppendIsConcat
<1>6. CASE Head(todo) = Tab
  <2>1. todo = << Tab >>
    BY <1>0, <1>1, <1>2, <1>6, Heads DEF TabIsAlone
  <2>2. todo' = Spaces /\ scr' = scr
    <3>1. Tail(todo) = << >>
      BY <2>1
    <3> QED BY <1>6, <3>1, SentType, ConcatEmptySeq DEF CgaPutc
  <2>3. /\ Spaces # << >> /\ Spaces # << Tab >> /\ Len(Spaces) = 5
        /\ \A j \in 1 .. 5 : Spaces[j] # Tab
    BY DEF Spaces, Blank, Tab
  <2>4. OutputType'
    BY <1>0, <1>1, <2>2, <2>3, SentType DEF OutputType
  <2>5. TabIsAlone'
    BY <2>2, <2>3 DEF TabIsAlone
  <2>6. Expanded(asked) = more \o Spaces
    <3>1. Expanded(asked) = sent \o (<< Tab >> \o Spaces)
      BY <1>0, <2>1 DEF TextIs, Rest, Sent
    <3>2. (sent \o << Tab >>) \o Spaces = sent \o (<< Tab >> \o Spaces)
      BY SentType, ConcatAssociative
    <3> QED BY <1>5, <1>6, <3>1, <3>2
  <2>7. Shown(more) = Shown(sent)
    BY <1>2, <1>3, <1>6, ShownFacts DEF Show
  <2>8. TextIs(more)'
    BY <1>0, <1>1, <2>2, <2>3, <2>6, <2>7 DEF TextIs, Rest
  <2> QED BY <1>4, <2>4, <2>5, <2>8 DEF OutputInv, Through
<1>7. CASE Head(todo) # Tab
  <2>1. /\ todo # << Tab >> /\ \A j \in 1 .. Len(todo) : todo[j] # Tab
    BY <1>0, <1>2, <1>7 DEF TabIsAlone
  <2>2. todo' = Tail(todo) /\ scr' = CgaPut(scr, Head(todo))
    BY <1>7 DEF CgaPutc
  <2>3. /\ Len(Tail(todo)) \in Nat /\ Tail(todo) # << Tab >>
        /\ \A j \in 1 .. Len(Tail(todo)) : Tail(todo)[j] # Tab
    <3>1. \A j \in 1 .. Len(Tail(todo)) : Tail(todo)[j] # Tab
      BY <1>0, <1>1, <2>1, Heads
    <3>2. Len(Tail(todo)) \in Nat
      BY <1>2, LenProperties
    <3>3. Tail(todo) # << Tab >>
      <4> SUFFICES ASSUME Tail(todo) = << Tab >> PROVE FALSE
        OBVIOUS
      <4>1. 1 \in 1 .. Len(Tail(todo)) /\ Tail(todo)[1] = Tab
        BY OnlyElement
      <4> QED BY <3>1, <4>1
    <3> QED BY <3>1, <3>2, <3>3
  <2>4. OutputType'
    BY <1>0, <1>1, <1>2, <2>2 DEF OutputType
  <2>5. TabIsAlone'
    BY <2>2, <2>3 DEF TabIsAlone
  <2>6. Expanded(asked) = more \o Tail(todo)
    <3>1. Expanded(asked) = sent \o (<< Head(todo) >> \o Tail(todo))
      BY <1>0, <1>2, <2>1 DEF TextIs, Rest
    <3>2. (sent \o << Head(todo) >>) \o Tail(todo) = sent \o (<< Head(todo) >> \o Tail(todo))
      BY <1>2, <1>5, ConcatAssociative
    <3> QED BY <1>5, <3>1, <3>2
  <2>7. Shown(more) = CgaPut(Shown(sent), Head(todo))
    BY <1>2, <1>3, <1>7, ShownFacts DEF Show
  <2>8. TextIs(more)'
    BY <1>0, <1>1, <2>2, <2>3, <2>6, <2>7 DEF TextIs, Rest
  <2> QED BY <1>4, <2>4, <2>5, <2>8 DEF OutputInv, Through
<1> QED BY <1>6, <1>7

(* The inductive invariant.                                                *)
LEMMA OutputInvariant == OutputSpec => []OutputInv
<1>1. OutputInit => OutputInv
  <2> SUFFICES ASSUME OutputInit PROVE OutputInv
    OBVIOUS
  <2>1. << >> \in Seq(Char) /\ << >> \o << >> = << >>
    BY EmptySeq, ConcatEmptySeq
  <2>2. OutputType /\ TabIsAlone
    BY <2>1 DEF OutputInit, OutputType, TabIsAlone
  <2>3. Rest = << >> /\ UpTo(<< >>, {"lpt", "cga"}) = << >> /\ UpTo(<< >>, {"cga"}) = << >>
    BY DEF OutputInit, Rest, UpTo
  <2>4. TextIs(<< >>)
    BY <2>1, <2>3, ExpandedFacts, ShownFacts DEF OutputInit, TextIs
  <2>5. SerialTook(<< >>) /\ PrinterTook(<< >>)
    BY <2>1, <2>3, EmptySubsequence DEF OutputInit, SerialTook, PrinterTook
  <2> QED BY <2>1, <2>2, <2>4, <2>5 DEF OutputInv, Through
<1>2. OutputInv /\ [OutputNext]_outputVars => OutputInv'
  <2> SUFFICES ASSUME OutputInv, [OutputNext]_outputVars
               PROVE  OutputInv'
    OBVIOUS
  <2>0. PICK sent \in Seq(Char) : Situation(sent)
    BY DEF OutputInv, Situation
  <2>1. CASE Transmit
    BY <2>0, <2>1, TransmitStep
  <2>2. CASE Printed
    <3>1. UNCHANGED << asked, todo, turn, uart, serial, paper, scr, late >>
      BY <2>2 DEF Printed, kernel, serial
    <3> QED BY <2>0, <3>1, StutterStep
  <2>3. CASE Putc
    BY <2>0, <2>3, PutcStep
  <2>4. CASE Wait
    <3>1. UNCHANGED << asked, todo, turn, uart, serial, paper, scr, late >>
      BY <2>4 DEF Wait, printer, serial
    <3> QED BY <2>0, <3>1, StutterStep
  <2>5. CASE SerialPutc
    BY <2>0, <2>5, SerialPutcStep
  <2>6. CASE LptPutc
    BY <2>0, <2>6, LptPutcStep
  <2>7. CASE CgaPutc
    BY <2>0, <2>7, CgaPutcStep
  <2>8. CASE UNCHANGED outputVars
    <3>1. UNCHANGED << asked, todo, turn, uart, serial, paper, scr, late >>
      BY <2>8 DEF outputVars, serial
    <3> QED BY <2>0, <3>1, StutterStep
  <2> QED BY <2>1, <2>2, <2>3, <2>4, <2>5, <2>6, <2>7, <2>8 DEF OutputNext, Device, Kernel
<1> QED BY <1>1, <1>2, PTL DEF OutputSpec

(* Between two calls, everything is through.                               *)
LEMMA AllThrough == OutputInv => PortsGotText /\ ScreenShowsText
<1> SUFFICES ASSUME OutputInv, turn = "idle"
             PROVE  /\ uart /\ "serial" \notin late => line \o thr = Expanded(asked)
                    /\ "lpt" \notin late => paper = Expanded(asked)
                    /\ scr = Shown(Expanded(asked))
  BY DEF PortsGotText, ScreenShowsText
<1>1. PICK sent \in Seq(Char) : Through(sent)
  BY DEF OutputInv
<1>2. Rest = << >>
  BY DEF OutputInv, OutputType, Rest
<1>3. Expanded(asked) = sent
  BY <1>1, <1>2, ConcatEmptySeq DEF Through, TextIs
<1> QED BY <1>1, <1>3 DEF Through, TextIs, SerialTook, PrinterTook, UpTo

(* When cons_putc() has returned, a serial port and a printer that never   *)
(* kept it waiting too long have had every character of the text and every *)
(* space of its tabs, once and in order.                                   *)
THEOREM PortsGetTheText == OutputSpec => []PortsGotText
BY AllThrough, OutputInvariant, PTL

(* Whatever became of the ports, cga_putc() has put the whole text on the  *)
(* screen, with five spaces for a tab.                                     *)
THEOREM ScreenGetsTheText == OutputSpec => []ScreenShowsText
BY AllThrough, OutputInvariant, PTL

(* A port that was late when its wait ended has missed characters, but it  *)
(* never got one twice or out of order.                                    *)
THEOREM DevicesKeepTheOrder == OutputSpec => []NothingReordered
<1>1. OutputInv => NothingReordered
  <2> SUFFICES ASSUME OutputInv PROVE NothingReordered
    OBVIOUS
  <2>0. OutputType
    BY DEF OutputInv
  <2>1. PICK sent \in Seq(Char) : Through(sent)
    BY DEF OutputInv
  <2>2. Rest \in Seq(Char)
    BY <2>0, SentType DEF Rest, OutputType, Tab, Char
  <2>3. ASSUME NEW u \in Seq(Char), NEW turns \in SUBSET {"lpt", "cga"},
               SubsequenceOf(u, UpTo(sent, turns))
        PROVE  SubsequenceOf(u, Expanded(asked))
    <3>0. Expanded(asked) = sent \o Rest
      BY <2>1 DEF Through, TextIs
    <3>1. CASE turn \notin turns
      BY <2>2, <2>3, <3>0, <3>1, SubsequenceOfLonger DEF UpTo
    <3>2. CASE turn \in turns
      <4>0. turn # "idle"
        BY <3>2
      <4>1. PICK r \in Seq(Char) : Rest = << Head(todo) >> \o r
        <5>1. CASE todo = << Tab >>
          BY <5>1, SentType DEF Rest, Sent
        <5>2. CASE todo # << Tab >>
          BY <2>0, <4>0, <5>2, Heads DEF Rest
        <5> QED BY <5>1, <5>2
      <4>2. /\ Head(todo) \in Char /\ << Head(todo) >> \in Seq(Char)
            /\ Append(sent, Head(todo)) \in Seq(Char)
        BY <2>0, <4>0, Heads, AppendProperties
      <4>3. Append(sent, Head(todo)) = sent \o << Head(todo) >>
        BY <4>2, AppendIsConcat
      <4>4. Expanded(asked) = Append(sent, Head(todo)) \o r
        <5>1. (sent \o << Head(todo) >>) \o r = sent \o (<< Head(todo) >> \o r)
          BY <4>1, <4>2, ConcatAssociative
        <5> QED BY <3>0, <4>1, <4>3, <5>1
      <4>5. SubsequenceOf(u, Append(sent, Head(todo)))
        BY <2>3, <3>2 DEF UpTo
      <4> QED BY <4>2, <4>4, <4>5, SubsequenceOfLonger
    <3> QED BY <3>1, <3>2
  <2>4. line \o thr \in Seq(Char) /\ paper \in Seq(Char)
    BY <2>0, LineType DEF OutputType
  <2>5. /\ SubsequenceOf(line \o thr, UpTo(sent, {"lpt", "cga"}))
        /\ SubsequenceOf(paper, UpTo(sent, {"cga"}))
    BY <2>1 DEF Through, SerialTook, PrinterTook
  <2>6. SubsequenceOf(line \o thr, Expanded(asked))
    BY <2>3, <2>4, <2>5
  <2>7. SubsequenceOf(paper, Expanded(asked))
    BY <2>3, <2>4, <2>5
  <2> QED BY <2>6, <2>7 DEF NothingReordered
<1> QED BY <1>1, OutputInvariant, PTL
=============================================================================
