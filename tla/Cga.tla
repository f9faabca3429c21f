-------------------------------- MODULE Cga ---------------------------------
(***************************************************************************)
(* The text display of kern/console.c: what cga_putc() does to the cursor  *)
(* crt_pos and to the cells crt_buf.  A screen is a record of the two.     *)
(* A cell holds its character; the attribute byte is left out.             *)
(***************************************************************************)
EXTENDS Integers

CONSTANTS CRT_ROWS, CRT_COLS     \* 25 and 80 in kern/console.h

VARIABLE scr     \* the screen

ASSUME ScreenAssumption == /\ CRT_ROWS \in Nat /\ CRT_ROWS >= 2
                           /\ CRT_COLS \in Nat /\ CRT_COLS >= 1

CRT_SIZE == CRT_ROWS * CRT_COLS

Cells == 0 .. CRT_SIZE - 1

BS      == 8
Tab     == 9
Newline == 10
Return  == 13
Blank   == 32

Char == 0 .. 255

Screens == [pos : Cells, cells : [Cells -> Char]]

(***************************************************************************)
(* The switch of cga_putc().  A tab is not here: cga_putc() passes five    *)
(* spaces to cons_putc() instead, and these come back one by one.          *)
(***************************************************************************)
LineStart(p) == p - (p % CRT_COLS)

Write(s, c) ==
  IF c = BS
  THEN IF s.pos > 0
       THEN [pos |-> s.pos - 1, cells |-> [s.cells EXCEPT ![s.pos - 1] = Blank]]
       ELSE s
  ELSE IF c = Newline THEN [s EXCEPT !.pos = LineStart(s.pos + CRT_COLS)]
  ELSE IF c = Return THEN [s EXCEPT !.pos = LineStart(s.pos)]
  ELSE [pos |-> s.pos + 1, cells |-> [s.cells EXCEPT ![s.pos] = c]]

(* Past the end of the screen, all rows move up by one. *)
Scroll(s) ==
  IF s.pos < CRT_SIZE
  THEN s
  ELSE [pos   |-> s.pos - CRT_COLS,
        cells |-> [p \in Cells |-> IF p < CRT_SIZE - CRT_COLS
                                   THEN s.cells[p + CRT_COLS]
                                   ELSE Blank]]

CgaPut(s, c) == Scroll(Write(s, c))

(* cga_init() takes the cursor from the hardware, wherever the BIOS left it. *)
StartScreen(p) == [pos |-> p, cells |-> [q \in Cells |-> Blank]]
=============================================================================
