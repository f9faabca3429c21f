------------------------------ MODULE Readline ------------------------------
(***************************************************************************)
(* The line editor lib/readline.c on the screen of kern/console.c.  It     *)
(* keeps the line in a static buffer and lets the console echo each edit;  *)
(* the user sees only the echo.  The two are changed by different code:    *)
(* that they agree is what this module is about.                           *)
(***************************************************************************)
EXTENDS Cga, Sequences

CONSTANTS
  BUFLEN,     \* bytes of the buffer (1024 in the code)
  Prompts,    \* the characters that others print between two lines
  Typed       \* the characters getchar() may return

(* A full line and the row the cursor stands in fit on the screen (1023    *)
(* characters and 80 cells on one of 2000).                                *)
ASSUME BuflenAssumption == /\ BUFLEN \in Nat /\ BUFLEN >= 1
                           /\ BUFLEN - 1 <= CRT_SIZE - CRT_COLS

ASSUME TypedAssumption == /\ Typed \subseteq 1 .. 255
                          /\ Prompts \subseteq Char \ {Tab}

VARIABLES
  buf, i,  \* the buffer and the number of characters in it
  pc,      \* "away" from readline(), in its loop, or just "returned"
  kept     \* history: what was typed since the call, less what was erased

editor == << scr, buf, i, pc >>
vars == << editor, kept >>

Delete == 127

(* Mutant: an empty line can be erased. *)
ErasesAlways(c) == c \in {BS, Delete}

Erases(c) == c \in {BS, Delete} /\ i > 0

-----------------------------------------------------------------------------
(* cprintf(): the prompt, or what the commands print. *)
Cprintf ==
  /\ pc # "reading"
  /\ \E c \in Prompts : scr' = CgaPut(scr, c)
  /\ pc' = "away"
  /\ UNCHANGED << buf, i, kept >>

Call ==
  /\ pc # "reading"
  /\ i' = 0
  /\ pc' = "reading"
  /\ kept' = << >>
  /\ UNCHANGED << scr, buf >>

(* Mutant: the key itself is echoed, which shows a glyph for DEL. *)
EraseEchoesKey(c) ==
  /\ Erases(c)
  /\ scr' = CgaPut(scr, c)
  /\ i' = i - 1
  /\ UNCHANGED << buf, pc >>

Erase(c) ==
  /\ Erases(c)
  /\ scr' = CgaPut(scr, BS)
  /\ i' = i - 1
  /\ UNCHANGED << buf, pc >>

(* Mutant: the last place, the terminator's, is used for a character. *)
StoreLast(c) ==
  /\ ~Erases(c) /\ c >= Blank /\ i < BUFLEN
  /\ scr' = CgaPut(scr, c)
  /\ buf' = [buf EXCEPT ![i] = c]
  /\ i' = i + 1
  /\ UNCHANGED pc

(* DEL on an empty line is an ordinary character: it is >= ' '. *)
Store(c) ==
  /\ ~Erases(c) /\ c >= Blank /\ i < BUFLEN - 1
  /\ scr' = CgaPut(scr, c)
  /\ buf' = [buf EXCEPT ![i] = c]
  /\ i' = i + 1
  /\ UNCHANGED pc

Enter(c) ==
  /\ c \in {Newline, Return}
  /\ scr' = CgaPut(scr, Newline)
  /\ buf' = [buf EXCEPT ![i] = 0]
  /\ pc' = "returned"
  /\ UNCHANGED i

(* Control characters are dropped, and so is what a full buffer cannot take. *)
Ignore(c) ==
  /\ ~Erases(c) /\ c \notin {Newline, Return}
  /\ c < Blank \/ i >= BUFLEN - 1
  /\ UNCHANGED editor

(* What a key does to a line: it takes the last character away, if there   *)
(* is one, adds itself, if there is room, or does nothing.                 *)
Edited(s, c) ==
  IF c \in {BS, Delete} /\ s # << >> THEN SubSeq(s, 1, Len(s) - 1)
  ELSE IF c >= Blank /\ Len(s) < BUFLEN - 1 THEN Append(s, c)
  ELSE s

Key(c) ==
  /\ pc = "reading"
  /\ Erase(c) \/ Store(c) \/ Enter(c) \/ Ignore(c)
  /\ kept' = Edited(kept, c)

-----------------------------------------------------------------------------
Init ==
  /\ scr \in {StartScreen(p) : p \in Cells}
  /\ buf = [k \in 0 .. BUFLEN - 1 |-> 0]
  /\ i = 0
  /\ pc = "away"
  /\ kept = << >>

Next == Cprintf \/ Call \/ \E c \in Typed : Key(c)

Spec == Init /\ [][Next]_vars

-----------------------------------------------------------------------------
TypeOK ==
  /\ scr \in Screens
  /\ buf \in [0 .. BUFLEN - 1 -> Char]
  /\ i \in 0 .. BUFLEN - 1
  /\ pc \in {"away", "reading", "returned"}
  /\ kept \in Seq(Char)

(***************************************************************************)
(* What you see is what you get: while a line is edited, the cells before  *)
(* the cursor show the characters of the buffer, however often the line    *)
(* wrapped, the screen scrolled or characters were erased.                 *)
(***************************************************************************)
LineEchoed ==
  pc = "reading" =>
    /\ i <= scr.pos
    /\ \A k \in 0 .. i - 1 : scr.cells[scr.pos - i + k] = buf[k]

(***************************************************************************)
(* The string readline() returns is what the user typed less what he       *)
(* erased, however the two were mixed and however often the buffer was     *)
(* full: these characters, none of them a control character, and then the  *)
(* terminator, inside the buffer.                                          *)
(***************************************************************************)
LineReturned ==
  pc # "away" =>
    /\ Len(kept) = i
    /\ \A k \in 0 .. i - 1 : buf[k] = kept[k + 1] /\ buf[k] >= Blank
    /\ pc = "returned" => buf[Len(kept)] = 0

(***************************************************************************)
(* Editing leaves alone what was on the screen before the line: each edit  *)
(* keeps the line's first cell where it is, and all the cells before it,   *)
(* or all of them move up together by one row.                             *)
(***************************************************************************)
FirstCell == scr.pos - i

RestUntouched ==
  [][pc = "reading" /\ pc' = "reading" =>
       \E up \in {0, CRT_COLS} :
         /\ FirstCell' = FirstCell - up
         /\ \A p \in 0 .. FirstCell' - 1 : scr'.cells[p] = scr.cells[p + up]]_vars
=============================================================================
