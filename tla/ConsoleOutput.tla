--------------------------- MODULE ConsoleOutput ----------------------------
(***************************************************************************)
(* Console output, kern/console.c: cons_putc() gives each character to the *)
(* serial port, the printer port and the screen, in this order.  The first *)
(* two are waited for, but only so long: a device that never gets ready    *)
(* must not hang the kernel, and a character it misses is gone.            *)
(*                                                                         *)
(* A tab is special: cga_putc('\t') calls cons_putc(' ') five times, from  *)
(* inside the cons_putc('\t') that called it.                              *)
(***************************************************************************)
EXTENDS Cga, SequencesExt

CONSTANTS
  Printable,  \* the characters that may be printed
  MaxWait,    \* polls before the wait for a device ends (12800 in the code)
  MaxPut,     \* bound on the characters printed
  BiosCursor  \* where cga_init() finds the cursor

ASSUME TextAssumption == Printable \subseteq Char
ASSUME CursorAssumption == BiosCursor \in Cells
ASSUME WaitAssumption == MaxWait \in Nat \ {0} /\ MaxPut \in Nat

VARIABLES
  asked,        \* the characters cputchar() was called with
  todo,         \* the cons_putc() in progress: its character and those that
                \* cga_putc() will still print for it
  turn,         \* which device has its turn
  tries,        \* the counter of the wait loop
  uart,         \* is there a serial port?
  thr, line,    \* its transmit register and what went out on the line
  printing,     \* is the printer busy?
  paper,        \* what it took
  late          \* the devices that were not ready when their wait ended

kernel  == << todo, turn, tries >>
serial  == << thr, line >>
printer == << printing, paper >>
outputVars ==
  << asked, todo, turn, tries, uart, thr, line, printing, paper, scr, late >>

-----------------------------------------------------------------------------
(* The devices, at their own pace or never. *)
Transmit ==
  /\ thr # << >>
  /\ line' = line \o thr
  /\ thr' = << >>
  /\ UNCHANGED << asked, kernel, uart, printer, scr, late >>

Printed ==
  /\ printing
  /\ printing' = FALSE
  /\ UNCHANGED << asked, kernel, uart, serial, paper, scr, late >>

-----------------------------------------------------------------------------
Putc ==
  /\ todo = << >> /\ Len(asked) < MaxPut
  /\ \E c \in Printable : todo' = << c >> /\ asked' = Append(asked, c)
  /\ turn' = "serial" /\ tries' = 0
  /\ UNCHANGED << uart, serial, printer, scr, late >>

(* The wait loops of serial_putc() and lpt_putc(). *)
Ready == IF turn = "serial" THEN uart => thr = << >> ELSE ~printing

Wait ==
  /\ turn \in {"serial", "lpt"} /\ ~Ready /\ tries < MaxWait
  /\ tries' = tries + 1
  /\ UNCHANGED << asked, todo, turn, uart, serial, printer, scr, late >>

(* Mutant: the wait has no bound. *)
WaitForever == Ready

WaitOver == Ready \/ tries >= MaxWait

(* Mutants: no wait at all; a late character is sent again. *)
SerialPutcAtOnce ==
  /\ turn = "serial"
  /\ thr' = IF uart THEN << Head(todo) >> ELSE thr
  /\ turn' = "lpt" /\ tries' = 0
  /\ UNCHANGED << asked, todo, uart, line, printer, scr, late >>

SerialPutcAgain ==
  /\ turn = "serial" /\ WaitOver
  /\ thr' = IF uart THEN << Head(todo) >> ELSE thr
  /\ late' = IF Ready THEN late ELSE late \cup {"serial"}
  /\ turn' = IF Ready THEN "lpt" ELSE "serial"
  /\ tries' = 0
  /\ UNCHANGED << asked, todo, uart, line, printer, scr >>

(* Without a port, nothing is there to wait for and nothing takes the byte. *)
SerialPutc ==
  /\ turn = "serial" /\ WaitOver
  /\ thr' = IF uart THEN << Head(todo) >> ELSE thr
  /\ late' = IF Ready THEN late ELSE late \cup {"serial"}
  /\ turn' = "lpt" /\ tries' = 0
  /\ UNCHANGED << asked, todo, uart, line, printer, scr >>

(* Mutant: the printer is not waited for. *)
LptPutcAtOnce ==
  /\ turn = "lpt"
  /\ IF Ready
     THEN printing' = TRUE /\ paper' = Append(paper, Head(todo))
     ELSE UNCHANGED printer
  /\ turn' = "cga" /\ tries' = 0
  /\ UNCHANGED << asked, todo, uart, serial, scr, late >>

LptPutc ==
  /\ turn = "lpt" /\ WaitOver
  /\ IF Ready
     THEN printing' = TRUE /\ paper' = Append(paper, Head(todo)) /\ UNCHANGED late
     ELSE late' = late \cup {"lpt"} /\ UNCHANGED printer
  /\ turn' = "cga" /\ tries' = 0
  /\ UNCHANGED << asked, todo, uart, serial, scr >>

Spaces == << Blank, Blank, Blank, Blank, Blank >>

(* Mutant: a tab prints nothing on the screen. *)
CgaPutcNoTab ==
  /\ turn = "cga"
  /\ todo' = Tail(todo)
  /\ scr' = IF Head(todo) = Tab THEN scr ELSE CgaPut(scr, Head(todo))
  /\ turn' = IF todo' = << >> THEN "idle" ELSE "serial"
  /\ UNCHANGED << asked, tries, uart, serial, printer, late >>

CgaPutc ==
  /\ turn = "cga"
  /\ IF Head(todo) = Tab
     THEN todo' = Spaces \o Tail(todo) /\ UNCHANGED scr
     ELSE todo' = Tail(todo) /\ scr' = CgaPut(scr, Head(todo))
  /\ turn' = IF todo' = << >> THEN "idle" ELSE "serial"
  /\ UNCHANGED << asked, tries, uart, serial, printer, late >>

-----------------------------------------------------------------------------
OutputInit ==
  /\ asked = << >> /\ todo = << >> /\ turn = "idle" /\ tries = 0
  /\ uart \in BOOLEAN
  /\ thr = << >> /\ line = << >>
  /\ printing \in BOOLEAN /\ paper = << >>
  /\ scr = StartScreen(BiosCursor)
  /\ late = {}

Device == Transmit \/ Printed

Kernel == Wait \/ SerialPutc \/ LptPutc \/ CgaPutc

OutputNext == Device \/ Putc \/ Kernel

OutputSpec == OutputInit /\ [][OutputNext]_outputVars

(* Only the kernel is sure to go on: a device may be dead. *)
OutputFairSpec == OutputSpec /\ WF_outputVars(Kernel)

-----------------------------------------------------------------------------
(* What a device should get: a tab is sent, and its spaces after it.  What *)
(* the screen should show: all but the tab.                                *)
Sent(c)     == IF c = Tab THEN << Tab >> \o Spaces ELSE << c >>
Show(sc, c) == IF c = Tab THEN sc ELSE CgaPut(sc, c)

Expanded(text) == FoldLeft(LAMBDA sent, c : sent \o Sent(c), << >>, text)
Shown(text)    == FoldLeft(Show, StartScreen(BiosCursor), text)

(***************************************************************************)
(* Between two calls, each device has had the whole text, in order and     *)
(* once, unless the device was late; and whatever happened to the others,  *)
(* the screen shows the whole text.                                        *)
(***************************************************************************)
PortsGotText ==
  turn = "idle" =>
    /\ uart /\ "serial" \notin late => line \o thr = Expanded(asked)
    /\ "lpt" \notin late => paper = Expanded(asked)

ScreenShowsText ==
  turn = "idle" => scr = Shown(Expanded(asked))

(***************************************************************************)
(* A late device misses characters, but it never gets one twice or out of  *)
(* order: at any time it has had a subsequence of the text, matched here   *)
(* greedily.                                                               *)
(***************************************************************************)
Matched(s, t) ==
  FoldLeft(LAMBDA k, c : IF k < Len(s) /\ s[k + 1] = c THEN k + 1 ELSE k, 0, t)

SubsequenceOf(s, t) == Matched(s, t) = Len(s)

NothingReordered ==
  /\ SubsequenceOf(line \o thr, Expanded(asked))
  /\ SubsequenceOf(paper, Expanded(asked))

(* cons_putc() returns, even if neither the port nor the printer ever gets ready. *)
PutcReturns == turn # "idle" ~> turn = "idle"
=============================================================================
