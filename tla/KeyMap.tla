------------------------------- MODULE KeyMap -------------------------------
(***************************************************************************)
(* The pure part of the keyboard driver of kern/console.c: the key tables  *)
(* and the decoding of one scan-code byte, as kbd_proc_data() does it once *)
(* it has read the byte from the controller.                               *)
(*                                                                         *)
(* The bit mask `shift' of the C code is a set of flags here: |= is union, *)
(* &= ~ is set difference and ^= is symmetric difference.  Characters and  *)
(* scan codes are their numeric values, as in C.                           *)
(***************************************************************************)
EXTENDS Integers, Sequences

Byte == 0 .. 255

NO == 0          \* a key that produces no character

(* The bits of `shift' *)
Modifiers == {"SHIFT", "CTL", "ALT"}
Locks     == {"CAPSLOCK", "NUMLOCK", "SCROLLLOCK"}
Flags     == Modifiers \cup Locks \cup {"E0ESC"}

(* Characters and key codes the code names *)
BS      == 8
Newline == 10
Return  == 13
KEY_DEL == \hE9

(***************************************************************************)
(* shiftcode[] and togglecode[]: the flags a scan code sets, and the locks *)
(* it toggles.                                                             *)
(***************************************************************************)
shiftcode(data) ==
  IF data \in {\h1D, \h9D} THEN {"CTL"}
  ELSE IF data \in {\h2A, \h36} THEN {"SHIFT"}
  ELSE IF data \in {\h38, \hB8} THEN {"ALT"}
  ELSE {}

togglecode(data) ==
  IF data = \h3A THEN {"CAPSLOCK"}
  ELSE IF data = \h45 THEN {"NUMLOCK"}
  ELSE IF data = \h46 THEN {"SCROLLLOCK"}
  ELSE {}

(***************************************************************************)
(* The rows 0x00-0x57 of the three tables, as character codes.             *)
(***************************************************************************)
NormalRow ==
  << 0, 27, 49, 50, 51, 52, 53, 54, 55, 56, 57, 48, 45, 61, 8, 9,
     113, 119, 101, 114, 116, 121, 117, 105, 111, 112, 91, 93, 10, 0, 97, 115,
     100, 102, 103, 104, 106, 107, 108, 59, 39, 96, 0, 92, 122, 120, 99, 118,
     98, 110, 109, 44, 46, 47, 0, 42, 0, 32, 0, 0, 0, 0, 0, 0,
     0, 0, 0, 0, 0, 0, 0, 55, 56, 57, 45, 52, 53, 54, 43, 49,
     50, 51, 48, 46, 0, 0, 0, 0 >>

ShiftRow ==
  << 0, 27, 33, 64, 35, 36, 37, 94, 38, 42, 40, 41, 95, 43, 8, 9,
     81, 87, 69, 82, 84, 89, 85, 73, 79, 80, 123, 125, 10, 0, 65, 83,
     68, 70, 71, 72, 74, 75, 76, 58, 34, 126, 0, 124, 90, 88, 67, 86,
     66, 78, 77, 60, 62, 63, 0, 42, 0, 32, 0, 0, 0, 0, 0, 0,
     0, 0, 0, 0, 0, 0, 0, 55, 56, 57, 45, 52, 53, 54, 43, 49,
     50, 51, 48, 46, 0, 0, 0, 0 >>

(* C('/') is '/' - '@' = -17, which a uint8_t holds as 239. *)
CtlRow ==
  << 0, 0, 0, 0, 0, 0, 0, 0, 0, 0, 0, 0, 0, 0, 0, 0,
     17, 23, 5, 18, 20, 25, 21, 9, 15, 16, 0, 0, 13, 0, 1, 19,
     4, 6, 7, 8, 10, 11, 12, 0, 0, 0, 0, 28, 26, 24, 3, 22,
     2, 14, 13, 0, 0, 239, 0, 0 >>

(***************************************************************************)
(* The E0 block: KEY_UP (0xC8) to KEY_DEL (0xD3) are the same in all three *)
(* tables.  The plain tables also have keypad Enter, keypad '/' and        *)
(* KEY_HOME at 0xC7; ctlmap has KEY_HOME at 0x97 and no keypad Enter.      *)
(***************************************************************************)
SpecialRow == << \hE2, \hE6, NO, \hE4, NO, \hE5, NO, \hE1, \hE3, \hE7, \hE8, KEY_DEL >>

SpecialKey(data) == IF data \in \hC8 .. \hD3 THEN SpecialRow[data - \hC7] ELSE NO

PlainExtra(data) == IF data = \h9C THEN Newline
                    ELSE IF data = \hB5 THEN 47
                    ELSE IF data = \hC7 THEN \hE0
                    ELSE SpecialKey(data)

CtlExtra(data) == IF data = \h97 THEN \hE0
                  ELSE IF data = \hB5 THEN 239
                  ELSE SpecialKey(data)

normalmap == [data \in Byte |-> IF data < Len(NormalRow) THEN NormalRow[data + 1]
                                ELSE PlainExtra(data)]
shiftmap  == [data \in Byte |-> IF data < Len(ShiftRow) THEN ShiftRow[data + 1]
                                ELSE PlainExtra(data)]
ctlmap    == [data \in Byte |-> IF data < Len(CtlRow) THEN CtlRow[data + 1]
                                ELSE CtlExtra(data)]

(* charcode[shift & (CTL | SHIFT)] *)
charcode(shift) == IF "CTL" \in shift THEN ctlmap
                   ELSE IF "SHIFT" \in shift THEN shiftmap
                   ELSE normalmap

(* The case swap of CAPSLOCK: 'a'..'z' and 'A'..'Z' change places. *)
SwapCase(c) == IF c \in 97 .. 122 THEN c - 32
               ELSE IF c \in 65 .. 90 THEN c + 32
               ELSE c

(***************************************************************************)
(* Scan(shift, data) is what kbd_proc_data() makes of byte `data' when its *)
(* static variable is `shift': the new value of that variable, the         *)
(* character it returns (0 for none) and whether it asked for a reboot.    *)
(***************************************************************************)
Toggle(S, T) == (S \ T) \cup (T \ S)

NoChar(shift) == [shift |-> shift, c |-> NO, reboot |-> FALSE]

(* A key was released. *)
ReleaseCode(shift, data) == IF "E0ESC" \in shift THEN data ELSE data - \h80

(* Mutants: E0ESC is not cleared, the modifier is not cleared, a released *)
(* key gives its character.                                               *)
ReleaseKeepsEscape(shift, data) ==
  NoChar(shift \ shiftcode(ReleaseCode(shift, data)))

ReleaseKeepsModifier(shift, data) == NoChar(shift \ {"E0ESC"})

ReleaseTypes(shift, data) ==
  LET code == ReleaseCode(shift, data)
  IN  [NoChar(shift \ (shiftcode(code) \cup {"E0ESC"})) EXCEPT !.c = charcode(shift)[code]]

ScanRelease(shift, data) ==
  NoChar(shift \ (shiftcode(ReleaseCode(shift, data)) \cup {"E0ESC"}))

(* A key was pressed, or is repeated. *)
PressCode(shift, data) == IF "E0ESC" \in shift THEN data + \h80 ELSE data

PressShift(shift, code) ==
  Toggle((shift \ {"E0ESC"}) \cup shiftcode(code), togglecode(code))

PressChar(shift, code) ==
  LET c == charcode(shift)[code]
  IN  IF "CAPSLOCK" \in shift THEN SwapCase(c) ELSE c

(* Mutant: either of the two modifiers is enough. *)
RebootsEasily(shift, c) == {"CTL", "ALT"} \cap shift # {} /\ c = KEY_DEL

(* Ctrl-Alt-Del: reboot *)
Reboots(shift, c) == {"CTL", "ALT"} \subseteq shift /\ c = KEY_DEL

ScanPress(shift, data) ==
  LET code == PressCode(shift, data)
      s    == PressShift(shift, code)
      c    == PressChar(s, code)
  IN  [shift |-> s, c |-> c, reboot |-> Reboots(s, c)]

Scan(shift, data) ==
  IF data = \hE0 THEN NoChar(shift \cup {"E0ESC"})
  ELSE IF data >= \h80 THEN ScanRelease(shift, data)
  ELSE ScanPress(shift, data)

VARIABLE shift   \* the static variable of kbd_proc_data()
=============================================================================
