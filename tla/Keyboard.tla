------------------------------ MODULE Keyboard ------------------------------
(***************************************************************************)
(* The keyboard driver against a keyboard with physical keys: does the     *)
(* static variable `shift' of kbd_proc_data(), kern/console.c, keep track  *)
(* of the keys that are held?  The driver sees only bytes, one a call, and *)
(* it sees them late: the keys move on while bytes wait in the controller. *)
(*                                                                         *)
(* A key is the index under which the tables of the driver know it: its    *)
(* scan code, plus 0x80 if the code is preceded by the prefix 0xE0.        *)
(***************************************************************************)
EXTENDS KeyMap

CONSTANTS
  Keys,       \* the keys of the keyboard
  WireSize    \* how many key events the keyboard and the controller hold

(* No key's scan code is 0x60, whose break code would read as the prefix.  *)
ASSUME KeysAssumption == Keys \subseteq {k \in Byte : k % \h80 # \h60}
ASSUME WireAssumption == WireSize \in Nat \ {0}

VARIABLES
  down,    \* the keys held right now
  wire,    \* the key events on their way to the driver, oldest first
  lost,    \* has the keyboard ever dropped an event for lack of room?
  mid,     \* has the driver read the prefix of the first event of `wire'?
  seen,    \* the keys held after the last event the driver read completely
  last     \* what kbd_proc_data() made of the last byte, and of which event

keyboardVars == << down, wire, lost, mid, seen, shift, last >>

Event == [key : Keys, make : BOOLEAN]

After(held, e) == IF e.make THEN held \cup {e.key} ELSE held \ {e.key}

-----------------------------------------------------------------------------
(* The keyboard queues an event, or drops it when there is no room for it. *)
Send(e) ==
  /\ down' = After(down, e)
  /\ IF Len(wire) < WireSize
     THEN wire' = Append(wire, e) /\ UNCHANGED lost
     ELSE lost' = TRUE /\ UNCHANGED wire
  /\ UNCHANGED << mid, seen, shift, last >>

Press(k)   == k \notin down /\ Send([key |-> k, make |-> TRUE])
Release(k) == k \in down /\ Send([key |-> k, make |-> FALSE])

(* The typematic repeat sends the make code of a held key again. *)
Repeat(k)  == k \in down /\ Send([key |-> k, make |-> TRUE])

-----------------------------------------------------------------------------
(***************************************************************************)
(* kbd_proc_data() reads one byte: the prefix of an event, or its code,    *)
(* which has the top bit set in a break.                                   *)
(***************************************************************************)
Extended(k) == k >= \h80

CodeByte(e) == (e.key % \h80) + (IF e.make THEN 0 ELSE \h80)

ReadPrefix ==
  /\ wire # << >> /\ Extended(Head(wire).key) /\ ~mid
  /\ LET r == Scan(shift, \hE0)
     IN  /\ shift' = r.shift
         /\ last' = [c |-> r.c, reboot |-> r.reboot, event |-> Head(wire)]
  /\ mid' = TRUE
  /\ UNCHANGED << down, wire, lost, seen >>

ReadCode ==
  /\ wire # << >> /\ (Extended(Head(wire).key) => mid)
  /\ LET e == Head(wire)
         r == Scan(shift, CodeByte(e))
     IN  /\ shift' = r.shift
         /\ last' = [c |-> r.c, reboot |-> r.reboot, event |-> e]
         /\ seen' = After(seen, e)
  /\ mid' = FALSE
  /\ wire' = Tail(wire)
  /\ UNCHANGED << down, lost >>

(***************************************************************************)
(* Initially the driver has read nothing and no key is held.  (The static  *)
(* variable is cleared with the BSS; a key held across a reboot would be   *)
(* seen as one not held until it moves.)                                   *)
(***************************************************************************)
NoEvent == [c |-> NO, reboot |-> FALSE, event |-> << >>]

KeyboardInit ==
  /\ down = {} /\ wire = << >> /\ lost = FALSE
  /\ mid = FALSE /\ seen = {} /\ shift = {}
  /\ last = NoEvent

KeyboardNext ==
  \/ \E k \in Keys : Press(k) \/ Release(k) \/ Repeat(k)
  \/ ReadPrefix
  \/ ReadCode

KeyboardSpec == KeyboardInit /\ [][KeyboardNext]_keyboardVars

-----------------------------------------------------------------------------
KeyboardTypeOK ==
  /\ down \in SUBSET Keys /\ seen \in SUBSET Keys
  /\ wire \in Seq(Event) /\ Len(wire) <= WireSize
  /\ lost \in BOOLEAN /\ mid \in BOOLEAN
  /\ shift \in SUBSET Flags
  /\ \/ last = NoEvent
     \/ last \in [c : Byte, reboot : BOOLEAN, event : Event]

KeysOf(m) == {k \in Keys : shiftcode(k) = {m}}

(***************************************************************************)
(* The decoder is in step with the events: E0ESC is set between a prefix   *)
(* and its code and at no other time.                                      *)
(***************************************************************************)
EscapeInStep == ("E0ESC" \in shift) <=> mid

(* The prefix that was read belongs to the first event of the wire. *)
PrefixHasCode == mid => wire # << >> /\ Extended(Head(wire).key)

(***************************************************************************)
(* A modifier bit is set only while a key of that modifier is held, and is *)
(* set when all of them are.  (With one of two Shift keys released the bit *)
(* is cleared although the other is held, so there is no equivalence.)     *)
(***************************************************************************)
ModifiersFollowEvents ==
  \A m \in Modifiers :
    /\ m \in shift => KeysOf(m) \cap seen # {}
    /\ (KeysOf(m) # {} /\ KeysOf(m) \subseteq seen) => m \in shift

(***************************************************************************)
(* The machine is rebooted only when Del went down while a Ctrl and an Alt *)
(* key were held ("Ctrl-Alt-Del: reboot"); keypad '.' does not count, and  *)
(* no byte is taken for Del because a prefix was forgotten or kept.        *)
(***************************************************************************)
RebootIsChord ==
  last.reboot => /\ last.event.make /\ last.event.key = \hD3
                 /\ KeysOf("CTL") \cap seen # {}
                 /\ KeysOf("ALT") \cap seen # {}

(***************************************************************************)
(* A character comes from a make event, and from the column of the tables  *)
(* that belongs to the key of that event, up to the case of a letter.      *)
(***************************************************************************)
CharsOf(k) == LET plain == {normalmap[k], shiftmap[k], ctlmap[k]}
              IN  plain \cup {SwapCase(c) : c \in plain}

CharOfItsKey ==
  last.c # NO => last.event.make /\ last.c \in CharsOf(last.event.key)
=============================================================================
