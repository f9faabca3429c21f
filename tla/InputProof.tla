----------------------------- MODULE InputProof ------------------------------
(***************************************************************************)
(* The shift state of the keyboard's decoder follows the keys, for every   *)
(* keyboard and every amount of delay, dropped events included.  And the   *)
(* circular buffer of the console implements the queue of CharQueue, for   *)
(* every buffer size and all sets of input bytes, as long as the input     *)
(* never gets CONSBUFSIZE or more characters ahead of the kernel.          *)
(***************************************************************************)
EXTENDS Keyboard, ConsoleInput, SequenceTheorems, TLAPS

-----------------------------------------------------------------------------
(* The rows of the tables have the lengths their definitions rely on and   *)
(* hold bytes only.                                                        *)
LEMMA RowsHoldBytes ==
  /\ Len(NormalRow) = 88 /\ \A i \in 1 .. 88 : NormalRow[i] \in Byte
  /\ Len(ShiftRow) = 88 /\ \A i \in 1 .. 88 : ShiftRow[i] \in Byte
  /\ Len(CtlRow) = 56 /\ \A i \in 1 .. 56 : CtlRow[i] \in Byte
<1>1. Len(NormalRow) = 88 /\ \A i \in 1 .. 88 : NormalRow[i] \in Byte
  BY DEF NormalRow, Byte
<1>2. Len(ShiftRow) = 88 /\ \A i \in 1 .. 88 : ShiftRow[i] \in Byte
  BY DEF ShiftRow, Byte
<1>3. Len(CtlRow) = 56 /\ \A i \in 1 .. 56 : CtlRow[i] \in Byte
  BY DEF CtlRow, Byte
<1> QED BY <1>1, <1>2, <1>3

(* Each of normalmap, shiftmap and ctlmap gives a byte for every scan code. *)
LEMMA MapsGiveBytes ==
  /\ normalmap \in [Byte -> Byte]
  /\ shiftmap \in [Byte -> Byte]
  /\ ctlmap \in [Byte -> Byte]
<1>1. \A d \in Byte : SpecialKey(d) \in Byte
  BY DEF SpecialKey, SpecialRow, Byte, KEY_DEL, NO
<1>2. \A d \in Byte : PlainExtra(d) \in Byte /\ CtlExtra(d) \in Byte
  <2> TAKE d \in Byte
  <2>1. SpecialKey(d) \in Byte
    BY <1>1
  <2>2. {Newline, 47, 224, 239} \subseteq Byte
    BY DEF Byte, Newline
  <2>3. PlainExtra(d) \in {Newline, 47, 224, SpecialKey(d)}
    BY DEF PlainExtra
  <2>4. CtlExtra(d) \in {224, 239, SpecialKey(d)}
    BY DEF CtlExtra
  <2> QED BY <2>1, <2>2, <2>3, <2>4
<1>3. \A d \in Byte : normalmap[d] \in Byte /\ shiftmap[d] \in Byte
  <2> TAKE d \in Byte
  <2>1. CASE d < 88
    <3>1. d + 1 \in 1 .. 88
      BY <2>1 DEF Byte
    <3> QED BY <2>1, <3>1, RowsHoldBytes DEF normalmap, shiftmap
  <2>2. CASE ~(d < 88)
    BY <2>2, <1>2, RowsHoldBytes DEF normalmap, shiftmap
  <2> QED BY <2>1, <2>2
<1>4. \A d \in Byte : ctlmap[d] \in Byte
  <2> TAKE d \in Byte
  <2>1. CASE d < 56
    <3>1. d + 1 \in 1 .. 56
      BY <2>1 DEF Byte
    <3> QED BY <2>1, <3>1, RowsHoldBytes DEF ctlmap
  <2>2. CASE ~(d < 56)
    BY <2>2, <1>2, RowsHoldBytes DEF ctlmap
  <2> QED BY <2>1, <2>2
<1> QED BY <1>3, <1>4 DEF normalmap, shiftmap, ctlmap

(* Whatever byte the keyboard sends, in whatever shift state, the decoder  *)
(* leaves a set of known flags and returns a character that fits a byte.   *)
LEMMA ScanType ==
  ASSUME NEW sh \in SUBSET Flags, NEW data \in Byte
  PROVE  Scan(sh, data) \in [shift : SUBSET Flags, c : Byte, reboot : BOOLEAN]
<1>1. \A c \in Byte : SwapCase(c) \in Byte
  BY DEF SwapCase, Byte
<1>2. \A s : charcode(s) \in [Byte -> Byte]
  BY MapsGiveBytes DEF charcode
<1>3. \A d : shiftcode(d) \in SUBSET Flags /\ togglecode(d) \in SUBSET Flags
  BY DEF shiftcode, togglecode, Flags, Locks, Modifiers
<1>4. \A S, T \in SUBSET Flags : Toggle(S, T) \in SUBSET Flags
  BY DEF Toggle
<1>5. NO \in Byte /\ \A s \in SUBSET Flags :
        NoChar(s) \in [shift : SUBSET Flags, c : Byte, reboot : BOOLEAN]
  BY DEF NO, Byte, NoChar
<1>6. CASE data = 224
  BY <1>5, <1>6 DEF Scan, Flags
<1>7. CASE data # 224 /\ data >= 128
  BY <1>7, <1>3, <1>5 DEF Scan, ScanRelease
<1>8. CASE data < 128
  <2> DEFINE code == PressCode(sh, data)
             s    == PressShift(sh, code)
             c    == PressChar(s, code)
  <2>1. code \in Byte
    BY <1>8 DEF Byte, PressCode
  <2>2. s \in SUBSET Flags
    BY <1>3, <1>4 DEF PressShift
  <2>3. c \in Byte
    BY <2>1, <1>1, <1>2 DEF PressChar
  <2> HIDE DEF code, s, c
  <2>4. Scan(sh, data) = [shift |-> s, c |-> c, reboot |-> Reboots(s, c)]
    BY <1>8 DEF Scan, ScanPress, Byte, code, s, c
  <2>5. Reboots(s, c) \in BOOLEAN
    BY DEF Reboots
  <2> QED BY <2>2, <2>3, <2>4, <2>5
<1> QED BY <1>6, <1>7, <1>8 DEF Byte

-----------------------------------------------------------------------------
(* Del is the only key any of the three tables maps to KEY_DEL.            *)
LEMMA OnlyDelIsDel ==
  \A d \in Byte : (\/ normalmap[d] = KEY_DEL
                   \/ shiftmap[d] = KEY_DEL
                   \/ ctlmap[d] = KEY_DEL) => d = \hD3
<1>1. /\ \A i \in 1 .. 88 : NormalRow[i] # KEY_DEL
      /\ \A i \in 1 .. 88 : ShiftRow[i] # KEY_DEL
      /\ \A i \in 1 .. 56 : CtlRow[i] # KEY_DEL
  <2>1. \A i \in 1 .. 88 : NormalRow[i] # KEY_DEL
    BY DEF NormalRow, KEY_DEL
  <2>2. \A i \in 1 .. 88 : ShiftRow[i] # KEY_DEL
    BY DEF ShiftRow, KEY_DEL
  <2>3. \A i \in 1 .. 56 : CtlRow[i] # KEY_DEL
    BY DEF CtlRow, KEY_DEL
  <2> QED BY <2>1, <2>2, <2>3
<1>2. \A d \in Byte : PlainExtra(d) = KEY_DEL \/ CtlExtra(d) = KEY_DEL => d = \hD3
  BY DEF PlainExtra, CtlExtra, SpecialKey, SpecialRow, KEY_DEL, Newline, NO, Byte
<1>3. \A d \in Byte : d < 88 => d + 1 \in 1 .. 88
  BY DEF Byte
<1>4. \A d \in Byte : d < 56 => d + 1 \in 1 .. 56
  BY DEF Byte
<1>5. \A d \in Byte : normalmap[d] = KEY_DEL => d = \hD3
  BY <1>1, <1>2, <1>3, RowsHoldBytes DEF normalmap
<1>6. \A d \in Byte : shiftmap[d] = KEY_DEL => d = \hD3
  BY <1>1, <1>2, <1>3, RowsHoldBytes DEF shiftmap
<1>7. \A d \in Byte : ctlmap[d] = KEY_DEL => d = \hD3
  BY <1>1, <1>2, <1>4, RowsHoldBytes DEF ctlmap
<1> QED BY <1>5, <1>6, <1>7

-----------------------------------------------------------------------------
(* What the decoder does with the code byte of an event whose prefix, if   *)
(* it has one, went before: it finds the key again.                        *)
LEMMA ScanMake ==
  ASSUME NEW sh \in SUBSET Flags, NEW k \in Keys, "E0ESC" \in sh <=> Extended(k)
  PROVE  LET r == Scan(sh, CodeByte([key |-> k, make |-> TRUE]))
             s == PressShift(sh, k)
         IN  /\ r.shift = s
             /\ r.c = PressChar(s, k)
             /\ r.reboot = Reboots(s, PressChar(s, k))
<1> DEFINE data == CodeByte([key |-> k, make |-> TRUE])
<1>1. k \in Byte /\ data = k % \h80
  BY KeysAssumption DEF CodeByte, Byte
<1>2. data \in 0 .. 127
  BY <1>1 DEF Byte
<1>3. PressCode(sh, data) = k
  BY <1>1 DEF Extended, Byte, PressCode
<1>4. data # \hE0 /\ ~(data >= \h80)
  BY <1>2
<1> HIDE DEF data
<1>5. Scan(sh, data) = [shift |-> PressShift(sh, k), c |-> PressChar(PressShift(sh, k), k),
                        reboot |-> Reboots(PressShift(sh, k),
                                           PressChar(PressShift(sh, k), k))]
  BY <1>3, <1>4 DEF Scan, ScanPress
<1> QED BY <1>5 DEF data

LEMMA ScanBreak ==
  ASSUME NEW sh \in SUBSET Flags, NEW k \in Keys, "E0ESC" \in sh <=> Extended(k)
  PROVE  LET r == Scan(sh, CodeByte([key |-> k, make |-> FALSE]))
         IN  /\ r.shift = sh \ (shiftcode(k) \cup {"E0ESC"})
             /\ r.c = NO
             /\ r.reboot = FALSE
<1> DEFINE data == CodeByte([key |-> k, make |-> FALSE])
<1>1. k \in Byte /\ data = (k % \h80) + \h80 /\ k % \h80 # \h60
  BY KeysAssumption DEF CodeByte, Byte
<1>2. data \in 128 .. 255 /\ data # \hE0
  BY <1>1 DEF Byte
<1>3. ReleaseCode(sh, data) = k
  BY <1>1 DEF Extended, Byte, ReleaseCode
<1>4. data # \hE0 /\ data >= \h80
  BY <1>2
<1> HIDE DEF data
<1>5. Scan(sh, data) = NoChar(sh \ (shiftcode(k) \cup {"E0ESC"}))
  BY <1>3, <1>4 DEF Scan, ScanRelease
<1> QED BY <1>5 DEF data, NoChar

(* A make sets the modifier bit of its key and no other; a break clears it. *)
LEMMA ModifierBits ==
  ASSUME NEW sh \in SUBSET Flags, NEW k \in Keys, NEW m \in Modifiers
  PROVE  /\ m \in PressShift(sh, k)
              <=> m \in sh \/ shiftcode(k) = {m}
         /\ m \in sh \ (shiftcode(k) \cup {"E0ESC"})
              <=> m \in sh /\ shiftcode(k) # {m}
         /\ "E0ESC" \notin PressShift(sh, k)
  BY DEF Modifiers, PressShift, Toggle, shiftcode, togglecode

-----------------------------------------------------------------------------
KeyboardInv == KeyboardTypeOK /\ EscapeInStep /\ PrefixHasCode /\ ModifiersFollowEvents

LEMMA HeadEvent ==
  ASSUME KeyboardTypeOK, wire # << >>
  PROVE  /\ Head(wire) \in Event
         /\ Tail(wire) \in Seq(Event) /\ Len(Tail(wire)) <= WireSize
         /\ After(seen, Head(wire)) \in SUBSET Keys
         /\ CodeByte(Head(wire)) \in Byte
<1>1. /\ Head(wire) \in Event
      /\ Tail(wire) \in Seq(Event) /\ Len(Tail(wire)) = Len(wire) - 1
      /\ Len(wire) \in Nat
  BY HeadTailProperties, LenProperties DEF KeyboardTypeOK
<1>2. After(seen, Head(wire)) \in SUBSET Keys
  BY <1>1 DEF After, Event, KeyboardTypeOK
<1>3. CodeByte(Head(wire)) \in Byte
  <2>1. Head(wire).key \in Byte
    BY <1>1, KeysAssumption DEF Event
  <2>2. \A b \in Byte : b % \h80 \in Byte /\ (b % \h80) + 0 \in Byte
                                          /\ (b % \h80) + \h80 \in Byte
    BY DEF Byte
  <2> QED BY <2>1, <2>2 DEF CodeByte
<1> QED BY <1>1, <1>2, <1>3, WireAssumption DEF KeyboardTypeOK

LEMMA SendStep ==
  ASSUME KeyboardInv, NEW e \in Event, Send(e)
  PROVE  KeyboardInv'
<1>1. KeyboardTypeOK'
  <2>1. After(down, e) \in SUBSET Keys
    BY DEF KeyboardInv, KeyboardTypeOK, After, Event
  <2>2. wire' \in Seq(Event) /\ Len(wire') <= WireSize
    <3>1. Append(wire, e) \in Seq(Event) /\ Len(Append(wire, e)) = Len(wire) + 1
          /\ Len(wire) \in Nat
      BY AppendProperties, LenProperties DEF KeyboardInv, KeyboardTypeOK
    <3> QED BY <3>1, WireAssumption DEF Send, KeyboardInv, KeyboardTypeOK
  <2>3. lost' \in BOOLEAN
    BY DEF Send, KeyboardInv, KeyboardTypeOK
  <2> QED BY <2>1, <2>2, <2>3 DEF Send, KeyboardInv, KeyboardTypeOK
<1>2. PrefixHasCode'
  <2>1. CASE mid
    <3>1. wire # << >> /\ Extended(Head(wire).key)
      BY <2>1 DEF KeyboardInv, PrefixHasCode
    <3>2. Append(wire, e) # << >> /\ Head(Append(wire, e)) = Head(wire)
      BY <3>1, AppendProperties, HeadTailAppend DEF KeyboardInv, KeyboardTypeOK
    <3> QED BY <3>1, <3>2 DEF Send, PrefixHasCode
  <2>2. CASE ~mid
    BY <2>2 DEF Send, PrefixHasCode
  <2> QED BY <2>1, <2>2
<1>3. EscapeInStep' /\ ModifiersFollowEvents'
  BY DEF Send, KeyboardInv, EscapeInStep, ModifiersFollowEvents
<1> QED BY <1>1, <1>2, <1>3 DEF KeyboardInv

LEMMA PrefixStep ==
  ASSUME KeyboardInv, ReadPrefix
  PROVE  KeyboardInv'
<1>1. /\ shift' = shift \cup {"E0ESC"}
      /\ last' = [c |-> NO, reboot |-> FALSE, event |-> Head(wire)]
  BY DEF ReadPrefix, Scan, NoChar
<1>2. KeyboardTypeOK'
  <2>1. wire # << >> /\ UNCHANGED << down, wire, lost, seen >> /\ mid' = TRUE
    BY DEF ReadPrefix
  <2>2. last' \in [c : Byte, reboot : BOOLEAN, event : Event]
    BY <1>1, <2>1, HeadEvent DEF KeyboardInv, Byte, NO
  <2>3. shift' \in SUBSET Flags
    BY <1>1 DEF KeyboardInv, KeyboardTypeOK, Flags
  <2> QED BY <2>1, <2>2, <2>3 DEF KeyboardInv, KeyboardTypeOK
<1>3. EscapeInStep' /\ PrefixHasCode'
  BY <1>1 DEF ReadPrefix, EscapeInStep, PrefixHasCode
<1>4. ModifiersFollowEvents'
  BY <1>1 DEF ReadPrefix, KeyboardInv, ModifiersFollowEvents, Modifiers
<1> QED BY <1>2, <1>3, <1>4 DEF KeyboardInv

LEMMA CodeStep ==
  ASSUME KeyboardInv, ReadCode
  PROVE  KeyboardInv'
<1> DEFINE e == Head(wire)
           k == e.key
           r == Scan(shift, CodeByte(e))
<1>1. /\ wire # << >> /\ shift' = r.shift /\ seen' = After(seen, e)
      /\ mid' = FALSE /\ wire' = Tail(wire) /\ UNCHANGED << down, lost >>
      /\ last' = [c |-> r.c, reboot |-> r.reboot, event |-> e]
  BY DEF ReadCode
<1>2. e \in Event /\ k \in Keys /\ e = [key |-> k, make |-> e.make]
  BY <1>1, HeadEvent DEF KeyboardInv, Event
<1>3. "E0ESC" \in shift <=> Extended(k)
  BY DEF ReadCode, KeyboardInv, EscapeInStep, PrefixHasCode
<1>4. shift \in SUBSET Flags
  BY DEF KeyboardInv, KeyboardTypeOK
<1>5. r \in [shift : SUBSET Flags, c : Byte, reboot : BOOLEAN]
  BY <1>1, <1>4, HeadEvent, ScanType DEF KeyboardInv
<1>6. KeyboardTypeOK'
  BY <1>1, <1>2, <1>5, HeadEvent DEF KeyboardInv, KeyboardTypeOK
<1>7. ASSUME NEW m \in Modifiers
      PROVE  /\ m \in shift' <=> IF e.make THEN m \in shift \/ shiftcode(k) = {m}
                                 ELSE m \in shift /\ shiftcode(k) # {m}
             /\ "E0ESC" \notin shift'
  <2>1. CASE e.make
    <3>1. e = [key |-> k, make |-> TRUE]
      BY <1>2, <2>1 DEF Event
    <3>2. shift' = PressShift(shift, k)
      <4>1. Scan(shift, CodeByte([key |-> k, make |-> TRUE])).shift = PressShift(shift, k)
        BY <1>2, <1>3, <1>4, ScanMake
      <4> QED BY <1>1, <3>1, <4>1
    <3> QED BY <3>2, <2>1, <1>2, <1>4, ModifierBits
  <2>2. CASE ~e.make
    <3>1. e = [key |-> k, make |-> FALSE]
      BY <1>2, <2>2 DEF Event
    <3>2. shift' = shift \ (shiftcode(k) \cup {"E0ESC"})
      <4>1. Scan(shift, CodeByte([key |-> k, make |-> FALSE])).shift
              = shift \ (shiftcode(k) \cup {"E0ESC"})
        BY <1>2, <1>3, <1>4, ScanBreak
      <4> QED BY <1>1, <3>1, <4>1
    <3> QED BY <3>2, <2>2, <1>2, <1>4, ModifierBits
  <2> QED BY <2>1, <2>2
<1>8. EscapeInStep' /\ PrefixHasCode'
  BY <1>1, <1>7 DEF EscapeInStep, PrefixHasCode, Modifiers
<1>9. ModifiersFollowEvents'
  <2> SUFFICES ASSUME NEW m \in Modifiers
               PROVE  /\ m \in shift' => KeysOf(m) \cap seen' # {}
                      /\ KeysOf(m) # {} /\ KeysOf(m) \subseteq seen' => m \in shift'
    BY DEF ModifiersFollowEvents, KeysOf
  <2>1. /\ m \in shift => KeysOf(m) \cap seen # {}
        /\ KeysOf(m) # {} /\ KeysOf(m) \subseteq seen => m \in shift
    BY DEF KeyboardInv, ModifiersFollowEvents
  <2>2. k \in KeysOf(m) <=> shiftcode(k) = {m}
    BY <1>2 DEF KeysOf
  <2>3. m \in shift' <=> IF e.make THEN m \in shift \/ k \in KeysOf(m)
                         ELSE m \in shift /\ k \notin KeysOf(m)
    BY <1>7, <2>2
  <2>4. seen' = IF e.make THEN seen \cup {k} ELSE seen \ {k}
    BY <1>1 DEF After
  <2> HIDE DEF k, e, r
  <2> QED BY <2>1, <2>3, <2>4
<1> QED BY <1>6, <1>8, <1>9 DEF KeyboardInv

(* The inductive invariant holds. *)
LEMMA KeyboardInvariant == KeyboardSpec => []KeyboardInv
<1>1. KeyboardInit => KeyboardInv
  <2> SUFFICES ASSUME KeyboardInit PROVE KeyboardInv
    OBVIOUS
  <2>1. wire \in Seq(Event) /\ Len(wire) = 0
    BY EmptySeq DEF KeyboardInit
  <2>2. KeyboardTypeOK
    <3>1. down \in SUBSET Keys /\ seen \in SUBSET Keys /\ shift \in SUBSET Flags
      BY DEF KeyboardInit
    <3>2. wire \in Seq(Event) /\ Len(wire) <= WireSize
      BY <2>1, WireAssumption
    <3> QED BY <3>1, <3>2 DEF KeyboardInit, KeyboardTypeOK
  <2>3. EscapeInStep /\ PrefixHasCode /\ ModifiersFollowEvents
    BY DEF KeyboardInit, EscapeInStep, PrefixHasCode, ModifiersFollowEvents
  <2> QED BY <2>2, <2>3 DEF KeyboardInv
<1>2. KeyboardInv /\ [KeyboardNext]_keyboardVars => KeyboardInv'
  <2> SUFFICES ASSUME KeyboardInv, [KeyboardNext]_keyboardVars
               PROVE  KeyboardInv'
    OBVIOUS
  <2>1. ASSUME NEW k \in Keys, Press(k) \/ Release(k) \/ Repeat(k)
        PROVE  KeyboardInv'
    <3>1. /\ [key |-> k, make |-> TRUE] \in Event
          /\ [key |-> k, make |-> FALSE] \in Event
      BY DEF Event
    <3> QED BY <2>1, <3>1, SendStep DEF Press, Release, Repeat
  <2>2. CASE UNCHANGED keyboardVars
    BY <2>2 DEF keyboardVars, KeyboardInv, KeyboardTypeOK, EscapeInStep, PrefixHasCode,
                ModifiersFollowEvents
  <2> QED BY <2>1, <2>2, PrefixStep, CodeStep DEF KeyboardNext
<1> QED BY <1>1, <1>2, PTL DEF KeyboardSpec

(* The variable `shift' never claims a modifier no key of which was held   *)
(* at the last event read, nor misses one all keys of which were.          *)
THEOREM ModifiersFollow == KeyboardSpec => []ModifiersFollowEvents
  BY KeyboardInvariant, PTL DEF KeyboardInv

(* E0ESC is set exactly between a prefix and its code. *)
THEOREM EscapeFollows == KeyboardSpec => []EscapeInStep
  BY KeyboardInvariant, PTL DEF KeyboardInv

-----------------------------------------------------------------------------
LEMMA RebootStep ==
  ASSUME KeyboardInv, KeyboardInv', ReadCode
  PROVE  RebootIsChord'
<1> DEFINE e == Head(wire)
           k == e.key
           r == Scan(shift, CodeByte(e))
<1>1. /\ wire # << >> /\ shift' = r.shift
      /\ last' = [c |-> r.c, reboot |-> r.reboot, event |-> e]
  BY DEF ReadCode
<1>2. e \in Event /\ k \in Keys /\ k \in Byte /\ e = [key |-> k, make |-> e.make]
  BY <1>1, HeadEvent, KeysAssumption DEF KeyboardInv, Event
<1>3. "E0ESC" \in shift <=> Extended(k)
  BY DEF ReadCode, KeyboardInv, EscapeInStep, PrefixHasCode
<1>4. shift \in SUBSET Flags
  BY DEF KeyboardInv, KeyboardTypeOK
<1>5. CASE ~e.make
  <2>1. e = [key |-> k, make |-> FALSE]
    BY <1>2, <1>5 DEF Event
  <2>2. Scan(shift, CodeByte([key |-> k, make |-> FALSE])).reboot = FALSE
    BY <1>2, <1>3, <1>4, ScanBreak
  <2>3. last'.reboot = FALSE
    BY <1>1, <2>1, <2>2
  <2> QED BY <2>3 DEF RebootIsChord
<1>6. CASE e.make
  <2> SUFFICES ASSUME last'.reboot
               PROVE  /\ e.make /\ k = \hD3
                      /\ KeysOf("CTL") \cap seen' # {}
                      /\ KeysOf("ALT") \cap seen' # {}
    BY <1>1 DEF RebootIsChord, KeysOf
  <2> DEFINE s == PressShift(shift, k)
             d == Scan(shift, CodeByte([key |-> k, make |-> TRUE]))
  <2>1. e = [key |-> k, make |-> TRUE]
    BY <1>2, <1>6 DEF Event
  <2>2. d.shift = s /\ d.reboot = Reboots(s, PressChar(s, k))
    BY <1>2, <1>3, <1>4, ScanMake
  <2>3. shift' = d.shift /\ d.reboot
    BY <1>1, <2>1
  <2> HIDE DEF s, d
  <2>4. {"CTL", "ALT"} \subseteq shift' /\ PressChar(s, k) = KEY_DEL
    BY <2>2, <2>3 DEF Reboots
  <2>5. charcode(s)[k] \in Byte
    BY <1>2, MapsGiveBytes DEF charcode
  <2>6. charcode(s)[k] = KEY_DEL
    BY <2>4, <2>5 DEF PressChar, SwapCase, KEY_DEL, Byte
  <2>7. k = \hD3
    BY <1>2, <2>6, OnlyDelIsDel DEF charcode
  <2>8. KeysOf("CTL") \cap seen' # {} /\ KeysOf("ALT") \cap seen' # {}
    <3>1. ModifiersFollowEvents'
      BY DEF KeyboardInv
    <3> QED BY <2>4, <3>1 DEF ModifiersFollowEvents, Modifiers, KeysOf
  <2> QED BY <1>6, <2>7, <2>8
<1> QED BY <1>5, <1>6

(* Nothing but Ctrl-Alt-Del reboots the machine, on any keyboard.          *)
THEOREM OnlyChordReboots == KeyboardSpec => []RebootIsChord
<1>1. KeyboardInit => RebootIsChord
  BY DEF KeyboardInit, RebootIsChord, NoEvent
<1>2. KeyboardInv /\ KeyboardInv' /\ RebootIsChord /\ [KeyboardNext]_keyboardVars => RebootIsChord'
  <2> SUFFICES ASSUME KeyboardInv, KeyboardInv', RebootIsChord, [KeyboardNext]_keyboardVars
               PROVE  RebootIsChord'
    OBVIOUS
  <2>1. ASSUME NEW k \in Keys, Press(k) \/ Release(k) \/ Repeat(k)
        PROVE  RebootIsChord'
    BY <2>1 DEF Press, Release, Repeat, Send, RebootIsChord, KeysOf
  <2>2. CASE ReadPrefix
    <3>1. last'.reboot = FALSE
      BY <2>2 DEF ReadPrefix, Scan, NoChar
    <3> QED BY <3>1 DEF RebootIsChord
  <2>3. CASE UNCHANGED keyboardVars
    BY <2>3 DEF keyboardVars, RebootIsChord, KeysOf
  <2> QED BY <2>1, <2>2, <2>3, RebootStep DEF KeyboardNext
<1> QED BY <1>1, <1>2, KeyboardInvariant, PTL DEF KeyboardSpec

-----------------------------------------------------------------------------
LEMMA CharStep ==
  ASSUME KeyboardInv, ReadCode
  PROVE  CharOfItsKey'
<1> DEFINE e == Head(wire)
           k == e.key
           r == Scan(shift, CodeByte(e))
<1>1. /\ wire # << >>
      /\ last' = [c |-> r.c, reboot |-> r.reboot, event |-> e]
  BY DEF ReadCode
<1>2. e \in Event /\ k \in Keys /\ e = [key |-> k, make |-> e.make]
  BY <1>1, HeadEvent DEF KeyboardInv, Event
<1>3. "E0ESC" \in shift <=> Extended(k)
  BY DEF ReadCode, KeyboardInv, EscapeInStep, PrefixHasCode
<1>4. shift \in SUBSET Flags
  BY DEF KeyboardInv, KeyboardTypeOK
<1>5. CASE ~e.make
  <2>1. e = [key |-> k, make |-> FALSE]
    BY <1>2, <1>5 DEF Event
  <2>2. Scan(shift, CodeByte([key |-> k, make |-> FALSE])).c = NO
    BY <1>2, <1>3, <1>4, ScanBreak
  <2>3. last'.c = NO
    BY <1>1, <2>1, <2>2
  <2> QED BY <2>3 DEF CharOfItsKey
<1>6. CASE e.make
  <2> DEFINE s == PressShift(shift, k)
             d == Scan(shift, CodeByte([key |-> k, make |-> TRUE]))
  <2>1. e = [key |-> k, make |-> TRUE]
    BY <1>2, <1>6 DEF Event
  <2>2. d.c = PressChar(s, k)
    BY <1>2, <1>3, <1>4, ScanMake
  <2>3. last'.c = d.c /\ last'.event = e
    BY <1>1, <2>1
  <2> HIDE DEF s, d
  <2>4. PressChar(s, k) \in CharsOf(k)
    BY DEF PressChar, charcode, CharsOf
  <2> QED BY <1>6, <2>2, <2>3, <2>4 DEF CharOfItsKey
<1> QED BY <1>5, <1>6

(***************************************************************************)
(* A character is one of the key whose event was read last, whatever the   *)
(* delay and whatever events were dropped.                                 *)
(***************************************************************************)
THEOREM CharFromKey == KeyboardSpec => []CharOfItsKey
<1>1. KeyboardInit => CharOfItsKey
  BY DEF KeyboardInit, CharOfItsKey, NoEvent
<1>2. KeyboardInv /\ CharOfItsKey /\ [KeyboardNext]_keyboardVars => CharOfItsKey'
  <2> SUFFICES ASSUME KeyboardInv, CharOfItsKey, [KeyboardNext]_keyboardVars
               PROVE  CharOfItsKey'
    OBVIOUS
  <2>1. ASSUME NEW k \in Keys, Press(k) \/ Release(k) \/ Repeat(k)
        PROVE  CharOfItsKey'
    BY <2>1 DEF Press, Release, Repeat, Send, CharOfItsKey
  <2>2. CASE ReadPrefix
    <3>1. last'.c = NO
      BY <2>2 DEF ReadPrefix, Scan, NoChar
    <3> QED BY <3>1 DEF CharOfItsKey
  <2>3. CASE UNCHANGED keyboardVars
    BY <2>3 DEF keyboardVars, CharOfItsKey
  <2> QED BY <2>1, <2>2, <2>3, CharStep DEF KeyboardNext
<1> QED BY <1>1, <1>2, KeyboardInvariant, PTL DEF KeyboardSpec

-----------------------------------------------------------------------------
(* The occupied part of the buffer: its length and its slots.              *)
LEMMA RingShape ==
  ASSUME TypeOK
  PROVE  /\ RingLen \in 0 .. CONSBUFSIZE - 1
         /\ RingLen = 0 <=> rpos = wpos
         /\ \A k \in 0 .. CONSBUFSIZE - 1 : SlotOf(k) \in Slots
         /\ SlotOf(RingLen) = wpos
         /\ \A k \in 0 .. RingLen - 1 : SlotOf(k) # wpos
  BY SizeAssumption DEF TypeOK, RingLen, SlotOf, Slots

(* The queue a state stands for is a sequence of bytes.                    *)
LEMMA ContentsType ==
  ASSUME TypeOK
  PROVE  /\ RingContents \in Seq(Byte)
         /\ Len(RingContents) = RingLen
         /\ \A k \in 1 .. RingLen : RingContents[k] = buf[SlotOf(k - 1)]
<1>1. \A k \in 1 .. RingLen : buf[SlotOf(k - 1)] \in Byte
  BY RingShape, SizeAssumption, SMTT(30) DEF TypeOK, Slots
<1>2. RingLen \in Nat
  BY RingShape, SizeAssumption
<1>3. RingContents \in [1 .. RingLen -> Byte]
  BY <1>1 DEF RingContents
<1> QED BY <1>2, <1>3, SizeAssumption DEF RingContents

(* Storing a character in a buffer that has a slot to spare appends it to  *)
(* the queue and leaves every waiting character where it was.              *)
LEMMA PutAppends ==
  ASSUME TypeOK, NEW c \in Byte, c # NO, Put(c), RingLen + 1 < CONSBUFSIZE
  PROVE  /\ RingLen' = RingLen + 1
         /\ RingContents' = Append(RingContents, c)
         /\ buf' \in [Slots -> Byte] /\ rpos' \in Slots /\ wpos' \in Slots
<1>1. /\ buf' = [buf EXCEPT ![wpos] = c]
      /\ wpos' = Succ(wpos)
      /\ rpos' = rpos
  BY DEF Put, ring
<1>2. /\ buf' \in [Slots -> Byte] /\ rpos' \in Slots /\ wpos' \in Slots
  BY <1>1, SizeAssumption DEF TypeOK, Slots, Succ
<1>3. RingLen' = RingLen + 1
  BY <1>1, SizeAssumption DEF TypeOK, RingLen, Slots, Succ
<1>4. \A k \in Int : SlotOf(k)' = SlotOf(k)
  BY <1>1 DEF SlotOf
<1>5. RingLen \in Nat /\ RingLen < CONSBUFSIZE
  BY RingShape, SizeAssumption
<1>6. \A k \in 1 .. RingLen : buf'[SlotOf(k - 1)] = buf[SlotOf(k - 1)]
  BY <1>1, <1>5, RingShape, SizeAssumption DEF TypeOK, Slots
<1>7. buf'[SlotOf(RingLen)] = c
  BY <1>1, RingShape DEF TypeOK
<1> DEFINE new == Append(RingContents, c)
<1>8. /\ new \in Seq(Byte) /\ Len(new) = RingLen + 1
      /\ \A k \in 1 .. RingLen : new[k] = RingContents[k]
      /\ new[RingLen + 1] = c
  BY ContentsType, <1>5
<1>9. RingContents' = [k \in 1 .. RingLen + 1 |-> buf'[SlotOf(k - 1)]]
  BY <1>3, <1>4, <1>5 DEF RingContents
<1>10. \A k \in 1 .. RingLen + 1 : buf'[SlotOf(k - 1)] = new[k]
  <2> TAKE k \in 1 .. RingLen + 1
  <2>1. CASE k = RingLen + 1
    BY <2>1, <1>5, <1>7, <1>8
  <2>2. CASE k # RingLen + 1
    BY <2>2, <1>5, <1>6, <1>8, ContentsType
  <2> QED BY <2>1, <2>2
<1>11. RingContents' \in Seq(Byte) /\ Len(RingContents') = RingLen + 1
  <2>1. \A k \in 1 .. RingLen + 1 : buf'[SlotOf(k - 1)] \in Byte
    BY <1>8, <1>10, <1>5, ElementOfSeq
  <2>2. RingContents' \in [1 .. RingLen + 1 -> Byte]
    BY <2>1, <1>9
  <2> QED BY <2>2, <1>9, <1>5
<1>12. RingContents' = new
  <2> HIDE DEF new
  <2>1. \A k \in 1 .. Len(RingContents') : RingContents'[k] = new[k]
    BY <1>9, <1>10, <1>11
  <2> QED BY <2>1, <1>8, <1>11, SeqEqual
<1> QED BY <1>2, <1>3, <1>12

(* Taking a character from a buffer that is not empty takes the oldest one *)
(* and leaves the tail of the queue.                                       *)
LEMMA GrabTakesHead ==
  ASSUME TypeOK, rpos # wpos, rpos' = Succ(rpos), UNCHANGED << buf, wpos >>
  PROVE  /\ RingLen' = RingLen - 1
         /\ RingContents # << >>
         /\ buf[rpos] = Head(RingContents)
         /\ RingContents' = Tail(RingContents)
<1>1. RingLen' = RingLen - 1
  BY SizeAssumption DEF TypeOK, RingLen, Slots, Succ
<1>2. RingLen \in 1 .. CONSBUFSIZE - 1
  BY RingShape, SizeAssumption
<1>3. SlotOf(0) = rpos
  BY SizeAssumption DEF TypeOK, SlotOf, Slots
<1>4. \A k \in 1 .. RingLen - 1 : SlotOf(k - 1)' = SlotOf(k)
  BY <1>2, SizeAssumption DEF TypeOK, SlotOf, Slots, Succ
<1>5. RingContents # << >> /\ Head(RingContents) = buf[rpos]
  BY <1>2, <1>3, ContentsType
<1> DEFINE rest == Tail(RingContents)
<1>6. /\ rest \in Seq(Byte) /\ Len(rest) = RingLen - 1
      /\ \A k \in 1 .. RingLen - 1 : rest[k] = RingContents[k + 1]
  BY <1>5, ContentsType, HeadTailProperties
<1>7. RingContents' = [k \in 1 .. RingLen - 1 |-> buf[SlotOf(k - 1)']]
  BY <1>1 DEF RingContents
<1>8. \A k \in 1 .. RingLen - 1 : RingContents'[k] = rest[k]
  BY <1>2, <1>4, <1>6, <1>7, ContentsType
<1>9. RingContents' \in Seq(Byte) /\ Len(RingContents') = RingLen - 1
  <2>1. \A k \in 1 .. RingLen - 1 : RingContents'[k] \in Byte
    BY <1>6, <1>8, <1>2, ElementOfSeq
  <2>2. RingContents' \in [1 .. RingLen - 1 -> Byte]
    BY <2>1, <1>7
  <2> QED BY <2>2, <1>7, <1>2
<1>10. RingContents' = rest
  <2> HIDE DEF rest
  <2> QED BY <1>6, <1>8, <1>9, SeqEqual
<1> QED BY <1>1, <1>5, <1>10

(* A state whose buffer variables did not change stands for the same queue. *)
LEMMA RingUnchanged ==
  ASSUME UNCHANGED ring
  PROVE  /\ RingLen' = RingLen /\ RingContents' = RingContents
         /\ WaitingNotZero => WaitingNotZero'
<1>1. buf' = buf /\ rpos' = rpos /\ wpos' = wpos
  BY DEF ring
<1>2. RingLen' = RingLen
  BY <1>1 DEF RingLen
<1>3. RingContents' = RingContents
  BY <1>1, <1>2 DEF RingContents, SlotOf
<1> QED BY <1>2, <1>3 DEF WaitingNotZero

-----------------------------------------------------------------------------
(* What each reading step hands to the buffer is a byte.                   *)
LEMMA SerialByte ==
  ASSUME TypeOK, SerialRead
  PROVE  (IF uart THEN Head(rx) ELSE 255) \in Byte
<1>1. CASE uart
  BY <1>1, HeadTailProperties DEF TypeOK, SerialRead, SerialReady
<1>2. CASE ~uart
  BY <1>2 DEF Byte
<1> QED BY <1>1, <1>2

LEMMA KbdByte ==
  ASSUME TypeOK, KbdRead
  PROVE  /\ Scan(shift, Head(kbc).data)
              \in [shift : SUBSET Flags, c : Byte, reboot : BOOLEAN]
         /\ Tail(kbc) \in Seq([aux : BOOLEAN, data : Byte])
         /\ Len(Tail(kbc)) = Len(kbc) - 1
<1>1. /\ Head(kbc) \in [aux : BOOLEAN, data : Byte]
      /\ Tail(kbc) \in Seq([aux : BOOLEAN, data : Byte])
      /\ Len(Tail(kbc)) = Len(kbc) - 1
  BY HeadTailProperties DEF TypeOK, KbdRead, KbdReady
<1> QED BY <1>1, ScanType DEF TypeOK

LEMMA FullRegister ==
  ASSUME rx \in Seq(Byte), Len(rx) <= 1, rx # << >>
  PROVE  Len(rx) = 1
<1>1. Len(rx) \in Nat
  BY LenProperties
<1>2. Len(rx) # 0
  BY EmptySeq
<1> QED BY <1>1, <1>2

(* The leading bytes of the keyboard can be counted. *)
LEMMA NoteType ==
  ASSUME TypeOK, NoteOwed
  PROVE  /\ owedRx' = Len(rx) /\ owedRx' \in 0 .. 1
         /\ owedKbc' \in 0 .. Len(kbc)
         /\ Queue!Readable(kbc, owedKbc')
<1>1. Len(rx) \in Nat
  BY LenProperties DEF TypeOK
<1> QED BY <1>1 DEF TypeOK, NoteOwed

LEMMA PutType ==
  ASSUME TypeOK, NEW c \in Byte, Put(c)
  PROVE  buf' \in [Slots -> Byte] /\ rpos' \in Slots /\ wpos' \in Slots
  BY SizeAssumption, SMTT(30) DEF TypeOK, Put, ring, Slots, Succ

LEMMA TypeInit == Init => TypeOK
  BY SizeAssumption DEF Init, TypeOK, Slots, Byte, Flags

LEMMA TypeStep == TypeOK /\ [Next]_vars => TypeOK'
<1> SUFFICES ASSUME TypeOK, [Next]_vars
             PROVE  TypeOK'
  OBVIOUS
<1>1. CASE SerialArrive
  BY <1>1, BytesAssumption DEF TypeOK, SerialArrive, ring, owed
<1>2. CASE KbcArrive
  <2>1. \A aux \in BOOLEAN, b \in Byte :
          Append(kbc, [aux |-> aux, data |-> b]) \in Seq([aux : BOOLEAN, data : Byte])
    BY AppendProperties DEF TypeOK
  <2>2. kbc' \in Seq([aux : BOOLEAN, data : Byte])
    BY <1>2, <2>1, BytesAssumption DEF KbcArrive
  <2> QED BY <1>2, <2>2 DEF TypeOK, KbcArrive, ring, owed
<1>3. CASE ConsInit
  BY <1>3 DEF TypeOK, ConsInit, ring, owed
<1>4. CASE CallGetc
  <2>1. owedRx' \in 0 .. 1 /\ owedKbc' \in 0 .. Len(kbc) /\ Len(kbc) \in Nat
    BY <1>4, NoteType, LenProperties DEF CallGetc, TypeOK
  <2> QED BY <1>4, <2>1 DEF TypeOK, CallGetc, devices, ring
<1>5. CASE SerialRead
  <2>1. buf' \in [Slots -> Byte] /\ rpos' \in Slots /\ wpos' \in Slots
    BY <1>5, SerialByte, PutType DEF SerialRead
  <2> QED BY <1>5, <2>1 DEF TypeOK, SerialRead
<1>6. CASE SerialDry
  BY <1>6 DEF TypeOK, SerialDry, devices, ring, owed
<1>7. CASE KbdRead
  <2> DEFINE r == Scan(shift, Head(kbc).data)
  <2>1. /\ r \in [shift : SUBSET Flags, c : Byte, reboot : BOOLEAN]
        /\ Tail(kbc) \in Seq([aux : BOOLEAN, data : Byte])
    BY <1>7, KbdByte
  <2>2. /\ shift' = r.shift /\ Put(r.c) /\ kbc' = Tail(kbc)
        /\ pc' \in {"reset", "kbd"}
        /\ owedKbc' = IF owedKbc = 0 THEN 0 ELSE owedKbc - 1
        /\ UNCHANGED << uart, rx, serial_exists, got, owedRx >>
    BY <1>7 DEF KbdRead
  <2> HIDE DEF r
  <2>3. buf' \in [Slots -> Byte] /\ rpos' \in Slots /\ wpos' \in Slots
    BY <2>1, <2>2, PutType
  <2> QED BY <2>1, <2>2, <2>3 DEF TypeOK
<1>8. CASE KbdDry
  BY <1>8 DEF TypeOK, KbdDry, devices, ring, owed
<1>9. CASE Grab
  <2>1. rpos' \in Slots
    BY <1>9, SizeAssumption DEF TypeOK, Grab, Slots, Succ
  <2>2. buf[rpos] \in Byte /\ 0 \in Byte
    BY DEF TypeOK, Byte
  <2>3. got' \in Byte
    BY <1>9, <2>2 DEF Grab
  <2> QED BY <1>9, <2>1, <2>3 DEF TypeOK, Grab, devices, owed
<1>10. CASE Reset
  <2>1. 0 \in Byte /\ 0 \in Slots /\ {} \in SUBSET Flags
    BY SizeAssumption DEF Byte, Slots
  <2>2. [s \in Slots |-> 0] \in [Slots -> Byte]
    BY <2>1
  <2> QED BY <1>10, <2>1, <2>2 DEF TypeOK, Reset, ClearBss, devices
<1>11. CASE UNCHANGED vars
  BY <1>11 DEF TypeOK, vars
<1> QED BY <1>1, <1>2, <1>3, <1>4, <1>5, <1>6, <1>7, <1>8, <1>9, <1>10, <1>11
        DEF Next, Kernel

(* Whatever the devices send and however far they get ahead, the variables *)
(* of the driver keep their types; above all, rpos and wpos never leave    *)
(* the buffer, so that no character is stored outside it.                  *)
THEOREM TypeCorrect == Spec => []TypeOK
  BY TypeInit, TypeStep, PTL DEF Spec

-----------------------------------------------------------------------------
(* No step puts a 0 among the waiting characters: not even the one that    *)
(* laps rpos, because that one leaves the buffer empty.                    *)
LEMMA PutKeepsNotZero ==
  ASSUME TypeOK, WaitingNotZero, NEW c \in Byte, Put(c)
  PROVE  WaitingNotZero'
<1>1. CASE c = NO
  BY <1>1, RingUnchanged DEF Put
<1>2. CASE c # NO /\ RingLen + 1 < CONSBUFSIZE
  <2>1. RingLen' = RingLen + 1 /\ RingContents' = Append(RingContents, c)
    BY <1>2, PutAppends
  <2>2. \A k \in 1 .. RingLen + 1 : Append(RingContents, c)[k] # 0
    BY <1>2, ContentsType, RingShape, SizeAssumption DEF WaitingNotZero, NO
  <2> QED BY <2>1, <2>2 DEF WaitingNotZero
<1>3. CASE c # NO /\ ~(RingLen + 1 < CONSBUFSIZE)
  <2>1. wpos' = Succ(wpos) /\ rpos' = rpos
    BY <1>3 DEF Put
  <2>2. RingLen' = 0
    BY <2>1, <1>3, SizeAssumption DEF TypeOK, RingLen, Slots, Succ
  <2> QED BY <2>2 DEF WaitingNotZero
<1> QED BY <1>1, <1>2, <1>3

LEMMA NotZeroStep == TypeOK /\ WaitingNotZero /\ [Next]_vars => WaitingNotZero'
<1> SUFFICES ASSUME TypeOK, WaitingNotZero, [Next]_vars
             PROVE  WaitingNotZero'
  OBVIOUS
<1>1. CASE SerialArrive \/ KbcArrive \/ ConsInit \/ CallGetc
           \/ SerialDry \/ KbdDry \/ UNCHANGED vars
  <2>1. UNCHANGED ring
    BY <1>1 DEF SerialArrive, KbcArrive, ConsInit, CallGetc, SerialDry, KbdDry,
                vars, ring
  <2> QED BY <2>1, RingUnchanged
<1>2. CASE SerialRead
  BY <1>2, SerialByte, PutKeepsNotZero DEF SerialRead
<1>3. CASE KbdRead
  <2>1. Scan(shift, Head(kbc).data).c \in Byte
    BY <1>3, KbdByte
  <2> QED BY <1>3, <2>1, PutKeepsNotZero DEF KbdRead
<1>4. CASE Grab
  <2>1. CASE rpos = wpos
    BY <1>4, <2>1, RingUnchanged DEF Grab, ring
  <2>2. CASE rpos # wpos
    <3>1. RingLen' = RingLen - 1 /\ RingContents' = Tail(RingContents)
          /\ RingContents # << >>
      BY <1>4, <2>2, GrabTakesHead DEF Grab
    <3>2. \A k \in 1 .. RingLen - 1 : Tail(RingContents)[k] = RingContents[k + 1]
      BY <3>1, ContentsType, HeadTailProperties
    <3>3. RingLen \in Nat
      BY RingShape, SizeAssumption
    <3>4. \A k \in 1 .. RingLen - 1 : RingContents[k + 1] # 0
      BY <3>3 DEF WaitingNotZero
    <3>5. \A k \in 1 .. RingLen - 1 : Tail(RingContents)[k] # 0
      BY <3>2, <3>4
    <3> QED BY <3>1, <3>5 DEF WaitingNotZero
  <2> QED BY <2>1, <2>2
<1>5. CASE Reset
  <2>1. RingLen' = 0
    BY <1>5, SizeAssumption DEF Reset, ClearBss, RingLen
  <2> QED BY <2>1 DEF WaitingNotZero
<1> QED BY <1>1, <1>2, <1>3, <1>4, <1>5 DEF Next, Kernel

(* getchar() never takes a character out only to drop it: no character of  *)
(* the buffer is 0, overrun or not.                                        *)
THEOREM NeverZero == Spec => []WaitingNotZero
<1>1. Init => WaitingNotZero
  BY SizeAssumption DEF Init, WaitingNotZero, RingLen
<1> QED BY <1>1, NotZeroStep, TypeCorrect, PTL DEF Spec

-----------------------------------------------------------------------------
(* The kernel asks the serial port only if there is one.                   *)
LEMMA PortStep ==
  TypeOK /\ SerialPolledOnlyIfThere /\ [Next]_vars => SerialPolledOnlyIfThere'
<1> SUFFICES ASSUME TypeOK, SerialPolledOnlyIfThere, [Next]_vars
             PROVE  SerialPolledOnlyIfThere'
  OBVIOUS
<1> USE DEF SerialPolledOnlyIfThere
<1>1. CASE KbdRead
  <2>1. /\ UNCHANGED << uart, rx, serial_exists >>
        /\ pc = "kbd" /\ pc' \in {"kbd", "reset"}
    BY <1>1 DEF KbdRead
  <2> QED BY <2>1
<1>2. CASE Next /\ ~KbdRead
  BY <1>2 DEF Next, Kernel, SerialArrive, KbcArrive, ConsInit, CallGetc,
     SerialRead, SerialDry, KbdDry, Grab, Reset, ClearBss, devices
<1>3. CASE UNCHANGED vars
  BY <1>3 DEF vars
<1> QED BY <1>1, <1>2, <1>3

(***************************************************************************)
(* What waits is bounded by MaxAhead: a byte that moves from a device to   *)
(* the buffer is counted once before and at most once after.  This is      *)
(* where MaxAhead < CONSBUFSIZE is needed: it leaves a slot for the byte.  *)
(***************************************************************************)
LEMMA AheadStep ==
  ASSUME MaxAhead < CONSBUFSIZE, InputInv, [Next]_vars
  PROVE  AheadBounded'
<1> USE SizeAssumption, BoundAssumption
<1>0. /\ TypeOK /\ AheadBounded /\ SerialPolledOnlyIfThere
      /\ RingLen \in Nat /\ Len(rx) \in Nat /\ Len(kbc) \in Nat
  BY RingShape, LenProperties DEF InputInv, TypeOK
<1>1. CASE SerialArrive
  <2>1. Len(rx') = 1 /\ kbc' = kbc /\ RingLen' = RingLen
    BY <1>1, RingUnchanged DEF SerialArrive
  <2>2. RingLen + Len(rx) + Len(kbc) < MaxAhead
    BY <1>1 DEF SerialArrive, RoomAhead
  <2> QED BY <1>0, <2>1, <2>2 DEF AheadBounded
<1>2. CASE KbcArrive
  <2>1. rx' = rx /\ RingLen' = RingLen
    BY <1>2, RingUnchanged DEF KbcArrive
  <2>2. RingLen + Len(rx) + Len(kbc) < MaxAhead
    BY <1>2 DEF KbcArrive, RoomAhead
  <2>3. Len(kbc') = Len(kbc) + 1
    <3>1. \A aux \in BOOLEAN, b \in Byte :
            Len(Append(kbc, [aux |-> aux, data |-> b])) = Len(kbc) + 1
      BY <1>0, AppendProperties DEF TypeOK
    <3> QED BY <1>2, <3>1, BytesAssumption DEF KbcArrive
  <2> QED BY <1>0, <2>1, <2>2, <2>3 DEF AheadBounded
<1>3. CASE ConsInit
  <2>1. Len(rx') = 0 /\ kbc' = kbc /\ RingLen' = RingLen
    BY <1>3, RingUnchanged DEF ConsInit
  <2> QED BY <1>0, <2>1 DEF AheadBounded
<1>4. CASE CallGetc \/ SerialDry \/ KbdDry \/ UNCHANGED vars
  <2>1. UNCHANGED << rx, kbc, ring >>
    BY <1>4 DEF CallGetc, SerialDry, KbdDry, vars, devices, ring
  <2>2. RingLen' = RingLen
    BY <2>1, RingUnchanged
  <2> QED BY <1>0, <2>1, <2>2 DEF AheadBounded
<1>5. CASE SerialRead
  <2>1. uart /\ rx # << >>
    BY <1>0, <1>5 DEF SerialRead, SerialReady, SerialPolledOnlyIfThere
  <2>2. Len(rx) = 1
    BY <1>0, <2>1, FullRegister DEF TypeOK
  <2>3. Len(rx') = 0 /\ kbc' = kbc
    BY <1>5 DEF SerialRead
  <2>4. RingLen' <= RingLen + 1 /\ RingLen' \in Nat
    <3>1. CASE RingLen' = RingLen
      BY <3>1, <1>0
    <3>2. CASE RingLen' # RingLen
      <4> DEFINE c == IF uart THEN Head(rx) ELSE 255
      <4>1. c \in Byte /\ Put(c)
        BY <1>0, <1>5, SerialByte DEF SerialRead
      <4> HIDE DEF c
      <4>2. c # NO
        BY <3>2, <4>1, RingUnchanged DEF Put
      <4>3. RingLen + 1 < CONSBUFSIZE
        BY <1>0, <2>2 DEF AheadBounded
      <4>4. RingLen' = RingLen + 1
        BY <1>0, <4>1, <4>2, <4>3, PutAppends
      <4> QED BY <4>4, <1>0
    <3> QED BY <3>1, <3>2
  <2> QED BY <1>0, <2>2, <2>3, <2>4 DEF AheadBounded
<1>6. CASE KbdRead
  <2> DEFINE c == Scan(shift, Head(kbc).data).c
  <2>1. c \in Byte /\ Put(c) /\ kbc' = Tail(kbc) /\ rx' = rx
    BY <1>0, <1>6, KbdByte DEF KbdRead
  <2>2. Len(kbc') = Len(kbc) - 1
    BY <1>0, <1>6, <2>1, KbdByte
  <2>3. Len(kbc) >= 1
    BY <1>0, <1>6 DEF TypeOK, KbdRead, KbdReady
  <2> HIDE DEF c
  <2>4. RingLen' <= RingLen + 1 /\ RingLen' \in Nat
    <3>1. CASE c = NO
      BY <3>1, <2>1, <1>0, RingUnchanged DEF Put
    <3>2. CASE c # NO
      <4>1. RingLen + 1 < CONSBUFSIZE
        BY <1>0, <2>3 DEF AheadBounded
      <4>2. RingLen' = RingLen + 1
        BY <1>0, <2>1, <3>2, <4>1, PutAppends
      <4> QED BY <4>2, <1>0
    <3> QED BY <3>1, <3>2
  <2> QED BY <1>0, <2>1, <2>2, <2>3, <2>4 DEF AheadBounded
<1>7. CASE Grab
  <2>1. rx' = rx /\ kbc' = kbc
    BY <1>7 DEF Grab, devices
  <2>2. RingLen' <= RingLen /\ RingLen' \in Int
    <3>1. CASE rpos = wpos
      BY <1>0, <1>7, <3>1, RingUnchanged DEF Grab, ring
    <3>2. CASE rpos # wpos
      BY <1>0, <1>7, <3>2, GrabTakesHead DEF Grab
    <3> QED BY <3>1, <3>2
  <2> QED BY <1>0, <2>1, <2>2 DEF AheadBounded
<1>8. CASE Reset
  <2>1. RingLen' = 0 /\ rx' = rx /\ kbc' = kbc
    BY <1>8 DEF Reset, ClearBss, RingLen, devices
  <2> QED BY <1>0, <2>1 DEF AheadBounded
<1> QED BY <1>1, <1>2, <1>3, <1>4, <1>5, <1>6, <1>7, <1>8 DEF Next, Kernel

(* What a call owes is there until it is paid.                             *)
LEMMA OwedStep ==
  TypeOK /\ SerialPolledOnlyIfThere /\ OwedIsThere /\ [Next]_vars => OwedIsThere'
<1> SUFFICES ASSUME TypeOK, SerialPolledOnlyIfThere, OwedIsThere, [Next]_vars
             PROVE  OwedIsThere'
  OBVIOUS
<1>0. /\ Len(rx) \in Nat /\ Len(kbc) \in Nat
      /\ rx # << >> => Len(rx) = 1
      /\ rx = << >> => Len(rx) = 0
  BY LenProperties, FullRegister, EmptySeq DEF TypeOK
<1>1. CASE SerialArrive
  <2>1. Len(rx') = 1 /\ UNCHANGED << kbc, pc, owedRx, owedKbc >>
    BY <1>1 DEF SerialArrive, owed
  <2> QED BY <2>1 DEF OwedIsThere, TypeOK
<1>2. CASE KbcArrive
  <2>1. /\ UNCHANGED << rx, pc, owedRx, owedKbc >>
        /\ Len(kbc') = Len(kbc) + 1
        /\ \A k \in 1 .. Len(kbc) : kbc'[k] = kbc[k]
    <3>1. \A e \in [aux : BOOLEAN, data : Byte] :
            /\ Len(Append(kbc, e)) = Len(kbc) + 1
            /\ \A k \in 1 .. Len(kbc) : Append(kbc, e)[k] = kbc[k]
      BY AppendProperties DEF TypeOK
    <3>2. PICK e \in [aux : BOOLEAN, data : Byte] : kbc' = Append(kbc, e)
      BY <1>2, BytesAssumption DEF KbcArrive
    <3> QED BY <1>2, <3>1, <3>2 DEF KbcArrive, owed
  <2>2. owedKbc \in Nat /\ owedKbc <= Len(kbc)
    BY DEF OwedIsThere, TypeOK
  <2>3. \A k \in 1 .. owedKbc : ~kbc'[k].aux
    BY <2>1, <2>2, <1>0 DEF OwedIsThere
  <2>4. owedKbc <= Len(kbc')
    BY <2>1, <2>2, <1>0
  <2> QED BY <2>1, <2>3, <2>4 DEF OwedIsThere
<1>3. CASE ConsInit
  <2>1. Len(rx') = 0 /\ UNCHANGED << kbc, owedRx, owedKbc >> /\ pc = "boot" /\ pc' = "idle"
    BY <1>3 DEF ConsInit, owed
  <2> QED BY <2>1, <1>0 DEF OwedIsThere
<1>4. CASE CallGetc
  <2>1. /\ owedRx' = Len(rx) /\ Queue!Readable(kbc, owedKbc')
        /\ UNCHANGED << rx, kbc >>
        /\ pc' = IF serial_exists THEN "serial" ELSE "kbd"
        /\ pc = "idle"
    BY <1>4, NoteType DEF CallGetc, devices
  <2>2. pc' = "kbd" => rx = << >>
    BY <2>1 DEF SerialPolledOnlyIfThere
  <2>3. owedKbc' \in 0 .. Len(kbc) /\ \A k \in 1 .. owedKbc' : ~kbc[k].aux
    BY <2>1 DEF Queue!Readable
  <2> QED BY <2>1, <2>2, <2>3, <1>0 DEF OwedIsThere
<1>5. CASE SerialRead
  <2>1. /\ Len(rx') = 0 /\ owedRx' = 0
        /\ UNCHANGED << kbc, pc, owedKbc >>
    BY <1>5 DEF SerialRead
  <2> QED BY <2>1 DEF OwedIsThere
<1>6. CASE SerialDry
  <2>1. /\ UNCHANGED << rx, kbc, owedRx, owedKbc >>
        /\ rx = << >> /\ pc = "serial" /\ pc' = "kbd"
    BY <1>6 DEF SerialDry, SerialReady, devices, owed
  <2>2. owedRx = 0
    BY <2>1, <1>0 DEF OwedIsThere, TypeOK
  <2> QED BY <2>1, <2>2 DEF OwedIsThere
<1>7. CASE KbdRead
  <2>1. /\ UNCHANGED << rx, owedRx >>
        /\ owedKbc' = IF owedKbc = 0 THEN 0 ELSE owedKbc - 1
        /\ kbc' = Tail(kbc) /\ kbc # << >>
        /\ pc = "kbd" /\ pc' \in {"kbd", "reset"}
    BY <1>7 DEF KbdRead, KbdReady
  <2>2. Len(kbc') = Len(kbc) - 1 /\ \A k \in 1 .. Len(kbc) - 1 : kbc'[k] = kbc[k + 1]
    BY <2>1, HeadTailProperties DEF TypeOK
  <2>3. owedKbc \in Nat /\ owedKbc <= Len(kbc) /\ Len(kbc) # 0
    BY <2>1, EmptySeq DEF OwedIsThere, TypeOK
  <2>4. owedKbc' \in Nat /\ owedKbc' <= Len(kbc')
    BY <2>1, <2>2, <2>3, <1>0
  <2>5. \A k \in 1 .. owedKbc' : ~kbc'[k].aux
    <3> TAKE k \in 1 .. owedKbc'
    <3>1. k + 1 \in 1 .. owedKbc /\ k \in 1 .. Len(kbc) - 1
      BY <2>1, <2>3, <1>0
    <3> QED BY <3>1, <2>2 DEF OwedIsThere
  <2> QED BY <2>1, <2>4, <2>5 DEF OwedIsThere
<1>8. CASE KbdDry
  <2>1. /\ UNCHANGED << rx, kbc, owedRx, owedKbc >>
        /\ pc = "kbd" /\ pc' = "grab"
        /\ kbc = << >> \/ Head(kbc).aux
    BY <1>8 DEF KbdDry, KbdReady, devices, owed
  <2>2. owedKbc = 0
    <3> SUFFICES ASSUME owedKbc # 0 PROVE FALSE
      OBVIOUS
    <3>1. 1 \in 1 .. owedKbc /\ Len(kbc) # 0
      BY <1>0 DEF OwedIsThere, TypeOK
    <3>2. kbc # << >> /\ ~kbc[1].aux
      BY <3>1, EmptySeq DEF OwedIsThere
    <3>3. Head(kbc) = kbc[1]
      BY <3>2, HeadTailProperties DEF TypeOK
    <3> QED BY <2>1, <3>2, <3>3
  <2> QED BY <2>1, <2>2 DEF OwedIsThere
<1>9. CASE Grab
  BY <1>9 DEF Grab, OwedIsThere, devices, owed
<1>10. CASE Reset
  <2>1. UNCHANGED << rx, kbc >> /\ owedRx' = 0 /\ owedKbc' = 0
    BY <1>10 DEF Reset, ClearBss, devices
  <2> QED BY <2>1, <1>0 DEF OwedIsThere
<1>11. CASE UNCHANGED vars
  BY <1>11 DEF vars, OwedIsThere
<1> QED BY <1>1, <1>2, <1>3, <1>4, <1>5, <1>6, <1>7, <1>8, <1>9, <1>10, <1>11
        DEF Next, Kernel

(* The inductive invariant: nothing that waits is left without a slot, a   *)
(* port that is not there is never read, and what a call owes is there.    *)
THEOREM InputInvariant ==
  ASSUME MaxAhead < CONSBUFSIZE
  PROVE  Spec => []InputInv
<1>1. Init => InputInv
  <2> SUFFICES ASSUME Init PROVE InputInv
    OBVIOUS
  <2>1. WaitingNotZero /\ AheadBounded
    BY SizeAssumption, BoundAssumption DEF Init, WaitingNotZero, AheadBounded, RingLen
  <2>2. SerialPolledOnlyIfThere
    BY DEF Init, SerialPolledOnlyIfThere
  <2>3. OwedIsThere
    BY DEF Init, OwedIsThere
  <2> QED BY <2>1, <2>2, <2>3, TypeInit DEF InputInv
<1>2. InputInv /\ [Next]_vars => InputInv'
  BY TypeStep, NotZeroStep, PortStep, AheadStep, OwedStep DEF InputInv
<1> QED BY <1>1, <1>2, PTL DEF Spec

-----------------------------------------------------------------------------
(* Storing what a device gave is the queue's delivery.                     *)
LEMMA PutDelivers ==
  ASSUME TypeOK, NEW c \in Byte, Put(c), RingLen + 1 < CONSBUFSIZE
  PROVE  Queue!Deliver(c)
<1>1. CASE c = NO
  BY <1>1, RingUnchanged DEF Put, Queue!Deliver
<1>2. CASE c # NO
  BY <1>2, PutAppends DEF Queue!Deliver
<1> QED BY <1>1, <1>2

(* Each step of the driver is a step of the queue or leaves it alone.      *)
LEMMA StepRefines ==
  ASSUME MaxAhead < CONSBUFSIZE, InputInv, [Next]_vars
  PROVE  [Queue!Next]_(Queue!vars)
<1> USE SizeAssumption, BoundAssumption
<1>0. /\ TypeOK /\ AheadBounded /\ SerialPolledOnlyIfThere /\ OwedIsThere
      /\ RingLen \in Nat /\ Len(rx) \in Nat /\ Len(kbc) \in Nat
  BY RingShape, LenProperties DEF InputInv, TypeOK
<1>1. CASE SerialArrive
  <2>1. /\ RingContents' = RingContents
        /\ \E b \in Byte : rx' = << b >>
        /\ UNCHANGED << kbc, shift, got, pc, owedRx, owedKbc >>
    BY <1>1, RingUnchanged, BytesAssumption DEF SerialArrive, owed
  <2> QED BY <2>1 DEF Queue!Next, Queue!SerialArrives, StateOf
<1>2. CASE KbcArrive
  <2>1. /\ RingContents' = RingContents
        /\ UNCHANGED << rx, shift, got, pc, owedRx, owedKbc >>
    BY <1>2, RingUnchanged DEF KbcArrive, owed
  <2>2. \E b \in Byte, a \in BOOLEAN : kbc' = Append(kbc, [aux |-> a, data |-> b])
    BY <1>2, BytesAssumption DEF KbcArrive
  <2> QED BY <2>1, <2>2 DEF Queue!Next, Queue!KeyArrives, StateOf
<1>3. CASE ConsInit
  <2>1. /\ RingContents' = RingContents
        /\ pc = "boot" /\ pc' = "idle" /\ rx' = << >>
        /\ UNCHANGED << kbc, shift, got, owedRx, owedKbc >>
    BY <1>3, RingUnchanged DEF ConsInit, owed
  <2> QED BY <2>1 DEF Queue!Next, Queue!Start, StateOf
<1>4. CASE CallGetc
  <2>1. /\ RingContents' = RingContents
        /\ pc = "idle" /\ pc' \in {"serial", "kbd"}
        /\ UNCHANGED << rx, kbc, shift, got >>
    BY <1>4, RingUnchanged DEF CallGetc, devices
  <2>2. owedRx' = Len(rx) /\ Queue!Readable(kbc, owedKbc')
    BY <1>0, <1>4, NoteType DEF CallGetc
  <2> QED BY <2>1, <2>2 DEF Queue!Next, Queue!Call, StateOf
<1>5. CASE SerialRead
  <2>1. uart /\ rx # << >>
    BY <1>0, <1>5 DEF SerialRead, SerialReady, SerialPolledOnlyIfThere
  <2>2. Len(rx) = 1
    BY <1>0, <2>1, FullRegister DEF TypeOK
  <2>3. RingLen + 1 < CONSBUFSIZE
    BY <1>0, <2>2 DEF AheadBounded
  <2>4. Head(rx) \in Byte /\ Put(Head(rx))
    BY <1>0, <1>5, <2>1, SerialByte DEF SerialRead
  <2>5. Queue!Deliver(Head(rx))
    BY <1>0, <2>3, <2>4, PutDelivers
  <2>6. /\ pc = "serial" /\ rx' = << >> /\ owedRx' = 0
        /\ UNCHANGED << kbc, shift, pc, got, owedKbc >>
    BY <1>5 DEF SerialRead
  <2> QED BY <2>1, <2>5, <2>6 DEF Queue!Next, Queue!SerialGives, StateOf
<1>6. CASE KbdRead
  <2>1. Len(kbc) >= 1
    BY <1>0, <1>6 DEF TypeOK, KbdRead, KbdReady
  <2>2. RingLen + 1 < CONSBUFSIZE
    BY <1>0, <2>1 DEF AheadBounded
  <2> DEFINE rr == Scan(shift, Head(kbc).data)
  <2>3. rr.c \in Byte /\ rr.reboot \in BOOLEAN
    BY <1>0, <1>6, KbdByte
  <2>4. /\ pc = "kbd" /\ kbc # << >> /\ ~Head(kbc).aux /\ kbc' = Tail(kbc)
        /\ shift' = rr.shift /\ Put(rr.c)
        /\ pc' = IF rr.reboot THEN "reset" ELSE "kbd"
        /\ owedKbc' = IF owedKbc = 0 THEN 0 ELSE owedKbc - 1
        /\ UNCHANGED << rx, got, owedRx >>
    BY <1>6 DEF KbdRead, KbdReady
  <2>5. Queue!Deliver(rr.c)
    <3> HIDE DEF rr
    <3> QED BY <1>0, <2>2, <2>3, <2>4, PutDelivers
  <2>6. StateOf(pc) = "call" /\ StateOf(pc') = IF rr.reboot THEN "reset" ELSE "call"
    <3> HIDE DEF rr
    <3> QED BY <2>4 DEF StateOf
  <2>7. Queue!KeyGives
    BY <2>4, <2>5, <2>6 DEF Queue!KeyGives
  <2> QED BY <2>7 DEF Queue!Next
<1>7. CASE SerialDry \/ KbdDry \/ UNCHANGED vars
  <2>1. /\ RingContents' = RingContents
        /\ StateOf(pc') = StateOf(pc)
        /\ UNCHANGED << rx, kbc, shift, got, owedRx, owedKbc >>
    BY <1>7, RingUnchanged DEF SerialDry, KbdDry, vars, devices, owed, ring, StateOf
  <2> QED BY <2>1 DEF Queue!vars
<1>8. CASE Grab
  <2>0. /\ StateOf(pc) = "call" /\ owedRx = 0 /\ owedKbc = 0
        /\ StateOf(pc') = "idle"
        /\ UNCHANGED << rx, kbc, shift, owedRx, owedKbc >>
    BY <1>0, <1>8 DEF Grab, OwedIsThere, StateOf, devices, owed
  <2>1. CASE rpos = wpos
    <3>1. RingContents' = RingContents
      BY <1>8, <2>1, RingUnchanged DEF Grab, ring
    <3>2. RingContents = << >>
      <4>1. Len(RingContents) = 0 /\ RingContents \in Seq(Byte)
        BY <1>0, <2>1, RingShape, ContentsType
      <4> QED BY <4>1
    <3>3. got' = 0
      BY <1>8, <2>1 DEF Grab
    <3> QED BY <2>0, <3>1, <3>2, <3>3 DEF Queue!Next, Queue!TakeNone, Queue!Answer
  <2>2. CASE rpos # wpos
    <3>1. /\ RingContents # << >> /\ buf[rpos] = Head(RingContents)
          /\ RingContents' = Tail(RingContents)
      BY <1>0, <1>8, <2>2, GrabTakesHead DEF Grab
    <3>2. got' = buf[rpos]
      BY <1>8, <2>2 DEF Grab
    <3> QED BY <2>0, <3>1, <3>2 DEF Queue!Next, Queue!Take, Queue!Answer
  <2> QED BY <2>1, <2>2
<1>9. CASE Reset
  <2>1. /\ RingLen' = 0 /\ got' = 0 /\ shift' = {} /\ owedRx' = 0 /\ owedKbc' = 0
        /\ pc = "reset" /\ pc' = "boot"
        /\ UNCHANGED << rx, kbc >>
    BY <1>9 DEF Reset, ClearBss, RingLen, devices
  <2>2. RingContents' \in [1 .. 0 -> Byte]
    BY <2>1 DEF RingContents
  <2>3. RingContents' \in Seq(Byte) /\ Len(RingContents') = 0
    BY <2>2
  <2>4. RingContents' = << >>
    BY <2>3, EmptySeq
  <2> QED BY <2>1, <2>4 DEF Queue!Next, Queue!Reset, StateOf
<1> QED BY <1>1, <1>2, <1>3, <1>4, <1>5, <1>6, <1>7, <1>8, <1>9 DEF Next, Kernel

(* cons_intr() and cons_getc() implement the queue, if input never gets    *)
(* CONSBUFSIZE or more characters ahead (run ConsoleOverrun shows that it  *)
(* must not): each byte of the serial port and each character that Scan    *)
(* makes of the keyboard's bytes comes out once and in order, 0 is         *)
(* answered only when every byte that a device had at the call has been    *)
(* looked at and no character waits, and only a reset that Ctrl-Alt-Del    *)
(* asked for empties the queue and the decoder's state.                    *)
THEOREM QueueImplemented ==
  ASSUME MaxAhead < CONSBUFSIZE
  PROVE  Spec => ImplementsQueue
<1>1. Init => Queue!Init
  <2> SUFFICES ASSUME Init PROVE Queue!Init
    OBVIOUS
  <2>1. TypeOK
    BY TypeInit
  <2>2. RingLen = 0
    BY SizeAssumption DEF Init, RingLen
  <2>3. Len(RingContents) = 0 /\ RingContents \in Seq(Byte)
    BY <2>1, <2>2, ContentsType
  <2>4. RingContents = << >>
    BY <2>3, EmptySeq
  <2> QED BY <2>4 DEF Init, Queue!Init, StateOf
<1>2. InputInv /\ [Next]_vars => [Queue!Next]_(Queue!vars)
  BY StepRefines
<1>3. Spec => []InputInv
  BY InputInvariant
<1> QED BY <1>1, <1>2, <1>3, PTL DEF Spec, ImplementsQueue, Queue!Spec
=============================================================================
