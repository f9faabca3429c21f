---------------------------- MODULE ConsoleInput ----------------------------
(***************************************************************************)
(* Console input, kern/console.c: the circular buffer `cons', the routine  *)
(* cons_intr() that drains a device into it, and cons_getc(), which polls  *)
(* the serial port, then the keyboard, and takes one character out.        *)
(*                                                                         *)
(* Three parties act.  The kernel is one thread of control that runs with  *)
(* interrupts off (boot.S clears IF and nothing sets it), so devices are   *)
(* polled: each call of a device's `proc' is a step of the kernel.  The    *)
(* UART and the keyboard controller act on their own between those steps:  *)
(* bytes arrive whenever they like, in the middle of a poll as well.       *)
(***************************************************************************)
EXTENDS KeyMap

CONSTANTS
  CONSBUFSIZE,   \* slots of the circular buffer (512 in the code)
  SerialBytes,   \* the bytes the serial line may deliver
  KbdBytes,      \* the scan codes the keyboard may send
  AuxBytes,      \* the bytes the mouse may send
  KbcSize,       \* bytes the keyboard controller holds
  MaxAhead       \* bound on characters waiting anywhere: how far the people
                 \* typing may get ahead of the kernel

ASSUME SizeAssumption  == CONSBUFSIZE \in Nat /\ CONSBUFSIZE >= 2
ASSUME BytesAssumption == /\ SerialBytes \subseteq Byte
                          /\ KbdBytes \subseteq Byte
                          /\ AuxBytes \subseteq Byte
ASSUME BoundAssumption == KbcSize \in Nat /\ MaxAhead \in Nat

VARIABLES
  \* the devices
  uart,          \* is there a serial port?
  rx,            \* its receive buffer register: empty, or one byte (FIFO off)
  kbc,           \* the bytes in the keyboard controller, oldest first
  \* the kernel
  serial_exists, \* as in the code
  buf, rpos, wpos, \* the fields of `cons'
  pc,            \* where the kernel is
  got,           \* what the last cons_getc() returned
  \* history: of the bytes that could be read when cons_getc() was called,
  \* how many it has not read yet
  owedRx, owedKbc

ring    == << buf, rpos, wpos >>
devices == << uart, rx, kbc >>
owed    == << owedRx, owedKbc >>
vars    == << uart, rx, kbc, serial_exists, shift, buf, rpos, wpos, pc, got, owedRx, owedKbc >>

Slots == 0 .. CONSBUFSIZE - 1

Succ(pos) == IF pos + 1 = CONSBUFSIZE THEN 0 ELSE pos + 1

(***************************************************************************)
(* The characters in the buffer, oldest first.                             *)
(***************************************************************************)
RingLen == IF rpos <= wpos THEN wpos - rpos ELSE wpos - rpos + CONSBUFSIZE

SlotOf(k) == IF rpos + k < CONSBUFSIZE THEN rpos + k ELSE rpos + k - CONSBUFSIZE

RingContents == [k \in 1 .. RingLen |-> buf[SlotOf(k - 1)]]

(***************************************************************************)
(* What the callers of cons_getc() are promised.                           *)
(***************************************************************************)
StateOf(where) == IF where \in {"serial", "kbd", "grab"} THEN "call" ELSE where

Queue == INSTANCE CharQueue
           WITH serial <- rx, keys <- kbc, waiting <- RingContents, state <- StateOf(pc),
                owedSerial <- owedRx, owedKeys <- owedKbc

-----------------------------------------------------------------------------
(***************************************************************************)
(* The devices.  A byte that finds the UART's register full overwrites it  *)
(* (an overrun).  The controller keeps keyboard and mouse bytes in one     *)
(* queue and tells them apart by the status bit KBS_TERR.                  *)
(***************************************************************************)
RoomAhead == RingLen + Len(rx) + Len(kbc) < MaxAhead

SerialArrive ==
  /\ uart /\ RoomAhead
  /\ \E b \in SerialBytes : rx' = << b >>
  /\ UNCHANGED << uart, kbc, serial_exists, shift, ring, pc, got, owed >>

KbcArrive ==
  /\ RoomAhead /\ Len(kbc) < KbcSize
  /\ \/ \E b \in KbdBytes : kbc' = Append(kbc, [aux |-> FALSE, data |-> b])
     \/ \E b \in AuxBytes : kbc' = Append(kbc, [aux |-> TRUE, data |-> b])
  /\ UNCHANGED << uart, rx, serial_exists, shift, ring, pc, got, owed >>

-----------------------------------------------------------------------------
(***************************************************************************)
(* cons_init(): a missing UART reads 0xFF from its status register, which  *)
(* is how serial_init() finds out; then it throws away what RX holds.      *)
(***************************************************************************)
ConsInit ==
  /\ pc = "boot"
  /\ pc' = "idle"
  /\ serial_exists' = uart
  /\ rx' = << >>
  /\ UNCHANGED << uart, kbc, shift, ring, got, owed >>

(* Mutant: keys without a character are stored too. *)
PutAll(c) ==
  /\ buf' = [buf EXCEPT ![wpos] = c]
  /\ wpos' = Succ(wpos)
  /\ UNCHANGED rpos

(***************************************************************************)
(* The inner step of cons_intr(): a character other than 0 goes into the   *)
(* buffer, as a uint8_t, and the write position advances and wraps.        *)
(***************************************************************************)
Put(c) ==
  IF c = NO
  THEN UNCHANGED ring
  ELSE /\ buf' = [buf EXCEPT ![wpos] = c]
       /\ wpos' = Succ(wpos)
       /\ UNCHANGED rpos

(* A call begins, and owes its caller what the devices have now. *)
NoteOwed ==
  /\ owedRx' = Len(rx)
  /\ \E n \in 0 .. Len(kbc) : Queue!Readable(kbc, n) /\ owedKbc' = n

(* Mutants: the port is polled whether it exists or not; it is not polled at all. *)
CallGetcBlind ==
  /\ pc = "idle"
  /\ pc' = "serial"
  /\ NoteOwed
  /\ UNCHANGED << devices, serial_exists, shift, ring, got >>

CallGetcKeys ==
  /\ pc = "idle"
  /\ pc' = "kbd"
  /\ NoteOwed
  /\ UNCHANGED << devices, serial_exists, shift, ring, got >>

(* getchar() calls cons_getc(); serial_intr() does nothing without a UART. *)
CallGetc ==
  /\ pc = "idle"
  /\ pc' = IF serial_exists THEN "serial" ELSE "kbd"
  /\ NoteOwed
  /\ UNCHANGED << devices, serial_exists, shift, ring, got >>

(***************************************************************************)
(* serial_proc_data(): with no UART both registers read 0xFF, so that the  *)
(* data bit is always set.                                                 *)
(***************************************************************************)
SerialReady == ~uart \/ rx # << >>

SerialRead ==
  /\ pc = "serial" /\ SerialReady
  /\ Put(IF uart THEN Head(rx) ELSE 255)
  /\ rx' = << >>
  /\ owedRx' = 0
  /\ UNCHANGED << uart, kbc, serial_exists, shift, pc, got, owedKbc >>

SerialDry ==
  /\ pc = "serial" /\ ~SerialReady
  /\ pc' = "kbd"
  /\ UNCHANGED << devices, serial_exists, shift, ring, got, owed >>

(***************************************************************************)
(* kbd_proc_data(): the status register tells whether a byte waits and     *)
(* whether it is the mouse's; a mouse byte ends the poll and is left where *)
(* it is.  Ctrl-Alt-Del asks for a reset of the machine through port 0x92, *)
(* and until that takes effect the code goes on: Del reaches the buffer.   *)
(***************************************************************************)
KbdReady == kbc # << >> /\ ~Head(kbc).aux

KbdRead ==
  /\ pc = "kbd" /\ KbdReady
  /\ LET r == Scan(shift, Head(kbc).data)
     IN  /\ shift' = r.shift
         /\ Put(r.c)
         /\ pc' = IF r.reboot THEN "reset" ELSE "kbd"
  /\ kbc' = Tail(kbc)
  /\ owedKbc' = IF owedKbc = 0 THEN 0 ELSE owedKbc - 1
  /\ UNCHANGED << uart, rx, serial_exists, got, owedRx >>

KbdDry ==
  /\ pc = "kbd" /\ ~KbdReady
  /\ pc' = "grab"
  /\ UNCHANGED << devices, serial_exists, shift, ring, got, owed >>

(* Mutant: the character is returned but stays in the buffer. *)
GrabKeeps ==
  /\ pc = "grab"
  /\ pc' = "idle"
  /\ got' = IF rpos # wpos THEN buf[rpos] ELSE 0
  /\ UNCHANGED << devices, serial_exists, shift, ring, owed >>

(* The end of cons_getc(): take a character, or return 0. *)
Grab ==
  /\ pc = "grab"
  /\ pc' = "idle"
  /\ IF rpos # wpos
     THEN got' = buf[rpos] /\ rpos' = Succ(rpos)
     ELSE got' = 0 /\ UNCHANGED rpos
  /\ UNCHANGED << devices, serial_exists, shift, buf, wpos, owed >>

(***************************************************************************)
(* The machine comes up again: i386_init() clears the BSS, where all of    *)
(* the console's variables live, and will call cons_init().                *)
(***************************************************************************)
ClearBss ==
  /\ pc' = "boot"
  /\ serial_exists' = FALSE
  /\ shift' = {}
  /\ buf' = [s \in Slots |-> 0]
  /\ rpos' = 0 /\ wpos' = 0
  /\ got' = 0
  /\ owedRx' = 0 /\ owedKbc' = 0

Reset ==
  /\ pc = "reset"
  /\ ClearBss
  /\ UNCHANGED devices

-----------------------------------------------------------------------------
Init ==
  /\ uart \in BOOLEAN
  /\ rx = << >> /\ kbc = << >>
  /\ serial_exists = FALSE
  /\ shift = {}
  /\ buf = [s \in Slots |-> 0]
  /\ rpos = 0 /\ wpos = 0
  /\ pc = "boot"
  /\ got = 0
  /\ owedRx = 0 /\ owedKbc = 0

Kernel == \/ ConsInit \/ CallGetc \/ SerialRead \/ SerialDry
          \/ KbdRead \/ KbdDry \/ Grab \/ Reset

Next == SerialArrive \/ KbcArrive \/ Kernel

Spec == Init /\ [][Next]_vars

(***************************************************************************)
(* Fairness.  The kernel never blocks: getchar() loops, and each step of   *)
(* the poll is a few instructions.  The two SF conjuncts say that the poll *)
(* loop is faster than the line: among infinitely many polls of a device,  *)
(* some find it with nothing to read.                                      *)
(***************************************************************************)
FairSpec == /\ Spec
            /\ WF_vars(Kernel)
            /\ SF_vars(SerialDry)
            /\ SF_vars(KbdDry)

-----------------------------------------------------------------------------
TypeOK ==
  /\ uart \in BOOLEAN
  /\ rx \in Seq(Byte) /\ Len(rx) <= 1
  /\ kbc \in Seq([aux : BOOLEAN, data : Byte])
  /\ serial_exists \in BOOLEAN
  /\ shift \in SUBSET Flags
  /\ buf \in [Slots -> Byte]
  /\ rpos \in Slots /\ wpos \in Slots
  /\ pc \in {"boot", "idle", "serial", "kbd", "grab", "reset"}
  /\ got \in Byte
  /\ owedRx \in 0 .. 1 /\ owedKbc \in Nat

(***************************************************************************)
(* The circular buffer is the queue of CharQueue: what the devices         *)
(* delivered comes out of cons_getc() once, in order, unchanged but for    *)
(* the decoding of the keys, and 0 comes out only when nothing waits (the  *)
(* comment of cons_getc), neither in the buffer nor, since the call, in a  *)
(* device.  A reset leaves neither characters nor modifiers behind.        *)
(***************************************************************************)
ImplementsQueue == Queue!Spec

(***************************************************************************)
(* No byte in the occupied part of the buffer is 0: getchar(), which spins *)
(* as long as cons_getc() returns 0, cannot lose a character it took out.  *)
(***************************************************************************)
WaitingNotZero == \A k \in 1 .. RingLen : RingContents[k] # 0

(***************************************************************************)
(* The inductive invariant behind the refinement.  cons_intr() never tests *)
(* for a full buffer, so what keeps wpos from lapping rpos is the bound on *)
(* typing ahead: whatever waits in a device still has a slot.  And the     *)
(* kernel polls the serial port only if there is one: a missing port reads *)
(* as one that always has a byte.                                          *)
(***************************************************************************)
AheadBounded == RingLen + Len(rx) + Len(kbc) <= MaxAhead

SerialPolledOnlyIfThere ==
  /\ pc = "serial" => serial_exists
  /\ pc = "boot" \/ serial_exists = uart
  /\ ~uart => rx = << >>

(***************************************************************************)
(* What a call still owes is there, in front of the mouse's bytes, and it  *)
(* has been paid when the call goes on to the next device.                 *)
(***************************************************************************)
OwedIsThere ==
  /\ owedRx <= Len(rx)
  /\ owedKbc <= Len(kbc) /\ \A k \in 1 .. owedKbc : ~kbc[k].aux
  /\ pc \in {"boot", "idle", "kbd", "grab", "reset"} => owedRx = 0
  /\ pc \in {"boot", "idle", "grab"} => owedKbc = 0

InputInv == TypeOK /\ WaitingNotZero /\ AheadBounded /\ SerialPolledOnlyIfThere /\ OwedIsThere

(***************************************************************************)
(* Liveness.  A call of cons_getc() returns, whatever keeps arriving, and  *)
(* the oldest character of the buffer is taken out sooner or later.        *)
(***************************************************************************)
GetcReturns == pc \in {"serial", "kbd", "grab"} ~> pc \in {"idle", "reset"}

OldestIsTaken ==
  \A s \in Slots : (rpos = s /\ wpos # s) ~> (rpos # s \/ pc = "reset")

=============================================================================
