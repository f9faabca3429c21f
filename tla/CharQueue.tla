----------------------------- MODULE CharQueue ------------------------------
(***************************************************************************)
(* What the console promises its callers about input.  The bytes of the    *)
(* serial port and the characters that the bytes of the keyboard make,     *)
(* decoded by Scan, wait in one queue: each once, in order, and unchanged. *)
(* A call of cons_getc() first brings in every byte that a device had when *)
(* it was called, and then takes out the oldest character; it answers 0    *)
(* only when none waits.  Only Ctrl-Alt-Del, by way of a reset of the      *)
(* machine, empties the queue.                                             *)
(***************************************************************************)
EXTENDS Integers, Sequences

CONSTANTS Byte, NO,     \* the bytes, and the byte that is no character
          Scan(_, _)    \* the decoder of the keyboard's bytes

VARIABLES serial,       \* the byte in the serial port, if there is one
          keys,         \* the bytes of keyboard and mouse, oldest first
          shift,        \* the modifiers and locks that the decoder remembers
          waiting,      \* the characters brought in and not yet taken
          got,          \* what the last cons_getc() returned
          state,        \* "boot", "idle", "call" (of cons_getc()), "reset"
          owedSerial, owedKeys \* of the bytes that the devices had when
                        \* cons_getc() was called, those still to bring in

vars == << serial, keys, shift, waiting, got, state, owedSerial, owedKeys >>

(* The first n bytes of q are the keyboard's, and no more: a byte of the   *)
(* mouse keeps those behind it from being seen.                            *)
Readable(q, n) == /\ n \in 0 .. Len(q)
                  /\ \A k \in 1 .. n : ~q[k].aux
                  /\ n < Len(q) => q[n + 1].aux

Deliver(c) == waiting' = IF c = NO THEN waiting ELSE Append(waiting, c)

Init == /\ serial = << >> /\ keys = << >>
        /\ shift = {}
        /\ waiting = << >>
        /\ got = 0
        /\ state = "boot"
        /\ owedSerial = 0 /\ owedKeys = 0

SerialArrives == /\ \E b \in Byte : serial' = << b >>
                 /\ UNCHANGED << keys, shift, waiting, got, state, owedSerial, owedKeys >>

KeyArrives == /\ \E b \in Byte, a \in BOOLEAN : keys' = Append(keys, [aux |-> a, data |-> b])
              /\ UNCHANGED << serial, shift, waiting, got, state, owedSerial, owedKeys >>

(* cons_init() throws away what the port holds. *)
Start == /\ state = "boot" /\ state' = "idle"
         /\ serial' = << >>
         /\ UNCHANGED << keys, shift, waiting, got, owedSerial, owedKeys >>

Call == /\ state = "idle" /\ state' = "call"
        /\ owedSerial' = Len(serial)
        /\ Readable(keys, owedKeys')
        /\ UNCHANGED << serial, keys, shift, waiting, got >>

SerialGives == /\ state = "call"
               /\ serial # << >> /\ serial' = << >>
               /\ Deliver(Head(serial))
               /\ owedSerial' = 0
               /\ UNCHANGED << keys, shift, got, state, owedKeys >>

KeyGives == /\ state = "call"
            /\ keys # << >> /\ ~Head(keys).aux /\ keys' = Tail(keys)
            /\ LET r == Scan(shift, Head(keys).data)
               IN  /\ Deliver(r.c)
                   /\ shift' = r.shift
                   /\ state' = IF r.reboot THEN "reset" ELSE "call"
            /\ owedKeys' = IF owedKeys = 0 THEN 0 ELSE owedKeys - 1
            /\ UNCHANGED << serial, got, owedSerial >>

(* The end of a call that has brought in all that it owed. *)
Answer == /\ state = "call" /\ owedSerial = 0 /\ owedKeys = 0
          /\ state' = "idle"
          /\ UNCHANGED << serial, keys, shift, owedSerial, owedKeys >>

Take == /\ Answer
        /\ waiting # << >>
        /\ got' = Head(waiting)
        /\ waiting' = Tail(waiting)

TakeNone == /\ Answer
            /\ waiting = << >>
            /\ got' = 0
            /\ UNCHANGED waiting

Reset == /\ state = "reset" /\ state' = "boot"
         /\ waiting' = << >>
         /\ shift' = {}
         /\ got' = 0
         /\ owedSerial' = 0 /\ owedKeys' = 0
         /\ UNCHANGED << serial, keys >>

Next == \/ SerialArrives \/ KeyArrives
        \/ Start \/ Call \/ SerialGives \/ KeyGives \/ Take \/ TakeNone \/ Reset

Spec == Init /\ [][Next]_vars
=============================================================================
