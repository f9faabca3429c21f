---------------------------- MODULE MonitorProof -----------------------------
(***************************************************************************)
(* runcmd() stays in its buffers, for every size of the two, every set of  *)
(* characters and every set of commands.                                   *)
(***************************************************************************)
EXTENDS Monitor, FiniteSetTheorems, SequenceTheorems, WellFoundedInduction, TLAPS

IInv == TypeOK /\ LineSplit

(* What ReadLine puts into the buffer. *)
LEMMA LineFacts ==
  ASSUME NEW s \in Lines
  PROVE  s \in Seq(Typed) /\ Len(s) \in 0 .. BUFLEN - 1
<1>1. PICK n \in 0 .. BUFLEN - 1 : s \in [1 .. n -> Typed]
  BY DEF Lines
<1>2. s \in Seq(Typed) /\ Len(s) = n
  BY <1>1, SizesAssumption
<1> QED BY <1>2

LEMMA InitInv == Init => IInv
  BY SizesAssumption DEF Init, IInv, TypeOK, LineSplit, NULL, Garbage, Nothing

(* The line is in the buffer and its terminator behind it. *)
LEMMA ReadLineInv ==
  ASSUME IInv, ReadLine
  PROVE  IInv'
<1>1. BUFLEN \in Nat \ {0} /\ MAXARGS \in Nat \ {0} /\ Typed \subseteq 32 .. 255
  BY SizesAssumption, TypedAssumption
<1>2. PICK s \in Lines :
        /\ line' = s
        /\ buf' = [k \in 0 .. BUFLEN - 1 |-> IF k < Len(s) THEN s[k + 1]
                                             ELSE IF k = Len(s) THEN 0
                                             ELSE buf[k]]
  BY DEF ReadLine
<1>3. s \in Seq(Typed) /\ Len(s) \in 0 .. BUFLEN - 1
  BY LineFacts
<1>4. buf \in [0 .. BUFLEN - 1 -> 0 .. 255]
  BY DEF IInv, TypeOK
<1>5. ASSUME NEW k \in 0 .. Len(s) - 1
      PROVE  k \in 0 .. BUFLEN - 1 /\ s[k + 1] \in 0 .. 255 /\ buf'[k] = s[k + 1]
  <2>1. k \in 0 .. BUFLEN - 1 /\ k < Len(s) /\ k + 1 \in 1 .. Len(s)
    BY <1>1, <1>3
  <2>2. s[k + 1] \in Typed
    BY <1>3, <2>1
  <2>3. buf'[k] = s[k + 1]
    BY <1>2, <2>1
  <2>4. s[k + 1] \in 0 .. 255
    <3>1. s[k + 1] \in 32 .. 255
      BY <1>1, <2>2, Zenon
    <3> QED BY <3>1
  <2> QED BY <2>1, <2>3, <2>4
<1>6. buf'[Len(s)] = 0
  BY <1>1, <1>2, <1>3
<1>7. buf' \in [0 .. BUFLEN - 1 -> 0 .. 255]
  <2> SUFFICES ASSUME NEW k \in 0 .. BUFLEN - 1
               PROVE  (IF k < Len(s) THEN s[k + 1] ELSE IF k = Len(s) THEN 0 ELSE buf[k])
                        \in 0 .. 255
    BY <1>2
  <2>1. CASE k < Len(s)
    <3>1. k \in 0 .. Len(s) - 1
      BY <1>3, <2>1
    <3> QED BY <1>5, <2>1, <3>1
  <2>2. CASE k = Len(s)
    BY <1>3, <2>2
  <2>3. CASE ~(k < Len(s)) /\ k # Len(s)
    <3>1. buf[k] \in 0 .. 255
      BY <1>4
    <3> QED BY <2>3, <3>1
  <2> QED BY <2>1, <2>2, <2>3
<1>8. TypeOK'
  <2>1. /\ b' = 0 /\ argc' = 0 /\ at' = "gobble" /\ did' = did
        /\ argv' = [k \in 0 .. MAXARGS - 1 |-> IF k = 0 THEN NULL ELSE Garbage]
    BY DEF ReadLine
  <2>2. argv' \in [0 .. MAXARGS - 1 -> {NULL, Garbage} \cup 0 .. BUFLEN - 1]
    BY <2>1
  <2>3. b' \in 0 .. BUFLEN - 1 /\ argc' \in 0 .. MAXARGS - 1
    BY <1>1, <2>1
  <2>4. did' \in {Nothing, Unknown, Refused} \cup 1 .. Len(Names)
    BY <2>1 DEF IInv, TypeOK
  <2>5. line' \in Seq(Typed) /\ Len(line') <= BUFLEN - 1
    BY <1>1, <1>2, <1>3
  <2> QED BY <1>7, <2>1, <2>2, <2>3, <2>4, <2>5 DEF TypeOK
<1>9. LineSplit'
  <2>1. b' = 0 /\ line' = s
    BY <1>2 DEF ReadLine
  <2>2. b' <= Len(line')
    BY <1>3, <2>1
  <2>3. \A k \in 0 .. Len(line') - 1 :
          buf'[k] = IF k < b' /\ line'[k + 1] \in WHITESPACE THEN 0 ELSE line'[k + 1]
    BY <1>5, <2>1
  <2> QED BY <1>6, <2>1, <2>2, <2>3 DEF LineSplit
<1> QED BY <1>8, <1>9 DEF IInv

(* A character other than 0 is not the terminator: the pointer is before it. *)
LEMMA BeforeEnd ==
  ASSUME IInv, at \in {"gobble", "scan"}, buf[b] # 0
  PROVE  b \in 0 .. Len(line) - 1 /\ buf[b] = line[b + 1]
<1>1. b \in Nat /\ b <= Len(line) /\ b # Len(line) /\ Len(line) \in Nat
  BY DEF IInv, TypeOK, LineSplit
<1>2. b \in 0 .. Len(line) - 1
  BY <1>1
<1>3. buf[b] = IF b < b /\ line[b + 1] \in WHITESPACE THEN 0 ELSE line[b + 1]
  BY <1>2 DEF IInv, LineSplit
<1> QED BY <1>1, <1>2, <1>3

LEMMA GobbleInv ==
  ASSUME IInv, Gobble
  PROVE  IInv'
<1>1. /\ TypeOK /\ LineSplit /\ at = "gobble" /\ buf[b] \in WHITESPACE
      /\ buf' = [buf EXCEPT ![b] = 0] /\ b' = b + 1
      /\ UNCHANGED << argc, argv, at, line, did >>
  BY DEF IInv, Gobble, args
<1>2. b \in 0 .. Len(line) - 1 /\ buf[b] = line[b + 1]
  BY <1>1, BeforeEnd DEF WHITESPACE
<1>3. Len(line) \in Nat /\ Len(line) <= BUFLEN - 1 /\ BUFLEN \in Nat
      /\ buf \in [0 .. BUFLEN - 1 -> 0 .. 255]
  BY <1>1, SizesAssumption DEF TypeOK
<1>4. TypeOK'
  BY <1>1, <1>2, <1>3 DEF TypeOK
<1>5. \A k \in 0 .. Len(line) - 1 :
        buf'[k] = IF k < b + 1 /\ line[k + 1] \in WHITESPACE THEN 0 ELSE line[k + 1]
  <2> TAKE k \in 0 .. Len(line) - 1
  <2>1. buf[k] = IF k < b /\ line[k + 1] \in WHITESPACE THEN 0 ELSE line[k + 1]
    BY <1>1 DEF LineSplit
  <2>2. CASE k = b
    BY <1>1, <1>2, <1>3, <2>2
  <2>3. CASE k # b
    <3>1. buf'[k] = buf[k] /\ (k < b <=> k < b + 1)
      BY <1>1, <1>2, <1>3, <2>3
    <3> QED BY <2>1, <3>1
  <2> QED BY <2>2, <2>3
<1>6. buf'[Len(line)] = 0 /\ b + 1 <= Len(line)
  BY <1>1, <1>2, <1>3 DEF LineSplit
<1>7. LineSplit'
  BY <1>1, <1>5, <1>6 DEF LineSplit
<1> QED BY <1>4, <1>7 DEF IInv

LEMMA ScanInv ==
  ASSUME IInv, ScanWord
  PROVE  IInv'
<1>1. /\ TypeOK /\ LineSplit /\ at = "scan" /\ buf[b] \notin WHITESPACE \cup {0}
      /\ b' = b + 1
      /\ UNCHANGED << buf, argc, argv, at, line, did >>
  BY DEF IInv, ScanWord, args
<1>2. b \in 0 .. Len(line) - 1 /\ buf[b] = line[b + 1]
  BY <1>1, BeforeEnd
<1>3. Len(line) \in Nat /\ Len(line) <= BUFLEN - 1 /\ BUFLEN \in Nat
  BY <1>1, SizesAssumption DEF TypeOK
<1>4. TypeOK'
  BY <1>1, <1>2, <1>3 DEF TypeOK
<1>5. \A k \in 0 .. Len(line) - 1 :
        buf[k] = IF k < b + 1 /\ line[k + 1] \in WHITESPACE THEN 0 ELSE line[k + 1]
  <2> TAKE k \in 0 .. Len(line) - 1
  <2>1. buf[k] = IF k < b /\ line[k + 1] \in WHITESPACE THEN 0 ELSE line[k + 1]
    BY <1>1 DEF LineSplit
  <2>2. CASE k = b
    BY <1>1, <1>2, <2>2
  <2>3. CASE k # b
    <3>1. k < b <=> k < b + 1
      BY <1>2, <1>3, <2>3
    <3> QED BY <2>1, <3>1
  <2> QED BY <2>2, <2>3
<1>6. b + 1 <= Len(line)
  BY <1>2, <1>3
<1>7. LineSplit'
  BY <1>1, <1>5, <1>6 DEF LineSplit
<1> QED BY <1>4, <1>7 DEF IInv

(* A word is saved in a slot of argv, and one is left for the null pointer. *)
LEMMA SaveInv ==
  ASSUME IInv, Save
  PROVE  IInv'
<1>1. /\ TypeOK /\ LineSplit /\ at = "gobble" /\ argc # MAXARGS - 1
      /\ argv' = [argv EXCEPT ![argc] = b] /\ argc' = argc + 1 /\ at' = "scan"
      /\ UNCHANGED << buf, b, line, did >>
  BY DEF IInv, Save, TooMany
<1>2. argc + 1 \in 0 .. MAXARGS - 1
  BY <1>1, SizesAssumption DEF TypeOK
<1>3. argv' \in [0 .. MAXARGS - 1 -> {NULL, Garbage} \cup 0 .. BUFLEN - 1]
  BY <1>1 DEF TypeOK
<1>4. TypeOK'
  BY <1>1, <1>2, <1>3 DEF TypeOK
<1>5. LineSplit'
  BY <1>1 DEF LineSplit
<1> QED BY <1>4, <1>5 DEF IInv

LEMMA EndOfLineInv ==
  ASSUME IInv, EndOfLine
  PROVE  IInv'
<1>1. /\ TypeOK /\ LineSplit /\ at = "gobble" /\ at' = "lookup"
      /\ argv' = [argv EXCEPT ![argc] = NULL]
      /\ UNCHANGED << buf, b, argc, line, did >>
  BY DEF IInv, EndOfLine
<1>2. argv' \in [0 .. MAXARGS - 1 -> {NULL, Garbage} \cup 0 .. BUFLEN - 1]
  BY <1>1 DEF TypeOK
<1>3. TypeOK'
  BY <1>1, <1>2 DEF TypeOK
<1>4. LineSplit'
  BY <1>1 DEF LineSplit
<1> QED BY <1>3, <1>4 DEF IInv

LEMMA ReturnInv ==
  ASSUME IInv, Returned
  PROVE  IInv'
<1>1. /\ TypeOK /\ at' = "readline" /\ line' = << >> /\ did' = Nothing
      /\ b' = 0 /\ argc' = 0 /\ argv' = [k \in 0 .. MAXARGS - 1 |-> Garbage]
      /\ buf' = buf
  BY DEF IInv, Returned
<1>2. TypeOK'
  BY <1>1, SizesAssumption DEF TypeOK
<1> QED BY <1>1, <1>2 DEF IInv, LineSplit

(* The other steps move on, or say what was done. *)
LEMMA OthersInv ==
  ASSUME IInv, Complain \/ EndOfWord \/ Lookup \/ UNCHANGED vars
  PROVE  IInv'
<1>1. TypeOK /\ LineSplit /\ UNCHANGED << buf, b, argc, argv, line >>
  BY DEF IInv, Complain, EndOfWord, Lookup, vars, args
<1>2. /\ at' \in {"gobble", "done"} \/ at' = at
      /\ did' = did \/ did' \in {Nothing, Unknown, Refused} \/ did' \in 1 .. Len(Names)
      /\ at' # "readline" => at # "readline"
  BY DEF Complain, EndOfWord, Lookup, vars
<1>3. TypeOK'
  BY <1>1, <1>2 DEF TypeOK
<1>4. LineSplit'
  BY <1>1, <1>2 DEF LineSplit
<1> QED BY <1>3, <1>4 DEF IInv

(* Every behaviour of the monitor keeps the inductive invariant. *)
THEOREM Invariance == Spec => []IInv
<1>1. IInv /\ [Next]_vars => IInv'
  BY ReadLineInv, GobbleInv, ScanInv, SaveInv, EndOfLineInv, ReturnInv, OthersInv
     DEF Next, RunCmd
<1> QED BY InitInv, <1>1, PTL DEF Spec

(* runcmd() never leaves the buffer of readline(), nor argv. *)
THEOREM TypeCorrect == Spec => []TypeOK
<1>1. IInv => TypeOK
  BY DEF IInv
<1> QED BY Invariance, <1>1, PTL

(* Splitting overwrites white space and nothing else. *)
THEOREM SplitKeepsWords == Spec => []LineSplit
<1>1. IInv => LineSplit
  BY DEF IInv
<1> QED BY Invariance, <1>1, PTL

-----------------------------------------------------------------------------
(***************************************************************************)
(* What argv holds.  While the line is split, its entries are the starts   *)
(* of words in their order, all of them up to the pointer, and each word   *)
(* but the one being scanned ends before the pointer.                      *)
(***************************************************************************)
Seen(c) == \A st \in Starts(line) : st <= c => \E k \in 0 .. argc - 1 : argv[k] + 1 = st

Ended(n) == \A k \in 0 .. n - 1 : \E e \in 1 .. b : Ends(line, argv[k] + 1, e)

InWords ==
  at \in {"gobble", "scan", "lookup"} =>
    /\ \A k \in 0 .. argc - 1 : argv[k] \in 0 .. b /\ argv[k] + 1 \in Starts(line)
    /\ \A k \in 0 .. argc - 1 : \A j \in 0 .. k - 1 : argv[j] < argv[k]

BetweenWords ==
  at \in {"gobble", "lookup"} =>
    /\ Seen(b) /\ Ended(argc)
    /\ \/ b = 0 \/ b = Len(line)
       \/ line[b] \in WHITESPACE
       \/ line[b + 1] \in WHITESPACE

InWord ==
  at = "scan" =>
    /\ argc > 0
    /\ Seen(argv[argc - 1] + 1) /\ Ended(argc - 1)
    /\ \A j \in argv[argc - 1] + 1 .. b : line[j] \notin WHITESPACE

AllSplit == at = "lookup" => b = Len(line) /\ argv[argc] = NULL

SplitInv == IInv /\ InWords /\ BetweenWords /\ InWord /\ AllSplit /\ RightCommand

(* The facts of the types that every step needs.                           *)
LEMMA Facts ==
  ASSUME IInv
  PROVE  /\ BUFLEN \in Nat /\ BUFLEN > 0 /\ MAXARGS \in Nat /\ MAXARGS > 0
         /\ line \in Seq(Typed) /\ Len(line) \in Nat /\ Len(line) <= BUFLEN - 1
         /\ b \in Nat /\ argc \in Nat /\ argc <= MAXARGS - 1
         /\ \A k \in 1 .. Len(line) : line[k] \in Nat /\ line[k] # 0
         /\ at # "readline" => b <= Len(line)
<1>1. /\ BUFLEN \in Nat /\ BUFLEN > 0 /\ MAXARGS \in Nat /\ MAXARGS > 0
      /\ line \in Seq(Typed) /\ Len(line) \in Nat /\ Len(line) <= BUFLEN - 1
      /\ b \in Nat /\ argc \in Nat /\ argc <= MAXARGS - 1
  BY SizesAssumption DEF IInv, TypeOK
<1>2. ASSUME NEW k \in 1 .. Len(line)
      PROVE  line[k] \in Nat /\ line[k] # 0
  <2>1. line[k] \in Typed
    BY <1>1
  <2>2. line[k] \in 32 .. 255
    BY <2>1, TypedAssumption, Zenon
  <2>3. \A x \in 32 .. 255 : x \in Nat /\ x # 0
    OBVIOUS
  <2> QED BY <2>2, <2>3, Zenon
<1>3. at # "readline" => b <= Len(line)
  BY DEF IInv, LineSplit
<1> QED BY <1>1, <1>2, <1>3

(* The character the pointer stands at is 0 only at the end of the line.   *)
LEMMA AtPointer ==
  ASSUME IInv, at \in {"gobble", "scan"}
  PROVE  /\ buf[b] = 0 <=> b = Len(line)
         /\ buf[b] # 0 => b + 1 \in 1 .. Len(line) /\ buf[b] = line[b + 1]
<1>1. b <= Len(line) /\ b \in Nat /\ Len(line) \in Nat /\ buf[Len(line)] = 0
  BY Facts DEF IInv, LineSplit
<1>2. CASE b # Len(line)
  <2>1. b \in 0 .. Len(line) - 1 /\ b + 1 \in 1 .. Len(line)
    BY <1>1, <1>2
  <2>2. buf[b] = line[b + 1]
    <3>1. buf[b] = IF b < b /\ line[b + 1] \in WHITESPACE THEN 0 ELSE line[b + 1]
      BY <2>1 DEF IInv, LineSplit
    <3> QED BY <1>1, <3>1
  <2> QED BY <1>2, <2>1, <2>2, Facts
<1> QED BY <1>1, <1>2

(* Where a word starts is a character of the line, not white space.        *)
LEMMA StartFacts ==
  ASSUME NEW s, Len(s) \in Nat, NEW k \in Starts(s)
  PROVE  k \in 1 .. Len(s) /\ s[k] \notin WHITESPACE /\ (k > 1 => s[k - 1] \in WHITESPACE)
  BY DEF Starts

-----------------------------------------------------------------------------
(* The steps.                                                              *)
LEMMA ReadLineWords ==
  ASSUME SplitInv, ReadLine
  PROVE  SplitInv'
<1>1. IInv'
  BY ReadLineInv DEF SplitInv
<1>2. b' = 0 /\ argc' = 0 /\ at' = "gobble"
  BY DEF ReadLine
<1>3. Len(line') \in Nat
  BY <1>1 DEF IInv, TypeOK
<1>4. \A st \in Starts(line') : ~(st <= 0)
  BY <1>3 DEF Starts
<1>5. Seen(b)'
  BY <1>2, <1>4 DEF Seen
<1>6. Ended(argc)'
  BY <1>2 DEF Ended
<1>7. InWords'
  BY <1>2 DEF InWords
<1>8. BetweenWords'
  BY <1>2, <1>5, <1>6 DEF BetweenWords
<1> QED BY <1>1, <1>2, <1>7, <1>8 DEF SplitInv, InWord, AllSplit, RightCommand

LEMMA GobbleWords ==
  ASSUME SplitInv, Gobble
  PROVE  SplitInv'
<1>1. IInv /\ IInv'
  BY GobbleInv DEF SplitInv
<1>2. /\ at = "gobble" /\ buf[b] \in WHITESPACE /\ b' = b + 1
      /\ argc' = argc /\ argv' = argv /\ line' = line /\ at' = at
  BY DEF Gobble, args
<1>3. b + 1 \in 1 .. Len(line) /\ line[b + 1] \in WHITESPACE /\ b \in Nat
  <2>1. buf[b] # 0
    BY <1>2 DEF WHITESPACE
  <2> QED BY <1>1, <1>2, <2>1, AtPointer, Facts
<1>4. InWords'
  BY <1>2, <1>3 DEF SplitInv, InWords
<1>5. Seen(b)'
  <2>1. ASSUME NEW st \in Starts(line), st <= b + 1
        PROVE  \E k \in 0 .. argc - 1 : argv[k] + 1 = st
    <3>1. st \in Nat /\ st # b + 1
      BY <1>1, <1>3, Facts, StartFacts
    <3>2. st <= b
      BY <1>3, <2>1, <3>1
    <3> QED BY <1>2, <3>2 DEF SplitInv, BetweenWords, Seen
  <2> QED BY <1>2, <2>1 DEF Seen
<1>6. Ended(argc)'
  BY <1>2, <1>3 DEF SplitInv, BetweenWords, Ended
<1>7. BetweenWords'
  BY <1>2, <1>3, <1>5, <1>6 DEF BetweenWords
<1> QED BY <1>1, <1>2, <1>4, <1>7 DEF SplitInv, InWord, AllSplit, RightCommand

(* At a character of a word, a word starts.                                *)
LEMMA WordStarts ==
  ASSUME SplitInv, at = "gobble", buf[b] \notin WHITESPACE \cup {0}
  PROVE  b + 1 \in Starts(line) /\ b \in 0 .. Len(line) - 1
<1>1. IInv /\ BetweenWords
  BY DEF SplitInv
<1>2. b + 1 \in 1 .. Len(line) /\ line[b + 1] \notin WHITESPACE /\ b \in Nat
      /\ Len(line) \in Nat /\ b # Len(line)
  BY <1>1, AtPointer, Facts
<1>3. b = 0 \/ line[b] \in WHITESPACE
  BY <1>1, <1>2 DEF BetweenWords
<1>4. b + 1 > 1 => line[b + 1 - 1] \in WHITESPACE
  BY <1>2, <1>3
<1> QED BY <1>2, <1>4 DEF Starts

LEMMA SaveWords ==
  ASSUME SplitInv, Save
  PROVE  SplitInv'
<1>1. IInv /\ IInv' /\ InWords /\ BetweenWords
  BY SaveInv DEF SplitInv
<1>2. /\ at = "gobble" /\ buf[b] \notin WHITESPACE \cup {0} /\ at' = "scan"
      /\ argv' = [argv EXCEPT ![argc] = b] /\ argc' = argc + 1
      /\ b' = b /\ line' = line
  BY DEF Save
<1>3. b + 1 \in Starts(line) /\ b \in 0 .. Len(line) - 1 /\ b \in Nat /\ argc \in Nat
      /\ Len(line) \in Nat
  BY <1>1, <1>2, Facts, WordStarts
<1>4. argv'[argc] = b /\ \A k \in 0 .. argc - 1 : argv'[k] = argv[k]
  <2>1. argc \in DOMAIN argv /\ 0 .. argc - 1 \subseteq DOMAIN argv
    BY <1>1, Facts, SMTT(30) DEF IInv, TypeOK
  <2> QED BY <1>2, <1>3, <2>1
<1>5. ASSUME NEW k \in 0 .. argc - 1
      PROVE  argv[k] \in 0 .. b - 1
  <2>1. argv[k] \in 0 .. b
    BY <1>1, <1>2 DEF InWords
  <2>2. PICK e \in 1 .. b : Ends(line, argv[k] + 1, e)
    BY <1>1, <1>2 DEF BetweenWords, Ended
  <2> QED BY <1>3, <2>1, <2>2 DEF Ends
<1>6. InWords'
  <2>1. ASSUME NEW k \in 0 .. argc
        PROVE  /\ argv'[k] \in 0 .. b /\ argv'[k] + 1 \in Starts(line)
               /\ \A j \in 0 .. k - 1 : argv'[j] < argv'[k]
    <3>1. CASE k = argc
      <4>1. ASSUME NEW j \in 0 .. k - 1
            PROVE  argv'[j] < argv'[k]
        BY <1>3, <1>4, <1>5, <3>1
      <4> QED BY <1>3, <1>4, <3>1, <4>1
    <3>2. CASE k # argc
      <4>1. k \in 0 .. argc - 1 /\ 0 .. k - 1 \subseteq 0 .. argc - 1
        BY <1>3, <3>2
      <4> QED BY <1>1, <1>2, <1>4, <4>1 DEF InWords
    <3> QED BY <3>1, <3>2
  <2> QED BY <1>2, <1>3, <2>1 DEF InWords
<1>7. InWord'
  <2>1. argc' > 0 /\ argv'[argc' - 1] = b
    BY <1>2, <1>3, <1>4
  <2>2. Seen(argv[argc - 1] + 1)'
    <3>1. ASSUME NEW st \in Starts(line), st <= b + 1
          PROVE  \E k \in 0 .. argc : argv'[k] + 1 = st
      <4>1. CASE st = b + 1
        BY <1>3, <1>4, <4>1
      <4>2. CASE st # b + 1
        <5>1. st <= b
          BY <1>3, <3>1, <4>2, StartFacts
        <5>2. PICK k \in 0 .. argc - 1 : argv[k] + 1 = st
          BY <1>1, <1>2, <5>1 DEF BetweenWords, Seen
        <5>3. k \in 0 .. argc
          BY <1>3
        <5> QED BY <1>4, <5>2, <5>3
      <4> QED BY <4>1, <4>2
    <3>2. argc' - 1 = argc
      BY <1>2, <1>3
    <3> QED BY <1>2, <2>1, <3>1, <3>2 DEF Seen
  <2>3. Ended(argc - 1)'
    <3>1. ASSUME NEW k \in 0 .. argc - 1
          PROVE  \E e \in 1 .. b : Ends(line, argv'[k] + 1, e)
      BY <1>1, <1>2, <1>4 DEF BetweenWords, Ended
    <3>2. argc' - 1 = argc
      BY <1>2, <1>3
    <3> QED BY <1>2, <3>1, <3>2 DEF Ended
  <2>4. b + 1 .. b = {}
    BY <1>3
  <2> QED BY <1>2, <2>1, <2>2, <2>3, <2>4 DEF InWord
<1> QED BY <1>1, <1>2, <1>6, <1>7 DEF SplitInv, BetweenWords, AllSplit, RightCommand

LEMMA ScanWords ==
  ASSUME SplitInv, ScanWord
  PROVE  SplitInv'
<1>1. IInv /\ IInv' /\ InWords /\ InWord
  BY ScanInv DEF SplitInv
<1>2. /\ at = "scan" /\ buf[b] \notin WHITESPACE \cup {0} /\ b' = b + 1
      /\ argc' = argc /\ argv' = argv /\ line' = line /\ at' = at
  BY DEF ScanWord, args
<1>3. b + 1 \in 1 .. Len(line) /\ line[b + 1] \notin WHITESPACE /\ b \in Nat /\ argc \in Nat
  BY <1>1, <1>2, AtPointer, Facts
<1>4. InWords'
  BY <1>1, <1>2, <1>3 DEF InWords
<1>5. Seen(argv[argc - 1] + 1)'
  BY <1>1, <1>2 DEF InWord, Seen
<1>6. Ended(argc - 1)'
  BY <1>1, <1>2, <1>3 DEF InWord, Ended
<1>7. \A j \in argv[argc - 1] + 1 .. b + 1 : line[j] \notin WHITESPACE
  <2>1. argv[argc - 1] \in 0 .. b
    <3>1. argc - 1 \in 0 .. argc - 1
      BY <1>1, <1>2, <1>3 DEF InWord
    <3> QED BY <1>1, <1>2, <3>1 DEF InWords
  <2> QED BY <1>1, <1>2, <1>3, <2>1 DEF InWord
<1>8. InWord'
  BY <1>1, <1>2, <1>5, <1>6, <1>7 DEF InWord
<1> QED BY <1>1, <1>2, <1>4, <1>8 DEF SplitInv, BetweenWords, AllSplit, RightCommand

(* The word that was scanned ends at the pointer, and no other started     *)
(* within it.                                                              *)
LEMMA EndOfWordWords ==
  ASSUME SplitInv, EndOfWord
  PROVE  SplitInv'
<1>1. IInv /\ IInv' /\ InWords /\ InWord
  BY OthersInv DEF SplitInv
<1>2. /\ at = "scan" /\ buf[b] \in WHITESPACE \cup {0} /\ at' = "gobble"
      /\ b' = b /\ argc' = argc /\ argv' = argv /\ line' = line
  BY DEF EndOfWord, args
<1> DEFINE last == argv[argc - 1]
<1>3. /\ b \in Nat /\ argc \in Nat /\ Len(line) \in Nat /\ b <= Len(line) /\ argc > 0
      /\ argc - 1 \in 0 .. argc - 1
  BY <1>1, <1>2, Facts DEF InWord
<1>4. last \in 0 .. b /\ last + 1 \in Starts(line)
  BY <1>1, <1>2, <1>3 DEF InWords
<1>5. b = Len(line) \/ line[b + 1] \in WHITESPACE
  BY <1>1, <1>2, AtPointer
<1>6. last + 1 \in 1 .. b
  <2>1. last + 1 \in 1 .. Len(line) /\ line[last + 1] \notin WHITESPACE
    BY <1>3, <1>4, StartFacts
  <2>2. last # b
    BY <1>3, <1>5, <2>1
  <2> QED BY <1>3, <1>4, <2>2
<1>7. \A j \in last + 1 .. b : line[j] \notin WHITESPACE
  BY <1>1, <1>2 DEF InWord
<1>8. Ends(line, last + 1, b)
  BY <1>3, <1>5, <1>6, <1>7 DEF Ends
<1>9. ASSUME NEW k \in 0 .. argc - 1
      PROVE  \E e \in 1 .. b : Ends(line, argv[k] + 1, e)
  <2>1. CASE k = argc - 1
    BY <1>3, <1>6, <1>8, <2>1
  <2>2. CASE k # argc - 1
    <3>1. k \in 0 .. argc - 1 - 1
      BY <1>3, <2>2
    <3> QED BY <1>1, <1>2, <3>1 DEF InWord, Ended
  <2> QED BY <2>1, <2>2
<1>10. ASSUME NEW st \in Starts(line), st <= b
       PROVE  \E k \in 0 .. argc - 1 : argv[k] + 1 = st
  <2>1. st \in Nat /\ (st > 1 => line[st - 1] \in WHITESPACE)
    BY <1>3, StartFacts
  <2>2. st <= last + 1
    <3> SUFFICES ASSUME ~(st <= last + 1) PROVE FALSE
      OBVIOUS
    <3>1. st - 1 \in last + 1 .. b /\ st > 1
      BY <1>3, <1>4, <1>10, <2>1
    <3> QED BY <1>7, <2>1, <3>1
  <2> QED BY <1>1, <1>2, <2>2 DEF InWord, Seen
<1>11. Seen(b)' /\ Ended(argc)'
  BY <1>2, <1>9, <1>10 DEF Seen, Ended
<1>12. BetweenWords'
  BY <1>2, <1>5, <1>11 DEF BetweenWords
<1>13. InWords'
  BY <1>1, <1>2 DEF InWords
<1> QED BY <1>1, <1>2, <1>12, <1>13 DEF SplitInv, InWord, AllSplit, RightCommand

LEMMA EndOfLineWords ==
  ASSUME SplitInv, EndOfLine
  PROVE  SplitInv'
<1>1. IInv /\ IInv' /\ InWords /\ BetweenWords
  BY EndOfLineInv DEF SplitInv
<1>2. /\ at = "gobble" /\ buf[b] = 0 /\ at' = "lookup"
      /\ argv' = [argv EXCEPT ![argc] = NULL]
      /\ b' = b /\ argc' = argc /\ line' = line
  BY DEF EndOfLine
<1>3. b = Len(line) /\ argc \in Nat
  BY <1>1, <1>2, AtPointer, Facts
<1>4. argv'[argc] = NULL /\ \A k \in 0 .. argc - 1 : argv'[k] = argv[k]
  <2>1. argc \in DOMAIN argv /\ 0 .. argc - 1 \subseteq DOMAIN argv
    BY <1>1, Facts, SMTT(30) DEF IInv, TypeOK
  <2> QED BY <1>2, <1>3, <2>1
<1>5. InWords'
  <2>1. \A k \in 0 .. argc - 1 : 0 .. k - 1 \subseteq 0 .. argc - 1
    BY <1>3
  <2> QED BY <1>1, <1>2, <1>4, <2>1 DEF InWords
<1>6. Seen(b)' /\ Ended(argc)'
  BY <1>1, <1>2, <1>4 DEF BetweenWords, Seen, Ended
<1>7. BetweenWords'
  BY <1>2, <1>3, <1>6 DEF BetweenWords
<1>8. AllSplit'
  BY <1>2, <1>3, <1>4 DEF AllSplit
<1> QED BY <1>1, <1>2, <1>5, <1>7, <1>8 DEF SplitInv, InWord, RightCommand

-----------------------------------------------------------------------------
(* The strings that argv points to are the words.                          *)
LEMMA WordTo ==
  ASSUME NEW s, Len(s) \in Nat, NEW k \in 1 .. Len(s), NEW e, Ends(s, k, e)
  PROVE  Word(s, k) = [j \in 1 .. e - k + 1 |-> s[k + j - 1]]
<1>1. e \in k .. Len(s)
  BY DEF Ends
<1>2. ASSUME NEW d \in k .. Len(s), Ends(s, k, d)
      PROVE  d = e
  <2>1. ~(d < e)
    <3> SUFFICES ASSUME d < e PROVE FALSE
      OBVIOUS
    <3>1. d + 1 \in k .. e /\ d < Len(s)
      BY <1>1
    <3> QED BY <1>2, <3>1 DEF Ends
  <2>2. ~(e < d)
    <3> SUFFICES ASSUME e < d PROVE FALSE
      OBVIOUS
    <3>1. e + 1 \in k .. d /\ e < Len(s)
      BY <1>1
    <3> QED BY <1>2, <3>1 DEF Ends
  <2> QED BY <1>1, <2>1, <2>2
<1>3. (CHOOSE d \in k .. Len(s) : Ends(s, k, d)) = e
  <2>1. \E d \in k .. Len(s) : Ends(s, k, d)
    BY <1>1
  <2> QED BY <1>2, <2>1
<1> QED BY <1>3 DEF Word

(* From a place of the buffer, the first terminator is at e.               *)
Terminated(a, e) == e \in a .. BUFLEN - 1 /\ buf[e] = 0 /\ \A j \in a .. e - 1 : buf[j] # 0

LEMMA StringTo ==
  ASSUME NEW a \in Nat, NEW e, Terminated(a, e), BUFLEN \in Nat
  PROVE  StringAt(a) = [k \in 1 .. e - a |-> buf[a + k - 1]]
<1> USE DEF Terminated
<1> DEFINE P(d) == buf[d] = 0 /\ \A j \in a .. d - 1 : buf[j] # 0
<1>1. ASSUME NEW d \in a .. BUFLEN - 1, P(d)
      PROVE  d = e
  <2>1. ~(d < e)
    BY <1>1
  <2>2. ~(e < d)
    BY <1>1
  <2> QED BY <2>1, <2>2
<1>2. P(e)
  OBVIOUS
<1>3. StringAt(a) = LET stop == CHOOSE d \in a .. BUFLEN - 1 : P(d)
                    IN  [k \in 1 .. stop - a |-> buf[a + k - 1]]
  BY DEF StringAt
<1> HIDE DEF P
<1>4. (CHOOSE d \in a .. BUFLEN - 1 : P(d)) = e
  BY <1>1, <1>2
<1> QED BY <1>3, <1>4

(* White space behind a word has been overwritten, the word has not.       *)
LEMMA ArgIsWord ==
  ASSUME IInv, at = "lookup", b = Len(line),
         NEW a \in Nat, a + 1 \in 1 .. Len(line), NEW e, Ends(line, a + 1, e)
  PROVE  Terminated(a, e) /\ StringAt(a) = Word(line, a + 1)
<1>1. /\ Len(line) \in Nat /\ Len(line) <= BUFLEN - 1 /\ BUFLEN \in Nat
      /\ \A k \in 1 .. Len(line) : line[k] \in Nat /\ line[k] # 0
  BY Facts
<1>2. /\ e \in a + 1 .. Len(line)
      /\ \A j \in a + 1 .. e : line[j] \notin WHITESPACE
      /\ e < Len(line) => line[e + 1] \in WHITESPACE
  BY DEF Ends
<1>3. /\ buf[Len(line)] = 0
      /\ \A k \in 0 .. Len(line) - 1 :
           buf[k] = IF k < b /\ line[k + 1] \in WHITESPACE THEN 0 ELSE line[k + 1]
  BY DEF IInv, LineSplit
<1>4. e \in a .. BUFLEN - 1
  BY <1>1, <1>2
<1>5. buf[e] = 0
  <2>1. CASE e = Len(line)
    BY <1>3, <2>1
  <2>2. CASE e # Len(line)
    <3>1. e \in 0 .. Len(line) - 1 /\ e < b
      BY <1>1, <1>2, <2>2
    <3> QED BY <1>2, <1>3, <3>1
  <2> QED BY <2>1, <2>2
<1>6. ASSUME NEW j \in a .. e - 1
      PROVE  buf[j] = line[j + 1] /\ buf[j] # 0
  <2>1. j \in 0 .. Len(line) - 1 /\ j + 1 \in a + 1 .. e /\ j + 1 \in 1 .. Len(line)
    BY <1>1, <1>2
  <2> QED BY <1>1, <1>2, <1>3, <2>1
<1> Terminated(a, e)
  BY <1>4, <1>5, <1>6 DEF Terminated
<1>7. StringAt(a) = [k \in 1 .. e - a |-> buf[a + k - 1]]
  BY <1>1, StringTo
<1>8. Word(line, a + 1) = [j \in 1 .. e - (a + 1) + 1 |-> line[a + 1 + j - 1]]
  BY <1>1, WordTo, ZenonT(60)
<1>9. \A k \in 1 .. e - a : buf[a + k - 1] = line[a + 1 + k - 1]
  <2> TAKE k \in 1 .. e - a
  <2>1. a + k - 1 \in a .. e - 1 /\ a + k - 1 + 1 = a + 1 + k - 1
    BY <1>2
  <2> QED BY <1>6, <2>1
<1>10. e - (a + 1) + 1 = e - a
  BY <1>2
<1> QED BY <1>7, <1>8, <1>9, <1>10

-----------------------------------------------------------------------------
(* strcmp() tells whether two strings are the same.                        *)
LEMMA Least ==
  ASSUME NEW T, T \subseteq Nat, T # {}
  PROVE  \E m \in T : \A n \in T : m <= n
<1> DEFINE R == {p \in Nat \X Nat : p[1] < p[2]}
<1>1. IsWellFoundedOn(R, Nat)
  BY NatLessThanWellFounded, Zenon DEF OpToRel
<1>2. \A m, n \in T : m <= n \/ << n, m >> \in R
  OBVIOUS
<1> HIDE DEF R
<1>3. \E m \in T : \A n \in T : ~(<< n, m >> \in R)
  BY <1>1, WFMin
<1> QED BY <1>2, <1>3

LEMMA Difference ==
  ASSUME NEW x \in 0 .. 255, NEW y \in 0 .. 255
  PROVE  x - y = 0 <=> x = y
  OBVIOUS

LEMMA NameBytes ==
  ASSUME NEW name \in Seq(1 .. 255), NEW j \in Nat
  PROVE  /\ NameByte(name, j) \in 0 .. 255
         /\ NameByte(name, j) = 0 <=> j >= Len(name)
         /\ j < Len(name) => NameByte(name, j) = name[j + 1]
<1>1. CASE j < Len(name)
  <2>1. j + 1 \in 1 .. Len(name) /\ Len(name) \in Nat
    BY <1>1
  <2>2. name[j + 1] \in 1 .. 255
    BY <2>1, ElementOfSeq
  <2>3. NameByte(name, j) = name[j + 1]
    BY <1>1 DEF NameByte
  <2>4. \A x \in 1 .. 255 : x \in 0 .. 255 /\ x # 0
    OBVIOUS
  <2>5. NameByte(name, j) \in 0 .. 255 /\ NameByte(name, j) # 0
    BY <2>2, <2>3, <2>4, Zenon
  <2>6. ~(j >= Len(name))
    BY <1>1, <2>1
  <2> QED BY <2>3, <2>5, <2>6, Zenon
<1>2. CASE ~(j < Len(name))
  BY <1>2 DEF NameByte
<1> QED BY <1>1, <1>2

(* Where the comparison stops.                                             *)
StopsAt(a, name, m) ==
  /\ strcmp(a, name) = buf[a + m] - NameByte(name, m)
  /\ buf[a + m] = 0 \/ buf[a + m] # NameByte(name, m)
  /\ \A n \in 0 .. m - 1 : buf[a + n] # 0 /\ buf[a + n] = NameByte(name, n)

LEMMA StrcmpStops ==
  ASSUME NEW name, BUFLEN \in Nat, NEW a \in Nat, NEW e, Terminated(a, e)
  PROVE  \E m \in 0 .. e - a : StopsAt(a, name, m)
<1> USE DEF Terminated
<1> DEFINE Q(j) == buf[a + j] = 0 \/ buf[a + j] # NameByte(name, j)
           P(j) == Q(j) /\ \A n \in 0 .. j - 1 :
                             buf[a + n] # 0 /\ buf[a + n] = NameByte(name, n)
           T == {j \in 0 .. e - a : Q(j)}
<1>1. e - a \in T
  <2>1. a + (e - a) = e
    OBVIOUS
  <2> QED BY <2>1
<1>2. PICK m \in T : \A n \in T : m <= n
  <2>1. T \subseteq Nat /\ T # {}
    <3>1. T \subseteq 0 .. e - a
      OBVIOUS
    <3> HIDE DEF T
    <3> QED BY <1>1, <3>1
  <2> HIDE DEF T
  <2> QED BY <2>1, Least
<1>3. m \in 0 .. e - a /\ m \in 0 .. BUFLEN - 1 /\ P(m)
  <2>1. m \in 0 .. e - a /\ Q(m)
    OBVIOUS
  <2>2. ASSUME NEW n \in 0 .. m - 1
        PROVE  ~Q(n)
    <3>1. n \in 0 .. e - a /\ ~(m <= n)
      BY <2>1
    <3>2. n \notin T
      BY <1>2, <3>1
    <3> QED BY <3>1, <3>2
  <2> QED BY <2>1, <2>2
<1>4. ASSUME NEW j \in 0 .. BUFLEN - 1, P(j)
      PROVE  j = m
  <2>1. ~(j < m)
    <3> SUFFICES ASSUME j < m PROVE FALSE
      OBVIOUS
    <3>1. j \in 0 .. m - 1
      BY <1>3
    <3> QED BY <1>3, <1>4, <3>1
  <2>2. ~(m < j)
    <3> SUFFICES ASSUME m < j PROVE FALSE
      OBVIOUS
    <3>1. m \in 0 .. j - 1
      BY <1>3
    <3> QED BY <1>3, <1>4, <3>1
  <2> QED BY <1>3, <2>1, <2>2
<1>5. strcmp(a, name) = LET stop == CHOOSE j \in 0 .. BUFLEN - 1 : P(j)
                        IN  buf[a + stop] - NameByte(name, stop)
  BY DEF strcmp
<1>6. P(m) => /\ buf[a + m] = 0 \/ buf[a + m] # NameByte(name, m)
              /\ \A n \in 0 .. m - 1 : buf[a + n] # 0 /\ buf[a + n] = NameByte(name, n)
  OBVIOUS
<1> HIDE DEF P, Q, T
<1>7. (CHOOSE j \in 0 .. BUFLEN - 1 : P(j)) = m
  BY <1>3, <1>4
<1> QED BY <1>3, <1>5, <1>6, <1>7 DEF StopsAt

LEMMA StrcmpRight ==
  ASSUME NEW name \in Seq(1 .. 255), BUFLEN \in Nat, buf \in [0 .. BUFLEN - 1 -> 0 .. 255],
         NEW a \in Nat, NEW e, Terminated(a, e)
  PROVE  strcmp(a, name) = 0 <=> name = StringAt(a)
<1> DEFINE w == [k \in 1 .. e - a |-> buf[a + k - 1]]
<1>1. StringAt(a) = w
  BY StringTo
<1> USE DEF Terminated
<1>2. w \in Seq(0 .. 255) /\ Len(w) = e - a /\ name \in Seq(0 .. 255) /\ Len(name) \in Nat
  <2>1. e - a \in Nat
    OBVIOUS
  <2>2. \A k \in 1 .. e - a : buf[a + k - 1] \in 0 .. 255
    OBVIOUS
  <2>3. w \in [1 .. e - a -> 0 .. 255]
    BY <2>2
  <2> HIDE DEF w
  <2> QED BY <2>1, <2>3, SMTT(30)
<1>3. \A k \in 1 .. e - a : w[k] = buf[a + k - 1]
  OBVIOUS
<1>4. PICK m \in 0 .. e - a : StopsAt(a, name, m)
  BY StrcmpStops
<1> USE DEF StopsAt
<1>5. m \in Nat /\ buf[a + m] \in 0 .. 255 /\ NameByte(name, m) \in 0 .. 255
  <2>1. m \in Nat /\ a + m \in 0 .. BUFLEN - 1
    OBVIOUS
  <2> QED BY <2>1, NameBytes, SMTT(30)
<1> HIDE DEF w
<1>6. ASSUME strcmp(a, name) = 0
      PROVE  name = w
  <2>1. buf[a + m] = 0 /\ NameByte(name, m) = 0
    <3>1. buf[a + m] = NameByte(name, m)
      BY <1>4, <1>5, <1>6, Difference, ZenonT(60)
    <3> QED BY <1>4, <3>1
  <2>2. m = e - a
    <3> SUFFICES ASSUME m # e - a PROVE FALSE
      OBVIOUS
    <3>1. a + m \in a .. e - 1
      OBVIOUS
    <3> QED BY <2>1, <3>1
  <2>3. Len(name) <= m
    BY <1>5, <2>1, NameBytes
  <2>4. ~(Len(name) < m)
    <3> SUFFICES ASSUME Len(name) < m PROVE FALSE
      OBVIOUS
    <3>1. Len(name) \in 0 .. m - 1 /\ NameByte(name, Len(name)) = 0
      BY <1>2, <1>5, NameBytes
    <3> QED BY <1>4, <3>1
  <2>5. Len(name) = e - a
    BY <1>2, <1>5, <2>2, <2>3, <2>4
  <2>6. ASSUME NEW k \in 1 .. Len(name)
        PROVE  name[k] = w[k]
    <3>1. k - 1 \in Nat /\ k - 1 \in 0 .. m - 1 /\ k - 1 < Len(name) /\ k - 1 + 1 = k
          /\ k \in 1 .. e - a /\ a + (k - 1) = a + k - 1
      BY <1>2, <2>2, <2>5
    <3>2. NameByte(name, k - 1) = name[k - 1 + 1]
      BY <3>1, NameBytes
    <3> QED BY <1>3, <1>4, <3>1, <3>2
  <2> QED BY <1>2, <2>5, <2>6, SeqEqual
<1>7. ASSUME name = w
      PROVE  strcmp(a, name) = 0
  <2>1. Len(name) = e - a
    BY <1>2, <1>7
  <2>2. m = e - a
    <3> SUFFICES ASSUME m # e - a PROVE FALSE
      OBVIOUS
    <3>1. m < Len(name) /\ a + m \in a .. e - 1 /\ m + 1 \in 1 .. e - a /\ a + (m + 1) - 1 = a + m
      BY <1>5, <2>1
    <3>2. NameByte(name, m) = name[m + 1]
      BY <1>5, <3>1, NameBytes
    <3>3. buf[a + m] = NameByte(name, m) /\ buf[a + m] # 0
      BY <1>3, <1>7, <3>1, <3>2
    <3> QED BY <1>4, <3>3
  <2>3. NameByte(name, m) = 0 /\ a + m = e
    BY <1>5, <2>1, <2>2, NameBytes
  <2>4. buf[a + m] = NameByte(name, m)
    BY <2>3
  <2>5. \A x, y \in 0 .. 255 : x = y => x - y = 0
    OBVIOUS
  <2>6. buf[a + m] - NameByte(name, m) = 0
    BY <1>5, <2>4, <2>5, ZenonT(60)
  <2> QED BY <1>4, <2>6
<1> QED BY <1>1, <1>6, <1>7

-----------------------------------------------------------------------------
(* argv numbers the starts of words: there are as many.                    *)
LEMMA AsMany ==
  ASSUME NEW n \in Nat, NEW f, NEW S,
         \A k \in 0 .. n - 1 : f[k] \in Nat /\ f[k] + 1 \in S,
         \A k \in 0 .. n - 1 : \A j \in 0 .. k - 1 : f[j] < f[k],
         \A s \in S : \E k \in 0 .. n - 1 : f[k] + 1 = s
  PROVE  IsFiniteSet(S) /\ Cardinality(S) = n
<1> DEFINE g == [k \in 1 .. n |-> f[k - 1] + 1]
<1>1. \A k \in 1 .. n : k - 1 \in 0 .. n - 1
  OBVIOUS
<1>2. g \in [1 .. n -> S]
  BY <1>1
<1>3. ASSUME NEW k \in 1 .. n, NEW j \in 1 .. n, g[k] = g[j]
      PROVE  k = j
  <2>1. f[k - 1] \in Nat /\ f[j - 1] \in Nat /\ f[k - 1] + 1 = f[j - 1] + 1
    BY <1>1, <1>3
  <2>2. ~(k < j)
    <3> SUFFICES ASSUME k < j PROVE FALSE
      OBVIOUS
    <3>1. k - 1 \in 0 .. j - 1 - 1 /\ j - 1 \in 0 .. n - 1
      OBVIOUS
    <3>2. f[k - 1] < f[j - 1]
      BY <3>1
    <3> QED BY <2>1, <3>2
  <2>3. ~(j < k)
    <3> SUFFICES ASSUME j < k PROVE FALSE
      OBVIOUS
    <3>1. j - 1 \in 0 .. k - 1 - 1 /\ k - 1 \in 0 .. n - 1
      OBVIOUS
    <3>2. f[j - 1] < f[k - 1]
      BY <3>1
    <3> QED BY <2>1, <3>2
  <2> QED BY <2>2, <2>3
<1>4. ASSUME NEW s \in S
      PROVE  \E k \in 1 .. n : g[k] = s
  <2>1. PICK k \in 0 .. n - 1 : f[k] + 1 = s
    OBVIOUS
  <2>2. k + 1 \in 1 .. n /\ k + 1 - 1 = k
    OBVIOUS
  <2> QED BY <2>1, <2>2
<1> HIDE DEF g
<1>5. g \in Bijection(1 .. n, S)
  BY <1>2, <1>3, <1>4 DEF Bijection, Injection, Surjection, IsInjective
<1>6. IsFiniteSet(1 .. n) /\ Cardinality(1 .. n) = n
  BY FS_Interval
<1> QED BY <1>5, <1>6, FS_Bijection DEF ExistsBijection

(* All the words are in argv, each of them once.                           *)
LEMMA AllThere ==
  ASSUME SplitInv, at = "lookup"
  PROVE  /\ \A st \in Starts(line) : \E k \in 0 .. argc - 1 : argv[k] + 1 = st
         /\ \A k \in 0 .. argc - 1 : /\ argv[k] \in Nat /\ argv[k] + 1 \in Starts(line)
                                     /\ \E e : Ends(line, argv[k] + 1, e)
         /\ \A k \in 0 .. argc - 1 : \A j \in 0 .. k - 1 : argv[j] < argv[k]
<1>1. IInv /\ InWords /\ BetweenWords /\ AllSplit
  BY DEF SplitInv
<1>2. b = Len(line) /\ Len(line) \in Nat /\ b \in Nat /\ Seen(b) /\ Ended(argc)
  BY <1>1, Facts DEF AllSplit, BetweenWords
<1>3. ASSUME NEW st \in Starts(line)
      PROVE  \E k \in 0 .. argc - 1 : argv[k] + 1 = st
  <2>1. st <= b
    BY <1>2, StartFacts
  <2> QED BY <1>2, <2>1 DEF Seen
<1>4. ASSUME NEW k \in 0 .. argc - 1
      PROVE  /\ argv[k] \in Nat /\ argv[k] + 1 \in Starts(line)
             /\ \E e : Ends(line, argv[k] + 1, e)
  <2>1. argv[k] \in 0 .. b /\ argv[k] + 1 \in Starts(line)
    BY <1>1 DEF InWords
  <2>2. \E e : Ends(line, argv[k] + 1, e)
    BY <1>2 DEF Ended
  <2> QED BY <2>1, <2>2
<1> QED BY <1>1, <1>3, <1>4 DEF InWords

LEMMA ArgsRight ==
  ASSUME SplitInv, at = "lookup", NEW k \in 0 .. argc - 1
  PROVE  \E e : Terminated(argv[k], e) /\ StringAt(argv[k]) = Word(line, argv[k] + 1)
<1>1. IInv /\ b = Len(line) /\ Len(line) \in Nat
  BY Facts DEF SplitInv, AllSplit
<1>2. argv[k] \in Nat /\ argv[k] + 1 \in Starts(line)
  BY AllThere
<1>3. PICK e : Ends(line, argv[k] + 1, e)
  BY AllThere
<1>4. argv[k] + 1 \in 1 .. Len(line)
  BY <1>1, <1>2, StartFacts
<1> QED BY <1>1, <1>2, <1>3, <1>4, ArgIsWord

LEMMA ArgsFromInv == SplitInv => ArgsAreWords
<1> SUFFICES ASSUME SplitInv, at = "lookup"
             PROVE  /\ {argv[k] + 1 : k \in 0 .. argc - 1} = Starts(line)
                    /\ \A k \in 0 .. argc - 1 : \A j \in 0 .. k - 1 : argv[j] < argv[k]
                    /\ \A k \in 0 .. argc - 1 : StringAt(argv[k]) = Word(line, argv[k] + 1)
                    /\ argv[argc] = NULL
  BY DEF ArgsAreWords
<1>1. {argv[k] + 1 : k \in 0 .. argc - 1} \subseteq Starts(line)
  BY AllThere
<1>2. Starts(line) \subseteq {argv[k] + 1 : k \in 0 .. argc - 1}
  BY AllThere
<1>3. \A k \in 0 .. argc - 1 : StringAt(argv[k]) = Word(line, argv[k] + 1)
  BY ArgsRight
<1>4. argv[argc] = NULL
  BY DEF SplitInv, AllSplit
<1> QED BY <1>1, <1>2, <1>3, <1>4, AllThere

(* argv[0] is the first word.                                              *)
LEMMA FirstArg ==
  ASSUME SplitInv, at = "lookup", argc > 0
  PROVE  \E e : Terminated(argv[0], e) /\ StringAt(argv[0]) = FirstWord(line)
<1>1. argc \in Nat /\ 0 \in 0 .. argc - 1
  BY Facts DEF SplitInv
<1>2. argv[0] \in Nat /\ argv[0] + 1 \in Starts(line)
  BY <1>1, AllThere
<1>3. ASSUME NEW j \in Starts(line)
      PROVE  j \in Nat /\ argv[0] + 1 <= j
  <2>1. PICK k \in 0 .. argc - 1 : argv[k] + 1 = j
    BY AllThere
  <2>2. CASE k = 0
    BY <1>2, <2>1, <2>2
  <2>3. CASE k # 0
    <3>1. 0 \in 0 .. k - 1
      BY <2>3
    <3>2. argv[0] < argv[k] /\ argv[k] \in Nat
      BY <3>1, AllThere
    <3> QED BY <1>2, <2>1, <3>2
  <2> QED BY <2>2, <2>3
<1>4. (CHOOSE k \in Starts(line) : \A j \in Starts(line) : k <= j) = argv[0] + 1
  <2>1. ASSUME NEW k \in Starts(line), \A j \in Starts(line) : k <= j
        PROVE  k = argv[0] + 1
    BY <1>2, <1>3, <2>1
  <2> QED BY <1>2, <1>3, <2>1
<1>5. FirstWord(line) = Word(line, argv[0] + 1)
  BY <1>4 DEF FirstWord
<1> QED BY <1>1, <1>5, ArgsRight

LEMMA NameIsSeq ==
  ASSUME NEW n \in 1 .. Len(Names)
  PROVE  Names[n] \in Seq(1 .. 255)
  BY NamesAssumption, ElementOfSeq

LEMMA LookupWords ==
  ASSUME SplitInv, Lookup
  PROVE  SplitInv'
<1>1. IInv /\ IInv'
  BY OthersInv DEF SplitInv
<1>2. at = "lookup" /\ at' = "done" /\ line' = line /\ argc \in Nat /\ argc <= MAXARGS - 1
      /\ MAXARGS \in Nat /\ BUFLEN \in Nat /\ buf \in [0 .. BUFLEN - 1 -> 0 .. 255]
  BY <1>1, Facts DEF Lookup, IInv, TypeOK
<1>3. Cardinality(Starts(line)) = argc
  BY <1>2, AllThere, AsMany
<1>4. argc = 0 <=> Starts(line) = {}
  <2>1. CASE argc = 0
    <3>1. 0 .. argc - 1 = {}
      BY <2>1
    <3> QED BY <1>2, <2>1, <3>1, AllThere
  <2>2. CASE argc # 0
    <3>1. 0 \in 0 .. argc - 1
      BY <1>2, <2>2
    <3> QED BY <1>2, <2>2, <3>1, AllThere
  <2> QED BY <2>1, <2>2
<1>5. ASSUME argc > 0, NEW n \in 1 .. Len(Names)
      PROVE  strcmp(argv[0], Names[n]) = 0 <=> Names[n] = FirstWord(line)
  <2>1. PICK e : Terminated(argv[0], e) /\ StringAt(argv[0]) = FirstWord(line)
    BY <1>2, <1>5, FirstArg
  <2>2. argv[0] \in Nat
    <3>1. 0 \in 0 .. argc - 1
      BY <1>2, <1>5
    <3> QED BY <1>2, <3>1, AllThere
  <2> QED BY <1>2, <2>1, <2>2, NameIsSeq, StrcmpRight
<1>6. RightCommand'
  <2> SUFFICES /\ did' = Nothing <=> Starts(line) = {}
               /\ Cardinality(Starts(line)) < MAXARGS => did' # Refused
               /\ Cardinality(Starts(line)) > MAXARGS => did' = Refused
               /\ \A n \in 1 .. Len(Names) : /\ did' = n => Names[n] = FirstWord(line)
                                             /\ did' = Unknown => Names[n] # FirstWord(line)
    BY <1>2 DEF RightCommand
  <2>1. ~(Cardinality(Starts(line)) > MAXARGS)
    BY <1>2, <1>3
  <2>2. \A n \in 1 .. Len(Names) : n # Nothing /\ n # Unknown /\ n # Refused
    BY DEF Nothing, Unknown, Refused
  <2>3. CASE argc = 0 /\ did' = Nothing
    BY <1>4, <2>1, <2>2, <2>3 DEF Nothing, Unknown, Refused
  <2>4. ASSUME argc > 0, NEW n \in 1 .. Len(Names), Found(n), did' = n
        PROVE  /\ did' = Nothing <=> Starts(line) = {}
               /\ Cardinality(Starts(line)) < MAXARGS => did' # Refused
               /\ Cardinality(Starts(line)) > MAXARGS => did' = Refused
               /\ \A m \in 1 .. Len(Names) : /\ did' = m => Names[m] = FirstWord(line)
                                             /\ did' = Unknown => Names[m] # FirstWord(line)
    <3>1. Names[n] = FirstWord(line)
      BY <1>5, <2>4 DEF Found
    <3> QED BY <1>4, <2>1, <2>2, <2>4, <3>1
  <2>5. CASE argc > 0 /\ (~\E n \in 1 .. Len(Names) : Found(n)) /\ did' = Unknown
    <3>1. ASSUME NEW n \in 1 .. Len(Names), Names[n] = FirstWord(line)
          PROVE  FALSE
      <4> DEFINE T == {m \in 1 .. Len(Names) : Names[m] = FirstWord(line)}
      <4>1. T \subseteq Nat /\ n \in T
        BY <3>1
      <4>2. PICK m \in T : \A j \in T : m <= j
        <5> HIDE DEF T
        <5> QED BY <4>1, Least
      <4>3. m \in 1 .. Len(Names) /\ Names[m] = FirstWord(line)
        OBVIOUS
      <4>4. ASSUME NEW j \in 1 .. m - 1
            PROVE  strcmp(argv[0], Names[j]) # 0
        <5>1. j \in 1 .. Len(Names) /\ ~(m <= j)
          BY <4>3, NamesAssumption
        <5>2. j \notin T
          BY <4>2, <5>1
        <5> QED BY <1>5, <2>5, <5>1, <5>2
      <4>5. Found(m)
        BY <1>5, <2>5, <4>3, <4>4 DEF Found
      <4> QED BY <2>5, <4>3, <4>5
    <3> QED BY <1>4, <2>1, <2>2, <2>5, <3>1 DEF Nothing, Unknown, Refused
  <2> QED BY <2>3, <2>4, <2>5 DEF Lookup
<1> QED BY <1>1, <1>2, <1>6 DEF SplitInv, InWords, BetweenWords, InWord, AllSplit

(* A line is refused at the start of one word more than argv has room for. *)
LEMMA ComplainWords ==
  ASSUME SplitInv, Complain
  PROVE  SplitInv'
<1>1. IInv /\ IInv' /\ InWords /\ BetweenWords
  BY OthersInv DEF SplitInv
<1>2. /\ at = "gobble" /\ buf[b] \notin WHITESPACE \cup {0} /\ argc = MAXARGS - 1
      /\ did' = Refused /\ at' = "done" /\ line' = line
  BY DEF Complain, TooMany
<1>3. b + 1 \in Starts(line) /\ b \in Nat /\ argc \in Nat /\ MAXARGS \in Nat
      /\ Len(line) \in Nat
  BY <1>1, <1>2, Facts, WordStarts
<1> DEFINE S == {st \in Starts(line) : st <= b}
<1>4. IsFiniteSet(S) /\ Cardinality(S) = argc
  <2>1. ASSUME NEW k \in 0 .. argc - 1
        PROVE  argv[k] \in Nat /\ argv[k] + 1 \in S
    <3>1. argv[k] \in 0 .. b /\ argv[k] + 1 \in Starts(line)
      BY <1>1, <1>2 DEF InWords
    <3>2. PICK e \in 1 .. b : Ends(line, argv[k] + 1, e)
      BY <1>1, <1>2 DEF BetweenWords, Ended
    <3> QED BY <1>3, <3>1, <3>2 DEF Ends
  <2>2. \A st \in S : \E k \in 0 .. argc - 1 : argv[k] + 1 = st
    BY <1>1, <1>2 DEF BetweenWords, Seen
  <2>3. \A k \in 0 .. argc - 1 : \A j \in 0 .. k - 1 : argv[j] < argv[k]
    BY <1>1, <1>2 DEF InWords
  <2> HIDE DEF S
  <2> QED BY <1>3, <2>1, <2>2, <2>3, AsMany
<1>5. IsFiniteSet(S \cup {b + 1}) /\ Cardinality(S \cup {b + 1}) = argc + 1
  <2>1. b + 1 \notin S
    BY <1>3
  <2> HIDE DEF S
  <2> QED BY <1>4, <2>1, FS_AddElement
<1>6. ~(Cardinality(Starts(line)) < MAXARGS)
  <2>1. S \cup {b + 1} \in SUBSET Starts(line)
    BY <1>3
  <2>2. IsFiniteSet(Starts(line))
    <3>1. IsFiniteSet(1 .. Len(line)) /\ Starts(line) \subseteq 1 .. Len(line)
      BY <1>3, FS_Interval DEF Starts
    <3> QED BY <3>1, FS_Subset
  <2> HIDE DEF S
  <2>3. Cardinality(S \cup {b + 1}) <= Cardinality(Starts(line))
    BY <2>1, <2>2, FS_Subset
  <2>4. Cardinality(Starts(line)) \in Nat
    BY <2>2, FS_CardinalityType
  <2> QED BY <1>2, <1>3, <1>5, <2>3, <2>4
<1>7. RightCommand'
  BY <1>2, <1>3, <1>6 DEF RightCommand, Refused, Nothing, Unknown
<1> QED BY <1>1, <1>2, <1>7 DEF SplitInv, InWords, BetweenWords, InWord, AllSplit

(* Every behaviour of the monitor keeps the stronger invariant, too.       *)
THEOREM SplitInvariance == Spec => []SplitInv
<1>1. Init => SplitInv
  BY InitInv DEF Init, SplitInv, InWords, BetweenWords, InWord, AllSplit, RightCommand
<1>2. SplitInv /\ [Next]_vars => SplitInv'
  <2> SUFFICES ASSUME SplitInv, [Next]_vars
               PROVE  SplitInv'
    OBVIOUS
  <2>1. CASE Returned
    <3>1. IInv' /\ at' = "readline"
      BY <2>1, ReturnInv DEF SplitInv, Returned
    <3> QED BY <3>1 DEF SplitInv, InWords, BetweenWords, InWord, AllSplit, RightCommand
  <2>2. CASE UNCHANGED vars
    <3>1. IInv'
      BY <2>2, OthersInv DEF SplitInv
    <3> QED BY <2>2, <3>1
            DEF vars, SplitInv, InWords, BetweenWords, InWord, AllSplit, RightCommand,
                Seen, Ended
  <2> QED BY <2>1, <2>2, ReadLineWords, GobbleWords, ComplainWords, SaveWords, ScanWords,
             EndOfWordWords, EndOfLineWords, LookupWords
          DEF Next, RunCmd
<1> QED BY <1>1, <1>2, PTL DEF Spec

(* What a command gets in argv are the words of the line, all of them, in  *)
(* order and unchanged.                                                    *)
THEOREM CommandsGetWords == Spec => []ArgsAreWords
  BY SplitInvariance, ArgsFromInv, PTL

(* The command that runs has the first word for its name; a line of more   *)
(* words than argv has slots is refused, one of fewer words is not.        *)
THEOREM RightOneRuns == Spec => []RightCommand
<1>1. SplitInv => RightCommand
  BY DEF SplitInv
<1> QED BY SplitInvariance, <1>1, PTL
=============================================================================
