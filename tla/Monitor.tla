------------------------------- MODULE Monitor --------------------------------
(***************************************************************************)
(* The command loop kern/monitor.c: monitor() reads a line and runcmd()    *)
(* splits it, in place, in the static buffer of readline(): white space is *)
(* overwritten with terminators, argv points into the buffer.  Then the    *)
(* first word is looked up.  A turn of a loop of runcmd() is a step.       *)
(*                                                                         *)
(* readline() is here what Readline shows of it: it returns a line of at   *)
(* most BUFLEN - 1 characters, none of them a control character, with a    *)
(* terminator, and leaves alone what is in the buffer after that.          *)
(***************************************************************************)
EXTENDS Integers, Sequences, FiniteSets

CONSTANTS
  BUFLEN,     \* bytes of readline()'s buffer (1024 in the code)
  MAXARGS,    \* slots of argv (16)
  Typed,      \* the characters of a line
  Names       \* the names of the commands, in the order of commands[]

ASSUME SizesAssumption == BUFLEN \in Nat \ {0} /\ MAXARGS \in Nat \ {0}
ASSUME TypedAssumption == Typed \subseteq 32 .. 255
ASSUME NamesAssumption == Names \in Seq(Seq(1 .. 255))

VARIABLES
  buf,          \* the buffer of readline()
  b,            \* runcmd()'s pointer into it
  argc, argv,   \* as in the code
  at,           \* where the monitor is
  line,         \* the line as it was typed
  did           \* what was done with it

args == << argc, argv >>
vars == << buf, b, argc, argv, at, line, did >>

WHITESPACE == {9, 10, 13, 32}

NULL    == -1
Garbage == -2     \* what is on the stack

(* What is done with a line, if it is not the number of a command. *)
Nothing == 0
Unknown == -1
Refused == -2

Lines == UNION {[1 .. n -> Typed] : n \in 0 .. BUFLEN - 1}

-----------------------------------------------------------------------------
(* monitor() calls readline(), and runcmd() with what that returns. *)
ReadLine ==
  /\ at = "readline"
  /\ \E s \in Lines :
       /\ line' = s
       /\ buf' = [k \in 0 .. BUFLEN - 1 |-> IF k < Len(s) THEN s[k + 1]
                                            ELSE IF k = Len(s) THEN 0
                                            ELSE buf[k]]
  /\ b' = 0 /\ argc' = 0
  /\ argv' = [k \in 0 .. MAXARGS - 1 |-> IF k = 0 THEN NULL ELSE Garbage]
  /\ at' = "gobble"
  /\ UNCHANGED did

(* Mutant: white space is skipped, not overwritten. *)
GobbleKeeps ==
  /\ at = "gobble" /\ buf[b] \in WHITESPACE
  /\ b' = b + 1
  /\ UNCHANGED << buf, args, at, line, did >>

Gobble ==
  /\ at = "gobble" /\ buf[b] \in WHITESPACE
  /\ buf' = [buf EXCEPT ![b] = 0]
  /\ b' = b + 1
  /\ UNCHANGED << args, at, line, did >>

(* Mutant: the last slot of argv is used, too. *)
TooManyLate == argc > MAXARGS - 1

TooMany == argc = MAXARGS - 1

Complain ==
  /\ at = "gobble" /\ buf[b] \notin WHITESPACE \cup {0} /\ TooMany
  /\ did' = Refused /\ at' = "done"
  /\ UNCHANGED << buf, b, args, line >>

Save ==
  /\ at = "gobble" /\ buf[b] \notin WHITESPACE \cup {0} /\ ~TooMany
  /\ argv' = [argv EXCEPT ![argc] = b]
  /\ argc' = argc + 1
  /\ at' = "scan"
  /\ UNCHANGED << buf, b, line, did >>

(* Mutant: the scan ends at white space only, not at the end of the line.  *)
ScanPastEnd ==
  /\ at = "scan" /\ buf[b] \notin WHITESPACE
  /\ b' = b + 1
  /\ UNCHANGED << buf, args, at, line, did >>

ScanWord ==
  /\ at = "scan" /\ buf[b] \notin WHITESPACE \cup {0}
  /\ b' = b + 1
  /\ UNCHANGED << buf, args, at, line, did >>

EndOfWord ==
  /\ at = "scan" /\ buf[b] \in WHITESPACE \cup {0}
  /\ at' = "gobble"
  /\ UNCHANGED << buf, b, args, line, did >>

(* Mutant: argv is not terminated. *)
EndOfLineOpen ==
  /\ at = "gobble" /\ buf[b] = 0
  /\ at' = "lookup"
  /\ UNCHANGED << buf, b, args, line, did >>

EndOfLine ==
  /\ at = "gobble" /\ buf[b] = 0
  /\ argv' = [argv EXCEPT ![argc] = NULL]
  /\ at' = "lookup"
  /\ UNCHANGED << buf, b, argc, line, did >>

(***************************************************************************)
(* strcmp() of lib/string.c: the difference at the first place where the   *)
(* strings differ or the first one ends.                                   *)
(***************************************************************************)
NameByte(name, j) == IF j < Len(name) THEN name[j + 1] ELSE 0

(* Mutant: the end of the name ends the comparison, as in strncmp(). *)
strncmp(a, name) ==
  LET stop == CHOOSE j \in 0 .. BUFLEN - 1 :
                /\ j = Len(name) \/ buf[a + j] = 0 \/ buf[a + j] # NameByte(name, j)
                /\ \A n \in 0 .. j - 1 : buf[a + n] # 0 /\ buf[a + n] = NameByte(name, n)
  IN  IF stop = Len(name) THEN 0 ELSE buf[a + stop] - NameByte(name, stop)

strcmp(a, name) ==
  LET stop == CHOOSE j \in 0 .. BUFLEN - 1 :
                /\ buf[a + j] = 0 \/ buf[a + j] # NameByte(name, j)
                /\ \A n \in 0 .. j - 1 : buf[a + n] # 0 /\ buf[a + n] = NameByte(name, n)
  IN  buf[a + stop] - NameByte(name, stop)

(* The first command whose name is the first word.  All of them return 0. *)
Found(n) == /\ n \in 1 .. Len(Names) /\ strcmp(argv[0], Names[n]) = 0
            /\ \A j \in 1 .. n - 1 : strcmp(argv[0], Names[j]) # 0

Lookup ==
  /\ at = "lookup"
  /\ \/ argc = 0 /\ did' = Nothing
     \/ argc > 0 /\ \E n \in 1 .. Len(Names) : Found(n) /\ did' = n
     \/ argc > 0 /\ (~\E n \in 1 .. Len(Names) : Found(n)) /\ did' = Unknown
  /\ at' = "done"
  /\ UNCHANGED << buf, b, args, line >>

(* runcmd() returns, its locals are gone, and monitor() goes round again. *)
Returned ==
  /\ at = "done"
  /\ at' = "readline" /\ line' = << >> /\ did' = Nothing
  /\ b' = 0 /\ argc' = 0
  /\ argv' = [k \in 0 .. MAXARGS - 1 |-> Garbage]
  /\ UNCHANGED buf

-----------------------------------------------------------------------------
Init ==
  /\ buf = [k \in 0 .. BUFLEN - 1 |-> 0]
  /\ b = 0 /\ argc = 0
  /\ argv = [k \in 0 .. MAXARGS - 1 |-> Garbage]
  /\ at = "readline" /\ line = << >> /\ did = Nothing

RunCmd == Gobble \/ Complain \/ Save \/ ScanWord \/ EndOfWord \/ EndOfLine \/ Lookup \/ Returned

Next == ReadLine \/ RunCmd

Spec == Init /\ [][Next]_vars

-----------------------------------------------------------------------------
(* The types: the pointer stays in the buffer and argc within argv. *)
TypeOK ==
  /\ buf \in [0 .. BUFLEN - 1 -> 0 .. 255]
  /\ b \in 0 .. BUFLEN - 1
  /\ argc \in 0 .. MAXARGS - 1
  /\ argv \in [0 .. MAXARGS - 1 -> {NULL, Garbage} \cup 0 .. BUFLEN - 1]
  /\ at \in {"readline", "gobble", "scan", "lookup", "done"}
  /\ line \in Seq(Typed) /\ Len(line) <= BUFLEN - 1
  /\ did \in {Nothing, Unknown, Refused} \cup 1 .. Len(Names)

(***************************************************************************)
(* While runcmd() works, the buffer holds the line, but for white space    *)
(* it has passed, which is 0, and its pointer is not past the terminator.  *)
(***************************************************************************)
LineSplit ==
  at # "readline" =>
    /\ b <= Len(line) /\ buf[Len(line)] = 0
    /\ \A k \in 0 .. Len(line) - 1 :
         buf[k] = IF k < b /\ line[k + 1] \in WHITESPACE THEN 0 ELSE line[k + 1]

(* The words of a line: where they start, and up to where they go. *)
Starts(s) == {k \in 1 .. Len(s) : /\ s[k] \notin WHITESPACE
                                  /\ k > 1 => s[k - 1] \in WHITESPACE}

Ends(s, k, e) == /\ e \in k .. Len(s)
                 /\ \A j \in k .. e : s[j] \notin WHITESPACE
                 /\ e < Len(s) => s[e + 1] \in WHITESPACE

Word(s, k) ==
  LET end == CHOOSE e \in k .. Len(s) : Ends(s, k, e)
  IN  [j \in 1 .. end - k + 1 |-> s[k + j - 1]]

FirstWord(s) == Word(s, CHOOSE k \in Starts(s) : \A j \in Starts(s) : k <= j)

(* The string at a place of the buffer. *)
StringAt(a) ==
  LET stop == CHOOSE e \in a .. BUFLEN - 1 : buf[e] = 0 /\ \A j \in a .. e - 1 : buf[j] # 0
  IN  [k \in 1 .. stop - a |-> buf[a + k - 1]]

(***************************************************************************)
(* "Parse the command buffer into whitespace-separated arguments": what a  *)
(* command gets are the words of the line, all of them and in their order, *)
(* and a null pointer after them.                                          *)
(***************************************************************************)
ArgsAreWords ==
  at = "lookup" =>
    /\ {argv[k] + 1 : k \in 0 .. argc - 1} = Starts(line)
    /\ \A k \in 0 .. argc - 1 : \A j \in 0 .. k - 1 : argv[j] < argv[k]
    /\ \A k \in 0 .. argc - 1 : StringAt(argv[k]) = Word(line, argv[k] + 1)
    /\ argv[argc] = NULL

(***************************************************************************)
(* The command that is run is the one that was typed, not one whose name   *)
(* only starts it or has it as a prefix.  A line of more words than argv   *)
(* has slots is refused, and a line of fewer words is not.                 *)
(***************************************************************************)
RightCommand ==
  at = "done" =>
    /\ did = Nothing <=> Starts(line) = {}
    /\ Cardinality(Starts(line)) < MAXARGS => did # Refused
    /\ Cardinality(Starts(line)) > MAXARGS => did = Refused
    /\ \A n \in 1 .. Len(Names) : /\ did = n => Names[n] = FirstWord(line)
                                  /\ did = Unknown => Names[n] # FirstWord(line)

(* "Too many arguments (max %d)", MAXARGS (monitor.c:123): a line of that  *)
(* many words is not too long.                                             *)
TakesMaxArgs ==
  at = "done" /\ Cardinality(Starts(line)) <= MAXARGS => did # Refused

=============================================================================
