-------------------------- MODULE GradeRunnerProof --------------------------
(***************************************************************************)
(* A run of the grading harness, for every size of its reads and however   *)
(* much QEMU writes: the monitors see all of the output, in order, and a   *)
(* test that came to its breakpoint finds all of it.                       *)
(***************************************************************************)
EXTENDS GradeRunner, SequenceTheorems, WellFoundedInduction, TLAPS

Texts == Seq({"text", NL, Stop})

-----------------------------------------------------------------------------
(***************************************************************************)
(* Cutting sequences and putting them together.                            *)
(***************************************************************************)
(* The two parts of a sequence make it up. *)
LEMMA TwoParts ==
  ASSUME NEW S, NEW s \in Seq(S), NEW k \in 0 .. Len(s)
  PROVE  /\ SubSeq(s, 1, k) \in Seq(S) /\ Len(SubSeq(s, 1, k)) = k
         /\ SubSeq(s, k + 1, Len(s)) \in Seq(S)
         /\ SubSeq(s, 1, k) \o SubSeq(s, k + 1, Len(s)) = s
<1>1. Len(s) \in Nat /\ \A i \in 1 .. Len(s) : s[i] \in S
  BY LenProperties, ElementOfSeq
<1>2. /\ 1 \in Int /\ k \in Int /\ k + 1 \in Int /\ Len(s) \in Int
      /\ \A i \in 1 .. k : s[i] \in S
      /\ \A i \in k + 1 .. Len(s) : s[i] \in S
  BY <1>1
<1>3. SubSeq(s, 1, k) \in Seq(S) /\ Len(SubSeq(s, 1, k)) = IF 1 <= k THEN k - 1 + 1 ELSE 0
  BY <1>2, SubSeqProperties
<1>4. SubSeq(s, k + 1, Len(s)) \in Seq(S)
  BY <1>2, SubSeqProperties
<1>5. /\ 1 \in 1 .. Len(s) + 1 /\ k \in 1 - 1 .. Len(s) /\ Len(s) \in k .. Len(s)
  BY <1>1
<1>6. SubSeq(s, 1, k) \o SubSeq(s, k + 1, Len(s)) = SubSeq(s, 1, Len(s))
  BY <1>5, ConcatAdjacentSubSeq
<1>7. SubSeq(s, 1, Len(s)) = s
  BY SubSeqFull
<1>8. Len(SubSeq(s, 1, k)) = k
  BY <1>1, <1>3
<1>9. SubSeq(s, 1, k) \o SubSeq(s, k + 1, Len(s)) = s
  BY <1>6, <1>7, Zenon
<1> QED BY <1>3, <1>4, <1>8, <1>9, Zenon

(* What is behind a prefix is what was appended to it. *)
LEMMA Behind ==
  ASSUME NEW S, NEW s \in Seq(S), NEW t \in Seq(S)
  PROVE  SubSeq(s \o t, Len(s) + 1, Len(s \o t)) = t
<1>1. Len(s) \in Nat /\ Len(t) \in Nat /\ Len(s \o t) = Len(s) + Len(t)
  BY ConcatProperties, LenProperties
<1>2. CASE t = << >>
  <2>1. Len(s \o t) < Len(s) + 1
    BY <1>1, <1>2, EmptySeq
  <2> QED BY <1>1, <1>2, <2>1, SubSeqEmpty
<1>3. CASE t # << >>
  <2>1. Len(t) \in Nat \ {0}
    BY <1>3, EmptySeq
  <2>2. /\ Len(s) + 1 \in Len(s) + 1 .. Len(s) + Len(t)
        /\ Len(s) + Len(t) \in Len(s) + 1 .. Len(s) + Len(t)
        /\ (Len(s) + 1) - Len(s) = 1 /\ (Len(s) + Len(t)) - Len(s) = Len(t)
    BY <1>1, <2>1
  <2>3. SubSeq(s \o t, Len(s) + 1, Len(s) + Len(t))
          = SubSeq(t, (Len(s) + 1) - Len(s), (Len(s) + Len(t)) - Len(s))
    BY <2>2, SubSeqOfConcat2
  <2>4. SubSeq(t, 1, Len(t)) = t
    BY SubSeqFull
  <2> QED BY <1>1, <2>2, <2>3, <2>4
<1> QED BY <1>2, <1>3

LEMMA Joined ==
  /\ \A x, y \in Texts : x \o y \in Texts
  /\ \A x, y, z \in Texts : (x \o y) \o z = x \o (y \o z)
  /\ \A x \in Texts : x \o << >> = x /\ << >> \o x = x
  /\ << >> \in Texts
<1>1. \A x, y \in Texts : x \o y \in Texts
  BY ConcatProperties DEF Texts
<1>2. \A x, y, z \in Texts : (x \o y) \o z = x \o (y \o z)
  BY ConcatAssociative DEF Texts
<1>3. \A x \in Texts : x \o << >> = x /\ << >> \o x = x
  BY ConcatEmptySeq DEF Texts
<1>4. << >> \in Texts
  BY EmptySeq DEF Texts
<1> QED BY <1>1, <1>2, <1>3, <1>4, Zenon

(* What is read after the first n characters grows with what is read. *)
LEMMA GrowsBehind ==
  ASSUME NEW s \in Texts, NEW t \in Texts, NEW n \in 0 .. Len(s)
  PROVE  /\ SubSeq(s \o t, n + 1, Len(s \o t)) = SubSeq(s, n + 1, Len(s)) \o t
         /\ n <= Len(s \o t)
<1> DEFINE a == SubSeq(s, 1, n)
           b == SubSeq(s, n + 1, Len(s))
<1>1. a \in Texts /\ b \in Texts /\ Len(a) = n /\ a \o b = s
  BY TwoParts DEF Texts
<1> HIDE DEF a, b
<1>2. b \o t \in Texts /\ (a \o b) \o t = a \o (b \o t)
  <2>1. a \in Texts /\ b \in Texts
    BY <1>1
  <2> QED BY <2>1, Joined, Zenon
<1>3. SubSeq(a \o (b \o t), Len(a) + 1, Len(a \o (b \o t))) = b \o t
  BY <1>1, <1>2, Behind DEF Texts
<1>4. s \o t = a \o (b \o t)
  BY <1>1, <1>2
<1>5. SubSeq(s \o t, n + 1, Len(s \o t)) = b \o t
  BY <1>1, <1>3, <1>4, Zenon
<1>6. n <= Len(s \o t)
  <2>1. Len(s \o t) = Len(s) + Len(t) /\ Len(s) \in Nat /\ Len(t) \in Nat
    BY ConcatProperties, LenProperties, Zenon DEF Texts
  <2> QED BY <2>1
<1> QED BY <1>5, <1>6, Zenon DEF b

(* A set of natural numbers has a least element, and a bounded one a greatest. *)
LEMMA Least ==
  ASSUME NEW T, T \subseteq Nat, T # {}
  PROVE  \E e \in T : \A o \in T : e <= o
<1> DEFINE R == {p \in Nat \X Nat : p[1] < p[2]}
<1>1. IsWellFoundedOn(R, Nat)
  BY NatLessThanWellFounded, Zenon DEF OpToRel
<1>2. \A e, o \in T : e <= o \/ << o, e >> \in R
  OBVIOUS
<1> HIDE DEF R
<1>3. \E e \in T : \A o \in T : ~(<< o, e >> \in R)
  BY <1>1, WFMin
<1> QED BY <1>2, <1>3

LEMMA Greatest ==
  ASSUME NEW n \in Nat, NEW T, T \subseteq 0 .. n, T # {}
  PROVE  \E e \in T : \A o \in T : o <= e
<1> DEFINE U == {n - e : e \in T}
<1>1. U \subseteq Nat /\ U # {}
  <2>1. \A e \in T : n - e \in Nat
    OBVIOUS
  <2>2. PICK e \in T : TRUE
    OBVIOUS
  <2>3. n - e \in U
    BY <2>2
  <2> QED BY <2>1, <2>3
<1>2. PICK u \in U : \A o \in U : u <= o
  <2> HIDE DEF U
  <2> QED BY <1>1, Least
<1>3. PICK e \in T : u = n - e
  BY <1>2
<1>4. ASSUME NEW o \in T
      PROVE  o <= e
  <2>1. n - o \in U
    OBVIOUS
  <2>2. n - e <= n - o
    BY <1>2, <1>3, <2>1
  <2> QED BY <2>2
<1> QED BY <1>4

-----------------------------------------------------------------------------
(***************************************************************************)
(* The inductive invariant: what is written is what was read and what is   *)
(* on its way; what the monitors have is what was read since they were     *)
(* set; a reactor that is to be handled has something to read or is at its *)
(* end; a process that was waited for has left nothing unread; and the     *)
(* breakpoint's packet is read once.                                       *)
(***************************************************************************)
Types ==
  /\ at \in {"loop", "handle", "waiting", "returned", "exited"}
  /\ phase \in {"start", "main", "shutdown"}
  /\ rset \subseteq {"qemu", "gdb"}
  /\ saveFirst \in BOOLEAN /\ hooks \subseteq Monitors
  /\ proc \in BOOLEAN /\ alive \in BOOLEAN /\ halted \in BOOLEAN
  /\ output \in Texts /\ pipe \in Texts /\ written \in Texts
  /\ saved \in Texts /\ buf \in Texts /\ lines \in Texts
  /\ sock \in {<< >>, << "5" >>, << "T0", "5" >>}

Seen ==
  /\ began \in 0 .. Len(output)
  /\ phase = "start" => hooks = {} /\ saved = << >> /\ lines \o buf = << >>
  /\ "stop_on_line" \in hooks => lines \o buf = Monitored
  /\ "save" \in hooks /\ (saveFirst \/ "line" \notin {why, cut}) => saved = Monitored

Phases ==
  /\ at \in {"waiting", "returned"} => phase = "shutdown"
  /\ phase = "start" => "gdb" \notin rset
  /\ phase # "shutdown" => why = "none"
  /\ at \notin {"waiting", "returned"} => cut = "none"

Collected ==
  /\ "qemu" \in rset => pipe # << >> \/ ~alive
  /\ ~proc /\ at # "returned" => ~alive /\ pipe = << >>

ReadOnce ==
  /\ ~halted => sock = << >>
  /\ why = "breakpoint" => halted /\ sock = << >>
  /\ why = "breakpoint" /\ at \in {"waiting", "returned"} =>
       cut \in {"timeout", "line"} \/ (cut = "closed" /\ ~alive /\ pipe = << >>)

GradeInv ==
  Types /\ output \o pipe = written /\ Seen /\ Phases /\ Collected /\ ReadOnce

-----------------------------------------------------------------------------
(* What a call of __react() that is over leaves, in each of the three. *)
LEMMA OverFacts ==
  ASSUME NEW reason, NEW client, ReactOver(reason, client)
  PROVE  /\ rset' = {} /\ UNCHANGED << alive, halted, written >>
         /\ \/ /\ phase = "start" /\ at' = "exited"
               /\ UNCHANGED << phase, began, why, cut, hooks >>
            \/ /\ phase = "start" /\ at' = "loop" /\ began' = Len(output')
               /\ hooks' \subseteq Monitors /\ cut' = cut
               /\ \/ phase' = "main" /\ why' = why
                  \/ phase' = "shutdown" /\ why' = "error"
            \/ /\ phase = "main" /\ at' = "loop" /\ phase' = "shutdown" /\ why' = reason
               /\ UNCHANGED << began, cut, hooks >>
            \/ /\ phase = "shutdown" /\ at' = "waiting" /\ cut' = reason
               /\ UNCHANGED << phase, began, why, hooks >>
  BY DEF ReactOver, StartOver, NotStarted, LetGo, SetUpFails, SetBefore, Monitors, MainOver,
         ShutdownOver, qemu

(* What the monitors have, when __react() goes on or is over. *)
LEMMA SeenAfter ==
  ASSUME GradeInv, at \notin {"waiting", "returned"}, saveFirst' = saveFirst,
         \/ UNCHANGED << phase, began, hooks, why, cut >>
         \/ \E reason, client : ReactOver(reason, client),
         output' \in Texts, began <= Len(output'),
         phase = "start" => saved' = << >> /\ lines' \o buf' = << >>,
         "stop_on_line" \in hooks => lines' \o buf' = SubSeq(output', began + 1, Len(output')),
         "save" \in hooks /\ (saveFirst \/ "line" \notin {why', cut'}) =>
           saved' = SubSeq(output', began + 1, Len(output'))
  PROVE  Seen'
<1>1. Len(output') \in Nat /\ began \in Nat
  BY LenProperties DEF GradeInv, Types, Seen
<1>2. CASE UNCHANGED << phase, began, hooks, why, cut >>
  BY <1>1, <1>2 DEF GradeInv, Seen, Monitored
<1>3. CASE \E reason, client : ReactOver(reason, client)
  <2>1. CASE phase = "start" /\ phase' # "start" /\ began' = Len(output')
    <3>1. SubSeq(output', Len(output') + 1, Len(output')) = << >>
      BY <1>1, SubSeqEmpty
    <3> QED BY <1>1, <2>1, <3>1 DEF Seen, Monitored
  <2>2. CASE began' = began /\ hooks' = hooks /\ (phase' = "start" => phase = "start")
    BY <1>1, <2>2 DEF GradeInv, Seen, Monitored
  <2> QED BY <1>3, <2>1, <2>2, OverFacts
<1> QED BY <1>2, <1>3

(* A read takes the front of the pipe; nothing, only if there is nothing. *)
LEMMA ChunkFacts ==
  ASSUME GradeInv
  PROVE  LET rest == SubSeq(pipe, Len(Chunk) + 1, Len(pipe))
         IN /\ Chunk \in Texts /\ rest \in Texts /\ Chunk \o rest = pipe
            /\ Chunk = << >> <=> pipe = << >>
            /\ pipe = << >> => rest = << >>
<1> DEFINE k == IF Len(pipe) < ReadSize THEN Len(pipe) ELSE ReadSize
<1>1. pipe \in Texts /\ Len(pipe) \in Nat
  BY LenProperties DEF GradeInv, Types
<1>2. k \in 0 .. Len(pipe) /\ (k = 0 <=> Len(pipe) = 0)
  BY <1>1, BoundsAssumption
<1>3. Chunk = SubSeq(pipe, 1, k)
  BY DEF Chunk
<1> HIDE DEF k
<1>4. /\ Chunk \in Texts /\ Len(Chunk) = k
      /\ SubSeq(pipe, k + 1, Len(pipe)) \in Texts
      /\ Chunk \o SubSeq(pipe, k + 1, Len(pipe)) = pipe
  BY <1>1, <1>2, <1>3, TwoParts DEF Texts
<1>5. (Chunk = << >> <=> k = 0) /\ (pipe = << >> <=> Len(pipe) = 0)
  BY <1>1, <1>4, EmptySeq DEF Texts
<1>6. pipe = << >> => SubSeq(pipe, k + 1, Len(pipe)) = << >>
  BY <1>1, <1>2, <1>5, SubSeqEmpty
<1> QED BY <1>2, <1>4, <1>5, <1>6

(* The lines that are taken out, and what is kept, make up what was there. *)
LEMMA LinesTaken ==
  ASSUME lines \in Texts, NEW b \in Texts,
         (StopEnds(b) # {} /\ FirstStop(b)) \/ AllLines(b)
  PROVE  lines' \in Texts /\ buf' \in Texts /\ lines' \o buf' = lines \o b
<1>1. Len(b) \in Nat /\ Ends(b) \subseteq 1 .. Len(b) /\ StopEnds(b) \subseteq Ends(b)
  BY LenProperties DEF Texts, Ends, StopEnds
<1>2. PICK k \in 0 .. Len(b) : lines' = lines \o LinesUpTo(b, k) /\ buf' = Rest(b, k)
  <2>1. CASE StopEnds(b) # {} /\ FirstStop(b)
    <3> DEFINE k == CHOOSE e \in StopEnds(b) : \A o \in StopEnds(b) : e <= o
    <3>1. \E e \in StopEnds(b) : \A o \in StopEnds(b) : e <= o
      BY <1>1, <2>1, Least
    <3>2. k \in StopEnds(b)
      BY <3>1
    <3>3. lines' = lines \o LinesUpTo(b, k) /\ buf' = Rest(b, k)
      BY <2>1 DEF FirstStop
    <3> HIDE DEF k
    <3>4. k \in 0 .. Len(b)
      BY <1>1, <3>2
    <3> QED BY <3>3, <3>4, Zenon
  <2>2. CASE AllLines(b)
    <3> DEFINE S == Ends(b) \cup {0}
               k == CHOOSE e \in S : \A o \in Ends(b) : o <= e
    <3>1. S \subseteq 0 .. Len(b) /\ S # {}
      BY <1>1
    <3>2. \E e \in S : \A o \in S : o <= e
      <4> HIDE DEF S
      <4> QED BY <1>1, <3>1, Greatest
    <3>3. k \in 0 .. Len(b)
      BY <3>1, <3>2
    <3> QED BY <2>2, <3>3 DEF AllLines
  <2> QED BY <2>1, <2>2
<1> DEFINE s == LinesUpTo(b, k)
           t == Rest(b, k)
<1>3. s \in Texts /\ t \in Texts /\ s \o t = b
  BY TwoParts DEF LinesUpTo, Rest, Texts
<1> HIDE DEF s, t
<1>4. lines \o s \in Texts
  BY <1>3, Joined, Zenon
<1>5. (lines \o s) \o t = lines \o (s \o t)
  <2>1. lines \in Texts /\ s \in Texts /\ t \in Texts
    BY <1>3
  <2> QED BY <2>1, Joined, Zenon
<1>6. lines' = lines \o s /\ buf' = t
  BY <1>2 DEF s, t
<1>7. lines' \o buf' = lines \o b
  BY <1>3, <1>5, <1>6, Zenon
<1> QED BY <1>3, <1>4, <1>6, <1>7

-----------------------------------------------------------------------------
LEMMA GradeInit == Init => GradeInv
<1> SUFFICES ASSUME Init
             PROVE  GradeInv
  OBVIOUS
<1>1. << >> \in Texts /\ Len(<< >>) = 0 /\ << >> \o << >> = << >>
  BY Joined, EmptySeq
<1>2. Types
  BY <1>1 DEF Init, Types
<1>3. Seen /\ output \o pipe = written
  BY <1>1 DEF Init, Seen
<1>4. Phases /\ Collected /\ ReadOnce
  BY DEF Init, Phases, Collected, ReadOnce
<1> QED BY <1>2, <1>3, <1>4 DEF GradeInv

(* QEMU and the clock. *)
LEMMA QemuInv ==
  ASSUME GradeInv, QemuWrites \/ AtBreakpoint \/ QemuExits \/ DeadlinePasses \/ UNCHANGED vars
  PROVE  GradeInv'
<1>1. /\ Types /\ output \o pipe = written /\ Seen /\ Phases /\ Collected /\ ReadOnce
  BY DEF GradeInv
<1>2. UNCHANGED << at, phase, rset, proc, output, saved, buf, lines, saveFirst, hooks, began, why,
                   cut >>
  BY DEF QemuWrites, AtBreakpoint, QemuExits, DeadlinePasses, vars, reading, setup, history
<1>3. CASE QemuWrites
  <2>1. PICK c \in {"text", NL, Stop} : written' = Append(written, c) /\ pipe' = Append(pipe, c)
    BY <1>3 DEF QemuWrites
  <2>2. alive /\ ~halted /\ UNCHANGED << alive, halted, sock >>
    BY <1>3 DEF QemuWrites
  <2>3. /\ pipe' \in Texts /\ written' \in Texts
        /\ pipe' = pipe \o << c >> /\ written' = written \o << c >>
        /\ << c >> \in Texts
    BY <1>1, <2>1, AppendProperties, AppendIsConcat DEF Types, Texts
  <2>4. output \o pipe' = written'
    <3>1. output \in Texts /\ pipe \in Texts
      BY <1>1 DEF Types
    <3>2. (output \o pipe) \o << c >> = output \o (pipe \o << c >>)
      BY <2>3, <3>1, Joined, ZenonT(60)
    <3> QED BY <1>1, <2>3, <3>2, Zenon
  <2>5. pipe' # << >>
    BY <1>1, <2>1, AppendProperties, ZenonT(60) DEF Types, Texts
  <2>6. Types' /\ Seen' /\ Phases'
    BY <1>1, <1>2, <2>2, <2>3 DEF Types, Seen, Monitored, Phases
  <2>7. Collected' /\ ReadOnce'
    BY <1>1, <1>2, <2>2, <2>5 DEF Collected, ReadOnce
  <2> QED BY <1>2, <2>4, <2>6, <2>7 DEF GradeInv
<1>4. CASE AtBreakpoint
  <2>1. /\ ~halted /\ halted' = TRUE /\ sock' = sock \o << "T0", "5" >>
        /\ UNCHANGED << alive, pipe, written >>
    BY <1>4 DEF AtBreakpoint
  <2>2. sock' = << "T0", "5" >>
    BY <1>1, <2>1 DEF ReadOnce
  <2>3. why # "breakpoint"
    BY <1>1, <2>1 DEF ReadOnce
  <2>4. Types' /\ Seen' /\ Phases' /\ Collected' /\ ReadOnce'
    BY <1>1, <1>2, <2>1, <2>2, <2>3 DEF Types, Seen, Monitored, Phases, Collected, ReadOnce
  <2> QED BY <1>1, <1>2, <2>1, <2>4 DEF GradeInv
<1>5. CASE QemuExits
  <2>1. ~alive' /\ alive' \in BOOLEAN /\ UNCHANGED << halted, sock, pipe, written >>
    BY <1>5 DEF QemuExits
  <2>2. Types' /\ Seen' /\ Phases' /\ Collected' /\ ReadOnce'
    BY <1>1, <1>2, <2>1 DEF Types, Seen, Monitored, Phases, Collected, ReadOnce
  <2> QED BY <1>1, <1>2, <2>1, <2>2 DEF GradeInv
<1>6. CASE DeadlinePasses \/ UNCHANGED vars
  <2>1. UNCHANGED << alive, halted, sock, pipe, written >>
    BY <1>6 DEF DeadlinePasses, vars, qemu
  <2>2. Types' /\ Seen' /\ Phases' /\ Collected' /\ ReadOnce'
    BY <1>1, <1>2, <2>1 DEF Types, Seen, Monitored, Phases, Collected, ReadOnce
  <2> QED BY <1>1, <1>2, <2>1, <2>2 DEF GradeInv
<1> QED BY <1>3, <1>4, <1>5, <1>6

(* The harness, while it reads nothing. *)
LEMMA WaitInv ==
  ASSUME GradeInv, TimedOut \/ AllClosed \/ Select \/ Wait
  PROVE  GradeInv'
<1>1. /\ Types /\ output \o pipe = written /\ Seen /\ Phases /\ Collected /\ ReadOnce
  BY DEF GradeInv
<1>2. UNCHANGED << output, saved, buf, lines, saveFirst, pipe, sock >>
  BY DEF TimedOut, AllClosed, Select, Wait, reading, setup
<1>3. began \in Nat /\ began <= Len(output) /\ output' \in Texts
  BY <1>1, <1>2, LenProperties DEF Seen, Types, Texts
<1>4. Seen'
  <2>1. CASE UNCHANGED << phase, began, hooks, why, cut >>
    BY <1>1, <1>2, <2>1 DEF Seen, Monitored
  <2>2. ASSUME NEW reason, NEW client, ReactOver(reason, client), at = "loop"
        PROVE  Seen'
    <3>1. "line" \in {why, cut} => "line" \in {why', cut'}
      BY <1>1, <2>2, OverFacts DEF Phases
    <3>2. \E r, c : ReactOver(r, c)
      BY <2>2
    <3> QED BY <1>1, <1>2, <1>3, <2>2, <3>1, <3>2, SeenAfter DEF Seen, Monitored
  <2> QED BY <2>1, <2>2 DEF TimedOut, AllClosed, Select, Wait, history, setup
<1>5. CASE TimedOut
  <2>1. at = "loop" /\ ReactOver("timeout", gdb) /\ proc' = proc
    BY <1>5 DEF TimedOut
  <2>2. Types' /\ Phases' /\ Collected' /\ ReadOnce' /\ written' = written
    BY <1>1, <1>2, <2>1, OverFacts DEF Types, Phases, Collected, ReadOnce
  <2> QED BY <1>1, <1>2, <1>4, <2>2 DEF GradeInv
<1>6. CASE AllClosed
  <2>1. at = "loop" /\ ReactOver("closed", gdb) /\ proc' = proc /\ Reactors = {}
    BY <1>6 DEF AllClosed
  <2>2. ~proc
    <3>1. proc => "qemu" \in Reactors
      BY DEF Reactors
    <3> QED BY <2>1, <3>1
  <2>3. ~alive /\ pipe = << >>
    BY <1>1, <2>1, <2>2 DEF Collected
  <2>4. Types' /\ Phases' /\ Collected' /\ ReadOnce' /\ written' = written
    BY <1>1, <1>2, <2>1, <2>3, OverFacts DEF Types, Phases, Collected, ReadOnce
  <2> QED BY <1>1, <1>2, <1>4, <2>4 DEF GradeInv
<1>7. CASE Select
  <2>1. /\ at = "loop" /\ at' = "handle" /\ rset' = {r \in Reactors : Ready(r)}
        /\ UNCHANGED << phase, proc, hooks, alive, halted, written, began, why, cut >>
    BY <1>7 DEF Select, qemu, history, setup
  <2>2. /\ rset' \subseteq {"qemu", "gdb"}
        /\ "qemu" \in rset' => pipe # << >> \/ ~alive
        /\ phase = "start" => "gdb" \notin rset'
    BY <2>1 DEF Reactors, Ready
  <2>3. Types' /\ Phases' /\ Collected' /\ ReadOnce'
    BY <1>1, <1>2, <2>1, <2>2 DEF Types, Phases, Collected, ReadOnce
  <2> QED BY <1>1, <1>2, <1>4, <2>1, <2>3 DEF GradeInv
<1>8. CASE Wait
  <2>1. /\ at = "waiting" /\ at' = "returned" /\ proc' = FALSE
        /\ UNCHANGED << phase, rset, hooks, alive, halted, written, began, why, cut >>
    BY <1>8 DEF Wait, qemu, history, setup
  <2>2. Types' /\ Phases' /\ Collected' /\ ReadOnce'
    BY <1>1, <1>2, <2>1 DEF Types, Phases, Collected, ReadOnce
  <2> QED BY <1>1, <1>2, <1>4, <2>1, <2>2 DEF GradeInv
<1> QED BY <1>5, <1>6, <1>7, <1>8

(* The socket: the packet counts once, when it is complete. *)
LEMMA GdbInv ==
  ASSUME GradeInv, GdbData
  PROVE  GradeInv'
<1>1. /\ Types /\ output \o pipe = written /\ Seen /\ Phases /\ Collected /\ ReadOnce
  BY DEF GradeInv
<1>2. PICK k \in (IF sock = << >> THEN {0} ELSE 1 .. Len(sock)) :
        /\ sock' = SubSeq(sock, k + 1, Len(sock))
        /\ \/ k > 0 /\ sock[k] = "5" /\ ReactOver("breakpoint", gdb)
           \/ k > 0 /\ sock[k] # "5" /\ GoOn("gdb")
           \/ k = 0 /\ GoOn("gdb")
  BY DEF GdbData
<1>3. /\ at = "handle" /\ rset = {"gdb"}
      /\ UNCHANGED << proc, output, saved, buf, lines, saveFirst, pipe >>
  BY DEF GdbData, reading
<1>4. /\ k > 0 => sock # << >>
      /\ k > 0 /\ sock[k] = "5" => sock' = << >>
      /\ sock' \in {<< >>, << "5" >>, << "T0", "5" >>}
      /\ sock = << >> => sock' = << >>
  <2>1. CASE sock = << >>
    BY <1>2, <2>1, SubSeqEmpty
  <2>2. CASE sock = << "5" >>
    <3>1. k = 1 /\ Len(sock) = 1
      BY <1>2, <2>2
    <3>2. sock' = << >>
      BY <1>2, <3>1, SubSeqEmpty
    <3> QED BY <2>2, <3>1, <3>2
  <2>3. CASE sock = << "T0", "5" >>
    <3>1. k \in {1, 2} /\ Len(sock) = 2
      BY <1>2, <2>3
    <3>2. k = 2 => sock' = << >>
      BY <1>2, <3>1, SubSeqEmpty
    <3>3. SubSeq(<< "T0", "5" >>, 2, 2) = << "5" >>
      <4> DEFINE p == << "T0", "5" >>
      <4>1. p \in Seq({"T0", "5"}) /\ Len(p) = 2 /\ p[2] = "5"
        OBVIOUS
      <4>2. 2 \in 1 .. Len(p) /\ 2 \in 2 .. Len(p)
        BY <4>1
      <4>3. SubSeq(p, 3, 2) = << >>
        BY SubSeqEmpty
      <4> HIDE DEF p
      <4>4. SubSeq(p, 2, 2) = << p[2] >> \o SubSeq(p, 2 + 1, 2)
        BY <4>1, <4>2, SubSeqRecursiveFirst
      <4>5. << p[2] >> \o << >> = << p[2] >>
        OBVIOUS
      <4>6. 2 + 1 = 3
        OBVIOUS
      <4> QED BY <4>1, <4>3, <4>4, <4>5, <4>6, Zenon DEF p
    <3>4. k = 1 => sock' = SubSeq(sock, 2, 2) /\ sock[k] = "T0"
      BY <1>2, <2>3, <3>1
    <3>5. k = 1 => sock' = << "5" >> /\ sock[k] = "T0"
      BY <2>3, <3>3, <3>4
    <3> QED BY <2>3, <3>1, <3>2, <3>5
  <2> QED BY <1>1, <2>1, <2>2, <2>3 DEF Types
<1>5. began \in Nat /\ began <= Len(output) /\ output' \in Texts
  BY <1>1, <1>3, LenProperties DEF Seen, Types, Texts
<1>6. CASE k > 0 /\ sock[k] = "5" /\ ReactOver("breakpoint", gdb)
  <2>1. phase # "start" /\ halted /\ sock' = << >> /\ why # "breakpoint"
    BY <1>1, <1>3, <1>4, <1>6 DEF Phases, ReadOnce
  <2>2. Seen'
    <3>1. "line" \in {why, cut} => "line" \in {why', cut'}
      BY <1>1, <1>3, <1>6, OverFacts DEF Phases
    <3>2. \E reason, client : ReactOver(reason, client)
      BY <1>6
    <3> QED BY <1>1, <1>3, <1>5, <3>1, <3>2, SeenAfter DEF Seen, Monitored
  <2>3. Types' /\ Phases' /\ Collected' /\ ReadOnce' /\ written' = written
    BY <1>1, <1>3, <1>4, <1>6, <2>1, OverFacts DEF Types, Phases, Collected, ReadOnce
  <2> QED BY <1>1, <1>3, <2>2, <2>3 DEF GradeInv
<1>7. CASE GoOn("gdb")
  <2>1. /\ at' \in {"loop", "handle"} /\ rset' = {}
        /\ UNCHANGED << phase, hooks, alive, halted, written, began, why, cut >>
    BY <1>3, <1>7 DEF GoOn, qemu, history
  <2>2. Types' /\ Seen' /\ Phases' /\ Collected' /\ ReadOnce'
    BY <1>1, <1>3, <1>4, <2>1 DEF Types, Seen, Monitored, Phases, Collected, ReadOnce
  <2> QED BY <1>1, <1>3, <2>1, <2>2 DEF GradeInv
<1> QED BY <1>2, <1>6, <1>7

(* Whatever becomes of the chunk, it moves from the pipe to the output. *)
LEMMA ChunkMoves ==
  ASSUME GradeInv, ReadChunk
  PROVE  /\ Chunk \in Texts /\ output' \in Texts /\ pipe' \in Texts
         /\ output' = output \o Chunk
         /\ output' \o pipe' = written
         /\ Chunk = << >> => pipe = << >>
         /\ pipe = << >> => pipe' = << >> /\ Chunk = << >>
         /\ began <= Len(output')
         /\ SubSeq(output', began + 1, Len(output')) = Monitored \o Chunk
         /\ Monitored \in Texts
<1>1. output \in Texts /\ pipe \in Texts /\ output \o pipe = written
      /\ began \in 0 .. Len(output)
  BY DEF GradeInv, Types, Seen
<1>2. /\ Chunk \in Texts /\ pipe' \in Texts /\ Chunk \o pipe' = pipe
      /\ Chunk = << >> <=> pipe = << >>
      /\ pipe = << >> => pipe' = << >>
  BY ChunkFacts DEF ReadChunk
<1>3. output' = output \o Chunk
  BY DEF ReadChunk
<1>4. output' \in Texts
  BY <1>1, <1>2, <1>3, Joined, Zenon
<1>5. output' \o pipe' = written
  <2>1. (output \o Chunk) \o pipe' = output \o (Chunk \o pipe')
    BY <1>1, <1>2, Joined, ZenonT(60)
  <2> QED BY <1>1, <1>2, <1>3, <2>1, Zenon
<1>6. /\ SubSeq(output \o Chunk, began + 1, Len(output \o Chunk))
           = SubSeq(output, began + 1, Len(output)) \o Chunk
      /\ began <= Len(output \o Chunk)
  BY <1>1, <1>2, GrowsBehind
<1>7. Monitored \in Texts
  BY <1>1, TwoParts DEF Monitored, Texts
<1> QED BY <1>2, <1>3, <1>4, <1>5, <1>6, <1>7, Zenon DEF Monitored

LEMMA StartChunkInv ==
  ASSUME GradeInv, StartChunk
  PROVE  GradeInv'
<1>1. /\ Types /\ output \o pipe = written /\ Seen /\ Phases /\ Collected /\ ReadOnce
  BY DEF GradeInv
<1>2. /\ at = "handle" /\ "qemu" \in rset /\ phase = "start" /\ ReadChunk
      /\ UNCHANGED << saved, buf, lines, saveFirst, sock >>
  BY DEF StartChunk, AtQemu
<1>3. /\ output' \in Texts /\ pipe' \in Texts /\ output' \o pipe' = written
      /\ began <= Len(output')
      /\ pipe = << >> => pipe' = << >>
  BY <1>2, ChunkMoves
<1>4. hooks = {} /\ saved' = << >> /\ lines' \o buf' = << >>
  BY <1>1, <1>2 DEF Seen
<1>5. ASSUME NEW client, ReactOver("stop", client), proc' = proc
      PROVE  GradeInv'
  <2>1. Seen'
    <3>1. \E reason, c : ReactOver(reason, c)
      BY <1>5
    <3> QED BY <1>2, <1>3, <1>4, <3>1, SeenAfter
  <2>2. Types' /\ Phases' /\ Collected' /\ ReadOnce' /\ written' = written
    BY <1>1, <1>2, <1>3, <1>5, OverFacts DEF Types, Phases, Collected, ReadOnce
  <2> QED BY <1>3, <2>1, <2>2 DEF GradeInv
<1>6. CASE Chunk # << >> /\ NoStop
  <2>1. /\ proc' \in BOOLEAN /\ proc' /\ at' \in {"loop", "handle"} /\ rset' = rset \ {"qemu"}
        /\ UNCHANGED << phase, hooks, alive, halted, written, began, why, cut >>
    BY <1>6 DEF NoStop, GoOn, qemu, history
  <2>2. Seen'
    BY <1>2, <1>3, <1>4, <2>1, SeenAfter
  <2>3. Types' /\ Phases' /\ Collected' /\ ReadOnce'
    BY <1>1, <1>2, <1>3, <2>1 DEF Types, Phases, Collected, ReadOnce
  <2> QED BY <1>3, <2>1, <2>2, <2>3 DEF GradeInv
<1> QED BY <1>5, <1>6 DEF StartChunk

(* What the callbacks do to their records, when a line stops them or not. *)
LEMMA CallbacksFacts ==
  ASSUME GradeInv, at = "handle", phase # "start", ReadChunk,
         Stops(buf \o Chunk) \/ GoesOn(buf \o Chunk)
  PROVE  /\ saved' \in Texts /\ lines' \in Texts /\ buf' \in Texts
         /\ "stop_on_line" \in hooks => lines' \o buf' = Monitored \o Chunk
         /\ "save" \in hooks /\ (saveFirst \/ "line" \notin {why', cut'}) =>
              saved' = Monitored \o Chunk
<1> DEFINE b == buf \o Chunk
<1>1. /\ lines \in Texts /\ buf \in Texts /\ saved \in Texts /\ Chunk \in Texts
      /\ "stop_on_line" \in hooks => lines \o buf = Monitored
      /\ "save" \in hooks /\ (saveFirst \/ "line" \notin {why, cut}) => saved = Monitored
  BY ChunkMoves DEF GradeInv, Types, Seen
<1>2. /\ b \in Texts /\ saved \o Chunk \in Texts
      /\ (lines \o buf) \o Chunk = lines \o b
  BY <1>1, Joined, ZenonT(60)
<1>3. saved' \in {saved, saved \o Chunk}
  BY DEF Stops, GoesOn
<1>4. saved' \in Texts
  BY <1>1, <1>2, <1>3
<1>5. ASSUME "stop_on_line" \in hooks
      PROVE  lines' \in Texts /\ buf' \in Texts /\ lines' \o buf' = Monitored \o Chunk
  <2>1. \/ StopEnds(b) # {} /\ FirstStop(b)
        \/ AllLines(b)
    BY <1>5 DEF Stops, GoesOn
  <2> HIDE DEF b
  <2>2. lines' \in Texts /\ buf' \in Texts /\ lines' \o buf' = lines \o b
    BY <1>1, <1>2, <2>1, LinesTaken
  <2> QED BY <1>1, <1>2, <1>5, <2>2, Zenon
<1>6. ASSUME "stop_on_line" \notin hooks
      PROVE  lines' \in Texts /\ buf' \in Texts
  <2>1. UNCHANGED << lines, buf >>
    BY <1>6 DEF Stops, GoesOn
  <2> QED BY <1>1, <2>1
<1>7. ASSUME "save" \in hooks, saveFirst \/ "line" \notin {why', cut'}
      PROVE  saved' = Monitored \o Chunk
  <2>1. CASE Stops(b)
    <3>1. ReactOver("line", gdb) /\ saved' = IF saveFirst THEN saved \o Chunk ELSE saved
      BY <1>7, <2>1 DEF Stops
    <3>2. why' = "line" \/ cut' = "line"
      BY <3>1, OverFacts
    <3> QED BY <1>1, <1>7, <3>1, <3>2
  <2>2. CASE GoesOn(b)
    <3>1. saved' = saved \o Chunk /\ UNCHANGED << why, cut >>
      BY <1>7, <2>2 DEF GoesOn, NoStop, GoOn, history
    <3> QED BY <1>1, <1>7, <3>1
  <2> QED BY <2>1, <2>2
<1> QED BY <1>4, <1>5, <1>6, <1>7

(* The monitors: the lines are taken one by one, and save() has the chunk. *)
LEMMA MonitoredChunkInv ==
  ASSUME GradeInv, MonitoredChunk
  PROVE  GradeInv'
<1>1. /\ Types /\ output \o pipe = written /\ Seen /\ Phases /\ Collected /\ ReadOnce
  BY DEF GradeInv
<1>2. /\ at = "handle" /\ "qemu" \in rset /\ phase # "start" /\ ReadChunk
      /\ UNCHANGED << saveFirst, sock >>
      /\ Stops(buf \o Chunk) \/ GoesOn(buf \o Chunk)
  BY DEF MonitoredChunk, AtQemu
<1>3. /\ Chunk \in Texts /\ output' \in Texts /\ pipe' \in Texts /\ output' \o pipe' = written
      /\ began <= Len(output')
      /\ Chunk = << >> => pipe = << >>
      /\ pipe = << >> => pipe' = << >> /\ Chunk = << >>
      /\ SubSeq(output', began + 1, Len(output')) = Monitored \o Chunk
  BY <1>2, ChunkMoves
<1>4. /\ saved' \in Texts /\ lines' \in Texts /\ buf' \in Texts
      /\ "stop_on_line" \in hooks => lines' \o buf' = Monitored \o Chunk
      /\ "save" \in hooks /\ (saveFirst \/ "line" \notin {why', cut'}) =>
           saved' = Monitored \o Chunk
  BY <1>2, CallbacksFacts
<1>5. CASE Stops(buf \o Chunk)
  <2>1. ReactOver("line", gdb) /\ proc' = proc
    BY <1>5 DEF Stops
  <2>2. Seen'
    <3>1. \E reason, client : ReactOver(reason, client)
      BY <2>1
    <3> QED BY <1>2, <1>3, <1>4, <3>1, SeenAfter
  <2>3. Types' /\ Phases' /\ Collected' /\ ReadOnce' /\ written' = written
    BY <1>1, <1>2, <1>3, <1>4, <2>1, OverFacts DEF Types, Phases, Collected, ReadOnce
  <2> QED BY <1>3, <2>2, <2>3 DEF GradeInv
<1>6. CASE GoesOn(buf \o Chunk)
  <2>1. NoStop
    BY <1>6 DEF GoesOn
  <2>2. /\ at' \in {"loop", "handle"} /\ rset' = rset \ {"qemu"}
        /\ UNCHANGED << phase, hooks, alive, halted, written, began, why, cut >>
    BY <2>1 DEF NoStop, GoOn, qemu, history
  <2>3. proc' \in BOOLEAN /\ (proc' <=> Chunk # << >>)
    BY <2>1, Zenon DEF NoStop
  <2>4. Seen'
    BY <1>2, <1>3, <1>4, <2>2, SeenAfter
  <2>5. Types' /\ Phases' /\ ReadOnce'
    BY <1>1, <1>2, <1>3, <1>4, <2>2, <2>3 DEF Types, Phases, ReadOnce
  <2>6. Collected'
    BY <1>1, <1>2, <1>3, <2>2, <2>3 DEF Collected
  <2> QED BY <1>3, <2>2, <2>4, <2>5, <2>6 DEF GradeInv
<1> QED BY <1>2, <1>5, <1>6

-----------------------------------------------------------------------------
(* Every step keeps the inductive invariant. *)
LEMMA GradeNext == GradeInv /\ [Next]_vars => GradeInv'
  BY QemuInv, WaitInv, GdbInv, StartChunkInv, MonitoredChunkInv DEF Next, Run

(* Every run of the harness keeps it. *)
THEOREM GradeInvariance == Spec => []GradeInv
<1> QED BY GradeInit, GradeNext, PTL DEF Spec

(***************************************************************************)
(* However the output is cut into chunks, and whichever line ends the test *)
(* with an exception, a monitor that was set is given what was read since, *)
(* each line once and in order; but for a save() behind stop_on_line(),    *)
(* once a line has stopped the test.                                       *)
(***************************************************************************)
THEOREM MonitorsSeeAll == Spec => []MonitorsSeeOutput
<1>1. GradeInv => MonitorsSeeOutput
  BY DEF GradeInv, Seen, MonitorsSeeOutput
<1> QED BY GradeInvariance, <1>1, PTL

(***************************************************************************)
(* A test that its breakpoint ended has all of QEMU's output, although the *)
(* packet overtook it, unless the shutdown took too long or a line of the  *)
(* rest stopped it.                                                        *)
(***************************************************************************)
THEOREM BreakpointHasAll == Spec => []BreakpointOutput
<1>1. ASSUME GradeInv
      PROVE  BreakpointOutput
  <2> SUFFICES ASSUME at = "returned", why = "breakpoint", cut \notin {"timeout", "line"}
               PROVE  output = written
    BY DEF BreakpointOutput
  <2>1. pipe = << >> /\ output \in Texts /\ output \o pipe = written
    BY <1>1 DEF GradeInv, Types, ReadOnce
  <2> QED BY <2>1, Joined, Zenon
<1> QED BY GradeInvariance, <1>1, PTL
=============================================================================
