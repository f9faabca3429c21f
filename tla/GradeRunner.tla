----------------------------- MODULE GradeRunner -----------------------------
(***************************************************************************)
(* Runner.run_qemu() of gradelib.py: start QEMU and connect to its gdb     *)
(* stub; let the kernel run until a monitor stops the test, everything is  *)
(* closed or the time is up; shut QEMU down.  Each of the three parts is a *)
(* call of __react(), which selects on QEMU's output and the gdb socket.   *)
(* The monitors are save() and stop_on_line(), and a gdb breakpoint.       *)
(***************************************************************************)
EXTENDS Integers, SequencesExt

CONSTANTS
  ReadSize,     \* what os.read() takes at once (4096)
  MaxOut        \* bound: how much QEMU writes

ASSUME BoundsAssumption == ReadSize \in Nat \ {0} /\ MaxOut \in Nat

VARIABLES
  at,           \* "loop", "handle", "waiting", "returned" or "exited"
  phase,        \* "start", "main" or "shutdown"
  late,         \* has __react()'s deadline passed?
  rset,         \* the reactors this turn has still to handle
  proc,         \* is there a process that has not been waited for?
  output,       \* what was read
  saved, buf, lines,  \* save()'s file; stop_on_line()'s rest, and its lines so far
  saveFirst,    \* is save() called before stop_on_line()?
  hooks,        \* those of the two that are among the callbacks
  gdb,          \* the client: "none", "open" or "closed"
  alive, running, halted, killed,   \* QEMU
  pipe, sock,   \* its output and its gdb packets, on their way
  written, began, why, cut          \* what it wrote; what was read before the monitors were set;
                                    \* why the main part, and why the shutdown, came to an end

reading  == << output, saved, buf, lines >>
qemu     == << alive, running, halted, killed, written >>
history  == << began, why, cut >>
setup    == << saveFirst, hooks >>
vars == << at, phase, late, rset, proc, reading, setup, gdb, qemu, pipe, sock, history >>

NL == "newline"
Stop == "stop"     \* a line with this in it matches stop_on_line()'s expression

-----------------------------------------------------------------------------
(***************************************************************************)
(* QEMU, under make.  The kernel waits for gdb to let it run; what is      *)
(* written before that is make's.  At the breakpoint it stops, and tells.  *)
(***************************************************************************)
QemuWrites ==
  /\ alive /\ ~halted /\ Len(written) < MaxOut
  /\ \E x \in {"text", NL} \cup (IF running THEN {Stop} ELSE {}) :
       /\ written' = Append(written, x)
       /\ pipe' = Append(pipe, x)
  /\ UNCHANGED << at, phase, late, rset, proc, reading, setup, gdb, alive, running, halted, killed,
                  sock, history >>

(* A packet may come in two parts. *)
AtBreakpoint ==
  /\ alive /\ running /\ ~halted
  /\ halted' = TRUE
  /\ sock' = sock \o << "T0", "5" >>
  /\ UNCHANGED << at, phase, late, rset, proc, reading, setup, gdb, alive, running, killed, written,
                  pipe, history >>

QemuExits ==
  /\ alive
  /\ alive' = FALSE
  /\ UNCHANGED << at, phase, late, rset, proc, reading, setup, gdb, running, halted, killed, written,
                  pipe, sock, history >>

DeadlinePasses ==
  /\ ~late /\ at \in {"loop", "handle"}
  /\ late' = TRUE
  /\ UNCHANGED << at, phase, rset, proc, reading, setup, gdb, qemu, pipe, sock, history >>

-----------------------------------------------------------------------------
Monitors == {"save", "stop_on_line"}

(* The callbacks there are when the loop over the monitors breaks off. *)
SetBefore == {{}, {IF saveFirst THEN "save" ELSE "stop_on_line"}, Monitors}

(***************************************************************************)
(* __react() is over for a reason.  After the start, without a client: the *)
(* program exits.  With one, the monitors are set and the kernel let go.   *)
(***************************************************************************)
NotStarted ==
  /\ at' = "exited"
  /\ UNCHANGED << phase, running, killed, began, why, hooks >>

LetGo ==
  /\ at' = "loop" /\ phase' = "main"
  /\ hooks' = Monitors /\ began' = Len(output')
  /\ running' = TRUE
  /\ UNCHANGED << killed, why >>

(* gdb.breakpoint(), its symbol or gdb.cont() fails: straight to `finally'. *)
SetUpFails ==
  /\ at' = "loop" /\ phase' = "shutdown" /\ why' = "error"
  /\ hooks' \in SetBefore /\ began' = Len(output')
  /\ killed' = proc
  /\ UNCHANGED running

StartOver(client) ==
  /\ late' = FALSE /\ rset' = {}
  /\ \/ client = "none" /\ NotStarted
     \/ client = "open" /\ (LetGo \/ SetUpFails)
  /\ UNCHANGED << alive, halted, written, cut >>

(* Mutant: what is left of the output is not read. *)
MainOverAtOnce(reason) ==
  /\ late' = FALSE /\ rset' = {}
  /\ at' = "waiting" /\ phase' = "shutdown" /\ why' = reason
  /\ killed' = proc
  /\ UNCHANGED << alive, running, halted, written, began, cut, hooks >>

(* After the main part: kill QEMU if there is one still, and react again. *)
MainOver(reason) ==
  /\ late' = FALSE /\ rset' = {}
  /\ at' = "loop" /\ phase' = "shutdown" /\ why' = reason
  /\ killed' = proc
  /\ UNCHANGED << alive, running, halted, written, began, cut, hooks >>

ShutdownOver(reason) ==
  /\ late' = FALSE /\ rset' = {}
  /\ at' = "waiting" /\ cut' = reason
  /\ UNCHANGED << phase, qemu, began, why, hooks >>

ReactOver(reason, client) ==
  \/ phase = "start" /\ StartOver(client) /\ gdb' = client
  \/ phase = "main" /\ MainOver(reason) /\ gdb' = client
  \/ phase = "shutdown" /\ ShutdownOver(reason) /\ gdb' = "closed"

(* One of the reactors has been handled. *)
GoOn(r) ==
  /\ rset' = rset \ {r}
  /\ at' = IF rset = {r} THEN "loop" ELSE "handle"
  /\ UNCHANGED << phase, late, qemu, history, hooks >>

(* Those whose fileno() is not None. *)
Reactors == {r \in {"qemu", "gdb"} :
               IF r = "qemu" THEN proc ELSE phase # "start" /\ gdb = "open"}

Ready(r) == ~alive \/ (IF r = "qemu" THEN pipe # << >> ELSE sock # << >>)

TimedOut ==
  /\ at = "loop" /\ late
  /\ ReactOver("timeout", gdb)
  /\ UNCHANGED << proc, reading, saveFirst, pipe, sock >>

AllClosed ==
  /\ at = "loop" /\ ~late /\ Reactors = {}
  /\ ReactOver("closed", gdb)
  /\ UNCHANGED << proc, reading, saveFirst, pipe, sock >>

(* select() waits for one that is ready; they are handled in their order. *)
Select ==
  /\ at = "loop" /\ ~late
  /\ \E r \in Reactors : Ready(r)
  /\ rset' = {r \in Reactors : Ready(r)}
  /\ at' = "handle"
  /\ UNCHANGED << phase, late, proc, reading, setup, gdb, qemu, pipe, sock, history >>

-----------------------------------------------------------------------------
(* What a read of the pipe yields: nothing at its end. *)
Chunk == SubSeq(pipe, 1, IF Len(pipe) < ReadSize THEN Len(pipe) ELSE ReadSize)

AtQemu == at = "handle" /\ "qemu" \in rset

ReadChunk == /\ output' = output \o Chunk
             /\ pipe' = SubSeq(pipe, Len(Chunk) + 1, Len(pipe))

(* At the end of the output, wait() collects the process. *)
NoStop == /\ proc' = (Chunk # << >>)
          /\ GoOn("qemu")
          /\ UNCHANGED gdb

(***************************************************************************)
(* __monitor_start(): with a line there, the stub may be up.  A connection *)
(* or the end of the output ends the wait.                                 *)
(***************************************************************************)
StartChunk ==
  /\ AtQemu /\ phase = "start"
  /\ ReadChunk
  /\ \/ Contains(Chunk, NL) /\ alive /\ ReactOver("stop", "open") /\ UNCHANGED proc
     \/ Chunk = << >> /\ ReactOver("stop", gdb) /\ UNCHANGED proc
     \/ Chunk # << >> /\ NoStop
  /\ UNCHANGED << saved, buf, lines, saveFirst, sock >>

(* The lines that are complete in b, and what is behind the k-th of them. *)
Ends(b) == {k \in 1 .. Len(b) : b[k] = NL}
Rest(b, k) == SubSeq(b, k + 1, Len(b))
LinesUpTo(b, k) == SubSeq(b, 1, k)
Matches(b, k) == \E j \in 1 .. k : b[j] = Stop /\ \A i \in j .. k - 1 : b[i] # NL
StopEnds(b) == {k \in Ends(b) : Matches(b, k)}

(* Mutant: lines are taken out of the buffer after the callbacks, of which *)
(* one raised an exception.                                                *)
FirstStopKept(b) ==
  LET k == CHOOSE e \in StopEnds(b) : \A o \in StopEnds(b) : e <= o
  IN /\ lines' = lines \o LinesUpTo(b, k)
     /\ buf' = b

(* The lines are taken out one by one, as far as the first that matches. *)
FirstStop(b) ==
  LET k == CHOOSE e \in StopEnds(b) : \A o \in StopEnds(b) : e <= o
  IN /\ lines' = lines \o LinesUpTo(b, k)
     /\ buf' = Rest(b, k)

AllLines(b) ==
  LET k == CHOOSE e \in Ends(b) \cup {0} : \A o \in Ends(b) : o <= e
  IN /\ lines' = lines \o LinesUpTo(b, k)
     /\ buf' = Rest(b, k)

(* A line that stops the test keeps those behind from seeing the chunk. *)
Stops(b) ==
  /\ "stop_on_line" \in hooks /\ StopEnds(b) # {}
  /\ FirstStop(b)
  /\ saved' = IF "save" \in hooks /\ saveFirst THEN saved \o Chunk ELSE saved
  /\ ReactOver("line", gdb)
  /\ UNCHANGED proc

GoesOn(b) ==
  /\ "stop_on_line" \notin hooks \/ StopEnds(b) = {}
  /\ IF "stop_on_line" \in hooks THEN AllLines(b) ELSE UNCHANGED << lines, buf >>
  /\ saved' = IF "save" \in hooks THEN saved \o Chunk ELSE saved
  /\ NoStop

(* handle_read(): the chunk is in `output' before the callbacks see it, in *)
(* the order in which they were set.                                       *)
MonitoredChunk ==
  /\ AtQemu /\ phase # "start"
  /\ ReadChunk
  /\ Stops(buf \o Chunk) \/ GoesOn(buf \o Chunk)
  /\ UNCHANGED << saveFirst, sock >>

(* What recv() yields is what has come so far; the packet counts when it   *)
(* is complete.  A socket that QEMU has closed is closed here as well.     *)
GdbData ==
  /\ at = "handle" /\ rset = {"gdb"}
  /\ \E k \in (IF sock = << >> THEN {0} ELSE 1 .. Len(sock)) :
       /\ sock' = SubSeq(sock, k + 1, Len(sock))
       /\ \/ k > 0 /\ sock[k] = "5" /\ ReactOver("breakpoint", gdb)
          \/ k > 0 /\ sock[k] # "5" /\ GoOn("gdb") /\ UNCHANGED gdb
          \/ k = 0 /\ GoOn("gdb") /\ gdb' = "closed"
  /\ UNCHANGED << proc, reading, saveFirst, pipe >>

(* Mutant: the process is not waited for. *)
NoWait ==
  /\ at = "waiting"
  /\ at' = "returned"
  /\ UNCHANGED << phase, late, rset, proc, reading, setup, gdb, qemu, pipe, sock, history >>

(* The last wait(): until QEMU has gone, if that was not seen before. *)
Wait ==
  /\ at = "waiting"
  /\ proc => ~alive
  /\ proc' = FALSE
  /\ at' = "returned"
  /\ UNCHANGED << phase, late, rset, reading, setup, gdb, qemu, pipe, sock, history >>

-----------------------------------------------------------------------------
Init ==
  /\ at = "loop" /\ phase = "start" /\ late = FALSE /\ rset = {}
  /\ proc = TRUE
  /\ output = << >> /\ saved = << >> /\ buf = << >> /\ lines = << >>
  /\ saveFirst \in BOOLEAN /\ hooks = {}
  /\ gdb = "none"
  /\ alive = TRUE /\ running = FALSE /\ halted = FALSE /\ killed = FALSE
  /\ pipe = << >> /\ sock = << >>
  /\ written = << >> /\ began = 0 /\ why = "none" /\ cut = "none"

Run == \/ TimedOut \/ AllClosed \/ Select
       \/ StartChunk \/ MonitoredChunk \/ GdbData \/ Wait

Next == Run \/ QemuWrites \/ AtBreakpoint \/ QemuExits \/ DeadlinePasses

(* The program goes on, time passes, and QEMU ends when it is told to. *)
Spec == Init /\ [][Next]_vars
             /\ WF_vars(Run) /\ WF_vars(DeadlinePasses) /\ WF_vars(killed /\ QemuExits)

-----------------------------------------------------------------------------
Monitored == SubSeq(output, began + 1, Len(output))

(***************************************************************************)
(* A monitor that was set is given all that was read since, each line once *)
(* and in order, however the output was cut into chunks and whichever of   *)
(* the lines raised an exception; only a line that stops the test keeps    *)
(* the rest of its chunk, and only from a save() that comes behind it.     *)
(***************************************************************************)
MonitorsSeeOutput ==
  /\ output \o pipe = written
  /\ "stop_on_line" \in hooks => lines \o buf = Monitored
  /\ "save" \in hooks /\ (saveFirst \/ "line" \notin {why, cut}) => saved = Monitored

(***************************************************************************)
(* A test that came to its breakpoint finds in `output' everything that    *)
(* the kernel wrote before it, although the packet overtakes the output:   *)
(* the shutdown reads on to the end, unless it takes too long or a line of *)
(* the rest stops it.                                                      *)
(***************************************************************************)
BreakpointOutput ==
  at = "returned" /\ why = "breakpoint" /\ cut \notin {"timeout", "line"} =>
    output = written

(* The run ends, and when it returns QEMU has been waited for. *)
EndsReaped == <>(at = "exited" \/ (at = "returned" /\ ~proc /\ ~alive))
=============================================================================
