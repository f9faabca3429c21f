------------------------------ MODULE Backtrace ------------------------------
(***************************************************************************)
(* The stack of the kernel and the walk over it: i386_init() calls         *)
(* test_backtrace() of kern/init.c and then the monitor, and both call     *)
(* mon_backtrace() of kern/monitor.c, which follows the saved frame        *)
(* pointers and asks debuginfo_eip() whose code each return address is in. *)
(* Addresses are those of words; the stack is kept as compiled code does,  *)
(* and `calls' records the calls that are in progress.                     *)
(***************************************************************************)
EXTENDS Kdebug, Sequences

CONSTANTS
  KernelTable,    \* the table of the kernel that runs; its functions have names
  Symbols,        \* its functions: [start, name]
  Ret,            \* for each call in the code, the address it returns to
  Depth,          \* what test_backtrace() is first called with (5)
  StackTop,       \* bootstacktop
  BootFrame,      \* bootmain()'s frame, below the kernel's stack
  BootRet,        \* and the address it returns to, in the boot sector
  MaxCommands,    \* backtraces that are typed at the monitor
  NameSize        \* bytes of func_name

(* The words above bootstacktop are data: five of them may be printed. *)
Words == 0 .. StackTop + 4

(* The function each call returns into; the first is made by entry.S. *)
Caller ==
  [site \in DOMAIN Ret |->
     CASE site \in {"init_test", "init_monitor"} -> "i386_init"
       [] site \in {"test_test", "test_trace"}   -> "test_backtrace"
       [] site = "monitor_runcmd"                -> "monitor"
       [] site = "runcmd_func"                   -> "runcmd"
       [] site = "entry"                         -> "entry"]

ASSUME StackAssumption ==
  /\ Depth \in Nat
  /\ StackTop \in Nat /\ BootFrame \in 0 .. StackTop - 8
  /\ StackTop >= 24 /\ StackTop >= 4 * Depth + 19    \* KSTKSIZE is enough
  /\ BootRet < ULIM

(* Each call returns to an address of its own, in the kernel. *)
ASSUME RetAssumption ==
  /\ DOMAIN Ret = {"entry", "init_test", "init_monitor", "test_test", "test_trace",
                   "monitor_runcmd", "runcmd_func"}
  /\ \A site \in DOMAIN Ret : Ret[site] \in Nat /\ Ret[site] >= ULIM
  /\ \A site, other \in DOMAIN Ret : Ret[site] = Ret[other] => site = other

(* What stands before the colon, and the terminator of a string. *)
UpToColon(text) == Min({k \in 1 .. Len(text) : text[k] = ":"} \cup {Len(text) + 1}) - 1
NUL == "nul"
Unknown == << "<", "u", ">" >>

(***************************************************************************)
(* The table has the functions of the kernel, and none for the file of     *)
(* entry.S.  Their names fit in func_name with the terminator.             *)
(***************************************************************************)
Fits(text) == /\ text \in Seq(Range(text)) /\ NUL \notin Range(text)
              /\ Len(text) < NameSize

ASSUME NamesAssumption ==
  /\ IsKernelTable(KernelTable) /\ KernelTable \notin BadStrings
  /\ NameSize \in Nat /\ Fits(Unknown)
  /\ \A f \in File(KernelTable, Ret["entry"]) : Functions(KernelTable, f) = {}
  /\ \A site \in DOMAIN Ret \ {"entry"} :
       \E f \in File(KernelTable, Ret[site]) :
       \E fn \in LastBelow(KernelTable, Functions(KernelTable, f), Ret[site]) :
         LET caller == Symbols[Caller[site]]
             text   == KernelTable[fn].name
         IN /\ Fits(caller.name) /\ Len(caller.name) = UpToColon(text)
            /\ \A k \in 1 .. Len(caller.name) : caller.name[k] = text[k]
            /\ KernelTable[fn].value = caller.start

VARIABLES
  stack, esp, ebp,   \* the memory the stack is in, and the two registers
  pos,               \* the function entered, the call returned from, or the point in mon_backtrace()
  typed,             \* commands so far
  walk,              \* mon_backtrace()'s ebp
  func_name,         \* and its buffer
  trace,             \* the lines it has printed
  calls              \* the calls in progress, the latest first

frame == << stack, esp, ebp, calls >>
shown == << walk, func_name, trace >>
bvars == << kvars, frame, pos, typed, shown >>

-----------------------------------------------------------------------------
(***************************************************************************)
(* A call from `site': the arguments are pushed, the return address, and   *)
(* by the callee the frame pointer; room for the locals follows.           *)
(***************************************************************************)
Locals(f) == IF f = "mon_backtrace" THEN 7 ELSE 1

PushCall(f, params, site, top, saved) ==
  LET fp == top - Len(params) - 2
  IN /\ stack' = [a \in Words |-> CASE a = fp     -> saved
                                    [] a = fp + 1 -> Ret[site]
                                    [] a \in fp + 2 .. top - 1 -> params[a - fp - 1]
                                    [] OTHER      -> stack[a]]
     /\ ebp' = fp
     /\ esp' = fp - Locals(f)
     /\ calls' = << [fn |-> f, fp |-> fp, ret |-> Ret[site], args |-> params] >> \o calls
     /\ pos' = f

CallWith(f, params, site) == PushCall(f, params, site, esp, ebp)

(* A return: leave, ret, and the caller drops the arguments. *)
Leave ==
  /\ ebp' = stack[ebp]
  /\ esp' = ebp + 2 + Len(Head(calls).args)
  /\ pos' = CHOOSE site \in DOMAIN Ret : Ret[site] = stack[ebp + 1]
  /\ calls' = Tail(calls)
  /\ UNCHANGED stack

-----------------------------------------------------------------------------
(* Mutant: entry.S does not clear ebp. *)
EntryKeepsEbp ==
  /\ pos = "entry"
  /\ PushCall("i386_init", << >>, "entry", StackTop, ebp)
  /\ UNCHANGED << kvars, typed, shown >>

(* entry.S: ebp is cleared, esp set, i386_init() called. *)
EntryCalls ==
  /\ pos = "entry"
  /\ PushCall("i386_init", << >>, "entry", StackTop, 0)
  /\ UNCHANGED << kvars, typed, shown >>

i386_init ==
  /\ pos = "i386_init"
  /\ CallWith("test_backtrace", << Depth >>, "init_test")
  /\ UNCHANGED << kvars, typed, shown >>

(* while (1) monitor(NULL) *)
EnterMonitor ==
  /\ pos \in {"init_test", "init_monitor"}
  /\ CallWith("monitor", << 0 >>, "init_monitor")
  /\ UNCHANGED << kvars, typed, shown >>

x == stack[ebp + 2]

TestAgain ==
  /\ pos = "test_backtrace" /\ x > 0
  /\ CallWith("test_backtrace", << x - 1 >>, "test_test")
  /\ UNCHANGED << kvars, typed, shown >>

TestTrace ==
  /\ pos = "test_backtrace" /\ x <= 0
  /\ CallWith("mon_backtrace", << 0, 0, 0 >>, "test_trace")
  /\ UNCHANGED << kvars, typed, shown >>

(* Back from the call: test_backtrace() and runcmd() return. *)
LeaveCaller ==
  /\ pos \in {"test_test", "test_trace", "runcmd_func"}
  /\ Leave
  /\ UNCHANGED << kvars, typed, shown >>

(* The monitor reads a line that says "backtrace", and runs it. *)
Command ==
  /\ pos \in {"monitor", "monitor_runcmd"} /\ typed < MaxCommands
  /\ typed' = typed + 1
  /\ CallWith("runcmd", << 1, 0 >>, "monitor_runcmd")
  /\ UNCHANGED << kvars, shown >>

runcmd ==
  /\ pos = "runcmd"
  /\ CallWith("mon_backtrace", << 1, 1, 0 >>, "runcmd_func")
  /\ UNCHANGED << kvars, typed, shown >>

-----------------------------------------------------------------------------
(***************************************************************************)
(* mon_backtrace(): its own frame is found from the address of a local.    *)
(***************************************************************************)
temp == ebp - 7

StartWalk ==
  /\ pos = "mon_backtrace"
  /\ walk' = temp + 7
  /\ trace' = << >>
  /\ pos' = "ask"
  /\ UNCHANGED << kvars, frame, typed, func_name >>

Ask ==
  /\ pos = "ask"
  /\ Called(stack[walk + 1])
  /\ pos' = "asked"
  /\ UNCHANGED << frame, typed, shown >>

Debuginfo == KNext /\ UNCHANGED << frame, pos, typed, shown >>

(* What was found; without a function, the address stands for its start.   *)
(* The name ends where the stab's string has a colon.                      *)
eip_fn_name == IF info.fn = None THEN Unknown ELSE stabs[info.fn].name
eip_fn_addr == IF info.fn = None THEN eip ELSE stabs[info.fn].value
eip_fn_namelen == UpToColon(eip_fn_name)

(* Mutant: the name is not terminated. *)
UnterminatedName ==
  [k \in 1 .. NameSize |-> IF k <= eip_fn_namelen THEN eip_fn_name[k] ELSE func_name[k]]

(* strncpy() of the name, and the terminator behind it. *)
CopiedName ==
  [k \in 1 .. NameSize |-> IF k <= eip_fn_namelen THEN eip_fn_name[k]
                           ELSE IF k = eip_fn_namelen + 1 THEN NUL
                           ELSE func_name[k]]

(* What "%s" prints of a buffer. *)
AsString(buf) ==
  SubSeq(buf, 1, Min({k \in 1 .. Len(buf) : buf[k] = NUL} \cup {Len(buf) + 1}) - 1)

(* One turn of the loop is printed; a cleared frame pointer is the last.   *)
(* What debuginfo_eip() returned is not looked at.                         *)
PrintFrame ==
  /\ pos = "asked" /\ stage = "returned"
  /\ func_name' = CopiedName
  /\ trace' = Append(trace, [fp   |-> walk, eip |-> stack[walk + 1],
                             args |-> [k \in 1 .. 5 |-> stack[walk + 1 + k]],
                             name |-> AsString(CopiedName),
                             line |-> info.line, off |-> eip - eip_fn_addr + 1])
  /\ IF stack[walk] = 0
     THEN pos' = "traced" /\ UNCHANGED walk
     ELSE pos' = "ask" /\ walk' = stack[walk]
  /\ UNCHANGED << kvars, frame, typed >>

LeaveTrace ==
  /\ pos = "traced"
  /\ Leave
  /\ UNCHANGED << kvars, typed, shown >>

-----------------------------------------------------------------------------
NoStack ==
  /\ stack = [a \in Words |-> IF a = BootFrame + 1 THEN BootRet ELSE 0]
  /\ esp = BootFrame /\ ebp = BootFrame
  /\ typed = 0 /\ walk = 0
  /\ func_name = [k \in 1 .. NameSize |-> "?"]
  /\ trace = << >> /\ calls = << >>

(* The kernel starts, with the frame pointer the boot loader left; or one  *)
(* of the two functions of kern/kdebug.c is called on its own.             *)
BInit ==
  /\ NoStack
  /\ \/ Idle(KernelTable) /\ NoLookup /\ eip = 0 /\ stage = "idle" /\ pos = "entry"
     \/ KInit /\ pos = "alone"
     \/ Init /\ NoLookup /\ eip = 0 /\ stage = "idle" /\ pos = "alone"

BNext ==
  \/ EntryCalls \/ i386_init \/ EnterMonitor \/ Command \/ runcmd
  \/ TestAgain \/ TestTrace \/ LeaveCaller
  \/ StartWalk \/ Ask \/ Debuginfo \/ PrintFrame \/ LeaveTrace

(* A search, once called, runs on. *)
BSpec == BInit /\ [][BNext]_bvars /\ WF_bvars(Debuginfo)

-----------------------------------------------------------------------------
(* A line of the trace is right about its call and what it was called from. *)
LineOf(k) ==
  /\ trace[k].fp = calls[k].fp
  /\ trace[k].eip = calls[k].ret
  /\ \A j \in 1 .. Len(calls[k].args) : trace[k].args[j] = calls[k].args[j]
  /\ IF k = Len(calls)
     THEN trace[k].name = Unknown
     ELSE LET caller == Symbols[calls[k + 1].fn]
          IN /\ trace[k].name = caller.name
             /\ caller.start + trace[k].off - 1 = calls[k].ret

(***************************************************************************)
(* The trace is that of the calls in progress, from mon_backtrace() up to  *)
(* i386_init(): each with its frame, its return address, its arguments,    *)
(* the whole name of its caller and no tail of a longer one before it, and *)
(* the place in the caller.  entry.S, which calls the first, has no name.  *)
(***************************************************************************)
TraceIsCalls ==
  pos = "traced" =>
    Len(trace) = Len(calls) /\ \A k \in 1 .. Len(calls) : LineOf(k)

(***************************************************************************)
(* A walk over the kernel's stack asks about kernel addresses only: it     *)
(* stops before the frames of the boot loader, whose code debuginfo_eip()  *)
(* would panic about.                                                      *)
(***************************************************************************)
NeverPanics == pos # "alone" => stage # "panicked"
=============================================================================
