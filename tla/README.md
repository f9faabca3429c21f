# JOS, lab 1: a TLA+ model of the kernel, its start-up, its library and its grading harness

This directory is a verification project for the JOS kernel of this repository
(MIT 6.828, lab 1): TLA+ modules translated from its C, assembly and Python code, TLC
configurations that check them on small instances, and TLAPS proofs for all values of
the constants. Line numbers below are those of the files under `src/`.

## 1. The system

JOS lab 1 is a kernel that boots from a disk, prints to a console, and reads
commands in a monitor. There is one thread of control. `boot.S` clears the
interrupt flag and nothing sets it again, so nothing in the kernel is ever
interrupted: **all concurrency is between the kernel and its devices**, which
act on their own between any two of its reads of their registers.

| component | state | operations | talks to | hard behaviour |
|---|---|---|---|---|
| keyboard decoder (`kern/console.c` 214-365) | the static `shift` (modifiers, locks, the `E0ESC` prefix flag) | `kbd_proc_data()`, a byte at a time | the keyboard controller; `cons_intr()` calls it | bytes seen late; events dropped by the keyboard; two keys with one code; a reboot by key |
| console input (`kern/console.c` lines 49-64, 78-104, 367-431) | `cons.buf, rpos, wpos`; `serial_exists` | `cons_intr()`, `serial_intr()`, `kbd_intr()`, `cons_getc()`, `getchar()`, `cons_init()` | UART, keyboard controller, decoder; `readline()` calls `getchar()` | arrivals in the middle of a poll; a full buffer; a missing port; a mouse; a reset in the middle of a poll |
| console output (`kern/console.c` 65-76, 107-211, 432-439; `kern/printf.c`) | `crt_buf`, `crt_pos` | `cons_putc()`: `serial_putc()`, `lpt_putc()`, `cga_putc()` | UART, printer, display | bounded waits for slow or dead devices; `cga_putc('\t')` calls `cons_putc()` again; wrapping and scrolling |
| line editor (`lib/readline.c`) | the static `buf`, `i` | `readline()` | `getchar()`, `cputchar()`, `cprintf()` | buffer and echo are changed by different code |
| kernel debugging information (`kern/kdebug.c`, `inc/stab.h`) | the stab table (constant), locals of a search | `stab_binsearch()`, `debuginfo_eip()` | called by the backtrace | a binary search among entries of other types; one search runs in the region of another |
| boot loader (`boot/main.c`) | memory; locals of `readseg()` | `bootmain()`, `readseg()`, `readsect()`, `waitdisk()` | the IDE disk; enters the kernel | asynchronous disk; more is written than asked; headers read again from memory that is being written |
| mode switch, boot sector (`boot/boot.S`, `boot/sign.pl`) | processor state, address line 20 | straight line | the keyboard controller; enters `bootmain()` | two waits for the controller, and none for what it does last |
| kernel start (`kern/entry.S`, `kern/entrypgdir.c`, `kern/init.c`) | page directory and table, stack, `panicstr` | `i386_init()`, `_panic()`, `_warn()` | everything | two mappings around a jump; a panic inside a panic |
| monitor (`kern/monitor.c`) | none across calls | `monitor()`, `runcmd()`, `mon_help()`, `mon_kerninfo()`, `mon_backtrace()` | `readline()`, `cprintf()`, `debuginfo_eip()` | splitting a line in place; the walk over frames; a bounded name buffer |
| formatted output (`lib/printfmt.c`, `kern/printf.c`) | cursor in the format | `vprintfmt()`, `printnum()`, `snprintf()` | a `putch` callback | width, precision, flags; counting versus storing |
| string library (`lib/string.c`) | memory regions | `memmove()`, `memset()`, `strlcpy()`, `strtol()`, ... | everyone | overlap, bounds, signs |
| grading harness (`gradelib.py`, `grade-lab1`) | sockets, a reactor, deadlines | `run_qemu()` | QEMU and its debug stub | a timeout racing with an event |
| page conversation (`user/sendpage.c`) | a shared page | `umain()` | `fork`, `ipc_send`, `ipc_recv` (not in this repository) | two processes on one page |

The rest (`fs/test.c`, the headers, the build files) is data, or a straight line
of calls into code that is not here.

What makes each of them correct:

- *decoder*: at each moment the modifier bits say what the keys the driver has
  read about say; a prefix colours exactly one code; a reboot needs
  Ctrl, Alt and Del; a character belongs to the key that was pressed.
- *console input*: a FIFO queue of what the devices delivered, the keys decoded; 0
  means that nothing waits, neither in the buffer nor, since the call, in a device;
  `cons_getc()` returns, and what waits is taken out.
- *console output*: each device gets each character once and in order unless it
  is late, the screen gets all of them, and no dead device hangs the kernel.
- *line editor*: what is returned is what was typed less what was erased, and is what
  you see; nothing outside the line is touched; the string is terminated inside the
  buffer.
- *monitor*: a command gets the words of the line as typed, neither the buffer nor
  `argv` is left, and the command that runs is the one that was named.
- *formatted output*: each escape prints its own argument by its own flags, as the
  comments say what these mean; a
  buffer is never overrun and the count is that of what would have been stored.
- *debugging information*: the entries found are those that cover the address;
  no search leaves its region; the searches end.
- *boot loader*: when the kernel is entered, each byte of it is where its
  headers say; nothing else is overwritten; data are read only when the disk has
  them.
- *mode switch and kernel start*: whatever line 20 and the page tables do to an
  address, the next instruction is the one that was meant and each store lands
  where it was meant; no access faults.
- *backtrace*: the trace is that of the calls in progress, to the first and no
  further.
- *string library*: a copy is a copy however the regions overlap; no count and no
  terminator is passed; a number is read to its end in its base.
- *grading harness*: the tests see the whole output once, however it was cut and
  whatever raced with it, in whatever order the monitors were set, and QEMU does not
  outlive a run.

## 2. The modules

| module | models | proofs |
|---|---|---|
| `KeyMap` | the key tables and `kbd_proc_data()`'s decoding, as the operator `Scan(shift, byte)`, and its static variable `shift` | `InputProof` has the lemmas |
| `Keyboard` | the decoder against a keyboard with physical keys | `InputProof` |
| `CharQueue` | **abstract**: what callers may expect of console input: which bytes of which device come out, in what order, and when 0 | |
| `ConsoleInput` | the circular buffer, its polling, the devices, the reset; refines `CharQueue` | `InputProof` |
| `Cga` | `cga_putc()` on a screen of any size, as the operator `CgaPut(screen, c)` | `DisplayProof` has the lemmas |
| `Readline` | the line editor on that screen | `DisplayProof` |
| `ConsoleOutput` | `cons_putc()` over three devices | `DisplayProof` |
| `Monitor` | `monitor()` and `runcmd()`: a line split in place and looked up | `MonitorProof` |
| `PrintFmt` | `vprintfmt()`, a character of the format a step, in `vsnprintf()` | `PrintFmtProof` |
| `Directives` | **reference**: what a format means, said of the directives it is written from and not of a walk over its characters | `PrintFmtProof` |
| `Stab` | `stab_binsearch()`, a round of its loop a step | `BacktraceProof` |
| `Kdebug` | `debuginfo_eip()` as three searches of `Stab` | `BacktraceProof` |
| `Backtrace` | the stack from `entry.S` through `test_backtrace()` and the monitor to `mon_backtrace()`, which walks it and calls `debuginfo_eip()` | `BacktraceProof` |
| `BootLoader` | `bootmain()` to the clearing of the BSS, with the disk | `StartupProof` |
| `Startup` | `boot.S`, `bootmain()`, `entry.S` with its page tables in memory, and the clearing of the BSS, with controller and disk; refines `BootLoader` | `StartupProof` |
| `Strings` | every function of `string.c`, a turn of a loop a step | `StringsProof` |
| `GradeRunner` | `run_qemu()` and its reactor, with QEMU and the clock | `GradeRunnerProof` |
| `MC...` | values for the constants. `MCTyping` and `MCPrinting` put two modules that share no state side by side, a behaviour being one of either (`part`) | |

Composition: `Keyboard` and `ConsoleInput` share the decoder and its `shift` through `KeyMap`;
`Readline` and `ConsoleOutput` share the screen through `Cga`; `Kdebug` runs
`Stab`'s next-state relation as its step of a search in progress, and `Backtrace`
runs `Kdebug`'s as its call of `debuginfo_eip()`. `Startup` extends `BootLoader`:
each of its steps of `bootmain()` is a step of `BootLoader` together with what
the machine makes of it.
Each module lists, next to the definition they change, the *mutants*: changed
forms of a definition, each the way a plausible bug of that code would change
it. `PROJECT.json` says which property each must break under which run.

### How state and actions correspond to the code

- **ConsoleInput.** `buf, rpos, wpos` are the fields of `cons`; `shift` and
  `serial_exists` are the variables of those names. `pc` is where the one thread
  is: `idle` (outside `cons_getc()`), `serial` and `kbd` (in the loop of
  `cons_intr()` with that device's `proc`), `grab` (the end of `cons_getc()`),
  `reset` (port 0x92 was written and the machine has not yet reset), `boot`.
  Each call of a `proc` is one step together with the store it leads to
  (`SerialRead`, `KbdRead`), as it must be: the device can act only between two
  reads of its registers. `uart`, `rx`, `kbc` are devices: a port that may not
  exist (a missing one reads 0xFF everywhere, hence *data ready* for ever), a
  receive register of one byte that overruns, and the controller's one queue for
  keyboard and mouse. `got` is the last result of `cons_getc()`; `getchar()` is
  `CallGetc` again and again. `owedRx` and `owedKbc`, history, count the bytes that the
  devices had when the call began and that it has not brought in yet.
- **CharQueue.** It sees the same two devices (`serial`, `keys`) and the same decoder,
  but one sequence, `waiting`. A character gets there from a device only
  (`SerialGives`, `KeyGives`), as that device's byte decoded by `Scan`, and leaves by
  `Take` only, as long as there is no reset; a call ends (`Take`, `TakeNone`) only when it
  owes nothing, with 0 only when nothing waits; and `Reset` comes only after
  a Ctrl-Alt-Del was read.
- **Keyboard.** `down` are the keys held, `wire` the events that the driver has not
  read, `mid` whether the prefix of the first one was read, `seen` what is held
  according to the events read. `Send` drops an event when there is no room.
  `ReadPrefix` and `ReadCode` are the calls of `kbd_proc_data()`, one byte each.
- **Readline.** A key is an action: `Erase`, `Store`, `Enter`, `Ignore` are the
  arms of the loop, with their calls of `cputchar()` in them. `Cprintf` is anyone
  else's output between two lines, so that a line starts anywhere on the screen. `kept`,
  history, is what the user typed less what he erased, said by `Edited` of a sequence,
  with neither a buffer nor an index.
  The arm for `getchar() < 0` is dead code (`getchar()` never returns a negative
  value) and is left out.
- **ConsoleOutput.** `todo` is the `cons_putc()` in progress and those that
  `cga_putc('\t')` will still make; `tries` the counter of the wait loops;
  `asked` and `late` are history, for the properties only. `turn` is the device
  that `cons_putc()` is at.
- **Monitor.** `b` is `runcmd()`'s pointer `buf`, `at` the loop it is in; each turn
  of a loop is a step. `line` (what was typed) and `did` (what was done with it)
  are history. What a word is, is said of places in `line` (`Starts`, `Ends`), not by
  a second way of splitting it. `ReadLine` is what `Readline` shows of `readline()`: any line that
  fits, terminated, over whatever an earlier, longer line left behind.
- **PrintFmt.** The locals of `vprintfmt()` have their names; `fi` and `ai` count what is
  consumed of format and arguments, `dest` and `n` are the buffer that was passed (`Refuse`:
  none, or no room) and its size, `buf, cnt` those of `struct sprintbuf`, `buf` with the
  terminator that `End` stores, and `out` is what `putch` was called with. Each arm of the
  switch that ends in `goto reswitch` is `Flag` or `Star` or, for a number, as many
  `WidthDigit` as it has digits and the `WidthEnd` behind them; each that prints is
  `Convert`, `PercentSign` or `Unrecognized`. C leaves it to the caller to pass an argument
  for each conversion and each star of the format (`va_arg()` cannot see the end):
  `GoodCall` says so, with `Takers`, which counts them without a walk. A width is a number
  of any size: no call has one that an int cannot hold.
- **Directives.** A directive is a character of text, or an escape with a flag, a width
  and a precision (none, a number, or a star), a number of `l` and a conversion; `Written`
  is how it stands in a format, `MeaningAt` what is to be printed for it. A number's text
  (`Numeral`) is given by its digits, each by its place, where `printnum()` divides and
  recurses. A call carries the directives that its format was written from (`meant`), a
  history that no step reads; `Says` ties the two together, and the assumption
  `MeantAssumption` makes TLC check that for every call of the run. Where the comments of
  `printfmt.c` and its code differ, the reference follows the comments: `-` pads on the
  right, also numbers, and `%o` is unsigned. `Disputed` names the directives that this is
  about, and `OutputRight` leaves out the calls that have one; `OutputAsCommented` does not.
- **Stab, Kdebug.** `region_left` and `region_right` are the two arguments passed
  by reference; `addr` is the parameter, which the search itself moves; the inner
  loops (walks over entries of other types) are the sets they compute.
  `info` names the entries that `*info` is filled from. `NoStrings` is the answer for
  a kernel whose string table is not valid (`BadStrings`).
- **BootLoader.** `pa, end_pa, offset` are the locals of `readseg()`, `k` the
  segment, `disk, asked, data` the drive. `mem` maps each address to the image
  offset of the byte that was loaded there. `NextSegment` reads a header from the
  scratch area: if its cell was overwritten, any header may come out. The number of a
  sector goes to the disk in four bytes (`PortBytes`), of which the last has the drive's
  bits in it, too; the disk puts 28 bits together (`Lba`).
- **Startup.** `at` is the label, or the function, the processor is in. `mem`
  (`BootLoader`) is the memory as the code means to write it, `ram` as the machine
  does: each store of `ram` goes through `Physical`, which walks the page directory
  once paging is on and then drops bit 20 while `a20` is low. `full, buf, expect`
  are the keyboard controller. A store to a page that may not be written, with
  no interrupt table to catch it, is `at = "fault"`. A step of `bootmain()` stores
  one sector. The page directory and the page table are bytes of the kernel like others,
  loaded with it to `PgDir` and `PgTable`; an entry takes one cell. The processor reads
  them from `ram`, at the addresses that CR3 and the directory's entry give: a cell holds what
  `entry_pgdir` or `entry_pgtable` say only as long as it holds the byte that was linked
  there (`AsLinked`), and counts as *not present* otherwise. Page and table sizes are
  constants.
- **Backtrace.** `stack, esp, ebp` are words of memory and the two registers;
  `CallWith` and `Leave` are the call and return sequences of compiled code, `Locals`
  the room a function takes (for `mon_backtrace()` the seven words by which
  it finds its own frame from a local). `pos` is the function just entered or the
  place in it just returned to. `walk`, `func_name` are its locals `ebp` and
  `func_name`; `trace` is what it printed and `calls`, history, what was really
  called. The two functions of `kdebug.c` may also start on their own (`pos =
  "alone"`), on many more tables.
- **Strings.** `call` is the call, `mem` memory, `p, q, n` and the like the locals,
  `df` the direction flag. A turn of a loop is a step: of `memmove()` and `memset()`
  one repetition of `movsl`, `movsb`, `stosl` or `stosb`. `GoodCall` is what C demands
  of the caller: the regions lie in the memory; a string is terminated, or read by a
  function that is given a count and stops in the memory; a string's copy has room
  (`Room` bytes at `Target`), and, but for `memmove()` and `memcpy()`, which is the
  same function here, copy and string do not overlap; the base of `strtol()` is at
  most 36. The number that `strtol()` has to return is said independently of its loop:
  a sum of the digits, each times a power of the base.
- **GradeRunner.** `phase` is which of the three calls of `__react()` is in progress
  and `rset` the reactors that `select()` returned and that are still to be
  handled. `output` is the reactor's, `saved` what `save()` and `buf, lines` what
  `stop_on_line()` was given. `saveFirst` is the order in which the test sets the two
  and calls them back, `hooks` which of them were set: `gdb.breakpoint()`, its symbol, or
  `gdb.cont()` may fail (`SetUpFails`), and then the run goes straight to its `finally`.
  QEMU (`alive, running, halted, killed`), what is on its way from
  it (`pipe, sock`) and the deadline (`late`) change on their own at any time.

## 3. The runs

Each is a `.cfg` of its own, and takes from seconds to about two minutes.

| run | checks | what it shows, and why the bounds are enough |
|---|---|---|
| `Console` | `InputInv ImplementsQueue GetcReturns OldestIsTaken` | A buffer of 3 slots with at most 2 characters ahead implements the queue, with and without a UART, with NULs, mouse bytes, and the whole reboot chord arriving at any time, in the middle of a poll or of a reset. 3 slots wrap after three characters; two characters fill it to the last slot that may be used. The controller holds one byte (`KbcSize = 1`) to keep the liveness check small; the proof is for every `KbcSize` |
| `ConsoleOverrun` | violated: `ImplementsQueue` | with as many characters ahead as there are slots (3 of 3): the store of the third laps `rpos`, and the two that waited are gone, whatever `cons_getc()` had returned. The next call answers 0 |
| `Typing` | `EscapeInStep ModifiersFollowEvents RebootIsChord CharOfItsKey TypeOK LineSplit ArgsAreWords RightCommand` | *The keyboard*: six keys chosen for what they share: two of one modifier, one extended modifier, Del and the keypad's '.' which have the same code without the prefix. Two events under way, so that the driver lags and events get lost. *The monitor*: every line of up to 7 characters of two letters and blanks, so words of all lengths at all places; `argv` of 3 slots, with lines of up to four words; two commands `ab` and `a`. The two share no state; the one that does not run stays in its initial state |
| `MonitorMax` | violated: `TakesMaxArgs` | the same monitor: a line of `MAXARGS` words is refused |
| `Readline` | `LineEchoed LineReturned RestUntouched` | a 3x3 screen and a buffer of 7: a line wraps twice, scrolls, fills the buffer to its last slot, and is erased back across rows; it may start at any cell |
| `Printing` | `Bounded OutputRight PortsGotText ScreenShowsText NothingReordered Returns PutcReturns` | *Formats*: some hundred directives (flag, width, precision, `l`, conversion; widths of two digits and from arguments, negative ones, too), alone and before three others that would show stale flags, and escapes that do not end; arguments at both ends of an int of 6 bits and outside it; buffers of 0, 1, 4 and 40 bytes, and none. *Devices*: two characters of {letter, tab, newline}, so up to two tabs of six characters each, on a 2x3 screen that scrolls, the cursor in its second row; a wait ends after one poll. Side by side as in `Typing` |
| `FormatComments` | violated: `OutputAsCommented` | one call, `"%-3d%o"` of 1 and -1, that shows both places where code and comments differ |
| `Backtrace` | `Finds AnswersRight ReadsInTable TraceIsCalls NeverPanics Terminates` | *searches alone*: every table of up to five entries of two types, every range in it and every address. *Lookups alone*: tables of the shape the compiler writes (header, files, functions with 0 to 2 parameters, a function from a header, code inlined from a header, a function without a line, an assembly file), every address below, in and above them, and a kernel without strings. *The kernel*: `test_backtrace(5)`, whose trace has eight frames with names of two to four letters, long ones before short ones, then two backtraces from the monitor, over what the deeper stack left behind |
| `KdebugComments` | violated: `AnswersAsCommented` | one lookup, of an address in code inlined into a function with a parameter: it shows both places where code and comments differ |
| `Boot` | `LoadInv KernelReady OnlyWritten RunsItsCode RamIsMem SectorAsked Boots` | every kernel of one or two segments of 0 to 3 bytes at every offset in a two-byte sector, behind one with the page tables, every split of file part and BSS, and an image that is no ELF file; line 20 open or closed at first, the controller busy or not. All segments lie above line 20 (`A20`) and the first page and the boot loader's stack below, as in the machine; pages have eight bytes, a page table eight entries, and of the directory's three the first and the last are in use |
| `Strings` | `CopiesRight SearchesRight` | `memmove()`, `memcpy()`, `memset()` on every two regions of 8 bytes (words of 2 bytes, so that all alignments and all overlaps occur), the other functions on all pairs of strings of up to two characters with counts from 0 to past their ends, and `strtol()` on blanks, signs, prefixes and digits in four bases, with a long of 10 bits that the larger ones overflow |
| `Grade` | `MonitorsSeeOutput BreakpointOutput EndsReaped` | an output of up to 6 pieces, read two at a time, so that lines end in the middle of a chunk and of a read, and two stops lie in one chunk or wait in the pipe; the gdb packet in one part or two; `save()` before `stop_on_line()` and behind it, all set or, after an error, some; every time-out, exit and race of these |

The bounds have names: `MaxAhead` (characters waiting anywhere: the people typing
are not more than so far ahead), `KbcSize`, `WireSize`, `MaxWait`, `MaxPut`,
`MemSize`, `Size`, `MaxValue`, `Gap`, `MaxCommands`, `MaxOut`, `ReadSize`, `IntBits`,
`LongBits` and `LongLongBits`. `MaxAhead` is special: it is not only a bound for TLC. The code
never tests for a full buffer, so the promise of `CharQueue` *depends* on
`MaxAhead < CONSBUFSIZE`; the proof assumes it, and `ConsoleOverrun` shows what
happens otherwise.

Deadlock is switched off only in runs where the system does stop: the boot ends
in the kernel or in the loader's endless loop, a search, a lookup, a string function or
`snprintf()` returns, the text of `Printing` ends after `MaxPut` characters, the kernel of
`Backtrace` gets no more commands after `MaxCommands`, and a test run ends.

### Fairness

- `ConsoleInput!FairSpec`: weak fairness of the kernel, which never blocks, and
  strong fairness of `SerialDry` and `KbdDry`: among infinitely many polls of a
  device, some find nothing. That is what "the poll loop is faster than the line" means (a
  byte takes a millisecond at the 9600 baud of `serial_init()`, a poll one or two);
  without it `cons_intr()` may stay in its loop for ever. Devices are not fair:
  nobody need type. With a missing UART `SerialDry` is never enabled, so strong
  fairness promises nothing there: what keeps the kernel out of that loop is
  `serial_exists`, which the mutant `CallGetcBlind` removes.
- `ConsoleOutput!OutputFairSpec`: weak fairness of the kernel only: devices may be dead.
- `Startup!SSpec`: weak fairness of the processor, of the controller and of the disk.
  `waitdisk()` and the two waits of `boot.S` have no bound; the boot depends on
  these devices. It also assumes, as a guard of `DiskDelivers`, that the controller
  takes a byte sooner than the disk delivers a sector: after the byte that opens
  line 20, `boot.S` goes on without waiting, and if the line were still low when the
  first sector above 1MB comes, that sector would lie below. Controllers need
  microseconds, disks milliseconds; nothing in the code waits, so `RamIsMem` fails
  without the assumption, and no property covers that hazard.
- `Backtrace!BSpec`: weak fairness of `debuginfo_eip()` and of the searches in it,
  for `Terminates`; no other property of that run is about progress.
- `PrintFmt!FairSpec`: weak fairness of the one thread there is.
- `GradeRunner!Spec`: weak fairness of the program, of the clock, and of the exit of a
  QEMU that was told to. `wait()` at the end has no time limit, so `EndsReaped`
  depends on that last one. A QEMU that was not killed need not exit.

## 4. What the runs found

- **A full input buffer is taken for an empty one** (`ConsoleOverrun`).
  `cons_intr()` (console.c:396-406) stores and advances `wpos` without looking at
  `rpos`. The 512th character that waits takes `wpos` round to `rpos`: that
  store loses all of them, and `cons_getc()` then answers 0, "none waiting"
  (console.c:409).
- **"Too many arguments (max 16)" is the answer to 16 words** (`MonitorMax`). `runcmd()`
  (monitor.c:122) gives up when the last slot of `argv` is left, which it keeps for the
  terminating 0. `RightCommand` says nothing of a line of exactly `MAXARGS` words.
- **The flag `-` pads a number on the left, and `%o` is signed** (`FormatComments`).
  "flag to pad on the right" (printfmt.c:107) is true of strings; `printnum()` puts the
  padding before the digits whatever it is, and makes it of `-` characters. `%o`,
  "(unsigned) octal" (printfmt.c:206), calls `getint()`.
- **`eip_fn_narg` is not the number of parameters, and the file is not the line's**
  (`KdebugComments`). The line search (kdebug.c:181) reuses `lfun` and `rfun` in place
  of `lline` and `rline`, so that the count (198-204) starts after the line's entry, not the
  function's, and the search for the file's name (185-195) starts from the function's
  entry, not the line's: the name of a header whose code was inlined is never found.

Seen while reading, and not given a run: "Ignore data from mouse" (console.c:325) returns
without reading the data port, so that a mouse byte stays at the head of the controller's
queue and each later poll ends there (`ConsoleInput` has such bytes; what a call owes its
caller are the characters before one). "If not found, return -1" (kdebug.c:175) is not what
happens to a line that is not found: the number is taken from whatever entry the search
ended at, and the result is 0. `AnswersRight` leaves the result open there.
`stab_binsearch()` goes on with `addr + 1` after an exact match (kdebug.c:80), so two
entries of the searched type at *adjacent* addresses are confused, the second being found
for the first's address. Functions and lines of compiled code are seldom one byte apart, so
the run `Backtrace` takes tables whose entries of the type are two addresses or more apart
(`InOrder` in `Stab`), and so do the proofs; both say nothing about others. `cprintf()`
returns 0 whatever it prints, because `putch()` (kern/printf.c) increments the pointer
instead of the count (`*cnt++`). In an assembly file, `lline` and the line search can end in
different files: `AnswersRight` speaks of addresses within functions only. If QEMU starts
but gdb never connects, `run_qemu()` exits (gradelib.py:407) without having killed it, and
`BreakpointOutput` has to leave out the runs whose shutdown was itself stopped by a time-out
or by a line that `stop_on_line()` matches. A `save()` that is set behind `stop_on_line()`
is not called with the chunk that stops the test (gradelib.py:293), although `output` has
it; `MonitorsSeeOutput` says so. `strcmp()` and `memcmp()` compare unsigned; `strncmp()`
with a count of 0 is equal; `strtol()` takes a "-" or a "0x" with no digits for 0 and
reports an end behind them.

## 5. What is proved

All proofs are for every value of the constants, from the named assumptions in
the modules.

**`InputProof`** is about the keyboard and the buffer behind it. The lemmas about
`Scan` come first: both modules decode by it.

Of the decoder (`ModifiersFollow`, `EscapeFollows`, `OnlyChordReboots`, `CharFromKey`), for
every set of keys without the code 0x60: the invariant relates three views. `E0ESC` is
set exactly between prefix and code, the prefix that was read belongs to the first event
of the wire, and each modifier bit is bounded by the keys *seen*, not those down, as
events are lost. `CharFromKey` follows from the first two: the table is indexed by the
code of the very event that is read, so a character comes from a key that went down and
from one of that key's columns.

Of the circular buffer (`InputInvariant`, `QueueImplemented`, `NeverZero`), for every
buffer size of 2 or more, every size of the controller's queue, every set of bytes and any
`MaxAhead < CONSBUFSIZE`: it implements `CharQueue`. The inductive invariant `InputInv` says
that what waits in the buffer *and in the devices* is at most `MaxAhead`: "the buffer is not
full" alone is not inductive, since `cons_intr()` drains a device without looking,
and what bounds it is what the devices hold. It says that the serial
port is polled only if it exists, since a missing one delivers for ever, and that what a
call owes is in the devices still, before the mouse's bytes, and nothing of it when
`cons_intr()` has come to the end of a device (`OwedIsThere`): that is why the call
may answer. The refinement rests on lemmas on `RingContents`: a store appends to it, taking a
character is its tail, neither moves the rest, although positions wrap.
`NeverZero` needs no bound.

**`DisplayProof`** is about the two users of the screen. First the line editor
(`TypeCorrect`, `EchoIsLine`, `ReturnsLine`, `EditsOnlyItsLine`), for
every screen and every buffer that fits it with one row to spare. `LineEchoed`
together with the range of the cursor is inductive; the work is in scrolling: the
lemmas show that a scroll moves the whole line by one row, and that the line's
first cell cannot leave the screen, which is what the assumption on `BUFLEN` is for
(1023 characters on a screen of 2000 cells). `LineReturned` is inductive beside it: an
erasure shortens buffer and `kept` alike, a store adds the same to both, and what
overwrites the buffer past the line does not show (`ReturnsLine`). The same lemmas, said of the cells
*before* the line, give the action property `RestUntouched`: a character leaves
them alone or moves them up by one row, and the three characters of an erasure
never scroll.

Then `cons_putc()` (`PortsGetTheText`, `ScreenGetsTheText`, `DevicesKeepTheOrder`), for
every set of characters, bound on a wait, screen and place of the cursor. The
properties speak of the moments between two calls; `OutputInv` of all others: the
text, with its tabs followed by their spaces, is what is through and what is still
to come (`Rest`: of a tab in progress, itself and its five spaces), the screen shows
what is through, and each port is at the same place or, if it has had its turn
already, one further (`UpTo`), with gaps if it was ever late. `Expanded`, `Shown` and
`Matched` are folds over sequences of any length. The library defines `FoldLeft` by a
recursive function over sets of places; `FoldExists` to `FoldOf` show that there is
such a function and what it does with one more element, for any operation that is
given as a function, and `ExpandedIs`, `ShownIs` and `MatchedIs` that the three are
of that kind. That one sequence matches another greedily is kept by
appending to either (`LongerSubsequence`, `StaysSubsequence`) and by the loss of a
character in the transmit register (`ShorterSubsequence`, from `MatchedShorter`).

**`MonitorProof`** (`TypeCorrect`, `SplitKeepsWords`, `CommandsGetWords`,
`RightOneRuns`). For every size of the buffer and of `argv`, every set of characters
and of commands. `TypeOK` says that `b` and `argc` stay in range; it needs `LineSplit`,
which says that the terminator is still where `readline()` put it and that what was
overwritten was white space. `SplitInv` goes on: the entries of `argv` are, in order,
starts of words; every word that starts below the pointer has its entry, and each
word but the one in progress is followed by a 0. At the end of the line the
entries are therefore all the words, and as they increase there are as many as
words (a bijection, for `Cardinality`). `RightCommand` then rests on a lemma about
`strcmp()`, which stops at the least place where the strings differ or end. That a line of
more words than slots is refused, and one of fewer is not, comes from the same bijection, with the word
in progress when `Complain` gives up; of a line of exactly as many, `RightCommand`
says nothing (section 4).

**`PrintFmtProof`** (`KeepsBounds`, `SaysWhatIsMeant`). For every format, understood or not,
every size and every argument. First the bounds. `Bounded` alone is not inductive: that an
unknown escape finds a '%' to go back to, and that the walk which then comes over the same
characters again takes no argument twice, is in the second part of the invariant,
`Walked(m)`. The first m characters of the format have been walked over, `fi` may be back
among them but with no '%' ahead, and `ai` is the number of arguments that those m take;
where an escape is read, `fi` is m and the last character is inside an escape. As `Takers`
counts the same over the whole format, `ai` never passes the arguments. The other part,
`Stored`, rests on `PutStores`: if what is stored is the beginning of what was put, cut off
at the buffer's end, so it is after any further text. Every conversion gives a text
(`ConvertedType`): the digits of a number are a recursive function that exists because a
quotient is less than what was divided (`DigitsExist`, by `Counting` as in `StringsProof`),
and has a value for every number an unsigned long long holds, as are all that are printed
(`FitsLongLong`).

Then what is printed. `OutputRight` speaks of the end of the walk only. `Saying` speaks of
every state in between: behind the first k directives the output is what those k mean and
`ai` the arguments they take (`Between`); inside an escape, behind its first j characters,
the output is that still, and the flags have the values that those j characters give them
(`In`), among them the number read so far where the j characters end in the digits of a
width or a precision (`Gathering`, with `Read`); behind an escape that is not understood the
output ends in its first j characters, and `fi` is back among them (`Back`). With `Told`,
that the format still is what the directives write, this is inductive, beside the invariant
of `KeepsBounds`. `OutputRight` follows for lists of directives none of which is `Disputed`;
of the others it is false, and the run `FormatComments` shows it. TLC checked the
invariant first, on the calls of `MCPrintFmt`.

There is a lemma for each step at each place (`FlagMeant` to `LongMeant`, `NumberMeant`,
`ConversionMeant`, `BackMeant`), and below them one on each of the things that the walk
and the reference say differently. `Shape` and `EscapeWritten`: which part of a directive
stands at which place of the format. `NumeralReads`: a number's digits, read from the
front as `width = 10 * width + ch - '0'`, give it back. `DigitsAre`: what `printnum()`
produces is the `Numeral`; its quotients are by one digit at a time, those of the
numeral by a power of the base (`Remainders` and the lemmas before it). The signed and
the unsigned value of an argument, and both of one that an int cannot hold, are the
same 64 bits (`Powers` and after). The sums and the concatenation over the list,
`Start`, `Used` and `Said`, exist and grow by one directive (`Sums`).

Assumed: what `GoodCall` asks of the caller (`CallsAssumption`), that the format of a call is
what its directives write (`MeantAssumption`, the second theorem only), of the powers 2^31, 2^32, 2^63
and 2^64 that they are positive, that each second one is twice the first and that 2^32 is
not above 2^64 (`PowerAssumption`; the provers know no powers), and that the characters the
code names are characters (`CharsAssumption`, `ErrorAssumption`).

**`BacktraceProof`** is in three layers, each using the one below as an invariant.
`SearchInv` (`SearchFinds`): for every table whose entries of the searched type are in order
and two addresses or more apart, the last entry at or below the address lies in what is left
of the range, until it is found. `LookupInv` (`LookupInBounds`, `LookupCorrect`): for every
table with the shape that the compiler and the linker give it (`IsKernelTable`: a header of
none of the searched types, files, functions of a file and lines of a function each in
order, no file entry with the value 0, which the walk back to the file's name would pass
over) each search gets a range of the table, and the file, then the function in it, then the
line, are the covering ones; the name of the line's file is the one before the function's
entry if none stands between that entry and the line's. `LookupCorrect` says no more than
that of the file, and nothing of the result where the function has no line that covers the
address (section 4). `TraceInv` (`TraceCorrect`, `WalkStaysInKernel`, `LooksUpRight`): the
frames are chained, each saved `ebp` being the frame of the caller, and hold what was
pushed; the lines printed are those of the calls so far, and the pointer is at the next.
Assumed: a stack with room for the recursion (`StackAssumption`), a return address of its
own for each call, in the kernel (`RetAssumption`), and a table that has the kernel's
functions, names that fit `func_name`, and no function for the file of `entry.S`
(`NamesAssumption`): that is where the walk ends, and without it it would go on into the
boot loader's frames, where `debuginfo_eip()` panics.

**`StartupProof`**, first about the boot loader alone (`Invariance`, `TypeCorrect`,
`LoadStaysIntact`, `KernelIsReady`, `NothingElseWritten`, `RightSector`). For every
sector size, memory, scratch area at a sector boundary, and every set of images
with `GoodImage`: offsets and addresses agree modulo the sector, memory is large
enough, and no sector of a segment lies in the headers or in the file part of an
*earlier* segment. The inductive invariant `IInv` is the conjunction of the types,
`LoadInv`, `KernelReady` and `OnlyWritten`. `LoadInv` is the strengthening `KernelReady`
needs: address and sector number advance in step; the segments before the
current one, and the current one below `pa`, are loaded; the headers are
intact. That `readseg()` rounds down and reads whole sectors is what makes it
delicate, and where the assumption of `GoodImage` enters (`EarlierApart`); the
arithmetic of sectors (`Division` to `StartInStep`) is proved for a symbolic
sector size.

Then about the machine. `MachineRunsLoader` is the refinement: every step of `SNext` is a
step of the loader or of its disk, or leaves their variables alone; so `MachineLoadsKernel`
has all of the above for the machine. `StartInv` adds what each label of `boot.S` and
`entry.S` may rely on (`Stages`: paging, stack, entry point), that line 20 is open before
anything is stored above it (`Controller`), that the boot sector is still where it runs
(`CodeIsThere`) and `RamIsMem`; from it `StoresLandRight` and `FetchesItsCode`, the latter
through the page map: the low entry of the directory sends an address below 4MB to itself,
the high one the same above KERNBASE, and both are there as long as code runs at both. The
map is what the processor finds in `ram` (`KernelLinked`): it is loaded right, no other
segment, no BSS and no push lies over it, and from `cr3` on it is what `FetchesItsCode` says
it is. Assumed: the sizes of pages and tables divide as they do in the machine
(`PagesAssumption`); no segment is loaded over the boot sector, the words pushed below it
and the warm-boot flag, the kernel's own stack does not start in its BSS, and its entry
point and page tables are loaded with it, and neither BSS nor the word under the stack's top
(`PlacesAssumption`). `RightSector` rests on `NumberArrives`: the four bytes of a sector
number below 2^28 give it back.

**`GradeRunnerProof`** (`GradeInvariance`, `MonitorsSeeAll`, `BreakpointHasAll`). For every
size of a read, every length of output and either order of the monitors. `GradeInv`: what
QEMU wrote is what was read and what is in the pipe; of the monitors that were set, what
`save()` has is what was read since, but for the chunk behind a `stop_on_line()` that stopped
the test, and the lines of `stop_on_line()` with the rest are the same, always; the packet of
the breakpoint was sent after all the output, is read once, and the shutdown
reads the pipe to its end unless it is cut short itself. No liveness.

**`StringsProof`** (`CopyInvariance`, `CopiesAreRight`, `FindInvariance`,
`SearchesAreRight`). For every memory, word size, width of a long and `GoodCall`. `CopyInv`
says how far each loop has got: what is written is a prefix of what has to be written
(`Copied`, `Filled`, `Moved`), or, with the direction flag set, a suffix. The step that
matters is that what is *read* is still what it was: for strings since the copy stays off
the string (`NextByte`), for `memmove()` since it goes up when the destination does not
start in the source (`MoveUp`) and down when it does (`MoveDown`), a word at a time or a
byte. `FindInv` is the same for the functions that do not write: a search is at a place `k`,
and all the earlier places let it go on (`GoesAt`); so the place where it stops is the least
that decides, which is how `ExpectedAnswer` is stated (`FirstIs` and the lemmas after it).
That the least place lies in the memory is where terminators and counts come in
(`FirstString`). Of `strtol()` it says which part of the number has been read and that `val`
is the `Numeral` of the digits so far modulo the width of a long; a further digit multiplies
every term of the sum by the base (`NextDigit`), and sums, products and negation may be
reduced at every step (`Modular`). Assumed: 2^LongBits is a positive number
(`PowerAssumption`; the provers know no powers). `Numeral` and `Power` are recursive
functions: `Counting` is induction, said of a set and proved by its least missing number,
`OneFollows` and `RecursionExists` that such functions exist.

### What is only model-checked

Liveness (`GetcReturns`, `OldestIsTaken`, `PutcReturns`, `Returns`, `Terminates`,
`Boots`, `EndsReaped`): it needs fairness and `ENABLED`, which the prover does not do.
Every other property of a passing run is a theorem. The four
violations, `ImplementsQueue` without its bound, `TakesMaxArgs`, `OutputAsCommented` and
`AnswersAsCommented`, are TLC's counterexamples.

## 6. What is not modelled

In the modelled parts: the attribute byte of a screen cell and the 6845 cursor
registers; the keyboard's 0xE1 sequence (Pause); the strobe timing of
the printer; the checks of single string indices against the length of the string table in
`debuginfo_eip()`; the wrap of 32-bit addresses in `readseg()` (images fit in
memory) and disk errors, which `waitdisk()` does not look at; the segments of
`boot.S`, which are flat before and after the switch; `%e` of the least int, which is
undefined; the C variants of `memset()` and `memmove()`, which are not compiled.

Parts left out: `_panic()` beyond its call, with the `panicstr` that keeps a panic in a
panic from printing, and `_warn()` (nobody calls it); `mon_help()` and
`mon_kerninfo()`, which print constants; `vcprintf()`, which is `vprintfmt()` with the
console's `putch()`; in `gradelib.py` the bookkeeping of tests and points, the
matching of lines against expressions, and the debug protocol's checksums. `make` and the
QEMU it runs are one process there: `terminate()` and `wait()` are of `make`, which goes when
its child does, and both hold the pipe's other end.

Components not modelled: `user/sendpage.c`, a program for a later kernel, whose
`fork()` and `ipc_*()` are not in this repository; `fs/test.c`, a straight line
of calls into a file system that is not here either; the build files and the
scripts that run at build time (`sign.pl`, `mergedep.pl`); what the headers define
for later labs.

## 7. Plan

Written, in this order, since console and boot are where devices and kernel
interact: `KeyMap`, `ConsoleInput` with `CharQueue`, `Keyboard`, `Cga` with
`Readline`, `ConsoleOutput`, `Stab`, `Kdebug`, `BootLoader`, `Monitor`, `PrintFmt`;
then the parts around them: `Strings`, `Backtrace`, `Startup`, `GradeRunner`.

Proved, in this order: `ConsoleInput`, `Keyboard`, `Readline`, `BootLoader`, `Monitor`;
then `Startup`, `GradeRunner`, `Stab` with `Kdebug` and `Backtrace`, the rest of
`Keyboard`, `Readline` and `Monitor`, and `Strings`, the copies before the searches;
then `ConsoleOutput` and `PrintFmt`, with `Directives` last.

Models to come: `_panic()` with `panicstr`; `Monitor` shown to rely on no more than
`Readline` provides; `SendPage` with external system calls.
