------------------------------- MODULE Startup -------------------------------
(***************************************************************************)
(* From the boot sector to i386_init(): boot/boot.S opens address line 20  *)
(* through the keyboard controller and enters protected mode; bootmain()   *)
(* (BootLoader) reads the kernel; kern/entry.S turns on paging with the    *)
(* page directory of kern/entrypgdir.c and jumps above KERNBASE.  `mem' is *)
(* the memory as bootmain() and i386_init() mean to write it; `ram' is the *)
(* memory as the machine writes it, through line 20 and the page tables.   *)
(***************************************************************************)
EXTENDS BootLoader

CONSTANTS
  A20,          \* the weight of address line 20 (2^20)
  PGSIZE,       \* bytes of a page (4096)
  NPDENTRIES, NPTENTRIES,   \* entries of a page directory, of a page table (1024)
  KERNBASE,     \* where the kernel maps physical memory (0xF0000000)
  Start,        \* where the BIOS puts the boot sector (0x7c00)
  WarmBoot,     \* the BIOS's warm boot flag (0x472)
  PgDir, PgTable,   \* the physical addresses of entry_pgdir and entry_pgtable
  StackTop      \* and of bootstacktop

PTSIZE == PGSIZE * NPTENTRIES
PTE_P == 1
PTE_W == 2

(* The tables' entries, each of which takes one cell of the image. *)
Tables == (PgDir .. PgDir + NPDENTRIES - 1) \cup (PgTable .. PgTable + NPTENTRIES - 1)

ASSUME PagesAssumption ==
  /\ A20 \in Nat \ {0} /\ NPTENTRIES \in Nat \ {0} /\ NPDENTRIES \in Nat \ {0}
  /\ PGSIZE \in Nat \ {0} /\ PGSIZE % 4 = 0
  /\ KERNBASE \in Nat
  /\ KERNBASE % PTSIZE = 0 /\ KERNBASE \div PTSIZE \in 1 .. NPDENTRIES - 1
  /\ PgDir \in Nat /\ PgTable \in Nat /\ PgTable % PGSIZE = 0
  /\ PgDir + NPDENTRIES <= PgTable \/ PgTable + NPTENTRIES <= PgDir
  /\ MemSize <= PTSIZE

(* The memory no byte of a kernel is loaded to, with the sectors around it. *)
Untouched(i) ==
  {a \in Mem : /\ a \notin Header \cup Bss(i)
               /\ \A n \in 1 .. Len(i.ph) : a \notin Written(i.ph[n].pa, i.ph[n].memsz)}

(***************************************************************************)
(* The BIOS's flag, the boot sector, and two words of stack below it lie   *)
(* out of the way of every kernel, the sector and the stack below line 20. *)
(* The kernel's own stack is data that is loaded with it, but not BSS; the *)
(* entry point and the page tables are loaded bytes.                       *)
(***************************************************************************)
ASSUME PlacesAssumption ==
  /\ Start \in Nat /\ Start >= 2 /\ Start + SECTSIZE <= A20
  /\ StackTop \in 1 .. MemSize
  /\ \A i \in Images :
       /\ {WarmBoot} \cup (Start - 2 .. Start + SECTSIZE - 1) \subseteq Untouched(i)
       /\ StackTop - 1 \notin Bss(i)
       /\ i.magic => \A a \in {i.entry} \cup Tables :
                       /\ a \notin Bss(i) \cup {StackTop - 1}
                       /\ \E n \in 1 .. Len(i.ph) : a \in InFile(i.ph[n])

VARIABLES
  at,                \* where in boot.S, bootmain() or entry.S the processor is
  eip, esp,          \* its instruction and stack pointers
  pg,                \* CR0's PG and WP
  a20,               \* is line 20 open?
  full, buf, expect, \* the controller: its buffer, and does it expect the output port's value?
  ram                \* the memory

controller == << a20, full, buf, expect >>
svars == << vars, at, eip, esp, pg, controller, ram >>

Code == -3     \* a cell of the boot sector
Pushed == -4   \* a return address on the stack
Flag == -5     \* the warm boot flag

-----------------------------------------------------------------------------
(***************************************************************************)
(* The page directory and the page table, and how the processor walks them.*)
(***************************************************************************)
PDX(la)   == (la \div PTSIZE) % NPDENTRIES
PTX(la)   == (la \div PGSIZE) % NPTENTRIES
PGOFF(la) == la % PGSIZE
PTE_ADDR(pte) == pte - PGOFF(pte)

(* Mutant: low addresses are not mapped. *)
pgdirHighOnly ==
  [d \in 0 .. NPDENTRIES - 1 |->
     IF d = KERNBASE \div PTSIZE THEN (KERNBASE + PgTable) - KERNBASE + PTE_P + PTE_W ELSE 0]

(* Low addresses are mapped read-only, those above KERNBASE writable. *)
entry_pgdir ==
  [d \in 0 .. NPDENTRIES - 1 |->
     CASE d = 0                     -> (KERNBASE + PgTable) - KERNBASE + PTE_P
       [] d = KERNBASE \div PTSIZE  -> (KERNBASE + PgTable) - KERNBASE + PTE_P + PTE_W
       [] OTHER                     -> 0]

entry_pgtable == [t \in 0 .. NPTENTRIES - 1 |-> t * PGSIZE + PTE_P + PTE_W]

Present(entry)  == entry % 2 = PTE_P
Writable(entry) == Present(entry) /\ (entry \div 2) % 2 = 1

(* While line 20 is low, addresses wrap around at 1MB. *)
OnLines(a) == IF a20 THEN a ELSE a - ((a \div A20) % 2) * A20

(* A cell of memory has what was linked there. *)
AsLinked(a) == \E n \in 1 .. Len(image.ph) :
                 LET s == image.ph[n]
                 IN a \in InFile(s) /\ ram[a] = s.offset + (a - s.pa)

(* The entry in a cell: what is no longer as linked counts as not present. *)
EntryAt(a) ==
  CASE ~AsLinked(a)                             -> 0
    [] a \in PgDir .. PgDir + NPDENTRIES - 1     -> entry_pgdir[a - PgDir]
    [] a \in PgTable .. PgTable + NPTENTRIES - 1 -> entry_pgtable[a - PgTable]
    [] OTHER                                    -> 0

Pde(la) == EntryAt(OnLines(PgDir + PDX(la)))
Pte(la) == EntryAt(OnLines(PTE_ADDR(Pde(la)) + PTX(la)))

Readable(la) == pg => Present(Pde(la)) /\ Present(Pte(la))
MayWrite(la) == pg => Writable(Pde(la)) /\ Writable(Pte(la))

Physical(la) == OnLines(IF pg THEN PTE_ADDR(Pte(la)) + PGOFF(la) ELSE la)

(***************************************************************************)
(* The processor stores F's values at the addresses F is defined on and    *)
(* goes on; without an interrupt table, a fault resets it.                 *)
(***************************************************************************)
Store(F, next) ==
  IF \A la \in DOMAIN F : MayWrite(la)
  THEN /\ ram' = [a \in Mem |->
                    IF \E la \in DOMAIN F : Physical(la) = a
                    THEN F[CHOOSE la \in DOMAIN F : Physical(la) = a] ELSE ram[a]]
       /\ at' = next
  ELSE at' = "fault" /\ UNCHANGED ram

Push(top, next) ==
  /\ esp' = top - 1
  /\ Store([la \in {top - 1} |-> Pushed], next)

-----------------------------------------------------------------------------
(***************************************************************************)
(* The keyboard controller, on its own: it takes what is in its buffer.    *)
(* 0xd1 says that the next byte is for its output port, of which bit 1 is  *)
(* line 20.                                                                *)
(***************************************************************************)
ControllerTakes ==
  /\ full
  /\ full' = FALSE
  /\ expect' = (buf = 209)
  /\ a20' = IF expect /\ buf # 209 THEN (buf \div 2) % 2 = 1 ELSE a20
  /\ UNCHANGED << vars, at, eip, esp, pg, buf, ram >>

Write8042(byte) == full' = TRUE /\ buf' = byte /\ UNCHANGED << a20, expect >>

(* seta20.1: wait until the buffer is free, and give the command. *)
SetA20Command ==
  /\ at = "seta20.1" /\ ~full
  /\ Write8042(209)
  /\ at' = "seta20.2"
  /\ UNCHANGED << vars, eip, esp, pg, ram >>

(* Mutant: the second wait is missing. *)
SetA20AtOnce ==
  /\ at = "seta20.2"
  /\ Write8042(223)
  /\ at' = "lgdt"
  /\ UNCHANGED << vars, eip, esp, pg, ram >>

(* seta20.2: wait again, and give the value. *)
SetA20Value ==
  /\ at = "seta20.2" /\ ~full
  /\ Write8042(223)
  /\ at' = "lgdt"
  /\ UNCHANGED << vars, eip, esp, pg, ram >>

(* Protected mode, with segments that start at 0 as they did before. *)
ProtectedMode ==
  /\ at = "lgdt"
  /\ at' = "protcseg"
  /\ UNCHANGED << vars, eip, esp, pg, controller, ram >>

(* The stack grows down from the boot sector. *)
CallBootmain ==
  /\ at = "protcseg"
  /\ Push(Start, "bootmain")
  /\ UNCHANGED << vars, eip, pg, controller >>

-----------------------------------------------------------------------------
(* bootmain() runs, up to its call of the kernel. *)
BootmainStep ==
  /\ at = "bootmain"
  /\ AskSector \/ NextSegment \/ Bad \/ Enter
  /\ UNCHANGED << at, eip, esp, pg, controller, ram >>

BootmainStores ==
  /\ at = "bootmain"
  /\ GetSector
  /\ Store([la \in pa .. pa + SECTSIZE - 1 |-> SectorByte(data, la - pa)], "bootmain")
  /\ UNCHANGED << eip, esp, pg, controller >>

(***************************************************************************)
(* The controller is quicker than the disk: it has taken a byte before the *)
(* disk delivers a sector.  boot.S does not wait for it a third time.      *)
(***************************************************************************)
DiskDelivers ==
  /\ DiskDone /\ ~full
  /\ UNCHANGED << at, eip, esp, pg, controller, ram >>

CallKernel ==
  /\ at = "bootmain" /\ pc = "entry"
  /\ Push(esp, "entry")
  /\ eip' = image.entry
  /\ UNCHANGED << vars, pg, controller >>

-----------------------------------------------------------------------------
(* entry.S: the warm boot flag; the page directory, and paging. *)
SetWarmBoot ==
  /\ at = "entry"
  /\ Store([la \in {WarmBoot} |-> Flag], "cr3")
  /\ UNCHANGED << vars, eip, esp, pg, controller >>

TurnOnPaging ==
  /\ at = "cr3"
  /\ pg' = TRUE
  /\ at' = "paging"
  /\ UNCHANGED << vars, eip, esp, controller, ram >>

(* Still at a low eip: jump above KERNBASE. *)
Relocate ==
  /\ at = "paging"
  /\ eip' = KERNBASE + eip
  /\ at' = "relocated"
  /\ UNCHANGED << vars, esp, pg, controller, ram >>

(* Mutant: the stack pointer stays what it was in the boot loader. *)
CallInitOldStack ==
  /\ at = "relocated"
  /\ Push(esp, "i386_init")
  /\ UNCHANGED << vars, eip, pg, controller >>

CallInit ==
  /\ at = "relocated"
  /\ Push(KERNBASE + StackTop, "i386_init")
  /\ UNCHANGED << vars, eip, pg, controller >>

(* i386_init() clears the BSS, at the addresses it is linked at. *)
InitClearsBss ==
  /\ at = "i386_init"
  /\ ClearBss
  /\ Store([la \in {KERNBASE + a : a \in Bss(image)} |-> Zero], "kernel")
  /\ UNCHANGED << eip, esp, pg, controller >>

-----------------------------------------------------------------------------
(* The BIOS has loaded the boot sector; line 20 may be open or not. *)
SInit ==
  /\ Init
  /\ at = "seta20.1"
  /\ eip = Start /\ esp = Start /\ pg = FALSE
  /\ a20 \in BOOLEAN /\ full \in BOOLEAN /\ buf = 0 /\ expect = FALSE
  /\ ram = [a \in Mem |-> IF a \in Start .. Start + SECTSIZE - 1 THEN Code ELSE Other]

Processor ==
  \/ SetA20Command \/ SetA20Value \/ ProtectedMode \/ CallBootmain
  \/ BootmainStep \/ BootmainStores \/ CallKernel
  \/ SetWarmBoot \/ TurnOnPaging \/ Relocate \/ CallInit \/ InitClearsBss

SNext == ControllerTakes \/ DiskDelivers \/ Processor

(* The processor, the controller and the disk each go on. *)
SSpec == SInit /\ [][SNext]_svars
               /\ WF_svars(Processor) /\ WF_svars(ControllerTakes) /\ WF_svars(DiskDelivers)

-----------------------------------------------------------------------------
(***************************************************************************)
(* Wherever the processor is, what it fetches is the code that was meant   *)
(* to be there: the boot sector's, which no segment that was loaded has    *)
(* overwritten, and then the kernel's first byte, before and after paging, *)
(* below and above KERNBASE.  No access faults, and while paging is on the *)
(* tables are those that were linked.                                      *)
(***************************************************************************)
RunsItsCode ==
  /\ at # "fault" /\ Readable(eip) /\ Physical(eip) \in Mem
  /\ LET cell == ram[Physical(eip)]
     IN IF at \in {"seta20.1", "seta20.2", "lgdt", "protcseg", "bootmain"}
        THEN cell = Code
        ELSE Physical(eip) = image.entry /\ AsLinked(image.entry)
  /\ pg => \A a \in Tables : AsLinked(a)

(***************************************************************************)
(* What bootmain() and i386_init() wrote is where they meant it to be,     *)
(* although the one writes through line 20 and the other through the page  *)
(* tables; only the kernel's call frame, at the top of its own stack, is   *)
(* written over what was loaded.                                           *)
(***************************************************************************)
RamIsMem ==
  /\ \A a \in Mem : mem[a] # Other =>
       ram[a] = mem[a] \/ (a = StackTop - 1 /\ at \in {"i386_init", "kernel"})
  /\ at \in {"i386_init", "kernel"} => ram[StackTop - 1] = Pushed
=============================================================================
