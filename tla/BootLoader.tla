----------------------------- MODULE BootLoader -----------------------------
(***************************************************************************)
(* The boot loader boot/main.c: bootmain() reads the first page of the     *)
(* kernel image to a scratch area, follows the program headers it finds    *)
(* there, reads each segment into memory, sector by sector, and jumps to   *)
(* the kernel, whose i386_init() then clears the BSS.                      *)
(*                                                                         *)
(* A cell of memory holds the offset in the image of the byte it was       *)
(* loaded with.  A program header takes one cell of the image.             *)
(***************************************************************************)
EXTENDS Integers, Sequences

CONSTANTS
  SECTSIZE,     \* bytes of a sector (512 in the code)
  MemSize,      \* bytes of memory
  ELFHDR,       \* where the first page of the image is read to (0x10000)
  HdrSectors,   \* how many sectors of it (8)
  PhOff,        \* where the program headers start in the image (e_phoff)
  Images        \* the kernel images

VARIABLES
  image,               \* the image on the disk
  mem,                 \* the memory
  pc,                  \* where the loader is
  k,                   \* the segment being read, 0 for the first page
  pa, end_pa, offset,  \* the locals of readseg()
  disk,                \* is it "busy"?
  asked, data          \* the sector asked for and the one in its buffer

loader == << pc, k, pa, end_pa, offset >>
drive  == << disk, asked, data >>
vars   == << image, mem, pc, k, pa, end_pa, offset, disk, asked, data >>

Mem == 0 .. MemSize - 1

Other == -1     \* what was in memory before
Zero  == -2     \* a cleared cell

Down(a) == a - (a % SECTSIZE)

(***************************************************************************)
(* The memory readseg() writes for a count of bytes at an address: it      *)
(* starts at a sector boundary and ends at one, so that more is written.   *)
(***************************************************************************)
Written(a, count) == {x \in Mem : Down(a) <= x /\ Down(x) < a + count}

(***************************************************************************)
(* The images.  A segment has p_pa, p_offset, p_filesz and p_memsz.        *)
(* kernel.ld and the linker keep the offset and the address the same       *)
(* modulo the page and so modulo the sector; they start a segment on a     *)
(* page of its own, above 1MB, where the scratch area is not.  What        *)
(* readseg() needs of all this is said here.                               *)
(***************************************************************************)
Segment == [pa : Nat, memsz : Nat, filesz : Nat, offset : Nat]

InFile(s) == s.pa .. s.pa + s.filesz - 1

Bss(i) == i.edata .. i.end - 1

Header == ELFHDR .. ELFHDR + HdrSectors * SECTSIZE - 1

(* The last sector that 28 bits can name. *)
LastSector == 16 * 16777216 - 1

GoodImage(i) ==
  /\ i.magic \in BOOLEAN
  /\ i.ph \in Seq(Segment) /\ PhOff + Len(i.ph) <= HdrSectors * SECTSIZE
  /\ i.edata \in Nat /\ i.end \in Nat /\ i.end <= MemSize
  /\ \A n \in 1 .. Len(i.ph) :
       LET s == i.ph[n]
       IN  /\ s.filesz <= s.memsz
           /\ s.offset % SECTSIZE = s.pa % SECTSIZE
           /\ s.offset + s.memsz <= LastSector * SECTSIZE
           /\ s.pa + s.memsz + SECTSIZE <= MemSize
           /\ Written(s.pa, s.memsz) \cap Header = {}
           /\ \A later \in n + 1 .. Len(i.ph) :
                InFile(s) \cap Written(i.ph[later].pa, i.ph[later].memsz) = {}

ASSUME SizesAssumption ==
  /\ SECTSIZE \in Nat \ {0} /\ MemSize \in Nat
  /\ ELFHDR \in Nat /\ ELFHDR % SECTSIZE = 0
  /\ HdrSectors \in Nat \ {0} /\ HdrSectors <= LastSector
  /\ ELFHDR + HdrSectors * SECTSIZE <= MemSize
  /\ PhOff \in Nat \ {0}

ASSUME ImagesAssumption == \A i \in Images : GoodImage(i)

-----------------------------------------------------------------------------
(* The disk: a command makes it busy until its buffer holds the sector. *)
DiskDone ==
  /\ disk = "busy"
  /\ disk' = "ready" /\ data' = asked
  /\ UNCHANGED << image, mem, loader, asked >>

-----------------------------------------------------------------------------
(* Mutant: sectors are counted from 0. *)
ReadSegFromZero(n, a, count, off) ==
  /\ k' = n
  /\ end_pa' = a + count
  /\ pa' = Down(a)
  /\ offset' = off \div SECTSIZE
  /\ pc' = "sector"

(* readseg() starts: down to a sector boundary; sector 0 is the loader's. *)
ReadSeg(n, a, count, off) ==
  /\ k' = n
  /\ end_pa' = a + count
  /\ pa' = Down(a)
  /\ offset' = (off \div SECTSIZE) + 1
  /\ pc' = "sector"

(***************************************************************************)
(* A sector's number goes out through four ports, a byte each, with the    *)
(* bits 0xE0 in the last; the disk takes 28 bits of what it gets.          *)
(***************************************************************************)
PortBytes(n) == << n % 256, (n \div 256) % 256, (n \div 65536) % 256,
                   224 + ((n \div 16777216) % 32) >>

Lba(bytes) == bytes[1] + 256 * bytes[2] + 65536 * bytes[3] + 16777216 * (bytes[4] % 16)

(* Mutants: the wait is for the wrong value; one sector too many. *)
AskSectorInverted ==
  /\ pc = "sector" /\ pa < end_pa
  /\ disk # "ready"
  /\ asked' = Lba(PortBytes(offset)) /\ disk' = "busy"
  /\ pc' = "data"
  /\ UNCHANGED << image, mem, k, pa, end_pa, offset, data >>

AskSectorMore ==
  /\ pc = "sector" /\ pa <= end_pa
  /\ disk = "ready"
  /\ asked' = Lba(PortBytes(offset)) /\ disk' = "busy"
  /\ pc' = "data"
  /\ UNCHANGED << image, mem, k, pa, end_pa, offset, data >>

(* The first waitdisk() of readsect(), and the command. *)
AskSector ==
  /\ pc = "sector" /\ pa < end_pa
  /\ disk = "ready"
  /\ asked' = Lba(PortBytes(offset)) /\ disk' = "busy"
  /\ pc' = "data"
  /\ UNCHANGED << image, mem, k, pa, end_pa, offset, data >>

(* The byte of the image at position j of a sector. *)
SectorByte(sector, j) == (sector - 1) * SECTSIZE + j

(* Mutant: the second wait is missing. *)
GetSectorAtOnce ==
  /\ pc = "data"
  /\ mem' = [a \in Mem |-> IF a \in pa .. pa + SECTSIZE - 1
                           THEN SectorByte(data, a - pa) ELSE mem[a]]
  /\ pa' = pa + SECTSIZE
  /\ offset' = offset + 1
  /\ pc' = "sector"
  /\ UNCHANGED << image, k, end_pa, drive >>

(* The second waitdisk(), and insl(): a whole sector goes to memory. *)
GetSector ==
  /\ pc = "data" /\ disk = "ready"
  /\ mem' = [a \in Mem |-> IF a \in pa .. pa + SECTSIZE - 1
                           THEN SectorByte(data, a - pa) ELSE mem[a]]
  /\ pa' = pa + SECTSIZE
  /\ offset' = offset + 1
  /\ pc' = "sector"
  /\ UNCHANGED << image, k, end_pa, drive >>

(* The headers are read from the scratch area each time round the loop. *)
HeaderCell(n) == ELFHDR + PhOff + n - 1

Intact(n) == mem[HeaderCell(n)] = PhOff + n - 1

HeadersRead(n) == IF Intact(n) THEN {image.ph[n]}
                  ELSE UNION {{i.ph[j] : j \in 1 .. Len(i.ph)} : i \in Images}

NextSegment ==
  /\ pc = "sector" /\ pa >= end_pa
  /\ k = 0 => image.magic
  /\ k < Len(image.ph)
  /\ \E s \in HeadersRead(k + 1) : ReadSeg(k + 1, s.pa, s.memsz, s.offset)
  /\ UNCHANGED << image, mem, drive >>

Bad ==
  /\ pc = "sector" /\ pa >= end_pa
  /\ k = 0 /\ ~image.magic
  /\ pc' = "bad"
  /\ UNCHANGED << image, mem, k, pa, end_pa, offset, drive >>

Enter ==
  /\ pc = "sector" /\ pa >= end_pa
  /\ k = 0 => image.magic
  /\ k = Len(image.ph)
  /\ pc' = "entry"
  /\ UNCHANGED << image, mem, k, pa, end_pa, offset, drive >>

(* Mutant: the last byte before the BSS is cleared, too. *)
ClearBssEarly ==
  /\ pc = "entry"
  /\ mem' = [a \in Mem |-> IF a + 1 \in Bss(image) THEN Zero ELSE mem[a]]
  /\ pc' = "kernel"
  /\ UNCHANGED << image, k, pa, end_pa, offset, drive >>

(* i386_init(): memset(edata, 0, end - edata) *)
ClearBss ==
  /\ pc = "entry"
  /\ mem' = [a \in Mem |-> IF a \in Bss(image) THEN Zero ELSE mem[a]]
  /\ pc' = "kernel"
  /\ UNCHANGED << image, k, pa, end_pa, offset, drive >>

-----------------------------------------------------------------------------
(* bootmain() is called: the BIOS has read sector 0, the disk may still be busy. *)
Init ==
  /\ image \in Images
  /\ mem = [a \in Mem |-> Other]
  /\ pc = "sector" /\ k = 0
  /\ pa = Down(ELFHDR) /\ end_pa = ELFHDR + HdrSectors * SECTSIZE
  /\ offset = 1
  /\ disk \in {"ready", "busy"} /\ asked = 0 /\ data = 0

Loader == AskSector \/ GetSector \/ NextSegment \/ Bad \/ Enter \/ ClearBss

Next == DiskDone \/ Loader

Spec == Init /\ [][Next]_vars


-----------------------------------------------------------------------------
TypeOK ==
  /\ mem \in [Mem -> Int]
  /\ pc \in {"sector", "data", "bad", "entry", "kernel"}
  /\ k \in 0 .. Len(image.ph)
  /\ pa \in Nat /\ pa % SECTSIZE = 0
  /\ end_pa \in Nat /\ offset \in Nat
  /\ disk \in {"ready", "busy"} /\ asked \in Nat /\ data \in Nat

(***************************************************************************)
(* What insl() reads is the sector that was asked for, not what was in the *)
(* buffer before: readsect() waits for the disk twice.                     *)
(***************************************************************************)
SectorAsked == [][pc = "data" /\ pc' = "sector" => data = offset]_vars

(***************************************************************************)
(* The inductive invariant.  The first page counts as segment 0.  The      *)
(* address in memory and the offset in the image advance together; what is *)
(* below `pa' in the segment at hand is loaded, the segments before it are *)
(* loaded and stay so, although readseg() writes more than it was asked    *)
(* to, and so do the program headers the loop reads.                       *)
(***************************************************************************)
Current == IF k = 0
           THEN [pa |-> ELFHDR, memsz |-> HdrSectors * SECTSIZE,
                 filesz |-> HdrSectors * SECTSIZE, offset |-> 0]
           ELSE image.ph[k]

HoldsByte(s, a) == mem[a] = s.offset + (a - s.pa)

InStep ==
  /\ end_pa = Current.pa + Current.memsz
  /\ Down(Current.pa) <= pa
  /\ SectorByte(offset, 0) - pa = Current.offset - Current.pa

LoadedSoFar ==
  /\ \A a \in InFile(Current) : a < pa => HoldsByte(Current, a)
  /\ \A n \in 1 .. k - 1 : \A a \in InFile(image.ph[n]) : HoldsByte(image.ph[n], a)

HeadersIntact == k > 0 => \A n \in 1 .. Len(image.ph) : Intact(n)

Waiting == pc = "data" => /\ pa < end_pa /\ asked = offset
                          /\ disk = "ready" => data = asked

LoadInv ==
  /\ pc \in {"sector", "data"} => InStep /\ LoadedSoFar /\ HeadersIntact
  /\ Waiting

(***************************************************************************)
(* The kernel runs with all its bytes in place and a BSS of zeros.         *)
(***************************************************************************)
KernelReady ==
  pc \in {"entry", "kernel"} =>
    /\ \A n \in 1 .. Len(image.ph) : \A a \in InFile(image.ph[n]) :
         a \notin Bss(image) => HoldsByte(image.ph[n], a)
    /\ pc = "kernel" => \A a \in Bss(image) : mem[a] = Zero

(***************************************************************************)
(* "Might copy more than asked", but no more than the sectors the segments *)
(* lie in: the loader's own code and stack, which lie elsewhere, survive.  *)
(***************************************************************************)
OnlyWritten ==
  \A a \in Mem : mem[a] # Other =>
    \/ a \in Header \cup Bss(image)
    \/ \E n \in 1 .. Len(image.ph) : a \in Written(image.ph[n].pa, image.ph[n].memsz)

(* The machine comes up, or stops at an image that is no ELF file. *)
Boots == <>(pc \in {"bad", "kernel"})
=============================================================================
