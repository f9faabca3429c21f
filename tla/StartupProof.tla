---------------------------- MODULE StartupProof ----------------------------
(***************************************************************************)
(* The kernel is loaded whole, and the machine gets from the boot sector   *)
(* to i386_init(), for every page size, sector size, memory and set of     *)
(* images that satisfy the assumptions of BootLoader and Startup.          *)
(***************************************************************************)
EXTENDS Startup, TLAPS

-----------------------------------------------------------------------------
(***************************************************************************)
(* Division by the sector size.                                            *)
(***************************************************************************)
(* A number is its quotient times the sector size plus its remainder. *)
LEMMA Division ==
  ASSUME NEW a \in Nat
  PROVE  /\ a \div SECTSIZE \in Nat
         /\ a % SECTSIZE \in 0 .. SECTSIZE - 1
         /\ a = (a \div SECTSIZE) * SECTSIZE + (a % SECTSIZE)
  BY SizesAssumption, SMTT(30)

(* Quotient and remainder are unique. *)
LEMMA Unique ==
  \A s, q, t, p, w \in Nat :
    (t < s /\ w < s /\ q * s + t = p * s + w) => t = w
<1> SUFFICES ASSUME NEW s \in Nat, NEW q \in Nat, NEW t \in Nat, NEW p \in Nat, NEW w \in Nat,
                    t < s, w < s, q * s + t = p * s + w
             PROVE  t = w
  OBVIOUS
<1>1. CASE q < p
  <2>1. PICK d \in Nat : p = q + 1 + d
    BY <1>1, p - q - 1 \in Nat
  <2>2. p * s = q * s + s + d * s
    BY <2>1
  <2>3. d * s \in Nat
    OBVIOUS
  <2> QED BY <2>2, <2>3
<1>2. CASE p < q
  <2>1. PICK d \in Nat : q = p + 1 + d
    BY <1>2, q - p - 1 \in Nat
  <2>2. q * s = p * s + s + d * s
    BY <2>1
  <2>3. d * s \in Nat
    OBVIOUS
  <2> QED BY <2>2, <2>3
<1>3. CASE q = p
  BY <1>3
<1> QED BY <1>1, <1>2, <1>3

(* Down() gives the start of the sector. *)
LEMMA DownFacts ==
  ASSUME NEW a \in Nat
  PROVE  /\ Down(a) \in Nat /\ Down(a) <= a /\ a < Down(a) + SECTSIZE
         /\ Down(a) = (a \div SECTSIZE) * SECTSIZE
  BY Division, SizesAssumption DEF Down

(* A multiple of the sector size has remainder 0, and a number in its sector goes down to it. *)
LEMMA Multiple ==
  ASSUME NEW q \in Nat, NEW a \in q * SECTSIZE .. q * SECTSIZE + SECTSIZE - 1
  PROVE  /\ a % SECTSIZE = a - q * SECTSIZE
         /\ Down(a) = q * SECTSIZE
<1>0. SECTSIZE \in Nat /\ q * SECTSIZE \in Nat
  BY SizesAssumption
<1>1. a \in Nat /\ a - q * SECTSIZE \in Nat /\ a - q * SECTSIZE < SECTSIZE
  BY <1>0
<1>2. a = q * SECTSIZE + (a - q * SECTSIZE)
  BY <1>0, <1>1
<1> DEFINE p == a \div SECTSIZE
           w == a % SECTSIZE
           t == a - q * SECTSIZE
<1>3. p \in Nat /\ w \in Nat /\ w < SECTSIZE /\ a = p * SECTSIZE + w
  BY <1>0, <1>1, Division
<1>4. t \in Nat /\ t < SECTSIZE /\ a = q * SECTSIZE + t
  BY <1>1, <1>2
<1> HIDE DEF p, w, t
<1>5. q * SECTSIZE + t = p * SECTSIZE + w
  BY <1>3, <1>4
<1>6. t = w
  <2>1. SECTSIZE \in Nat /\ q \in Nat /\ t \in Nat /\ p \in Nat /\ w \in Nat
    BY <1>0, <1>3, <1>4
  <2> QED BY <2>1, <1>3, <1>4, <1>5, Unique, Zenon
<1> USE DEF p, w, t
<1>7. a % SECTSIZE = a - q * SECTSIZE
  BY <1>6
<1>8. a - (a - q * SECTSIZE) = q * SECTSIZE
  BY <1>0, <1>1
<1> HIDE DEF p, w, t
<1> QED BY <1>7, <1>8 DEF Down

(* The sectors of memory. *)
LEMMA SameSector ==
  ASSUME NEW p \in Nat, p % SECTSIZE = 0, NEW a \in p .. p + SECTSIZE - 1
  PROVE  Down(a) = p
<1>1. p = (p \div SECTSIZE) * SECTSIZE /\ p \div SECTSIZE \in Nat
  <2>1. p = (p \div SECTSIZE) * SECTSIZE + 0 /\ p \div SECTSIZE \in Nat
    BY Division, Zenon
  <2>2. (p \div SECTSIZE) * SECTSIZE \in Int
    BY <2>1, SizesAssumption
  <2> QED BY <2>1, <2>2
<1> QED BY <1>1, Multiple

LEMMA NextBoundary ==
  ASSUME NEW p \in Nat, p % SECTSIZE = 0
  PROVE  p + SECTSIZE \in Nat /\ (p + SECTSIZE) % SECTSIZE = 0
<1>0. SECTSIZE \in Nat \ {0}
  BY SizesAssumption
<1> DEFINE q == p \div SECTSIZE
<1>1. p = q * SECTSIZE /\ q \in Nat
  <2>1. p = q * SECTSIZE + 0 /\ q \in Nat
    BY Division, Zenon
  <2>2. q * SECTSIZE \in Int
    BY <2>1, <1>0
  <2> QED BY <2>1, <2>2
<1> HIDE DEF q
<1>2. (q + 1) * SECTSIZE = q * SECTSIZE + SECTSIZE /\ q + 1 \in Nat
  BY <1>0, <1>1
<1>3. p + SECTSIZE \in (q + 1) * SECTSIZE .. (q + 1) * SECTSIZE + SECTSIZE - 1
  BY <1>0, <1>1, <1>2
<1>4. (p + SECTSIZE) % SECTSIZE = (p + SECTSIZE) - (q + 1) * SECTSIZE
  BY <1>2, <1>3, Multiple
<1> QED BY <1>4, <1>2, <1>1, <1>0

LEMMA DownIsBoundary ==
  ASSUME NEW a \in Nat
  PROVE  Down(a) % SECTSIZE = 0
<1>0. SECTSIZE \in Nat \ {0}
  BY SizesAssumption
<1>1. Down(a) = (a \div SECTSIZE) * SECTSIZE /\ Down(a) \in Nat /\ a \div SECTSIZE \in Nat
  BY DownFacts, Division
<1>2. Down(a) \in (a \div SECTSIZE) * SECTSIZE .. (a \div SECTSIZE) * SECTSIZE + SECTSIZE - 1
  BY <1>0, <1>1
<1>3. Down(a) % SECTSIZE = Down(a) - (a \div SECTSIZE) * SECTSIZE
  BY <1>1, <1>2, Multiple
<1> QED BY <1>1, <1>3

(***************************************************************************)
(* The sector readseg() starts with is the one that belongs to the address *)
(* it starts at, because offset and address agree modulo the sector size.  *)
(***************************************************************************)
LEMMA StartInStep ==
  ASSUME NEW a \in Nat, NEW off \in Nat, off % SECTSIZE = a % SECTSIZE
  PROVE  /\ off \div SECTSIZE + 1 \in Nat
         /\ SectorByte(off \div SECTSIZE + 1, 0) - Down(a) = off - a
<1>1. off \div SECTSIZE \in Nat /\ off = (off \div SECTSIZE) * SECTSIZE + (off % SECTSIZE)
  BY Division
<1>2. off % SECTSIZE \in Nat
  BY Division
<1>3. Down(a) = a - (off % SECTSIZE)
  BY DEF Down
<1>4. (off \div SECTSIZE + 1) - 1 = off \div SECTSIZE
  BY <1>1
<1>5. SectorByte(off \div SECTSIZE + 1, 0) = (off \div SECTSIZE) * SECTSIZE
  BY <1>1, <1>4, SizesAssumption DEF SectorByte
<1> QED BY <1>1, <1>2, <1>3, <1>5, SizesAssumption

(* Bytes within a sector, and from one sector to the next. *)
LEMMA SectorBytes ==
  ASSUME NEW n \in Nat, NEW j \in Int
  PROVE  /\ SectorByte(n, j) \in Int
         /\ SectorByte(n, j) = SectorByte(n, 0) + j
         /\ SectorByte(n + 1, 0) = SectorByte(n, 0) + SECTSIZE
<1>1. (n + 1) - 1 = (n - 1) + 1
  OBVIOUS
<1>2. ((n - 1) + 1) * SECTSIZE = (n - 1) * SECTSIZE + SECTSIZE
  BY SizesAssumption
<1>3. (n - 1) * SECTSIZE \in Int
  BY SizesAssumption
<1> QED BY <1>1, <1>2, <1>3, SizesAssumption DEF SectorByte

(* A sector that starts below a boundary ends at or below it. *)
LEMMA Boundary ==
  ASSUME NEW p \in Nat, p % SECTSIZE = 0, NEW e \in Nat, e % SECTSIZE = 0, p < e
  PROVE  p + SECTSIZE <= e
<1> SUFFICES ASSUME e < p + SECTSIZE
             PROVE  FALSE
  BY SizesAssumption
<1>1. e \in p .. p + SECTSIZE - 1
  BY SizesAssumption
<1>2. Down(e) = p
  BY <1>1, SameSector
<1>3. Down(e) = e
  BY DEF Down
<1> QED BY <1>2, <1>3

(* The first page ends at a boundary. *)
LEMMA HeaderEnd ==
  /\ HdrSectors * SECTSIZE \in Nat
  /\ (ELFHDR + HdrSectors * SECTSIZE) % SECTSIZE = 0
<1>0. SECTSIZE \in Nat \ {0} /\ ELFHDR \in Nat /\ HdrSectors \in Nat /\ ELFHDR % SECTSIZE = 0
  BY SizesAssumption
<1> DEFINE q == ELFHDR \div SECTSIZE
           e == ELFHDR + HdrSectors * SECTSIZE
<1>1. q \in Nat /\ ELFHDR = q * SECTSIZE
  <2>1. q \in Nat /\ ELFHDR = q * SECTSIZE + 0
    BY <1>0, Division, Zenon
  <2>2. q * SECTSIZE \in Int
    BY <2>1, <1>0
  <2> QED BY <2>1, <2>2
<1> HIDE DEF q
<1>2. e = (q + HdrSectors) * SECTSIZE /\ q + HdrSectors \in Nat /\ e \in Nat
      /\ HdrSectors * SECTSIZE \in Nat
  BY <1>0, <1>1
<1> HIDE DEF e
<1>3. e \in (q + HdrSectors) * SECTSIZE .. (q + HdrSectors) * SECTSIZE + SECTSIZE - 1
  BY <1>0, <1>2
<1>4. e % SECTSIZE = e - (q + HdrSectors) * SECTSIZE
  BY <1>2, <1>3, Multiple, Zenon
<1> QED BY <1>2, <1>4 DEF e

-----------------------------------------------------------------------------
(***************************************************************************)
(* The inductive invariant.                                                *)
(***************************************************************************)
TypeInv == TypeOK /\ image \in Images

IInv == TypeInv /\ LoadInv /\ KernelReady /\ OnlyWritten

(* The number stands by itself, as the provers count up a range that ends in it. *)
LEMMA LastSectorIs ==
  LastSector \in Nat /\ LastSector = 16 * 16777216 - 1
BY SMT DEF LastSector

(* What the assumption says of one segment of an image. *)
LEMMA SegmentFacts ==
  ASSUME NEW i \in Images, NEW n \in 1 .. Len(i.ph)
  PROVE  /\ i.ph \in Seq(Segment)
         /\ i.ph[n].pa \in Nat /\ i.ph[n].memsz \in Nat
         /\ i.ph[n].filesz \in Nat /\ i.ph[n].offset \in Nat
         /\ i.ph[n].filesz <= i.ph[n].memsz
         /\ i.ph[n].offset % SECTSIZE = i.ph[n].pa % SECTSIZE
         /\ i.ph[n].offset + i.ph[n].memsz <= LastSector * SECTSIZE
         /\ Written(i.ph[n].pa, i.ph[n].memsz) \cap Header = {}
         /\ \A later \in n + 1 .. Len(i.ph) :
              InFile(i.ph[n]) \cap Written(i.ph[later].pa, i.ph[later].memsz) = {}
<1>1. GoodImage(i)
  BY ImagesAssumption
<1>2. i.ph \in Seq(Segment)
  BY <1>1 DEF GoodImage
<1>3. i.ph[n] \in Segment
  BY <1>2
<1>4. i.ph[n].pa \in Nat /\ i.ph[n].memsz \in Nat /\ i.ph[n].filesz \in Nat /\ i.ph[n].offset \in Nat
  BY <1>3 DEF Segment
<1> QED BY <1>1, <1>2, <1>4, Zenon DEF GoodImage

(* The bytes of the file part of a segment are in memory. *)
LEMMA FileInMemory ==
  ASSUME NEW i \in Images, NEW n \in 1 .. Len(i.ph)
  PROVE  InFile(i.ph[n]) \subseteq Mem
<1>1. i.ph[n].pa + i.ph[n].memsz + SECTSIZE <= MemSize
  BY ImagesAssumption DEF GoodImage
<1>2. /\ i.ph[n].pa \in Nat /\ i.ph[n].memsz \in Nat /\ i.ph[n].filesz \in Nat
      /\ i.ph[n].filesz <= i.ph[n].memsz
  BY SegmentFacts
<1>3. SECTSIZE \in Nat /\ MemSize \in Nat
  BY SizesAssumption
<1>4. \A a \in InFile(i.ph[n]) : a \in Nat /\ a < i.ph[n].pa + i.ph[n].filesz
  BY <1>2 DEF InFile
<1>5. i.ph[n].pa + i.ph[n].filesz <= MemSize
  BY <1>1, <1>2, <1>3
<1> QED BY <1>2, <1>3, <1>4, <1>5 DEF Mem

(* The segment at hand, the first page included. *)
LEMMA CurrentFacts ==
  ASSUME TypeInv
  PROVE  /\ Current.pa \in Nat /\ Current.memsz \in Nat
         /\ Current.filesz \in Nat /\ Current.offset \in Nat
         /\ Current.filesz <= Current.memsz
         /\ Current.offset + Current.memsz <= LastSector * SECTSIZE
<1>1. CASE k = 0
  <2>1. /\ HdrSectors \in Nat /\ HdrSectors <= LastSector /\ LastSector \in Nat /\ SECTSIZE \in Nat
        /\ ELFHDR \in Nat
    BY SizesAssumption, LastSectorIs, SMT
  <2>2. HdrSectors * SECTSIZE <= LastSector * SECTSIZE /\ HdrSectors * SECTSIZE \in Nat
    <3>1. PICK d \in Nat : LastSector = HdrSectors + d
      BY <2>1, LastSector - HdrSectors \in Nat
    <3>2. LastSector * SECTSIZE = HdrSectors * SECTSIZE + d * SECTSIZE /\ d * SECTSIZE \in Nat
      BY <2>1, <3>1
    <3> QED BY <2>1, <3>2
  <2> QED BY <1>1, <2>1, <2>2 DEF Current
<1>2. CASE k # 0
  <2>1. k \in 1 .. Len(image.ph) /\ image \in Images
    <3>1. k \in 0 .. Len(image.ph) /\ image \in Images
      BY DEF TypeInv, TypeOK
    <3> QED BY <3>1, <1>2
  <2>2. Current = image.ph[k]
    BY <1>2 DEF Current
  <2> QED BY <2>1, <2>2, SegmentFacts
<1> QED BY <1>1, <1>2

(* The disk gets the number that was meant, if 28 bits are enough for it. *)
LEMMA NumberArrives ==
  ASSUME NEW n \in Nat, n <= LastSector
  PROVE  Lba(PortBytes(n)) = n
<1>1. n \in Nat /\ n < 16 * 16777216
  BY LastSectorIs, SMT
<1> DEFINE n1 == n \div 256
           n2 == n \div 65536
           n3 == n \div 16777216
<1>2. /\ n = 256 * n1 + (n % 256) /\ n1 = 256 * n2 + (n1 % 256) /\ n2 = 256 * n3 + (n2 % 256)
      /\ n1 \in Nat /\ n2 \in Nat /\ n3 \in 0 .. 15 /\ n % 256 \in Nat
      /\ n1 % 256 \in Nat /\ n2 % 256 \in Nat
  BY <1>1, SMT
<1>3. Lba(PortBytes(n)) = (n % 256) + 256 * (n1 % 256) + 65536 * (n2 % 256)
                           + 16777216 * ((224 + (n3 % 32)) % 16)
  BY SMT DEF Lba, PortBytes
<1> HIDE DEF n1, n2, n3
<1>4. (224 + (n3 % 32)) % 16 = n3
  BY <1>2, SMT
<1> QED BY <1>1, <1>2, <1>3, <1>4, SMT

(* It is enough for every sector readseg() asks for. *)
LEMMA AsksRight ==
  ASSUME TypeInv, InStep, pa < end_pa
  PROVE  Lba(PortBytes(offset)) = offset
<1>1. /\ pa \in Nat /\ offset \in Nat /\ SECTSIZE \in Nat \ {0} /\ LastSector \in Nat
  BY SizesAssumption, LastSectorIs, SMT DEF TypeInv, TypeOK
<1> DEFINE o == Current.offset
           c == Current.pa
           m == Current.memsz
<1>2. o \in Nat /\ c \in Nat /\ m \in Nat /\ o + m <= LastSector * SECTSIZE
  BY CurrentFacts
<1>3. (offset - 1) * SECTSIZE + 0 - pa = o - c /\ pa < c + m
  BY <1>1 DEF InStep, SectorByte
<1> HIDE DEF o, c, m
<1>4. (offset - 1) * SECTSIZE < LastSector * SECTSIZE
  <2>1. (offset - 1) * SECTSIZE \in Int /\ LastSector * SECTSIZE \in Int
    BY <1>1
  <2> QED BY <1>1, <1>2, <1>3, <2>1
<1>5. offset <= LastSector
  <2> SUFFICES ASSUME offset > LastSector
               PROVE  FALSE
    BY <1>1
  <2>1. PICK d \in Nat : offset - 1 = LastSector + d
    BY <1>1, (offset - 1) - LastSector \in Nat
  <2>2. (offset - 1) * SECTSIZE = LastSector * SECTSIZE + d * SECTSIZE /\ d * SECTSIZE \in Nat
    BY <1>1, <2>1
  <2>3. LastSector * SECTSIZE \in Nat
    BY <1>1
  <2> QED BY <1>4, <2>2, <2>3
<1> QED BY <1>1, <1>5, NumberArrives

(* The invariant holds initially. *)
LEMMA InitInv == Init => IInv
<1> SUFFICES ASSUME Init
             PROVE  IInv
  OBVIOUS
<1> USE DEF Init
<1>0. SECTSIZE \in Nat \ {0} /\ ELFHDR \in Nat /\ HdrSectors \in Nat /\ ELFHDR % SECTSIZE = 0
  BY SizesAssumption
<1>1. Down(ELFHDR) = ELFHDR
  BY <1>0 DEF Down
<1>2. image.ph \in Seq(Segment) /\ Len(image.ph) \in Nat
  BY ImagesAssumption DEF GoodImage
<1>3. TypeInv
  BY <1>0, <1>1, <1>2, HeaderEnd DEF TypeInv, TypeOK, Other
<1>4. SectorByte(1, 0) = 0
  BY <1>0 DEF SectorByte
<1>5. InStep
  BY <1>0, <1>1, <1>4 DEF InStep, Current
<1>6. LoadedSoFar
  BY <1>0, <1>1, HeaderEnd DEF LoadedSoFar, Current, InFile
<1>7. LoadInv
  BY <1>5, <1>6 DEF LoadInv, HeadersIntact, Waiting
<1>8. KernelReady /\ OnlyWritten
  BY DEF KernelReady, OnlyWritten
<1> QED BY <1>3, <1>7, <1>8 DEF IInv

-----------------------------------------------------------------------------
(***************************************************************************)
(* One lemma for each step that does more than leave the memory alone.     *)
(***************************************************************************)

(* Where insl() writes belongs to the sectors of the segment at hand. *)
LEMMA SectorOfCurrent ==
  ASSUME TypeInv, InStep, pa < end_pa, NEW a \in Mem, a \in pa .. pa + SECTSIZE - 1
  PROVE  a \in Written(Current.pa, Current.memsz)
<1>1. pa \in Nat /\ pa % SECTSIZE = 0
  BY DEF TypeInv, TypeOK
<1>2. Down(a) = pa
  BY <1>1, SameSector, Zenon
<1>3. a >= pa /\ Down(Current.pa) <= pa /\ pa < Current.pa + Current.memsz
  BY <1>1 DEF InStep
<1>4. Down(Current.pa) \in Nat /\ a \in Nat
  BY CurrentFacts, DownFacts DEF Mem
<1>5. Down(Current.pa) <= a
  BY <1>1, <1>3, <1>4
<1> QED BY <1>2, <1>3, <1>5 DEF Written

(* ... and to the scratch area, if that is the first page. *)
LEMMA SectorOfHeader ==
  ASSUME TypeInv, InStep, pa < end_pa, k = 0, NEW a \in pa .. pa + SECTSIZE - 1
  PROVE  a \in Header
<1>0. SECTSIZE \in Nat \ {0} /\ ELFHDR \in Nat /\ HdrSectors * SECTSIZE \in Nat
      /\ ELFHDR % SECTSIZE = 0
  BY SizesAssumption, HeaderEnd
<1> DEFINE e == ELFHDR + HdrSectors * SECTSIZE
<1>1. pa \in Nat /\ pa % SECTSIZE = 0
  BY DEF TypeInv, TypeOK
<1>2. e \in Nat /\ e % SECTSIZE = 0
  BY <1>0, HeaderEnd
<1>3. pa < e
  BY DEF InStep, Current
<1>4. pa + SECTSIZE <= e
  <2> HIDE DEF e
  <2> QED BY <1>1, <1>2, <1>3, Boundary, Zenon
<1>5. Down(ELFHDR) = ELFHDR
  BY <1>0 DEF Down
<1>6. ELFHDR <= pa
  BY <1>5 DEF InStep, Current
<1> QED BY <1>0, <1>1, <1>4, <1>6 DEF Header

(* A file byte of an earlier segment is in none of the sectors of a later one. *)
LEMMA EarlierApart ==
  ASSUME NEW i \in Images, NEW j \in 1 .. Len(i.ph), NEW n \in 1 .. j - 1,
         NEW a \in InFile(i.ph[n])
  PROVE  a \notin Written(i.ph[j].pa, i.ph[j].memsz)
<1>1. Len(i.ph) \in Nat
  BY ImagesAssumption DEF GoodImage
<1>2. n \in 1 .. Len(i.ph) /\ j \in n + 1 .. Len(i.ph)
  BY <1>1
<1>3. InFile(i.ph[n]) \cap Written(i.ph[j].pa, i.ph[j].memsz) = {}
  BY <1>2, SegmentFacts
<1> QED BY <1>3

(* The cell of a program header is in the first page. *)
LEMMA HeaderCells ==
  ASSUME NEW i \in Images, NEW n \in 1 .. Len(i.ph)
  PROVE  HeaderCell(n) \in Header /\ HeaderCell(n) \in Mem
<1>1. Len(i.ph) \in Nat /\ PhOff + Len(i.ph) <= HdrSectors * SECTSIZE
  BY ImagesAssumption DEF GoodImage
<1>2. ELFHDR \in Nat /\ PhOff \in Nat \ {0} /\ HdrSectors * SECTSIZE \in Nat /\ MemSize \in Nat
      /\ ELFHDR + HdrSectors * SECTSIZE <= MemSize
  BY SizesAssumption, HeaderEnd
<1> DEFINE h == HdrSectors * SECTSIZE
<1>3. h \in Nat /\ PhOff + Len(i.ph) <= h /\ ELFHDR + h <= MemSize
  BY <1>1, <1>2
<1> HIDE DEF h
<1>4. HeaderCell(n) \in ELFHDR .. ELFHDR + h - 1
  BY <1>1, <1>2, <1>3 DEF HeaderCell
<1>5. HeaderCell(n) \in Mem
  BY <1>2, <1>3, <1>4 DEF Mem
<1> QED BY <1>4, <1>5 DEF Header, h

(* insl() keeps what is loaded and loads a sector more. *)
LEMMA GetSectorInv ==
  ASSUME IInv, GetSector
  PROVE  IInv'
<1>0. /\ TypeInv /\ InStep /\ LoadedSoFar /\ HeadersIntact /\ KernelReady /\ OnlyWritten
      /\ pa < end_pa /\ data = offset
      /\ pa \in Nat /\ pa % SECTSIZE = 0 /\ offset \in Nat /\ end_pa \in Nat
      /\ image \in Images /\ k \in 0 .. Len(image.ph)
      /\ mem \in [Mem -> Int]
      /\ SECTSIZE \in Nat \ {0} /\ MemSize \in Nat
  BY SizesAssumption DEF IInv, TypeInv, TypeOK, LoadInv, Waiting, GetSector
<1> DEFINE New == pa .. pa + SECTSIZE - 1
<1>1. /\ mem' = [a \in Mem |-> IF a \in New THEN SectorByte(data, a - pa) ELSE mem[a]]
      /\ pa' = pa + SECTSIZE /\ offset' = offset + 1 /\ pc' = "sector"
      /\ UNCHANGED << image, k, end_pa, disk, asked, data >>
  BY DEF GetSector, drive
<1>2. \A a \in Mem : /\ a \in New => mem'[a] = SectorByte(offset, 0) + (a - pa)
                     /\ a \notin New => mem'[a] = mem[a]
  <2> TAKE a \in Mem
  <2>1. a - pa \in Int /\ (a \in New => SectorByte(offset, a - pa) = SectorByte(offset, 0) + (a - pa))
    BY <1>0, SectorBytes DEF Mem
  <2>2. mem'[a] = IF a \in New THEN SectorByte(data, a - pa) ELSE mem[a]
    BY <1>1
  <2> QED BY <1>0, <2>1, <2>2
<1>3. Current' = Current
  BY <1>1 DEF Current
<1>4. TypeInv'
  <2>1. pa' \in Nat /\ pa' % SECTSIZE = 0
    BY <1>0, <1>1, NextBoundary
  <2>2. mem' \in [Mem -> Int]
    <3>1. ASSUME NEW a \in Mem
          PROVE  (IF a \in New THEN SectorByte(data, a - pa) ELSE mem[a]) \in Int
      <4>1. a - pa \in Int
        BY <1>0 DEF Mem
      <4>2. SectorByte(data, a - pa) \in Int
        BY <1>0, <4>1, SectorBytes
      <4> QED BY <1>0, <4>2
    <3> QED BY <1>1, <3>1
  <2> QED BY <1>0, <1>1, <2>1, <2>2 DEF TypeInv, TypeOK
<1>5. InStep'
  <2>1. /\ Current.pa \in Nat /\ Current.offset \in Nat /\ Down(Current.pa) \in Nat
    BY <1>0, CurrentFacts, DownFacts
  <2>2. SectorByte(offset + 1, 0) = SectorByte(offset, 0) + SECTSIZE /\ SectorByte(offset, 0) \in Int
    <3>1. 0 \in Int /\ offset \in Nat
      BY <1>0
    <3> QED BY <3>1, SectorBytes, Zenon
  <2>3. SectorByte(offset + 1, 0) - (pa + SECTSIZE) = Current.offset - Current.pa
    BY <1>0, <2>1, <2>2 DEF InStep
  <2>4. Down(Current.pa) <= pa + SECTSIZE
    BY <1>0, <2>1 DEF InStep
  <2> QED BY <1>0, <1>1, <1>3, <2>3, <2>4 DEF InStep
<1>6. ASSUME NEW a \in InFile(Current), a < pa'
      PROVE  HoldsByte(Current, a)'
  <2>1. /\ Current.pa \in Nat /\ Current.offset \in Nat /\ Current.filesz \in Nat
        /\ SectorByte(offset, 0) \in Int
    <3>1. 0 \in Int /\ SectorByte(offset, 0) \in Int
      BY <1>0, SectorBytes
    <3> QED BY <1>0, <3>1, CurrentFacts
  <2>2. a \in Nat
    BY <2>1 DEF InFile
  <2>3. a \in Mem
    <3>1. CASE k = 0
      <4> DEFINE h == HdrSectors * SECTSIZE
      <4>1. /\ h \in Nat /\ ELFHDR \in Nat /\ MemSize \in Nat /\ ELFHDR + h <= MemSize
            /\ Current.pa = ELFHDR /\ Current.filesz = h
        BY <3>1, SizesAssumption, HeaderEnd DEF Current
      <4> HIDE DEF h
      <4>2. a \in ELFHDR .. ELFHDR + h - 1
        BY <4>1 DEF InFile
      <4> QED BY <4>1, <4>2 DEF Mem
    <3>2. CASE k # 0
      <4>1. k \in 1 .. Len(image.ph) /\ a \in InFile(image.ph[k])
        BY <1>0, <3>2 DEF Current
      <4> QED BY <1>0, <4>1, FileInMemory
    <3> QED BY <3>1, <3>2
  <2>4. CASE a \in New
    <3>1. mem'[a] = SectorByte(offset, 0) + (a - pa)
      BY <1>2, <2>3, <2>4
    <3>2. SectorByte(offset, 0) - pa = Current.offset - Current.pa
      BY <1>0 DEF InStep
    <3> DEFINE b == SectorByte(offset, 0)
               o == Current.offset
               c == Current.pa
    <3>3. b + (a - pa) = o + (a - c)
      <4>1. pa \in Nat /\ a \in Nat /\ o \in Nat /\ c \in Nat /\ b \in Int /\ b - pa = o - c
        BY <1>0, <2>1, <2>2, <3>2
      <4> HIDE DEF b, o, c
      <4> QED BY <4>1
    <3>4. mem'[a] = Current.offset + (a - Current.pa)
      BY <3>1, <3>3
    <3> QED BY <3>4, <1>3 DEF HoldsByte
  <2>5. CASE a \notin New
    <3>1. a < pa
      BY <1>0, <1>1, <1>6, <2>2, <2>5
    <3>2. HoldsByte(Current, a)
      BY <1>0, <1>6, <3>1 DEF LoadedSoFar
    <3> QED BY <3>2, <1>2, <1>3, <2>3, <2>5 DEF HoldsByte
  <2> QED BY <2>4, <2>5
<1>7. ASSUME NEW n \in 1 .. k - 1, NEW a \in InFile(image.ph[n])
      PROVE  HoldsByte(image.ph[n], a)'
  <2>1. k \in 1 .. Len(image.ph) /\ n \in 1 .. Len(image.ph) /\ k # 0
    BY <1>0
  <2>2. a \in Mem
    BY <1>0, <2>1, FileInMemory
  <2>3. Current = image.ph[k]
    BY <2>1 DEF Current
  <2>4. a \notin Written(Current.pa, Current.memsz)
    BY <1>0, <2>1, <2>3, EarlierApart
  <2>5. a \notin New
    BY <1>0, <2>2, <2>4, SectorOfCurrent
  <2>6. HoldsByte(image.ph[n], a)
    BY <1>0 DEF LoadedSoFar
  <2> QED BY <1>1, <1>2, <2>2, <2>5, <2>6 DEF HoldsByte
<1>8. LoadedSoFar'
  <2>1. \A a \in InFile(Current) : a < pa' => HoldsByte(Current, a)'
    BY <1>6
  <2>2. \A n \in 1 .. k - 1 : \A a \in InFile(image.ph[n]) : HoldsByte(image.ph[n], a)'
    BY <1>7
  <2>3. InFile(Current)' = InFile(Current)
    BY <1>3 DEF InFile
  <2>4. k' = k /\ image' = image
    BY <1>1
  <2> QED BY <2>1, <2>2, <2>3, <2>4, <1>3 DEF LoadedSoFar, HoldsByte, InFile
<1>9. HeadersIntact'
  <2> SUFFICES ASSUME k > 0, NEW n \in 1 .. Len(image.ph)
               PROVE  Intact(n)'
    BY <1>1 DEF HeadersIntact
  <2>1. HeaderCell(n) \in Header /\ HeaderCell(n) \in Mem
    BY <1>0, HeaderCells
  <2>2. k \in 1 .. Len(image.ph) /\ Current = image.ph[k]
    BY <1>0 DEF Current
  <2>3. Written(Current.pa, Current.memsz) \cap Header = {}
    BY <1>0, <2>2, SegmentFacts
  <2>4. HeaderCell(n) \notin New
    BY <1>0, <2>1, <2>3, SectorOfCurrent
  <2>5. Intact(n)
    BY <1>0 DEF HeadersIntact
  <2> QED BY <1>2, <2>1, <2>4, <2>5 DEF Intact, HeaderCell
<1>10. KernelReady'
  BY <1>1 DEF KernelReady
<1>11. OnlyWritten'
  <2> SUFFICES ASSUME NEW a \in Mem, mem'[a] # Other
               PROVE  \/ a \in Header \cup Bss(image)
                      \/ \E n \in 1 .. Len(image.ph) :
                           a \in Written(image.ph[n].pa, image.ph[n].memsz)
    BY <1>1 DEF OnlyWritten, Bss
  <2>1. CASE a \notin New
    BY <1>0, <1>2, <2>1 DEF OnlyWritten
  <2>2. CASE a \in New /\ k = 0
    BY <1>0, <2>2, SectorOfHeader
  <2>3. CASE a \in New /\ k # 0
    <3>1. k \in 1 .. Len(image.ph) /\ Current = image.ph[k]
      BY <1>0, <2>3 DEF Current
    <3>2. a \in Written(Current.pa, Current.memsz)
      BY <1>0, <2>3, SectorOfCurrent
    <3> QED BY <3>1, <3>2
  <2> QED BY <2>1, <2>2, <2>3
<1>12. Waiting'
  BY <1>1 DEF Waiting
<1> QED BY <1>4, <1>5, <1>8, <1>9, <1>10, <1>11, <1>12 DEF IInv, LoadInv

(* When the first page is read, its program headers are in the scratch area. *)
LEMMA HeadersLoaded ==
  ASSUME IInv, pc = "sector", pa >= end_pa, NEW n \in 1 .. Len(image.ph)
  PROVE  Intact(n)
<1>1. TypeInv /\ InStep /\ LoadedSoFar /\ HeadersIntact /\ image \in Images
      /\ k \in 0 .. Len(image.ph) /\ pa \in Nat /\ end_pa \in Nat
  BY DEF IInv, TypeInv, TypeOK, LoadInv
<1>2. CASE k > 0
  BY <1>1, <1>2 DEF HeadersIntact
<1>3. CASE k = 0
  <2> DEFINE h == HdrSectors * SECTSIZE
             c == HeaderCell(n)
  <2>1. /\ h \in Nat /\ ELFHDR \in Nat /\ PhOff \in Nat
        /\ Current.pa = ELFHDR /\ Current.filesz = h /\ Current.memsz = h /\ Current.offset = 0
    BY <1>3, SizesAssumption, HeaderEnd DEF Current
  <2>2. c \in Header
    BY <1>1, HeaderCells
  <2>3. c \in InFile(Current)
    BY <2>1, <2>2 DEF InFile, Header
  <2>4. c < pa
    <3>1. end_pa = ELFHDR + h
      BY <1>1, <2>1 DEF InStep
    <3>2. c \in ELFHDR .. ELFHDR + h - 1
      BY <2>2 DEF Header
    <3> HIDE DEF h, c
    <3> QED BY <1>1, <2>1, <3>1, <3>2
  <2>5. mem[c] = 0 + (c - ELFHDR)
    BY <1>1, <2>1, <2>3, <2>4 DEF LoadedSoFar, HoldsByte
  <2>6. c = ELFHDR + PhOff + n - 1
    BY DEF HeaderCell
  <2> HIDE DEF c
  <2>7. 0 + (c - ELFHDR) = PhOff + n - 1
    BY <2>1, <2>6
  <2> QED BY <2>5, <2>7 DEF Intact, c
<1> QED BY <1>1, <1>2, <1>3

(* Once pa has reached end_pa, the segment at hand is loaded. *)
LEMMA CurrentLoaded ==
  ASSUME IInv, pc = "sector", pa >= end_pa,
         NEW n \in 1 .. k, NEW a \in InFile(image.ph[n])
  PROVE  HoldsByte(image.ph[n], a)
<1>1. TypeInv /\ InStep /\ LoadedSoFar /\ image \in Images
      /\ k \in 0 .. Len(image.ph) /\ pa \in Nat
  BY DEF IInv, TypeInv, TypeOK, LoadInv
<1>2. CASE n \in 1 .. k - 1
  BY <1>1, <1>2 DEF LoadedSoFar
<1>3. CASE n = k
  <2>1. Current = image.ph[n] /\ k # 0
    BY <1>1, <1>3 DEF Current
  <2>2. /\ Current.pa \in Nat /\ Current.memsz \in Nat /\ Current.filesz \in Nat
        /\ Current.filesz <= Current.memsz
    BY <1>1, CurrentFacts
  <2>3. a \in Current.pa .. Current.pa + Current.filesz - 1
    BY <2>1 DEF InFile
  <2>4. end_pa = Current.pa + Current.memsz
    BY <1>1 DEF InStep
  <2>5. a < pa
    BY <1>1, <2>2, <2>3, <2>4
  <2> QED BY <1>1, <2>1, <2>5 DEF LoadedSoFar
<1> QED BY <1>1, <1>2, <1>3

(* readseg() starts in step with the segment whose header is read. *)
LEMMA NextSegmentInv ==
  ASSUME IInv, NextSegment
  PROVE  IInv'
<1>0. /\ TypeInv /\ KernelReady /\ OnlyWritten /\ InStep
      /\ image \in Images /\ k \in 0 .. Len(image.ph) /\ Len(image.ph) \in Nat
      /\ pc = "sector" /\ pa >= end_pa /\ k < Len(image.ph)
      /\ UNCHANGED << image, mem, disk, asked, data >>
  BY ImagesAssumption DEF IInv, TypeInv, TypeOK, LoadInv, NextSegment, drive, GoodImage
<1> DEFINE m == k + 1
           s == image.ph[m]
<1>1. m \in 1 .. Len(image.ph) /\ m # 0 /\ m - 1 = k
  BY <1>0
<1>2. /\ s.pa \in Nat /\ s.memsz \in Nat /\ s.filesz \in Nat /\ s.offset \in Nat
      /\ s.offset % SECTSIZE = s.pa % SECTSIZE
  BY <1>0, <1>1, SegmentFacts
<1>3. Intact(m)
  BY <1>0, <1>1, HeadersLoaded
<1>4. ReadSeg(m, s.pa, s.memsz, s.offset)
  BY <1>3 DEF NextSegment, HeadersRead
<1>5. /\ k' = m /\ end_pa' = s.pa + s.memsz /\ pa' = Down(s.pa)
      /\ offset' = (s.offset \div SECTSIZE) + 1 /\ pc' = "sector"
  BY <1>4 DEF ReadSeg
<1>6. Current' = s
  BY <1>0, <1>1, <1>5 DEF Current
<1>7. TypeInv'
  <2>1. pa' \in Nat /\ pa' % SECTSIZE = 0
    BY <1>2, <1>5, DownFacts, DownIsBoundary
  <2>2. offset' \in Nat /\ end_pa' \in Nat
    BY <1>2, <1>5, StartInStep
  <2> HIDE DEF m
  <2> QED BY <1>0, <1>1, <1>5, <2>1, <2>2 DEF TypeInv, TypeOK
<1>8. InStep'
  <2>1. SectorByte((s.offset \div SECTSIZE) + 1, 0) - Down(s.pa) = s.offset - s.pa
    BY <1>2, StartInStep
  <2>2. Down(s.pa) \in Nat
    BY <1>2, DownFacts
  <2>3. SectorByte(offset', 0) - pa' = s.offset - s.pa /\ Down(s.pa) <= pa'
    BY <1>5, <2>1, <2>2
  <2> HIDE DEF s
  <2> QED BY <1>5, <1>6, <2>3 DEF InStep, SectorByte, Down
<1>9. LoadedSoFar'
  <2>1. \A a \in InFile(s) : ~(a < pa')
    BY <1>2, <1>5, DownFacts DEF InFile
  <2>2. ASSUME NEW n \in 1 .. m - 1, NEW a \in InFile(image.ph[n])
        PROVE  HoldsByte(image.ph[n], a)'
    <3>1. n \in 1 .. k
      BY <1>1
    <3>2. HoldsByte(image.ph[n], a)
      BY <1>0, <3>1, CurrentLoaded
    <3> QED BY <1>0, <3>2 DEF HoldsByte
  <2> HIDE DEF s, m
  <2> QED BY <1>0, <1>5, <1>6, <2>1, <2>2 DEF LoadedSoFar, InFile, HoldsByte
<1>10. HeadersIntact'
  <2>1. \A n \in 1 .. Len(image.ph) : Intact(n)
    BY <1>0, HeadersLoaded
  <2> QED BY <1>0, <2>1 DEF HeadersIntact, Intact, HeaderCell
<1>11. KernelReady' /\ Waiting'
  BY <1>5 DEF KernelReady, Waiting
<1>12. OnlyWritten'
  BY <1>0 DEF OnlyWritten, Bss
<1> QED BY <1>7, <1>8, <1>9, <1>10, <1>11, <1>12 DEF IInv, LoadInv

(* The loader jumps to the entry of a kernel that is loaded whole. *)
LEMMA EnterInv ==
  ASSUME IInv, Enter
  PROVE  IInv'
<1>1. /\ TypeInv /\ OnlyWritten /\ pc = "sector" /\ pa >= end_pa
      /\ k = Len(image.ph) /\ pc' = "entry"
      /\ UNCHANGED << image, mem, k, pa, end_pa, offset, disk, asked, data >>
  BY DEF IInv, Enter, drive
<1>2. TypeInv' /\ LoadInv' /\ OnlyWritten'
  BY <1>1 DEF TypeInv, TypeOK, LoadInv, Waiting, OnlyWritten, Bss
<1>3. ASSUME NEW n \in 1 .. Len(image.ph), NEW a \in InFile(image.ph[n])
      PROVE  HoldsByte(image.ph[n], a)'
  <2>1. HoldsByte(image.ph[n], a)
    BY <1>1, CurrentLoaded
  <2> QED BY <1>1, <2>1 DEF HoldsByte
<1>4. KernelReady'
  BY <1>1, <1>3 DEF KernelReady, HoldsByte, InFile, Bss
<1> QED BY <1>2, <1>4 DEF IInv

(* Clearing the BSS keeps the rest of the kernel. *)
LEMMA ClearBssInv ==
  ASSUME IInv, ClearBss
  PROVE  IInv'
<1>1. /\ TypeInv /\ OnlyWritten /\ KernelReady /\ pc = "entry" /\ pc' = "kernel"
      /\ image \in Images /\ mem \in [Mem -> Int]
      /\ mem' = [a \in Mem |-> IF a \in Bss(image) THEN Zero ELSE mem[a]]
      /\ UNCHANGED << image, k, pa, end_pa, offset, disk, asked, data >>
  BY DEF IInv, ClearBss, drive, TypeInv, TypeOK
<1>2. Bss(image) \subseteq Mem
  BY <1>1, ImagesAssumption, SizesAssumption DEF GoodImage, Bss, Mem
<1>3. TypeInv'
  <2>1. mem' \in [Mem -> Int]
    BY <1>1 DEF Zero
  <2> QED BY <1>1, <2>1 DEF TypeInv, TypeOK
<1>4. LoadInv'
  BY <1>1 DEF LoadInv, Waiting
<1>5. KernelReady'
  <2>1. ASSUME NEW n \in 1 .. Len(image.ph), NEW a \in InFile(image.ph[n]), a \notin Bss(image)
        PROVE  HoldsByte(image.ph[n], a)'
    <3>1. a \in Mem /\ HoldsByte(image.ph[n], a)
      BY <1>1, <2>1, FileInMemory DEF KernelReady
    <3> QED BY <1>1, <2>1, <3>1 DEF HoldsByte
  <2>2. \A a \in Bss(image) : mem'[a] = Zero
    BY <1>1, <1>2
  <2> QED BY <1>1, <2>1, <2>2 DEF KernelReady, HoldsByte, InFile, Bss
<1>6. OnlyWritten'
  <2> SUFFICES ASSUME NEW a \in Mem, mem'[a] # Other
               PROVE  \/ a \in Header \cup Bss(image)
                      \/ \E n \in 1 .. Len(image.ph) :
                           a \in Written(image.ph[n].pa, image.ph[n].memsz)
    BY <1>1 DEF OnlyWritten, Bss
  <2> QED BY <1>1 DEF OnlyWritten
<1> QED BY <1>3, <1>4, <1>5, <1>6 DEF IInv

(* The steps that leave the memory and the segment at hand alone. *)
LEMMA DiskInv ==
  ASSUME IInv, AskSector \/ DiskDone \/ Bad \/ UNCHANGED vars
  PROVE  IInv'
<1>1. UNCHANGED << image, mem, k, pa, end_pa, offset >>
  BY DEF AskSector, DiskDone, Bad, vars, loader, drive
<1>2. TypeInv /\ LoadInv /\ KernelReady /\ OnlyWritten
  BY DEF IInv
<1>10. AskSector => asked' = offset
  <2> SUFFICES ASSUME AskSector
               PROVE  asked' = offset
    OBVIOUS
  <2>1. /\ pc = "sector" /\ pa < end_pa /\ asked' = Lba(PortBytes(offset))
    BY DEF AskSector
  <2>2. InStep
    BY <1>2, <2>1 DEF LoadInv
  <2> QED BY <1>2, <2>1, <2>2, AsksRight
<1>3. TypeInv'
  BY <1>1, <1>2, <1>10 DEF TypeInv, TypeOK, AskSector, DiskDone, Bad, vars, loader, drive
<1>4. pc' \in {"sector", "data"} => pc \in {"sector", "data"}
  BY DEF AskSector, DiskDone, Bad, vars, loader, drive
<1>5. /\ InStep' = InStep /\ LoadedSoFar' = LoadedSoFar /\ HeadersIntact' = HeadersIntact
  BY <1>1 DEF InStep, LoadedSoFar, HeadersIntact, Current, InFile, HoldsByte, Intact,
              HeaderCell, SectorByte, Down
<1>6. Waiting'
  BY <1>2, <1>10 DEF LoadInv, Waiting, AskSector, DiskDone, Bad, vars, loader, drive
<1>7. LoadInv'
  BY <1>2, <1>4, <1>5, <1>6 DEF LoadInv
<1>8. KernelReady'
  <2>1. pc' \in {"entry", "kernel"} => pc' = pc
    BY DEF AskSector, DiskDone, Bad, vars, loader, drive
  <2> QED BY <1>1, <1>2, <2>1 DEF KernelReady, InFile, Bss, HoldsByte
<1>9. OnlyWritten'
  BY <1>1, <1>2 DEF OnlyWritten, Bss
<1> QED BY <1>3, <1>7, <1>8, <1>9 DEF IInv

-----------------------------------------------------------------------------
(* Every step of the loader and of the disk keeps the inductive invariant. *)
LEMMA NextInv == IInv /\ [Next]_vars => IInv'
  BY DiskInv, GetSectorInv, NextSegmentInv, EnterInv, ClearBssInv DEF Next, Loader

(* Every behaviour of the loader keeps it. *)
THEOREM Invariance == Spec => []IInv
<1> QED BY InitInv, NextInv, PTL DEF Spec

(* The variables keep their types. *)
THEOREM TypeCorrect == Spec => []TypeOK
<1>1. IInv => TypeOK
  BY DEF IInv, TypeInv
<1> QED BY Invariance, <1>1, PTL

(***************************************************************************)
(* While readseg() runs, address and sector stay in step, and what has     *)
(* been loaded, the program headers included, is still there.              *)
(***************************************************************************)
THEOREM LoadStaysIntact == Spec => []LoadInv
<1>1. IInv => LoadInv
  BY DEF IInv
<1> QED BY Invariance, <1>1, PTL

(* The kernel is entered with all its bytes in place and runs with a BSS of zeros. *)
THEOREM KernelIsReady == Spec => []KernelReady
<1>1. IInv => KernelReady
  BY DEF IInv
<1> QED BY Invariance, <1>1, PTL

(***************************************************************************)
(* "Might copy more than asked", but nothing outside the sectors of the    *)
(* segments, the scratch area and the BSS is written.                      *)
(***************************************************************************)
THEOREM NothingElseWritten == Spec => []OnlyWritten
<1>1. IInv => OnlyWritten
  BY DEF IInv
<1> QED BY Invariance, <1>1, PTL

(* insl() reads the sector asked for, never what was in the buffer before. *)
THEOREM RightSector == Spec => SectorAsked
<1>1. IInv /\ [Next]_vars => [pc = "data" /\ pc' = "sector" => data = offset]_vars
  BY DEF IInv, LoadInv, Waiting, Next, Loader, DiskDone, AskSector, GetSector, NextSegment,
         Bad, Enter, ClearBss, vars, loader, drive
<1> QED BY Invariance, <1>1, PTL DEF Spec, SectorAsked

-----------------------------------------------------------------------------
(***************************************************************************)
(* Division by any number.                                                 *)
(***************************************************************************)
LEMMA DivMod ==
  \A d \in Nat \ {0}, a \in Nat :
    /\ a \div d \in Nat
    /\ a % d \in 0 .. d - 1
    /\ a = (a \div d) * d + (a % d)
  BY SMTT(30)

(* Quotient and remainder are those of any way to write a number so. *)
LEMMA DivUnique ==
  \A d \in Nat \ {0}, q \in Nat : \A t \in 0 .. d - 1 :
    /\ q * d + t \in Nat
    /\ (q * d + t) \div d = q
    /\ (q * d + t) % d = t
<1> SUFFICES ASSUME NEW d \in Nat \ {0}, NEW q \in Nat, NEW t \in 0 .. d - 1
             PROVE  /\ q * d + t \in Nat
                    /\ (q * d + t) \div d = q
                    /\ (q * d + t) % d = t
  OBVIOUS
<1> DEFINE n == q * d + t
           p == n \div d
           w == n % d
<1>1. n \in Nat /\ n = q * d + t
  OBVIOUS
<1>2. p \in Nat /\ w \in 0 .. d - 1 /\ n = p * d + w
  BY <1>1, DivMod
<1> HIDE DEF n, p, w
<1>3. q * d + t = p * d + w
  BY <1>1, <1>2
<1>4. t = w
  BY <1>2, <1>3, Unique
<1>5. q * d = p * d
  BY <1>2, <1>3, <1>4
<1>6. q = p
  <2>1. CASE q < p
    <3>1. PICK e \in Nat : p = q + 1 + e
      BY <1>2, <2>1, p - q - 1 \in Nat
    <3>2. p * d = q * d + d + e * d /\ e * d \in Nat /\ q * d \in Nat
      BY <3>1
    <3> QED BY <1>5, <3>2
  <2>2. CASE p < q
    <3>1. PICK e \in Nat : q = p + 1 + e
      BY <1>2, <2>2, q - p - 1 \in Nat
    <3>2. q * d = p * d + d + e * d /\ e * d \in Nat /\ p * d \in Nat
      BY <1>2, <3>1
    <3> QED BY <1>5, <3>2
  <2> QED BY <1>2, <2>1, <2>2
<1> QED BY <1>1, <1>4, <1>6 DEF n, p, w

-----------------------------------------------------------------------------
(***************************************************************************)
(* The page tables.                                                        *)
(***************************************************************************)
(* A page starts at a multiple of four; the flags fit below its size. *)
LEMMA PageSize ==
  /\ PGSIZE \in Nat \ {0} /\ NPTENTRIES \in Nat \ {0} /\ NPDENTRIES \in Nat \ {0}
  /\ PGSIZE > 3
  /\ PTSIZE \in Nat \ {0}
  /\ \A t \in Nat : t * PGSIZE \in Nat /\ (t * PGSIZE) % 4 = 0
<1>1. PGSIZE \in Nat \ {0} /\ NPTENTRIES \in Nat \ {0} /\ NPDENTRIES \in Nat \ {0}
      /\ PGSIZE % 4 = 0
  BY PagesAssumption
<1>2. PICK w \in Nat : PGSIZE = 4 * w
  BY <1>1
<1>3. ASSUME NEW t \in Nat
      PROVE  t * PGSIZE \in Nat /\ (t * PGSIZE) % 4 = 0
  <2>1. t * PGSIZE = 4 * (t * w) /\ t * w \in Nat
    BY <1>2
  <2> QED BY <2>1
<1> QED BY <1>1, <1>2, <1>3 DEF PTSIZE

(* An entry of the table gives the page back; it is present and writable. *)
LEMMA TableEntry ==
  ASSUME NEW t \in Nat
  PROVE  /\ PTE_ADDR(t * PGSIZE + PTE_P + PTE_W) = t * PGSIZE
         /\ Present(t * PGSIZE + PTE_P + PTE_W)
         /\ Writable(t * PGSIZE + PTE_P + PTE_W)
<1>1. t * PGSIZE \in Nat /\ (t * PGSIZE) % 4 = 0
  BY PageSize
<1>2. t * PGSIZE + PTE_P + PTE_W = t * PGSIZE + 3
  BY <1>1 DEF PTE_P, PTE_W
<1>3. (t * PGSIZE + 3) % PGSIZE = 3
  BY PageSize, DivUnique
<1>4. (t * PGSIZE + 3) % 2 = 1 /\ ((t * PGSIZE + 3) \div 2) % 2 = 1
  BY <1>1
<1> QED BY <1>1, <1>2, <1>3, <1>4 DEF PTE_ADDR, PGOFF, Present, Writable, PTE_P

(***************************************************************************)
(* The directory's two entries lead to the one table; through the first    *)
(* nothing may be written.                                                 *)
(***************************************************************************)
LEMMA DirectoryEntries ==
  /\ PTE_ADDR(entry_pgdir[0]) = PgTable
  /\ Present(entry_pgdir[0]) /\ ~Writable(entry_pgdir[0])
  /\ PTE_ADDR(entry_pgdir[KERNBASE \div PTSIZE]) = PgTable
  /\ Present(entry_pgdir[KERNBASE \div PTSIZE]) /\ Writable(entry_pgdir[KERNBASE \div PTSIZE])
<1>1. KERNBASE \in Nat /\ KERNBASE \div PTSIZE \in 1 .. NPDENTRIES - 1 /\ NPDENTRIES \in Nat
      /\ PgTable \in Nat /\ PgTable % PGSIZE = 0
  BY PagesAssumption, SizesAssumption DEF Mem
<1>2. /\ entry_pgdir[0] = PgTable + 1
      /\ entry_pgdir[KERNBASE \div PTSIZE] = PgTable + 3
  BY <1>1 DEF entry_pgdir, PTE_P, PTE_W
<1>3. PICK q \in Nat : PgTable = q * PGSIZE
  <2>1. PgTable \div PGSIZE \in Nat /\ PgTable = (PgTable \div PGSIZE) * PGSIZE + 0
    BY <1>1, PageSize, DivMod
  <2>2. (PgTable \div PGSIZE) * PGSIZE \in Nat
    BY <2>1, PageSize
  <2>3. PgTable = (PgTable \div PGSIZE) * PGSIZE
    BY <2>1, <2>2
  <2> QED BY <2>1, <2>3, Zenon
<1>4. PgTable % 4 = 0
  BY <1>3, PageSize
<1>5. (PgTable + 1) % PGSIZE = 1 /\ (PgTable + 3) % PGSIZE = 3
  <2>1. (q * PGSIZE + 1) % PGSIZE = 1 /\ (q * PGSIZE + 3) % PGSIZE = 3
    BY PageSize, DivUnique
  <2> QED BY <1>3, <2>1, Zenon
<1>6. /\ (PgTable + 1) % 2 = 1 /\ ((PgTable + 1) \div 2) % 2 = 0
      /\ (PgTable + 3) % 2 = 1 /\ ((PgTable + 3) \div 2) % 2 = 1
  BY <1>1, <1>4
<1>7. PTE_ADDR(PgTable + 1) = PgTable /\ PTE_ADDR(PgTable + 3) = PgTable
  BY <1>1, <1>5 DEF PTE_ADDR, PGOFF
<1> QED BY <1>2, <1>6, <1>7 DEF Present, Writable, PTE_P

(* With line 20 open, the processor reads the tables' entries in memory. *)
LEMMA EntriesRead ==
  ASSUME a20, \A a \in Tables : AsLinked(a),
         NEW d \in 0 .. NPDENTRIES - 1, NEW t \in 0 .. NPTENTRIES - 1
  PROVE  /\ EntryAt(OnLines(PgDir + d)) = entry_pgdir[d]
         /\ EntryAt(OnLines(PgTable + t)) = entry_pgtable[t]
<1>1. /\ PgDir \in Nat /\ PgTable \in Nat /\ NPDENTRIES \in Nat /\ NPTENTRIES \in Nat
      /\ PgDir + NPDENTRIES <= PgTable \/ PgTable + NPTENTRIES <= PgDir
  BY PagesAssumption
<1>2. OnLines(PgDir + d) = PgDir + d /\ OnLines(PgTable + t) = PgTable + t
  BY DEF OnLines
<1>3. /\ PgDir + d \in PgDir .. PgDir + NPDENTRIES - 1
      /\ PgTable + t \in PgTable .. PgTable + NPTENTRIES - 1
      /\ PgTable + t \notin PgDir .. PgDir + NPDENTRIES - 1
      /\ PgDir + d \notin PgTable .. PgTable + NPTENTRIES - 1
      /\ (PgDir + d) - PgDir = d /\ (PgTable + t) - PgTable = t
  BY <1>1
<1>4. AsLinked(PgDir + d) /\ AsLinked(PgTable + t)
  BY <1>3 DEF Tables
<1>5. EntryAt(PgDir + d) = entry_pgdir[d]
  BY <1>3, <1>4, Zenon DEF EntryAt
<1>6. EntryAt(PgTable + t) = entry_pgtable[t]
  BY <1>3, <1>4, Zenon DEF EntryAt
<1> QED BY <1>2, <1>5, <1>6

(* An address of memory, low or above KERNBASE, in directory, table and page. *)
LEMMA AddressParts ==
  ASSUME NEW a \in Mem
  PROVE  /\ PDX(a) = 0 /\ PDX(KERNBASE + a) = KERNBASE \div PTSIZE
         /\ a \div PGSIZE \in 0 .. NPTENTRIES - 1
         /\ PTX(a) = a \div PGSIZE /\ PTX(KERNBASE + a) = a \div PGSIZE
         /\ PGOFF(KERNBASE + a) = PGOFF(a)
         /\ (a \div PGSIZE) * PGSIZE + PGOFF(a) = a
<1> DEFINE b == KERNBASE \div PTSIZE
           t == a \div PGSIZE
           w == a % PGSIZE
<1>1. /\ a \in Nat /\ a < PTSIZE
      /\ KERNBASE \in Nat /\ b \in Nat /\ b < NPDENTRIES /\ KERNBASE % PTSIZE = 0
  BY PagesAssumption, PageSize, SizesAssumption DEF Mem
<1>2. t \in Nat /\ w \in 0 .. PGSIZE - 1 /\ a = t * PGSIZE + w
  BY <1>1, PageSize, DivMod
<1>3. KERNBASE = b * PTSIZE
  <2>1. KERNBASE = b * PTSIZE + 0
    BY <1>1, PageSize, DivMod
  <2> QED BY <1>1, <2>1, PageSize
<1> HIDE DEF b, t, w
<1>4. t < NPTENTRIES
  <2> SUFFICES ASSUME t >= NPTENTRIES
               PROVE  FALSE
    BY <1>2, PageSize
  <2>1. PICK e \in Nat : t = NPTENTRIES + e
    BY <1>2, PageSize, t - NPTENTRIES \in Nat
  <2>2. t * PGSIZE = PGSIZE * NPTENTRIES + e * PGSIZE /\ e * PGSIZE \in Nat
    BY <2>1, PageSize
  <2> QED BY <1>1, <1>2, <2>2, PageSize DEF PTSIZE
<1>5. a \div PTSIZE = 0 /\ (KERNBASE + a) \div PTSIZE = b
  <2>1. (0 * PTSIZE + a) \div PTSIZE = 0
    BY <1>1, PageSize, DivUnique
  <2>2. (b * PTSIZE + a) \div PTSIZE = b
    BY <1>1, PageSize, DivUnique
  <2> QED BY <1>1, <1>3, <2>1, <2>2, PageSize
<1>6. 0 % NPDENTRIES = 0 /\ b % NPDENTRIES = b /\ t % NPTENTRIES = t
  <2>1. (0 * NPDENTRIES + 0) % NPDENTRIES = 0 /\ (0 * NPDENTRIES + b) % NPDENTRIES = b
    BY <1>1, PageSize, DivUnique
  <2>2. (0 * NPTENTRIES + t) % NPTENTRIES = t
    BY <1>2, <1>4, PageSize, DivUnique
  <2> QED BY <1>1, <1>2, <2>1, <2>2, PageSize
<1>7. /\ (KERNBASE + a) \div PGSIZE = b * NPTENTRIES + t
      /\ (KERNBASE + a) % PGSIZE = w
  <2>1. b * NPTENTRIES + t \in Nat
    BY <1>1, <1>2, PageSize
  <2>2. (b * NPTENTRIES + t) * PGSIZE = b * (PGSIZE * NPTENTRIES) + t * PGSIZE
    BY <1>1, <1>2, PageSize
  <2>3. KERNBASE + a = (b * NPTENTRIES + t) * PGSIZE + w
    BY <1>1, <1>2, <1>3, <2>2, PageSize DEF PTSIZE
  <2> HIDE DEF PTSIZE
  <2>4. /\ ((b * NPTENTRIES + t) * PGSIZE + w) \div PGSIZE = b * NPTENTRIES + t
        /\ ((b * NPTENTRIES + t) * PGSIZE + w) % PGSIZE = w
    BY <1>2, <2>1, PageSize, DivUnique, ZenonT(60)
  <2> QED BY <2>3, <2>4, Zenon
<1>8. (b * NPTENTRIES + t) % NPTENTRIES = t
  BY <1>1, <1>2, <1>4, PageSize, DivUnique
<1>9. PGOFF(a) = w /\ PGOFF(KERNBASE + a) = w
  BY <1>7 DEF PGOFF, w
<1>10. PDX(a) = 0 /\ PDX(KERNBASE + a) = b
  BY <1>5, <1>6 DEF PDX
<1>11. PTX(a) = t /\ PTX(KERNBASE + a) = t
  BY <1>6, <1>7, <1>8 DEF PTX, t
<1>12. t \in 0 .. NPTENTRIES - 1
  BY <1>2, <1>4, PageSize
<1> QED BY <1>2, <1>9, <1>10, <1>11, <1>12 DEF b, t

(***************************************************************************)
(* With paging on, line 20 open and the tables as linked, an address of    *)
(* memory is itself, and so is the same one above KERNBASE; only the       *)
(* latter may be written.                                                  *)
(***************************************************************************)
LEMMA PageMap ==
  ASSUME pg, a20, \A c \in Tables : AsLinked(c), NEW a \in Mem
  PROVE  /\ Readable(a) /\ ~MayWrite(a) /\ Physical(a) = a
         /\ Readable(KERNBASE + a) /\ MayWrite(KERNBASE + a) /\ Physical(KERNBASE + a) = a
<1> DEFINE t == a \div PGSIZE
           b == KERNBASE \div PTSIZE
<1>1. /\ PDX(a) = 0 /\ PDX(KERNBASE + a) = b
      /\ t \in 0 .. NPTENTRIES - 1
      /\ PTX(a) = t /\ PTX(KERNBASE + a) = t
      /\ PGOFF(KERNBASE + a) = PGOFF(a)
      /\ t * PGSIZE + PGOFF(a) = a
  BY AddressParts
<1>2. /\ PTE_ADDR(entry_pgdir[0]) = PgTable
      /\ Present(entry_pgdir[0]) /\ ~Writable(entry_pgdir[0])
      /\ PTE_ADDR(entry_pgdir[b]) = PgTable
      /\ Present(entry_pgdir[b]) /\ Writable(entry_pgdir[b])
  BY DirectoryEntries
<1>3. entry_pgtable[t] = t * PGSIZE + PTE_P + PTE_W
  BY <1>1 DEF entry_pgtable
<1>4. /\ PTE_ADDR(entry_pgtable[t]) = t * PGSIZE
      /\ Present(entry_pgtable[t]) /\ Writable(entry_pgtable[t])
  <2>1. t \in Nat
    BY <1>1, PagesAssumption
  <2> HIDE DEF t
  <2> QED BY <1>3, <2>1, TableEntry, Zenon
<1>8. 0 \in 0 .. NPDENTRIES - 1 /\ b \in 0 .. NPDENTRIES - 1
  BY PagesAssumption
<1> HIDE DEF t, b
<1>9. /\ Pde(a) = entry_pgdir[0] /\ Pde(KERNBASE + a) = entry_pgdir[b]
  BY <1>1, <1>8, EntriesRead DEF Pde
<1>5. Pte(a) = entry_pgtable[t] /\ Pte(KERNBASE + a) = entry_pgtable[t]
  <2>1. EntryAt(OnLines(PgTable + t)) = entry_pgtable[t]
    BY <1>1, <1>8, EntriesRead
  <2> QED BY <2>1, <1>1, <1>2, <1>9 DEF Pte
<1>6. /\ Readable(a) /\ ~MayWrite(a)
      /\ Readable(KERNBASE + a) /\ MayWrite(KERNBASE + a)
  BY <1>2, <1>4, <1>5, <1>9 DEF Readable, MayWrite
<1>7. Physical(a) = a /\ Physical(KERNBASE + a) = a
  BY <1>1, <1>4, <1>5 DEF Physical, OnLines
<1> QED BY <1>6, <1>7

(* Below line 20, and with line 20 open, an address without paging is itself. *)
LEMMA NoPaging ==
  ASSUME ~pg, NEW a \in Nat, a20 \/ a < A20
  PROVE  Readable(a) /\ MayWrite(a) /\ Physical(a) = a
<1>1. ASSUME a < A20
      PROVE  a - ((a \div A20) % 2) * A20 = a
  <2>1. A20 \in Nat \ {0} /\ a \in 0 .. A20 - 1
    BY <1>1, PagesAssumption
  <2>2. (0 * A20 + a) \div A20 = 0
    BY <2>1, DivUnique
  <2>3. a \div A20 = 0
    BY <2>1, <2>2
  <2> QED BY <2>1, <2>3
<1> QED BY <1>1 DEF Readable, MayWrite, Physical, OnLines

(***************************************************************************)
(* A store to addresses that are those of memory moved by `base'.          *)
(***************************************************************************)
LEMMA StoreAt ==
  ASSUME NEW F, NEW next, NEW base \in Nat, Store(F, next),
         DOMAIN F \subseteq Int,
         \A la \in DOMAIN F : MayWrite(la) /\ Physical(la) = la - base
  PROVE  /\ at' = next
         /\ ram' = [a \in Mem |-> IF a + base \in DOMAIN F THEN F[a + base] ELSE ram[a]]
<1>1. /\ at' = next
      /\ ram' = [a \in Mem |->
                   IF \E la \in DOMAIN F : Physical(la) = a
                   THEN F[CHOOSE la \in DOMAIN F : Physical(la) = a] ELSE ram[a]]
  BY DEF Store
<1>2. ASSUME NEW a \in Mem
      PROVE  /\ (\E la \in DOMAIN F : Physical(la) = a) <=> a + base \in DOMAIN F
             /\ a + base \in DOMAIN F =>
                  (CHOOSE la \in DOMAIN F : Physical(la) = a) = a + base
  <2>1. a \in Int /\ base \in Int
    BY SizesAssumption DEF Mem
  <2>2. \A la \in DOMAIN F : Physical(la) = a <=> la = a + base
    BY <2>1
  <2> QED BY <2>2
<1> QED BY <1>1, <1>2, Zenon
-----------------------------------------------------------------------------
(***************************************************************************)
(* The inductive invariant: where the processor is says how far the loader *)
(* is, whether paging is on and where it fetches; line 20 is open before   *)
(* the first sector is stored; the boot sector's code is there as long as  *)
(* it runs; and memory is as it was meant to be.                           *)
(***************************************************************************)
InBootS == at \in {"seta20.1", "seta20.2", "lgdt", "protcseg"}
InEntryS == at \in {"entry", "cr3", "paging", "relocated", "i386_init"}

Stages ==
  /\ at \in {"bootmain", "kernel"} \/ InBootS \/ InEntryS
  /\ InBootS => pc = "sector" /\ k = 0 /\ pa = ELFHDR /\ esp = Start
  /\ at = "bootmain" => pc # "kernel" /\ esp = Start - 1
  /\ InEntryS => pc = "entry"
  /\ at = "kernel" => pc = "kernel"
  /\ k > 0 \/ pc \in {"entry", "kernel"} => image.magic
  /\ offset >= 1
  /\ pg \in BOOLEAN /\ (pg <=> at \in {"paging", "relocated", "i386_init", "kernel"})
  /\ InBootS \/ at = "bootmain" => eip = Start
  /\ at \in {"entry", "cr3", "paging"} => eip = image.entry
  /\ at \in {"relocated", "i386_init", "kernel"} => eip = KERNBASE + image.entry

Controller ==
  /\ a20 \in BOOLEAN /\ full \in BOOLEAN /\ expect \in BOOLEAN
  /\ at = "seta20.1" => ~expect /\ buf # 209
  /\ at = "seta20.2" => IF full THEN buf = 209 ELSE expect
  /\ at \notin {"seta20.1", "seta20.2"} => IF full THEN buf = 223 /\ expect ELSE a20
  /\ full => \/ InBootS
             \/ /\ at = "bootmain" /\ k = 0 /\ pa = ELFHDR
                /\ pc = "sector" \/ (pc = "data" /\ disk = "busy")

CodeIsThere ==
  InBootS \/ at = "bootmain" => \A a \in Start .. Start + SECTSIZE - 1 : ram[a] = Code

StartInv ==
  /\ IInv
  /\ ram \in [Mem -> Int]
  /\ Stages /\ Controller /\ CodeIsThere /\ RamIsMem

-----------------------------------------------------------------------------
(***************************************************************************)
(* Each step of the machine is a step of the loader or of the disk, or     *)
(* leaves their variables alone.                                           *)
(***************************************************************************)
LEMMA LoaderStep == [SNext]_svars => [Next]_vars
<1> SUFFICES ASSUME [SNext]_svars
             PROVE  [Next]_vars
  OBVIOUS
<1>1. CASE BootmainStep
  BY <1>1 DEF BootmainStep, Next, Loader
<1>2. CASE BootmainStores
  BY <1>2 DEF BootmainStores, Next, Loader
<1>3. CASE InitClearsBss
  BY <1>3 DEF InitClearsBss, Next, Loader
<1>4. CASE DiskDelivers
  BY <1>4 DEF DiskDelivers, Next
<1>5. CASE UNCHANGED vars
  BY <1>5
<1> QED
  BY <1>1, <1>2, <1>3, <1>4, <1>5
  DEF SNext, Processor, ControllerTakes, SetA20Command, SetA20Value, ProtectedMode,
      CallBootmain, CallKernel, SetWarmBoot, TurnOnPaging, Relocate, CallInit, svars

LEMMA StartStep == ASSUME StartInv, [SNext]_svars PROVE IInv'
  BY LoaderStep, NextInv DEF StartInv

(* What no kernel is loaded to, the loader has not written. *)
LEMMA UntouchedIsOther ==
  ASSUME IInv, NEW a \in Untouched(image)
  PROVE  a \in Mem /\ mem[a] = Other
  BY DEF IInv, OnlyWritten, Untouched

(* Where the flag, the boot sector and its stack are. *)
LEMMA Places ==
  ASSUME IInv
  PROVE  /\ Start \in Nat /\ Start >= 2 /\ Start + SECTSIZE <= A20
         /\ Start - 1 \in Untouched(image) /\ Start - 2 \in Untouched(image)
         /\ WarmBoot \in Untouched(image)
         /\ \A a \in Start .. Start + SECTSIZE - 1 : a \in Untouched(image)
         /\ StackTop - 1 \in Mem /\ StackTop - 1 \notin Bss(image)
         /\ Bss(image) \subseteq Mem
<1>1. image \in Images /\ GoodImage(image)
  BY ImagesAssumption DEF IInv, TypeInv
<1>2. Bss(image) \subseteq Mem
  BY <1>1, SizesAssumption DEF GoodImage, Bss, Mem
<1>3. {WarmBoot} \cup (Start - 2 .. Start + SECTSIZE - 1) \subseteq Untouched(image)
  BY <1>1, PlacesAssumption
<1>4. /\ Start \in Nat /\ SECTSIZE \in Nat \ {0} /\ Start >= 2 /\ Start + SECTSIZE <= A20
      /\ StackTop \in 1 .. MemSize /\ MemSize \in Nat
  BY PlacesAssumption, SizesAssumption
<1>5. /\ Start - 1 \in Start - 2 .. Start + SECTSIZE - 1
      /\ Start - 2 \in Start - 2 .. Start + SECTSIZE - 1
      /\ \A a \in Start .. Start + SECTSIZE - 1 : a \in Start - 2 .. Start + SECTSIZE - 1
  BY <1>4
<1>6. StackTop - 1 \in Mem /\ StackTop - 1 \notin Bss(image)
  <2>1. StackTop - 1 \notin Bss(image)
    BY <1>1, PlacesAssumption
  <2> QED BY <1>4, <2>1 DEF Mem
<1> QED BY <1>2, <1>3, <1>4, <1>5, <1>6

LEMMA StartInit == SInit => StartInv
<1> SUFFICES ASSUME SInit
             PROVE  StartInv
  OBVIOUS
<1>1. Init /\ IInv
  BY InitInv DEF SInit
<1>2. /\ at = "seta20.1" /\ pc = "sector" /\ k = 0 /\ pa = ELFHDR /\ offset = 1
      /\ eip = Start /\ esp = Start /\ buf = 0
  BY <1>1, SizesAssumption DEF SInit, Init, Down
<1>0. /\ pg \in BOOLEAN /\ ~pg /\ expect \in BOOLEAN /\ ~expect
      /\ a20 \in BOOLEAN /\ full \in BOOLEAN
  BY Zenon DEF SInit
<1>3. Stages
  BY <1>0, <1>2 DEF Stages, InBootS, InEntryS
<1>4. Controller
  BY <1>0, <1>2 DEF Controller, InBootS
<1>5. ram = [a \in Mem |-> IF a \in Start .. Start + SECTSIZE - 1 THEN Code ELSE Other]
  BY DEF SInit
<1>6. CodeIsThere
  BY <1>1, <1>5, Places DEF CodeIsThere, Untouched
<1>7. RamIsMem
  BY <1>1, <1>2 DEF RamIsMem, Init
<1>8. ram \in [Mem -> Int]
  BY <1>5 DEF Code, Other
<1> QED BY <1>1, <1>3, <1>4, <1>6, <1>7, <1>8 DEF StartInv

(* The steps that leave memory alone, on both sides. *)
LEMMA QuietInv ==
  ASSUME StartInv,
         \/ ControllerTakes \/ SetA20Command \/ SetA20Value \/ ProtectedMode
         \/ TurnOnPaging \/ Relocate \/ UNCHANGED svars
  PROVE  StartInv'
<1>1. UNCHANGED << vars, ram >>
  BY DEF ControllerTakes, SetA20Command, SetA20Value, ProtectedMode, TurnOnPaging, Relocate, svars
<1>2. UNCHANGED << image, mem, pc, k, pa, offset, disk, ram >>
  BY <1>1 DEF vars
<1>3. IInv'
  BY StartStep DEF SNext, Processor
<1>4. Stages /\ Controller /\ CodeIsThere /\ RamIsMem /\ ram \in [Mem -> Int]
  BY DEF StartInv
<1>5. Stages'
  <2>1. ASSUME UNCHANGED << at, eip, esp, pg >>
        PROVE  Stages'
    BY <1>2, <1>4, <2>1 DEF Stages, InBootS, InEntryS
  <2>2. CASE SetA20Command \/ SetA20Value \/ ProtectedMode
    BY <1>2, <1>4, <2>2 DEF Stages, InBootS, InEntryS, SetA20Command, SetA20Value, ProtectedMode
  <2>3. CASE TurnOnPaging
    BY <1>2, <1>4, <2>3 DEF Stages, InBootS, InEntryS, TurnOnPaging
  <2>4. CASE Relocate
    BY <1>2, <1>4, <2>4 DEF Stages, InBootS, InEntryS, Relocate
  <2> QED BY <2>1, <2>2, <2>3, <2>4 DEF ControllerTakes, svars
<1>6. Controller'
  <2>1. CASE ControllerTakes
    <3>1. /\ full /\ full' \in BOOLEAN /\ ~full' /\ at' = at
          /\ expect' \in BOOLEAN /\ (expect' <=> buf = 209) /\ buf' = buf
          /\ a20' = IF expect /\ buf # 209 THEN (buf \div 2) % 2 = 1 ELSE a20
      BY <2>1, Zenon DEF ControllerTakes
    <3>2. (223 \div 2) % 2 = 1
      OBVIOUS
    <3>3. ASSUME at \notin {"seta20.1", "seta20.2"}
          PROVE  a20'
      <4>1. expect /\ buf = 223 /\ buf # 209
        BY <1>4, <3>1, <3>3 DEF Controller
      <4>2. a20' = ((buf \div 2) % 2 = 1)
        BY <3>1, <4>1, Zenon
      <4> QED BY <3>2, <4>1, <4>2, Zenon
    <3>4. a20' \in BOOLEAN /\ expect' \in BOOLEAN
      BY <1>4, <3>1 DEF Controller
    <3> QED BY <1>4, <3>1, <3>3, <3>4 DEF Controller
  <2>2. CASE SetA20Command
    BY <1>2, <1>4, <2>2 DEF Controller, InBootS, SetA20Command, Write8042
  <2>3. CASE SetA20Value
    BY <1>2, <1>4, <2>3 DEF Controller, InBootS, SetA20Value, Write8042
  <2>4. CASE ProtectedMode \/ TurnOnPaging \/ Relocate
    BY <1>2, <1>4, <2>4
    DEF Controller, InBootS, ProtectedMode, TurnOnPaging, Relocate, controller
  <2>5. CASE UNCHANGED svars
    BY <1>2, <1>4, <2>5 DEF Controller, InBootS, svars, controller
  <2> QED BY <2>1, <2>2, <2>3, <2>4, <2>5
<1>7. /\ (InBootS \/ at = "bootmain")' => (InBootS \/ at = "bootmain")
      /\ (at \in {"i386_init", "kernel"})' = (at \in {"i386_init", "kernel"})
  BY DEF InBootS, ControllerTakes, SetA20Command, SetA20Value, ProtectedMode, TurnOnPaging,
         Relocate, svars
<1>8. CodeIsThere'
  BY <1>2, <1>4, <1>7 DEF CodeIsThere
<1>9. RamIsMem'
  BY <1>2, <1>4, <1>7 DEF RamIsMem
<1> QED BY <1>2, <1>3, <1>4, <1>5, <1>6, <1>8, <1>9 DEF StartInv

(* A store to one cell that is not paged. *)
LEMMA StoreLow ==
  ASSUME StartInv, ~pg, NEW a \in Untouched(image), a < A20 \/ a20,
         NEW value \in Int, NEW next, Store([la \in {a} |-> value], next)
  PROVE  /\ at' = next
         /\ ram' = [ram EXCEPT ![a] = value]
         /\ mem[a] = Other
<1> DEFINE F == [la \in {a} |-> value]
<1>1. a \in Mem /\ a \in Nat /\ mem[a] = Other
  BY UntouchedIsOther, SizesAssumption DEF StartInv, Mem
<1>2. MayWrite(a) /\ Physical(a) = a
  BY <1>1, NoPaging
<1>3. DOMAIN F = {a} /\ F[a] = value
  OBVIOUS
<1>4. Store(F, next)
  OBVIOUS
<1> HIDE DEF F
<1>5. \A la \in DOMAIN F : MayWrite(la) /\ Physical(la) = la - 0
  BY <1>1, <1>2, <1>3
<1>6. DOMAIN F \subseteq Int
  BY <1>1, <1>3
<1>7. /\ at' = next
      /\ ram' = [b \in Mem |-> IF b + 0 \in DOMAIN F THEN F[b + 0] ELSE ram[b]]
  BY <1>4, <1>5, <1>6, StoreAt, 0 \in Nat
<1>8. \A b \in Mem : b + 0 = b
  BY SizesAssumption DEF Mem
<1>9. ram' = [b \in Mem |-> IF b = a THEN value ELSE ram[b]]
  BY <1>3, <1>7, <1>8
<1> QED BY <1>1, <1>7, <1>9 DEF StartInv

(* The first word of stack, below the boot sector. *)
LEMMA CallBootmainInv == ASSUME StartInv, CallBootmain PROVE StartInv'
<1>1. /\ at = "protcseg" /\ esp' = Start - 1
      /\ Store([la \in {Start - 1} |-> Pushed], "bootmain")
      /\ UNCHANGED << vars, eip, pg, controller >>
  BY DEF CallBootmain, Push
<1>2. UNCHANGED << image, mem, pc, k, pa, offset, disk >>
  BY <1>1 DEF vars
<1>3. IInv /\ Stages /\ Controller /\ CodeIsThere /\ RamIsMem /\ ram \in [Mem -> Int]
  BY DEF StartInv
<1>4. /\ Start \in Nat /\ Start + SECTSIZE <= A20 /\ Start - 1 \in Untouched(image)
      /\ SECTSIZE \in Nat /\ A20 \in Nat
  BY <1>3, Places, PagesAssumption, SizesAssumption
<1>5. ~pg /\ Start - 1 < A20 /\ Pushed \in Int
  BY <1>1, <1>3, <1>4 DEF Stages, Pushed
<1>6. at' = "bootmain" /\ ram' = [ram EXCEPT ![Start - 1] = Pushed] /\ mem[Start - 1] = Other
  BY <1>1, <1>4, <1>5, StoreLow
<1>7. IInv'
  BY StartStep DEF SNext, Processor
<1>8. Stages'
  BY <1>1, <1>2, <1>3, <1>6 DEF Stages, InBootS, InEntryS
<1>9. Controller'
  BY <1>1, <1>2, <1>3, <1>6 DEF Controller, Stages, InBootS, controller
<1>10. CodeIsThere'
  BY <1>1, <1>3, <1>4, <1>6 DEF CodeIsThere, InBootS
<1>11. RamIsMem' /\ ram' \in [Mem -> Int]
  BY <1>1, <1>2, <1>3, <1>5, <1>6 DEF RamIsMem
<1> QED BY <1>7, <1>8, <1>9, <1>10, <1>11 DEF StartInv

(* The sectors of the image start at 1. *)
LEMMA NextOffset ==
  ASSUME IInv, NextSegment
  PROVE  offset' >= 1
<1>1. /\ image \in Images /\ pc = "sector" /\ pa >= end_pa
      /\ k \in 0 .. Len(image.ph) /\ k < Len(image.ph) /\ Len(image.ph) \in Nat
  BY ImagesAssumption DEF IInv, TypeInv, TypeOK, GoodImage, NextSegment
<1>2. k + 1 \in 1 .. Len(image.ph)
  BY <1>1
<1>3. Intact(k + 1)
  BY <1>1, <1>2, HeadersLoaded
<1>4. ReadSeg(k + 1, image.ph[k + 1].pa, image.ph[k + 1].memsz, image.ph[k + 1].offset)
  BY <1>3 DEF NextSegment, HeadersRead
<1>5. image.ph[k + 1].offset \in Nat
  BY <1>1, <1>2, SegmentFacts
<1>6. image.ph[k + 1].offset \div SECTSIZE \in Nat
  BY <1>5, Division
<1> QED BY <1>4, <1>6 DEF ReadSeg

(***************************************************************************)
(* A step of bootmain() that stores nothing, or one of the disk.           *)
(***************************************************************************)
LEMMA BootmainInv == ASSUME StartInv, BootmainStep \/ DiskDelivers PROVE StartInv'
<1>1. UNCHANGED << image, mem, at, eip, esp, pg, controller, ram >>
  BY DEF BootmainStep, DiskDelivers, AskSector, NextSegment, Bad, Enter, DiskDone
<1>2. IInv /\ Stages /\ Controller /\ CodeIsThere /\ RamIsMem /\ ram \in [Mem -> Int]
  BY DEF StartInv
<1>3. IInv'
  BY StartStep DEF SNext, Processor
<1>4. /\ k \in Nat /\ k' \in Nat /\ ELFHDR \in Nat /\ HdrSectors * SECTSIZE \in Nat
      /\ HdrSectors * SECTSIZE > 0
  <2>1. /\ HdrSectors \in Nat \ {0} /\ SECTSIZE \in Nat \ {0}
    BY SizesAssumption
  <2>2. HdrSectors * SECTSIZE \in Nat \ {0}
    BY <2>1
  <2> QED BY <1>1, <1>2, <1>3, <2>2, SizesAssumption, ImagesAssumption
          DEF IInv, TypeInv, TypeOK, GoodImage
<1>5. CASE DiskDelivers
  <2>1. UNCHANGED << pc, k, pa, end_pa, offset >> /\ ~full
    BY <1>5 DEF DiskDelivers, DiskDone, loader
  <2>2. Stages'
    BY <1>1, <1>2, <2>1 DEF Stages, InBootS, InEntryS
  <2>3. Controller'
    BY <1>1, <1>2, <2>1 DEF Controller, InBootS, controller
  <2> QED BY <1>1, <1>2, <1>3, <2>2, <2>3 DEF StartInv, CodeIsThere, RamIsMem, InBootS
<1>6. CASE BootmainStep
  <2>1. at = "bootmain" /\ (AskSector \/ NextSegment \/ Bad \/ Enter)
    BY <1>6 DEF BootmainStep
  <2>2. /\ pc' \in {"sector", "data", "bad", "entry"}
        /\ k' > 0 \/ pc' \in {"entry", "kernel"} => image.magic
        /\ offset' >= 1
    <3>1. CASE AskSector
      BY <1>2, <1>4, <2>1, <3>1 DEF AskSector, Stages
    <3>2. CASE NextSegment
      <4>1. PICK s \in HeadersRead(k + 1) : ReadSeg(k + 1, s.pa, s.memsz, s.offset)
        BY <3>2 DEF NextSegment
      <4>2. k = 0 => image.magic
        BY <3>2 DEF NextSegment
      <4>3. offset' \in Nat
        BY <1>3 DEF IInv, TypeInv, TypeOK
      <4>4. offset' >= 1
        BY <1>2, <3>2, NextOffset DEF StartInv
      <4> QED BY <1>2, <1>4, <2>1, <4>1, <4>2, <4>4 DEF ReadSeg, Stages
    <3>3. CASE Bad
      BY <1>2, <1>4, <2>1, <3>3 DEF Bad, Stages
    <3>4. CASE Enter
      BY <1>2, <1>4, <2>1, <3>4 DEF Enter, Stages
    <3> QED BY <2>1, <3>1, <3>2, <3>3, <3>4
  <2>3. Stages'
    BY <1>1, <1>2, <2>1, <2>2 DEF Stages, InBootS, InEntryS
  <2>4. ASSUME full
        PROVE  k' = 0 /\ pa' = ELFHDR /\ pc' = "data" /\ disk' = "busy"
    <3>1. k = 0 /\ pa = ELFHDR /\ (pc = "sector" \/ (pc = "data" /\ disk = "busy"))
      BY <1>2, <2>1, <2>4 DEF Controller, InBootS
    <3>2. end_pa = ELFHDR + HdrSectors * SECTSIZE
      BY <1>2, <3>1 DEF IInv, LoadInv, InStep, Current
    <3>3. AskSector
      BY <1>4, <2>1, <3>1, <3>2 DEF NextSegment, Bad, Enter
    <3> QED BY <3>1, <3>3 DEF AskSector
  <2>5. Controller'
    BY <1>1, <1>2, <2>1, <2>4 DEF Controller, InBootS, controller
  <2> QED BY <1>1, <1>2, <1>3, <2>3, <2>5 DEF StartInv, CodeIsThere, RamIsMem, InBootS
<1> QED BY <1>5, <1>6

(* insl() stores where it means to, and not over the boot sector. *)
LEMMA BootmainStoresInv == ASSUME StartInv, BootmainStores PROVE StartInv'
<1> DEFINE New == pa .. pa + SECTSIZE - 1
           F == [la \in New |-> SectorByte(data, la - pa)]
<1>1. /\ at = "bootmain" /\ GetSector /\ Store(F, "bootmain")
      /\ UNCHANGED << eip, esp, pg, controller >>
  BY DEF BootmainStores
<1>2. IInv /\ Stages /\ Controller /\ CodeIsThere /\ RamIsMem /\ ram \in [Mem -> Int]
  BY DEF StartInv
<1>3. /\ pc = "data" /\ disk = "ready" /\ pc' = "sector" /\ offset' = offset + 1
      /\ mem' = [a \in Mem |-> IF a \in New THEN SectorByte(data, a - pa) ELSE mem[a]]
      /\ UNCHANGED << image, k >>
  BY <1>1 DEF GetSector
<1>4. /\ data \in Nat /\ data = offset /\ offset >= 1 /\ pa \in Nat /\ offset \in Nat
      /\ SECTSIZE \in Nat \ {0}
  BY <1>2, <1>3, SizesAssumption DEF IInv, TypeInv, TypeOK, LoadInv, Waiting, Stages
<1>5. ~full /\ a20 /\ ~pg
  BY <1>1, <1>2, <1>3 DEF Controller, Stages, InBootS
<1>6. \A la \in New : la \in Nat /\ MayWrite(la) /\ Physical(la) = la - 0
  BY <1>4, <1>5, NoPaging
<1>7. DOMAIN F = New /\ New \subseteq Int
  BY <1>4
<1> HIDE DEF F, New
<1>8. /\ at' = "bootmain"
      /\ ram' = [a \in Mem |-> IF a + 0 \in New THEN F[a + 0] ELSE ram[a]]
  <2>1. DOMAIN F \subseteq Int /\ \A la \in DOMAIN F : MayWrite(la) /\ Physical(la) = la - 0
    BY <1>6, <1>7
  <2>2. /\ at' = "bootmain"
        /\ ram' = [a \in Mem |-> IF a + 0 \in DOMAIN F THEN F[a + 0] ELSE ram[a]]
    BY <1>1, <2>1, StoreAt, 0 \in Nat, ZenonT(60)
  <2> QED BY <1>7, <2>2
<1> USE DEF F
<1>9. \A a \in Mem : a + 0 = a
  BY SizesAssumption DEF Mem
<1>10. \A a \in Mem : /\ a \in New => ram'[a] = SectorByte(data, a - pa)
                      /\ a \notin New => ram'[a] = ram[a]
  BY <1>8, <1>9
<1> HIDE DEF F
<1>11. ASSUME NEW a \in New
       PROVE  SectorByte(data, a - pa) \in Int /\ SectorByte(data, a - pa) # Other
  <2>1. data - 1 \in Nat /\ a - pa \in Nat
    BY <1>4 DEF New
  <2>2. (data - 1) * SECTSIZE \in Nat
    BY <1>4, <2>1
  <2> QED BY <2>1, <2>2 DEF SectorByte, Other
<1>12. IInv'
  BY StartStep DEF SNext, Processor
<1>13. Stages'
  BY <1>1, <1>2, <1>3, <1>4, <1>8 DEF Stages, InBootS, InEntryS
<1>14. Controller'
  BY <1>1, <1>2, <1>5, <1>8 DEF Controller, InBootS, controller
<1>15. CodeIsThere'
  <2> SUFFICES ASSUME NEW a \in Start .. Start + SECTSIZE - 1
               PROVE  ram'[a] = Code
    BY DEF CodeIsThere
  <2>1. a \in Untouched(image) /\ a \in Mem
    BY <1>2, Places, UntouchedIsOther
  <2>2. mem'[a] = Other
    BY <1>3, <1>12, <2>1 DEF IInv, OnlyWritten, Untouched, Bss
  <2>3. a \notin New
    BY <1>3, <1>11, <2>1, <2>2
  <2>4. ram'[a] = ram[a]
    BY <1>10, <2>1, <2>3
  <2> QED BY <1>1, <1>2, <2>4 DEF CodeIsThere
<1>16. ram' \in [Mem -> Int]
  <2>1. \A a \in Mem : ram'[a] \in Int
    <3> TAKE a \in Mem
    <3> QED BY <1>2, <1>10, <1>11
  <2> QED BY <1>8, <2>1
<1>17. RamIsMem'
  <2>1. ASSUME NEW a \in Mem, mem'[a] # Other
        PROVE  ram'[a] = mem'[a]
    <3>1. CASE a \in New
      BY <1>3, <1>10, <3>1
    <3>2. CASE a \notin New
      <4>1. mem'[a] = mem[a] /\ ram'[a] = ram[a]
        BY <1>3, <1>10, <3>2
      <4> QED BY <1>1, <1>2, <2>1, <4>1 DEF RamIsMem
    <3> QED BY <3>1, <3>2
  <2> QED BY <1>8, <2>1 DEF RamIsMem
<1> QED BY <1>12, <1>13, <1>14, <1>15, <1>16, <1>17 DEF StartInv

(* The call of the kernel: the second word of stack. *)
LEMMA CallKernelInv == ASSUME StartInv, CallKernel PROVE StartInv'
<1>1. IInv /\ Stages /\ Controller /\ RamIsMem /\ ram \in [Mem -> Int]
  BY DEF StartInv
<1>2. /\ at = "bootmain" /\ pc = "entry" /\ Push(esp, "entry") /\ eip' = image.entry
      /\ UNCHANGED << vars, pg, controller >>
  BY DEF CallKernel
<1>3. UNCHANGED << image, mem, pc, k, pa, offset, disk >>
  BY <1>2 DEF vars
<1>4. /\ Start - 2 \in Untouched(image) /\ ~pg /\ a20 /\ ~full /\ esp - 1 = Start - 2
      /\ Pushed \in Int
  BY <1>1, <1>2, Places DEF Stages, Controller, InBootS, Pushed
<1>5. Store([la \in {Start - 2} |-> Pushed], "entry")
  BY <1>2, <1>4 DEF Push
<1>6. at' = "entry" /\ ram' = [ram EXCEPT ![Start - 2] = Pushed] /\ mem[Start - 2] = Other
  BY <1>4, <1>5, StoreLow
<1>7. IInv'
  BY StartStep DEF SNext, Processor
<1>8. Stages'
  BY <1>1, <1>2, <1>3, <1>6 DEF Stages, InBootS, InEntryS
<1>9. Controller'
  BY <1>1, <1>2, <1>3, <1>4, <1>6 DEF Controller, InBootS, controller
<1>10. CodeIsThere'
  BY <1>6 DEF CodeIsThere, InBootS
<1>11. RamIsMem' /\ ram' \in [Mem -> Int]
  BY <1>1, <1>2, <1>3, <1>4, <1>6 DEF RamIsMem
<1> QED BY <1>7, <1>8, <1>9, <1>10, <1>11 DEF StartInv

(* The warm boot flag. *)
LEMMA SetWarmBootInv == ASSUME StartInv, SetWarmBoot PROVE StartInv'
<1>1. IInv /\ Stages /\ Controller /\ RamIsMem /\ ram \in [Mem -> Int]
  BY DEF StartInv
<1>2. /\ at = "entry" /\ Store([la \in {WarmBoot} |-> Flag], "cr3")
      /\ UNCHANGED << vars, eip, esp, pg, controller >>
  BY DEF SetWarmBoot
<1>3. UNCHANGED << image, mem, pc, k, pa, offset, disk >>
  BY <1>2 DEF vars
<1>4. WarmBoot \in Untouched(image) /\ ~pg /\ a20 /\ ~full /\ Flag \in Int
  BY <1>1, <1>2, Places DEF Stages, Controller, InBootS, Flag
<1>5. at' = "cr3" /\ ram' = [ram EXCEPT ![WarmBoot] = Flag] /\ mem[WarmBoot] = Other
  BY <1>2, <1>4, StoreLow
<1>6. IInv'
  BY StartStep DEF SNext, Processor
<1>7. Stages'
  BY <1>1, <1>2, <1>3, <1>5 DEF Stages, InBootS, InEntryS
<1>8. Controller'
  BY <1>1, <1>2, <1>3, <1>4, <1>5 DEF Controller, InBootS, controller
<1>9. CodeIsThere'
  BY <1>5 DEF CodeIsThere, InBootS
<1>10. RamIsMem' /\ ram' \in [Mem -> Int]
  BY <1>1, <1>2, <1>3, <1>4, <1>5 DEF RamIsMem
<1> QED BY <1>6, <1>7, <1>8, <1>9, <1>10 DEF StartInv

(* Entry point and page tables are loaded, and neither stack nor BSS is over them. *)
LEMMA KernelLinked ==
  ASSUME StartInv, InEntryS \/ at = "kernel", NEW a \in {image.entry} \cup Tables
  PROVE  a \in Mem /\ AsLinked(a)
<1>1. IInv /\ Stages /\ RamIsMem /\ image \in Images
  BY DEF StartInv, IInv, TypeInv
<1>2. pc \in {"entry", "kernel"} /\ image.magic
  BY <1>1 DEF Stages
<1>3. /\ a \notin Bss(image) \cup {StackTop - 1}
      /\ \E n \in 1 .. Len(image.ph) : a \in InFile(image.ph[n])
  BY <1>1, <1>2, PlacesAssumption
<1>4. PICK n \in 1 .. Len(image.ph) : a \in InFile(image.ph[n])
  BY <1>3
<1> DEFINE s == image.ph[n]
<1>5. s.pa \in Nat /\ s.offset \in Nat /\ s.filesz \in Nat
  BY <1>1, SegmentFacts
<1>6. a \in Mem
  BY <1>1, <1>4, FileInMemory
<1>7. mem[a] = s.offset + (a - s.pa)
  BY <1>1, <1>2, <1>3, <1>4 DEF IInv, KernelReady, HoldsByte
<1>8. mem[a] # Other
  <2>1. a - s.pa \in Nat
    BY <1>4, <1>5 DEF InFile
  <2> QED BY <1>5, <1>7, <2>1 DEF Other
<1>9. ram[a] = mem[a]
  BY <1>1, <1>3, <1>6, <1>8 DEF RamIsMem
<1> QED BY <1>4, <1>6, <1>7, <1>9 DEF AsLinked

(* The first word of the kernel's stack, through the page tables. *)
LEMMA CallInitInv == ASSUME StartInv, CallInit PROVE StartInv'
<1> DEFINE a == StackTop - 1
           F == [la \in {KERNBASE + a} |-> Pushed]
<1>1. IInv /\ Stages /\ Controller /\ RamIsMem /\ ram \in [Mem -> Int]
  BY DEF StartInv
<1>2. /\ at = "relocated" /\ Push(KERNBASE + StackTop, "i386_init")
      /\ UNCHANGED << vars, eip, pg, controller >>
  BY DEF CallInit
<1>3. UNCHANGED << image, mem, pc, k, pa, offset, disk >>
  BY <1>2 DEF vars
<1>4. /\ a \in Mem /\ a \in Nat /\ KERNBASE \in Nat /\ (KERNBASE + StackTop) - 1 = KERNBASE + a
      /\ \A b \in Mem : b \in Nat
  BY <1>1, Places, PagesAssumption, PlacesAssumption, SizesAssumption DEF Mem
<1>5. pg /\ a20 /\ ~full /\ Pushed \in Int
  BY <1>1, <1>2 DEF Stages, Controller, InBootS, Pushed
<1>6. MayWrite(KERNBASE + a) /\ Physical(KERNBASE + a) = a
  <2>1. \A c \in Tables : AsLinked(c)
    BY <1>2, KernelLinked DEF InEntryS
  <2> QED BY <1>4, <1>5, <2>1, PageMap
<1>7. Store(F, "i386_init")
  BY <1>2, <1>4 DEF Push
<1>8. DOMAIN F = {KERNBASE + a} /\ F[KERNBASE + a] = Pushed
  OBVIOUS
<1> HIDE DEF F, a
<1>9. DOMAIN F \subseteq Int /\ \A la \in DOMAIN F : MayWrite(la) /\ Physical(la) = la - KERNBASE
  BY <1>4, <1>6, <1>8
<1>10. /\ at' = "i386_init"
       /\ ram' = [b \in Mem |-> IF b + KERNBASE \in DOMAIN F THEN F[b + KERNBASE] ELSE ram[b]]
  <2>1. KERNBASE \in Nat
    BY <1>4
  <2> QED BY <1>7, <1>9, <2>1, StoreAt
<1>11. \A b \in Mem : b + KERNBASE = KERNBASE + a <=> b = a
  BY <1>4
<1>12. ram' = [b \in Mem |-> IF b = a THEN Pushed ELSE ram[b]]
  BY <1>8, <1>10, <1>11
<1>13. IInv'
  BY StartStep DEF SNext, Processor
<1>14. Stages'
  BY <1>1, <1>2, <1>3, <1>10 DEF Stages, InBootS, InEntryS
<1>15. Controller'
  BY <1>1, <1>2, <1>3, <1>5, <1>10 DEF Controller, InBootS, controller
<1>16. CodeIsThere'
  BY <1>10 DEF CodeIsThere, InBootS
<1>17. ram' \in [Mem -> Int]
  BY <1>1, <1>5, <1>12
<1>18. RamIsMem'
  BY <1>1, <1>2, <1>3, <1>4, <1>10, <1>12 DEF RamIsMem, a
<1> QED BY <1>13, <1>14, <1>15, <1>16, <1>17, <1>18 DEF StartInv

(* i386_init() clears the BSS, through the page tables. *)
LEMMA InitClearsBssInv == ASSUME StartInv, InitClearsBss PROVE StartInv'
<1> DEFINE F == [la \in {KERNBASE + a : a \in Bss(image)} |-> Zero]
<1>1. IInv /\ Stages /\ Controller /\ RamIsMem /\ ram \in [Mem -> Int]
  BY DEF StartInv
<1>2. /\ at = "i386_init" /\ ClearBss /\ Store(F, "kernel")
      /\ UNCHANGED << eip, esp, pg, controller >>
  BY DEF InitClearsBss
<1>3. /\ pc' = "kernel" /\ UNCHANGED << image, k, pa, offset >>
      /\ mem' = [a \in Mem |-> IF a \in Bss(image) THEN Zero ELSE mem[a]]
  BY <1>2 DEF ClearBss
<1>4. /\ Bss(image) \subseteq Mem /\ KERNBASE \in Nat /\ \A a \in Mem : a \in Nat
      /\ StackTop - 1 \in Mem /\ StackTop - 1 \notin Bss(image)
  BY <1>1, Places, PagesAssumption, SizesAssumption DEF Mem
<1>5. pg /\ a20 /\ ~full /\ Zero \in Int
  BY <1>1, <1>2 DEF Stages, Controller, InBootS, Zero
<1>6. \A a \in Mem : MayWrite(KERNBASE + a) /\ Physical(KERNBASE + a) = a
  <2>1. \A c \in Tables : AsLinked(c)
    BY <1>2, KernelLinked DEF InEntryS
  <2> QED BY <1>5, <2>1, PageMap
<1>7. /\ DOMAIN F = {KERNBASE + a : a \in Bss(image)}
      /\ \A la \in DOMAIN F : F[la] = Zero
  OBVIOUS
<1> HIDE DEF F
<1>8. DOMAIN F \subseteq Int /\ \A la \in DOMAIN F : MayWrite(la) /\ Physical(la) = la - KERNBASE
  <2>1. ASSUME NEW la \in DOMAIN F
        PROVE  la \in Int /\ MayWrite(la) /\ Physical(la) = la - KERNBASE
    <3>1. PICK a \in Bss(image) : la = KERNBASE + a
      BY <1>7
    <3>2. a \in Mem /\ a \in Nat /\ la - KERNBASE = a
      BY <1>4, <3>1
    <3> QED BY <1>4, <1>6, <3>1, <3>2
  <2> QED BY <2>1
<1>9. /\ at' = "kernel"
      /\ ram' = [b \in Mem |-> IF b + KERNBASE \in DOMAIN F THEN F[b + KERNBASE] ELSE ram[b]]
  BY <1>2, <1>4, <1>8, StoreAt
<1>10. ASSUME NEW b \in Mem
       PROVE  b + KERNBASE \in DOMAIN F <=> b \in Bss(image)
  <2>1. \A a \in Bss(image) : b + KERNBASE = KERNBASE + a <=> b = a
    BY <1>4
  <2> QED BY <1>7, <2>1
<1>11. ram' = [b \in Mem |-> IF b \in Bss(image) THEN Zero ELSE ram[b]]
  BY <1>7, <1>9, <1>10
<1>12. IInv'
  BY StartStep DEF SNext, Processor
<1>13. Stages'
  BY <1>1, <1>2, <1>3, <1>9 DEF Stages, InBootS, InEntryS
<1>14. Controller'
  BY <1>1, <1>2, <1>5, <1>9 DEF Controller, InBootS, controller
<1>15. CodeIsThere'
  BY <1>9 DEF CodeIsThere, InBootS
<1>16. ram' \in [Mem -> Int]
  BY <1>1, <1>5, <1>11
<1>17. RamIsMem'
  BY <1>1, <1>2, <1>3, <1>4, <1>9, <1>11 DEF RamIsMem
<1> QED BY <1>12, <1>13, <1>14, <1>15, <1>16, <1>17 DEF StartInv

-----------------------------------------------------------------------------
(* Every step of the machine keeps the inductive invariant. *)
LEMMA MachineInv == StartInv /\ [SNext]_svars => StartInv'
  BY QuietInv, CallBootmainInv, BootmainInv, BootmainStoresInv, CallKernelInv, SetWarmBootInv,
     CallInitInv, InitClearsBssInv
  DEF SNext, Processor

(* Every behaviour of the machine keeps it. *)
THEOREM StartInvariance == SSpec => []StartInv
<1> QED BY StartInit, MachineInv, PTL DEF SSpec

(***************************************************************************)
(* The machine implements the loader: seen through the variables of        *)
(* bootmain(), which knows of no address line, page table or boot sector,  *)
(* every behaviour from boot.S to i386_init() is one of BootLoader.        *)
(***************************************************************************)
THEOREM MachineRunsLoader == SSpec => Spec
<1>1. SInit => Init
  BY DEF SInit
<1> QED BY <1>1, LoaderStep, PTL DEF SSpec, Spec

(***************************************************************************)
(* So what holds of the loader holds of it on this machine: the kernel is  *)
(* entered with all its bytes in place, and runs with a BSS of zeros.      *)
(***************************************************************************)
THEOREM MachineLoadsKernel == SSpec => [](LoadInv /\ KernelReady /\ OnlyWritten)
<1>1. StartInv => LoadInv /\ KernelReady /\ OnlyWritten
  BY DEF StartInv, IInv
<1> QED BY StartInvariance, <1>1, PTL

(***************************************************************************)
(* What bootmain() and i386_init() write is where they mean it to be,      *)
(* although line 20 may be low at first and the stores of i386_init() go   *)
(* through the page tables.                                                *)
(***************************************************************************)
THEOREM StoresLandRight == SSpec => []RamIsMem
<1>1. StartInv => RamIsMem
  BY DEF StartInv
<1> QED BY StartInvariance, <1>1, PTL

(***************************************************************************)
(* Wherever the processor is, no access has faulted, and what it fetches   *)
(* is the code that was meant to be there: the boot sector's, then the     *)
(* kernel's, before and after paging, below and above KERNBASE; and while  *)
(* paging is on, the tables in memory are those that were linked.          *)
(***************************************************************************)
THEOREM FetchesItsCode == SSpec => []RunsItsCode
<1>1. ASSUME StartInv
      PROVE  RunsItsCode
  <2>1. IInv /\ Stages /\ Controller /\ CodeIsThere
    BY <1>1 DEF StartInv
  <2>2. CASE InBootS \/ at = "bootmain"
    <3>1. eip = Start /\ ~pg
      BY <2>1, <2>2 DEF Stages, InBootS
    <3>2. Start \in Nat /\ Start < A20 /\ Start \in Mem /\ Start \in Start .. Start + SECTSIZE - 1
      <4>1. /\ Start \in Nat /\ Start + SECTSIZE <= A20 /\ SECTSIZE \in Nat \ {0} /\ A20 \in Nat
            /\ \A a \in Start .. Start + SECTSIZE - 1 : a \in Untouched(image)
        BY <2>1, Places, SizesAssumption, PagesAssumption
      <4>2. Start < A20 /\ Start \in Start .. Start + SECTSIZE - 1
        BY <4>1
      <4> QED BY <4>1, <4>2 DEF Untouched
    <3>3. Readable(Start) /\ Physical(Start) = Start
      BY <3>1, <3>2, NoPaging
    <3>4. ram[Start] = Code
      BY <2>1, <2>2, <3>2 DEF CodeIsThere
    <3> QED BY <2>2, <3>1, <3>2, <3>3, <3>4 DEF RunsItsCode, InBootS
  <2>3. CASE InEntryS \/ at = "kernel"
    <3>1. a20
      BY <2>1, <2>3 DEF Controller, InBootS, InEntryS
    <3>2. image.entry \in Mem /\ image.entry \in Nat /\ AsLinked(image.entry)
      BY <1>1, <2>3, KernelLinked, SizesAssumption DEF Mem
    <3>5. \A a \in Tables : AsLinked(a)
      BY <1>1, <2>3, KernelLinked
    <3>3. Readable(eip) /\ Physical(eip) = image.entry
      <4>1. CASE at \in {"entry", "cr3"}
        BY <2>1, <3>1, <3>2, <4>1, NoPaging DEF Stages
      <4>2. CASE at = "paging"
        BY <2>1, <3>1, <3>2, <3>5, <4>2, PageMap DEF Stages
      <4>3. CASE at \in {"relocated", "i386_init", "kernel"}
        BY <2>1, <3>1, <3>2, <3>5, <4>3, PageMap DEF Stages
      <4> QED BY <2>3, <4>1, <4>2, <4>3 DEF InEntryS
    <3>4. at # "fault" /\ at \notin {"seta20.1", "seta20.2", "lgdt", "protcseg", "bootmain"}
      BY <2>3 DEF InEntryS
    <3> QED BY <3>2, <3>3, <3>4, <3>5 DEF RunsItsCode
  <2> QED BY <2>1, <2>2, <2>3 DEF Stages
<1> QED BY StartInvariance, <1>1, PTL
=============================================================================
