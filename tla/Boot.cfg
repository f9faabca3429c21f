SPECIFICATION SSpec
CONSTANTS
  SECTSIZE = 2
  MemSize = 58
  ELFHDR = 8
  HdrSectors = 2
  PhOff = 1
  Images <- MCImages
  A20 = 32
  PGSIZE = 8
  NPDENTRIES = 3
  NPTENTRIES = 8
  KERNBASE = 128
  Start = 4
  WarmBoot = 0
  PgDir = 32
  PgTable = 40
  StackTop = 53
INVARIANTS LoadInv KernelReady OnlyWritten RunsItsCode RamIsMem
PROPERTIES SectorAsked Boots
CHECK_DEADLOCK FALSE
