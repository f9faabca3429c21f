----------------------------- MODULE MCStartup -----------------------------
(***************************************************************************)
(* Startup with sectors of two bytes: the loader's sector, a first page of *)
(* two sectors and, above line 20, all kernels of up to two small segments *)
(* behind the one with the page tables, with the top of the stack in a     *)
(* cell that segments may be loaded to.                                    *)
(***************************************************************************)
EXTENDS Startup

Segments ==
  {s \in [pa : 48 .. 52, memsz : 0 .. 3, filesz : 0 .. 3, offset : 4 .. 5] :
     s.filesz <= s.memsz /\ s.offset % SECTSIZE = s.pa % SECTSIZE}

PageTables == [pa |-> 32, memsz |-> 16, filesz |-> 16, offset |-> 8]

(***************************************************************************)
(* The BSS begins where the file's part of the last segment ends, or a     *)
(* byte before (BYTE(0) in kernel.ld puts one of its bytes in the file).   *)
(***************************************************************************)
Kernel(ph, early) ==
  LET s == ph[Len(ph)]
  IN  [magic |-> TRUE, ph |-> ph,
       entry |-> ph[2].pa,
       edata |-> s.pa + s.filesz - (IF s.filesz > 0 THEN early ELSE 0),
       end   |-> s.pa + s.memsz]

NoKernel == [magic |-> FALSE, ph |-> << >>, entry |-> 0, edata |-> 0, end |-> 0]

HasEntry(i) == i.entry \in InFile(i.ph[2]) /\ i.entry \notin Bss(i) \cup {StackTop - 1}
HasStack(i) == StackTop - 1 \notin Bss(i)

MCImages ==
  {NoKernel} \cup
  {i \in {Kernel(<< PageTables >> \o ph, early) :
            ph \in [1 .. 1 -> Segments] \cup [1 .. 2 -> Segments], early \in 0 .. 1} : GoodImage(i) /\ HasEntry(i) /\ HasStack(i)}
=============================================================================
