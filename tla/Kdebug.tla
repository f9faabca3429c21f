------------------------------- MODULE Kdebug -------------------------------
(***************************************************************************)
(* debuginfo_eip() of kern/kdebug.c: three searches, each in the region    *)
(* the one before found: for the source file, for the function in the      *)
(* file, for the line in the function.  What it stores in *info is given   *)
(* here by the index of the entry it is taken from.                        *)
(***************************************************************************)
EXTENDS Stab

CONSTANTS
  Kernels,   \* tables of whole kernels
  BadStrings, \* those that were linked with an empty string table, or with
             \* one whose last byte is no terminator
  Eips,      \* the addresses that are looked up
  ULIM       \* kernel addresses start here

(* The entries behind k, as far as the next of one of the types. *)
UpToNext(tab, k, types) ==
  {j \in DOMAIN tab : j > k /\ \A n \in k + 1 .. j : tab[n].type \notin types}

(* The functions of the file at f, and the lines behind the entry at k. *)
Functions(tab, f) == {k \in UpToNext(tab, f, {"SO"}) : tab[k].type = "FUN"}

Lines(tab, k) == {j \in UpToNext(tab, k, {"SO", "FUN"}) : tab[j].type = "SLINE"}

(* The entries that cover an address: the last of its type at or below it. *)
LastBelow(tab, S, a) == {k \in S : /\ tab[k].value <= a
                                   /\ \A j \in S : tab[j].value <= a => j <= k}

File(tab, a) == LastBelow(tab, {k \in DOMAIN tab : tab[k].type = "SO"}, a)

(***************************************************************************)
(* The table of a kernel, as the linker makes it: a header, then the files *)
(* in the order of their addresses, in each the functions in that order,   *)
(* and in each function its lines.                                         *)
(***************************************************************************)
IsKernelTable(tab) ==
  /\ IsTable(tab)
  /\ tab[0].type \notin {"SO", "FUN", "SLINE"}
  /\ InOrder(tab, {k \in DOMAIN tab : tab[k].type = "SO"})
  /\ \A k \in DOMAIN tab :
       /\ tab[k].type = "SO" => tab[k].value # 0 /\ InOrder(tab, Functions(tab, k))
       /\ tab[k].type \in {"SO", "FUN"} => InOrder(tab, Lines(tab, k))

ASSUME KernelsAssumption ==
  /\ Eips \subseteq Nat /\ ULIM \in Nat
  /\ \A tab \in Kernels : IsKernelTable(tab)

VARIABLES
  eip,             \* the address debuginfo_eip() was called with
  stage,           \* "idle", "called", the search, "returned" or "panicked"
  lfile, rfile, lfun, rfun,
  lline,           \* where the search for the file name will start
  info,            \* *info: entries of function, line and file, and eip_fn_narg
  result           \* what was returned

kvars == << vars, eip, stage, lfile, rfile, lfun, rfun, lline, info, result >>

None == -1

NoInfo == [fn |-> None, line |-> None, file |-> None, narg |-> 0]

-----------------------------------------------------------------------------
(* stab_binsearch() is called for the next region. *)
Search(left, right, ty, a) ==
  /\ from' = left /\ to' = right /\ type' = ty /\ target' = a
  /\ region_left' = left /\ region_right' = right
  /\ l' = left /\ r' = right /\ any_matches' = FALSE /\ addr' = a
  /\ pc' = "loop"
  /\ UNCHANGED stabs

(* debuginfo_eip(a, &info) is called. *)
Called(a) ==
  /\ eip' = a /\ stage' = "called"
  /\ UNCHANGED << vars, lfile, rfile, lfun, rfun, lline, info, result >>

(* "Can't search for user-level addresses yet!" *)
UserAddress ==
  /\ stage = "called" /\ eip < ULIM
  /\ stage' = "panicked" /\ info' = NoInfo
  /\ UNCHANGED << vars, eip, lfile, rfile, lfun, rfun, lline, result >>

(* The string table is not valid. *)
NoStrings ==
  /\ stage = "called" /\ eip >= ULIM /\ stabs \in BadStrings
  /\ stage' = "returned" /\ result' = -1 /\ info' = NoInfo
  /\ UNCHANGED << vars, eip, lfile, rfile, lfun, rfun, lline >>

(* Mutant: the search starts with one entry too many. *)
LookupPastEnd ==
  /\ stage = "called" /\ eip >= ULIM /\ stabs \notin BadStrings
  /\ stage' = "file" /\ info' = NoInfo
  /\ Search(0, Max(DOMAIN stabs) + 1, "SO", eip)
  /\ UNCHANGED << eip, lfile, rfile, lfun, rfun, lline, result >>

Lookup ==
  /\ stage = "called" /\ eip >= ULIM /\ stabs \notin BadStrings
  /\ stage' = "file" /\ info' = NoInfo
  /\ Search(0, Max(DOMAIN stabs), "SO", eip)
  /\ UNCHANGED << eip, lfile, rfile, lfun, rfun, lline, result >>

(* A round of the search in progress. *)
SearchStep ==
  /\ Next
  /\ UNCHANGED << eip, stage, lfile, rfile, lfun, rfun, lline, info, result >>

NoFile ==
  /\ stage = "file" /\ pc = "done" /\ region_left = 0
  /\ stage' = "returned" /\ result' = -1
  /\ lfile' = region_left /\ rfile' = region_right
  /\ UNCHANGED << vars, eip, lfun, rfun, lline, info >>

(* Mutant: the answer of the first search is not looked at. *)
FileAlways ==
  /\ stage = "file" /\ pc = "done"
  /\ stage' = "fun"
  /\ lfile' = region_left /\ rfile' = region_right
  /\ Search(region_left, region_right, "FUN", eip)
  /\ UNCHANGED << eip, lfun, rfun, lline, info, result >>

FileFound ==
  /\ stage = "file" /\ pc = "done" /\ region_left # 0
  /\ stage' = "fun"
  /\ lfile' = region_left /\ rfile' = region_right
  /\ Search(region_left, region_right, "FUN", eip)
  /\ UNCHANGED << eip, lfun, rfun, lline, info, result >>

(* Mutant: the address is not made relative. *)
FunctionAbsolute ==
  /\ stage = "fun" /\ pc = "done" /\ region_left <= region_right
  /\ stage' = "line"
  /\ lfun' = region_left /\ rfun' = region_right
  /\ info' = [info EXCEPT !.fn = region_left]
  /\ lline' = region_left
  /\ Search(region_left, region_right, "SLINE", eip)
  /\ UNCHANGED << eip, lfile, rfile, result >>

(* Addresses of lines are relative to their function ... *)
FunctionFound ==
  /\ stage = "fun" /\ pc = "done" /\ region_left <= region_right
  /\ stage' = "line"
  /\ lfun' = region_left /\ rfun' = region_right
  /\ info' = [info EXCEPT !.fn = region_left]
  /\ lline' = region_left
  /\ Search(region_left, region_right, "SLINE", eip - stabs[region_left].value)
  /\ UNCHANGED << eip, lfile, rfile, result >>

(* ... and absolute in assembly code, where there is no function. *)
NoFunction ==
  /\ stage = "fun" /\ pc = "done" /\ region_left > region_right
  /\ stage' = "line"
  /\ lfun' = region_left /\ rfun' = region_right
  /\ lline' = lfile
  /\ Search(region_left, region_right, "SLINE", eip)
  /\ UNCHANGED << eip, lfile, rfile, info, result >>

(***************************************************************************)
(* The line is that of the entry the search ended at, of whatever type.    *)
(* The file name is searched for backwards, as far as the file's entry.    *)
(* The parameters are counted from the entry after the line's on.          *)
(***************************************************************************)
NameEntries(hi) ==
  {k \in lfile .. hi : \/ stabs[k].type = "SOL"
                       \/ stabs[k].type = "SO" /\ stabs[k].value # 0}

Params(lo, hi) ==
  {k \in lo + 1 .. hi - 1 : \A j \in lo + 1 .. k : stabs[j].type = "PSYM"}

Return ==
  /\ stage = "line" /\ pc = "done"
  /\ stage' = "returned" /\ result' = 0
  /\ lfun' = region_left /\ rfun' = region_right
  /\ info' = [info EXCEPT !.line = region_left,
                          !.file = IF NameEntries(lline) = {} THEN None
                                   ELSE Max(NameEntries(lline)),
                          !.narg = Cardinality(Params(region_left, region_right))]
  /\ UNCHANGED << vars, eip, lfile, rfile, lline >>

-----------------------------------------------------------------------------
(* A kernel's table, in which nothing is being searched for. *)
Idle(tab) ==
  /\ stabs = tab /\ from = 0 /\ to = 0 /\ type = "SO" /\ target = 0
  /\ region_left = 0 /\ region_right = 0
  /\ l = 0 /\ r = 0 /\ any_matches = FALSE /\ addr = 0
  /\ pc = "idle"

NoLookup ==
  /\ lfile = 0 /\ rfile = 0 /\ lfun = 0 /\ rfun = 0 /\ lline = 0
  /\ info = NoInfo
  /\ result = 0

KInit ==
  /\ \E tab \in Kernels : Idle(tab)
  /\ eip \in Eips /\ stage = "called"
  /\ NoLookup

KNext == \/ UserAddress \/ NoStrings \/ Lookup \/ SearchStep
         \/ NoFile \/ FileFound \/ FunctionFound \/ NoFunction \/ Return

KSpec == KInit /\ [][KNext]_kvars

-----------------------------------------------------------------------------
Indices == DOMAIN stabs

(* The source file of the entry at k is that of the last name before it:   *)
(* the file's own, or that of a file whose code was inlined.               *)
NameOf(tab, k) ==
  {j \in DOMAIN tab : /\ j <= k /\ tab[j].type \in {"SO", "SOL"}
                      /\ \A i \in j + 1 .. k : tab[i].type \notin {"SO", "SOL"}}

(***************************************************************************)
(* For an address in a function of a C file, the answer names the function *)
(* and, if the function has a line that covers the address, that line and  *)
(* its file: this last where no other file's name stands between the       *)
(* function's entry and the line's.  Without a valid string table, and for *)
(* an address before the first file, there is no information.              *)
(***************************************************************************)
AnswersRight ==
  stage = "returned" =>
    /\ stabs \in BadStrings \/ File(stabs, eip) = {} => result # 0
    /\ stabs \notin BadStrings =>
         \A f \in File(stabs, eip) : \A fn \in LastBelow(stabs, Functions(stabs, f), eip) :
           /\ info.fn = fn
           /\ \A ln \in LastBelow(stabs, Lines(stabs, fn), eip - stabs[fn].value) :
                /\ result = 0 /\ info.line = ln
                /\ (\A k \in fn + 1 .. ln : stabs[k].type # "SOL")
                     => info.file \in NameOf(stabs, ln)

(* Every entry that is read is an entry of the table. *)
ReadsInTable ==
  /\ pc = "loop" /\ l <= r => {l, r} \subseteq Indices
  /\ stage = "line" /\ pc = "done" => {region_left, lline} \subseteq Indices

(* "We can't just use the lfile stab because inlined functions can         *)
(* interpolate code from a different file!" (kdebug.c:187): the file is    *)
(* that of the line, wherever its name stands.                             *)
FileIsOfLine ==
  stage = "returned" /\ result = 0 =>
    \A f \in File(stabs, eip) : \A fn \in LastBelow(stabs, Functions(stabs, f), eip) :
    \A ln \in LastBelow(stabs, Lines(stabs, fn), eip - stabs[fn].value) :
      info.file \in NameOf(stabs, ln)

(* "Set eip_fn_narg to the number of arguments taken by the function." *)
NargIsParams ==
  stage = "returned" /\ info.fn # None =>
    info.narg = Cardinality({k \in UpToNext(stabs, info.fn, {"SO", "FUN"}) :
                               stabs[k].type = "PSYM"})

(* What these two comments say of the answer. *)
AnswersAsCommented == NargIsParams /\ FileIsOfLine
=============================================================================
