------------------------------ MODULE MCKdebug ------------------------------
(***************************************************************************)
(* Kdebug on tables as the compiler and the linker write them: a header,   *)
(* then for each file its name and its functions, each with its parameters *)
(* and its lines.                                                          *)
(***************************************************************************)
EXTENDS Kdebug, SequencesExt

Entry(ty, v) == [type |-> ty, value |-> v]

Parameters(n) == [k \in 1 .. n |-> Entry("PSYM", 8)]

(* A function at v, with n parameters and a second line d bytes into it. *)
Function(v, n, d) ==
  << Entry("FUN", v) >> \o Parameters(n) \o << Entry("SLINE", 0), Entry("SLINE", d) >>

CFile(v, functions) == << Entry("SO", v) >> \o FlattenSeq(functions)

(* A function that a header defines: its file name comes first. *)
Included(function) == << Entry("SOL", 0) >> \o function

(* A function that ends with code inlined from a header, and one with no line. *)
Inlining(v) ==
  << Entry("FUN", v), Entry("SLINE", 0), Entry("SOL", 0), Entry("SLINE", 2) >>

Lineless(v) == << Entry("FUN", v) >>

AsmFile(v) == << Entry("SO", v), Entry("SLINE", v), Entry("SLINE", v + 3) >>

ZeroBased(s) == [k \in 0 .. Len(s) - 1 |-> s[k + 1]]

Header == << Entry("UNDF", 0) >>

CTables ==
  {ZeroBased(Header \o CFile(10, << Function(10, n, 2), Function(10 + g, 0, d) >>)
                    \o CFile(30, << Included(Function(30, 0, 4)) >>)) :
     n \in 0 .. 2, g \in {4, 7}, d \in 2 .. 5}

AsmTables ==
  {ZeroBased(Header \o AsmFile(10) \o CFile(20, << Function(20, n, 2) >>)) : n \in 0 .. 2}

InlineTables ==
  {ZeroBased(Header \o CFile(10, << Lineless(10), Inlining(16) >>)
                    \o CFile(30, << Function(30, 1, 4) >>))}

(* A function of one parameter that ends with inlined code, and an address *)
(* in that code.                                                           *)
CommentTables ==
  {ZeroBased(Header \o CFile(10, << << Entry("FUN", 16) >> \o Parameters(1) \o Tail(Inlining(16)) >>))}
CommentAddrs == {18}

(* Of a kernel that was linked without its strings. *)
BadTables == {ZeroBased(Header \o AsmFile(12))}

AllTables == CTables \cup AsmTables \cup InlineTables \cup BadTables

KTypes == {"SO", "FUN", "SLINE"}
KAddrs == 8 .. 36   \* those of the kernel from 9 on
=============================================================================
