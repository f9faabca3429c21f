-------------------------------- MODULE Stab --------------------------------
(***************************************************************************)
(* stab_binsearch() of kern/kdebug.c: the binary search for the entry of   *)
(* one type that covers an address, in a table where entries of all types  *)
(* are mixed and only those of one type are in order.  Each round of its   *)
(* outer loop is a step.                                                   *)
(***************************************************************************)
EXTENDS Integers, FiniteSetsExt

CONSTANTS
  Tables,    \* tables: functions from 0 .. n-1 to [type, value]
  Types,     \* the types that are searched for
  Addrs      \* the addresses that are searched for

(* A table has entries 0, 1, ... *)
IsTable(tab) ==
  /\ Max(DOMAIN tab) \in Nat /\ DOMAIN tab = 0 .. Max(DOMAIN tab)
  /\ \A k \in DOMAIN tab : tab[k].value \in Nat

(***************************************************************************)
(* "Some stab types are arranged in increasing order by instruction        *)
(* address": two addresses or more apart, for the search to tell the next  *)
(* entry from an exact match.                                              *)
(***************************************************************************)
InOrder(tab, S) == \A j, k \in S : j < k => tab[j].value + 2 <= tab[k].value

ASSUME TablesAssumption ==
  /\ Addrs \subseteq Nat
  /\ \A tab \in Tables :
       /\ IsTable(tab)
       /\ \A ty \in Types : InOrder(tab, {k \in DOMAIN tab : tab[k].type = ty})

VARIABLES
  stabs,                       \* the table
  from, to, type, target,      \* the arguments of the call
  region_left, region_right,   \* *region_left and *region_right
  l, r, any_matches, addr,     \* the locals; `addr' is moved by the search
  pc

args   == << stabs, from, to, type, target >>
region == << region_left, region_right >>
vars   == << stabs, from, to, type, target, region_left, region_right,
             l, r, any_matches, addr, pc >>

-----------------------------------------------------------------------------
true_m == (l + r) \div 2

(* The inner loop walks down from true_m to an entry of the type, if any. *)
Candidates == {k \in l .. true_m : stabs[k].type = type}

m == Max(Candidates)

NoMatch ==
  /\ pc = "loop" /\ l <= r /\ Candidates = {}
  /\ l' = true_m + 1
  /\ UNCHANGED << args, region, r, any_matches, addr, pc >>

Below ==
  /\ pc = "loop" /\ l <= r /\ Candidates # {}
  /\ stabs[m].value < addr
  /\ any_matches' = TRUE
  /\ region_left' = m
  /\ l' = true_m + 1
  /\ UNCHANGED << args, region_right, r, addr, pc >>

(* Mutant: the region ends at the next entry, not before it. *)
AboveIncludes ==
  /\ pc = "loop" /\ l <= r /\ Candidates # {}
  /\ stabs[m].value > addr
  /\ any_matches' = TRUE
  /\ region_right' = m
  /\ r' = m - 1
  /\ UNCHANGED << args, region_left, l, addr, pc >>

Above ==
  /\ pc = "loop" /\ l <= r /\ Candidates # {}
  /\ stabs[m].value > addr
  /\ any_matches' = TRUE
  /\ region_right' = m - 1
  /\ r' = m - 1
  /\ UNCHANGED << args, region_left, l, addr, pc >>

(* Mutant: the address stays, so the same entry is found again. *)
ExactAgain ==
  /\ pc = "loop" /\ l <= r /\ Candidates # {}
  /\ stabs[m].value = addr
  /\ any_matches' = TRUE
  /\ region_left' = m
  /\ l' = m
  /\ UNCHANGED << args, region_right, r, addr, pc >>

(* The search goes on for the next address, to find the right end. *)
Exact ==
  /\ pc = "loop" /\ l <= r /\ Candidates # {}
  /\ stabs[m].value = addr
  /\ any_matches' = TRUE
  /\ region_left' = m
  /\ l' = m
  /\ addr' = addr + 1
  /\ UNCHANGED << args, region_right, r, pc >>

(***************************************************************************)
(* After the loop: without a match the region is empty; otherwise its left *)
(* end is the last entry of the type in it, looked for from the right.     *)
(***************************************************************************)
LastOfType ==
  IF region_right <= region_left
  THEN region_right
  ELSE Max({region_left} \cup {k \in region_left .. region_right : stabs[k].type = type})

(* Mutant: the region is not emptied. *)
FinishKeeps ==
  /\ pc = "loop" /\ l > r
  /\ pc' = "done"
  /\ region_left' = IF any_matches THEN LastOfType ELSE region_left
  /\ UNCHANGED << args, region_right, l, r, any_matches, addr >>

Finish ==
  /\ pc = "loop" /\ l > r
  /\ pc' = "done"
  /\ IF any_matches
     THEN region_left' = LastOfType /\ UNCHANGED region_right
     ELSE region_right' = region_left - 1 /\ UNCHANGED region_left
  /\ UNCHANGED << args, l, r, any_matches, addr >>

(* stab_binsearch(stabs, &left, &right, type, addr) is called. *)
Begin(tab, left, right, ty, a) ==
  /\ stabs = tab /\ from = left /\ to = right /\ type = ty /\ target = a
  /\ region_left = left /\ region_right = right
  /\ l = left /\ r = right /\ any_matches = FALSE /\ addr = a
  /\ pc = "loop"

Init == \E tab \in Tables, ty \in Types, a \in Addrs :
          \E left, right \in DOMAIN tab : Begin(tab, left, right, ty, a)

Next == NoMatch \/ Below \/ Above \/ Exact \/ Finish

Spec == Init /\ [][Next]_vars

-----------------------------------------------------------------------------
(* The entries of the type that was searched for. *)
OfType == {k \in from .. to : stabs[k].type = type}

Covering == {k \in OfType : stabs[k].value <= target}

(***************************************************************************)
(* "*region_left points to the matching stab that contains 'addr', and     *)
(* *region_right points just before the next stab": for an address at or   *)
(* after the first entry of the type.  With no entry of it, the region is  *)
(* empty.                                                                  *)
(***************************************************************************)
Finds ==
  pc = "done" =>
    /\ Covering # {} =>
         /\ region_left = Max(Covering)
         /\ region_right = Min({to + 1} \cup {k \in OfType : k > region_left}) - 1
    /\ OfType = {} => region_left > region_right

(* The search ends, although an exact match moves the address it looks for. *)
Terminates == pc = "loop" ~> pc = "done"
=============================================================================
