----------------------------- MODULE MCPrinting -----------------------------
(***************************************************************************)
(* The two ends of cprintf(): the formats of MCPrintFmt, and ConsoleOutput *)
(* with a few characters.  A behaviour is one of either.                   *)
(***************************************************************************)
EXTENDS ConsoleOutput, MCPrintFmt

MCPrintable == {97, Tab, Newline}

VARIABLE part    \* the one that runs

printing_vars == << part, vars, outputVars >>

(* A call of snprintf() that had no format and no buffer. *)
FormatDone ==
  /\ meant = << >> /\ fmt = << >> /\ args = << >> /\ dest = "null" /\ n = 0
  /\ fi = 0 /\ ai = 0
  /\ padc = " " /\ width = -1 /\ precision = -1 /\ lflag = 0 /\ altflag = FALSE
  /\ pc = "returned"
  /\ buf = << >> /\ cnt = 0 /\ out = << >> /\ result = EInval

NoDevices == ~uart /\ ~printing

PrintingInit ==
  \/ part = "format" /\ Init /\ OutputInit /\ NoDevices
  \/ part = "devices" /\ FormatDone /\ OutputInit

FormatNext  == part = "format" /\ Next /\ UNCHANGED << part, outputVars >>
DevicesNext == part = "devices" /\ OutputNext /\ UNCHANGED << part, vars >>

PrintingSpec ==
  /\ PrintingInit /\ [][FormatNext \/ DevicesNext]_printing_vars
  /\ WF_printing_vars(FormatNext)
  /\ WF_printing_vars(part = "devices" /\ Kernel /\ UNCHANGED << part, vars >>)
=============================================================================
