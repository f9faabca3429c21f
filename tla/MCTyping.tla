------------------------------ MODULE MCTyping ------------------------------
(***************************************************************************)
(* What the user types: Keyboard on a small keyboard, and the command line *)
(* of MCMonitor.  The two share nothing here: a behaviour is one of either.*)
(***************************************************************************)
EXTENDS Keyboard, MCMonitor

\* both Shift keys, left Ctrl, right Alt, Del and keypad '.', which has the
\* code of Del without the prefix
MCKeys == {\h2A, \h36, \h1D, \hB8, \hD3, \h53}

VARIABLE part    \* the one that runs

TypingInit == part \in {"keyboard", "monitor"} /\ KeyboardInit /\ Init

TypingNext ==
  \/ part = "keyboard" /\ KeyboardNext /\ UNCHANGED << part, vars >>
  \/ part = "monitor" /\ Next /\ UNCHANGED << part, keyboardVars >>

TypingSpec == TypingInit /\ [][TypingNext]_<< part, keyboardVars, vars >>
=============================================================================
