-------------------------- MODULE MCConsoleInput ---------------------------
(* ConsoleInput on small instances. *)
EXTENDS ConsoleInput

\* 'a' on the line and a NUL, which the console must drop
MCSerialBytes == {0, 97}

\* Ctrl, Alt, the E0 prefix and Del: the reboot chord
MCChordBytes == {\h1D, \h38, \hE0, \h53}

MCLineBytes == {97}
MCMouse == {8}
MCNone == {}
=============================================================================
