----------------------------- MODULE MCReadline -----------------------------
(* Readline on a small screen. *)
EXTENDS Readline

MCPrompts == {62, Newline}

\* a letter, backspace, DEL, Enter and a control character
MCTyped == {97, BS, Delete, Return, 1}
=============================================================================
