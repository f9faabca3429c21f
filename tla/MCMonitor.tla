----------------------------- MODULE MCMonitor ------------------------------
(* Monitor with two commands, the name of one a prefix of the other's. *)
EXTENDS Monitor

MCTyped == {97, 98, 32}
MCNames == << << 97, 98 >>, << 97 >> >>
=============================================================================
