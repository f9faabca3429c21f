---------------------------- MODULE MCBacktrace ----------------------------
(***************************************************************************)
(* Backtrace with a kernel of two C files behind entry.S, and the searches *)
(* and lookups of MCStab and MCKdebug on their own.                        *)
(***************************************************************************)
EXTENDS Backtrace, MCStab, MCKdebug

Named(f, v, n, d) ==
  << Entry("FUN", v) @@ [name |-> Symbols[f].name \o << ":", "F" >>] >>
    \o Tail(Function(v, n, d))

MCSymbols ==
  "i386_init"      :> [start |-> 30, name |-> << "i", "3" >>] @@
  "test_backtrace" :> [start |-> 20, name |-> << "t", "e", "s", "t" >>] @@
  "mon_backtrace"  :> [start |-> 40, name |-> << "m", "o", "n" >>] @@
  "runcmd"         :> [start |-> 50, name |-> << "r", "u", "n" >>] @@
  "monitor"        :> [start |-> 60, name |-> << "m" >>]

MCRet == "entry" :> 13 @@ "init_test" :> 33 @@ "init_monitor" :> 35 @@
         "test_test" :> 23 @@ "test_trace" :> 25 @@
         "monitor_runcmd" :> 64 @@ "runcmd_func" :> 52

MCKernel ==
  ZeroBased(Header \o AsmFile(10)
            \o CFile(20, << Named("test_backtrace", 20, 1, 4), Named("i386_init", 30, 0, 4) >>)
            \o CFile(40, << Named("mon_backtrace", 40, 3, 4), Named("runcmd", 50, 2, 4),
                            Named("monitor", 60, 1, 4) >>))
=============================================================================
