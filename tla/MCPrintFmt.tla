----------------------------- MODULE MCPrintFmt ------------------------------
(* PrintFmt on formats of up to two directives with a text between.        *)
EXTENDS Directives

Escape(flag, w, prec, longs, conv) ==
  [text |-> FALSE, flag |-> flag, width |-> w, prec |-> prec, longs |-> longs, conv |-> conv]

NumberDirectives ==
  {Escape(flag, w, None, longs, conv) :
     flag \in {"none", "0", "-"}, w \in {None, 3, 10, Starred},
     longs \in {0, 2}, conv \in {"d", "x"}}
  \cup {Escape("none", None, None, longs, conv) : longs \in 0 .. 1, conv \in {"o", "u", "p"}}

StringDirectives ==
  {Escape(flag, w, prec, 0, "s") :
     flag \in {"none", "0", "-", "#"}, w \in {None, 3, Starred},
     prec \in {None, 1, Starred}}

OtherDirectives ==
  {Escape(flag, w, None, 0, conv) :
     flag \in {"none", "-"}, w \in {None, 12}, conv \in {"c", "e", "%", "z"}}

MCDirectives == NumberDirectives \cup StringDirectives \cup OtherDirectives

(* The second directive is one of a few that would show the traces of the first. *)
Followers == {Escape("none", None, None, 0, conv) : conv \in {"d", "s"}}
             \cup {Escape("none", 3, None, 0, "x")}

Plain == [Escape("none", None, None, 0, "t") EXCEPT !.text = TRUE]

MCChars == STRING

MCError == << << "m", "1" >>, << "m", "2" >> >>

(***************************************************************************)
(* The numbers, by themselves in all places and mixed: both ends of int,   *)
(* one that int cannot hold, small widths and codes of errors.             *)
(***************************************************************************)
MCNumbers == {<< v, v, v, v >> : v \in {-1, 0, 2, 12, -31, 33, -64}}
             \cup {<< 4, 2, 7, 1 >>, << -3, 1, -32, 31 >>, << 5, -2, 12, -32 >>}

MCStrings == {<< "s", "ctl" >>, << >>, Null}

(* The format ends in the middle of an escape. *)
Ends == {Escape("none", w, None, 0, "end") : w \in {None, 12}}

MCFormats == {<< d >> : d \in Ends} \cup {<< d >> : d \in MCDirectives}
             \cup {<< d, Plain, f >> : d \in MCDirectives, f \in Followers}

(* The sizes: no room, room for the terminator, for a part and for all. *)
MCBuffers == {"array"} \X {0, 1, 4, 40} \cup {<< "null", 4 >>}

(* The least int is no argument of %e. *)
MCCalls ==
  {c \in {[meant |-> m, fmt |-> FlattenSeq([k \in 1 .. Len(m) |-> Written(m[k])]),
           args |-> [k \in 1 .. 4 |-> [num |-> v[k], str |-> s, char |-> "c"]],
           dest |-> b[1], size |-> b[2]] :
            m \in MCFormats, v \in MCNumbers, s \in MCStrings, b \in MCBuffers} :
     c.meant[1].conv = "e" => c.args[1].num # -32}

(* "%-3d%o" of 1 and -1, which the comments of the code print as "1  77".  *)
CommentCalls ==
  LET m == << Escape("-", 3, None, 0, "d"), Escape("none", None, None, 0, "o") >>
  IN  {[meant |-> m, fmt |-> Written(m[1]) \o Written(m[2]),
        args |-> [k \in 1 .. 2 |-> [num |-> << 1, -1 >>[k], str |-> Null, char |-> "c"]],
        dest |-> "array", size |-> 40]}
=============================================================================
