------------------------------- MODULE MCStab -------------------------------
(* Stab on all small tables of entries of two types. *)
EXTENDS Stab, TLC

CONSTANTS Size, MaxValue, Gap

Entries == [type : {"FUN", "other"}, value : 0 .. MaxValue]

(* Entries of the searched type are in order, Gap or more apart. *)
Ordered(tab) ==
  \A j, k \in DOMAIN tab :
    (j < k /\ tab[j].type = "FUN" /\ tab[k].type = "FUN")
      => tab[j].value + Gap <= tab[k].value

MCTables ==
  {tab \in UNION {[0 .. n - 1 -> Entries] : n \in 1 .. Size} :
     /\ Ordered(tab)
     /\ \A k \in DOMAIN tab : tab[k].type = "other" => tab[k].value = 0}

MCTypes == {"FUN"}
MCAddrs == 0 .. MaxValue + 1
=============================================================================
