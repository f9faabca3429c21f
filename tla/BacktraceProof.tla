--------------------------- MODULE BacktraceProof ---------------------------
(***************************************************************************)
(* The binary search, the lookup of an address and the walk over the       *)
(* stack, for every table, kernel and depth of calls that satisfy the      *)
(* assumptions of Stab, Kdebug and Backtrace.                              *)
(***************************************************************************)
EXTENDS Backtrace, FiniteSetTheorems, SequenceTheorems, WellFoundedInduction, TLAPS

-----------------------------------------------------------------------------
(***************************************************************************)
(* The greatest and the least of a set of integers.                        *)
(***************************************************************************)
LEMMA Least ==
  ASSUME NEW T, T \subseteq Nat, T # {}
  PROVE  \E e \in T : \A o \in T : e <= o
<1> DEFINE R == {p \in Nat \X Nat : p[1] < p[2]}
<1>1. IsWellFoundedOn(R, Nat)
  BY NatLessThanWellFounded, Zenon DEF OpToRel
<1>2. \A e, o \in T : e <= o \/ << o, e >> \in R
  OBVIOUS
<1> HIDE DEF R
<1>3. \E e \in T : \A o \in T : ~(<< o, e >> \in R)
  BY <1>1, WFMin
<1> QED BY <1>2, <1>3

LEMMA MaxOf ==
  ASSUME NEW T, T \subseteq Int, T # {}, NEW b \in Int, \A o \in T : o <= b
  PROVE  Max(T) \in T /\ \A o \in T : o <= Max(T)
<1> DEFINE U == {b - e : e \in T}
<1>1. U \subseteq Nat /\ U # {}
  <2>1. \A e \in T : b - e \in Nat
    OBVIOUS
  <2>2. PICK e \in T : TRUE
    OBVIOUS
  <2>3. b - e \in U
    BY <2>2
  <2> QED BY <2>1, <2>3
<1>2. PICK u \in U : \A o \in U : u <= o
  <2> HIDE DEF U
  <2> QED BY <1>1, Least
<1>3. PICK e \in T : u = b - e
  BY <1>2
<1>4. ASSUME NEW o \in T
      PROVE  e >= o
  <2>1. b - o \in U
    OBVIOUS
  <2>2. b - e <= b - o
    BY <1>2, <1>3, <2>1
  <2> QED BY <2>2
<1>5. Max(T) \in T /\ \A o \in T : Max(T) >= o
  BY <1>4, Zenon DEF Max
<1> QED BY <1>5

LEMMA MinOf ==
  ASSUME NEW T, T \subseteq Int, T # {}, NEW b \in Int, \A o \in T : b <= o
  PROVE  Min(T) \in T /\ \A o \in T : Min(T) <= o
<1> DEFINE U == {e - b : e \in T}
<1>1. U \subseteq Nat /\ U # {}
  <2>1. \A e \in T : e - b \in Nat
    OBVIOUS
  <2>2. PICK e \in T : TRUE
    OBVIOUS
  <2>3. e - b \in U
    BY <2>2
  <2> QED BY <2>1, <2>3
<1>2. PICK u \in U : \A o \in U : u <= o
  <2> HIDE DEF U
  <2> QED BY <1>1, Least
<1>3. PICK e \in T : u = e - b
  BY <1>2
<1>4. ASSUME NEW o \in T
      PROVE  e =< o
  <2>1. o - b \in U
    OBVIOUS
  <2>2. e - b <= o - b
    BY <1>2, <1>3, <2>1
  <2>3. e \in Int /\ o \in Int
    OBVIOUS
  <2> HIDE DEF U
  <2> QED BY <2>2, <2>3
<1>5. Min(T) \in T /\ \A o \in T : Min(T) =< o
  BY <1>4, Zenon DEF Min
<1> QED BY <1>5

(* An element no other one exceeds is the greatest; likewise the least. *)
LEMMA IsMax ==
  ASSUME NEW T, T \subseteq Int, NEW e \in T, \A o \in T : o <= e
  PROVE  Max(T) = e
<1> DEFINE g == Max(T)
<1>1. g \in T /\ \A o \in T : o <= g
  BY MaxOf
<1> HIDE DEF g
<1>2. g \in Int /\ e \in Int /\ g <= e /\ e <= g
  BY <1>1
<1>3. g = e
  BY <1>2
<1> QED BY <1>3 DEF g

LEMMA IsMin ==
  ASSUME NEW T, T \subseteq Int, NEW e \in T, \A o \in T : e <= o
  PROVE  Min(T) = e
<1> DEFINE g == Min(T)
<1>1. g \in T /\ \A o \in T : g <= o
  BY MinOf
<1> HIDE DEF g
<1>2. g \in Int /\ e \in Int /\ g <= e /\ e <= g
  BY <1>1
<1>3. g = e
  BY <1>2
<1> QED BY <1>3 DEF g

-----------------------------------------------------------------------------
(***************************************************************************)
(* stab_binsearch()                                                        *)
(***************************************************************************)
LastStab == Max(DOMAIN stabs)

(* The arguments of the search. *)
Args ==
  /\ IsTable(stabs)
  /\ from \in DOMAIN stabs /\ to \in Int /\ to <= LastStab
  /\ target \in Int
  /\ InOrder(stabs, OfType)

(***************************************************************************)
(* During the search: entries of the type to the left of what is left to   *)
(* search cover the target, the region ends before one that does not, and  *)
(* the address is the next one once the target was met.                    *)
(***************************************************************************)
Narrowed ==
  /\ l \in Int /\ from <= l
  /\ r \in Int /\ r <= to /\ region_right = r
  /\ region_left \in Int /\ from <= region_left /\ region_left <= l
  /\ region_left = from \/ region_left \in Covering
  /\ r = to \/ r + 1 \in OfType \ Covering
  /\ \A k \in OfType : k < l => k \in Covering /\ k <= region_left
  /\ \/ addr = target
     \/ addr = target + 1 /\ region_left \in OfType /\ stabs[region_left].value = target
  /\ ~any_matches => r = to /\ region_left = from /\ \A k \in OfType : l <= k
  /\ any_matches => OfType # {}

(* After it: what was found, and that the region lies in what was searched. *)
Found ==
  /\ Finds
  /\ region_left \in Int /\ region_right \in Int
  /\ region_left \in Covering \/ region_left = from \/ from \in OfType
  /\ Covering # {} => region_left \in Covering
  /\ region_right <= to \/ region_right = from - 1
  /\ \A k \in OfType : k <= region_right => k \in Covering
  /\ \A k \in OfType : from <= k

SearchInv ==
  /\ pc \in {"idle", "loop", "done"}
  /\ pc # "idle" => Args
  /\ pc = "loop" => Narrowed
  /\ pc = "done" => Found

LEMMA TableFacts ==
  ASSUME Args
  PROVE  /\ LastStab \in Nat /\ DOMAIN stabs = 0 .. LastStab
         /\ OfType \subseteq DOMAIN stabs /\ Covering \subseteq OfType
         /\ \A k \in DOMAIN stabs : stabs[k].value \in Int
         /\ \A j, k \in OfType : j < k => stabs[j].value + 2 <= stabs[k].value
         /\ \A k \in OfType : from <= k /\ k <= to
  BY DEF Args, IsTable, LastStab, OfType, Covering, InOrder

LEMMA Middle ==
  ASSUME NEW a \in Int, NEW b \in Int, a <= b
  PROVE  (a + b) \div 2 \in a .. b
  OBVIOUS

LEMMA Narrowing ==
  ASSUME SearchInv, Next
  PROVE  SearchInv'
<1>1. Args /\ Narrowed /\ pc = "loop"
  BY DEF SearchInv, Next, NoMatch, Below, Above, Exact, Finish
<1>2. UNCHANGED args
  BY DEF Next, NoMatch, Below, Above, Exact, Finish
<1>3. Args' /\ OfType' = OfType /\ Covering' = Covering
  BY <1>1, <1>2 DEF args, Args, InOrder, OfType, Covering, IsTable, LastStab
<1>4. /\ OfType \subseteq 0 .. LastStab /\ Covering \subseteq OfType /\ LastStab \in Nat
      /\ \A k \in OfType : /\ stabs[k].value \in Int /\ from <= k /\ k <= to
                           /\ stabs[k].type = type
      /\ \A j, k \in OfType : j < k => stabs[j].value + 2 <= stabs[k].value
      /\ \A k \in OfType : k \in Covering <=> stabs[k].value <= target
      /\ from \in 0 .. LastStab /\ to \in Int /\ target \in Int
  BY <1>1, TableFacts DEF Args, OfType, Covering
<1>5. ASSUME l <= r
      PROVE  /\ true_m \in l .. r
             /\ Candidates = {k \in OfType : l <= k /\ k <= true_m}
             /\ Candidates # {} => /\ m \in Candidates
                                   /\ \A k \in Candidates : k <= m
  <2>1. true_m \in l .. r
    BY <1>1, <1>5, Middle DEF true_m, Narrowed
  <2>2. Candidates = {k \in OfType : l <= k /\ k <= true_m}
    BY <2>1, <1>1, <1>4 DEF Candidates, OfType, Narrowed
  <2>3. Candidates # {} => m \in Candidates /\ \A k \in Candidates : k <= m
    <3>1. OfType \subseteq Int /\ true_m \in Int
      BY <2>1, <1>1, <1>4 DEF Narrowed
    <3>2. Candidates \subseteq Int /\ \A k \in Candidates : k <= true_m
      BY <2>2, <3>1
    <3> QED BY <3>1, <3>2, MaxOf DEF m
  <2> QED BY <2>1, <2>2, <2>3
<1>6. CASE NoMatch
  <2>1. Narrowed'
    BY <1>1, <1>2, <1>3, <1>4, <1>5, <1>6 DEF NoMatch, Narrowed, args, region
  <2> QED BY <2>1, <1>3, <1>1, <1>6 DEF SearchInv, NoMatch
<1>7. CASE Below
  <2>1. m \in OfType /\ l <= m /\ m <= true_m /\ stabs[m].value < addr
        /\ true_m \in l .. r /\ \A k \in OfType : l <= k /\ k <= true_m => k <= m
    BY <1>5, <1>7 DEF Below
  <2>2. m \in Covering
    BY <2>1, <1>1, <1>4 DEF Narrowed
  <2>3. \A k \in OfType : k < true_m + 1 => k \in Covering /\ k <= m
    <3> SUFFICES ASSUME NEW k \in OfType, k < true_m + 1
                 PROVE  k \in Covering /\ k <= m
      OBVIOUS
    <3>1. k <= m
      BY <2>1, <1>1, <1>4 DEF Narrowed
    <3> QED BY <3>1, <2>1, <2>2, <1>4
  <2>4. addr = target + 1 => m = region_left
    BY <2>1, <1>1, <1>4 DEF Narrowed
  <2>5. Narrowed'
    BY <1>1, <1>2, <1>3, <1>4, <1>7, <2>1, <2>2, <2>3, <2>4 DEF Below, Narrowed, args
  <2> QED BY <2>5, <1>3, <1>1, <1>7 DEF SearchInv, Below
<1>8. CASE Above
  <2>1. m \in OfType /\ l <= m /\ m <= true_m /\ stabs[m].value > addr /\ true_m \in l .. r
    BY <1>5, <1>8 DEF Above
  <2>2. m \notin Covering /\ region_left <= m
    BY <2>1, <1>1, <1>4 DEF Narrowed
  <2>3. Narrowed'
    BY <1>1, <1>2, <1>3, <1>4, <1>8, <2>1, <2>2 DEF Above, Narrowed, args
  <2> QED BY <2>3, <1>3, <1>1, <1>8 DEF SearchInv, Above
<1>9. CASE Exact
  <2>1. m \in OfType /\ l <= m /\ m <= true_m /\ stabs[m].value = addr /\ true_m \in l .. r
    BY <1>5, <1>9 DEF Exact
  <2>2. addr = target
    BY <2>1, <1>1, <1>4 DEF Narrowed
  <2>3. m \in Covering
    BY <2>1, <2>2, <1>4
  <2>4. \A k \in OfType : k < m => k \in Covering /\ k <= m
    BY <2>1, <2>2, <1>4
  <2>5. /\ l' = m /\ r' = r /\ region_left' = m /\ region_right' = region_right
        /\ addr' = target + 1 /\ any_matches' = TRUE
        /\ UNCHANGED << stabs, from, to, target >>
    BY <1>2, <1>9, <2>2 DEF Exact, args
  <2>6. m \in Int /\ from <= m /\ stabs[m].value = target /\ m \in OfType
    BY <2>1, <2>2, <1>4
  <2>7. Narrowed'
    BY <1>1, <1>3, <2>3, <2>4, <2>5, <2>6 DEF Narrowed
  <2> QED BY <2>7, <1>3, <1>1, <1>9 DEF SearchInv, Exact
<1>10. CASE Finish
  <2> DEFINE Results ==
         /\ region_left' \in Int /\ region_right' \in Int
         /\ Covering # {} =>
              /\ region_left' = Max(Covering)
              /\ region_right' = Min({to + 1} \cup {k \in OfType : k > region_left'}) - 1
              /\ region_left' \in Covering
         /\ OfType = {} => region_left' > region_right'
         /\ region_left' \in Covering \/ region_left' = from \/ from \in OfType
         /\ region_right' <= to \/ region_right' = from - 1
         /\ \A k \in OfType : k <= region_right' => k \in Covering
         /\ \A k \in OfType : from <= k
  <2>1. /\ l \in Int /\ r \in Int /\ region_left \in Int /\ from \in Int /\ to \in Int
        /\ from <= region_left /\ region_left <= l /\ r <= to /\ r < l /\ region_right = r
        /\ region_left = from \/ region_left \in Covering
        /\ r = to \/ (r + 1 \in OfType /\ r + 1 \notin Covering)
    BY <1>1, <1>4, <1>10 DEF Finish, Narrowed
  <2>2. \A k \in OfType :
          /\ k <= r => k \in Covering /\ k <= region_left
          /\ k \in Covering => k <= r
    <3>1. \A k \in OfType : k < l => k \in Covering /\ k <= region_left
      BY <1>1 DEF Narrowed
    <3>2. \A k \in OfType : k <= r => k < l
      BY <2>1, <1>4
    <3>3. ASSUME NEW k \in OfType, r < k, k \in Covering
          PROVE  FALSE
      <4>1. r + 1 \in OfType /\ r + 1 \notin Covering /\ r + 1 <= k
        BY <3>3, <2>1, <1>4
      <4>2. stabs[r + 1].value <= stabs[k].value /\ stabs[k].value <= target
        BY <4>1, <3>3, <2>1, <1>4
      <4>3. ~(stabs[r + 1].value <= target) /\ stabs[r + 1].value \in Int /\ stabs[k].value \in Int
        BY <4>1, <1>4
      <4> QED BY <4>2, <4>3, <1>4
    <3>4. \A k \in OfType : k \in Int /\ (r < k \/ k <= r)
      BY <2>1, <1>4
    <3> QED BY <3>1, <3>2, <3>3, <3>4
  <2>9. (\A k \in OfType : k \in Int /\ from <= k /\ k <= to) /\ Covering \subseteq OfType
    BY <1>4
  <2>3. ASSUME ~any_matches
        PROVE  Results
    <3>1. region_left' = region_left /\ region_right' = region_left - 1
      BY <2>3, <1>10 DEF Finish
    <3>2. region_left = from /\ \A k \in OfType : l <= k
      BY <2>3, <1>1 DEF Narrowed
    <3>3. r = to
      BY <2>3, <1>1 DEF Narrowed
    <3>4. OfType = {}
      BY <3>2, <3>3, <2>1, <2>9
    <3>5. Covering = {}
      BY <3>4, <2>9
    <3>6. Results
      BY <3>1, <3>2, <3>4, <3>5, <2>1
    <3> QED BY <3>6
  <2>4. ASSUME any_matches
        PROVE  region_left' = LastOfType /\ region_right' = r /\ OfType # {}
    BY <2>4, <1>1, <1>10, Zenon DEF Finish, Narrowed
  <2>5. ASSUME any_matches /\ region_left <= r
        PROVE  Results
    <3>1. region_left' = region_left /\ region_right' = r
      <4>1. CASE r = region_left
        BY <4>1, <2>1, <2>4, <2>5 DEF LastOfType
      <4>2. CASE region_left < r
        <5> DEFINE S == {region_left} \cup {k \in region_left .. region_right : stabs[k].type = type}
        <5>1. \A k \in S : k \in Int /\ k <= region_left
          <6>1. ASSUME NEW k \in region_left .. region_right, stabs[k].type = type
                PROVE  k \in OfType /\ k <= r
            BY <2>1, <6>1 DEF OfType
          <6> QED BY <6>1, <2>1, <2>2
        <5>2. region_left \in S /\ S \subseteq Int
          BY <5>1
        <5>3. LastOfType = Max(S)
          BY <4>2, <2>1 DEF LastOfType
        <5> HIDE DEF S
        <5>4. Max(S) = region_left
          BY <5>1, <5>2, IsMax
        <5> QED BY <5>3, <5>4, <2>4, <2>5
      <4> QED BY <4>1, <4>2, <2>1, <2>5
    <3>2. Covering # {} => region_left \in Covering
      <4>1. ASSUME NEW k \in Covering, region_left = from
            PROVE  region_left \in Covering
        <5>1. k \in OfType
          BY <2>9
        <5>2. k <= region_left /\ from <= k /\ k \in Int
          BY <5>1, <2>2, <2>9
        <5>3. k = region_left
          BY <5>2, <4>1, <2>1
        <5> QED BY <5>3
      <4> QED BY <4>1, <2>1
    <3>3. Covering # {} => Max(Covering) = region_left
      <4>1. \A k \in Covering : k \in Int /\ k \in OfType
        BY <2>9
      <4>2. \A k \in Covering : k <= region_left
        BY <2>2, <4>1
      <4> QED BY <4>1, <4>2, <3>2, IsMax
    <3>4. Min({to + 1} \cup {k \in OfType : k > region_left}) = r + 1
      <4> DEFINE S == {to + 1} \cup {k \in OfType : k > region_left}
      <4>1. \A k \in OfType : k \in Int
        BY <2>9
      <4>2. S \subseteq Int
        BY <2>1, <4>1
      <4>3. r + 1 \in S
        BY <2>1, <2>5
      <4>4. \A k \in OfType : k > region_left => r + 1 <= k
        BY <2>1, <2>2, <4>1
      <4>5. \A k \in S : r + 1 <= k
        BY <2>1, <4>4
      <4> HIDE DEF S
      <4>6. Min(S) = r + 1
        BY <4>2, <4>3, <4>5, IsMin
      <4> QED BY <4>6 DEF S
    <3>5. r = Min({to + 1} \cup {k \in OfType : k > region_left'}) - 1
      BY <3>1, <3>4, <2>1
    <3>6. Results
      BY <3>1, <3>2, <3>3, <3>5, <2>1, <2>2, <2>4, <2>5, <2>9
    <3> QED BY <3>6
  <2>6. ASSUME any_matches /\ ~(region_left <= r)
        PROVE  Results
    <3>1. region_left' = r /\ region_right' = r
      BY <2>1, <2>4, <2>6 DEF LastOfType
    <3>2. \A k \in OfType : k \in Covering => k <= r /\ k <= region_left
      BY <2>2
    <3>3. Covering = {}
      <4>1. ASSUME NEW k \in Covering
            PROVE  FALSE
        <5>1. k \in OfType /\ from <= k /\ k \in Int
          BY <2>9
        <5>2. k <= r /\ k <= region_left
          BY <5>1, <3>2
        <5>3. region_left \notin Covering
          BY <2>1, <2>2, <2>6, <2>9
        <5>4. region_left = from
          BY <5>3, <2>1
        <5> QED BY <5>1, <5>2, <5>4, <2>1, <2>6
      <4> QED BY <4>1
    <3>4. from \in OfType
      <4>1. region_left = from /\ r + 1 <= from
        BY <3>3, <2>1, <2>6
      <4>2. PICK k \in OfType : TRUE
        BY <2>4, <2>6
      <4>3. r < k /\ k <= to /\ k \in Int
        BY <3>3, <2>1, <2>2, <2>9
      <4>4. r + 1 \in OfType
        BY <4>3, <2>1
      <4>5. from <= r + 1
        BY <4>4, <2>9
      <4> QED BY <4>1, <4>4, <4>5, <2>1
    <3>5. Results
      BY <3>1, <3>3, <3>4, <2>1, <2>2, <2>4, <2>6, <2>9
    <3> QED BY <3>5
  <2> HIDE DEF Results
  <2>7. Results
    BY <2>3, <2>5, <2>6
  <2>8. Found'
    BY <2>7, <1>2, <1>3 DEF Results, Found, Finds, args
  <2> QED BY <2>8, <1>3, <1>10 DEF SearchInv, Finish
<1> QED BY <1>6, <1>7, <1>8, <1>9, <1>10 DEF Next

LEMMA SearchStarts ==
  ASSUME NEW left \in DOMAIN stabs, NEW right \in Int, NEW ty, NEW a \in Int,
         IsTable(stabs), right <= LastStab,
         InOrder(stabs, {k \in left .. right : stabs[k].type = ty}),
         Search(left, right, ty, a)
  PROVE  SearchInv'
<1>1. left \in Int
  BY DEF IsTable
<1>2. OfType' = {k \in left .. right : stabs[k].type = ty}
  BY DEF Search, OfType
<1>3. Args'
  BY <1>2 DEF Search, Args, IsTable, LastStab, InOrder
<1>4. \A k \in OfType' : left <= k
  BY <1>1, <1>2
<1>5. /\ from' = left /\ to' = right /\ target' = a /\ l' = left /\ r' = right
      /\ region_left' = left /\ region_right' = right /\ any_matches' = FALSE
      /\ addr' = a /\ pc' = "loop"
  BY DEF Search
<1>6. Narrowed'
  <2>1. \A k \in OfType' : ~(k < left)
    BY <1>1, <1>2
  <2> QED BY <1>1, <1>4, <1>5, <2>1 DEF Narrowed
<1> QED BY <1>3, <1>5, <1>6 DEF SearchInv

LEMMA SearchStart == ASSUME Init PROVE SearchInv
<1> SUFFICES ASSUME NEW tab \in Tables, NEW ty \in Types, NEW a \in Addrs,
                    NEW left \in DOMAIN tab, NEW right \in DOMAIN tab,
                    Begin(tab, left, right, ty, a)
             PROVE  SearchInv
  BY DEF Init
<1>1. /\ stabs = tab /\ from = left /\ to = right /\ target = a /\ pc = "loop"
      /\ l = left /\ r = right /\ region_left = left /\ region_right = right
      /\ addr = a /\ any_matches = FALSE /\ type = ty
  BY DEF Begin
<1>2. /\ IsTable(stabs) /\ a \in Int
      /\ InOrder(stabs, {k \in DOMAIN stabs : stabs[k].type = ty})
  BY <1>1, TablesAssumption
<1>3. LastStab \in Nat /\ DOMAIN stabs = 0 .. LastStab
  BY <1>2 DEF IsTable, LastStab
<1>4. OfType \subseteq {k \in DOMAIN stabs : stabs[k].type = ty}
  BY <1>1, <1>3 DEF OfType
<1>5. Args
  BY <1>1, <1>2, <1>3, <1>4 DEF Args, InOrder
<1>6. \A k \in OfType : from <= k
  BY <1>5, TableFacts
<1>7. \A k \in OfType : ~(k < left)
  BY <1>1, <1>3, <1>6 DEF OfType
<1>8. Narrowed
  BY <1>1, <1>2, <1>3, <1>6, <1>7 DEF Narrowed
<1> QED BY <1>1, <1>5, <1>8 DEF SearchInv

(* The search finds the entry that covers the address, in every table. *)
THEOREM SearchFinds == Spec => []Finds
<1>1. Init => SearchInv
  BY SearchStart
<1>2. SearchInv /\ [Next]_vars => SearchInv'
  <2>1. CASE UNCHANGED vars
    BY <2>1 DEF vars, SearchInv, Args, Narrowed, Found, Finds, OfType, Covering, InOrder, IsTable, LastStab
  <2> QED BY <2>1, Narrowing
<1>3. SearchInv => Finds
  BY DEF SearchInv, Found, Finds
<1> QED BY <1>1, <1>2, <1>3, PTL DEF Spec

-----------------------------------------------------------------------------
(***************************************************************************)
(* debuginfo_eip()                                                         *)
(***************************************************************************)
(* The entries from one to another are all those before the next of types. *)
Reaches(k, e, types) ==
  /\ e \in k .. LastStab
  /\ \A n \in k + 1 .. e : stabs[n].type \notin types
  /\ e = LastStab \/ stabs[e + 1].type \in types

(* [lfile, rfile] is what the table has of the file the address is in. *)
InFile == lfile \in File(stabs, eip) /\ Reaches(lfile, rfile, {"SO"})

(***************************************************************************)
(* While the line is searched for: the region starts at a function or file *)
(* and has none behind it; and when a function covers the address, it is   *)
(* that function, as far as it goes.                                       *)
(***************************************************************************)
InFunction ==
  /\ from \in lfile .. rfile /\ lline = from /\ to <= rfile
  /\ stabs[from].type \in {"SO", "FUN"}
  /\ \A n \in from + 1 .. to : stabs[n].type \notin {"SO", "FUN"}
  /\ \A fn \in LastBelow(stabs, Functions(stabs, lfile), eip) :
       /\ info.fn = fn /\ from = fn
       /\ target = eip - stabs[fn].value
       /\ Reaches(from, to, {"SO", "FUN"})
  /\ Functions(stabs, lfile) = {} => info.fn = None

(* In a file without functions, there is no name to be found. *)
Nameless == (\A f \in File(stabs, eip) : Functions(stabs, f) = {}) => info.fn = None

LookupInv ==
  /\ SearchInv
  /\ info \in [fn : Int, line : Int, file : Int, narg : Nat]
  /\ stage \in {"idle", "called", "file", "fun", "line", "returned", "panicked"}
  /\ stage # "idle" => IsKernelTable(stabs) /\ eip \in Int
  /\ stage \in {"file", "fun", "line"} => pc \in {"loop", "done"} /\ stabs \notin BadStrings
  /\ stage = "file" => from = 0 /\ to = LastStab /\ type = "SO" /\ target = eip
  /\ stage \in {"file", "fun"} => info.fn = None
  /\ stage = "fun" => InFile /\ from = lfile /\ to = rfile /\ type = "FUN" /\ target = eip
  /\ stage = "line" => InFile /\ InFunction /\ type = "SLINE"
  /\ stage = "returned" => AnswersRight /\ Nameless

(* The header is of none of the types that are searched for. *)
LEMMA KernelTables ==
  ASSUME IsKernelTable(stabs)
  PROVE  /\ IsTable(stabs)
         /\ LastStab \in Nat /\ DOMAIN stabs = 0 .. LastStab
         /\ \A k \in 0 .. LastStab : stabs[k].value \in Nat
         /\ stabs[0].type \notin {"SO", "FUN", "SLINE"}
  BY DEF IsKernelTable, IsTable, LastStab

LEMMA UpToNextIs ==
  ASSUME IsTable(stabs), NEW k \in DOMAIN stabs, NEW e, NEW types, Reaches(k, e, types)
  PROVE  UpToNext(stabs, k, types) = k + 1 .. e
<1>1. /\ LastStab \in Nat /\ DOMAIN stabs = 0 .. LastStab
      /\ k \in 0 .. LastStab /\ e \in k .. LastStab
  BY DEF IsTable, LastStab, Reaches
<1>2. ASSUME NEW j \in k + 1 .. e
      PROVE  j \in UpToNext(stabs, k, types)
  <2>1. j \in 0 .. LastStab /\ j > k
    BY <1>1
  <2>2. \A n \in k + 1 .. j : stabs[n].type \notin types
    BY <1>1 DEF Reaches
  <2> QED BY <1>1, <2>1, <2>2 DEF UpToNext
<1>3. ASSUME NEW j \in UpToNext(stabs, k, types)
      PROVE  j \in k + 1 .. e
  <2>1. j \in 0 .. LastStab /\ j > k /\ \A n \in k + 1 .. j : stabs[n].type \notin types
    BY <1>1 DEF UpToNext
  <2>2. ASSUME e < j
        PROVE  FALSE
    <3>1. e + 1 \in k + 1 .. j /\ e # LastStab
      BY <1>1, <2>1, <2>2
    <3> QED BY <3>1, <2>1 DEF Reaches
  <2> QED BY <1>1, <2>1, <2>2
<1> QED BY <1>2, <1>3

LEMMA LastBelowUnique ==
  ASSUME NEW S, S \subseteq Int, NEW a, NEW j \in LastBelow(stabs, S, a), NEW k \in LastBelow(stabs, S, a)
  PROVE  j = k
<1>1. j \in S /\ k \in S /\ j <= k /\ k <= j
  BY DEF LastBelow
<1> QED BY <1>1

(* What the search found is what covers the address, and how far. *)
LEMMA FoundIs ==
  ASSUME Args, Found, pc = "done", Covering # {}
  PROVE  /\ region_left \in LastBelow(stabs, OfType, target)
         /\ region_left \in from .. to
         /\ region_right \in region_left .. to
         /\ \A k \in OfType : ~(region_left < k /\ k <= region_right)
         /\ region_right = to \/ region_right + 1 \in OfType
<1> DEFINE S == {k \in OfType : k > region_left}
           M == {to + 1} \cup S
<1>1. /\ region_left = Max(Covering) /\ region_left \in Covering
      /\ region_right = Min(M) - 1
  BY DEF Found, Finds
<1>2. /\ \A k \in OfType : k \in Int /\ from <= k /\ k <= to
      /\ Covering = {k \in OfType : stabs[k].value <= target}
      /\ from \in Int /\ to \in Int
  BY TableFacts DEF Covering, Args
<1>3. \A k \in Covering : k <= region_left
  <2>1. Covering \subseteq Int /\ \A k \in Covering : k <= to
    BY <1>2
  <2> QED BY <2>1, <1>1, <1>2, MaxOf
<1>4. region_left \in LastBelow(stabs, OfType, target)
  BY <1>1, <1>2, <1>3 DEF LastBelow
<1>5. region_left \in from .. to
  BY <1>1, <1>2
<1>6. M \subseteq Int /\ (\A k \in M : region_left <= k) /\ to + 1 \in M
  BY <1>2, <1>5
<1> HIDE DEF M
<1>7. M # {} /\ region_left \in Int
  BY <1>2, <1>5, <1>6
<1> DEFINE g == Min(M)
<1>8. region_right + 1 \in M /\ (\A k \in M : region_right + 1 <= k) /\ region_right \in Int
  <2>1. g \in M /\ \A k \in M : g <= k
    BY <1>6, <1>7, MinOf
  <2>2. region_right = g - 1
    BY <1>1
  <2> HIDE DEF g
  <2>3. g \in Int
    BY <1>6, <2>1
  <2>4. region_right + 1 = g
    BY <2>2, <2>3
  <2> QED BY <2>1, <2>2, <2>3, <2>4
<1>9. region_right \in region_left .. to
  <2>1. region_right <= to
    BY <1>2, <1>6, <1>8
  <2>2. region_left < region_right + 1
    BY <1>2, <1>5, <1>8 DEF M
  <2> QED BY <2>1, <2>2, <1>2, <1>5, <1>8
<1>10. \A k \in OfType : ~(region_left < k /\ k <= region_right)
  BY <1>2, <1>5, <1>8 DEF M
<1>11. region_right = to \/ region_right + 1 \in OfType
  BY <1>2, <1>8 DEF M
<1> QED BY <1>4, <1>5, <1>9, <1>10, <1>11

LEMMA NothingFound ==
  ASSUME Args, Found, Covering = {}, from \notin OfType
  PROVE  /\ region_left = from
         /\ region_right \in Int /\ (region_right <= to \/ region_right = from - 1)
         /\ \A k \in OfType : ~(k <= region_right)
  BY DEF Found

(* What of the invariant depends on the arguments and the table alone. *)
LEMMA SameSearch ==
  ASSUME SearchInv, UNCHANGED vars
  PROVE  SearchInv'
  BY DEF vars, SearchInv, Args, Narrowed, Found, Finds, OfType, Covering, InOrder, IsTable, LastStab

LEMMA SameFile ==
  ASSUME InFile, UNCHANGED << stabs, eip, lfile, rfile >>
  PROVE  InFile'
  BY DEF InFile, File, LastBelow, Indices, Reaches, LastStab

LEMMA SameFunction ==
  ASSUME InFunction, UNCHANGED << stabs, from, to, type, target, eip, lfile, rfile, lline, info >>
  PROVE  InFunction'
  BY DEF InFunction, LastBelow, Functions, UpToNext, Reaches, LastStab

LEMMA SameAnswer ==
  ASSUME AnswersRight, Nameless, UNCHANGED << stabs, eip, stage, info, result >>
  PROVE  AnswersRight' /\ Nameless'
  BY DEF AnswersRight, Nameless, File, LastBelow, Functions, Lines, UpToNext, Indices, NameOf

LEMMA LookupStarts ==
  ASSUME LookupInv, Lookup
  PROVE  LookupInv'
<1>1. IsKernelTable(stabs) /\ eip \in Int /\ stage' = "file" /\ UNCHANGED << stabs, eip >>
      /\ Search(0, LastStab, "SO", eip) /\ info' = NoInfo /\ stabs \notin BadStrings
  BY DEF LookupInv, Lookup, Search, LastStab
<1>2. IsTable(stabs) /\ LastStab \in Nat /\ DOMAIN stabs = 0 .. LastStab
  BY <1>1, KernelTables
<1>3. InOrder(stabs, {k \in 0 .. LastStab : stabs[k].type = "SO"})
  BY <1>1, <1>2 DEF IsKernelTable
<1>4. SearchInv'
  BY <1>1, <1>2, <1>3, SearchStarts
<1>5. info' \in [fn : Int, line : Int, file : Int, narg : Nat] /\ info'.fn = None
  BY <1>1 DEF NoInfo, None
<1>6. /\ from' = 0 /\ to' = LastStab' /\ type' = "SO" /\ target' = eip' /\ pc' = "loop"
  BY <1>1 DEF Search, LastStab
<1>7. IsKernelTable(stabs')
  BY <1>1
<1> QED BY <1>1, <1>4, <1>5, <1>6, <1>7 DEF LookupInv

(* The file search ends at entry 0 if no file starts at or below the address. *)
LEMMA FileSearched ==
  ASSUME LookupInv, stage = "file", pc = "done"
  PROVE  /\ region_left = 0 => File(stabs, eip) = {}
         /\ region_left # 0 => region_left \in File(stabs, eip)
                               /\ Reaches(region_left, region_right, {"SO"})
         /\ region_left \in 0 .. LastStab
<1>1. /\ IsKernelTable(stabs) /\ eip \in Int /\ Args /\ Found
      /\ from = 0 /\ to = LastStab /\ type = "SO" /\ target = eip
  BY DEF LookupInv, SearchInv
<1>2. /\ LastStab \in Nat /\ DOMAIN stabs = 0 .. LastStab
      /\ stabs[0].type # "SO" /\ IsTable(stabs)
  BY <1>1, KernelTables
<1>3. OfType = {k \in Indices : stabs[k].type = "SO"}
  BY <1>1, <1>2 DEF OfType, Indices
<1>4. File(stabs, eip) = LastBelow(stabs, OfType, target)
  BY <1>1, <1>3 DEF File, Indices
<1>5. 0 \notin OfType
  BY <1>2, <1>3
<1>6. CASE Covering = {}
  <2>1. region_left = 0
    BY <1>1, <1>5, <1>6, NothingFound
  <2>2. File(stabs, eip) = {}
    BY <1>4, <1>6 DEF LastBelow, Covering
  <2> QED BY <2>1, <2>2, <1>2
<1>7. CASE Covering # {}
  <2>1. /\ region_left \in LastBelow(stabs, OfType, target)
        /\ region_left \in 0 .. LastStab
        /\ region_right \in region_left .. LastStab
        /\ \A k \in OfType : ~(region_left < k /\ k <= region_right)
        /\ region_right = LastStab \/ region_right + 1 \in OfType
    BY <1>1, <1>7, FoundIs
  <2>2. region_left # 0
    BY <2>1, <1>5 DEF LastBelow
  <2>3. \A n \in region_left + 1 .. region_right : stabs[n].type # "SO"
    BY <2>1, <1>2, <1>3 DEF Indices
  <2>4. Reaches(region_left, region_right, {"SO"})
    BY <2>1, <2>3, <1>3 DEF Reaches
  <2> QED BY <2>1, <2>2, <2>4, <1>4
<1> QED BY <1>6, <1>7

LEMMA NoFileAnswer ==
  ASSUME LookupInv, NoFile
  PROVE  LookupInv'
<1>1. /\ stage = "file" /\ pc = "done" /\ region_left = 0
      /\ stage' = "returned" /\ result' = -1 /\ UNCHANGED << vars, eip, info >>
      /\ stabs \notin BadStrings
  BY DEF NoFile, LookupInv
<1>2. File(stabs, eip) = {}
  BY <1>1, FileSearched
<1>3. File(stabs, eip)' = {}
  BY <1>1, <1>2 DEF File, LastBelow, Indices, vars
<1>4. AnswersRight' /\ Nameless'
  <2>1. info'.fn = None
    BY <1>1 DEF LookupInv
  <2> QED BY <2>1, <1>1, <1>3 DEF AnswersRight, Nameless
<1>5. SearchInv'
  BY <1>1, SameSearch DEF LookupInv
<1>6. IsKernelTable(stabs') /\ eip' \in Int
  BY <1>1 DEF LookupInv, vars
<1> QED BY <1>1, <1>4, <1>5, <1>6 DEF LookupInv

LEMMA FunctionSearchStarts ==
  ASSUME LookupInv, FileFound
  PROVE  LookupInv'
<1>1. /\ stage = "file" /\ pc = "done" /\ region_left # 0 /\ stage' = "fun"
      /\ lfile' = region_left /\ rfile' = region_right
      /\ Search(region_left, region_right, "FUN", eip)
      /\ UNCHANGED << stabs, eip, info >> /\ stabs \notin BadStrings
  BY DEF FileFound, Search, LookupInv
<1>2. IsKernelTable(stabs) /\ eip \in Int
  BY <1>1 DEF LookupInv
<1>3. /\ IsTable(stabs) /\ LastStab \in Nat /\ DOMAIN stabs = 0 .. LastStab
  BY <1>2, KernelTables
<1>4. /\ region_left \in File(stabs, eip) /\ Reaches(region_left, region_right, {"SO"})
      /\ region_left \in 0 .. LastStab
  BY <1>1, FileSearched
<1>5. UpToNext(stabs, region_left, {"SO"}) = region_left + 1 .. region_right
  BY <1>3, <1>4, UpToNextIs
<1>6. stabs[region_left].type = "SO"
  BY <1>4 DEF File, LastBelow
<1>7. InOrder(stabs, Functions(stabs, region_left))
  BY <1>2, <1>3, <1>4, <1>6 DEF IsKernelTable
<1>8. {k \in region_left .. region_right : stabs[k].type = "FUN"} \subseteq Functions(stabs, region_left)
  <2> SUFFICES ASSUME NEW k \in region_left .. region_right, stabs[k].type = "FUN"
               PROVE  k \in region_left + 1 .. region_right
    BY <1>5 DEF Functions
  <2>1. k # region_left
    BY <1>6
  <2> QED BY <2>1, <1>3, <1>4 DEF Reaches
<1>9. region_right \in Int /\ region_right <= LastStab
  BY <1>3, <1>4 DEF Reaches
<1>10. SearchInv'
  <2>1. InOrder(stabs, {k \in region_left .. region_right : stabs[k].type = "FUN"})
    BY <1>7, <1>8 DEF InOrder
  <2> QED BY <2>1, <1>1, <1>2, <1>3, <1>4, <1>9, SearchStarts
<1>11. InFile'
  BY <1>1, <1>4 DEF InFile, File, LastBelow, Indices, Reaches, LastStab
<1>12. /\ from' = lfile' /\ to' = rfile' /\ type' = "FUN" /\ target' = eip' /\ pc' = "loop"
  BY <1>1 DEF Search
<1>13. IsKernelTable(stabs') /\ eip' \in Int /\ info' \in [fn : Int, line : Int, file : Int, narg : Nat]
  BY <1>1, <1>2 DEF LookupInv
<1> QED BY <1>1, <1>10, <1>11, <1>12, <1>13 DEF LookupInv

(* The region found starts at a function or at the file, and has no other. *)
LEMMA FunctionSearched ==
  ASSUME LookupInv, stage = "fun", pc = "done"
  PROVE  /\ region_left \in lfile .. rfile /\ stabs[region_left].type \in {"SO", "FUN"}
         /\ region_right \in Int /\ region_right <= rfile
         /\ region_left = lfile \/ region_left <= region_right
         /\ Functions(stabs, lfile) = {} => ~(region_left <= region_right)
         /\ \A n \in region_left + 1 .. region_right : stabs[n].type \notin {"SO", "FUN"}
         /\ \A fn \in LastBelow(stabs, Functions(stabs, lfile), eip) :
              /\ region_left = fn /\ region_left <= region_right
              /\ Reaches(region_left, region_right, {"SO", "FUN"})
<1>1. /\ IsKernelTable(stabs) /\ eip \in Int /\ Args /\ Found /\ InFile
      /\ from = lfile /\ to = rfile /\ type = "FUN" /\ target = eip
  BY DEF LookupInv, SearchInv
<1>2. /\ LastStab \in Nat /\ DOMAIN stabs = 0 .. LastStab /\ IsTable(stabs)
  BY <1>1, KernelTables
<1>3. /\ lfile \in 0 .. LastStab /\ stabs[lfile].type = "SO" /\ rfile \in lfile .. LastStab
      /\ \A n \in lfile + 1 .. rfile : stabs[n].type # "SO"
      /\ rfile = LastStab \/ stabs[rfile + 1].type = "SO"
  BY <1>1, <1>2 DEF InFile, File, LastBelow, Indices, Reaches
<1>4. UpToNext(stabs, lfile, {"SO"}) = lfile + 1 .. rfile
  BY <1>1, <1>2, <1>3, UpToNextIs DEF InFile
<1>5. OfType = Functions(stabs, lfile)
  BY <1>1, <1>2, <1>3, <1>4 DEF OfType, Functions
<1>6. OfType = {k \in lfile + 1 .. rfile : stabs[k].type = "FUN"}
  BY <1>4, <1>5 DEF Functions
<1>7. CASE Covering = {}
  <2>1. from \notin OfType
    BY <1>1, <1>3, <1>6
  <2>2. /\ region_left = lfile /\ region_right \in Int
        /\ region_right <= rfile \/ region_right = lfile - 1
        /\ \A k \in OfType : ~(k <= region_right)
    BY <1>1, <1>7, <2>1, NothingFound
  <2>3. region_right <= rfile
    BY <2>2, <1>2, <1>3
  <2>4. \A n \in region_left + 1 .. region_right : stabs[n].type \notin {"SO", "FUN"}
    <3> SUFFICES ASSUME NEW n \in lfile + 1 .. region_right
                 PROVE  stabs[n].type \notin {"SO", "FUN"}
      BY <2>2
    <3>1. n \in lfile + 1 .. rfile /\ n <= region_right
      BY <2>2, <2>3, <1>2, <1>3
    <3> QED BY <3>1, <2>2, <1>3, <1>6
  <2>5. LastBelow(stabs, Functions(stabs, lfile), eip) = {}
    BY <1>1, <1>5, <1>7 DEF LastBelow, Covering
  <2>6. region_left \in lfile .. rfile
    BY <2>2, <1>2, <1>3
  <2>7. OfType = {} => ~(region_left <= region_right)
    BY <2>2, <1>1, <1>2, <1>3 DEF Found, Finds, LookupInv, SearchInv
  <2> QED BY <2>2, <2>3, <2>4, <2>5, <2>6, <2>7, <1>3, <1>5
<1>8. CASE Covering # {}
  <2>1. /\ region_left \in LastBelow(stabs, OfType, target)
        /\ region_left \in lfile .. rfile
        /\ region_right \in region_left .. rfile
        /\ \A k \in OfType : ~(region_left < k /\ k <= region_right)
        /\ region_right = rfile \/ region_right + 1 \in OfType
    BY <1>1, <1>8, FoundIs
  <2>2. region_left \in OfType /\ region_left \in Int /\ region_right \in Int /\ region_right <= rfile
        /\ region_left <= region_right
    BY <2>1, <1>2, <1>3 DEF LastBelow
  <2>3. \A n \in region_left + 1 .. region_right : stabs[n].type \notin {"SO", "FUN"}
    <3> SUFFICES ASSUME NEW n \in region_left + 1 .. region_right
                 PROVE  stabs[n].type \notin {"SO", "FUN"}
      OBVIOUS
    <3>1. n \in lfile + 1 .. rfile /\ region_left < n /\ n <= region_right
      BY <2>1, <2>2, <1>2, <1>3
    <3> QED BY <3>1, <2>1, <1>3, <1>6
  <2>4. Reaches(region_left, region_right, {"SO", "FUN"})
    <3>1. region_right \in region_left .. LastStab
      BY <2>1, <2>2, <1>2, <1>3
    <3>2. region_right = LastStab \/ stabs[region_right + 1].type \in {"SO", "FUN"}
      BY <2>1, <1>3, <1>6
    <3> QED BY <3>1, <3>2, <2>3 DEF Reaches
  <2>5. \A fn \in LastBelow(stabs, Functions(stabs, lfile), eip) : fn = region_left
    <3>1. OfType \subseteq Int
      BY <1>2, <1>3, <1>6
    <3> QED BY <3>1, <2>1, <1>1, <1>5, LastBelowUnique
  <2>6. stabs[region_left].type = "FUN"
    BY <2>2, <1>6
  <2> QED BY <2>1, <2>2, <2>3, <2>4, <2>5, <2>6, <1>5
<1> QED BY <1>7, <1>8

LEMMA LineSearchStarts ==
  ASSUME LookupInv, FunctionFound \/ NoFunction
  PROVE  LookupInv'
<1>1. stage = "fun" /\ pc = "done" /\ stabs \notin BadStrings
  BY DEF FunctionFound, NoFunction, LookupInv
<1>2. /\ region_left \in lfile .. rfile /\ stabs[region_left].type \in {"SO", "FUN"}
      /\ region_right \in Int /\ region_right <= rfile
      /\ region_left = lfile \/ region_left <= region_right
      /\ Functions(stabs, lfile) = {} => ~(region_left <= region_right)
      /\ \A n \in region_left + 1 .. region_right : stabs[n].type \notin {"SO", "FUN"}
  BY <1>1, FunctionSearched
<1>3. /\ IsKernelTable(stabs) /\ eip \in Int /\ InFile
      /\ info \in [fn : Int, line : Int, file : Int, narg : Nat] /\ info.fn = None
  BY <1>1 DEF LookupInv
<1>4. /\ IsTable(stabs) /\ LastStab \in Nat /\ DOMAIN stabs = 0 .. LastStab
      /\ \A k \in 0 .. LastStab : stabs[k].value \in Nat
  BY <1>3, KernelTables
<1>5. lfile \in 0 .. LastStab /\ rfile \in lfile .. LastStab
  BY <1>3, <1>4 DEF InFile, File, LastBelow, Indices, Reaches
<1>6. region_left \in 0 .. LastStab /\ region_right <= LastStab
  <2>1. region_left \in lfile .. rfile /\ region_right \in Int /\ region_right <= rfile
    BY <1>2
  <2> QED BY <2>1, <1>4, <1>5
<1>7. /\ stage' = "line" /\ lline' = region_left
      /\ UNCHANGED << stabs, eip, lfile, rfile >>
  <2>1. CASE FunctionFound
    BY <2>1 DEF FunctionFound, Search
  <2>2. CASE NoFunction
    <3>1. /\ ~(region_left <= region_right) /\ lline' = lfile /\ stage' = "line"
          /\ UNCHANGED << stabs, eip, lfile, rfile >>
      BY <2>2, <1>2, <1>6 DEF NoFunction, Search
    <3> QED BY <3>1, <1>2
  <2> QED BY <2>1, <2>2
<1> DEFINE a == IF region_left <= region_right THEN eip - stabs[region_left].value ELSE eip
<1>8. a \in Int /\ Search(region_left, region_right, "SLINE", a)
  <2>1. stabs[region_left].value \in Int
    BY <1>4, <1>6
  <2>2. CASE FunctionFound
    BY <2>1, <2>2, <1>3 DEF FunctionFound
  <2>3. CASE NoFunction
    <3>1. ~(region_left <= region_right)
      BY <2>3, <1>2, <1>6 DEF NoFunction
    <3> QED BY <3>1, <2>3, <1>3 DEF NoFunction
  <2> QED BY <2>2, <2>3
<1>9. /\ info' \in [fn : Int, line : Int, file : Int, narg : Nat]
      /\ region_left <= region_right => info'.fn = region_left
      /\ ~(region_left <= region_right) => info'.fn = None
  <2>1. CASE FunctionFound
    <3>1. info' = [info EXCEPT !.fn = region_left] /\ region_left \in Int
      BY <2>1, <1>6 DEF FunctionFound
    <3>2. region_left <= region_right
      BY <2>1 DEF FunctionFound
    <3> QED BY <3>1, <3>2, <1>3
  <2>2. CASE NoFunction
    BY <2>2, <1>2, <1>3, <1>6 DEF NoFunction
  <2> QED BY <2>1, <2>2
<1>10. SearchInv'
  <2>1. {k \in region_left .. region_right : stabs[k].type = "SLINE"} \subseteq Lines(stabs, region_left)
    <3> SUFFICES ASSUME NEW k \in region_left .. region_right, stabs[k].type = "SLINE"
                 PROVE  k \in UpToNext(stabs, region_left, {"SO", "FUN"})
      BY DEF Lines
    <3>1. k # region_left
      BY <1>2
    <3>2. k \in 0 .. LastStab /\ k > region_left
      BY <3>1, <1>2, <1>4, <1>6
    <3>3. \A n \in region_left + 1 .. k : stabs[n].type \notin {"SO", "FUN"}
      BY <1>2, <1>6
    <3> QED BY <3>2, <3>3, <1>4 DEF UpToNext
  <2>2. InOrder(stabs, Lines(stabs, region_left))
    BY <1>2, <1>3, <1>4, <1>6 DEF IsKernelTable
  <2>3. InOrder(stabs, {k \in region_left .. region_right : stabs[k].type = "SLINE"})
    BY <2>1, <2>2 DEF InOrder
  <2> HIDE DEF a
  <2> QED BY <2>3, <1>2, <1>4, <1>6, <1>8, SearchStarts
<1>11. InFile'
  BY <1>3, <1>7, SameFile
<1>12. /\ from' = region_left /\ to' = region_right /\ type' = "SLINE" /\ target' = a
       /\ pc' = "loop"
  BY <1>8 DEF Search
<1>13. InFunction'
  <2>1. LastBelow(stabs, Functions(stabs, lfile), eip)' = LastBelow(stabs, Functions(stabs, lfile), eip)
    BY <1>7 DEF LastBelow, Functions, UpToNext
  <2>2. \A fn \in LastBelow(stabs, Functions(stabs, lfile), eip) :
          /\ info'.fn = fn /\ region_left = fn
          /\ a = eip - stabs[fn].value
          /\ Reaches(region_left, region_right, {"SO", "FUN"})
    BY <1>1, <1>9, FunctionSearched
  <2>3. Reaches(region_left, region_right, {"SO", "FUN"})
          => Reaches(from, to, {"SO", "FUN"})'
    BY <1>7, <1>12 DEF Reaches, LastStab
  <2>4. Functions(stabs, lfile)' = {} => info'.fn = None
    BY <1>2, <1>7, <1>9 DEF Functions, UpToNext
  <2> HIDE DEF a
  <2> QED BY <2>1, <2>2, <2>3, <2>4, <1>2, <1>7, <1>12 DEF InFunction
<1>14. IsKernelTable(stabs') /\ eip' \in Int /\ stabs' \notin BadStrings
  BY <1>1, <1>3, <1>7
<1> HIDE DEF a
<1> QED BY <1>7, <1>9, <1>10, <1>11, <1>12, <1>13, <1>14 DEF LookupInv

(* The answer, from what the three searches found. *)
LEMMA Answers ==
  ASSUME LookupInv, Return
  PROVE  LookupInv'
<1>1. /\ stage = "line" /\ pc = "done" /\ stage' = "returned" /\ result' = 0
      /\ UNCHANGED << vars, eip, lfile, rfile, lline >> /\ stabs \notin BadStrings
  BY DEF Return, LookupInv
<1>2. /\ IsKernelTable(stabs) /\ eip \in Int /\ InFile /\ InFunction /\ Args /\ Found
      /\ info \in [fn : Int, line : Int, file : Int, narg : Nat] /\ type = "SLINE"
  BY <1>1 DEF LookupInv, SearchInv
<1>3. /\ IsTable(stabs) /\ LastStab \in Nat /\ DOMAIN stabs = 0 .. LastStab
  BY <1>2, KernelTables
<1>4. /\ lfile \in 0 .. LastStab /\ rfile \in lfile .. LastStab
      /\ stabs[lfile].type = "SO" /\ lfile \in File(stabs, eip)
      /\ \A n \in lfile + 1 .. rfile : stabs[n].type # "SO"
  BY <1>2, <1>3 DEF InFile, File, LastBelow, Indices, Reaches
<1>5. from \in lfile .. rfile /\ lline = from /\ from \in Int
  BY <1>2, <1>4 DEF InFunction
<1>6. stabs[lfile].value # 0
  BY <1>2, <1>3, <1>4 DEF IsKernelTable
<1> DEFINE N == NameEntries(lline)
           c == Cardinality(Params(region_left, region_right))
<1>7. /\ N \subseteq lfile .. lline /\ lfile \in N
      /\ \A k \in lfile .. lline : stabs[k].type = "SOL" => k \in N
      /\ \A k \in N : stabs[k].type \in {"SO", "SOL"}
  BY <1>4, <1>5, <1>6 DEF NameEntries
<1> HIDE DEF N
<1> DEFINE g == Max(N)
<1>8. g \in N /\ \A k \in N : k <= g
  <2>1. N \subseteq Int /\ N # {} /\ \A k \in N : k <= lline
    BY <1>4, <1>5, <1>7
  <2> QED BY <2>1, <1>5, MaxOf
<1> HIDE DEF g
<1>9. /\ g \in lfile .. lline /\ stabs[g].type \in {"SO", "SOL"}
      /\ \A k \in g + 1 .. lline : stabs[k].type \notin {"SO", "SOL"}
  <2>1. g \in lfile .. lline /\ stabs[g].type \in {"SO", "SOL"}
    BY <1>7, <1>8
  <2>2. ASSUME NEW k \in g + 1 .. lline, stabs[k].type = "SOL"
        PROVE  FALSE
    <3>1. k \in lfile .. lline /\ k > g /\ g \in Int
      BY <2>1, <1>4, <1>5
    <3>2. k <= g
      BY <3>1, <2>2, <1>7, <1>8
    <3> QED BY <3>1, <3>2
  <2>3. ASSUME NEW k \in g + 1 .. lline
        PROVE  stabs[k].type # "SO"
    <3>1. k \in lfile + 1 .. rfile
      BY <2>1, <1>4, <1>5
    <3> QED BY <3>1, <1>4
  <2> QED BY <2>1, <2>2, <2>3
<1>10. c \in Nat
  <2>1. region_left \in Int /\ region_right \in Int
    BY <1>2 DEF Found
  <2>2. IsFiniteSet(region_left + 1 .. region_right - 1)
    BY <2>1, FS_Interval
  <2>3. Params(region_left, region_right) \subseteq region_left + 1 .. region_right - 1
    BY DEF Params
  <2>4. IsFiniteSet(Params(region_left, region_right))
    BY <2>2, <2>3, FS_Subset
  <2> QED BY <2>4, FS_CardinalityType
<1> HIDE DEF c
<1>11. info' = [info EXCEPT !.line = region_left, !.file = g, !.narg = c]
  <2>1. N # {}
    BY <1>7
  <2> QED BY <2>1 DEF Return, N, g, c
<1>12. /\ info' \in [fn : Int, line : Int, file : Int, narg : Nat]
       /\ info'.fn = info.fn /\ info'.line = region_left /\ info'.file = g
  <2>1. region_left \in Int /\ g \in Int
    BY <1>2, <1>4, <1>5, <1>9 DEF Found
  <2> QED BY <2>1, <1>2, <1>10, <1>11
<1>13. ASSUME NEW f \in File(stabs, eip), NEW fn \in LastBelow(stabs, Functions(stabs, f), eip)
       PROVE  /\ info.fn = fn
              /\ \A ln \in LastBelow(stabs, Lines(stabs, fn), eip - stabs[fn].value) :
                   /\ region_left = ln
                   /\ (\A k \in fn + 1 .. ln : stabs[k].type # "SOL") => g \in NameOf(stabs, ln)
  <2>1. f = lfile
    <3>1. {k \in Indices : stabs[k].type = "SO"} \subseteq Int
      BY <1>3 DEF Indices
    <3> QED BY <3>1, <1>4, LastBelowUnique DEF File, Indices
  <2>2. /\ info.fn = fn /\ from = fn /\ target = eip - stabs[fn].value
        /\ Reaches(from, to, {"SO", "FUN"})
    BY <2>1, <1>2 DEF InFunction
  <2>3. fn \in DOMAIN stabs
    BY <1>3, <1>4, <1>5, <2>2
  <2>4. UpToNext(stabs, fn, {"SO", "FUN"}) = from + 1 .. to
    BY <2>2, <2>3, <1>3, UpToNextIs
  <2>5. stabs[from].type # "SLINE"
    BY <1>2 DEF InFunction
  <2>6. to \in Int
    BY <1>2 DEF Args
  <2>7. OfType = Lines(stabs, fn)
    <3>1. Lines(stabs, fn) = {k \in from + 1 .. to : stabs[k].type = "SLINE"}
      BY <2>4 DEF Lines
    <3> QED BY <3>1, <2>5, <2>6, <1>2, <1>5 DEF OfType
  <2>9. ASSUME NEW ln \in LastBelow(stabs, Lines(stabs, fn), eip - stabs[fn].value),
               \A k \in fn + 1 .. ln : stabs[k].type # "SOL"
        PROVE  g \in NameOf(stabs, ln)
    <3>1. ln \in from + 1 .. to
      BY <2>4 DEF LastBelow, Lines
    <3>2. g \in 0 .. LastStab /\ g \in Int /\ fn \in Int /\ g <= fn /\ fn = lline
      BY <1>3, <1>4, <1>5, <1>9, <2>2
    <3>3. g <= ln /\ ln \in Int
      BY <3>1, <3>2, <2>2, <2>6, <1>5
    <3>4. ASSUME NEW k \in g + 1 .. ln
          PROVE  stabs[k].type \notin {"SO", "SOL"}
      <4>1. CASE k <= fn
        <5>1. k \in g + 1 .. lline
          BY <4>1, <3>2, <3>3
        <5> QED BY <5>1, <1>9
      <4>2. CASE ~(k <= fn)
        <5>1. k \in fn + 1 .. ln
          BY <4>2, <3>2, <3>3
        <5>2. k \in from + 1 .. to
          BY <5>1, <3>1, <3>2, <3>3, <2>2, <2>6, <1>5
        <5>3. stabs[k].type # "SO"
          BY <5>2, <1>2 DEF InFunction
        <5> QED BY <5>1, <5>3, <2>9
      <4> QED BY <4>1, <4>2
    <3> QED BY <3>2, <3>3, <3>4, <1>3, <1>9 DEF NameOf
  <2>8. ASSUME NEW ln \in LastBelow(stabs, Lines(stabs, fn), eip - stabs[fn].value)
        PROVE  region_left = ln
    <3>1. ln \in LastBelow(stabs, OfType, target)
      BY <2>2, <2>7
    <3>2. Covering # {}
      BY <3>1 DEF LastBelow, Covering
    <3>3. region_left \in LastBelow(stabs, OfType, target)
      BY <3>2, <1>1, <1>2, FoundIs
    <3>4. OfType \subseteq Int
      BY <2>6, <1>5 DEF OfType
    <3> QED BY <3>1, <3>3, <3>4, LastBelowUnique
  <2> QED BY <2>2, <2>8, <2>9
<1>14. /\ File(stabs, eip)' = File(stabs, eip)
       /\ \A f, fn : /\ LastBelow(stabs, Functions(stabs, f), eip)' = LastBelow(stabs, Functions(stabs, f), eip)
                     /\ LastBelow(stabs, Lines(stabs, fn), eip - stabs[fn].value)'
                          = LastBelow(stabs, Lines(stabs, fn), eip - stabs[fn].value)
  BY <1>1 DEF vars, File, LastBelow, Functions, Lines, UpToNext, Indices
<1>15. AnswersRight'
  <2>1. File(stabs, eip)' # {}
    BY <1>4, <1>14
  <2>2. stabs' = stabs /\ eip' = eip
    BY <1>1 DEF vars
  <2>3. \A f \in File(stabs, eip)' : \A fn \in LastBelow(stabs, Functions(stabs, f), eip)' :
          /\ info'.fn = fn
          /\ \A ln \in LastBelow(stabs, Lines(stabs, fn), eip - stabs[fn].value)' :
               /\ result' = 0 /\ info'.line = ln
               /\ (\A k \in fn + 1 .. ln : stabs[k].type # "SOL") => info'.file \in NameOf(stabs, ln)
    BY <1>1, <1>12, <1>13, <1>14
  <2> QED BY <2>1, <2>2, <2>3, <1>1 DEF AnswersRight
<1>16. Nameless'
  <2>3. (\A f \in File(stabs, eip) : Functions(stabs, f) = {}) => info'.fn = None
    BY <1>2, <1>4, <1>12 DEF InFunction
  <2>4. \A f : Functions(stabs, f)' = Functions(stabs, f)
    BY <1>1 DEF vars, Functions, UpToNext
  <2> QED BY <2>3, <2>4, <1>14 DEF Nameless
<1>17. SearchInv'
  BY <1>1, SameSearch DEF LookupInv
<1>18. IsKernelTable(stabs') /\ eip' \in Int
  BY <1>1, <1>2 DEF vars
<1> QED BY <1>1, <1>12, <1>15, <1>16, <1>17, <1>18 DEF LookupInv

LEMMA LookupSearches ==
  ASSUME LookupInv, SearchStep
  PROVE  LookupInv'
<1>1. /\ Next /\ UNCHANGED << eip, stage, lfile, rfile, lfun, rfun, lline, info, result >>
      /\ UNCHANGED args /\ pc \in {"loop", "done"} /\ pc' \in {"loop", "done"}
  BY DEF SearchStep, Next, NoMatch, Below, Above, Exact, Finish
<1>2. SearchInv'
  BY <1>1, Narrowing DEF LookupInv
<1>3. /\ stage = "fun" => InFile'
      /\ stage = "line" => InFile' /\ InFunction'
      /\ stage = "returned" => AnswersRight' /\ Nameless'
  BY <1>1, SameFile, SameFunction, SameAnswer DEF LookupInv, args
<1>4. IsKernelTable(stabs) => IsKernelTable(stabs')
  BY <1>1 DEF args
<1> QED BY <1>1, <1>2, <1>3, <1>4 DEF LookupInv, args, LastStab

LEMMA LookupStep ==
  ASSUME LookupInv, KNext
  PROVE  LookupInv'
<1>1. CASE UserAddress
  <2>1. SearchInv'
    BY <1>1, SameSearch DEF LookupInv, UserAddress
  <2> QED BY <1>1, <2>1 DEF LookupInv, UserAddress, vars, NoInfo, None
<1>2. CASE NoStrings
  <2>1. SearchInv'
    BY <1>2, SameSearch DEF LookupInv, NoStrings
  <2>2. /\ stage' = "returned" /\ result' # 0 /\ stabs' \in BadStrings
        /\ info' = NoInfo /\ UNCHANGED << stabs, eip >>
    BY <1>2 DEF NoStrings, vars
  <2>3. AnswersRight' /\ Nameless'
    BY <2>2 DEF AnswersRight, Nameless, NoInfo
  <2>4. IsKernelTable(stabs') /\ eip' \in Int
    BY <1>2, <2>2 DEF LookupInv, NoStrings
  <2> QED BY <2>1, <2>2, <2>3, <2>4 DEF LookupInv, NoInfo, None
<1> QED BY <1>1, <1>2, LookupStarts, LookupSearches, NoFileAnswer, FunctionSearchStarts,
           LineSearchStarts, Answers DEF KNext

LEMMA LookupStutter ==
  ASSUME LookupInv, UNCHANGED kvars
  PROVE  LookupInv'
<1>1. UNCHANGED vars
      /\ UNCHANGED << eip, stage, lfile, rfile, lfun, rfun, lline, info, result >>
  BY DEF kvars
<1>2. SearchInv'
  BY <1>1, SameSearch DEF LookupInv
<1>3. /\ stage = "fun" => InFile'
      /\ stage = "line" => InFile' /\ InFunction'
      /\ stage = "returned" => AnswersRight' /\ Nameless'
  BY <1>1, SameFile, SameFunction, SameAnswer DEF LookupInv, vars
<1> QED BY <1>1, <1>2, <1>3 DEF LookupInv, vars, LastStab

LEMMA LookupInit ==
  ASSUME SearchInv, info = NoInfo, stage \in {"idle", "called"},
         stage # "idle" => IsKernelTable(stabs) /\ eip \in Int
  PROVE  LookupInv
  BY DEF LookupInv, NoInfo, None

LEMMA LookupInTable ==
  ASSUME LookupInv
  PROVE  ReadsInTable
<1>1. ASSUME pc = "loop", l <= r
      PROVE  {l, r} \subseteq Indices
  <2>1. Args /\ Narrowed
    BY <1>1 DEF LookupInv, SearchInv
  <2>2. DOMAIN stabs = 0 .. LastStab /\ LastStab \in Nat
    BY <2>1, TableFacts
  <2> QED BY <1>1, <2>1, <2>2 DEF Args, Narrowed, Indices
<1>2. ASSUME stage = "line", pc = "done"
      PROVE  {region_left, lline} \subseteq Indices
  <2>1. Args /\ Found /\ InFile /\ InFunction /\ type = "SLINE"
    BY <1>2 DEF LookupInv, SearchInv
  <2>2. DOMAIN stabs = 0 .. LastStab /\ LastStab \in Nat /\ OfType \subseteq DOMAIN stabs
        /\ Covering \subseteq OfType
    BY <2>1, TableFacts
  <2>3. from \notin OfType /\ lline = from
    BY <2>1 DEF InFunction, OfType
  <2>4. region_left \in Covering \/ region_left = from
    BY <2>1, <2>3 DEF Found
  <2> QED BY <2>1, <2>2, <2>3, <2>4 DEF Args, Indices
<1> QED BY <1>1, <1>2 DEF ReadsInTable

LEMMA LookupStart == ASSUME KInit PROVE LookupInv
<1>1. PICK tab \in Kernels : Idle(tab)
  BY DEF KInit
<1>2. stabs = tab /\ pc = "idle"
  BY <1>1 DEF Idle
<1>3. IsKernelTable(stabs) /\ eip \in Int
  BY <1>2, KernelsAssumption DEF KInit
<1>4. SearchInv
  BY <1>2 DEF SearchInv
<1> QED BY <1>3, <1>4, LookupInit DEF KInit, NoLookup

(***************************************************************************)
(* For every kernel and address: every entry that is read is one of the    *)
(* table, and the answer names the file, function and line that cover it.  *)
(***************************************************************************)
LEMMA LookupInvariance == KSpec => []LookupInv
<1>1. KInit => LookupInv
  BY LookupStart
<1>2. LookupInv /\ [KNext]_kvars => LookupInv'
  BY LookupStep, LookupStutter
<1> QED BY <1>1, <1>2, PTL DEF KSpec

THEOREM LookupInBounds == KSpec => []ReadsInTable
  BY LookupInvariance, LookupInTable, PTL

THEOREM LookupCorrect == KSpec => []AnswersRight
<1>1. LookupInv => AnswersRight
  BY DEF LookupInv, AnswersRight
<1> QED BY <1>1, LookupInvariance, PTL

-----------------------------------------------------------------------------
(***************************************************************************)
(* The stack and mon_backtrace()                                           *)
(***************************************************************************)
FunctionNames == {"i386_init", "test_backtrace", "monitor", "runcmd", "mon_backtrace"}

Call == [fn : FunctionNames, fp : Int, ret : Int, args : Seq(Int)]

(* Where the frame of each function lies, and what it is called with. *)
Placed(c) ==
  /\ c.fp >= 1 /\ c.fp + 2 + Len(c.args) <= StackTop
  /\ c.fn = "i386_init" => c.fp = StackTop - 2 /\ Len(c.args) = 0
  /\ c.fn = "test_backtrace" => /\ Len(c.args) = 1 /\ c.args[1] \in 0 .. Depth
                                /\ c.fp = StackTop - 6 - 4 * (Depth - c.args[1])
  /\ c.fn = "monitor" => c.fp = StackTop - 6 /\ Len(c.args) = 1
  /\ c.fn = "runcmd" => c.fp = StackTop - 11 /\ Len(c.args) = 2
  /\ c.fn = "mon_backtrace" => Len(c.args) = 3

(* A call was made by the next one's function, below its frame. *)
Nested(c, d) ==
  /\ \E site \in DOMAIN Ret \ {"entry"} : c.ret = Ret[site] /\ d.fn = Caller[site]
  /\ c.fp + 2 + Len(c.args) = d.fp - Locals(d.fn)

(* What a frame holds: the frame pointer of the caller, and so on. *)
Holds(mem, c, saved) ==
  /\ mem[c.fp] = saved /\ mem[c.fp + 1] = c.ret
  /\ \A j \in 1 .. Len(c.args) : mem[c.fp + 1 + j] = c.args[j]

(***************************************************************************)
(* The stack holds the frames of the calls in progress, one above the      *)
(* other and chained, from the registers up to i386_init()'s.              *)
(***************************************************************************)
Chained ==
  /\ calls \in Seq(Call) /\ Len(calls) >= 1
  /\ ebp = calls[1].fp /\ esp = calls[1].fp - Locals(calls[1].fn)
  /\ \A i \in 1 .. Len(calls) : Placed(calls[i])
  /\ \A i, j \in 1 .. Len(calls) : i < j => calls[i].fp < calls[j].fp
  /\ \A i \in 1 .. Len(calls) - 1 : /\ Nested(calls[i], calls[i + 1])
                                    /\ Holds(stack, calls[i], calls[i + 1].fp)
  /\ LET first == calls[Len(calls)]
     IN first.fn = "i386_init" /\ first.ret = Ret["entry"] /\ Holds(stack, first, 0)

Positions == FunctionNames \cup DOMAIN Ret \cup {"ask", "asked", "traced", "alone"}

(* The function that runs is the latest that was called. *)
Running ==
  /\ pos \in FunctionNames => calls[1].fn = pos
  /\ pos \in {"ask", "asked", "traced"} => calls[1].fn = "mon_backtrace"
  /\ pos \in DOMAIN Ret => calls[1].fn = Caller[pos]

(* The walk has passed as many frames as there are lines. *)
Walked ==
  /\ \E S : trace \in Seq(S)
  /\ \A k \in 1 .. Len(trace) : LineOf(k)
  /\ pos = "traced" => Len(trace) = Len(calls)
  /\ pos # "traced" => Len(trace) < Len(calls) /\ walk = calls[Len(trace) + 1].fp
  /\ pos = "asked" => stage # "idle" /\ eip = calls[Len(trace) + 1].ret

TraceInv ==
  /\ LookupInv /\ pos \in Positions
  /\ pos # "alone" => /\ stabs = KernelTable
                      /\ stage # "panicked"
                      /\ stage # "idle" => eip >= ULIM
  /\ pos = "entry" => calls = << >> /\ stage = "idle"
  /\ pos \notin {"alone", "entry"} => Chained /\ Running
  /\ pos \in {"ask", "asked", "traced"} => Walked

LEMMA Prepended ==
  ASSUME NEW S, NEW c \in Seq(S), NEW e \in S
  PROVE  /\ << e >> \o c \in Seq(S)
         /\ Len(<< e >> \o c) = Len(c) + 1
         /\ (<< e >> \o c)[1] = e
         /\ \A i \in 1 .. Len(c) : (<< e >> \o c)[i + 1] = c[i]
  OBVIOUS

LEMMA Dropped ==
  ASSUME NEW S, NEW c \in Seq(S), Len(c) >= 1
  PROVE  /\ Tail(c) \in Seq(S) /\ Len(Tail(c)) = Len(c) - 1 /\ Head(c) = c[1]
         /\ \A i \in 1 .. Len(c) - 1 : Tail(c)[i] = c[i + 1]
  OBVIOUS

LEMMA LocalsRoom == \A f \in FunctionNames : Locals(f) \in 1 .. 7
  BY DEF Locals

LEMMA Sites ==
  /\ \A site \in DOMAIN Ret : Ret[site] \in Nat /\ Ret[site] >= ULIM
  /\ DOMAIN Ret = {"entry", "init_test", "init_monitor", "test_test", "test_trace",
                   "monitor_runcmd", "runcmd_func"}
  /\ Caller["init_test"] = "i386_init" /\ Caller["init_monitor"] = "i386_init"
  /\ Caller["test_test"] = "test_backtrace" /\ Caller["test_trace"] = "test_backtrace"
  /\ Caller["monitor_runcmd"] = "monitor" /\ Caller["runcmd_func"] = "runcmd"
  /\ Caller["entry"] = "entry"
  BY RetAssumption DEF Caller

(* A call writes its own frame, below all others, and nothing else. *)
Frame(f, params, site, top) ==
  [fn |-> f, fp |-> top - Len(params) - 2, ret |-> Ret[site], args |-> params]

LEMMA FramePushed ==
  ASSUME NEW f \in FunctionNames, NEW params \in Seq(Int), NEW site \in DOMAIN Ret,
         NEW top \in Int, NEW saved,
         PushCall(f, params, site, top, saved),
         top - Len(params) - 2 >= 1, top <= StackTop
  PROVE  LET c == Frame(f, params, site, top)
         IN /\ c \in Call
            /\ calls' = << c >> \o calls /\ pos' = f
            /\ ebp' = c.fp /\ esp' = c.fp - Locals(f)
            /\ Holds(stack', c, saved)
            /\ \A a \in top .. StackTop : stack'[a] = stack[a]
<1> DEFINE fp == top - Len(params) - 2
           c == Frame(f, params, site, top)
<1>1. /\ fp \in Int /\ Len(params) \in Nat /\ Ret[site] \in Int
      /\ top = fp + 2 + Len(params)
  BY Sites
<1>2. c.fp = fp /\ c.ret = Ret[site] /\ c.args = params /\ c \in Call
  BY <1>1 DEF Call, Frame
<1>3. /\ stack' = [a \in Words |-> CASE a = fp     -> saved
                                     [] a = fp + 1 -> Ret[site]
                                     [] a \in fp + 2 .. top - 1 -> params[a - fp - 1]
                                     [] OTHER      -> stack[a]]
      /\ ebp' = fp /\ esp' = fp - Locals(f) /\ calls' = << c >> \o calls /\ pos' = f
  BY DEF PushCall, Frame
<1>4. StackTop \in Nat /\ 0 .. StackTop + 4 = Words /\ fp >= 1
  BY StackAssumption DEF Words
<1> HIDE DEF fp, c
<1>5. /\ fp \in Words /\ fp + 1 \in Words /\ fp + 2 .. top - 1 \subseteq Words
      /\ top .. StackTop \subseteq Words
  BY <1>1, <1>4
<1>6. ASSUME NEW a \in top .. StackTop
      PROVE  stack'[a] = stack[a]
  <2>1. a \in Words /\ a # fp /\ a # fp + 1 /\ a \notin fp + 2 .. top - 1
    BY <1>1, <1>4, <1>5
  <2> QED BY <2>1, <1>3
<1>7. stack'[fp] = saved
  <2>1. fp # fp + 1 /\ fp \notin fp + 2 .. top - 1
    BY <1>1
  <2> QED BY <2>1, <1>3, <1>5
<1>8. stack'[fp + 1] = Ret[site]
  <2> DEFINE a == fp + 1
  <2>1. a \in Words /\ a # fp /\ a = fp + 1 /\ a \notin fp + 2 .. top - 1
    BY <1>1, <1>5
  <2> HIDE DEF a
  <2>2. stack'[a] = Ret[site]
    BY <2>1, <1>3
  <2> QED BY <2>1, <2>2
<1>9. ASSUME NEW j \in 1 .. Len(params)
      PROVE  stack'[fp + 1 + j] = params[j]
  <2> DEFINE a == fp + 1 + j
  <2>1. a \in fp + 2 .. top - 1 /\ a # fp /\ a # fp + 1 /\ a - fp - 1 = j
    BY <1>1
  <2> HIDE DEF a
  <2>2. stack'[a] = params[a - fp - 1]
    BY <2>1, <1>3, <1>5
  <2> QED BY <2>1, <2>2 DEF a
<1>10. Holds(stack', c, saved)
  BY <1>2, <1>7, <1>8, <1>9 DEF Holds
<1> QED BY <1>2, <1>3, <1>6, <1>10 DEF c

LEMMA FrameKept ==
  ASSUME NEW c \in Call, NEW saved, Placed(c), Holds(stack, c, saved), NEW top \in Int,
         top <= c.fp, \A a \in top .. StackTop : stack'[a] = stack[a]
  PROVE  Holds(stack', c, saved)
<1>1. c.fp \in Int /\ Len(c.args) \in Nat /\ c.fp + 2 + Len(c.args) <= StackTop /\ StackTop \in Nat
  BY StackAssumption DEF Call, Placed
<1>2. /\ c.fp \in top .. StackTop /\ c.fp + 1 \in top .. StackTop
      /\ \A j \in 1 .. Len(c.args) : c.fp + 1 + j \in top .. StackTop
  BY <1>1, SMTT(30)
<1> QED BY <1>2 DEF Holds

(* The first call, from entry.S. *)
LEMMA EntryChains ==
  ASSUME TraceInv, EntryCalls
  PROVE  Chained' /\ pos' = "i386_init" /\ calls'[1].fn = "i386_init"
<1> DEFINE c == Frame("i386_init", << >>, "entry", StackTop)
<1>1. StackTop \in Nat /\ StackTop >= 24 /\ "entry" \in DOMAIN Ret /\ calls = << >>
  BY StackAssumption, RetAssumption DEF TraceInv, EntryCalls
<1>2. << >> \in Seq(Int) /\ Len(<< >>) = 0
  OBVIOUS
<1>3. PushCall("i386_init", << >>, "entry", StackTop, 0)
  BY DEF EntryCalls
<1>4. /\ StackTop - Len(<< >>) - 2 >= 1 /\ "i386_init" \in FunctionNames
      /\ StackTop \in Int /\ StackTop <= StackTop
  BY <1>1, <1>2 DEF FunctionNames
<1>5. /\ c \in Call /\ calls' = << c >> \o calls /\ pos' = "i386_init"
      /\ ebp' = c.fp /\ esp' = c.fp - Locals("i386_init") /\ Holds(stack', c, 0)
  BY <1>1, <1>2, <1>3, <1>4, FramePushed, Zenon
<1>6. /\ c.fn = "i386_init" /\ c.ret = Ret["entry"] /\ c.fp = StackTop - 2 /\ Len(c.args) = 0
  BY <1>1, <1>2 DEF Frame
<1> HIDE DEF c
<1>7. Placed(c)
  BY <1>1, <1>6 DEF Placed
<1>8. /\ calls' \in Seq(Call) /\ Len(calls') = 1 /\ calls'[1] = c
  BY <1>1, <1>5
<1>9. Chained'
  <2>1. /\ calls' \in Seq(Call) /\ Len(calls') >= 1
        /\ ebp' = calls'[1].fp /\ esp' = calls'[1].fp - Locals(calls'[1].fn)
    BY <1>5, <1>6, <1>8
  <2>2. \A i \in 1 .. Len(calls') : Placed(calls'[i])
    BY <1>7, <1>8
  <2>3. /\ \A i, j \in 1 .. Len(calls') : ~(i < j)
        /\ 1 .. Len(calls') - 1 = {}
    BY <1>8
  <2>4. Holds(stack', calls'[Len(calls')], 0)
    BY <1>5, <1>8
  <2> QED BY <2>1, <2>2, <2>3, <2>4, <1>6, <1>8 DEF Chained, Placed
<1> QED BY <1>5, <1>6, <1>8, <1>9

LEMMA ChainedCalls ==
  ASSUME Chained
  PROVE  /\ calls \in Seq(Call) /\ Len(calls) \in Nat /\ Len(calls) >= 1
         /\ \A i \in 1 .. Len(calls) : /\ calls[i] \in Call /\ Placed(calls[i])
                                      /\ calls[i].fp \in Int
<1>1. calls \in Seq(Call) /\ Len(calls) >= 1 /\ \A i \in 1 .. Len(calls) : Placed(calls[i])
  BY DEF Chained
<1>2. Len(calls) \in Nat /\ \A i \in 1 .. Len(calls) : calls[i] \in Call
  BY <1>1
<1>3. \A c \in Call : c.fp \in Int
  BY DEF Call
<1> QED BY <1>1, <1>2, <1>3

(* Any other call, from the function that runs. *)
LEMMA CallChains ==
  ASSUME Chained, NEW f \in FunctionNames, NEW params \in Seq(Int),
         NEW site \in DOMAIN Ret \ {"entry"}, Caller[site] = calls[1].fn,
         CallWith(f, params, site), Placed(Frame(f, params, site, esp))
  PROVE  Chained' /\ pos' = f /\ calls'[1].fn = f
<1> DEFINE c == Frame(f, params, site, esp)
           n == Len(calls)
<1>1. /\ calls \in Seq(Call) /\ n \in Nat /\ n >= 1
      /\ \A i \in 1 .. n : calls[i] \in Call /\ Placed(calls[i]) /\ calls[i].fp \in Int
  BY ChainedCalls
<1>2. Locals(calls[1].fn) \in 1 .. 7
  <2>1. calls[1] \in Call
    BY <1>1
  <2>2. calls[1].fn \in FunctionNames
    BY <2>1 DEF Call
  <2> QED BY <2>2, LocalsRoom
<1>3. /\ esp \in Int /\ esp < calls[1].fp /\ esp = calls[1].fp - Locals(calls[1].fn)
      /\ ebp = calls[1].fp
  BY <1>1, <1>2, SMTT(30) DEF Chained
<1>4. esp <= StackTop
  <2>1. calls[1] \in Call /\ Placed(calls[1]) /\ calls[1].fp \in Int
    BY <1>1, SMTT(30)
  <2>2. Len(calls[1].args) \in Nat
    BY <2>1 DEF Call
  <2>3. calls[1].fp + 2 + Len(calls[1].args) <= StackTop
    BY <2>1 DEF Placed
  <2> QED BY <2>1, <2>2, <2>3, <1>3, StackAssumption, SMTT(30)
<1>5. c.fn = f /\ c.fp = esp - Len(params) - 2 /\ c.ret = Ret[site] /\ c.args = params
  BY DEF Frame
<1>6. Len(params) \in Nat /\ c.fp \in Int /\ c.fp < esp
  BY <1>3, <1>5
<1>7. esp - Len(params) - 2 >= 1 /\ PushCall(f, params, site, esp, ebp)
  BY <1>5 DEF Placed, CallWith
<1>8. /\ c \in Call /\ calls' = << c >> \o calls /\ pos' = f
      /\ ebp' = c.fp /\ esp' = c.fp - Locals(f) /\ Holds(stack', c, ebp)
      /\ \A a \in esp .. StackTop : stack'[a] = stack[a]
  BY <1>3, <1>4, <1>7, FramePushed, ZenonT(60)
<1>9. Placed(c)
  OBVIOUS
<1> HIDE DEF c
<1>10. /\ calls' \in Seq(Call) /\ Len(calls') = n + 1 /\ calls'[1] = c
       /\ \A i \in 1 .. n : calls'[i + 1] = calls[i]
  BY <1>1, <1>8, Prepended
<1>11. \A i \in 1 .. n : esp < calls[i].fp
  <2> SUFFICES ASSUME NEW i \in 1 .. n
               PROVE  esp < calls[i].fp
    OBVIOUS
  <2>1. CASE i = 1
    BY <2>1, <1>3
  <2>2. CASE 1 < i
    <3>1. calls[1].fp < calls[i].fp
      BY <2>2, <1>1 DEF Chained
    <3> QED BY <3>1, <1>1, <1>3
  <2> QED BY <2>1, <2>2, <1>1
<1>12. ASSUME NEW i \in 1 .. n, NEW saved, Holds(stack, calls[i], saved)
       PROVE  Holds(stack', calls[i], saved)
  <2>1. calls[i] \in Call /\ Placed(calls[i]) /\ esp \in Int /\ esp <= calls[i].fp
    BY <1>1, <1>3, <1>11
  <2>2. \A a \in esp .. StackTop : stack'[a] = stack[a]
    BY <1>8
  <2> QED BY <1>12, <2>1, <2>2, FrameKept
<1>13. \A i \in 2 .. n + 1 : i - 1 \in 1 .. n /\ calls'[i] = calls[i - 1]
  <2> SUFFICES ASSUME NEW i \in 2 .. n + 1
               PROVE  i - 1 \in 1 .. n /\ calls'[i] = calls[i - 1]
    OBVIOUS
  <2>1. i - 1 \in 1 .. n /\ (i - 1) + 1 = i
    BY <1>1
  <2> QED BY <2>1, <1>10
<1>14. \A i \in 1 .. n + 1 : Placed(calls'[i])
  BY <1>1, <1>9, <1>10, <1>13
<1>15. \A i, j \in 1 .. n + 1 : i < j => calls'[i].fp < calls'[j].fp
  <2> SUFFICES ASSUME NEW i \in 1 .. n + 1, NEW j \in 1 .. n + 1, i < j
               PROVE  calls'[i].fp < calls'[j].fp
    OBVIOUS
  <2>1. j \in 2 .. n + 1 /\ j - 1 \in 1 .. n /\ calls'[j] = calls[j - 1]
    BY <1>1, <1>13
  <2>2. CASE i = 1
    <3>1. c.fp < calls[j - 1].fp
      <4>1. c.fp \in Int /\ esp \in Int /\ c.fp < esp
        BY <1>3, <1>6
      <4>2. esp < calls[j - 1].fp /\ calls[j - 1].fp \in Int
        BY <2>1, <1>1, <1>11
      <4> QED BY <4>1, <4>2
    <3> QED BY <3>1, <2>1, <2>2, <1>10
  <2>3. CASE i # 1
    <3>1. i \in 2 .. n + 1 /\ i - 1 \in 1 .. n /\ i - 1 < j - 1 /\ calls'[i] = calls[i - 1]
      BY <2>3, <1>1, <1>13
    <3>2. calls[i - 1].fp < calls[j - 1].fp
      BY <3>1, <2>1 DEF Chained
    <3> QED BY <3>1, <3>2, <2>1
  <2> QED BY <2>2, <2>3
<1>16. ASSUME NEW i \in 1 .. n
       PROVE  Nested(calls'[i], calls'[i + 1]) /\ Holds(stack', calls'[i], calls'[i + 1].fp)
  <2>1. CASE i = 1
    <3>1. calls'[i] = c /\ calls'[i + 1] = calls[1]
      BY <2>1, <1>1, <1>10
    <3>2. Nested(c, calls[1])
      <4>1. c.ret = Ret[site] /\ calls[1].fn = Caller[site]
        BY <1>5
      <4>2. c.fp + 2 + Len(c.args) = calls[1].fp - Locals(calls[1].fn)
        BY <1>3, <1>5, <1>6
      <4> QED BY <4>1, <4>2 DEF Nested
    <3>3. Holds(stack', c, calls[1].fp)
      BY <1>3, <1>8
    <3> QED BY <3>1, <3>2, <3>3
  <2>2. CASE i # 1
    <3> DEFINE k == i - 1
    <3>1. /\ k \in 1 .. n - 1 /\ k \in 1 .. n /\ k + 1 = i /\ i \in 2 .. n + 1
          /\ i + 1 \in 2 .. n + 1 /\ (i + 1) - 1 = i
      BY <2>2, <1>1, SMTT(30)
    <3>2. calls'[i] = calls[k] /\ calls'[i + 1] = calls[i]
      BY <3>1, <1>10
    <3> HIDE DEF k
    <3>3. Nested(calls[k], calls[k + 1]) /\ Holds(stack, calls[k], calls[k + 1].fp)
      BY <3>1 DEF Chained
    <3> QED BY <3>1, <3>2, <3>3, <1>12
  <2> QED BY <2>1, <2>2
<1>17. /\ calls'[n + 1].fn = "i386_init" /\ calls'[n + 1].ret = Ret["entry"]
       /\ Holds(stack', calls'[n + 1], 0)
  <2>1. calls'[n + 1] = calls[n] /\ n \in 1 .. n
    BY <1>1, <1>10
  <2>2. calls[n].fn = "i386_init" /\ calls[n].ret = Ret["entry"] /\ Holds(stack, calls[n], 0)
    BY DEF Chained
  <2> QED BY <2>1, <2>2, <1>12
<1>18. Chained'
  <2>1. Len(calls') = n + 1 /\ Len(calls') >= 1 /\ Len(calls') - 1 = n
    BY <1>1, <1>10
  <2>2. ebp' = calls'[1].fp /\ esp' = calls'[1].fp - Locals(calls'[1].fn)
    BY <1>5, <1>8, <1>10
  <2> HIDE DEF n
  <2> QED BY <2>1, <2>2, <1>10, <1>14, <1>15, <1>16, <1>17 DEF Chained, Placed, Nested
<1> QED BY <1>5, <1>8, <1>10, <1>18

(* A return goes to the function the call was made in, and to its frame. *)
LEMMA LeaveChains ==
  ASSUME Chained, calls[1].fn # "i386_init", Leave
  PROVE  /\ Chained' /\ pos' \in DOMAIN Ret \ {"entry"}
         /\ calls'[1].fn = Caller[pos']
<1> DEFINE n == Len(calls)
<1>1. /\ calls \in Seq(Call) /\ n \in Nat /\ n >= 1
      /\ \A i \in 1 .. n : calls[i] \in Call /\ Placed(calls[i]) /\ calls[i].fp \in Int
  BY ChainedCalls
<1>2. n >= 2
  <2>1. calls[n].fn = "i386_init"
    BY DEF Chained
  <2> QED BY <2>1, <1>1
<1>3. /\ calls' \in Seq(Call) /\ Len(calls') = n - 1 /\ Head(calls) = calls[1]
      /\ \A i \in 1 .. n - 1 : calls'[i] = calls[i + 1]
  BY <1>1, Dropped DEF Leave
<1>4. /\ Nested(calls[1], calls[2]) /\ Holds(stack, calls[1], calls[2].fp)
      /\ ebp = calls[1].fp
  <2>1. 1 \in 1 .. n - 1 /\ 1 + 1 = 2
    BY <1>1, <1>2
  <2>2. /\ Nested(calls[1], calls[1 + 1]) /\ Holds(stack, calls[1], calls[1 + 1].fp)
        /\ ebp = calls[1].fp
    BY <2>1 DEF Chained
  <2> QED BY <2>1, <2>2
<1>5. ebp' = calls[2].fp /\ esp' = calls[2].fp - Locals(calls[2].fn)
  BY <1>3, <1>4 DEF Leave, Holds, Nested
<1>6. PICK site \in DOMAIN Ret \ {"entry"} : calls[1].ret = Ret[site] /\ calls[2].fn = Caller[site]
  BY <1>4 DEF Nested
<1>7. pos' = site
  <2>1. pos' = CHOOSE s \in DOMAIN Ret : Ret[s] = Ret[site]
    BY <1>4, <1>6 DEF Leave, Holds
  <2>2. \A s \in DOMAIN Ret : Ret[s] = Ret[site] => s = site
    BY <1>6, RetAssumption
  <2>3. site \in DOMAIN Ret
    BY <1>6
  <2> QED BY <2>1, <2>2, <2>3, Zenon
<1>8. calls'[1] = calls[2] /\ stack' = stack
  BY <1>1, <1>2, <1>3 DEF Leave
<1>9. \A i \in 1 .. n - 1 : i \in 1 .. n /\ i + 1 \in 1 .. n
  BY <1>1
<1>10. \A i \in 1 .. n - 1 : Placed(calls'[i])
  BY <1>1, <1>3, <1>9
<1>11. ASSUME NEW i \in 1 .. n - 1, NEW j \in 1 .. n - 1, i < j
       PROVE  calls'[i].fp < calls'[j].fp
  <2>1. i + 1 \in 1 .. n /\ j + 1 \in 1 .. n /\ i + 1 < j + 1
    BY <1>11, <1>9
  <2>2. calls[i + 1].fp < calls[j + 1].fp
    BY <2>1 DEF Chained
  <2> QED BY <2>2, <1>3
<1>12. ASSUME NEW i \in 1 .. (n - 1) - 1
       PROVE  Nested(calls'[i], calls'[i + 1]) /\ Holds(stack', calls'[i], calls'[i + 1].fp)
  <2> DEFINE k == i + 1
  <2>1. i \in 1 .. n - 1 /\ k \in 1 .. n - 1
    BY <1>1
  <2>2. calls'[i] = calls[k] /\ calls'[k] = calls[k + 1]
    BY <2>1, <1>3
  <2> HIDE DEF k
  <2>3. Nested(calls[k], calls[k + 1]) /\ Holds(stack, calls[k], calls[k + 1].fp)
    BY <2>1 DEF Chained
  <2>4. Nested(calls'[i], calls'[k]) /\ Holds(stack', calls'[i], calls'[k].fp)
    BY <2>2, <2>3, <1>8
  <2> QED BY <2>4 DEF k
<1>13. /\ calls'[n - 1].fn = "i386_init" /\ calls'[n - 1].ret = Ret["entry"]
       /\ Holds(stack', calls'[n - 1], 0)
  <2>1. calls'[n - 1] = calls[n]
    BY <1>1, <1>2, <1>3
  <2> QED BY <2>1, <1>8 DEF Chained
<1>14. Chained'
  <2>1. Len(calls') >= 1
    BY <1>1, <1>2, <1>3
  <2>2. ebp' = calls'[1].fp /\ esp' = calls'[1].fp - Locals(calls'[1].fn)
    BY <1>5, <1>8
  <2> HIDE DEF n
  <2> QED BY <2>1, <2>2, <1>3, <1>10, <1>11, <1>12, <1>13 DEF Chained, Placed, Nested
<1> QED BY <1>6, <1>7, <1>8, <1>14

(* Calls and returns touch nothing of the lookup or of the trace. *)
LEMMA Resumed ==
  ASSUME TraceInv, pos # "alone", UNCHANGED kvars, Chained',
         pos' \in FunctionNames \/ pos' \in DOMAIN Ret \ {"entry"},
         pos' \in FunctionNames => calls'[1].fn = pos',
         pos' \in DOMAIN Ret => calls'[1].fn = Caller[pos']
  PROVE  TraceInv'
<1>1. LookupInv'
  BY LookupStutter DEF TraceInv
<1>2. UNCHANGED << stabs, stage, eip >>
  BY DEF kvars, vars
<1>3. pos' \in Positions /\ pos' \notin {"alone", "entry", "ask", "asked", "traced"}
  BY Sites DEF Positions, FunctionNames
<1>4. Running'
  BY <1>3 DEF Running
<1> QED BY <1>1, <1>2, <1>3, <1>4 DEF TraceInv

LEMMA CallResumes ==
  ASSUME TraceInv, pos \notin {"alone", "entry"}, UNCHANGED kvars,
         NEW f \in FunctionNames, NEW params \in Seq(Int),
         NEW site \in DOMAIN Ret \ {"entry"}, Caller[site] = calls[1].fn,
         CallWith(f, params, site), Placed(Frame(f, params, site, esp))
  PROVE  TraceInv'
<1>1. Chained
  BY DEF TraceInv
<1>2. Chained' /\ pos' = f /\ calls'[1].fn = f
  BY <1>1, CallChains, Zenon
<1>3. f \notin DOMAIN Ret
  BY Sites DEF FunctionNames
<1> QED BY <1>2, <1>3, Resumed

(* The frame a function of each kind runs on, and where it ends. *)
LEMMA Top ==
  ASSUME TraceInv, pos \notin {"alone", "entry"}
  PROVE  /\ Chained /\ Running
         /\ calls[1] \in Call /\ Placed(calls[1]) /\ calls[1].fp \in Int
         /\ ebp = calls[1].fp /\ esp = calls[1].fp - Locals(calls[1].fn)
         /\ \A j \in 1 .. Len(calls[1].args) : stack[ebp + 1 + j] = calls[1].args[j]
         /\ Len(calls) > 1 \/ calls[1].fn = "i386_init"
<1>1. Chained /\ Running
  BY DEF TraceInv
<1>2. /\ Len(calls) \in Nat /\ Len(calls) >= 1
      /\ calls[1] \in Call /\ Placed(calls[1]) /\ calls[1].fp \in Int
  BY <1>1, ChainedCalls
<1>3. ebp = calls[1].fp /\ esp = calls[1].fp - Locals(calls[1].fn)
  BY <1>1 DEF Chained
<1>4. /\ Len(calls) > 1 \/ calls[1].fn = "i386_init"
      /\ \E saved : Holds(stack, calls[1], saved)
  <2>1. CASE Len(calls) = 1
    BY <2>1, <1>1 DEF Chained
  <2>2. CASE Len(calls) > 1
    <3>1. 1 \in 1 .. Len(calls) - 1
      BY <2>2, <1>2
    <3>2. Holds(stack, calls[1], calls[1 + 1].fp)
      BY <3>1, <1>1 DEF Chained
    <3>3. \E saved : Holds(stack, calls[1], saved)
      BY <3>2, Zenon
    <3> QED BY <3>3, <2>2
  <2> QED BY <2>1, <2>2, <1>2, SMTT(30)
<1> QED BY <1>1, <1>2, <1>3, <1>4 DEF Holds

LEMMA StackSize ==
  /\ StackTop \in Nat /\ StackTop >= 24 /\ Depth \in Nat /\ StackTop >= 4 * Depth + 19
  BY StackAssumption

LEMMA InitCallsTest == ASSUME TraceInv, i386_init PROVE TraceInv'
<1>1. /\ pos = "i386_init" /\ UNCHANGED kvars /\ pos \notin {"alone", "entry"}
      /\ CallWith("test_backtrace", << Depth >>, "init_test")
  BY DEF i386_init
<1>2. calls[1].fn = "i386_init" /\ esp = StackTop - 3
  BY <1>1, Top, StackSize DEF Running, FunctionNames, Placed, Locals
<1>3. << Depth >> \in Seq(Int) /\ Len(<< Depth >>) = 1 /\ << Depth >>[1] = Depth
  BY StackSize
<1>4. Placed(Frame("test_backtrace", << Depth >>, "init_test", esp))
  BY <1>2, <1>3, StackSize DEF Placed, Frame
<1>5. "init_test" \in DOMAIN Ret \ {"entry"} /\ Caller["init_test"] = calls[1].fn
      /\ "test_backtrace" \in FunctionNames
  BY <1>2, Sites DEF FunctionNames
<1> QED BY <1>1, <1>3, <1>4, <1>5, CallResumes, Zenon

LEMMA MonitorEntered == ASSUME TraceInv, EnterMonitor PROVE TraceInv'
<1>1. /\ pos \in {"init_test", "init_monitor"} /\ UNCHANGED kvars /\ pos \notin {"alone", "entry"}
      /\ CallWith("monitor", << 0 >>, "init_monitor")
  BY DEF EnterMonitor
<1>2. calls[1].fn = "i386_init" /\ esp = StackTop - 3
  <2>1. calls[1].fn = "i386_init"
    BY <1>1, Top, Sites DEF Running
  <2> QED BY <1>1, <2>1, Top, StackSize DEF Placed, Locals
<1>3. << 0 >> \in Seq(Int) /\ Len(<< 0 >>) = 1
  OBVIOUS
<1>4. Placed(Frame("monitor", << 0 >>, "init_monitor", esp))
  BY <1>2, <1>3, StackSize DEF Placed, Frame
<1>5. "init_monitor" \in DOMAIN Ret \ {"entry"} /\ Caller["init_monitor"] = calls[1].fn
      /\ "monitor" \in FunctionNames
  BY <1>2, Sites DEF FunctionNames
<1> QED BY <1>1, <1>3, <1>4, <1>5, CallResumes, Zenon

LEMMA CommandRun == ASSUME TraceInv, Command PROVE TraceInv'
<1>1. /\ pos \in {"monitor", "monitor_runcmd"} /\ UNCHANGED kvars /\ pos \notin {"alone", "entry"}
      /\ CallWith("runcmd", << 1, 0 >>, "monitor_runcmd")
  BY DEF Command
<1>2. calls[1].fn = "monitor" /\ esp = StackTop - 7
  <2>1. calls[1].fn = "monitor"
    BY <1>1, Top, Sites DEF Running, FunctionNames
  <2> QED BY <1>1, <2>1, Top, StackSize DEF Placed, Locals
<1>3. << 1, 0 >> \in Seq(Int) /\ Len(<< 1, 0 >>) = 2
  OBVIOUS
<1>4. Placed(Frame("runcmd", << 1, 0 >>, "monitor_runcmd", esp))
  BY <1>2, <1>3, StackSize DEF Placed, Frame
<1>5. "monitor_runcmd" \in DOMAIN Ret \ {"entry"} /\ Caller["monitor_runcmd"] = calls[1].fn
      /\ "runcmd" \in FunctionNames
  BY <1>2, Sites DEF FunctionNames
<1> QED BY <1>1, <1>3, <1>4, <1>5, CallResumes, Zenon

LEMMA CommandTraces == ASSUME TraceInv, runcmd PROVE TraceInv'
<1>1. /\ pos = "runcmd" /\ UNCHANGED kvars /\ pos \notin {"alone", "entry"}
      /\ CallWith("mon_backtrace", << 1, 1, 0 >>, "runcmd_func")
  BY DEF runcmd
<1>2. calls[1].fn = "runcmd" /\ esp = StackTop - 12
  <2>1. calls[1].fn = "runcmd"
    BY <1>1, Top DEF Running, FunctionNames
  <2> QED BY <1>1, <2>1, Top, StackSize DEF Placed, Locals
<1>3. << 1, 1, 0 >> \in Seq(Int) /\ Len(<< 1, 1, 0 >>) = 3
  OBVIOUS
<1>4. Placed(Frame("mon_backtrace", << 1, 1, 0 >>, "runcmd_func", esp))
  BY <1>2, <1>3, StackSize DEF Placed, Frame
<1>5. "runcmd_func" \in DOMAIN Ret \ {"entry"} /\ Caller["runcmd_func"] = calls[1].fn
      /\ "mon_backtrace" \in FunctionNames
  BY <1>2, Sites DEF FunctionNames
<1> QED BY <1>1, <1>3, <1>4, <1>5, CallResumes, Zenon

(* The frame of test_backtrace() tells how deep the recursion is. *)
LEMMA TestFrame ==
  ASSUME TraceInv, pos = "test_backtrace"
  PROVE  /\ calls[1].fn = "test_backtrace" /\ x \in 0 .. Depth
         /\ esp = StackTop - 7 - 4 * (Depth - x)
<1>1. calls[1].fn = "test_backtrace" /\ pos \notin {"alone", "entry"}
  BY Top DEF Running, FunctionNames
<1> DEFINE a == calls[1].args
<1>2. Len(a) = 1 /\ a[1] \in 0 .. Depth /\ calls[1].fp = StackTop - 6 - 4 * (Depth - a[1])
  BY <1>1, Top DEF Placed
<1>3. /\ ebp \in Int /\ ebp = calls[1].fp /\ esp = calls[1].fp - 1
      /\ \A j \in 1 .. Len(a) : stack[ebp + 1 + j] = a[j]
  BY <1>1, Top DEF Locals
<1> HIDE DEF a
<1>4. x = a[1]
  <2>1. 1 \in 1 .. Len(a) /\ ebp + 1 + 1 = ebp + 2
    BY <1>2, <1>3
  <2> QED BY <2>1, <1>3 DEF x
<1>5. esp = StackTop - 7 - 4 * (Depth - x)
  BY <1>2, <1>3, <1>4, StackSize
<1> QED BY <1>1, <1>2, <1>4, <1>5

LEMMA TestRecurs == ASSUME TraceInv, TestAgain PROVE TraceInv'
<1>1. /\ pos = "test_backtrace" /\ UNCHANGED kvars /\ pos \notin {"alone", "entry"} /\ x > 0
      /\ CallWith("test_backtrace", << x - 1 >>, "test_test")
  BY DEF TestAgain
<1>2. /\ calls[1].fn = "test_backtrace" /\ x \in 0 .. Depth
      /\ esp = StackTop - 7 - 4 * (Depth - x)
  BY <1>1, TestFrame
<1> DEFINE d == x - 1
<1>3. d \in 0 .. Depth /\ esp = StackTop - 3 - 4 * (Depth - d) /\ esp \in Int
  BY <1>1, <1>2, StackSize
<1> HIDE DEF d
<1>4. << d >> \in Seq(Int) /\ Len(<< d >>) = 1 /\ << d >>[1] = d
  BY <1>3, StackSize
<1>5. Placed(Frame("test_backtrace", << d >>, "test_test", esp))
  <2>1. /\ esp - 1 - 2 >= 1 /\ (esp - 1 - 2) + 2 + 1 <= StackTop
        /\ esp - 1 - 2 = StackTop - 6 - 4 * (Depth - d)
    BY <1>3, StackSize
  <2> QED BY <2>1, <1>3, <1>4 DEF Placed, Frame
<1>6. "test_test" \in DOMAIN Ret \ {"entry"} /\ Caller["test_test"] = calls[1].fn
      /\ "test_backtrace" \in FunctionNames
  BY <1>2, Sites DEF FunctionNames
<1>7. CallWith("test_backtrace", << d >>, "test_test")
  BY <1>1 DEF d
<1> QED BY <1>1, <1>4, <1>5, <1>6, <1>7, CallResumes, Zenon

LEMMA TestTraces == ASSUME TraceInv, TestTrace PROVE TraceInv'
<1>1. /\ pos = "test_backtrace" /\ UNCHANGED kvars /\ pos \notin {"alone", "entry"} /\ x <= 0
      /\ CallWith("mon_backtrace", << 0, 0, 0 >>, "test_trace")
  BY DEF TestTrace
<1>2. calls[1].fn = "test_backtrace" /\ esp = StackTop - 7 - 4 * Depth
  BY <1>1, TestFrame, StackSize
<1>3. << 0, 0, 0 >> \in Seq(Int) /\ Len(<< 0, 0, 0 >>) = 3
  OBVIOUS
<1>4. Placed(Frame("mon_backtrace", << 0, 0, 0 >>, "test_trace", esp))
  BY <1>2, <1>3, StackSize DEF Placed, Frame
<1>5. "test_trace" \in DOMAIN Ret \ {"entry"} /\ Caller["test_trace"] = calls[1].fn
      /\ "mon_backtrace" \in FunctionNames
  BY <1>2, Sites DEF FunctionNames
<1> QED BY <1>1, <1>3, <1>4, <1>5, CallResumes, Zenon

LEMMA EntryCalled == ASSUME TraceInv, EntryCalls PROVE TraceInv'
<1>1. Chained' /\ pos' = "i386_init" /\ calls'[1].fn = "i386_init"
  BY EntryChains
<1>2. pos = "entry" /\ UNCHANGED kvars
  BY DEF EntryCalls
<1>3. pos' \in FunctionNames /\ pos' \notin DOMAIN Ret /\ pos # "alone"
  BY <1>1, <1>2, Sites DEF FunctionNames
<1> QED BY <1>1, <1>2, <1>3, Resumed

LEMMA Returned ==
  ASSUME TraceInv, pos \notin {"alone", "entry"}, calls[1].fn # "i386_init",
         Leave, UNCHANGED kvars
  PROVE  TraceInv'
<1>1. Chained' /\ pos' \in DOMAIN Ret \ {"entry"} /\ calls'[1].fn = Caller[pos']
  BY LeaveChains DEF TraceInv
<1>2. pos' \notin FunctionNames
  BY <1>1, Sites DEF FunctionNames
<1> QED BY <1>1, <1>2, Resumed

LEMMA CallerLeft == ASSUME TraceInv, LeaveCaller PROVE TraceInv'
<1>1. pos \in {"test_test", "test_trace", "runcmd_func"} /\ Leave /\ UNCHANGED kvars
  BY DEF LeaveCaller
<1>2. pos \notin {"alone", "entry"} /\ pos \in DOMAIN Ret
  BY <1>1, Sites
<1>3. calls[1].fn = Caller[pos]
  BY <1>2, Top DEF Running
<1>4. calls[1].fn # "i386_init"
  BY <1>1, <1>3, Sites
<1> QED BY <1>1, <1>2, <1>4, Returned

LEMMA TraceLeft == ASSUME TraceInv, LeaveTrace PROVE TraceInv'
<1>1. pos = "traced" /\ Leave /\ UNCHANGED kvars
  BY DEF LeaveTrace
<1>2. pos \notin {"alone", "entry"}
  BY <1>1
<1>3. calls[1].fn # "i386_init"
  BY <1>1, <1>2, Top DEF Running
<1> QED BY <1>1, <1>2, <1>3, Returned

(* What the walk reads at each frame, and where it goes from there. *)
LEMMA CallAt ==
  ASSUME Chained, NEW i \in 1 .. Len(calls)
  PROVE  /\ calls[i].fp \in Int /\ calls[i].fp >= 1 /\ Len(calls[i].args) \in 0 .. 3
         /\ calls[i].ret \in Nat /\ calls[i].ret >= ULIM
         /\ i = Len(calls) => Holds(stack, calls[i], 0) /\ calls[i].ret = Ret["entry"]
         /\ i < Len(calls) => /\ i + 1 \in 1 .. Len(calls)
                              /\ Nested(calls[i], calls[i + 1])
                              /\ Holds(stack, calls[i], calls[i + 1].fp)
<1>1. /\ Len(calls) \in Nat /\ calls[i] \in Call /\ Placed(calls[i]) /\ calls[i].fp \in Int
  BY ChainedCalls
<1>2. calls[i].fn \in FunctionNames /\ Len(calls[i].args) \in Nat
  BY <1>1 DEF Call
<1>3. Len(calls[i].args) \in 0 .. 3
  BY <1>1, <1>2 DEF Placed, FunctionNames
<1>4. calls[i].fp >= 1
  BY <1>1 DEF Placed
<1>5. CASE i = Len(calls)
  <2>1. Holds(stack, calls[i], 0) /\ calls[i].ret = Ret["entry"]
    BY <1>5 DEF Chained
  <2> QED BY <2>1, <1>1, <1>3, <1>4, <1>5, Sites
<1>6. CASE i < Len(calls)
  <2>1. i \in 1 .. Len(calls) - 1 /\ i + 1 \in 1 .. Len(calls)
    BY <1>1, <1>6
  <2>2. Nested(calls[i], calls[i + 1]) /\ Holds(stack, calls[i], calls[i + 1].fp)
    BY <2>1 DEF Chained
  <2>3. calls[i].ret \in Nat /\ calls[i].ret >= ULIM
    BY <2>2, Sites DEF Nested
  <2> QED BY <2>1, <2>2, <2>3, <1>1, <1>3, <1>4, <1>6
<1> QED BY <1>1, <1>5, <1>6

LEMMA WalkStarts == ASSUME TraceInv, StartWalk PROVE TraceInv'
<1>1. /\ pos = "mon_backtrace" /\ pos' = "ask" /\ walk' = temp + 7 /\ trace' = << >>
      /\ UNCHANGED << kvars, frame >> /\ pos \notin {"alone", "entry"}
  BY DEF StartWalk
<1>2. /\ Chained /\ calls[1].fn = "mon_backtrace" /\ ebp = calls[1].fp /\ calls[1].fp \in Int
      /\ Len(calls) \in Nat /\ Len(calls) >= 1
  BY <1>1, Top, ChainedCalls DEF Running, FunctionNames
<1>3. UNCHANGED << stabs, stage, eip, stack, esp, ebp, calls >>
  BY <1>1 DEF kvars, vars, frame
<1>4. walk' = calls[1].fp
  BY <1>1, <1>2 DEF temp
<1>5. Walked'
  <2>1. \E S : trace' \in Seq(S)
    <3>1. trace' \in Seq(Int)
      BY <1>1
    <3> QED BY <3>1
  <2>2. Len(trace') = 0 /\ 1 .. Len(trace') = {} /\ Len(trace') + 1 = 1
    BY <1>1
  <2> QED BY <2>1, <2>2, <1>1, <1>2, <1>3, <1>4 DEF Walked
<1>6. Chained'
  BY <1>2, <1>3 DEF Chained
<1>7. Running' /\ pos' \in Positions
  BY <1>1, <1>2, <1>3, Sites DEF Running, Positions, FunctionNames
<1>8. LookupInv'
  BY <1>1, LookupStutter DEF TraceInv
<1> QED BY <1>1, <1>3, <1>5, <1>6, <1>7, <1>8 DEF TraceInv

LEMMA Asked == ASSUME TraceInv, Ask PROVE TraceInv'
<1>1. /\ pos = "ask" /\ pos' = "asked" /\ Called(stack[walk + 1])
      /\ UNCHANGED << frame, walk, trace >>
  BY DEF Ask, shown
<1>2. /\ Chained /\ Running /\ Walked /\ stabs = KernelTable /\ LookupInv
      /\ calls[1].fn = "mon_backtrace"
  BY <1>1 DEF TraceInv, Running
<1>3. /\ stage' = "called" /\ eip' = stack[walk + 1]
      /\ UNCHANGED << vars, lfile, rfile, lfun, rfun, lline, info, result >>
      /\ UNCHANGED << stack, esp, ebp, calls >>
  BY <1>1 DEF Called, frame
<1> DEFINE i == Len(trace) + 1
<1>4. i \in 1 .. Len(calls) /\ walk = calls[i].fp
  <2>1. Len(trace) \in Nat /\ Len(trace) < Len(calls) /\ walk = calls[i].fp
    BY <1>1, <1>2 DEF Walked
  <2>2. Len(calls) \in Nat
    BY <1>2, ChainedCalls
  <2> QED BY <2>1, <2>2
<1>5. eip' = calls[i].ret /\ calls[i].ret \in Nat /\ calls[i].ret >= ULIM
  <2> HIDE DEF i
  <2>1. (i = Len(calls) \/ i < Len(calls)) /\ Len(calls) \in Nat
    BY <1>2, <1>4, ChainedCalls
  <2>2. stack[walk + 1] = calls[i].ret
    BY <2>1, <1>2, <1>4, CallAt DEF Holds
  <2> QED BY <2>2, <1>2, <1>3, <1>4, CallAt
<1>6. LookupInv'
  <2>1. SearchInv'
    BY <1>2, <1>3, SameSearch DEF LookupInv
  <2>2. IsKernelTable(stabs') /\ eip' \in Int /\ stage' = "called"
    BY <1>2, <1>3, <1>5, NamesAssumption DEF vars
  <2>3. info' \in [fn : Int, line : Int, file : Int, narg : Nat]
    BY <1>2, <1>3 DEF LookupInv
  <2> QED BY <2>1, <2>2, <2>3 DEF LookupInv
<1>7. Walked'
  <2>1. /\ \A k \in 1 .. Len(trace) : LineOf(k)'
        /\ \E S : trace' \in Seq(S)
    BY <1>1, <1>2, <1>3 DEF Walked, LineOf
  <2> QED BY <2>1, <1>1, <1>2, <1>3, <1>5 DEF Walked
<1>8. Chained'
  BY <1>2, <1>3 DEF Chained
<1>9. Running' /\ pos' \in Positions
  BY <1>1, <1>2, <1>3, Sites DEF Running, Positions, FunctionNames
<1>10. stabs' = KernelTable /\ eip' >= ULIM
  BY <1>2, <1>3, <1>5 DEF vars
<1> QED BY <1>1, <1>3, <1>6, <1>7, <1>8, <1>9, <1>10 DEF TraceInv

LEMMA SearchedOn == ASSUME TraceInv, Debuginfo PROVE TraceInv'
<1>1. KNext /\ UNCHANGED << stack, esp, ebp, calls, pos, walk, trace >>
  BY DEF Debuginfo, frame, shown
<1>2. LookupInv'
  BY <1>1, LookupStep DEF TraceInv
<1>3. UNCHANGED << stabs, eip >>
  BY <1>1 DEF KNext, UserAddress, NoStrings, Lookup, SearchStep, NoFile, FileFound, FunctionFound,
              NoFunction, Return, Search, vars, Next, NoMatch, Below, Above, Exact, Finish, args
<1>4. /\ stage' = "idle" <=> stage = "idle"
      /\ stage' = "panicked" => UserAddress \/ stage = "panicked"
  BY <1>1 DEF KNext, UserAddress, NoStrings, Lookup, SearchStep, NoFile, FileFound, FunctionFound,
              NoFunction, Return
<1>5. CASE pos = "alone"
  BY <1>1, <1>2, <1>5 DEF TraceInv, Positions
<1>6. CASE pos # "alone"
  <2>1. stabs' = KernelTable /\ (stage' # "idle" => eip' >= ULIM)
    BY <1>3, <1>4, <1>6 DEF TraceInv
  <2>2. stage' # "panicked"
    <3>1. ~UserAddress
      <4>1. stage = "called" => eip \in Int /\ eip >= ULIM /\ ULIM \in Int
        BY <1>6, KernelsAssumption DEF TraceInv, LookupInv
      <4> QED BY <4>1 DEF UserAddress
    <3> QED BY <3>1, <1>4, <1>6 DEF TraceInv
  <2>3. pos' = "entry" => calls' = << >> /\ stage' = "idle"
    BY <1>1, <1>4 DEF TraceInv
  <2>4. pos' \notin {"alone", "entry"} => Chained' /\ Running'
    BY <1>1 DEF TraceInv, Chained, Running
  <2>5. ASSUME pos' \in {"ask", "asked", "traced"}
        PROVE  Walked'
    <3>1. Walked
      BY <2>5, <1>1 DEF TraceInv
    <3>2. \A k \in 1 .. Len(trace') : LineOf(k)'
      BY <3>1, <1>1 DEF Walked, LineOf
    <3> QED BY <3>1, <3>2, <1>1, <1>3, <1>4 DEF Walked
  <2> QED BY <2>1, <2>2, <2>3, <2>4, <2>5, <1>1, <1>2 DEF TraceInv
<1> QED BY <1>5, <1>6

LEMMA TraceStutter == ASSUME TraceInv, UNCHANGED bvars PROVE TraceInv'
<1>1. UNCHANGED << kvars, stack, esp, ebp, calls, pos, walk, trace, stabs, eip, stage >>
  BY DEF bvars, frame, shown, kvars, vars
<1>2. LookupInv'
  BY <1>1, LookupStutter DEF TraceInv
<1>3. Chained => Chained'
  BY <1>1 DEF Chained
<1>4. Running => Running'
  BY <1>1 DEF Running
<1>5. ASSUME Walked
      PROVE  Walked'
  <2>1. \A k \in 1 .. Len(trace') : LineOf(k)'
    BY <1>1, <1>5 DEF Walked, LineOf
  <2> QED BY <2>1, <1>1, <1>5 DEF Walked
<1> QED BY <1>1, <1>2, <1>3, <1>4, <1>5 DEF TraceInv

(* A function on 1 .. n is a sequence of length n. *)
LEMMA Buffer ==
  ASSUME NEW S, NEW n \in Nat, NEW f \in [1 .. n -> S]
  PROVE  f \in Seq(S) /\ Len(f) = n
  OBVIOUS

(* strncpy() and the terminator: "%s" prints the name and nothing else. *)
LEMMA NameShown ==
  ASSUME NEW text, Fits(text), eip_fn_namelen = Len(text),
         \A k \in 1 .. Len(text) : eip_fn_name[k] = text[k]
  PROVE  AsString(CopiedName) = text
<1> DEFINE n == Len(text)
           buf == CopiedName
           S == {buf[k] : k \in 1 .. NameSize}
           N == {k \in 1 .. Len(buf) : buf[k] = NUL} \cup {Len(buf) + 1}
<1>1. /\ text \in Seq(Range(text)) /\ n \in Nat /\ n < NameSize /\ NameSize \in Nat
      /\ \A k \in 1 .. n : text[k] # NUL /\ text[k] \in Range(text)
  <2>1. text \in Seq(Range(text)) /\ n < NameSize /\ NameSize \in Nat /\ NUL \notin Range(text)
    BY NamesAssumption DEF Fits
  <2>2. n \in Nat /\ \A k \in 1 .. n : text[k] \in Range(text)
    BY <2>1
  <2> QED BY <2>1, <2>2
<1>2. /\ \A k \in 1 .. n : buf[k] = text[k]
      /\ buf[n + 1] = NUL
  <2>1. buf = [k \in 1 .. NameSize |-> IF k <= n THEN eip_fn_name[k]
                                       ELSE IF k = n + 1 THEN NUL ELSE func_name[k]]
    BY DEF CopiedName
  <2>2. /\ n + 1 \in 1 .. NameSize /\ ~(n + 1 <= n)
        /\ \A k \in 1 .. n : k \in 1 .. NameSize /\ k <= n
    BY <1>1
  <2> HIDE DEF buf
  <2>3. \A k \in 1 .. n : buf[k] = text[k]
    BY <2>1, <2>2
  <2>4. buf[n + 1] = NUL
    BY <2>1, <2>2
  <2> QED BY <2>3, <2>4
<1>3. Len(buf) = NameSize
  <2>1. buf \in [1 .. NameSize -> S]
    BY DEF CopiedName
  <2> HIDE DEF buf, S
  <2> QED BY <2>1, <1>1, Buffer
<1> HIDE DEF buf
<1>4. Min(N) = n + 1
  <2>1. N \subseteq Int /\ n + 1 \in N
    BY <1>1, <1>2, <1>3
  <2>2. ASSUME NEW k \in N
        PROVE  n + 1 <= k
    <3>1. CASE k = NameSize + 1
      BY <3>1, <1>1
    <3>2. CASE k \in 1 .. NameSize /\ buf[k] = NUL
      <4>1. ~(k \in 1 .. n)
        BY <3>2, <1>1, <1>2
      <4> QED BY <4>1, <3>2, <1>1
    <3> QED BY <3>1, <3>2, <1>3
  <2> HIDE DEF N
  <2> QED BY <2>1, <2>2, IsMin
<1>5. AsString(buf) = SubSeq(buf, 1, n)
  <2>1. AsString(buf) = SubSeq(buf, 1, Min(N) - 1)
    BY DEF AsString
  <2>2. Min(N) - 1 = n
    BY <1>1, <1>4
  <2> QED BY <2>1, <2>2
<1> DEFINE out == SubSeq(buf, 1, n)
<1>6. /\ out \in Seq(Range(text)) /\ Len(out) = n
      /\ \A i \in 1 .. n : out[i] = text[i]
  <2>1. /\ 1 \in Int /\ n \in Int /\ \A i \in 1 .. n : buf[i] \in Range(text)
    BY <1>1, <1>2
  <2>2. /\ out \in Seq(Range(text)) /\ Len(out) = (IF 1 <= n THEN n - 1 + 1 ELSE 0)
        /\ \A i \in 1 .. n - 1 + 1 : out[i] = buf[1 + i - 1]
    BY <2>1, SubSeqProperties
  <2>3. n - 1 + 1 = n /\ (~(1 <= n) => n = 0) /\ \A i \in 1 .. n : 1 + i - 1 = i
    BY <1>1
  <2> HIDE DEF out, n
  <2> QED BY <2>2, <2>3, <1>2
<1> HIDE DEF out
<1>7. out = text
  BY <1>1, <1>6, SeqEqual
<1> QED BY <1>5, <1>7 DEF out, buf

LEMMA UnknownName == UpToColon(Unknown) = 3 /\ Len(Unknown) = 3
<1> DEFINE N == {k \in 1 .. Len(Unknown) : Unknown[k] = ":"} \cup {Len(Unknown) + 1}
<1>1. Len(Unknown) = 3 /\ Unknown[1] = "<" /\ Unknown[2] = "u" /\ Unknown[3] = ">"
  BY DEF Unknown
<1>2. N = {4}
  BY <1>1
<1>3. Min(N) = 4
  <2> HIDE DEF N
  <2> QED BY <1>2, IsMin
<1> QED BY <1>1, <1>3 DEF UpToColon

(* What a turn of the loop prints of the address. *)
LEMMA NameRight ==
  ASSUME TraceInv, pos = "asked", stage = "returned",
         NEW k \in 1 .. Len(calls), eip = calls[k].ret
  PROVE  IF k = Len(calls)
         THEN AsString(CopiedName) = Unknown
         ELSE LET caller == Symbols[calls[k + 1].fn]
              IN /\ AsString(CopiedName) = caller.name
                 /\ caller.start + (eip - eip_fn_addr + 1) - 1 = eip
<1>1. /\ stabs = KernelTable /\ Chained /\ AnswersRight /\ Nameless
      /\ IsKernelTable(stabs) /\ eip \in Int /\ stabs \notin BadStrings
  BY NamesAssumption DEF TraceInv, LookupInv
<1>2. CASE k = Len(calls)
  <2>1. eip = Ret["entry"]
    BY <1>1, <1>2, CallAt
  <2>2. info.fn = None
    BY <2>1, <1>1, NamesAssumption DEF Nameless
  <2>3. eip_fn_name = Unknown
    BY <2>2 DEF eip_fn_name
  <2>4. eip_fn_namelen = Len(Unknown)
    BY <2>3, UnknownName DEF eip_fn_namelen
  <2>5. Fits(Unknown)
    BY NamesAssumption
  <2>6. AsString(CopiedName) = Unknown
    BY <2>3, <2>4, <2>5, NameShown
  <2> QED BY <2>6, <1>2
<1>3. CASE k # Len(calls)
  <2>1. k < Len(calls)
    BY <1>1, <1>3, ChainedCalls
  <2>2. PICK site \in DOMAIN Ret \ {"entry"} :
          calls[k].ret = Ret[site] /\ calls[k + 1].fn = Caller[site]
    BY <2>1, <1>1, CallAt DEF Nested
  <2> DEFINE caller == Symbols[Caller[site]]
  <2>3. eip = Ret[site]
    BY <2>2
  <2>4. PICK f \in File(stabs, eip) : \E fn \in LastBelow(stabs, Functions(stabs, f), eip) :
          /\ Fits(caller.name) /\ Len(caller.name) = UpToColon(stabs[fn].name)
          /\ \A j \in 1 .. Len(caller.name) : caller.name[j] = stabs[fn].name[j]
          /\ stabs[fn].value = caller.start
    BY <2>3, <1>1, NamesAssumption
  <2>5. PICK fn \in LastBelow(stabs, Functions(stabs, f), eip) :
          /\ Fits(caller.name) /\ Len(caller.name) = UpToColon(stabs[fn].name)
          /\ \A j \in 1 .. Len(caller.name) : caller.name[j] = stabs[fn].name[j]
          /\ stabs[fn].value = caller.start
    BY <2>4
  <2> HIDE DEF caller
  <2>6. info.fn = fn
    BY <1>1, <2>4, <2>5 DEF AnswersRight
  <2>7. fn \in 0 .. LastStab /\ LastStab \in Nat
    <3>1. fn \in DOMAIN stabs
      BY <2>5 DEF LastBelow, Functions, UpToNext
    <3> QED BY <3>1, <1>1, KernelTables
  <2>8. stabs[fn].value \in Nat
    BY <2>7, <1>1, KernelTables
  <2>9. eip_fn_name = stabs[fn].name /\ eip_fn_addr = stabs[fn].value
    <3>1. fn # None
      BY <2>7 DEF None
    <3> QED BY <3>1, <2>6 DEF eip_fn_name, eip_fn_addr
  <2>10. eip_fn_namelen = Len(caller.name)
    BY <2>5, <2>9 DEF eip_fn_namelen
  <2>11. AsString(CopiedName) = caller.name
    BY <2>5, <2>9, <2>10, NameShown
  <2>12. caller.start + (eip - eip_fn_addr + 1) - 1 = eip
    BY <2>5, <2>8, <2>9, <1>1
  <2> QED BY <2>2, <2>11, <2>12, <1>3 DEF caller
<1> QED BY <1>2, <1>3

LEMMA LinePrinted == ASSUME TraceInv, PrintFrame PROVE TraceInv'
<1> DEFINE k == Len(trace) + 1
           line == [fp   |-> walk, eip |-> stack[walk + 1],
                    args |-> [j \in 1 .. 5 |-> stack[walk + 1 + j]],
                    name |-> AsString(CopiedName),
                    line |-> info.line, off |-> eip - eip_fn_addr + 1]
<1>1. /\ pos = "asked" /\ stage = "returned" /\ trace' = Append(trace, line)
      /\ stack[walk] = 0 => pos' = "traced"
      /\ stack[walk] # 0 => pos' = "ask" /\ walk' = stack[walk]
      /\ UNCHANGED << kvars, frame >>
  BY DEF PrintFrame
<1>2. /\ Chained /\ Running /\ Walked /\ calls[1].fn = "mon_backtrace"
  BY <1>1 DEF TraceInv, Running
<1>3. UNCHANGED << stabs, stage, eip, stack, esp, ebp, calls >>
  BY <1>1 DEF kvars, vars, frame
<1>4. /\ k \in 1 .. Len(calls) /\ walk = calls[k].fp /\ eip = calls[k].ret
      /\ Len(calls) \in Nat /\ Len(trace) \in Nat
  <2>1. Len(trace) \in Nat /\ Len(trace) < Len(calls) /\ walk = calls[k].fp /\ eip = calls[k].ret
    BY <1>1, <1>2 DEF Walked
  <2>2. Len(calls) \in Nat
    BY <1>2, ChainedCalls
  <2> QED BY <2>1, <2>2
<1>5. /\ Len(trace') = k /\ trace'[k] = line
      /\ \A j \in 1 .. Len(trace) : trace'[j] = trace[j]
      /\ \E S : trace' \in Seq(S)
  <2>1. PICK S : trace \in Seq(S)
    BY <1>2 DEF Walked
  <2> DEFINE T == S \cup {line}
  <2>2. trace \in Seq(T) /\ line \in T
    BY <2>1, SeqMonotonic
  <2> HIDE DEF T, line
  <2>3. /\ Append(trace, line) \in Seq(T) /\ Len(Append(trace, line)) = Len(trace) + 1
        /\ \A j \in 1 .. Len(trace) : Append(trace, line)[j] = trace[j]
        /\ Append(trace, line)[Len(trace) + 1] = line
    BY <2>2, AppendProperties
  <2> QED BY <2>3, <1>1
<1> HIDE DEF k
<1>6. IF k = Len(calls)
      THEN AsString(CopiedName) = Unknown
      ELSE LET caller == Symbols[calls[k + 1].fn]
           IN /\ AsString(CopiedName) = caller.name
              /\ caller.start + (eip - eip_fn_addr + 1) - 1 = eip
  BY <1>1, <1>4, NameRight
<1>7. /\ calls[k].fp \in Int /\ Len(calls[k].args) \in 0 .. 3 /\ stack[walk + 1] = calls[k].ret
      /\ \A j \in 1 .. Len(calls[k].args) : stack[walk + 1 + j] = calls[k].args[j]
      /\ k = Len(calls) => stack[walk] = 0
      /\ k < Len(calls) => /\ stack[walk] = calls[k + 1].fp /\ calls[k + 1].fp >= 1
                           /\ calls[k + 1].fp \in Int
  <2>1. k = Len(calls) \/ k < Len(calls)
    BY <1>4
  <2>2. /\ calls[k].fp \in Int /\ Len(calls[k].args) \in 0 .. 3
        /\ k = Len(calls) => Holds(stack, calls[k], 0)
        /\ k < Len(calls) => k + 1 \in 1 .. Len(calls) /\ Holds(stack, calls[k], calls[k + 1].fp)
    BY <1>2, <1>4, CallAt
  <2>3. k < Len(calls) => calls[k + 1].fp >= 1 /\ calls[k + 1].fp \in Int
    BY <2>2, <1>2, CallAt
  <2> QED BY <2>1, <2>2, <2>3, <1>4 DEF Holds
<1>8. /\ line.fp = calls[k].fp /\ line.eip = calls[k].ret
      /\ \A j \in 1 .. Len(calls[k].args) : line.args[j] = calls[k].args[j]
      /\ line.name = AsString(CopiedName) /\ line.off = eip - eip_fn_addr + 1
  <2>1. \A j \in 1 .. Len(calls[k].args) : j \in 1 .. 5
    BY <1>7
  <2> QED BY <2>1, <1>4, <1>7
<1> HIDE DEF line
<1>9. ASSUME NEW j \in 1 .. Len(trace')
      PROVE  LineOf(j)'
  <2>1. j \in 1 .. Len(trace) \/ j = k
    BY <1>4, <1>5 DEF k
  <2>2. CASE j \in 1 .. Len(trace)
    <3>1. LineOf(j) /\ trace'[j] = trace[j]
      BY <2>2, <1>2, <1>5 DEF Walked
    <3> QED BY <3>1, <1>3 DEF LineOf
  <2>3. CASE j = k
    <3>1. /\ trace'[j] = line
          /\ line.fp = calls[j].fp /\ line.eip = calls[j].ret
          /\ \A i \in 1 .. Len(calls[j].args) : line.args[i] = calls[j].args[i]
      BY <2>3, <1>5, <1>8
    <3>2. j = Len(calls) => line.name = Unknown
      BY <2>3, <1>6, <1>8
    <3>3. j # Len(calls) => /\ line.name = Symbols[calls[j + 1].fn].name
                            /\ Symbols[calls[j + 1].fn].start + line.off - 1 = calls[j].ret
      BY <2>3, <1>4, <1>6, <1>8
    <3> QED BY <3>1, <3>2, <3>3, <1>3 DEF LineOf
  <2> QED BY <2>1, <2>2, <2>3
<1>10. Walked' /\ pos' \in {"ask", "traced"}
  <2>1. CASE k = Len(calls)
    <3>1. pos' = "traced"
      BY <2>1, <1>1, <1>7
    <3> QED BY <3>1, <2>1, <1>3, <1>5, <1>9 DEF Walked
  <2>2. CASE k < Len(calls)
    <3>1. pos' = "ask" /\ walk' = calls[k + 1].fp
      BY <2>2, <1>1, <1>7
    <3> QED BY <3>1, <2>2, <1>3, <1>5, <1>9 DEF Walked
  <2> QED BY <2>1, <2>2, <1>4
<1>11. Chained'
  BY <1>2, <1>3 DEF Chained
<1>12. Running' /\ pos' \in Positions
  BY <1>2, <1>3, <1>10, Sites DEF Running, Positions, FunctionNames
<1>13. LookupInv'
  BY <1>1, LookupStutter DEF TraceInv
<1> QED BY <1>1, <1>3, <1>10, <1>11, <1>12, <1>13 DEF TraceInv

-----------------------------------------------------------------------------
LEMMA TraceStarts == ASSUME BInit PROVE TraceInv
<1>1. CASE Idle(KernelTable) /\ NoLookup /\ eip = 0 /\ stage = "idle" /\ pos = "entry"
  <2>1. SearchInv /\ stabs = KernelTable
    BY <1>1 DEF Idle, SearchInv
  <2>2. LookupInv
    BY <2>1, <1>1, LookupInit DEF NoLookup
  <2>3. pos \in Positions
    BY <1>1, Sites DEF Positions
  <2> QED BY <2>1, <2>2, <2>3, <1>1 DEF TraceInv, BInit, NoStack
<1>2. CASE KInit /\ pos = "alone"
  <2>1. LookupInv
    BY <1>2, LookupStart
  <2> QED BY <2>1, <1>2 DEF TraceInv, Positions
<1>3. CASE Init /\ NoLookup /\ eip = 0 /\ stage = "idle" /\ pos = "alone"
  <2>1. LookupInv
    BY <1>3, SearchStart, LookupInit DEF NoLookup
  <2> QED BY <2>1, <1>3 DEF TraceInv, Positions
<1> QED BY <1>1, <1>2, <1>3 DEF BInit

LEMMA TraceStep == ASSUME TraceInv, BNext PROVE TraceInv'
  BY EntryCalled, InitCallsTest, MonitorEntered, CommandRun, CommandTraces, TestRecurs,
     TestTraces, CallerLeft, WalkStarts, Asked, SearchedOn, LinePrinted, TraceLeft DEF BNext

LEMMA TraceInvariance == BSpec => []TraceInv
<1>1. BInit => TraceInv
  BY TraceStarts
<1>2. TraceInv /\ [BNext]_bvars => TraceInv'
  BY TraceStep, TraceStutter
<1> QED BY <1>1, <1>2, PTL DEF BSpec

(***************************************************************************)
(* For every depth of the recursion and every number of commands,          *)
(* mon_backtrace() prints the calls in progress, each once, with frame,    *)
(* return address, arguments and the caller's whole name.                  *)
(***************************************************************************)
THEOREM TraceCorrect == BSpec => []TraceIsCalls
<1>1. TraceInv => TraceIsCalls
  <2> SUFFICES ASSUME TraceInv, pos = "traced"
               PROVE  Len(trace) = Len(calls) /\ \A k \in 1 .. Len(calls) : LineOf(k)
    BY DEF TraceIsCalls
  <2>1. Walked
    BY DEF TraceInv
  <2> QED BY <2>1 DEF Walked
<1> QED BY <1>1, TraceInvariance, PTL

(* And debuginfo_eip() is never asked about an address below the kernel.   *)
THEOREM WalkStaysInKernel == BSpec => []NeverPanics
<1>1. TraceInv => NeverPanics
  BY DEF TraceInv, NeverPanics
<1> QED BY <1>1, TraceInvariance, PTL

(* The search and the lookup are right in the system that uses them, too. *)
THEOREM LooksUpRight == BSpec => [](Finds /\ ReadsInTable /\ AnswersRight)
<1>1. TraceInv => Finds /\ ReadsInTable /\ AnswersRight
  <2> SUFFICES ASSUME TraceInv
               PROVE  Finds /\ ReadsInTable /\ AnswersRight
    OBVIOUS
  <2>1. LookupInv
    BY DEF TraceInv
  <2>2. ReadsInTable
    BY <2>1, LookupInTable
  <2>3. Finds /\ AnswersRight
    BY <2>1 DEF LookupInv, SearchInv, Found, Finds, AnswersRight
  <2> QED BY <2>2, <2>3
<1> QED BY <1>1, TraceInvariance, PTL
=============================================================================
