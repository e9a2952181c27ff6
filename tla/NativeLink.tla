----------------------------- MODULE NativeLink -----------------------------
(***************************************************************************)
(* The table of native functions (wasm_native.c): how it is sorted when it *)
(* is registered, how an import is looked up in it, and when the signature *)
(* of a native function fits the type of an import.                        *)
(*                                                                         *)
(* A symbol is a record of a name and a signature.  Names are numbers: all *)
(* that strcmp tells of them is their order.  A signature is the sequence  *)
(* of its characters, a type the sequences of its parameters and results.  *)
(***************************************************************************)
EXTENDS Integers, Sequences

SymbolTables == Seq([name : Int, sig : Seq(STRING)])

----------------------------------------------------------------------------
(* quick_sort_symbols *)

Exchange(s, i, j) == [s EXCEPT ![i] = s[j], ![j] = s[i]]

(* The scans: from i down to above left, and from i up to below right.     *)
ScanDown(s, left, i, base) ==
  CHOOSE j \in left .. i : /\ \A k \in j + 1 .. i : s[k].name > base.name
                           /\ j = left \/ s[j].name <= base.name

ScanUp(s, i, right, base) ==
  CHOOSE j \in i .. right : /\ \A k \in i .. j - 1 : s[k].name < base.name
                            /\ j = right \/ s[j].name >= base.name

(* A part of the table, from left to right.                                *)
Spans ==
  {x \in [table : SymbolTables, left : Int, right : Int] :
     x.left >= 1 /\ x.right <= Len(x.table)}
Span(s, left, right) == [table |-> s, left |-> left, right |-> right]

(* The loop of one partition: the table, and the place of the pivot.       *)
Partition(s, left, right) ==
  LET base == s[left]
      loop[x \in Spans] ==
        IF x.left >= x.right
        THEN [table |-> [x.table EXCEPT ![x.left] = base], place |-> x.left]
        ELSE LET r1 == ScanDown(x.table, x.left, x.right, base)
                 t1 == Exchange(x.table, x.left, r1)
                 l1 == IF x.left < r1 THEN x.left + 1 ELSE x.left
                 l2 == ScanUp(t1, l1, r1, base)
             IN  loop[Span(Exchange(t1, l2, r1), l2, IF l2 < r1 THEN r1 - 1 ELSE r1)]
  IN  loop[Span(s, left, right)]

SortRange[x \in Spans] ==
  IF x.left >= x.right THEN x.table
  ELSE LET p == Partition(x.table, x.left, x.right)
           t == SortRange[Span(p.table, x.left, p.place - 1)]
       IN  SortRange[Span(t, p.place + 1, x.right)]

QuickSort(s) == SortRange[Span(s, 1, Len(s))]

----------------------------------------------------------------------------
(* lookup_symbol: the index of a name in the table, or 0.                  *)
LookupSymbol(s, name) ==
  LET search[x \in [low : Int, high : Int]] ==
        IF x.low > x.high THEN 0
        ELSE LET mid == (x.low + x.high) \div 2
             IN  IF name = s[mid].name THEN mid
                 ELSE IF name < s[mid].name THEN search[[low |-> x.low, high |-> mid - 1]]
                 ELSE search[[low |-> mid + 1, high |-> x.high]]
  IN  search[[low |-> 1, high |-> Len(s)]]

----------------------------------------------------------------------------
(* check_symbol_signature *)

Letter == [i32 |-> "i", i64 |-> "I", f32 |-> "f", f64 |-> "F"]

(* Walk[i, p]: the position behind the parameters from the i-th on, whose  *)
(* characters begin at p; 0 when they do not fit.                          *)
Parameters(type, sig) ==
  LET n == Len(type.param)
      walk[i \in Nat, p \in Nat] ==
        IF i > n THEN p
        ELSE IF sig[p] = Letter[type.param[i]] THEN walk[i + 1, p + 1]
        ELSE IF type.param[i] # "i32" \/ sig[p] \notin {"*", "$"} THEN 0
        ELSE IF sig[p] = "*" /\ i < n /\ type.param[i + 1] = "i32" /\ sig[p + 1] = "~"
             THEN walk[i + 2, p + 2]
        ELSE walk[i + 1, p + 1]
  IN  walk[1, 2]

CheckSymbolSignature(type, sig) ==
  /\ Len(sig) >= 2 /\ sig[1] = "("
  /\ Len(sig) - 1 >= Len(type.param) + 1
  /\ LET p == Parameters(type, sig)
         r == IF type.result = <<>> THEN 0 ELSE 1
     IN  /\ p # 0 /\ p <= Len(sig) /\ sig[p] = ")"
         /\ Len(sig) = p + r
         /\ r = 1 => sig[p + 1] = Letter[type.result[1]]

(* Mutant: the name is enough.                                             *)
ResolvesByName(s, nodes, name, type) == nodes # 0 /\ LookupSymbol(s, name) # 0

(* wasm_native_resolve_symbol, in a list of modules that share a table.    *)
Resolves(s, nodes, name, type) ==
  LET k == IF nodes = 0 THEN 0 ELSE LookupSymbol(s, name)
  IN  k # 0 /\ CheckSymbolSignature(type, s[k].sig)
=============================================================================
