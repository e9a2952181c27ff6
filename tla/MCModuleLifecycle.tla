-------------------------- MODULE MCModuleLifecycle --------------------------
(* Constants and properties of ModuleLifecycle for TLC: the files.         *)
EXTENDS LifecycleProperties, TLC

MCFuncTypes == ("v" :> [param |-> <<>>, result |-> <<>>])
            @@ ("w" :> [param |-> <<>>, result |-> <<>>])
            @@ ("i" :> [param |-> <<"i32", "i32">>, result |-> <<"i32">>])

\* Three native functions, in no order.
MCSymbols == << [name |-> 3, sig |-> <<"(", ")">>],
                [name |-> 1, sig |-> <<"(", "*", "~", ")", "i">>],
                [name |-> 2, sig |-> <<"(", "i", ")">>] >>

S(id, items) == [id |-> id, flaw |-> "none", items |-> items]
Import(kind, name, type) == [kind |-> kind, name |-> name, type |-> type]
Export(name, kind, index) == [name |-> name, kind |-> kind, index |-> index]
Body(verdict, locals) == [verdict |-> verdict, locals |-> locals, branches |-> locals > 0]
Element(table, global, funcs, fits) ==
  [table |-> table, global |-> global, funcs |-> funcs, fits |-> fits]
Segment(global, fits) == [global |-> global, fits |-> fits]
Ok(sections) == [header |-> "ok", sections |-> sections]

Types == S("type", <<"v", "i", "w">>)
ImportLists ==
  { <<>>,
    <<Import("func", 3, 0)>>,
    <<Import("func", 1, 1), Import("global", 0, 0), Import("func", 3, 2)>>,
    <<Import("func", 2, 0)>>,                            \* another signature
    <<Import("func", 3, 7)>>,                            \* no such type
    <<Import("table", 0, 0), Import("global", 0, 0)>>,
    <<Import("memory", 0, 1), Import("bad", 0, 0)>> }
CodeLists ==
  { <<Body("valid", 1)>>,
    <<Body("valid", 0), Body("valid", 1)>>,
    <<Body("valid", 1), Body("invalid", 1), Body("valid", 0)>>,
    <<Body("invalid", 1), Body("invalid", 0)>> }
Rests ==
  { <<>>,
    <<S("export", <<Export("main", "func", 0)>>)>>,
    <<S("export", <<Export("_start", "func", 1), Export("main", "global", 0)>>)>>,
    <<S("export", <<Export("main", "func", 0), Export("main", "func", 1)>>)>> }

\* A whole file: type, import, function, table, memory, global, export,
\* start, element, code, data.
Full(imports, bodies, mem) ==
  << Types, S("import", imports),
     S("func", [i \in DOMAIN bodies |-> IF i = 1 THEN 0 ELSE i - 1]),
     S("table", <<1, 1>>), S("memory", <<mem>>), S("global", <<0, IF imports = <<>> THEN 0 ELSE 1>>),
     S("export", <<Export("other", "func", 0), Export("main", "func", Len(imports))>>),
     S("start", <<0>>),
     S("element", <<Element(0, 0, 0, TRUE), Element(1, 0, 2, TRUE)>>),
     S("code", bodies), S("data", <<Segment(0, TRUE)>>) >>

Combined ==
  {Ok(<<Types, S("import", i), S("func", [k \in DOMAIN b |-> k % 3])>> \o r \o <<S("code", b)>>) :
     i \in ImportLists, b \in CodeLists, r \in Rests}

Whole == Full(<<Import("func", 3, 0), Import("global", 0, 0)>>, <<Body("valid", 0), Body("valid", 1)>>, 1)

\* One section dropped, given twice, put in front, or flawed.
Disturbed ==
  {Ok(Whole)}
  \cup {Ok(SubSeq(Whole, 1, i - 1) \o SubSeq(Whole, i + 1, Len(Whole))) : i \in DOMAIN Whole}
  \cup {Ok(SubSeq(Whole, 1, i) \o SubSeq(Whole, i, Len(Whole))) : i \in DOMAIN Whole}
  \cup {Ok(<<Whole[i]>> \o SubSeq(Whole, 1, i - 1) \o SubSeq(Whole, i + 1, Len(Whole))) : i \in DOMAIN Whole}
  \cup {Ok([Whole EXCEPT ![i].flaw = f]) : i \in DOMAIN Whole, f \in {"early", "late"}}
  \cup {[header |-> "bad", sections |-> Whole]}

\* Fewer functions in the last function section, a body in a section of its
\* own, memories too large, absent, or one too many, elements that do not fit.
Odd ==
  {Ok([Whole EXCEPT ![i] = s]) : i \in {8}, s \in {S("start", <<9>>), S("custom", <<>>)}}
  \cup {Ok([Whole EXCEPT ![5] = S("memory", pages)]) : pages \in {<<0>>, <<65536>>, <<1, 1>>}}
  \cup {Ok([Whole EXCEPT ![9] = S("element", <<Element(t, 0, 1, fits)>>)]) : t \in {1, 2}, fits \in BOOLEAN}
  \cup {Ok([Whole EXCEPT ![9] = S("element", <<Element(1, g, 1, TRUE)>>)]) : g \in {1, 3, 4}}
  \cup {Ok([Whole EXCEPT ![11] = S("data", <<Segment(g, TRUE)>>)]) : g \in {1, 2, 4}}
  \cup {Ok([Whole EXCEPT ![11] = S("data", <<Segment(0, FALSE)>>)])}
  \cup {Ok(SubSeq(Whole, 1, 4) \o <<S("table", <<1>>)>> \o SubSeq(Whole, 5, Len(Whole)))}
  \cup {Ok([Whole EXCEPT ![6] = S("global", <<2>>)])}
  \cup {Ok([Whole EXCEPT ![8] = S("func", <<0>>)])}
  \cup {Ok(Full(<<Import("func", 3, 0), Import("func", 1, 1), Import("func", 2, 0)>>, <<Body("valid", 1)>>, 1))}

\* The memory is an import.
Borrowing ==
  {Ok([Full(<<Import("func", 3, 0), Import("global", 0, 0), Import("memory", 0, pages)>>,
            <<Body("valid", 1)>>, 1) EXCEPT ![5] = S("memory", <<>>)]) : pages \in {0, 1, 65536}}

\* Two sections of a kind, slots that no import fills, and main by its other
\* names.
Memory == S("import", <<Import("memory", 0, 1)>>)
Native == S("import", <<Import("func", 3, 0)>>)
Program(types, name) ==
  Ok(types \o <<S("func", <<0, 1>>), S("export", <<Export("_main", "func", 0), Export(name, "func", 1)>>),
                S("code", <<Body("valid", 0), Body("valid", 0)>>)>>)
Doubled ==
  {Ok(<<Memory, Memory>>), Ok(<<S("type", <<"v">>), Memory, S("func", <<0>>), S("code", <<Body("valid", 0)>>)>>),
   Ok(<<S("type", <<"v">>), Native, Native, S("func", <<0>>), S("code", <<Body("valid", 0)>>)>>),
   Ok(<<S("global", <<0, 0>>), S("global", <<0>>)>>),
   Ok(<<S("import", <<Import("table", 0, 0), Import("global", 0, 0)>>), S("global", <<0, 1>>)>>)}
  \cup {Program(<<S("type", t), S("type", u)>>, name) :
          t, u \in {<<"v", "i">>, <<"i", "v">>}, name \in {"main", "__main_argc_argv"}}
  \cup {Ok(<<S("type", <<"v">>), S("func", <<0>>), S("type", <<"i">>),
             S("export", <<Export("_start", "func", 0)>>), S("code", <<Body("valid", 0)>>)>>)}

MCFiles == Combined \cup Disturbed \cup Odd \cup Borrowing \cup Doubled
=============================================================================
