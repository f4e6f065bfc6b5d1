------------------------------ MODULE MCWriter ------------------------------
(***************************************************************************)
(* Programs for CodeWriter: values of every type, with names and texts     *)
(* that end in each other; and functions that call each other with all     *)
(* kinds of arguments, more than eight of them.                            *)
(***************************************************************************)
EXTENDS CodeWriter, TLC

X(name, type, value, const, users) ==
    [name |-> name, type |-> type, value |-> value, const |-> const, users |-> users,
     erasable |-> FALSE, keepdef |-> FALSE, parts |-> <<>>]
Erasable(v) == [v EXCEPT !.erasable = TRUE]
Literal(type, value, users) == Erasable(X(<<HASH>> \o IMMEDIATE, type, value, TRUE, users))
FunctionValue(name, number) == X(name, "function", number, TRUE, "any")

(* Names and texts that end in each other: uv_y and _y end a component of  *)
(* v; and components of v and of d end in the same character.              *)
textc == <<99>>
bc == <<98, 99>>
abc == <<97, 98, 99>>
textv == <<118>>
uvy == <<117, 118, 95, 121>>
endy == <<95, 121>>
textd == <<100>>

WordsPrograms ==
    { [ values |-> << X(abc, "float", 5, const, "any"),
                      Literal("float", 5, users),
                      X(bc, "float", 5, TRUE, "any"),
                      Literal("vector", <<5, 6, 6>>, users),
                      [X(textv, "vector", <<1, 2, 3>>, const, IF users = "none" THEN "parts" ELSE users)
                          EXCEPT !.keepdef = keep, !.erasable = keep],
                      X(uvy, "string", second, const, "any"),
                      Literal("string", first, users),
                      [X(textc, "float", 6, TRUE, "any") EXCEPT !.keepdef = keep],
                      X(<<102>>, "vfield", 1, TRUE, "any"),
                      Erasable(X(<<103>>, "entity", NoValue, FALSE, users)),
                      X(<<104>>, "void", NoValue, FALSE, "none") >>,
        fields |-> << [name |-> textd, type |-> "vector"], [name |-> endy, type |-> "float"] >>,
        functions |-> <<>> ] :
      const, keep \in BOOLEAN, users \in {"none", "calls", "any"},
      first \in {textc, bc, <<>>}, second \in {textc, abc} }
-----------------------------------------------------------------------------
(* A function's slots, as ir_function_allocate_locals gives them: what is  *)
(* locked, parameters first, in the area of locals; the rest behind it or, *)
(* with -Oglobal-temps (gt), in an area of its own.  A function with       *)
(* further arguments has an array: nothing of it overlaps.                 *)
Slot(type, at, locked) == [type |-> type, local |-> at, locked |-> locked]
TotalSize(types) == FoldLeft(LAMBDA n, type : n + SizeOf(type), 0, types)
Parameters(types) ==
    [p \in DOMAIN types |-> Slot(types[p], TotalSize(SubSeq(types, 1, p - 1)), TRUE)]
Fn(params, varargs, calls, gt) ==
    LET all  == params \o [p \in 1 .. varargs |-> "vector"]
        base == TotalSize(all)
        wide == IF Len(params) > 2 THEN 3 ELSE 0
        free == IF gt THEN 0 ELSE base + 3
        inner == IF varargs > 0 THEN Slot("float", base + 8, TRUE) ELSE Slot("float", free, FALSE)
    IN [params |-> params, varargs |-> varargs, calls |-> calls,
        locals |-> Append(Parameters(all), inner),
        temps |-> <<Slot("vector", base, TRUE), Slot("float", free + 1, FALSE)>>
                  \o (IF wide > 0 THEN <<Slot("vector", free + 2, FALSE)>> ELSE <<>>),
        allocated |-> base + (IF varargs > 0 THEN 9 ELSE IF gt THEN 3 ELSE 5 + wide),
        globaltemps |-> IF gt THEN 2 + wide ELSE 0,
        nooverlap |-> varargs > 0, builtin |-> 0, file |-> <<113>>]
Builtin(params, number) ==
    [params |-> params, varargs |-> 0, locals |-> <<>>, temps |-> <<>>, allocated |-> 0,
     globaltemps |-> 0, nooverlap |-> FALSE, builtin |-> number, file |-> <<113>>, calls |-> <<>>]

(* Arguments: a literal, a constant, a global, a local, a temporary.       *)
Arg(place, index, type) == [place |-> place, index |-> index, type |-> type]
Sources(type) ==
    IF type = "vector" THEN <<Arg("value", 1, type), Arg("value", 3, type), Arg("parm", 0, type),
                              Arg("local", 1, type)>>
    ELSE <<Arg("value", 2, type), Arg("local", 2, type), Arg("parm", 0, type)>>
Args(types, turn) ==
    [p \in DOMAIN types |-> LET from == Sources(types[p])
                            IN from[((p + turn) % Len(from)) + 1]]
Call(callee, types, turn) == [callee |-> callee, args |-> Args(types, turn)]

F == "float"
V == "vector"
Short == <<V, F>>
Long == <<V, F, F, V, F, F, F, F, V, F>>
CallsPrograms(noparams) ==
    { LET more == IF noparams THEN <<>> ELSE <<V, F>>
          longer == more \o <<F, V>> \o (IF extra THEN <<F, F, F, F, F, V>> ELSE <<>>)
      IN [ values |-> << Literal(V, <<5, 6, 6>>, "calls"), Literal(F, 5, "any"),
                         X(<<118>>, V, <<1, 2, 3>>, FALSE, "any"),
                         FunctionValue(<<112>>, 1), Erasable(X(<<101>>, "function", 2, TRUE, "none")),
                         FunctionValue(<<102>>, 3), FunctionValue(<<103>>, 4),
                         FunctionValue(<<104>>, 5) >>,
           fields |-> <<>>,
           gt |-> gt,
           functions |-> << Builtin(Short, 3),
                            Fn(<<V, V, V, V, V, V>>, 0, <<>>, gt),
                            Fn(types, 0, <<Call(6, types, turn)>>, gt),
                            Fn(more, Len(longer) - Len(more), <<>>, gt),
                            Fn(Short, 0, <<Call(4, Short, turn), Call(6, types, turn + 1),
                                           Call(7, longer, turn), Call(8, Short, turn + 1)>>, gt) >> ] :
      types \in {Append(Short, F), Long}, turn \in 0 .. 11, extra, gt \in BOOLEAN }
-----------------------------------------------------------------------------
WordFlags == SUBSET {"overlap_strings", "strip_constant_names", "split_vector_parameters",
                     "single_vector_defs", "gmqcc"}
(* -Oglobal-temps moves slots, so a program with functions is for it or    *)
(* for the other case.                                                     *)
CallFlags(gt) == {fs \in SUBSET {"split_vector_parameters", "overlap_locals", "global_temps"} :
                     gt = ("global_temps" \in fs)}
Compile(p, fs) == [program |-> p, flags |-> fs]
CallsCompilations(noparams) ==
    UNION {{Compile(p, fs) : fs \in CallFlags(p.gt)} : p \in CallsPrograms(noparams)}
MCCompilations == {Compile(p, fs) : p \in WordsPrograms, fs \in WordFlags}
                  \cup CallsCompilations(FALSE)
MCVariadic == CallsCompilations(TRUE)
=============================================================================
