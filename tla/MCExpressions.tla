--------------------------- MODULE MCExpressions ---------------------------
(***************************************************************************)
(* Expressions: how they are parsed, what is made of them, and what the    *)
(* code of that does; and the operations that are emulated.  The two have  *)
(* no variable in common, `does` says which of them a behaviour is of.     *)
(*                                                                         *)
(* The program declares floats a, b, c and x, vectors v and w, a string,   *)
(* an entity and the world, fields, arrays and a function f.               *)
(***************************************************************************)
EXTENDS Shunting, ExprMeaning, Emulation

CONSTANT Groups    \* the groups of inputs below that are used

VARIABLE does

MCNames ==
    [n \in {"a", "b", "c", "x"} |-> Var("float", "", n)] @@ [n \in {"v", "w"} |-> Var("vector", "", n)]
    @@ [n \in {"e", "o"} |-> Var("entity", "", n)] @@ "s" :> Var("string", "", "s")
    @@ "h" :> Var("field", "float", "h") @@ "p" :> Var("field", "vector", "p")
    @@ "fa" :> Var("field", "array", "fa") @@ "arr" :> Var("array", "float", "arr")
    @@ [n \in {"f"} \cup Intrinsics |-> Var("function", "float", n)]
MCLiterals ==
    "0" :> Float(F(0)) @@ "1" :> Float(F(1)) @@ "2" :> Float(F(2)) @@ "3" :> Float(F(3)) @@ "half" :> Float(<<1, 2>>)
    @@ "'0 2 0'" :> Vector(<<F(0), F(2), F(0)>>) @@ "'1 2 4'" :> Vector(<<F(1), F(2), F(4)>>)
    @@ "'0 0 0'" :> Vector(Zero3) @@ "\"s\"" :> Const("string", "s") @@ "\"t\"" :> Const("string", "t")
Two == {"pow", "mod", "lshift", "rshift"}
MCParams == [n \in {"f"} \cup Intrinsics |-> IF n \in Two THEN FF ELSE IF n \in {"nan", "inf", "epsilon"} THEN <<>>
                                             ELSE <<"float">>]
MCSizes == "arr" :> 3 @@ "fa" :> 2
MCReturns(name, args) == Add(args[1], F(1))
MCFieldTypes == [n \in {"h", "fa0", "fa1"} |-> "float"] @@ "p" :> "vector"
MCTables == "c" :> c_operators @@ "fte" :> CorrectTernary(fte_operators) @@ "qcc" :> qcc_operators

(* What the variables hold when the expression runs.                       *)
Vec(x, y, z) == <<F(x), F(y), F(z)>>
Valuation(a, b, c, v, w) ==
    VarAt("a") :> a @@ VarAt("b") :> b @@ VarAt("c") :> c @@ VarAt("x") :> F(5)
    @@ VarAt("v") :> v @@ VarAt("w") :> w @@ VarAt("s") :> "s" @@ VarAt("e") :> "e1" @@ VarAt("o") :> "world"
    @@ [at \in {VarAt(n) : n \in {"h", "p", "f"} \cup Intrinsics} |-> at[2]]
    @@ FieldAt("e1", "h") :> F(4) @@ FieldAt("e1", "p") :> Vec(1, 0, -2)
    @@ FieldAt("e1", "fa0") :> F(6) @@ FieldAt("e1", "fa1") :> F(7)
    @@ ElementAt("fa", 0) :> "fa0" @@ ElementAt("fa", 1) :> "fa1"
    @@ ElementAt("arr", 0) :> F(8) @@ ElementAt("arr", 1) :> F(9) @@ ElementAt("arr", 2) :> F(10)
Valuations == {Valuation(F(0), F(2), F(-1), Vec(0, 3, 0), Vec(2, 1, 5)),
               Valuation(F(2), F(1), F(3), Vec(6, 5, 3), Vec(0, 0, 0))}
-----------------------------------------------------------------------------
OperandTexts == DOMAIN MCNames \cup DOMAIN MCLiterals \cup {"y", "z"}
Kind(text) == IF text \in OperandTexts THEN "operand"
              ELSE IF text \in {")", "]"} THEN "close" ELSE IF text = ";" THEN "end" ELSE "op"
Toks(texts) == [k \in DOMAIN texts |-> [kind |-> Kind(texts[k]), text |-> texts[k]]]

(* One infix operator of every precedence and associativity.               *)
Levels == "c" :> {"**", "*", "+", "<<", "<", "==", "&", "^", "|", "&&", "||", "=", ","}
          @@ "fte" :> {"*", "&", "+", "<<", "<", "=", "&&", ","} @@ "qcc" :> {"*", "+", "==", "=", "||", ","}
Signs == "c" :> {"-", "!", "++"} @@ "fte" :> {"-", "++"} @@ "qcc" :> {"-", "!"}

Pairs(t) ==
    UNION {{<<"a", o, "b", q, "c">>, <<"a", o, "(", "b", q, "c", ")">>, <<"f", "(", "b", q, "c", ")", o, "a">>} :
           o \in Levels[t], q \in Levels[t]}
Signed(t) == {<<"a", o, p1, "b", q, "c">> : o \in Levels[t] \ {","}, q \in Levels[t], p1 \in Signs[t]}
Ternaries(t) ==
    UNION {{<<"a", o, "b", "?", "c", ":", "x", q, "a">>, <<"a", "?", "b", o, "c", ":", "a", q, "x">>,
            <<"a", o, "b", "?", "c", "?", "a", ":", "x", ":", "c", q, "a">>} : o \in Levels[t], q \in Levels[t]}

(* Every sequence of a few tokens.                                         *)
UpTo(n, alphabet) == UNION {[1 .. k -> alphabet] : k \in 1 .. n}

Infix == {o.text : o \in {o \in c_operators \cup fte_operators : o.flag = "infix"}} \ {"(", "[", ".", "?", ":", ","}
Things == {"a", "b", "v", "w", "s", "e", "f", "2", "0", "'1 2 4'", "'0 2 0'", "\"s\""}
Binaries == {<<x, o, y>> : x \in Things, o \in Infix, y \in Things}
Places == {<<"a">>, <<"v">>, <<"v", ".", "y">>, <<"e", ".", "h">>, <<"e", ".", "p">>, <<"e", ".", "p", ".", "x">>,
           <<"arr", "[", "1", "]">>, <<"arr", "[", "b", "]">>, <<"e", ".", "fa", "[", "1", "]">>, <<"(", "a", "=", "b", ")">>}
Assignments == {p1 \o <<o, x>> : p1 \in Places, o \in {o \in Infix : o \in Assigning}, x \in {"c", "w", "3", "'1 2 4'"}}
Changed == {p1 \o <<o>> : p1 \in Places, o \in {"++", "--"}} \cup {<<o>> \o p1 : p1 \in Places, o \in {"++", "--"}}
Unaries == {<<o, x>> : o \in {"+", "-", "!", "~", "_length"}, x \in Things \cup {"arr", "o"}}

(* What a node is used twice for, is optimized, or may not run.            *)
CallOfF(x) == <<"f", "(", x, ")">>
Conditions == {"a", "c", "e", "o", "s", "f", "2", "0"}
Conditional ==
    UNION {{<<x>> \o <<"?">> \o CallOfF("a") \o <<":">> \o CallOfF("b"), <<x, "&&">> \o CallOfF("a"),
            <<x, "||">> \o CallOfF("a") \o <<"&&", "v">>} : x \in Conditions}
    \cup {<<x, o, y, "||", "c">> : x \in {"v", "a", "'0 2 0'"}, o \in {"&&", "||"}, y \in {"v", "w", "b"}}
Twice == {CallOfF("a") \o <<"<=>">> \o CallOfF("b"), CallOfF("a") \o <<"+", "arr", "[">> \o CallOfF("0") \o <<"]">>,
          <<"arr", "[">> \o CallOfF("0") \o <<"]", "+=">> \o CallOfF("b"),
          <<"arr", "[">> \o CallOfF("0") \o <<"]", "=">> \o CallOfF("b"),
          <<"(", "a", "=", "3", ")", "*=", "b">>, <<"a", "=", "b", "=", "c">>, <<"e", ".", "h", "=", "arr", "[", "2", "]", "=", "b">>,
          <<"v", ".", "y", "=", "v", "*", "'0 2 0'">>, <<"a", "-", "(", "-", "b", ")">>, <<"v", "-", "-", "w">>,
          <<"v", "*", "b", "-", "w", "/", "2">>, <<"v", "/", "c">>, <<"v", "><", "w", "*", "a">>,
          <<"(", "v", "+", "w", ")", ".", "x">>, <<"v", ".", "(", "x", ")">>, <<"(", "a", ",", "b", ")", "+", "c">>,
          <<"\"s\"", "\"t\"", "==", "s">>, <<"a", "++", "-", "c", "--">>, <<"_length", "\"s\"", "\"t\"">>}
Library1 == {<<n, "(", x, ")">> : n \in {"isnan", "isinf", "isfinite", "isnormal", "signbit", "fabs", "exp2"}, x \in {"a", "b", "c", "3"}}
            \cup {<<n, "(", x, ",", y, ")">> : n \in Two, x \in {"a", "b", "3"}, y \in {"b", "c", "2"}}

(* A vector decides.                                                       *)
VectorChoices == {<<x, "?", "a", ":", "b">> : x \in {"v", "'0 2 0'"}}

Input(t, toks, stop) == [table |-> t, toks |-> Toks(Append(toks, ";")), stopatcomma |-> stop]
InGroup(g) ==
    CASE g = "levels" -> UNION {{Input(t, toks, FALSE) : toks \in Pairs(t) \cup Signed(t)} : t \in DOMAIN MCTables}
      [] g = "ternaries" -> UNION {{Input(t, toks, FALSE) : toks \in Ternaries(t)} : t \in {"c", "fte"}}
      [] g = "calls" -> {Input("c", toks, FALSE) : toks \in UpTo(5, {"a", "f", "(", ")", ","})}
      [] g = "declared" -> {Input(t, toks, TRUE) : t \in {"c", "fte"}, toks \in UpTo(5, {"a", "?", ":", ","})}
      [] g = "places" -> {Input("c", toks, FALSE) : toks \in UpTo(4, {"arr", "[", "]", "v", ".", "x", "++"})}
      [] g = "values" -> {Input("c", toks, FALSE) : toks \in Binaries \cup Unaries \cup Conditional \cup Twice \cup Library1}
                         \cup {Input(t, toks, FALSE) : t \in {"c", "fte"}, toks \in Assignments \cup Changed}
      [] g = "vectors" -> {Input("c", toks, FALSE) : toks \in VectorChoices}
MCInputs == UNION {InGroup(g) : g \in Groups}

MCMemories == {<<3, 5, 6, 6, 5, 3, 1, 2, 4>>, <<1, 0, 0, 6, 5, 3, 7, 7, 7>>, <<2, 7, -1, 0, 0, 0, 4, 3, 1>>}
-----------------------------------------------------------------------------
Init == \/ /\ does = "parse"
           /\ ParseInit
           /\ EmulationStart([op |-> "BITXOR", r |-> 1, a |-> 4, b |-> 5, joined |-> FALSE], <<0, 0, 0, 0, 0, 0, 0, 0, 0>>)
        \/ /\ does = "emulate"
           /\ ParseStart(Input("c", <<"a">>, FALSE))
           /\ EmulationInit

Next == \/ does = "parse" /\ ParseNext /\ UNCHANGED <<emulationVars, does>>
        \/ does = "emulate" /\ EmulationNext /\ UNCHANGED <<parseVars, does>>

Spec == Init /\ [][Next]_<<parseVars, emulationVars, does>> /\ WF_parseVars(does = "parse" /\ ParseNext /\ UNCHANGED <<emulationVars, does>>)
-----------------------------------------------------------------------------
Accepted == does = "parse" /\ stage = "accepted"
Consumed == [k \in 1 .. pos - 1 |-> input.toks[k].text]

(* A prefix operator behind a tighter one that still lacks its operand is  *)
(* applied to what is there: the parser takes `a = ++ - b` for ++a = -b.   *)
Misplaced(table, texts) ==
    \E k \in 2 .. Len(texts) : \E o \in table, q \in table :
        /\ o.text = texts[k] /\ o.flag = "prefix" /\ o.id # "("
        /\ q.text = texts[k - 1] /\ q.text \notin {"(", "[", "?", ":"} /\ q.flag # "suffix" /\ GoesLeft(q, o)

(* An accepted expression is the tokens that were read, in their order,    *)
(* each operator with the operands its precedence gives it.                *)
ParsedAsWritten ==
    Accepted /\ ~Misplaced(Tables[input.table], Consumed) =>
        /\ Yield(Tables[input.table], out[1].src) = Consumed
        /\ Proper(Tables[input.table], out[1].src)

(* An internal error is reported only where an argument is missing behind  *)
(* a comma.                                                                *)
NoInternalError ==
    does = "parse" /\ stage = "internal" =>
        \E k \in 1 .. Len(input.toks) - 1 : input.toks[k].text = "," /\ input.toks[k + 1].text = ")"

(* What an accepted expression computes, stores and calls is what it says. *)
(* An array as a whole has no value.                                       *)
ValueAsWritten ==
    Accepted /\ Generated(out[1].node) /\ out[1].node.type # "array" /\ Clear(out[1].src) =>
        \A mem \in Valuations :
            LET says == Mean(out[1].src, Start(mem))
                does1 == Code(out[1].node, Machine(mem), FALSE)
            IN says.s.undefined \/ /\ Read(does1.m, does1.r) = says.val.v
                                   /\ does1.m.mem = says.s.mem /\ does1.m.calls = says.s.calls

(* The parser comes to an end with every sequence of tokens.               *)
EveryParseEnds == (does = "parse") ~> (stage \in Final)
=============================================================================
