---------------------------- MODULE ExprMeaning ----------------------------
(***************************************************************************)
(* What an expression says, without stacks, nodes or instructions: which   *)
(* tree the precedences give its tokens, and what that tree means.  Trees  *)
(* are Shunting's [op, args]; "()" is an expression in parentheses.        *)
(***************************************************************************)
EXTENDS ExprCode, Operators

CONSTANT FieldTypes   \* field -> the type of what it holds

EntryOf(table, id) == CHOOSE o \in table : o.id = IF id = "call" THEN "(" ELSE id
Operator(table, tree) == /\ tree.op \notin {"()", "concatenate"} /\ tree.args # <<>>

(* The tokens of a tree.                                                   *)
RECURSIVE Join(_)
Join(args) == IF Len(args) = 1 THEN args[1] ELSE args[1] \o <<",">> \o Join(Tail(args))
RECURSIVE Yield(_, _)
Yield(table, tree) ==
    LET y == [k \in DOMAIN tree.args |-> Yield(table, tree.args[k])]
        o == EntryOf(table, tree.op)
    IN CASE y = <<>> -> <<tree.op>>
         [] tree.op = "()" -> <<"(">> \o y[1] \o <<")">>
         [] tree.op = "concatenate" -> y[1] \o y[2]
         [] tree.op = "call" -> y[1] \o <<"(">> \o (IF Len(y) = 1 THEN <<>> ELSE Join(Tail(y))) \o <<")">>
         [] tree.op = "[" -> y[1] \o <<"[">> \o y[2] \o <<"]">>
         [] tree.op = "?:" -> y[1] \o <<"?">> \o y[2] \o <<":">> \o y[3]
         [] OTHER -> IF o.flag = "prefix" THEN <<o.text>> \o y[1]
                     ELSE IF o.flag = "suffix" THEN y[1] \o <<o.text>>
                     ELSE y[1] \o <<o.text>> \o y[2]

(* The operators that are open to the right and to the left: they compete  *)
(* with what comes next, or came before, for an operand.  The ternary      *)
(* competes with its colon.                                                *)
OpenRight(table, tree) == /\ Operator(table, tree) /\ tree.op \notin {"call", "["}
                          /\ EntryOf(table, tree.op).flag \in {"prefix", "infix"}
OpenLeft(table, tree) == Operator(table, tree) /\ EntryOf(table, tree.op).flag # "prefix"
LastOf(tree) == tree.args[Len(tree.args)]
Closers(table, tree) == IF tree.op = "?:" THEN {EntryOf(table, ":?")} ELSE {EntryOf(table, tree.op)}

RECURSIVE RightSpine(_, _)
RightSpine(table, tree) ==
    IF ~Operator(table, tree) THEN {}
    ELSE {EntryOf(table, tree.op)} \cup
         (IF OpenRight(table, tree) THEN Closers(table, tree) \cup RightSpine(table, LastOf(tree)) ELSE {})
RECURSIVE LeftSpine(_, _)
LeftSpine(table, tree) ==
    IF ~OpenLeft(table, tree) THEN {}
    ELSE {EntryOf(table, tree.op)} \cup LeftSpine(table, tree.args[1])

(* Who gets the operand between two operators.                             *)
GoesLeft(left, right) == \/ left.prec > right.prec
                         \/ left.prec = right.prec /\ right.assoc = "left"
Binds(table, left, o) == \A p \in RightSpine(table, left) : GoesLeft(p, o)
Yields(table, right, o) == \A q \in LeftSpine(table, right) : ~GoesLeft(o, q)

ProperArguments(table, args) ==
    \A k \in DOMAIN args : /\ args[k].op # ","
                           /\ k < Len(args) => Binds(table, args[k], EntryOf(table, ","))
                           /\ k > 1 => Yields(table, args[k], EntryOf(table, ","))

(* Every operator has the operands its precedence and associativity give   *)
(* it.                                                                     *)
RECURSIVE Proper(_, _)
Proper(table, tree) ==
    /\ \A k \in DOMAIN tree.args : Proper(table, tree.args[k])
    /\ OpenLeft(table, tree) => Binds(table, tree.args[1], EntryOf(table, tree.op))
    /\ OpenRight(table, tree) => \A o \in Closers(table, tree) : Yields(table, LastOf(tree), o)
    /\ tree.op = "call" => ProperArguments(table, Tail(tree.args))
-----------------------------------------------------------------------------
(* Typed values; a state is the memory, the calls that were made, and      *)
(* whether something was computed that has no value.                       *)
T(t, v) == [t |-> t, v |-> v]
Result(val, s) == [val |-> val, s |-> s]
Start(mem) == [mem |-> mem, calls |-> <<>>, undefined |-> FALSE]

Holds(x) == CASE x.t = "float" -> NonZero(x.v)
              [] x.t = "vector" -> \E k \in 1 .. 3 : NonZero(x.v[k])
              [] x.t = "entity" -> x.v # "world"
              [] OTHER -> TRUE

(* A float with a vector is a vector of it.                                *)
Wide(x) == IF x.t = "vector" THEN x.v ELSE <<x.v, x.v, x.v>>
Lifted(Op(_, _), x, y) ==
    IF x.t = "float" /\ y.t = "float" THEN T("float", Op(x.v, y.v))
    ELSE T("vector", [k \in 1 .. 3 |-> Op(Wide(x)[k], Wide(y)[k])])
Dot(x, y) == Add(Mul(x[1], y[1]), Add(Mul(x[2], y[2]), Mul(x[3], y[3])))
Normal(x, y) == <<Sub(Mul(x[2], y[3]), Mul(x[3], y[2])), Sub(Mul(x[3], y[1]), Mul(x[1], y[3])),
                  Sub(Mul(x[1], y[2]), Mul(x[2], y[1]))>>
Sign(x, y) == IF Less(x, y) THEN F(-1) ELSE IF x = y THEN F(0) ELSE F(1)
Truncate(x) == F(ToInt(x))

(* Of two floats.                                                          *)
Scalar(id, x, y) ==
    CASE id = "%" -> Sub(x, Mul(y, Truncate(Div(x, y)))) [] id = "**" -> Pow(x, y)
      [] id = "<<" -> Floor(Mul(x, Pow(F(2), y))) [] id = ">>" -> Floor(Div(x, Pow(F(2), y)))
      [] id = "<" -> Truth(Less(x, y)) [] id = ">" -> Truth(Less(y, x))
      [] id = "<=" -> Truth(~Less(y, x)) [] id = ">=" -> Truth(~Less(x, y))
      [] id = "<=>" -> Sign(x, y)

Dyadic(id, x, y) ==
    CASE id = "+" -> Lifted(Add, x, y) [] id = "-" -> Lifted(Sub, x, y) [] id = "/" -> Lifted(Div, x, y)
      [] id = "*" -> IF x.t = "vector" /\ y.t = "vector" THEN T("float", Dot(x.v, y.v)) ELSE Lifted(Mul, x, y)
      [] id = "&" -> Lifted(BitAnd, x, y) [] id = "|" -> Lifted(BitOr, x, y) [] id = "^" -> Lifted(BitXor, x, y)
      [] id = "><" -> T("vector", Normal(x.v, y.v)) [] id = "concatenate" -> T("string", x.v \o y.v)
      [] id = "==" -> T("float", Truth(x.v = y.v)) [] id = "!=" -> T("float", Truth(x.v # y.v))
      [] OTHER -> T("float", Scalar(id, x.v, y.v))

(* A zero divisor, a root of a negative number or one that is no fraction. *)
Undefined(id, x, y) ==
    \/ id \in {"/", "%"} /\ ~NonZero(y.v)
    \/ id = "**" /\ (Less(x.v, F(0)) \/ (~NonZero(x.v) /\ Less(y.v, F(0))))
    \/ id \in {"**", "<<", ">>"} /\ IsNaN(Scalar(id, x.v, y.v))

Monadic(id, x) ==
    CASE id = "+P" -> x [] id = "-P" -> Dyadic("-", T("float", F(0)), x)
      [] id = "!P" -> T("float", Truth(~Holds(x))) [] id = "~P" -> Dyadic("-", T("float", F(-1)), x)

(* Assignments with the operator they apply first.                         *)
Applies == [id \in {"+=", "-=", "*=", "/=", "&=", "|=", "^=", "<<=", ">>=", "++P", "--P", "S++", "S--"} |->
    CASE id \in {"+=", "++P", "S++"} -> "+" [] id \in {"-=", "--P", "S--"} -> "-"
      [] id = "*=" -> "*" [] id = "/=" -> "/" [] id = "&=" -> "&" [] id = "|=" -> "|" [] id = "^=" -> "^"
      [] id = "<<=" -> "<<" [] id = ">>=" -> ">>"]
Assigning == DOMAIN Applies \cup {"=", "&~="}
Updated(id, old, x) == CASE id = "=" -> x [] id = "&~=" -> Dyadic("-", old, Dyadic("&", old, x))
                         [] OTHER -> Dyadic(Applies[id], old, x)

(* The functions of the library, by what they are for.                     *)
OperatorOf == [pow |-> "**", mod |-> "%", lshift |-> "<<", rshift |-> ">>"]
Library(name, x) ==
    CASE name = "isnan" -> Truth(IsNaN(x)) [] name = "isinf" -> Truth(IsInf(x))
      [] name \in {"isfinite", "isnormal"} -> Truth(x[2] # 0)
      [] name = "signbit" -> Truth(Less(x, F(0)))
      [] name = "fabs" -> IF Less(x, F(0)) THEN Neg(x) ELSE x
      [] name = "exp2" -> Pow(F(2), x)
Combine(id, r) ==
    Result(Dyadic(id, r.val[1], r.val[2]), [r.s EXCEPT !.undefined = @ \/ Undefined(id, r.val[1], r.val[2])])
Values1(r) == [k \in DOMAIN r.val |-> r.val[k].v]
Invoke(name, r) ==
    IF name \in DOMAIN OperatorOf THEN Combine(OperatorOf[name], r)
    ELSE IF name \in Intrinsics THEN Result(T("float", Library(name, r.val[1].v)), r.s)
    ELSE Result(T(Names[name].next, Returns(name, Values1(r))), [r.s EXCEPT !.calls = Append(@, <<name, Values1(r)>>)])

(* Where something is that can be assigned to.                             *)
At(at, t, s) == [at |-> at, t |-> t, part |-> 0, s |-> s]
Get(l) == LET whole == l.s.mem[l.at] IN T(l.t, IF l.part = 0 THEN whole ELSE whole[l.part])
Put(l, x, s) == Result(x, [s EXCEPT !.mem[l.at] = IF l.part = 0 THEN x.v ELSE [@ EXCEPT ![l.part] = x.v]])

RECURSIVE Mean(_, _)
RECURSIVE Where(_, _)
MeanAll(args, s) ==
    FoldLeft(LAMBDA all, t : LET r == Mean(t, all.s) IN Result(Append(all.val, r.val), r.s), Result(<<>>, s), args)

Axis(name) == CHOOSE k \in 1 .. 3 : <<"x", "y", "z">>[k] = name
OfVector(tree, s) == tree.args[2].op \in {"x", "y", "z"} /\ Mean(tree.args[1], s).val.t = "vector"
FieldOf(r) == At(FieldAt(r.val[1].v, r.val[2].v), FieldTypes[r.val[2].v], r.s)
ElementOf(array, i) ==
    IF ToInt(i.val.v) \in 0 .. Sizes[array] - 1 THEN At(ElementAt(array, ToInt(i.val.v)), Names[array].next, i.s)
    ELSE At(ElementAt(array, 0), Names[array].next, [i.s EXCEPT !.undefined = TRUE])
InField(e, i) == FieldOf(Result(<<e.val, Get(i)>>, i.s))

(* "ent.foo[n] is the same as (ent.foo)[n]": the field is foo's element.   *)
Where(tree, s) ==
    CASE tree.op = "()" -> Where(tree.args[1], s)
      [] tree.op = "." -> IF OfVector(tree, s) THEN [Where(tree.args[1], s) EXCEPT !.part = Axis(tree.args[2].op), !.t = "float"]
                          ELSE FieldOf(MeanAll(tree.args, s))
      [] tree.op = "[" -> IF tree.args[1].op = "."
                          THEN LET e == Mean(tree.args[1].args[1], s)
                               IN InField(e, ElementOf(tree.args[1].args[2].op, Mean(tree.args[2], e.s)))
                          ELSE ElementOf(tree.args[1].op, Mean(tree.args[2], s))
      [] tree.op \in Assigning -> LET r == Mean(tree, s) IN [Where(tree.args[1], s) EXCEPT !.s = r.s]
      [] OTHER -> At(VarAt(tree.op), Names[tree.op].type, s)

MeanLeaf(name, s) == IF name \in DOMAIN Literals THEN T(Literals[name].type, Literals[name].val)
                     ELSE Get(At(VarAt(name), Names[name].type, s))
Steps1 == T("float", F(1))
Source(tree, s) == IF tree.op \in Steps THEN Result(Steps1, s) ELSE Mean(tree.args[2], s)
MeanAssign(tree, l, x) ==
    LET new == Updated(tree.op, Get(l), x.val)
        put == Put(l, new, [x.s EXCEPT !.undefined = @ \/ (tree.op = "/=" /\ ~NonZero(x.val.v))])
    IN IF tree.op \in {"S++", "S--"} THEN Result(Get(l), put.s) ELSE put
MeanDot(tree, s) == IF OfVector(tree, s)
                    THEN LET r == Mean(tree.args[1], s) IN Result(T("float", r.val.v[Axis(tree.args[2].op)]), r.s)
                    ELSE LET l == Where(tree, s) IN Result(Get(l), l.s)
MeanLogic(tree, x) ==
    IF Holds(x.val) = (tree.op = "&&") THEN LET y == Mean(tree.args[2], x.s) IN Result(T("float", Truth(Holds(y.val))), y.s)
                                       ELSE Result(T("float", Truth(Holds(x.val))), x.s)
MeanTernary(tree, c) == Mean(tree.args[IF Holds(c.val) THEN 2 ELSE 3], c.s)
MeanLength(a, s) == T("float", F(IF a.op \in DOMAIN Sizes THEN Sizes[a.op] ELSE Len(Mean(a, s).val.v)))

Mean(tree, s) ==
    CASE tree.args = <<>> -> Result(MeanLeaf(tree.op, s), s)
      [] tree.op = "()" -> Mean(tree.args[1], s)
      [] tree.op = "," -> Mean(tree.args[2], Mean(tree.args[1], s).s)
      [] tree.op = "?:" -> MeanTernary(tree, Mean(tree.args[1], s))
      [] tree.op \in {"&&", "||"} -> MeanLogic(tree, Mean(tree.args[1], s))
      [] tree.op \in Assigning -> LET l == Where(tree.args[1], s) IN MeanAssign(tree, l, Source(tree, l.s))
      [] tree.op = "." -> MeanDot(tree, s)
      [] tree.op = "[" -> LET l == Where(tree, s) IN Result(Get(l), l.s)
      [] tree.op = "len" -> Result(MeanLength(tree.args[1], s), s)
      [] tree.op = "call" -> Invoke(tree.args[1].op, MeanAll(Tail(tree.args), s))
      [] tree.op \in PrefixOps -> LET x == Mean(tree.args[1], s) IN Result(Monadic(tree.op, x.val), x.s)
      [] OTHER -> Combine(tree.op, MeanAll(tree.args, s))
-----------------------------------------------------------------------------
(* An expression that uses what another operand of the same operator       *)
(* changes has no one meaning; only commas, the logical operators and the  *)
(* ternary order their operands.                                           *)
RECURSIVE Mentions(_)
Mentions(tree) == IF tree.args = <<>> THEN {tree.op} ELSE UNION {Mentions(tree.args[k]) : k \in DOMAIN tree.args}
RECURSIVE Changes(_)
Changes(tree) == (IF tree.op \in Assigning THEN Mentions(tree.args[1]) ELSE {})
                 \cup UNION {Changes(tree.args[k]) : k \in DOMAIN tree.args}
Ordered(tree) == \/ tree.op \in {",", "&&", "||", "?:"}
                 \/ tree.op = "=" /\ tree.args[1].args = <<>>
RECURSIVE Clear(_)
Clear(tree) ==
    /\ \A k \in DOMAIN tree.args : Clear(tree.args[k])
    /\ ~Ordered(tree) => \A j, k \in DOMAIN tree.args :
            j # k => Changes(tree.args[j]) \cap Mentions(tree.args[k]) = {}
=============================================================================
