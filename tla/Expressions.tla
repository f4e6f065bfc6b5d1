---------------------------- MODULE Expressions ----------------------------
(***************************************************************************)
(* What an operator makes of its operands: the switch of the parser's      *)
(* parser_sy_apply_operator, case by case, with the operands an identifier *)
(* or a literal stands for.  A type error, also one after which the parser *)
(* only goes on to find more of them, is BadNode.                          *)
(***************************************************************************)
EXTENDS Folding

CONSTANTS Names,    \* identifier -> its node, for everything declared
          Literals, \* literal -> its constant
          Params,   \* function -> the types of its parameters
          InitList  \* array -> how many values it was declared with

Ok(b, node) == IF b THEN node ELSE BadNode
Types(a, b) == <<a.type, b.type>>
FF == <<"float", "float">>
VV == <<"vector", "vector">>
VF == <<"vector", "float">>
FV == <<"float", "vector">>

(* What the fold leaves is computed.                                       *)
FoldOr(id, e, node) ==
    LET folded == fold_op(id, e[1], e[Len(e)], e[Len(e)], InitList) IN IF Got(folded) THEN folded ELSE node

(* Names of the components are one expression each, of no type.            *)
Component(name) == [Node("component", "noexpr", "", "", <<>>) EXCEPT !.val = name]
const_vec == [name \in {"x", "y", "z"} |-> Component(CHOOSE k \in 1 .. 3 : <<"x", "y", "z">>[k] = name)]

(* parse_sya_operand: after a dot, x, y and z are a vector's components.   *)
Operand(token, owner) ==
    CASE token \in DOMAIN Literals -> Literals[token]
      [] token \in DOMAIN const_vec /\ Got(owner) /\ owner.n # "bad" /\ Is(owner, "vector") -> const_vec[token]
      [] token \in DOMAIN Names -> Names[token]
      [] OTHER -> BadNode

MakeMember(a, b) ==
    IF Is(a, "vector") /\ b.n = "component" THEN ast_member(a, b.val, FALSE)
    ELSE Ok(Is(a, "entity") /\ Is(b, "field"), ast_entfield(a, b))

(* "ent.foo[n] is the same as (ent.foo)[n], so we need to rotate it to     *)
(* become ent.(foo[n])"                                                    *)
rotate_entfield_array_index_nodes(index) ==
    LET entfield == index.args[1] IN
    IF entfield.n = "entfield" /\ entfield.args[2].n = "var"
    THEN ast_entfield(entfield.args[1], ast_array_index(entfield.args[2], index.args[2]))
    ELSE index
MakeIndex(a, b) ==
    Ok((Is(a, "array") \/ (Is(a, "field") /\ a.next = "array")) /\ Is(b, "float"),
       rotate_entfield_array_index_nodes(ast_array_index(a, b)))

(* A block goes on with what comes after its comma.                        *)
MakeComma(x, b) == ast_block(IF x.block THEN Append(x.node.args, b) ELSE <<x.node, b>>, b)

MakeNot(a) ==
    CASE Is(a, "float") -> ast_unary("NOT_F", a)
      [] Is(a, "vector") -> ast_unary("NOT_V", a)
      [] Is(a, "string") -> ast_unary(IF TRUE_EMPTY_STRINGS THEN "NOT_F" ELSE "NOT_S", a)
      [] Is(a, "entity") -> ast_unary("NOT_ENT", a)
      [] Is(a, "function") -> ast_unary("NOT_FNC", a)
      [] OTHER -> BadNode

PrefixOps == {"+P", "-P", "!P", "~P", "len"}
MakePrefix(id, a) ==
    CASE id = "+P" -> a
      [] id = "-P" -> FoldOr(id, <<a>>, IF Is(a, "float") THEN ast_unary("NEG_F", a)
                                        ELSE Ok(Is(a, "vector"), ast_unary("NEG_V", a)))
      [] id = "!P" -> FoldOr(id, <<a>>, MakeNot(a))
      [] id = "~P" -> IF a.type \notin {"float", "vector"} THEN BadNode
                      ELSE FoldOr(id, <<a>>, IF Is(a, "float") THEN fold_binary("SUB_F", Float(F(-1)), a)
                                             ELSE fold_binary("SUB_V", Vector(vec3_neg(One3)), a))
      [] id = "len" -> Ok(Is(a, "array") \/ (Is(a, "string") /\ IsConst(a)), FoldOr(id, <<a>>, BadNode))

MakeSum(id, a, b) ==
    CASE Types(a, b) = FF -> FoldOr(id, <<a, b>>, fold_binary(IF id = "+" THEN "ADD_F" ELSE "SUB_F", a, b))
      [] Types(a, b) = VV -> FoldOr(id, <<a, b>>, fold_binary(IF id = "+" THEN "ADD_V" ELSE "SUB_V", a, b))
      [] OTHER -> BadNode

MakeProduct(a, b) ==
    CASE Types(a, b) = FF -> FoldOr("*", <<a, b>>, fold_binary("MUL_F", a, b))
      [] Types(a, b) = FV -> FoldOr("*", <<a, b>>, fold_binary("MUL_FV", a, b))
      [] Types(a, b) = VF -> FoldOr("*", <<a, b>>, fold_binary("MUL_VF", a, b))
      [] Types(a, b) = VV -> FoldOr("*", <<a, b>>, fold_binary("MUL_V", a, b))
      [] OTHER -> BadNode

MakeQuotient(a, b) ==
    IF ~Is(b, "float") THEN BadNode
    ELSE FoldOr("/", <<a, b>>, Ok(Is(a, "float"), fold_binary("DIV_F", a, b)))

Intrinsic(name) == Var("function", "float", name)
(* Operators of floats that are a call of an intrinsic where not folded.   *)
CallOf == [id \in {"%", "**", "<<", ">>", "<<=", ">>="} |->
              CASE id = "%" -> "mod" [] id = "**" -> "pow"
                [] id \in {"<<", "<<="} -> "lshift" [] id \in {">>", ">>="} -> "rshift"]
MakeCall(id, a, b) == FoldOr(id, <<a, b>>, ast_call(Intrinsic(CallOf[id]), <<a, b>>))

BitNames == [id \in {"&", "|", "^"} |-> CASE id = "&" -> "BITAND" [] id = "|" -> "BITOR" [] id = "^" -> "BITXOR"]
MakeBits(id, a, b) ==
    CASE Types(a, b) = FF -> FoldOr(id, <<a, b>>, fold_binary(BitNames[id], a, b))
      [] Types(a, b) = VV -> FoldOr(id, <<a, b>>, fold_binary(BitNames[id] \o "_V", a, b))
      [] Types(a, b) = VF -> FoldOr(id, <<a, b>>, fold_binary(BitNames[id] \o "_VF", a, b))
      [] OTHER -> BadNode

(* AND and OR look at a vector's first word only: -fcorrect-logic makes    *)
(* it a float first, with -fperl-logic only the first of two.              *)
Truthful(a) == IF CORRECT_LOGIC /\ Is(a, "vector") THEN ast_unary("NOT_F", ast_unary("NOT_V", a)) ELSE a
MakeLogic(id, a, b) ==
    LET left == Truthful(a)
        right == IF PERL_LOGIC /\ left # a THEN b ELSE Truthful(b)
    IN FoldOr(id, <<a, b>>, Ok(PERL_LOGIC => a.type = b.type,
                               fold_binary(IF id = "||" THEN "OR" ELSE "AND", left, right)))

MakeTernary(a, b, c) ==
    Ok(b.type = c.type /\ b.next = c.next,
       LET folded == op_tern(a, b, c) IN IF Got(folded) THEN folded ELSE ast_ternary(a, b, c))

(* -1, 0 or 1.  Either operand is one node of two comparisons.             *)
MakeThreeWay(a, b) ==
    FoldOr("<=>", <<a, b>>,
           ast_ternary(ast_binary("LT", a, b), Float(F(-1)),
                       ast_ternary(ast_binary("EQ_F", a, b), Float(F(0)), Float(F(1)))))

Orders == [id \in {"<", ">", "<=", ">="} |->
              CASE id = "<" -> "LT" [] id = ">" -> "GT" [] id = "<=" -> "LE" [] id = ">=" -> "GE"]
TypeInstr == [type \in {"float", "vector", "string", "entity", "function"} |->
                CASE type = "float" -> "_F" [] type = "vector" -> "_V" [] type = "string" -> "_S"
                  [] type = "entity" -> "_E" [] type = "function" -> "_FNC"]
MakeEquality(id, a, b) ==
    IF a.type # b.type \/ a.type \notin DOMAIN TypeInstr THEN BadNode
    ELSE FoldOr(id, <<a, b>>, fold_binary((IF id = "==" THEN "EQ" ELSE "NE") \o TypeInstr[a.type], a, b))
-----------------------------------------------------------------------------
(* check_write_to.                                                         *)
Writable(a) == ~IsConst(a)
MakeAssignment(a, b) == Ok(Writable(a) /\ a.type = b.type /\ a.next = b.next /\ a.type \in DOMAIN TypeInstr,
                           ast_store(a, b))

Step(id, a) == ast_binstore(IF id \in {"++P", "S++"} THEN "ADD_F" ELSE "SUB_F", a, Float(F(1)))
Steps == {"++P", "--P", "S++", "S--"}
MakeStep(id, a) ==
    Ok(Is(a, "float") /\ Writable(a),
       CASE id \in {"++P", "--P"} -> Step(id, a)
         [] id = "S++" -> fold_binary("SUB_F", Step(id, a), Float(F(1)))
         [] id = "S--" -> fold_binary("ADD_F", Step(id, a), Float(F(1))))

SumStores == {"+=", "-="}
ProductStores == {"*=", "/="}
BitStores == {"&=", "|=", "^="}
MakeSumStore(id, a, b) ==
    Ok(Writable(a) /\ Types(a, b) \in {FF, VV},
       ast_binstore((IF id = "+=" THEN "ADD" ELSE "SUB") \o TypeInstr[a.type], a, b))

MakeProductStore(id, a, b) ==
    Ok(Writable(a) /\ Types(a, b) \in {FF, VF},
       CASE Is(a, "float") -> ast_binstore(IF id = "*=" THEN "MUL_F" ELSE "DIV_F", a, b)
         [] Is(a, "vector") -> ast_binstore("MUL_VF", a,
                                   IF id = "*=" THEN b ELSE fold_binary("DIV_F", Float(F(1)), b)))

BitStoreNames == [id \in BitStores |-> CASE id = "&=" -> "BITAND" [] id = "|=" -> "BITOR" [] id = "^=" -> "BITXOR"]
MakeBitStore(id, a, b) ==
    Ok(Writable(a) /\ Types(a, b) \in {FF, VV},
       ast_binstore(BitStoreNames[id] \o (IF Is(a, "float") THEN "" ELSE "_V"), a, b))

(* "QC has no bitwise-not, so we implement it as a -= a & (b)"             *)
MakeClearStore(a, b) ==
    Ok(Writable(a) /\ Types(a, b) \in {FF, VV},
       ast_binstore("SUB" \o TypeInstr[a.type], a,
                    fold_binary(IF Is(a, "float") THEN "BITAND" ELSE "BITAND_V", a, b)))

(* What fold::op answers for <<= and >>= it has no case for: nothing.      *)
MakeShiftStore(id, a, b) == Ok(Types(a, b) = FF, ast_store(a, MakeCall(id, a, b)))

(* parser_close_call behind the checks of the argument count.              *)
MakeFunctionCall(f, args) ==
    Ok(Is(f, "function") /\ Params[f.val] = [k \in DOMAIN args |-> args[k].type], ast_call(f, args))

(* A string literal right behind another one.                              *)
MakeConcatenation(a, b) ==
    Ok(IsConst(a) /\ b.n = "const" /\ Is(a, "string") /\ Is(b, "string"), Const("string", a.val \o b.val))

(* "not an expression": only a dot's right side, and a ternary's branches, *)
(* may be of no type.                                                      *)
Untyped(id, nodes) == \E k \in DOMAIN nodes : /\ Is(nodes[k], "noexpr")
                                              /\ ~(id = "?:" /\ k > 1) /\ ~(id = "." /\ k = 2)

MakeBinary(id, a, b) ==
    CASE id = "." -> MakeMember(a, b) [] id = "[" -> MakeIndex(a, b)
      [] id \in {"+", "-"} -> MakeSum(id, a, b)
      [] id = "*" -> MakeProduct(a, b) [] id = "/" -> MakeQuotient(a, b)
      [] id \in {"%", "**", "<<", ">>"} -> Ok(Types(a, b) = FF, MakeCall(id, a, b))
      [] id \in DOMAIN BitNames -> MakeBits(id, a, b)
      [] id \in {"&&", "||"} -> MakeLogic(id, a, b)
      [] id = "><" -> Ok(Types(a, b) = VV, FoldOr(id, <<a, b>>, fold_binary("CROSS", a, b)))
      [] id = "<=>" -> Ok(Types(a, b) = FF, MakeThreeWay(a, b))
      [] id \in DOMAIN Orders -> Ok(Types(a, b) = FF, fold_binary(Orders[id], a, b))
      [] id \in {"==", "!="} -> MakeEquality(id, a, b)
      [] id = "=" -> MakeAssignment(a, b)
      [] id \in SumStores -> MakeSumStore(id, a, b)
      [] id \in ProductStores -> MakeProductStore(id, a, b)
      [] id \in BitStores -> MakeBitStore(id, a, b)
      [] id = "&~=" -> MakeClearStore(a, b)
      [] id \in {"<<=", ">>="} -> MakeShiftStore(id, a, b)
      [] id = "%=" -> BadNode

Nodes(e) == [k \in DOMAIN e |-> e[k].node]
Make(id, e) ==
    LET n == Nodes(e) IN
    CASE Untyped(id, n) -> BadNode
      [] id = "," -> MakeComma(e[1], n[2])
      [] id \in PrefixOps -> MakePrefix(id, n[1])
      [] id \in Steps -> MakeStep(id, n[1])
      [] id = "?:" -> MakeTernary(n[1], n[2], n[3])
      [] id = "call" -> MakeFunctionCall(n[1], Tail(n))
      [] id = "concatenate" -> IF n[2].n = "bad" THEN BadNode ELSE MakeConcatenation(n[1], n[2])
      [] OTHER -> MakeBinary(id, n[1], n[2])
=============================================================================
