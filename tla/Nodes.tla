------------------------------- MODULE Nodes -------------------------------
(***************************************************************************)
(* The nodes of an expression (ast.cpp) with the types they take from      *)
(* their operands.  A node is a record; `next` is what a field, an array   *)
(* or a function is of, `val` a constant's value or a variable's name.     *)
(***************************************************************************)
EXTENDS Numbers

CONSTANTS PEEPHOLE,    \* -Opeephole
          PERL_LOGIC   \* -fperl-logic

NoNode == [n |-> "none"]     \* nullptr
BadNode == [n |-> "bad"]     \* a compile error
Got(node) == node.n # "none"

Node(n, type, next, op, args) ==
    [n |-> n, type |-> type, next |-> next, op |-> op, args |-> args, val |-> <<>>]
Const(type, val) == [Node("const", type, "", "", <<>>) EXCEPT !.val = val]
Var(type, next, name) == [Node("var", type, next, "", <<>>) EXCEPT !.val = name]
IsConst(x) == x.n = "const"
Is(x, type) == x.type = type

Comparisons == {"EQ_F", "EQ_V", "EQ_S", "EQ_E", "EQ_FNC", "NE_F", "NE_V", "NE_S", "NE_E", "NE_FNC",
                "LE", "GE", "LT", "GT"}
BinaryType(op, a, b) ==
    IF op \in Comparisons \cup {"BITAND", "BITOR", "MUL_V"} THEN "float"
    ELSE IF op \in {"AND", "OR"} THEN IF PERL_LOGIC THEN b.type ELSE "float"
    ELSE IF op \in {"MUL_VF", "MUL_FV"} THEN "vector"
    ELSE a.type

(* "make a-(-b) => a + b"                                                  *)
Negated(b) == PEEPHOLE /\ b.n = "unary" /\ b.op \in {"NEG_F", "NEG_V"}
ast_binary(op, a, b) ==
    LET double == Negated(b) /\ op \in {"SUB_F", "SUB_V"}
        op1 == IF ~double THEN op ELSE IF op = "SUB_F" THEN "ADD_F" ELSE "ADD_V"
        b1 == IF double THEN b.args[1] ELSE b
    IN Node("binary", BinaryType(op1, a, b1), "", op1, <<a, b1>>)

(* make's test for a double negation compares an operator's id with an     *)
(* instruction: it never finds one.                                        *)
ast_unary(op, a) ==
    Node("unary", IF op = "NEG_V" THEN "vector" ELSE "float", "", op, <<a>>)

ast_store(a, b) == Node("store", a.type, a.next, "", <<a, b>>)
ast_binstore(op, a, b) == Node("binstore", a.type, a.next, op, <<a, b>>)
ast_ternary(a, b, c) == Node("ternary", b.type, b.next, "", <<a, b, c>>)
ast_entfield(a, field) == Node("entfield", field.next, "", "", <<a, field>>)
ast_call(f, args) == Node("call", f.next, "", f.val, args)
ast_block(exprs, last) == Node("block", last.type, last.next, "", exprs)

(* m_rvalue: a component picked by the optimizer is no place to store to.  *)
ast_member(a, k, rvalue) ==
    [Node("member", IF Is(a, "vector") THEN "float" ELSE "field",
          IF Is(a, "vector") THEN "" ELSE "float", IF rvalue THEN "rvalue" ELSE "", <<a>>)
     EXCEPT !.val = k]

(* The element of a field that is an array is a field.                     *)
ast_array_index(a, index) ==
    IF Is(a, "field") THEN Node("index", "field", "float", "", <<a, index>>)
                      ELSE Node("index", a.next, "", "", <<a, index>>)
=============================================================================
