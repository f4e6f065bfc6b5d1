------------------------------ MODULE Folding ------------------------------
(***************************************************************************)
(* Constant folding (fold.cpp).  A fold answers with the node that takes   *)
(* the operator's place, or NoNode where it leaves it to be computed.      *)
(***************************************************************************)
EXTENDS Nodes

CONSTANTS CORRECT_LOGIC, TRUE_EMPTY_STRINGS,  \* flags
          VECTOR_COMPONENTS                   \* an optimization

Float(x) == Const("float", x)
Vector(v) == Const("vector", v)
Bool(b) == Float(Truth(b))
Zero3 == <<F(0), F(0), F(0)>>
One3 == <<F(1), F(1), F(1)>>
If(b, node) == IF b THEN node ELSE NoNode

vec3_add(a, b) == [k \in 1 .. 3 |-> Add(a[k], b[k])]
vec3_sub(a, b) == [k \in 1 .. 3 |-> Sub(a[k], b[k])]
vec3_neg(a) == [k \in 1 .. 3 |-> Neg(a[k])]
vec3_not(a) == [k \in 1 .. 3 |-> Sub(F(-1), a[k])]
vec3_mulvf(a, x) == [k \in 1 .. 3 |-> Mul(a[k], x)]
vec3_mulvv(a, b) == Add(Add(Mul(a[1], b[1]), Mul(a[2], b[2])), Mul(a[3], b[3]))
vec3_pbool(a) == \E k \in 1 .. 3 : NonZero(a[k])
vec3_cross(a, b) == [k \in 1 .. 3 |-> LET i == (k % 3) + 1   j == (i % 3) + 1
                                      IN Sub(Mul(a[i], b[j]), Mul(a[j], b[i]))]

(* Both words, or each of a vector's with its counterpart or with a float. *)
Bits(op, x, y) == IF op = "&" THEN BitAnd(x, y) ELSE IF op = "|" THEN BitOr(x, y) ELSE BitXor(x, y)
vec3_bits(op, a, b) == [k \in 1 .. 3 |-> Bits(op, a[k], b[k])]
vec3_bitsvf(op, a, x) == [k \in 1 .. 3 |-> Bits(op, a[k], x)]

immediate_true(x) ==
    CASE Is(x, "float") -> NonZero(x.val)
      [] Is(x, "vector") -> IF CORRECT_LOGIC THEN vec3_pbool(x.val) ELSE NonZero(x.val[1])
      [] Is(x, "string") -> TRUE_EMPTY_STRINGS \/ x.val # ""

op_neg(a) == If(IsConst(a) /\ a.type \in {"float", "vector"},
                IF Is(a, "float") THEN Float(Neg(a.val)) ELSE Vector(vec3_neg(a.val)))

op_not(a) == If(IsConst(a) /\ a.type \in {"float", "vector", "string"},
                Bool(CASE Is(a, "float") -> ~NonZero(a.val)
                       [] Is(a, "vector") -> ~vec3_pbool(a.val)
                       [] Is(a, "string") -> ~TRUE_EMPTY_STRINGS /\ a.val = ""))

op_bnot(a) == If(IsConst(a), IF Is(a, "float") THEN Float(Sub(F(-1), a.val)) ELSE Vector(vec3_not(a.val)))
Both(a, b) == IsConst(a) /\ IsConst(b)

op_add(a, b) == If(Both(a, b), IF Is(a, "float") THEN Float(Add(a.val, b.val)) ELSE Vector(vec3_add(a.val, b.val)))
op_sub(a, b) == If(Both(a, b), IF Is(a, "float") THEN Float(Sub(a.val, b.val)) ELSE Vector(vec3_sub(a.val, b.val)))

(* A vector all of whose other components are zero: one product is enough. *)
op_mul_vec(vec, sel) ==
    LET Alone == {k \in 1 .. 3 : \A j \in 1 .. 3 \ {k} : ~NonZero(vec[j])} \ {k \in 1 .. 3 : vec[k] = F(-1)}
        first == CHOOSE k \in Alone : \A j \in Alone : k <= j
    IN If(VECTOR_COMPONENTS /\ Alone # {},
          ast_binary("MUL_F", Float(vec[first]), ast_member(sel, first, TRUE)))

MulConstants(a, b) ==
    CASE Is(a, "float") /\ Is(b, "float") -> Float(Mul(a.val, b.val))
      [] Is(a, "float") /\ Is(b, "vector") -> Vector(vec3_mulvf(b.val, a.val))
      [] Is(a, "vector") /\ Is(b, "float") -> Vector(vec3_mulvf(a.val, b.val))
      [] Is(a, "vector") /\ Is(b, "vector") -> Float(vec3_mulvv(a.val, b.val))
op_mul(a, b) ==
    IF Both(a, b) THEN MulConstants(a, b)
    ELSE IF ~Is(a, "vector") \/ ~Is(b, "vector") THEN NoNode
    ELSE IF IsConst(a) THEN op_mul_vec(a.val, b)
    ELSE If(IsConst(b), op_mul_vec(b.val, a))

(* Where the divisor is known it is a product; a vector's always is.       *)
Reciprocal(b) == IF IsConst(b) THEN Float(Div(F(1), b.val)) ELSE ast_binary("DIV_F", Float(F(1)), b)
op_div(a, b) ==
    CASE Is(a, "float") -> IF Both(a, b) THEN Float(Div(a.val, b.val))
                           ELSE If(IsConst(b), ast_binary("MUL_F", a, Reciprocal(b)))
      [] Is(a, "vector") -> IF Both(a, b) THEN Vector(vec3_mulvf(a.val, Div(F(1), b.val)))
                            ELSE ast_binary("MUL_VF", a, Reciprocal(b))
      [] OTHER -> NoNode

op_mod(a, b) == If(Both(a, b), Float(Fmod(a.val, b.val)))

(* op_bor, op_band, op_xor                                                 *)
op_bits(op, a, b) ==
    If(Both(a, b), IF Is(a, "float") THEN Float(Bits(op, a.val, b.val))
                   ELSE IF Is(b, "vector") THEN Vector(vec3_bits(op, a.val, b.val))
                   ELSE Vector(vec3_bitsvf(op, a.val, b.val)))

op_lshift(a, b) == If(Both(a, b), Float(Floor(Mul(a.val, Pow(F(2), b.val)))))
op_rshift(a, b) == If(Both(a, b), Float(Floor(Div(a.val, Pow(F(2), b.val)))))
op_exp(a, b) == If(Both(a, b), Float(Pow(a.val, b.val)))

op_andor(a, b, or) ==
    If(Both(a, b), IF PERL_LOGIC THEN IF immediate_true(a) = or THEN a ELSE b
                   ELSE Bool(IF or THEN immediate_true(a) \/ immediate_true(b)
                                   ELSE immediate_true(a) /\ immediate_true(b)))

op_tern(a, b, c) == If(IsConst(a), IF immediate_true(a) THEN b ELSE c)

op_lteqgt(a, b) ==
    If(Both(a, b), IF Less(a.val, b.val) THEN Float(F(-1))
                   ELSE IF Equal(a.val, b.val) THEN Float(F(0))
                   ELSE If(Less(b.val, a.val), Float(F(1))))

op_cmp(a, b, ne) ==
    If(Both(a, b) /\ a.type = b.type /\ a.type \in {"float", "vector", "string"},
       Bool(ne # CASE Is(a, "float") -> Equal(a.val, b.val)
                   [] Is(a, "vector") -> \A k \in 1 .. 3 : Equal(a.val[k], b.val[k])
                   [] Is(a, "string") -> a.val = b.val))

op_cross(a, b) == If(Both(a, b), Vector(vec3_cross(a.val, b.val)))

(* A string's characters, or the values an array was declared with.        *)
op_length(a, initlist) == IF IsConst(a) THEN Float(F(Len(a.val)))
                          ELSE If(Is(a, "array"), Float(F(initlist[a.val])))

(* fold::op.  The table has no folds for the operators that are missing.   *)
fold_op(id, a, b, c, initlist) ==
    CASE id = "-P" -> op_neg(a) [] id = "!P" -> op_not(a) [] id = "~P" -> op_bnot(a)
      [] id = "+" -> op_add(a, b) [] id = "-" -> op_sub(a, b)
      [] id = "*" -> op_mul(a, b) [] id = "/" -> op_div(a, b) [] id = "%" -> op_mod(a, b)
      [] id \in {"|", "&", "^"} -> op_bits(id, a, b)
      [] id = "<<" -> op_lshift(a, b) [] id = ">>" -> op_rshift(a, b)
      [] id = "||" -> op_andor(a, b, TRUE) [] id = "&&" -> op_andor(a, b, FALSE)
      [] id = "?:" -> op_tern(a, b, c) [] id = "**" -> op_exp(a, b)
      [] id = "<=>" -> op_lteqgt(a, b) [] id = "><" -> op_cross(a, b)
      [] id = "!=" -> op_cmp(a, b, TRUE) [] id = "==" -> op_cmp(a, b, FALSE)
      [] id = "len" -> op_length(a, initlist)
      [] OTHER -> NoNode
-----------------------------------------------------------------------------
(* Mutant: the constant may be on either side of any of them.              *)
SuperfluousEither(op, load, swapped) == \/ op \in {"DIV_F", "MUL_F"} /\ Equal(load, F(1))
                                        \/ op \in {"SUB_F", "ADD_F"} /\ Equal(load, F(0))

(* Operations that change nothing, with a constant on either side.         *)
Superfluous(op, load, swapped) ==
    CASE op = "DIV_F" -> ~swapped /\ Equal(load, F(1))
      [] op = "MUL_F" -> Equal(load, F(1))
      [] op = "SUB_F" -> ~swapped /\ Equal(load, F(0))
      [] op = "ADD_F" -> Equal(load, F(0))
      [] op = "MUL_V" -> load = One3
      [] op = "SUB_V" -> ~swapped /\ load = Zero3
      [] op = "ADD_V" -> load = Zero3
      [] OTHER -> FALSE
superfluous(a, b, op) ==
    IF IsConst(b) THEN If(Superfluous(op, b.val, FALSE), a)
    ELSE If(IsConst(a) /\ Superfluous(op, a.val, TRUE), b)

fold_binary(op, a, b) ==
    IF Got(superfluous(a, b, op)) THEN superfluous(a, b, op) ELSE ast_binary(op, a, b)
=============================================================================
