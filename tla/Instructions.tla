---------------------------- MODULE Instructions ----------------------------
(***************************************************************************)
(* What one instruction computes (exec.cpp).  The emulated operations on   *)
(* vectors are here as a whole; Emulation has their statements.            *)
(***************************************************************************)
EXTENDS Numbers

Each(Op(_, _), a, b) == [k \in 1 .. 3 |-> Op(a[k], b[k])]
EachOf(Op(_, _), a, x) == [k \in 1 .. 3 |-> Op(a[k], x)]

(* Division by zero is zero, where the compiler folds to infinity.         *)
DIV_F(a, b) == IF NonZero(b) THEN Div(a, b) ELSE F(0)
MUL_V(a, b) == Add(Add(Mul(a[1], b[1]), Mul(a[2], b[2])), Mul(a[3], b[3]))
EQ_V(a, b) == \A k \in 1 .. 3 : Equal(a[k], b[k])
NOT_V(a) == \A k \in 1 .. 3 : ~NonZero(a[k])

CROSS(a, b) == [j \in 1 .. 3 |-> LET p == (j % 3) + 1   q == ((j + 1) % 3) + 1
                                 IN Sub(Mul(a[p], b[q]), Mul(a[q], b[p]))]

Arithmetic(op, a, b) ==
    CASE op = "MUL_F" -> Mul(a, b) [] op = "DIV_F" -> DIV_F(a, b) [] op = "MUL_V" -> MUL_V(a, b)
      [] op = "ADD_F" -> Add(a, b) [] op = "SUB_F" -> Sub(a, b)
      [] op = "MUL_FV" -> EachOf(Mul, b, a) [] op = "MUL_VF" -> EachOf(Mul, a, b)
      [] op = "ADD_V" -> Each(Add, a, b) [] op = "SUB_V" -> Each(Sub, a, b)

Comparison(op, a, b) ==
    Truth(CASE op = "EQ_F" -> Equal(a, b) [] op = "NE_F" -> ~Equal(a, b)
            [] op = "EQ_V" -> EQ_V(a, b) [] op = "NE_V" -> ~EQ_V(a, b)
            [] op \in {"EQ_S", "EQ_E", "EQ_FNC"} -> a = b
            [] op \in {"NE_S", "NE_E", "NE_FNC"} -> a # b
            [] op = "LE" -> AtMost(a, b) [] op = "GE" -> AtMost(b, a)
            [] op = "LT" -> Less(a, b) [] op = "GT" -> Less(b, a))

Emulated(op, a, b) ==
    CASE op = "BITXOR" -> Sub(BitOr(a, b), BitAnd(a, b))
      [] op = "BITAND_V" -> Each(BitAnd, a, b) [] op = "BITAND_VF" -> EachOf(BitAnd, a, b)
      [] op = "BITOR_V" -> Each(BitOr, a, b) [] op = "BITOR_VF" -> EachOf(BitOr, a, b)
      [] op = "BITXOR_V" -> Each(BitXor, a, b) [] op = "BITXOR_VF" -> EachOf(BitXor, a, b)
      [] op = "CROSS" -> CROSS(a, b)

ArithmeticOps == {"MUL_F", "DIV_F", "MUL_V", "ADD_F", "SUB_F", "MUL_FV", "MUL_VF", "ADD_V", "SUB_V"}
EmulatedOps == {"BITXOR", "BITAND_V", "BITAND_VF", "BITOR_V", "BITOR_VF", "BITXOR_V", "BITXOR_VF", "CROSS"}
Instr(op, a, b) ==
    CASE op \in ArithmeticOps -> Arithmetic(op, a, b)
      [] op = "BITAND" -> BitAnd(a, b) [] op = "BITOR" -> BitOr(a, b)
      [] op \in EmulatedOps -> Emulated(op, a, b)
      [] OTHER -> Comparison(op, a, b)
=============================================================================
