----------------------------- MODULE Intrinsics -----------------------------
(***************************************************************************)
(* The intrinsics (intrin.cpp): functions that the compiler generates out  *)
(* of instructions.                                                        *)
(***************************************************************************)
EXTENDS Instructions

(* AND and OR give 0 or 1.                                                 *)
Both01(x, y) == Truth(NonZero(x) /\ NonZero(y))
Either01(x, y) == Truth(NonZero(x) \/ NonZero(y))

isnan(x) == Instr("NE_F", x, x)
isinf(x) == Both01(Instr("NE_F", x, F(0)), Instr("EQ_F", Add(x, x), x))
isfinite(x) == Truth(~NonZero(Either01(isnan(x), isinf(x))))
isnormal(x) == isfinite(x)
signbit(x) == IF NonZero(Instr("LT", x, F(0))) THEN F(1) ELSE F(0)
fabs(x) == IF NonZero(Instr("LE", x, F(0))) THEN Sub(F(0), x) ELSE x

(* pow for a positive base: the exponent the result has.  0 and 1 are      *)
(* answered at once; another exponent is halved until it is below 1 and    *)
(* then approached from both sides, by a square root more at each step.    *)
Half(x) == Div(x, F(2))
Far(mid, e) == Less(<<1, 100000>>, fabs(Sub(mid, e)))

RECURSIVE Approach(_, _, _, _, _)
Approach(e, low, high, square, accumulate) ==
    LET mid  == Half(Add(low, high))
        root == Half(square)
    IN IF ~Far(mid, e) THEN accumulate
       ELSE IF Less(mid, e) THEN Approach(e, mid, high, root, Add(accumulate, root))
                            ELSE Approach(e, low, mid, root, Sub(accumulate, root))

RECURSIVE Exponent(_)
Exponent(e) ==
    IF e \in {F(0), F(1)} THEN e
    ELSE IF Less(e, F(0)) THEN Neg(Exponent(Neg(e)))
    ELSE IF AtMost(F(1), e) THEN Mul(F(2), Exponent(Half(e)))
    ELSE Approach(e, F(0), F(1), Half(F(1)), Half(F(1)))

(* No root of a negative base: a power of two is the only other exponent   *)
(* it has.  A root of zero is zero.                                        *)
RECURSIVE Doubling(_)
Doubling(e) == \/ e = F(1)
               \/ Less(F(1), e) /\ Doubling(Half(e))
pow(base, e) ==
    IF e = F(0) THEN F(1)
    ELSE IF base = F(0) THEN F(0)
    ELSE IF Less(base, F(0)) /\ ~Doubling(fabs(e)) THEN NaN
    ELSE Pow(base, Exponent(e))

mod(a, b) == LET div  == DIV_F(a, b)
                 sign == IF Less(div, F(0)) THEN F(-1) ELSE F(1)
             IN Sub(a, Mul(b, Mul(sign, Floor(Mul(sign, div)))))
exp2(x) == pow(F(2), x)
lshift(a, b) == Floor(Mul(a, pow(F(2), b)))
rshift(a, b) == Floor(DIV_F(a, pow(F(2), b)))

(* The immediates these are made of are 0 and 1.                           *)
nan == DIV_F(F(0), F(0))
inf == DIV_F(F(0), F(1))

(* eps is halved until 1 + 2 eps is 1, from 0 on.                          *)
RECURSIVE Halved(_)
Halved(eps) == IF Equal(Add(F(1), Mul(eps, F(2))), F(1)) THEN eps ELSE Halved(Half(eps))
epsilon == Halved(Half(F(0)))

intrinsic(name, args) ==
    CASE name = "isnan" -> isnan(args[1]) [] name = "isinf" -> isinf(args[1])
      [] name = "isfinite" -> isfinite(args[1]) [] name = "isnormal" -> isnormal(args[1])
      [] name = "signbit" -> signbit(args[1]) [] name = "fabs" -> fabs(args[1])
      [] name = "exp2" -> exp2(args[1])
      [] name = "pow" -> pow(args[1], args[2]) [] name = "mod" -> mod(args[1], args[2])
      [] name = "lshift" -> lshift(args[1], args[2]) [] name = "rshift" -> rshift(args[1], args[2])
      [] name = "nan" -> nan [] name = "inf" -> inf [] name = "epsilon" -> epsilon
Intrinsics == {"isnan", "isinf", "isfinite", "isnormal", "signbit", "fabs", "exp2",
               "pow", "mod", "lshift", "rshift", "nan", "inf", "epsilon"}
=============================================================================
