------------------------------ MODULE Numbers ------------------------------
(***************************************************************************)
(* The floats of the C implementation, without rounding: fractions in      *)
(* lowest terms <<n, d>>, d = 0 for the two infinities and for NaN.  The   *)
(* sign of a zero is not kept.  The functions of math.h that the compiler  *)
(* folds with, and the casts to int.                                       *)
(***************************************************************************)
EXTENDS Integers, Sequences

Inf == <<1, 0>>
NaN == <<0, 0>>
F(n) == <<n, 1>>
Abs(n) == IF n < 0 THEN -n ELSE n
IsNaN(x) == x = NaN
IsInf(x) == x[2] = 0 /\ x[1] # 0

Sgn(n) == IF n < 0 THEN -1 ELSE IF n = 0 THEN 0 ELSE 1
gcd[p \in Nat \X Nat] == IF p[2] = 0 THEN p[1] ELSE gcd[<<p[2], p[1] % p[2]>>]

(* n/d in lowest terms, for any d.                                         *)
Fraction(n, d) == IF d = 0 THEN <<Sgn(n), 0>>
                  ELSE LET g == gcd[<<Abs(n), Abs(d)>>] IN <<(Sgn(d) * n) \div g, Abs(d) \div g>>

Neg(x) == <<-x[1], x[2]>>
Mul(x, y) == Fraction(x[1] * y[1], x[2] * y[2])
Div(x, y) == IF x[2] = 0 THEN IF y[2] = 0 THEN NaN ELSE <<IF y[1] < 0 THEN -x[1] ELSE x[1], 0>>
             ELSE Fraction(x[1] * y[2], x[2] * y[1])
Add(x, y) == IF x[2] = 0 /\ y[2] = 0 THEN IF x = y THEN x ELSE NaN
             ELSE IF x[2] = 0 THEN x ELSE IF y[2] = 0 THEN y
             ELSE Fraction(x[1] * y[2] + y[1] * x[2], x[2] * y[2])
Sub(x, y) == Add(x, Neg(y))

(* Nothing compares with a NaN, and a NaN is not equal to itself.          *)
Less(x, y) == /\ ~IsNaN(x) /\ ~IsNaN(y)
              /\ IF x[2] = 0 /\ y[2] = 0 THEN x[1] < y[1] ELSE x[1] * y[2] < y[1] * x[2]
Equal(x, y) == ~IsNaN(x) /\ x = y
AtMost(x, y) == Less(x, y) \/ Equal(x, y)
NonZero(x) == x[1] # 0 \/ x[2] = 0
Truth(b) == IF b THEN F(1) ELSE F(0)

Floor(x) == IF x[2] = 0 THEN x ELSE F(x[1] \div x[2])

(* The cast of an infinity or a NaN is undefined: any value does.          *)
ToInt(x) == IF x[2] = 0 THEN 0 ELSE IF x[1] < 0 THEN -((-x[1]) \div x[2]) ELSE x[1] \div x[2]
Fmod(x, y) == IF x[2] = 0 \/ ~NonZero(y) THEN NaN
              ELSE IF y[2] = 0 THEN x ELSE Sub(x, Mul(y, F(ToInt(Div(x, y)))))

(* Powers.  One that is no fraction is no number either.                   *)
power[b \in Int \X Int, n \in Nat] == IF n = 0 THEN F(1) ELSE Mul(b, power[b, n - 1])
Roots(n, q) == {r \in 0 .. n : power[F(r), q] = F(n)}
Root(x, q) == IF Roots(x[1], q) = {} \/ Roots(x[2], q) = {} THEN NaN
              ELSE <<CHOOSE r \in Roots(x[1], q) : TRUE, CHOOSE r \in Roots(x[2], q) : TRUE>>
Pow(b, e) == LET p == power[b, Abs(e[1])]
                 r == IF e[2] = 1 THEN p ELSE Root(p, e[2])
             IN IF e[1] < 0 THEN Div(F(1), r) ELSE r

(* Two's complement: the bits of -1 go on forever.                         *)
And[p \in Int \X Int] ==
    LET x == p[1]
        y == p[2]
    IN IF x = 0 \/ y = 0 THEN 0 ELSE IF x = -1 THEN y ELSE IF y = -1 THEN x
       ELSE (x % 2) * (y % 2) + 2 * And[<<x \div 2, y \div 2>>]
IntAnd(x, y) == And[<<x, y>>]
IntOr(x, y) == x + y - IntAnd(x, y)
IntXor(x, y) == x + y - 2 * IntAnd(x, y)

BitAnd(x, y) == F(IntAnd(ToInt(x), ToInt(y)))
BitOr(x, y) == F(IntOr(ToInt(x), ToInt(y)))
BitXor(x, y) == F(IntXor(ToInt(x), ToInt(y)))
=============================================================================
