------------------------------- MODULE MCFtepp -------------------------------
(***************************************************************************)
(* Two macros that may stand for a number, nothing, themselves or one      *)
(* another, two nested conditions of up to three branches, one include.    *)
(***************************************************************************)
EXTENDS Ftepp

MCBody == {<<>>, <<"1">>, <<"A", "0">>, <<"B">>}

Term(not, k, of) == [not |-> not, k |-> k, of |-> of]
Alone(t) == [first |-> t, rest |-> <<>>]
Binary(t, op, u) == [first |-> t, rest |-> <<[op |-> op, t |-> u]>>]

A == Term(FALSE, "name", "A")
One == Term(FALSE, "number", "1")
MCExpr ==
    { Alone(Term(TRUE, "name", "A")), Binary(One, "==", A),
      [first |-> Term(FALSE, "defined", "A"),
       rest |-> <<[op |-> "&&", t |-> Term(TRUE, "defined", "B")], [op |-> ">=", t |-> A]>>] }
=============================================================================
