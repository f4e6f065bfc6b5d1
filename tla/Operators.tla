----------------------------- MODULE Operators -----------------------------
(***************************************************************************)
(* The operators of the three dialects (lexer.h), with the precedences the *)
(* expression parser goes by.  The order within a table does not matter:   *)
(* no two entries have the same text and both, or neither, are prefixes.   *)
(***************************************************************************)
EXTENDS Integers, Sequences

Entry(text, id, operands, assoc, prec, flag) ==
    [text |-> text, id |-> id, operands |-> operands, assoc |-> assoc,
     prec |-> prec, flag |-> flag]

Binary(prec, assoc, texts) == {Entry(x, x, 2, assoc, prec, "infix") : x \in texts}
Prefix(prec, texts) == {Entry(x, x \o "P", 1, "right", prec, "prefix") : x \in texts}
Suffix(prec, texts) == {Entry(x, "S" \o x, 1, "left", prec, "suffix") : x \in texts}

(* What may follow an operand without a space between, and the parenthesis *)
(* around an expression.                                                   *)
Postfix(prec) == Binary(prec, "left", {".", "["}) \cup {Entry("(", "(", 0, "left", prec, "infix")}
Paren == {Entry("(", "(", 0, "left", 99, "prefix")}
Ternary(prec) == {Entry("?", "?:", 3, "right", prec, "infix")}
Colon(prec) == {Entry(":", ":?", 0, "right", prec, "infix")}
Comma(prec) == Binary(prec, "left", {","})

c_operators == UNION {
    Paren, {Entry("_length", "len", 1, "right", 98, "prefix")},
    Suffix(17, {"++", "--"}), Postfix(17), Prefix(16, {"++", "--"}),
    Binary(14, "right", {"**"}), Prefix(14, {"!", "~", "+", "-"}),
    Binary(13, "left", {"*", "/", "%", "><"}), Binary(12, "left", {"+", "-"}),
    Binary(11, "left", {"<<", ">>"}), Binary(10, "left", {"<", ">", "<=>", "<=", ">="}),
    Binary(9, "left", {"==", "!="}), Binary(8, "left", {"&"}), Binary(7, "left", {"^"}),
    Binary(6, "left", {"|"}), Binary(5, "left", {"&&"}), Binary(4, "left", {"||"}), Ternary(3),
    Binary(2, "right", {"=", "+=", "-=", "*=", "/=", "%=", ">>=", "<<=", "&=", "^=", "|="}),
    Colon(1), Comma(0)}

qcc_shared == UNION {
    Paren, Postfix(15), Prefix(14, {"!", "+", "-"}),
    Binary(13, "left", {"*", "/", "&", "|"}), Binary(12, "left", {"+", "-"}),
    Binary(10, "left", {"<", ">", "<=", ">=", "==", "!="}),
    Binary(8, "right", {"=", "+=", "-=", "*=", "/=", "%=", "&=", "|="}),
    Binary(5, "left", {"&&", "||"}), Comma(2)}

fte_operators == UNION {
    qcc_shared, Suffix(15, {"++", "--"}), Prefix(14, {"++", "--"}),
    Binary(11, "left", {"<<", ">>"}), Ternary(9), Binary(8, "right", {"&~="}), Colon(1)}

qcc_operators == qcc_shared

(* -fcorrect-ternary: the colon comes before the comma.                    *)
CorrectTernary(table) == {o \in table : o.id # ":?"} \cup
    Colon(1 + (CHOOSE o \in table : o.id = ",").prec)

(* The parser's lookup: a prefix operator where an operand is wanted,      *)
(* another one where an operator is.                                       *)
Lookup(table, text, wantop) ==
    {o \in table : o.text = text /\ (o.flag # "prefix") = wantop}

(* Mutant: what binds as tight is applied first, on either side.           *)
ReducesEqual(op, olast) == op.prec <= olast.prec

(* An operator on the stack is applied before another one is pushed.       *)
Reduces(op, olast) ==
    \/ op.prec < olast.prec
    \/ op.assoc = "left" /\ op.prec <= olast.prec

=============================================================================
