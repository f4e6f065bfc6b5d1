------------------------------ MODULE Shunting ------------------------------
(***************************************************************************)
(* The expression parser (parser.cpp: parse_expression_leave): a shunting  *)
(* yard with a stack of operators, a stack of expressions, a stack of what *)
(* every open parenthesis is, and one of argument counts.  One step is one *)
(* pass of one of its loops, so at most one operator is applied.           *)
(*                                                                         *)
(* What an operator makes of its operands is Build's business; the stacks  *)
(* are kept the same whatever that is.                                     *)
(***************************************************************************)
EXTENDS Operators

CONSTANTS Tables,         \* dialect -> operators
          Inputs,         \* [table, toks, stopatcomma]: tokens, and the dialect they are read in
          ParseOperand(_, _),  \* parse_sya_operand: a node or NoExpr, from the token and
                          \* the vector or other node a member is looked up in
          Build(_, _),    \* a node or NoExpr, from an operator's id and elements of out
          NoExpr, Absent

VARIABLES input,     \* [table, toks, stopatcomma]
          pos,       \* the current token
          stage,     \* where in parse_expression_leave the parser is
          cur,       \* the operator being pushed, or NoOp
          out,       \* sy.out: [node, block, src]; src is history, the source it stands for
          ops,       \* sy.ops
          paren,     \* sy.paren
          argc,      \* sy.argc
          ternaries,
          wantop,
          mark       \* history: the entries of ops and argc that go with one of paren

parseVars == <<input, pos, stage, cur, out, ops, paren, argc, ternaries, wantop, mark>>
stacks == <<out, ops, paren, argc, mark>>

Final == {"accepted", "rejected", "internal"}
ParenType == {"expr", "func", "index", "ternary1", "ternary2"}

NoOp == Entry("", "", 0, "right", 0, "none")
syop(op) == [isparen |-> FALSE, op |-> op, off |-> 0]

(* Mutant: off counts from before the function.                            *)
syparenBefore(off) == [isparen |-> TRUE, op |-> NoOp, off |-> off - 1]

syparen(off) == [isparen |-> TRUE, op |-> NoOp, off |-> off]

Tree(op, args) == [op |-> op, args |-> args]
Back(s) == s[Len(s)]
Pop(s) == SubSeq(s, 1, Len(s) - 1)
PopN(s, n) == SubSeq(s, 1, Len(s) - n)
TopN(s, n) == SubSeq(s, Len(s) - n + 1, Len(s))
TokenAt(k) == IF k \in DOMAIN input.toks THEN input.toks[k] ELSE [kind |-> "eof", text |-> ""]
Token == TokenAt(pos)
OpsEmpty == ops = <<>>
OnParen == ~OpsEmpty /\ Back(ops).isparen
InTernary2 == paren # <<>> /\ Back(paren) = "ternary2"

ParseStart(i) == /\ input = i
                 /\ pos = 1 /\ stage = "token" /\ cur = NoOp
                 /\ out = <<>> /\ ops = <<>> /\ paren = <<>> /\ argc = <<>> /\ mark = <<>>
                 /\ ternaries = 0 /\ wantop = FALSE
ParseInit == \E i \in Inputs : ParseStart(i)

Reject == /\ stage' = "rejected"
          /\ UNCHANGED <<input, pos, cur, stacks, ternaries, wantop>>
-----------------------------------------------------------------------------
(* parser_sy_apply_operator.  The top of ops is no parenthesis.            *)
Applied == Back(ops).op
Exprs == TopN(out, Applied.operands)
Push(node, block, src, below) == out' = Append(below, [node |-> node, block |-> block, src |-> src])
Sources(elems) == [k \in DOMAIN elems |-> elems[k].src]

(* An argument list's comma puts both operands back and counts.            *)
SeparatesArguments == Applied.id = "," /\ paren # <<>> /\ Back(paren) = "func"

(* Mutant: the ternary's entry stays in paren.                             *)
UnparenNever == UNCHANGED <<paren, mark>>

Unparen == IF Applied.id = "?:" THEN paren' = Pop(paren) /\ mark' = Pop(mark)
                                ELSE UNCHANGED <<paren, mark>>

Reduce == /\ ops' = Pop(ops)
          /\ IF Applied.operands = 0 THEN UNCHANGED <<out, argc, paren, mark>>
             ELSE IF SeparatesArguments
             THEN /\ argc' = [argc EXCEPT ![Len(argc)] = @ + 1]
                  /\ out' = PopN(out, 2) \o [k \in 1 .. 2 |-> [Exprs[k] EXCEPT !.block = FALSE]]
                  /\ UNCHANGED <<paren, mark>>
             ELSE /\ Push(Build(Applied.id, Exprs), Applied.id = ",",
                          Tree(Applied.id, Sources(Exprs)), PopN(out, Applied.operands))
                  /\ Unparen
                  /\ UNCHANGED argc

CanApply ==
    /\ ~OpsEmpty /\ ~OnParen
    /\ Len(out) >= Applied.operands
    /\ Applied.operands # 0 /\ ~SeparatesArguments =>
          /\ Applied.id = "?:" => InTernary2
          /\ Build(Applied.id, Exprs) # NoExpr

(* One call of it in a loop at `stage`, which goes on there.               *)
Apply == IF CanApply
         THEN /\ Reduce
              /\ UNCHANGED <<input, pos, stage, cur, ternaries, wantop>>
         ELSE Reject
-----------------------------------------------------------------------------
(* The end of the loop over the tokens: the next one, unless it ends the   *)
(* expression.                                                             *)
Ends(token, p) == \/ token.text = ";"
                  \/ /\ p = <<>> \/ p = <<"ternary2">>
                     /\ token.text \in {"]", ")", "}"}
Advance == /\ pos' = pos + 1
           /\ stage' = IF TokenAt(pos + 1).kind = "eof" THEN "rejected"
                       ELSE IF Ends(TokenAt(pos + 1), paren') THEN "end" ELSE "token"
           /\ UNCHANGED input

(* Mutant: the loop goes on with the same token.                           *)
LeaveLoopNever == /\ stage' = "token"
                  /\ UNCHANGED <<input, pos, cur, stacks, ternaries, wantop>>

LeaveLoop == /\ stage' = "end"
             /\ UNCHANGED <<input, pos, cur, stacks, ternaries, wantop>>

(* "classify the operator"                                                 *)
Known(text) == Lookup(Tables[input.table], text, wantop)
ThisOperator == CHOOSE o \in Known(Token.text) : TRUE

(* "when declaring variables, a comma starts a new variable", "a colon     *)
(* without a pervious question mark cannot be a ternary"                   *)
StopsAt(op) == \/ op.id = "," /\ paren = <<>> /\ input.stopatcomma
               \/ op.id = ":?" /\ ternaries = 0

ClassifyOperator ==
    /\ stage = "token" /\ Token.kind = "op" /\ Known(Token.text) # {}
    /\ IF StopsAt(ThisOperator) THEN LeaveLoop
       ELSE /\ cur' = ThisOperator
            /\ stage' = "operator"
            /\ UNCHANGED <<input, pos, stacks, ternaries, wantop>>

UnknownOperator ==
    /\ stage = "token" /\ Token.kind = "op" /\ Known(Token.text) = {}
    /\ Reject

(* Operators that bind tighter, or as tight and to the left, come first.   *)
Waiting == ~OpsEmpty /\ ~OnParen /\ Reduces(cur, Applied)
ReduceTighter == stage = "operator" /\ Waiting /\ Apply

Entered(type, entries) ==
    /\ paren' = Append(paren, type)
    /\ ops' = ops \o entries
    /\ mark' = Append(mark, [ops |-> Len(ops'), argc |-> Len(argc')])
    /\ UNCHANGED out

OpenParen ==
    /\ stage = "operator" /\ ~Waiting /\ cur.id = "("
    /\ IF wantop
       THEN argc' = Append(argc, 0) /\ Entered("func", <<syparen(Len(out))>>)
       ELSE UNCHANGED argc /\ Entered("expr", <<syparen(0)>>)
    /\ wantop' = FALSE /\ cur' = NoOp
    /\ UNCHANGED ternaries
    /\ Advance

OpenIndex ==
    /\ stage = "operator" /\ ~Waiting /\ cur.id = "["
    /\ IF wantop
       THEN /\ UNCHANGED <<argc, ternaries>>
            /\ Entered("index", <<syop(cur), syparen(0)>>)
            /\ wantop' = FALSE /\ cur' = NoOp
            /\ Advance
       ELSE Reject

OpenTernary ==
    /\ stage = "operator" /\ ~Waiting /\ cur.id = "?:"
    /\ UNCHANGED argc
    /\ Entered("ternary1", <<syop(cur), syparen(0)>>)
    /\ ternaries' = ternaries + 1
    /\ wantop' = FALSE /\ cur' = NoOp
    /\ Advance

(* The colon closes the middle of the ternary and is pushed after that.    *)
MeetColon ==
    /\ stage = "operator" /\ ~Waiting /\ cur.id = ":?"
    /\ IF paren # <<>> /\ Back(paren) = "ternary1"
       THEN stage' = "close" /\ UNCHANGED <<input, pos, cur, stacks, ternaries, wantop>>
       ELSE Reject

PushOperator ==
    /\ stage = "operator" /\ ~Waiting /\ cur.id \notin {"(", "[", "?:", ":?"}
    /\ ops' = Append(ops, syop(cur))
    /\ wantop' = (cur.flag = "suffix") /\ cur' = NoOp
    /\ UNCHANGED <<out, paren, argc, mark, ternaries>>
    /\ Advance
-----------------------------------------------------------------------------
(* A closing parenthesis or bracket: first the ternaries that are open.    *)
CloserHere == stage = "token" /\ Token.kind = "close"
ReduceTernary == CloserHere /\ InTernary2 /\ Apply

(* "must be a function call without parameters", where an operand is       *)
(* missing                                                                 *)
ClosesHere == IF Token.text = "]" THEN Back(paren) = "index"
              ELSE IF wantop THEN Back(paren) # "ternary1" ELSE Back(paren) = "func"

Close ==
    /\ CloserHere /\ ~InTernary2
    /\ IF paren = <<>> THEN LeaveLoop
       ELSE IF ClosesHere
       THEN stage' = "close" /\ UNCHANGED <<input, pos, cur, stacks, ternaries, wantop>>
       ELSE Reject

(* parser_close_paren: everything down to the parenthesis is applied.      *)
ReduceInside == stage = "close" /\ ~OnParen /\ Apply

Closed == /\ wantop' = TRUE /\ Advance
          /\ UNCHANGED <<cur, ternaries>>
Exit == paren' = Pop(paren) /\ mark' = Pop(mark)

CloseExpr ==
    /\ stage = "close" /\ OnParen /\ Back(paren) = "expr"
    /\ IF out = <<>> THEN Reject
       ELSE /\ ops' = Pop(ops) /\ Exit
            /\ Push(Back(out).node, Back(out).block, Tree("()", <<Back(out).src>>), Pop(out))
            /\ Closed
            /\ UNCHANGED argc

(* The index operator below the parenthesis is applied.                    *)
CloseIndex ==
    /\ stage = "close" /\ OnParen /\ Back(paren) = "index"
    /\ LET elems == TopN(out, 2)
           node == Build("[", elems)
       IN IF Len(out) < 2 \/ node = NoExpr THEN Reject
          ELSE /\ ops' = PopN(ops, 2) /\ Exit
               /\ Push(node, FALSE, Tree("[", Sources(elems)), PopN(out, 2))
               /\ Closed
               /\ UNCHANGED argc

CloseTernary ==
    /\ stage = "close" /\ OnParen /\ Back(paren) = "ternary1"
    /\ paren' = Append(Pop(paren), "ternary2")
    /\ ops' = Append(Pop(ops), syop(cur))
    /\ mark' = Append(Pop(mark), [Back(mark) EXCEPT !.ops = Len(ops) - 1])
    /\ ternaries' = ternaries - 1
    /\ wantop' = FALSE /\ cur' = NoOp
    /\ Advance
    /\ UNCHANGED <<out, argc>>

(* parser_close_call: one argument more than there were commas, if there   *)
(* is any.  Where the count goes past the stack the code reads behind it   *)
(* and reports an internal error if it gets that far.                      *)
fid == Back(ops).off

(* Mutant: there is always one argument more than there were commas.       *)
paramcountCommas == Back(argc) + 1

paramcount == Back(argc) + (IF fid < Len(out) THEN 1 ELSE 0)

CloseCall ==
    /\ stage = "close" /\ OnParen /\ Back(paren) = "func"
    /\ LET call == SubSeq(out, fid, Len(out))
           node == Build("call", call)
       IN IF Len(out) < fid \/ fid + paramcount # Len(out)
          THEN stage' = "internal" /\ UNCHANGED <<input, pos, cur, stacks, ternaries, wantop>>
          ELSE IF node = NoExpr THEN Reject
          ELSE /\ ops' = Pop(ops) /\ Exit
               /\ argc' = Pop(argc)
               /\ Push(node, FALSE, Tree("call", Sources(call)), SubSeq(out, 1, fid - 1))
               /\ Closed
-----------------------------------------------------------------------------
(* A member of a vector is looked up in the expression before the dot.     *)
MemberOf == IF ~OpsEmpty /\ Back(ops).op.id = "." /\ out # <<>> THEN Back(out).node ELSE Absent

PushOperand ==
    /\ stage = "token" /\ Token.kind = "operand" /\ ~wantop
    /\ LET node == ParseOperand(Token.text, MemberOf) IN
       IF node = NoExpr THEN Reject
       ELSE /\ Push(node, FALSE, Tree(Token.text, <<>>), out)
            /\ wantop' = TRUE
            /\ UNCHANGED <<cur, ops, paren, argc, mark, ternaries>>
            /\ Advance

(* "constant string concatenation", or a missing operator                  *)
Concatenate ==
    /\ stage = "token" /\ Token.kind = "operand" /\ wantop
    /\ LET node == IF out = <<>> THEN NoExpr
                   ELSE Build("concatenate", <<Back(out), [Back(out) EXCEPT
                                !.node = ParseOperand(Token.text, Absent)]>>)
       IN IF node = NoExpr THEN Reject
          ELSE /\ Push(node, Back(out).block,
                       Tree("concatenate", <<Back(out).src, Tree(Token.text, <<>>)>>), Pop(out))
               /\ UNCHANGED <<cur, ops, paren, argc, mark, ternaries, wantop>>
               /\ Advance

(* A type name, or a token that is no expression's.                        *)
Unexpected == stage = "token" /\ Token.kind \notin {"op", "close", "operand"} /\ Reject

(* What is left on the stack at the end of the expression.                 *)
ReduceRest == stage = "end" /\ ~OpsEmpty /\ Apply

Finish == /\ stage = "end" /\ OpsEmpty
          /\ stage' = IF paren # <<>> THEN "internal"
                      ELSE IF Len(out) = 1 THEN "accepted" ELSE "rejected"
          /\ UNCHANGED <<input, pos, cur, stacks, ternaries, wantop>>

ParseNext == \/ ClassifyOperator \/ UnknownOperator \/ ReduceTighter
             \/ OpenParen \/ OpenIndex \/ OpenTernary \/ MeetColon \/ PushOperator
             \/ ReduceTernary \/ Close \/ ReduceInside
             \/ CloseExpr \/ CloseIndex \/ CloseTernary \/ CloseCall
             \/ PushOperand \/ Concatenate \/ Unexpected
             \/ ReduceRest \/ Finish

ParseSpec == ParseInit /\ [][ParseNext]_parseVars
FairParseSpec == ParseSpec /\ WF_parseVars(ParseNext)
-----------------------------------------------------------------------------
(* A ternary has operands.                                                 *)
ShuntingAssumption ==
    /\ \A t \in DOMAIN Tables : \A o \in Tables[t] : o.operands \in Nat /\ (o.id = "?:" => o.operands # 0)
    /\ \A i \in Inputs : i.table \in DOMAIN Tables
ASSUME ShuntingAssumption

OperEntry == {NoOp} \cup UNION {Tables[t] : t \in DOMAIN Tables}

(* The type invariant.                                                     *)
ParseTypeOK ==
    /\ input.table \in DOMAIN Tables /\ pos \in Nat \ {0} /\ ternaries \in Int /\ wantop \in BOOLEAN
    /\ stage \in {"token", "operator", "close", "end"} \cup Final
    /\ cur \in OperEntry
    /\ ops \in Seq([isparen : BOOLEAN, op : OperEntry, off : Nat])
    /\ paren \in Seq(ParenType) /\ argc \in Seq(Nat)
    /\ mark \in Seq([ops : Nat, argc : Nat])
    /\ out \in Seq({out[k] : k \in DOMAIN out})

(* The stacks that are pushed and popped in different places agree:        *)
(* whenever the code looks at the back of one of them there is something,  *)
(* and it is what was pushed along with the back of the other - an open    *)
(* parenthesis has its kind, a ternary that is applied is in its last      *)
(* part, a call has a count of its arguments, and nothing is left open     *)
(* when all operators are applied.                                         *)
StacksAgree ==
    /\ OnParen => paren # <<>> /\ Back(paren) # "ternary2"
    /\ ~OpsEmpty /\ ~OnParen /\ Applied.id = "?:" => InTernary2
    /\ paren # <<>> /\ Back(paren) = "func" => argc # <<>>
    /\ OnParen /\ Back(paren) = "index" => Len(ops) > 1 /\ ops[Len(ops) - 1].op.id = "["
    /\ OpsEmpty => paren = <<>>
=============================================================================
