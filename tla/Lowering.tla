------------------------------ MODULE Lowering ------------------------------
(***************************************************************************)
(* The codegen methods of ast.cpp: a syntax tree becomes the blocks of an  *)
(* ir_function.  F is that function while it is built, together with what  *)
(* ast_function keeps: the current block and where to break and continue.  *)
(*                                                                         *)
(* A block is a number, in the order of creation; m_blocks is an order of  *)
(* them.  Values are addresses: variables, then temporaries, and constants *)
(* from Constant(0) on.                                                    *)
(***************************************************************************)
EXTENDS Parser, FiniteSets, TLC

CONSTANTS Variable,      \* the variables of the function: 1 .. n
          Label          \* names of its labels

NoBlock == 0
NoValue == 0
Constant(n) == 100 + n
IsTemp(v) == v \notin Variable /\ v < Constant(0)

NewFunction == [code |-> <<>>, final |-> <<>>, blocks |-> <<>>, cur |-> NoBlock,
                breakblocks |-> <<>>, continueblocks |-> <<>>,
                label |-> [l \in Label |-> NoBlock], gotos |-> [l \in Label |-> <<>>],
                values |-> Cardinality(Variable), failed |-> FALSE]

(* ir_function_create_block: the new block is number Len(F'.code).         *)
NewBlock(F) == [F EXCEPT !.code = Append(@, <<>>), !.final = Append(@, FALSE),
                         !.blocks = Append(@, Len(F.code) + 1)]
Newest(F) == Len(F.code)
NextBlock(F) == Len(F.code) + 1
Enter(F, b) == [F EXCEPT !.cur = b]
EnterNew(F) == Enter(NewBlock(F), NextBlock(F))
IsFinal(F) == F.final[F.cur]

(* algo::shiftback                                                         *)
MoveToEnd(F, b) == [F EXCEPT !.blocks = Append(Remove(@, b), b)]

(* ir_block_create_*: no instruction follows one that ends the block.      *)
Add(F, b, ins) ==
    IF F.final[b] THEN [F EXCEPT !.failed = TRUE]
    ELSE [F EXCEPT !.code[b] = Append(@, ins),
                   !.final[b] = ins.op \in {"JUMP", "COND", "RETURN"}]
Jump(F, b, to) == Add(F, b, [op |-> "JUMP", to |-> to])
Cond(F, b, v, yes, no) == Add(F, b, [op |-> "COND", a |-> v, yes |-> yes, no |-> no])

(* Mutant: a block that ended, with a return for instance, gets a jump.    *)
JumpAlways(F, b, to) == Jump(F, b, to)

JumpUnlessFinal(F, b, to) == IF F.final[b] THEN F ELSE Jump(F, b, to)

(* An instruction with a new temporary as its result: [f, v].              *)
Compute(F, ins) ==
    [f |-> Add([F EXCEPT !.values = @ + 1], F.cur, [d |-> F.values + 1] @@ ins),
     v |-> F.values + 1]
Operation(op, a, b) == [op |-> op, a |-> a, b |-> b]
-----------------------------------------------------------------------------
(* Expressions: the function, and the value that holds the result.  What a *)
(* codegen method does after each part it generates is an operator of its  *)
(* own, on what that part left.                                            *)
RECURSIVE GenExpr(_, _)

(* The left operand of && and || decides whether the right one is needed.  *)
Short(F, t, other, merge, v) ==
    IF t.k = "and" THEN Cond(F, F.cur, v, other, merge) ELSE Cond(F, F.cur, v, merge, other)

(* ast_binary::codegen with -fshort-logic: the blocks meet in merge, which *)
(* takes the value of the operand it was reached from and casts it.        *)
PhiOf(F, one, other) ==
    Compute(F, [op |-> "PHI", from |-> << <<one.f.cur, one.v>>, <<other.f.cur, other.v>> >>])
Cast(x) == Compute(x.f, Operation("AND", x.v, x.v))
LogicMerge(right, left, merge) ==
    Cast(PhiOf(Enter(MoveToEnd(Jump(right.f, right.f.cur, merge), merge), merge), left, right))
LogicRight(left, merge, t) ==
    LogicMerge(GenExpr(Enter(Short(NewBlock(left.f), t, NextBlock(left.f), merge, left.v),
                             NextBlock(left.f)), t.y), left, merge)
GenLogic(F, t) == LogicRight(GenExpr(NewBlock(F), t.x), NextBlock(F), t)

(* ast_ternary::codegen                                                    *)
TernaryMerge(no, yes, cond) ==
    LET merge  == NextBlock(no.f)
        joined == Jump(Jump(NewBlock(no.f), yes.f.cur, merge), no.f.cur, merge)
    IN PhiOf(Enter(Cond(joined, cond.f.cur, cond.v, NextBlock(cond.f), NextBlock(yes.f)), merge),
             yes, no)
TernaryNo(yes, cond, t) == TernaryMerge(GenExpr(EnterNew(yes.f), t.y), yes, cond)
TernaryYes(cond, t) == TernaryNo(GenExpr(EnterNew(cond.f), t.x), cond, t)
GenTernary(F, t) == TernaryYes(GenExpr(F, t.c), t)

Negation(x) == Compute(x.f, Operation("NOT", x.v, 0))

GenExpr(F, t) ==
    CASE t.k = "num"  -> [f |-> F, v |-> Constant(t.n)]
      [] t.k = "var"  -> [f |-> F, v |-> t.v]
      [] t.k = "call" -> Compute(F, [op |-> "CALL", n |-> t.n, params |-> <<>>])
      [] t.k = "not"  -> Negation(GenExpr(F, t.x))
      [] t.k \in {"and", "or"} -> GenLogic(F, t)
      [] t.k = "tern" -> GenTernary(F, t)
-----------------------------------------------------------------------------
(* Statements: the function after them.                                    *)
RECURSIVE Gen(_, _)

FirstOf(blocks) == blocks[SelectInSeq(blocks, LAMBDA b : b # NoBlock)]

(* A part of a statement in a block of its own, if there is such a part:   *)
(* the block, the block it ends in, and its value if it is an expression.  *)
NoPart(F) == [f |-> F, from |-> NoBlock, end |-> NoBlock, v |-> 0]
Part(x, b) == [f |-> x.f, from |-> b, end |-> x.f.cur, v |-> x.v]
StatementPart(F, b, t) ==
    IF t = None THEN NoPart(F) ELSE Part([f |-> Gen(Enter(F, b), t), v |-> 0], b)
ExprPart(F, b, t) == IF t = None THEN NoPart(F) ELSE Part(GenExpr(Enter(F, b), t), b)
BlockIf(F, t) == IF t = None THEN F ELSE NewBlock(F)
NextBlockIf(F, t) == IF t = None THEN NoBlock ELSE NextBlock(F)

JumpFrom(F, part, to) == IF part.from = NoBlock THEN F ELSE Jump(F, part.end, to)
LeavePart(F, part, to) == IF part.from = NoBlock THEN F ELSE JumpUnlessFinal(F, part.end, to)

(* ast_ifthen::codegen                                                     *)
IfThenMerge(no, yes, cond) ==
    LET Open(part) == part.from = NoBlock \/ ~no.f.final[part.end]
        merge  == NextBlock(no.f)
        joined == IF Open(yes) \/ Open(no)
                  THEN Enter(LeavePart(LeavePart(NewBlock(no.f), yes, merge), no, merge), merge)
                  ELSE no.f
    IN Cond(joined, cond.f.cur, cond.v, FirstOf(<<yes.from, merge>>), FirstOf(<<no.from, merge>>))
IfThenNo(yes, cond, t) ==
    IfThenMerge(StatementPart(BlockIf(yes.f, t.f), NextBlock(yes.f), t.f), yes, cond)
IfThenYes(cond, t) ==
    IfThenNo(StatementPart(BlockIf(cond.f, t.t), NextBlock(cond.f), t.t), cond, t)
GenIfThen(F, t) == IfThenYes(GenExpr(F, t.c), t)

(* Mutant: continue starts the next round without the increment.           *)
ContinueAtTest(pre, inc, post, body) == FirstOf(<<post, pre, inc, body>>)

ContinueBlock(pre, inc, post, body) == FirstOf(<<post, inc, pre, body>>)

CondOrNot(F, b, v, not, yes, no) == IF not THEN Cond(F, b, v, no, yes) ELSE Cond(F, b, v, yes, no)

(* ast_loop::codegen.  B holds the blocks of the loop: the one before it,  *)
(* the part that is the test before the body, and the increment, the test  *)
(* after the body, the way out and the body, made in this order.           *)
LoopBlocks(pre, in, t) ==
    LET f == BlockIf(pre.f, t.inc)
        g == BlockIf(f, t.post)
    IN [f |-> NewBlock(NewBlock(g)), in |-> in, pre |-> pre,
        inc |-> NextBlockIf(pre.f, t.inc), post |-> NextBlockIf(f, t.post),
        out |-> NextBlock(g), body |-> NextBlock(g) + 1]
LoopHead(B) == FirstOf(<<B.pre.from, B.body>>)

LoopJumps(inc, post, body_end, B, t) ==
    LET intoloop == Jump(Enter(inc.f, B.out), B.in, LoopHead(B))
        test     == IF B.pre.from = NoBlock THEN intoloop
                    ELSE CondOrNot(intoloop, B.pre.end, B.pre.v, t.pre_not, B.body, B.out)
        round    == JumpFrom(JumpUnlessFinal(test, body_end, FirstOf(<<B.inc, B.post, LoopHead(B)>>)),
                             inc, FirstOf(<<B.post, LoopHead(B)>>))
    IN MoveToEnd(IF B.post = NoBlock THEN round
                 ELSE CondOrNot(round, post.end, post.v, t.post_not, LoopHead(B), B.out), B.out)
LoopInc(post, body_end, B, t) ==
    LoopJumps(StatementPart(post.f, B.inc, t.inc), post, body_end, B, t)
LoopPost(body, B, t) ==
    LoopInc(ExprPart([body EXCEPT !.breakblocks = Front(@), !.continueblocks = Front(@)],
                     B.post, t.post), body.cur, B, t)
LoopBody(B, t) ==
    LoopPost(Gen([B.f EXCEPT !.cur = B.body, !.breakblocks = Append(@, B.out),
                    !.continueblocks = Append(@, ContinueBlock(B.pre.from, B.inc, B.post, B.body))],
                 t.body), B, t)
LoopPre(in, t) ==
    LoopBody(LoopBlocks(ExprPart(BlockIf(in, t.pre), NextBlock(in), t.pre), in.cur, t), t)
GenLoop(F, t) == LoopPre(Gen(F, t.init), t)

(* ast_switch::codegen.  S is what the loop over the cases keeps: the      *)
(* function, the end of the last case, the default case, the end of the    *)
(* case before it, whether the next case is the one it falls through to,   *)
(* and that case.                                                          *)
SwitchStart(F) == [f |-> F, bfall |-> NoBlock, default |-> None, def_bfall |-> NoBlock,
                   set_def_bfall_to |-> FALSE, def_bfall_to |-> NoBlock]

FallTo(F, from, to) == IF from = NoBlock THEN F ELSE JumpUnlessFinal(F, from, to)

EndCase(S, code, bcase) ==
    [S EXCEPT !.f = MoveToEnd(Enter(code, bcase + 1), bcase + 1), !.bfall = code.cur,
              !.set_def_bfall_to = FALSE,
              !.def_bfall_to = IF S.set_def_bfall_to THEN bcase ELSE @]
CaseCode(S, test, bcase, code) ==
    LET branch == Cond(NewBlock(NewBlock(test.f)), test.f.cur, test.v, bcase, bcase + 1)
    IN EndCase(S, Gen(Enter(FallTo(branch, S.bfall, bcase), bcase), code), bcase)
CaseTest(S, val, irop, code) ==
    CaseCode(S, Compute(val.f, Operation("EQ", irop, val.v)), NextBlock(val.f), code)
RegularCase(S, c, irop) == CaseTest(S, GenExpr(S.f, c.v), irop, c.code)

(* Mutant: the case after default is not remembered.                       *)
DefaultCaseLast(S, c) ==
    [S EXCEPT !.default = c.code, !.def_bfall = S.bfall, !.bfall = NoBlock]

DefaultCase(S, c) ==
    [S EXCEPT !.default = c.code, !.def_bfall = S.bfall, !.bfall = NoBlock,
              !.set_def_bfall_to = TRUE]

SwitchEnd(F, bout) ==
    MoveToEnd([JumpUnlessFinal(F, F.cur, bout) EXCEPT !.cur = bout, !.breakblocks = Front(@)], bout)
FallFromDefault(F, to) == IF to = NoBlock THEN F ELSE JumpUnlessFinal(F, F.cur, to)
DefaultCode(F, S) ==
    IF S.default = None THEN F
    ELSE FallFromDefault(Gen(FallTo(F, S.def_bfall, F.cur), S.default), S.def_bfall_to)
SwitchDefault(S, bout) == SwitchEnd(DefaultCode(FallTo(S.f, S.bfall, bout), S), bout)
SwitchCases(operand, bout, t) ==
    LET Case(S, c) == IF c.v = Default THEN DefaultCase(S, c) ELSE RegularCase(S, c, operand.v)
        start == [NewBlock(operand.f) EXCEPT !.breakblocks = Append(@, bout)]
    IN IF t.cases = <<>> THEN operand.f
       ELSE SwitchDefault(FoldLeft(Case, SwitchStart(start), t.cases), bout)
SwitchOperand(operand, t) == SwitchCases(operand, NextBlock(operand.f), t)
GenSwitch(F, t) == SwitchOperand(GenExpr(F, t.x), t)

(* ast_breakcont::codegen                                                  *)
GenBreakCont(F, t) ==
    LET targets == IF t.is_continue THEN F.continueblocks ELSE F.breakblocks
    IN Jump(F, F.cur, targets[Len(targets) - t.levels])

(* ast_goto::codegen, the second time: the block that was closed "in a     *)
(* sneaky way" is opened again for the jump.                               *)
Finish(F, from, to) == Jump([F EXCEPT !.final[from] = FALSE], from, to)

(* ast_label::codegen                                                      *)
GenLabel(F, t) ==
    LET b == NextBlock(F)
    IN FoldLeft(LAMBDA g, from : Finish(g, from, b),
                Enter([JumpUnlessFinal(NewBlock(F), F.cur, b) EXCEPT !.label[t.l] = b], b),
                F.gotos[t.l])

(* ast_goto::codegen, the first time                                       *)
GenGoto(F, t) ==
    IF F.label[t.l] # NoBlock THEN Jump(F, F.cur, F.label[t.l])
    ELSE [F EXCEPT !.final[F.cur] = TRUE, !.gotos[t.l] = Append(@, F.cur)]

(* starts_a_label: it reads the first statement of a block that may have   *)
(* none, which is undefined.                                               *)
RECURSIVE FirstStatement(_)
FirstStatement(t) == IF t.k # "block" THEN t
                     ELSE IF t.body = <<>> THEN None ELSE FirstStatement(t.body[1])

(* ast_block::codegen: what follows the end of a block is dropped, unless  *)
(* it starts with a label.                                                 *)
GenBlock(F, t) ==
    LET One(f, s) == IF ~IsFinal(f) THEN Gen(f, s)
                     ELSE IF FirstStatement(s) = None THEN [f EXCEPT !.failed = TRUE]
                     ELSE IF FirstStatement(s).k = "label" THEN Gen(f, s)
                     ELSE f
    IN FoldLeft(One, F, t.body)

StoreTo(x, v) == Add(x.f, x.f.cur, [op |-> "STORE", d |-> v, a |-> x.v])

Gen(F, t) ==
    CASE t.k = "none"      -> F
      [] t.k = "block"     -> GenBlock(F, t)
      [] t.k = "expr"      -> GenExpr(F, t.x).f
      [] t.k = "set"       -> StoreTo(GenExpr(F, t.x), t.v)
      [] t.k = "ifthen"    -> GenIfThen(F, t)
      [] t.k = "loop"      -> GenLoop(F, t)
      [] t.k = "switch"    -> GenSwitch(F, t)
      [] t.k = "breakcont" -> GenBreakCont(F, t)
      [] t.k = "label"     -> GenLabel(F, t)
      [] t.k = "goto"      -> GenGoto(F, t)
      [] t.k = "return"    -> Add(F, F.cur, [op |-> "RETURN", a |-> NoValue])

(* ast_function::generateFunction, of a function that returns nothing      *)
EndFunction(F) == IF IsFinal(F) THEN F ELSE Add(F, F.cur, [op |-> "RETURN", a |-> NoValue])
GenerateFunction(t) == EndFunction(Gen(EnterNew(NewFunction), t))
=============================================================================
