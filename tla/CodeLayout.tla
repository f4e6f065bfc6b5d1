----------------------------- MODULE CodeLayout -----------------------------
(***************************************************************************)
(* gen_blocks_recursive and gen_function_code (ir.cpp): the blocks of a    *)
(* function become statements.  A block is placed where it is reached      *)
(* first, with no jump to it; it is jumped to from then on.                *)
(*                                                                         *)
(* C holds code->statements, and of every block m_code_start and whether   *)
(* it was generated.  Statements are counted from 0, as in the source;     *)
(* jumps hold distances.  OFS_RETURN is address 0.                         *)
(***************************************************************************)
EXTENDS IrPasses

CONSTANTS VoidReturn         \* -Ovoid-return

OFS_RETURN == 0

NewCode(F) == [statements |-> <<>>, generated |-> {},
               start |-> [b \in DOMAIN F.code |-> 0]]
Size(C) == Len(C.statements)
Statement(op, o1, o2, o3) == [op |-> op, o1 |-> o1, o2 |-> o2, o3 |-> o3]
Push(C, s) == [C EXCEPT !.statements = Append(@, s)]
Distance(C, b) == C.start[b] - Size(C)

(* Mutant: the distance is taken after the jump is added.                  *)
PushGotoLate(C, b) == Push(C, Statement("GOTO", Distance(C, b) - 1, 0, 0))

(* A jump to a block that was generated, unless that is the next statement.*)
PushGoto(C, b) == IF Distance(C, b) = 1 THEN C
                  ELSE Push(C, Statement("GOTO", Distance(C, b), 0, 0))
PushIf(C, op, v, b) ==
    IF b \notin C.generated \/ Distance(C, b) = 1 THEN C
    ELSE Push(C, Statement(op, v, Distance(C, b), 0))

(* A conditional jump over nothing: the statement behind it takes its      *)
(* place, and its own distance, if that is one, is corrected.  What blocks *)
(* know of their m_code_start is not.                                      *)
JumpsOverNothing(C, at) == at + 2 = Size(C) /\ C.statements[at + 1].o2 = 1
DropJump(C, at) ==
    LET moved == C.statements[at + 2]
    IN [C EXCEPT !.statements =
          Append(SubSeq(@, 1, at), IF moved.o1 < 0 THEN [moved EXCEPT !.o1 = @ + 1] ELSE moved)]

(* The statements with VINSTR_COND's jump at `at` going to distance d.     *)
FixUp(C, at, d) == [C EXCEPT !.statements[at + 1].o2 = d]

EndsCode(C) == Last(C.statements).op \in {"GOTO", "IF", "IFNOT", "RETURN", "DONE"}

RECURSIVE GenBlocks(_, _, _)

(* VINSTR_COND when neither target has its place yet (or both have):       *)
(* IFNOT, what is done on true, and what is done on false behind it or     *)
(* wherever the true part placed it.                                       *)
AfterTrue(ontrue, at, F, no) ==
    LET fixed  == FixUp(ontrue, at, ontrue.start[no] - at)
        placed == IF JumpsOverNothing(fixed, at) THEN DropJump(fixed, at) ELSE fixed
    IN IF no \notin ontrue.generated
       THEN GenBlocks(FixUp(ontrue, at, Size(ontrue) - at), F, no)
       ELSE IF EndsCode(placed) THEN placed ELSE PushGoto(placed, no)
Branch(C, F, ins) ==
    AfterTrue(GenBlocks(Push(C, Statement("IFNOT", ins.a, 0, 0)), F, ins.yes), Size(C), F, ins.no)

GenCond(C, F, ins) ==
    LET jumps == PushIf(PushIf(C, "IF", ins.a, ins.yes), "IFNOT", ins.a, ins.no)
        known == {ins.yes, ins.no} \cap C.generated
    IN CASE known = {} \/ {ins.yes, ins.no} \subseteq known -> Branch(jumps, F, ins)
         [] ins.yes \notin known -> GenBlocks(jumps, F, ins.yes)
         [] ins.no \notin known  -> GenBlocks(jumps, F, ins.no)

(* A call; its result is taken from OFS_RETURN.  Functions whose result no *)
(* one reads are taken to be void: they have none to store.                *)
GenCall(C, F, ins) ==
    LET called == Push(C, Statement("CALL", ins.n, 0, 0))
    IN IF ins.d \in Variable \/ NReads(F, ins.d) > 0
       THEN Push(called, Statement("STORE", OFS_RETURN, ins.d, 0)) ELSE called

GenOther(C, F, ins) ==
    CASE ins.op = "CALL"   -> GenCall(C, F, ins)
      [] ins.op = "STORE"  -> IF ins.a = ins.d THEN C ELSE Push(C, Statement("STORE", ins.a, ins.d, 0))
      [] ins.op = "RETURN" -> Push(C, Statement("RETURN", 0, 0, 0))
      [] OTHER             -> Push(C, Statement(ins.op, ins.a, ins.b, ins.d))

(* The instructions of block b from the i-th on; a jump ends them.         *)
RECURSIVE GenFrom(_, _, _, _)
GenFrom(C, F, b, i) ==
    IF i > Len(F.code[b]) THEN C
    ELSE LET ins == F.code[b][i]
         IN CASE ins.op = "JUMP" -> IF ins.to \notin C.generated THEN GenBlocks(C, F, ins.to)
                                    ELSE PushGoto(C, ins.to)
              [] ins.op = "COND" -> GenCond(C, F, ins)
              [] OTHER           -> GenFrom(GenOther(C, F, ins), F, b, i + 1)

GenBlocks(C, F, b) ==
    GenFrom([C EXCEPT !.generated = @ \cup {b}, !.start[b] = Size(C)], F, b, 1)

(* gen_function_code: the function ends with DONE.                         *)
GenFunctionCode(F) ==
    LET C == GenBlocks(NewCode(F), F, F.blocks[1])
    IN IF VoidReturn /\ Last(C.statements).op = "RETURN"
       THEN [C EXCEPT !.statements[Size(C)].op = "DONE"]
       ELSE Push(C, Statement("DONE", 0, 0, 0))
=============================================================================
