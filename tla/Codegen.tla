------------------------------- MODULE Codegen -------------------------------
(***************************************************************************)
(* A function's source and what the compiler makes of it - parser,         *)
(* ast.cpp's codegen, the IR passes and the code layout - run side by      *)
(* side.  Both stop where a builtin is called; the outside then gives both *)
(* the same result and changes the variables of both in the same way.      *)
(***************************************************************************)
EXTENDS CodeLayout

CONSTANTS Program,       \* the functions to compile: blocks
          Val            \* values of a variable, 0 and 1 among them

VARIABLES function,      \* the source
          ir,            \* its blocks, after the passes
          code,          \* its statements
          source,        \* the machine of SourceRun
          pc,            \* the statement to execute, from 0
          mem            \* variables, temporaries and OFS_RETURN

vars == <<function, ir, code, source, pc, mem>>

Compiled(t) == GenerateFunction(ParseStatement(t, <<>>, <<>>))

(* Both sides at the start of function f, with `work` left to do.          *)
Start(f, work, variables) ==
    /\ function = f
    /\ ir = Finalize(Compiled(f))
    /\ code = GenFunctionCode(ir).statements
    /\ pc = 0
    /\ source = [work |-> work, vals |-> <<>>, variables |-> variables]
    /\ mem = variables @@ [x \in OFS_RETURN .. ir.values |-> 0]
Init == \E f \in Program, variables \in [Variable -> Val] : Start(f, <<f>>, variables)
-----------------------------------------------------------------------------
(* The executor.                                                           *)
Here == code[pc + 1]
Word(a) == IF a >= Constant(0) THEN a - Constant(0) ELSE mem[a]

CodeEnded == Here.op \in {"RETURN", "DONE"}
CodeCalls == Here.op = "CALL"
CodeStops == CodeEnded \/ CodeCalls

NextPc == CASE Here.op = "GOTO"  -> pc + Here.o1
            [] Here.op = "IF"    -> IF Word(Here.o1) # 0 THEN pc + Here.o2 ELSE pc + 1
            [] Here.op = "IFNOT" -> IF Word(Here.o1) = 0 THEN pc + Here.o2 ELSE pc + 1
            [] OTHER             -> pc + 1
NextMem == CASE Here.op = "STORE" -> [mem EXCEPT ![Here.o2] = Word(Here.o1)]
             [] Here.op = "NOT"   -> [mem EXCEPT ![Here.o3] = Bool(Word(Here.o1) = 0)]
             [] Here.op = "AND"   -> [mem EXCEPT ![Here.o3] =
                                        Bool(Word(Here.o1) # 0 /\ Word(Here.o2) # 0)]
             [] Here.op = "EQ"    -> [mem EXCEPT ![Here.o3] = Bool(Word(Here.o1) = Word(Here.o2))]
             [] OTHER             -> mem

(* What no one outside sees: both sides go on until they stop.             *)
Silent ==
    /\ ~(SourceStops(source) /\ CodeStops)
    /\ source' = IF SourceStops(source) THEN source ELSE SourceStep(function, source)
    /\ pc' = IF CodeStops THEN pc ELSE NextPc
    /\ mem' = IF CodeStops THEN mem ELSE NextMem
    /\ UNCHANGED <<function, ir, code>>

(* A builtin is called.                                                    *)
Called(result, variables) ==
    /\ SourceCalls(source) /\ CodeCalls
    /\ source' = AfterCall(source, result, variables)
    /\ pc' = pc + 1
    /\ mem' = [a \in DOMAIN mem |-> IF a = OFS_RETURN THEN result
                                    ELSE IF a \in Variable THEN variables[a] ELSE mem[a]]
    /\ UNCHANGED <<function, ir, code>>

Next == \/ Silent
        \/ \E result \in Val, variables \in [Variable -> Val] : Called(result, variables)

Spec == Init /\ [][Next]_vars

(* The executor runs as long as it can.                                    *)
FairSpec == Spec /\ WF_vars(Silent)
-----------------------------------------------------------------------------
TypeOK ==
    /\ pc \in 0 .. Len(code) - 1
    /\ mem \in [OFS_RETURN .. ir.values -> Val]
    /\ source.variables \in [Variable -> Val]

(* The compiled function calls what the source calls, in the same order    *)
(* and with the same variables, and ends when the source ends: whatever    *)
(* way blocks are split, merged, moved, dropped, placed and jumped to.     *)
SameCalls ==
    SourceStops(source) /\ CodeStops =>
       /\ SourceCalls(source) = CodeCalls
       /\ CodeCalls => Head(source.work).n = Here.o1
       /\ \A v \in Variable : mem[v] = source.variables[v]

(* Neither side goes round for ever when the other one gets somewhere.     *)
CatchesUp == (SourceStops(source) \/ CodeStops) ~> (SourceStops(source) /\ CodeStops)

(* The lowering never adds to a block that has ended, and every block that *)
(* can be reached ends, with its last instruction only.                    *)
Targets(ins) == CASE ins.op = "JUMP" -> {ins.to}
                  [] ins.op = "COND" -> {ins.yes, ins.no}
                  [] OTHER           -> {}
Ends(ins) == ins.op \in {"JUMP", "COND", "RETURN"}
WellEnded(b) ==
    /\ ir.code[b] # <<>>
    /\ \A i \in DOMAIN ir.code[b] : Ends(ir.code[b][i]) <=> i = Len(ir.code[b])
RECURSIVE Reached(_)
Reached(S) == LET T == S \cup UNION {Targets(Last(ir.code[b])) : b \in {c \in S : ir.code[c] # <<>>}}
              IN IF T = S THEN S ELSE Reached(T)
BlocksEnd == ~ir.failed /\ \A b \in Reached({ir.blocks[1]}) : WellEnded(b)
=============================================================================
