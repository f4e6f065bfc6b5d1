----------------------------- MODULE Emulation -----------------------------
(***************************************************************************)
(* Operations no engine has, emulated by several statements (ir.cpp:       *)
(* gen_blocks_recursive): the result's words are written while operands    *)
(* are still to be read, and the result may be in the same place as one of *)
(* them.  For a temporary, life ranges see to that; a result that the      *)
(* peephole pass writes right into a variable may be anywhere.             *)
(*                                                                         *)
(* Words 1 to 9 hold three vectors or nine floats, the first of them the   *)
(* result, 10 to 15 are m_vinstr_temp.                                     *)
(***************************************************************************)
EXTENDS Instructions

CONSTANTS Memories,         \* initial contents of the words, sequences of numbers
          JoinsOverlapping  \* joined too: a component of the result over all of another vector

ASSUME EmulationAssumption == Memories \subseteq [1 .. 9 -> Int]

VARIABLES instr,   \* [op, r, a, b, joined]: an instruction and the words of its operands
          words,
          pc,
          before   \* history: the words before the first statement

emulationVars == <<instr, words, pc, before>>

Temp0 == 10
Temp1 == 13

Statement(op, a, b, c) == [op |-> op, a |-> a, b |-> b, c |-> c]

Componentwise(op, i, step) == [j \in 1 .. 3 |-> Statement(op, i.a + j - 1, i.b + step * (j - 1), i.r + j - 1)]

(* Both halves of an exclusive or, or of a cross product, then one less    *)
(* the other.                                                              *)
Xor(i, j, step) == <<Statement("BITOR", i.a + j, i.b + step * j, Temp1 + j),
                     Statement("BITAND", i.a + j, i.b + step * j, Temp0 + j)>>
Products(i, j) == <<Statement("MUL_F", i.a + ((j + 1) % 3), i.b + ((j + 2) % 3), Temp1 + j),
                    Statement("MUL_F", i.a + ((j + 2) % 3), i.b + ((j + 1) % 3), Temp0 + j)>>
Difference(i) == <<Statement("SUB_V", Temp1, Temp0, i.r)>>

statements(i) ==
    CASE i.op = "BITXOR" -> Xor(i, 0, 0) \o <<Statement("SUB_F", Temp1, Temp0, i.r)>>
      [] i.op = "BITAND_V" -> Componentwise("BITAND", i, 1)
      [] i.op = "BITAND_VF" -> Componentwise("BITAND", i, 0)
      [] i.op = "BITOR_V" -> Componentwise("BITOR", i, 1)
      [] i.op = "BITOR_VF" -> Componentwise("BITOR", i, 0)
      [] i.op = "BITXOR_V" -> Xor(i, 0, 1) \o Xor(i, 1, 1) \o Xor(i, 2, 1) \o Difference(i)
      [] i.op = "BITXOR_VF" -> Xor(i, 0, 0) \o Xor(i, 1, 0) \o Xor(i, 2, 0) \o Difference(i)
      [] i.op = "CROSS" -> Products(i, 0) \o Products(i, 1) \o Products(i, 2) \o Difference(i)

(* Mutant: only what is read twice lives on.                               *)
ExtraLifeCross(op) == {k \in {1, 2} : op \in {"BITXOR", "BITXOR_VF", "BITXOR_V", "CROSS"}}

(* "These operations need a special case as they can break when using same *)
(* source and destination operand otherwise": the operands that stay alive *)
(* until after the instruction, with the vector they are a member of.      *)
ExtraLife(op) ==
    {k \in {1, 2} : \/ op \in {"BITXOR", "BITXOR_VF", "BITXOR_V", "CROSS"}
                    \/ k = 2 /\ op \in {"BITAND_VF", "BITOR_VF"}}

Floats(op) == IF op = "BITXOR" THEN {1, 2} ELSE IF op \in {"BITAND_VF", "BITOR_VF", "BITXOR_VF"} THEN {2} ELSE {}
Addresses(op, k) == IF k \in Floats(op) THEN 1 .. 9 ELSE {1, 4, 7}
InResult(x) == x \in 1 .. 3
MayShare(i) == /\ InResult(i.a) => 1 \notin ExtraLife(i.op)
               /\ InResult(i.b) => 2 \notin ExtraLife(i.op)

Overlapping(i) == i.op \in {"BITAND_VF", "BITOR_VF"} /\ InResult(i.b) /\ ~InResult(i.a)

Allocated(i) == IF i.joined THEN Overlapping(i) => JoinsOverlapping ELSE MayShare(i)

EmulationStart(i, memory) ==
    /\ instr = i
    /\ words = [k \in 1 .. 15 |-> IF k < 10 THEN F(memory[k]) ELSE F(0)] /\ before = words
    /\ pc = 1
Instruction(op) ==
    {i \in [op : {op}, r : IF op = "BITXOR" THEN 1 .. 3 ELSE {1},
            a : Addresses(op, 1), b : Addresses(op, 2), joined : BOOLEAN] : Allocated(i)}
EmulationInit == \E op \in EmulatedOps, memory \in Memories : \E i \in Instruction(op) : EmulationStart(i, memory)

Difference3(w, s) == [w EXCEPT ![s.c] = Sub(w[s.a], w[s.b]), ![s.c + 1] = Sub(w[s.a + 1], w[s.b + 1]),
                               ![s.c + 2] = Sub(w[s.a + 2], w[s.b + 2])]
ExecStatement ==
    /\ pc \in DOMAIN statements(instr)
    /\ LET s == statements(instr)[pc]
       IN words' = IF s.op = "SUB_V" THEN Difference3(words, s)
                   ELSE [words EXCEPT ![s.c] = Instr(s.op, words[s.a], words[s.b])]
    /\ pc' = pc + 1
    /\ UNCHANGED <<instr, before>>

EmulationNext == ExecStatement
EmulationSpec == EmulationInit /\ [][EmulationNext]_emulationVars
-----------------------------------------------------------------------------
VectorAt(w, x) == <<w[x], w[x + 1], w[x + 2]>>
OperandOf(k, x) == IF k \in Floats(instr.op) THEN before[x] ELSE VectorAt(before, x)

(* An emulated operation gives what its operands had before it, wherever   *)
(* its result is, and changes no other word.                               *)
ResultOfOperands ==
    pc > Len(statements(instr)) =>
        LET result == Instr(instr.op, OperandOf(1, instr.a), OperandOf(2, instr.b))
            own    == IF instr.op = "BITXOR" THEN {instr.r} ELSE instr.r .. (instr.r + 2)
        IN /\ IF instr.op = "BITXOR" THEN words[instr.r] = result ELSE VectorAt(words, instr.r) = result
           /\ \A k \in (1 .. 9) \ own : words[k] = before[k]
=============================================================================
