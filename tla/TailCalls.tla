----------------------------- MODULE TailCalls -----------------------------
(***************************************************************************)
(* A function that calls itself, run by the executor as it was lowered and *)
(* after the passes that make a loop of the call: the caller sees the same *)
(* result and the same globals.                                            *)
(*                                                                         *)
(* A machine is at a place of the blocks, with the function's words, the   *)
(* globals and constants among them, and the activations that wait for it. *)
(***************************************************************************)
EXTENDS IrPasses

CONSTANTS Recursive,  \* functions: [ir, params, globals], their first params variables the parameters
          Bit         \* values of a word, 0 and 1 among them

VARIABLES self,    \* the function
          plain,   \* the machine of self.ir
          passed,  \* its blocks after the passes
          looped   \* the machine of these

tailVars == <<self, plain, passed, looped>>

MachineAt(mem) == [at |-> <<1, 1>>, mem |-> mem, waiting |-> <<>>, result |-> 0, ended |-> FALSE]

TailStart(f, mem) ==
    /\ self = f
    /\ \E blocks \in {Peephole(f.ir), f.ir} : passed = TailRecursion(blocks)
    /\ plain = MachineAt(mem) /\ looped = MachineAt(mem)
TailInit == \E f \in Recursive : \E mem \in [(1 .. f.params) \cup f.globals -> Bit] :
                TailStart(f, mem @@ [v \in 1 .. f.ir.values |-> 0])
-----------------------------------------------------------------------------
Operand(m, a) == IF a >= Constant(0) THEN a - Constant(0) ELSE m.mem[a]
Further(m) == [m EXCEPT !.at[2] = @ + 1]
Set(m, d, v) == [m EXCEPT !.mem[d] = v]

(* The callee's words are the caller's but for the parameters.             *)
Entered(m, ins) ==
    [m EXCEPT !.at = <<1, 1>>,
              !.mem = [v \in DOMAIN @ |-> IF v \in DOMAIN ins.params THEN Operand(m, ins.params[v]) ELSE @[v]],
              !.waiting = Append(@, [at |-> Further(m).at, mem |-> m.mem, d |-> ins.d])]

(* The caller's words come back, the globals stay.                         *)
Resumed(m, v) ==
    LET caller == Last(m.waiting)
    IN IF m.waiting = <<>> THEN [m EXCEPT !.result = v, !.ended = TRUE]
       ELSE Set([m EXCEPT !.at = caller.at, !.waiting = Front(@),
                          !.mem = [x \in DOMAIN @ |-> IF x \in self.globals THEN @[x] ELSE caller.mem[x]]],
                caller.d, v)

Executed(F, m) ==
    LET ins == F.code[m.at[1]][m.at[2]]
    IN CASE ins.op = "STORE" -> Further(Set(m, ins.d, Operand(m, ins.a)))
         [] ins.op = "NOT" -> Further(Set(m, ins.d, Bool(Operand(m, ins.a) = 0)))
         [] ins.op = "JUMP" -> [m EXCEPT !.at = <<ins.to, 1>>]
         [] ins.op = "COND" -> [m EXCEPT !.at = <<IF Operand(m, ins.a) # 0 THEN ins.yes ELSE ins.no, 1>>]
         [] ins.op = "CALL" -> IF ins.n = Self THEN Entered(m, ins)
                               ELSE Further(Set(m, ins.d, Operand(m, ins.params[1])))
         [] ins.op = "RETURN" -> Resumed(m, IF ins.a = NoValue THEN 0 ELSE Operand(m, ins.a))

RunPlain == /\ ~plain.ended
            /\ plain' = Executed(self.ir, plain)
            /\ UNCHANGED <<self, passed, looped>>
RunLooped == /\ plain.ended /\ ~looped.ended
             /\ looped' = Executed(passed, looped)
             /\ UNCHANGED <<self, passed, plain>>
TailNext == RunPlain \/ RunLooped
-----------------------------------------------------------------------------
(* Without the recursion a function returns what it returned with it and   *)
(* leaves the globals as it did, although its parameters are now stored    *)
(* one after the other in the frame they are read from, and what was done  *)
(* with its result is done once.                                           *)
SameOutcome ==
    plain.ended /\ looped.ended =>
        /\ plain.result = looped.result
        /\ \A g \in self.globals : plain.mem[g] = looped.mem[g]
=============================================================================
