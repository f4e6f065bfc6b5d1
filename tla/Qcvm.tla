-------------------------------- MODULE Qcvm --------------------------------
(***************************************************************************)
(* The call machinery and the control flow of the QuakeC executor          *)
(* (exec.cpp): prog_exec's instruction loop, prog_enterfunction,           *)
(* prog_leavefunction and the runaway loop counter.                        *)
(*                                                                         *)
(* A function's locals are words of `globals` at a fixed place.  Entering  *)
(* a function pushes the words at that place on `localstack`; leaving it   *)
(* puts them back.  Two functions may be given the same place (the         *)
(* compiler's -Ooverlap-locals), so ranges may overlap in any way.         *)
(*                                                                         *)
(* The program is any program: at each statement the instruction is chosen *)
(* freely among the kinds the loop tells apart, as long as it writes only  *)
(* where the compiler lets it write and stays inside its function.         *)
(*                                                                         *)
(* pc is the statement that `++st` at the head of the loop steps onto, so  *)
(* the "- 1, offset the ++st" of the source disappears.                    *)
(***************************************************************************)
EXTENDS Integers, Sequences, SequencesExt

CONSTANTS Function,       \* functions with a body (entry >= 0)
          Val,            \* values of a word
          NGlobals,       \* prog->globals.size()
          VecSize,        \* words per parameter and per result: 3
          FirstLocal,     \* function |-> func->firstlocal
          Locals,         \* function |-> func->locals
          ArgSize,        \* function |-> the sequence func->argsize
          Entry,          \* function |-> func->entry
          Size,           \* function |-> number of its statements
          MaxJumps,       \* prog_exec's maxjumps (VM_JUMPS_DEFAULT)
          GotoLimit,      \* the 10000000 of INSTR_GOTO
          Unset,          \* what prog->statement may hold: no one sets it first
          MaxDepth        \* bound of the model: the executor has none

VARIABLES globals,      \* prog->globals
          localstack,   \* prog->localstack
          stack,        \* prog->stack
          statement,    \* prog->statement
          pc,           \* the next statement to execute
          jumpcount,    \* prog_exec's local
          vmerror       \* prog->vmerror > 0

vars == <<globals, localstack, stack, statement, pc, jumpcount, vmerror>>

OFS_RETURN == 1
OFS_PARM0 == OFS_RETURN + VecSize

Addr == 0 .. NGlobals - 1
LocalsOf == [f \in Function |-> FirstLocal[f] .. FirstLocal[f] + Locals[f] - 1]
Shared == {a \in Addr : \A f \in Function : a \notin LocalsOf[f]}
BodyOf == [f \in Function |-> Entry[f] .. Entry[f] + Size[f] - 1]
ReturnWord == [k \in 0 .. VecSize - 1 |-> OFS_RETURN + k]
Operand == {a \in Addr : a + VecSize - 1 \in Addr}

(* Word s of parameter p, with the words of the parameters before it.      *)
ArgWords(f) == {w \in (0 .. Len(ArgSize[f]) - 1) \X (0 .. VecSize - 1) :
                   w[2] < ArgSize[f][w[1] + 1]}
ArgBase(f, p) == FoldLeft(LAMBDA sum, n : sum + n, 0, SubSeq(ArgSize[f], 1, p))
ParmPos(f, w) == FirstLocal[f] + ArgBase(f, w[1]) + w[2]
ParmOfs(w) == OFS_PARM0 + VecSize * w[1] + w[2]
Params == [f \in Function |-> {<<ParmPos(f, w), ParmOfs(w)>> : w \in ArgWords(f)}]

(* What the compiler's layout guarantees.                                  *)
LayoutAssumption ==
    /\ NGlobals \in Nat /\ MaxDepth \in Nat /\ VecSize \in Nat \ {0}
    /\ Unset \subseteq Nat
    /\ FirstLocal \in [Function -> Nat] /\ Locals \in [Function -> Nat]
    /\ Entry \in [Function -> Nat] /\ Size \in [Function -> Nat \ {0}]
    /\ \A f \in Function : LocalsOf[f] \subseteq Addr
    /\ 0 \in Shared
    /\ \A k \in DOMAIN ReturnWord : ReturnWord[k] \in Shared

ParamsAssumption ==
    \A f \in Function : \A v, w \in Params[f] :
       /\ w[1] \in LocalsOf[f] /\ w[2] \in Shared
       /\ v[1] = w[1] => v = w

(* The GOTO test is for equality, so an IF that jumps must not be able to  *)
(* step over its limit: it is with the default, 1000000 against 10000000.  *)
LimitsAssumption == /\ MaxJumps \in Nat \ {0} /\ GotoLimit \in Nat
                    /\ MaxJumps <= GotoLimit

ASSUME LayoutAssumption
ASSUME ParamsAssumption
ASSUME LimitsAssumption
-----------------------------------------------------------------------------
Running == stack # <<>>
Top == stack[Len(stack)]
IsLast == pc = Entry[Top.function] + Size[Top.function] - 1

(* Parts of prog_enterfunction: what it backs up, and the parameters.      *)
BackedUp(f, mem) == [k \in 1 .. Locals[f] |-> mem[FirstLocal[f] + k - 1]]
CopyParams(f, mem) ==
    [a \in Addr |-> IF \E w \in Params[f] : w[1] = a
                    THEN mem[(CHOOSE w \in Params[f] : w[1] = a)[2]]
                    ELSE mem[a]]

(* Mutant: the parameters are copied before the locals are backed up.      *)
EnterCopyFirst(f, mem, stmt) ==
    /\ stack' = Append(stack, [stmt |-> stmt, localsp |-> Len(localstack),
                               function |-> f])
    /\ localstack' = localstack \o BackedUp(f, CopyParams(f, mem))
    /\ globals' = CopyParams(f, mem)
    /\ pc' = Entry[f]

(* prog_enterfunction                                                      *)
Enter(f, mem, stmt) ==
    /\ stack' = Append(stack, [stmt |-> stmt, localsp |-> Len(localstack),
                               function |-> f])
    /\ localstack' = localstack \o BackedUp(f, mem)
    /\ globals' = CopyParams(f, mem)
    /\ pc' = Entry[f]

RestoreLocals(mem) ==
    [a \in Addr |-> IF a \in LocalsOf[Top.function]
                    THEN localstack[Top.localsp + a - FirstLocal[Top.function] + 1]
                    ELSE mem[a]]

(* Mutant: the `- 1` that offsets `++st` is applied once too often.        *)
LeaveOffset(mem) ==
    /\ globals' = RestoreLocals(mem)
    /\ localstack' = SubSeq(localstack, 1, Top.localsp)
    /\ stack' = SubSeq(stack, 1, Len(stack) - 1)
    /\ pc' = Top.stmt - 1

(* prog_leavefunction, on the memory mem                                   *)
Leave(mem) ==
    /\ globals' = RestoreLocals(mem)
    /\ localstack' = SubSeq(localstack, 1, Top.localsp)
    /\ stack' = SubSeq(stack, 1, Len(stack) - 1)
    /\ pc' = Top.stmt

(* Mutant: only the calls are dropped, not what they backed up.            *)
CleanUpStackOnly ==
    /\ vmerror' = TRUE
    /\ stack' = <<>>
    /\ UNCHANGED localstack

(* `cleanup:` of prog_exec after an error                                  *)
CleanUp ==
    /\ vmerror' = TRUE
    /\ stack' = <<>>
    /\ localstack' = <<>>

Init ==
    /\ globals \in [Addr -> Val]
    /\ localstack = <<>>
    /\ stack = <<>>
    /\ statement \in Unset
    /\ pc = 0
    /\ jumpcount = 0
    /\ vmerror = FALSE

(* prog_exec, up to the instruction loop; the parameter words were set by  *)
(* prog_main_setparams.                                                    *)
Exec(f, parms) ==
    /\ ~Running
    /\ Enter(f, [a \in Addr |-> IF a \in DOMAIN parms THEN parms[a]
                                                     ELSE globals[a]], statement)
    /\ jumpcount' = 0
    /\ vmerror' = FALSE
    /\ UNCHANGED statement

(* Every instruction that only computes: up to VecSize words, all of them   *)
(* the running function's own or shared, get some values.                  *)
Operate(a, v) ==
    /\ Running /\ ~IsLast
    /\ \A k \in DOMAIN v : a + k \in LocalsOf[Top.function] \cup Shared
    /\ globals' = [b \in Addr |-> IF b - a \in DOMAIN v THEN v[b - a] ELSE globals[b]]
    /\ pc' = pc + 1
    /\ UNCHANGED <<localstack, stack, statement, jumpcount, vmerror>>

(* INSTR_IF, INSTR_IFNOT: not taken, or taken and counted.                 *)
BranchNotTaken ==
    /\ Running /\ ~IsLast
    /\ pc' = pc + 1
    /\ UNCHANGED <<globals, localstack, stack, statement, jumpcount, vmerror>>

Jump(target, runaway) ==
    /\ Running /\ ~IsLast
    /\ target \in BodyOf[Top.function]
    /\ jumpcount' = jumpcount + 1
    /\ pc' = target
    /\ IF runaway THEN CleanUp ELSE UNCHANGED <<stack, localstack, vmerror>>
    /\ UNCHANGED <<globals, statement>>

BranchTaken(target) == Jump(target, jumpcount + 1 >= MaxJumps)

(* Mutant: the count is tested before it is incremented.                   *)
GotoLate(target) == Jump(target, jumpcount = GotoLimit)

(* INSTR_GOTO: it has a limit of its own.                                  *)
Goto(target) == Jump(target, jumpcount + 1 = GotoLimit)

(* Mutant: prog->statement is set only after the callee was entered.       *)
CallFunctionStale(f) ==
    /\ Running /\ ~IsLast
    /\ Len(stack) < MaxDepth
    /\ statement' = pc + 1
    /\ Enter(f, globals, statement)
    /\ UNCHANGED <<jumpcount, vmerror>>

(* Mutant: the callee returns to the call and not past it.                 *)
CallFunctionAgain(f) ==
    /\ Running /\ ~IsLast
    /\ Len(stack) < MaxDepth
    /\ statement' = pc + 1
    /\ Enter(f, globals, pc)
    /\ UNCHANGED <<jumpcount, vmerror>>

(* INSTR_CALL0..8 of a function with a body                                *)
CallFunction(f) ==
    /\ Running /\ ~IsLast
    /\ Len(stack) < MaxDepth
    /\ statement' = pc + 1
    /\ Enter(f, globals, pc + 1)
    /\ UNCHANGED <<jumpcount, vmerror>>

(* INSTR_CALL0..8 of a builtin: it leaves a result                        *)
WithResult(v) == [a \in Addr |-> IF a - OFS_RETURN \in DOMAIN v
                                 THEN v[a - OFS_RETURN] ELSE globals[a]]
CallBuiltin(v) ==
    /\ Running /\ ~IsLast
    /\ statement' = pc + 1
    /\ globals' = WithResult(v)
    /\ pc' = pc + 1
    /\ UNCHANGED <<localstack, stack, jumpcount, vmerror>>

(* A builtin that raises an error (some leave a result as well), a call of *)
(* no function or of one outside the program, an illegal instruction, an   *)
(* entity access out of bounds.                                            *)
Fail(v) ==
    /\ Running /\ ~IsLast
    /\ CleanUp
    /\ globals' = WithResult(v)
    /\ statement' \in {statement, pc + 1}
    /\ UNCHANGED <<pc, jumpcount>>

(* INSTR_DONE, INSTR_RETURN: the words of the operand are copied one after *)
(* the other, so an operand at OFS_NULL, whose words run into OFS_RETURN,  *)
(* repeats its first word.  The locals are put back after that.            *)
Returned(opa) ==
    [a \in Addr |-> IF \E k \in DOMAIN ReturnWord : ReturnWord[k] = a
                    THEN globals[IF opa = 0 THEN 0 ELSE opa + a - OFS_RETURN]
                    ELSE globals[a]]

Return(opa) ==
    /\ Running
    /\ Leave(Returned(opa))
    /\ UNCHANGED <<statement, jumpcount, vmerror>>

Words == UNION {[0 .. n -> Val] : n \in 0 .. VecSize - 1}

Step == \/ \E a \in Addr, v \in Words : Operate(a, v)
        \/ BranchNotTaken
        \/ \E f \in Function : \E t \in BodyOf[f] : BranchTaken(t) \/ Goto(t)
        \/ \E f \in Function : CallFunction(f)
        \/ \E v \in Words : CallBuiltin(v) \/ Fail(v)
        \/ \E opa \in Operand : Return(opa)

Next == \/ \E f \in Function : \E parms \in [{w[2] : w \in Params[f]} -> Val] :
              Exec(f, parms)
        \/ Step

Spec == Init /\ [][Next]_vars

(* prog_exec runs the loop until it leaves it; nothing makes the host call *)
(* it again.                                                               *)
FairSpec == Spec /\ WF_vars(Step)
-----------------------------------------------------------------------------
(* The type invariant.                                                     *)
TypeOK ==
    /\ globals \in [Addr -> Val]
    /\ localstack \in Seq(Val)
    /\ stack \in Seq([stmt : Nat, localsp : Nat, function : Function])
    /\ statement \in Nat
    /\ pc \in Nat
    /\ jumpcount \in Nat
    /\ vmerror \in BOOLEAN

(* localstack is exactly the backups of the activations on the stack, one  *)
(* after the other: prog_leavefunction cuts back what prog_enterfunction   *)
(* added, whatever order calls, returns and errors come in.                *)
SpAfter(i) == IF i = Len(stack) THEN Len(localstack) ELSE stack[i + 1].localsp
LocalStackExact ==
    /\ stack = <<>> => localstack = <<>>
    /\ stack # <<>> => stack[1].localsp = 0
    /\ \A i \in DOMAIN stack :
          SpAfter(i) = stack[i].localsp + Locals[stack[i].function]

(* The loop stays inside the running function, and every caller is waiting *)
(* at a statement of its own body.                                         *)
ResumeAt(i) == IF i = Len(stack) THEN pc ELSE stack[i + 1].stmt
InsideBody == \A i \in DOMAIN stack : ResumeAt(i) \in BodyOf[stack[i].function]

(* The runaway counter passes its limit in no program: an error ends the   *)
(* loop with the jump that reaches it.                                     *)
JumpsBounded ==
    /\ jumpcount <= GotoLimit
    /\ Running => jumpcount < GotoLimit
    /\ Running => ~vmerror

(* Every run of the loop ends, in a return from the first function or in   *)
(* the runaway error: what the loop counter is for.  (Recursion is bounded *)
(* by MaxDepth here; the executor does not bound it.)                      *)
Terminates == Running ~> ~Running
-----------------------------------------------------------------------------
(* The word activation i sees at address a: the first later activation     *)
(* whose locals include a holds it in its backup; if there is none it is   *)
(* in place.                                                               *)
Shadows(i, a) == {j \in i + 1 .. Len(stack) : a \in LocalsOf[stack[j].function]}
Nearest(S) == CHOOSE j \in S : \A k \in S : j <= k
BackupOf(j, a) == localstack[stack[j].localsp + a - FirstLocal[stack[j].function] + 1]
Seen(i, a) == IF Shadows(i, a) = {} THEN globals[a]
                                    ELSE BackupOf(Nearest(Shadows(i, a)), a)

Frames == [i \in 1 .. Len(stack) |->
             [function |-> stack[i].function,
              frame    |-> [a \in LocalsOf[stack[i].function] |-> Seen(i, a)],
              next     |-> ResumeAt(i)]]
SharedWords == [a \in Shared |-> globals[a]]

A == INSTANCE Activations WITH frames <- Frames, shared <- SharedWords

(* The executor gives every activation a frame of its own: no callee, at   *)
(* any depth, recursive or placed over its caller's locals, changes what   *)
(* the caller sees when it goes on.                                        *)
FramesArePrivate == A!ASpec
=============================================================================
