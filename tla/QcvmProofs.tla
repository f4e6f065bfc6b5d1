----------------------------- MODULE QcvmProofs -----------------------------
(***************************************************************************)
(* Proofs about the executor's call machinery, for every program layout    *)
(* that satisfies the assumptions of Qcvm: its invariants, and that it     *)
(* implements Activations, in which every activation has a frame of its    *)
(* own.  Then about its memory: its entities, for any size of an entity,   *)
(* any fields that INSTR_STATE writes and any number of entities; and its  *)
(* temporary strings, for any string table, area and texts.                *)
(***************************************************************************)
EXTENDS Qcvm, QcvmEntities, QcvmStrings, SequenceTheorems, WellFoundedInduction, TLAPS

LEMMA LayoutFacts ==
    /\ NGlobals \in Nat /\ MaxDepth \in Nat /\ VecSize \in Nat \ {0}
    /\ OFS_RETURN \in Nat
    /\ FirstLocal \in [Function -> Nat] /\ Locals \in [Function -> Nat]
    /\ Entry \in [Function -> Nat] /\ Size \in [Function -> Nat \ {0}]
    /\ \A f \in Function : LocalsOf[f] \subseteq Addr
    /\ \A f \in Function : \A i \in 0 .. Locals[f] - 1 : FirstLocal[f] + i \in Addr
    /\ Addr \subseteq Nat /\ Shared \subseteq Addr
  <1>1. \A f \in Function : LocalsOf[f] = FirstLocal[f] .. FirstLocal[f] + Locals[f] - 1
    BY DEF LocalsOf
  <1>2. /\ FirstLocal \in [Function -> Nat] /\ Locals \in [Function -> Nat]
        /\ \A f \in Function : LocalsOf[f] \subseteq Addr
    BY LayoutAssumption DEF LayoutAssumption
  <1>3. \A f \in Function : \A i \in 0 .. Locals[f] - 1 : FirstLocal[f] + i \in Addr
    <2> TAKE f \in Function
    <2> TAKE i \in 0 .. Locals[f] - 1
    <2>1. FirstLocal[f] \in Nat /\ Locals[f] \in Nat
      BY <1>2
    <2>2. FirstLocal[f] + i \in LocalsOf[f]
      BY <2>1, <1>1
    <2> QED BY <2>2, <1>2
  <1>4. Addr \subseteq Nat /\ Shared \subseteq Addr
    BY LayoutAssumption DEF LayoutAssumption, Addr, Shared
  <1> QED BY LayoutAssumption, <1>2, <1>3, <1>4 DEF LayoutAssumption, OFS_RETURN

(* The words a function backs up are values, one for each of its locals.   *)
LEMMA BackedUpType ==
    ASSUME NEW f \in Function, NEW mem \in [Addr -> Val]
    PROVE  /\ BackedUp(f, mem) \in Seq(Val)
           /\ Len(BackedUp(f, mem)) = Locals[f]
           /\ \A k \in 1 .. Locals[f] : BackedUp(f, mem)[k] = mem[FirstLocal[f] + k - 1]
  <1>1. ASSUME NEW k \in 1 .. Locals[f]
        PROVE  FirstLocal[f] + k - 1 \in Addr
    <2>1. Locals[f] \in Nat /\ FirstLocal[f] \in Nat /\ k - 1 \in 0 .. Locals[f] - 1
      BY LayoutFacts
    <2>2. FirstLocal[f] + (k - 1) \in Addr
      BY <2>1, LayoutFacts
    <2> QED BY <2>1, <2>2
  <1>2. BackedUp(f, mem) \in [1 .. Locals[f] -> Val]
    BY <1>1 DEF BackedUp
  <1>3. Locals[f] \in Nat
    BY LayoutFacts
  <1>4. BackedUp(f, mem) \in Seq(Val) /\ Len(BackedUp(f, mem)) = Locals[f]
    BY <1>2, <1>3
  <1> QED BY <1>4 DEF BackedUp

(* Copying the parameters changes nothing but the locals of the callee.    *)
LEMMA CopyParamsType ==
    ASSUME NEW f \in Function, NEW mem \in [Addr -> Val]
    PROVE  /\ CopyParams(f, mem) \in [Addr -> Val]
           /\ \A a \in Addr \ LocalsOf[f] : CopyParams(f, mem)[a] = mem[a]
           /\ \A w \in Params[f] : CopyParams(f, mem)[w[1]] = mem[w[2]]
  <1>1. \A w \in Params[f] : w[1] \in LocalsOf[f] /\ w[2] \in Addr
    <2>1. \A w \in Params[f] : w[1] \in LocalsOf[f] /\ w[2] \in Shared
      BY ParamsAssumption DEF ParamsAssumption
    <2>2. Shared \subseteq Addr
      BY LayoutFacts
    <2> QED BY <2>1, <2>2
  <1>2. ASSUME NEW a \in Addr, \E w \in Params[f] : w[1] = a
        PROVE  (CHOOSE w \in Params[f] : w[1] = a) \in Params[f]
    BY <1>2
  <1>3. CopyParams(f, mem) \in [Addr -> Val]
    BY <1>1, <1>2 DEF CopyParams
  <1>4. \A a \in Addr \ LocalsOf[f] : CopyParams(f, mem)[a] = mem[a]
    BY <1>1 DEF CopyParams
  <1>5. ASSUME NEW w \in Params[f]
        PROVE  CopyParams(f, mem)[w[1]] = mem[w[2]]
    <2>1. w[1] \in Addr
      BY <1>1, LayoutFacts
    <2>2. (CHOOSE v \in Params[f] : v[1] = w[1]) = w
      BY ParamsAssumption DEF ParamsAssumption
    <2> QED BY <2>1, <2>2 DEF CopyParams
  <1> QED BY <1>3, <1>4, <1>5
-----------------------------------------------------------------------------
(* The inductive invariant.  InsideBody is needed for the words a return   *)
(* resumes at, LocalStackExact for the words it restores to exist.         *)
IInv == TypeOK /\ LocalStackExact /\ InsideBody /\ JumpsBounded

StackRecord == [stmt : Nat, localsp : Nat, function : Function]

MemoryTypeOK == /\ globals \in [Addr -> Val]
                /\ localstack \in Seq(Val)
                /\ stack \in Seq(StackRecord)
                /\ pc \in Nat

LEMMA BodyFacts ==
    ASSUME NEW f \in Function
    PROVE  /\ BodyOf[f] = Entry[f] .. Entry[f] + Size[f] - 1
           /\ BodyOf[f] \subseteq Nat
           /\ Entry[f] \in BodyOf[f]
  <1>1. BodyOf[f] = Entry[f] .. Entry[f] + Size[f] - 1
    BY DEF BodyOf
  <1>2. Entry[f] \in Nat /\ Size[f] \in Nat \ {0}
    BY LayoutFacts
  <1> QED BY <1>1, <1>2

(* What entering a function does to the two stacks.                        *)
LEMMA EnterShape ==
    ASSUME MemoryTypeOK, NEW f \in Function, NEW mem \in [Addr -> Val],
           NEW stmt \in Nat, Enter(f, mem, stmt)
    PROVE  /\ MemoryTypeOK'
           /\ Len(stack') = Len(stack) + 1
           /\ \A i \in 1 .. Len(stack) : stack'[i] = stack[i]
           /\ stack'[Len(stack) + 1] = [stmt |-> stmt, localsp |-> Len(localstack),
                                       function |-> f]
           /\ Len(localstack') = Len(localstack) + Locals[f]
           /\ \A i \in 1 .. Len(localstack) : localstack'[i] = localstack[i]
           /\ \A k \in 1 .. Locals[f] :
                 localstack'[Len(localstack) + k] = mem[FirstLocal[f] + k - 1]
  <1> DEFINE rec == [stmt |-> stmt, localsp |-> Len(localstack), function |-> f]
  <1>1. rec \in StackRecord /\ stack' = Append(stack, rec)
    BY DEF MemoryTypeOK, Enter, StackRecord
  <1>2. localstack' = localstack \o BackedUp(f, mem)
    BY DEF Enter
  <1>3. /\ BackedUp(f, mem) \in Seq(Val) /\ Len(BackedUp(f, mem)) = Locals[f]
        /\ \A k \in 1 .. Locals[f] : BackedUp(f, mem)[k] = mem[FirstLocal[f] + k - 1]
    BY BackedUpType
  <1>4. globals' \in [Addr -> Val] /\ pc' \in Nat
    BY CopyParamsType, BodyFacts DEF Enter
  <1>5. /\ stack' \in Seq(StackRecord)
        /\ Len(stack') = Len(stack) + 1
        /\ \A i \in 1 .. Len(stack) : stack'[i] = stack[i]
        /\ stack'[Len(stack) + 1] = rec
    <2> HIDE DEF rec
    <2> QED BY <1>1 DEF MemoryTypeOK
  <1>6. /\ localstack' \in Seq(Val)
        /\ Len(localstack') = Len(localstack) + Locals[f]
        /\ \A i \in 1 .. Len(localstack) : localstack'[i] = localstack[i]
        /\ \A k \in 1 .. Locals[f] :
              localstack'[Len(localstack) + k] = mem[FirstLocal[f] + k - 1]
    <2>1. Locals[f] \in Nat /\ Len(localstack) \in Nat
      BY LayoutFacts DEF MemoryTypeOK
    <2>2. /\ localstack' \in Seq(Val)
          /\ Len(localstack') = Len(localstack) + Locals[f]
          /\ \A i \in 1 .. Len(localstack) + Locals[f] :
                localstack'[i] = IF i <= Len(localstack) THEN localstack[i]
                                 ELSE BackedUp(f, mem)[i - Len(localstack)]
      BY <1>2, <1>3, ConcatProperties DEF MemoryTypeOK
    <2>3. ASSUME NEW k \in 1 .. Locals[f]
          PROVE  localstack'[Len(localstack) + k] = mem[FirstLocal[f] + k - 1]
      <3>1. /\ Len(localstack) + k \in 1 .. Len(localstack) + Locals[f]
            /\ ~(Len(localstack) + k <= Len(localstack))
            /\ Len(localstack) + k - Len(localstack) = k
        BY <2>1
      <3> QED BY <3>1, <2>2, <1>3
    <2>4. ASSUME NEW i \in 1 .. Len(localstack)
          PROVE  localstack'[i] = localstack[i]
      <3>1. i \in 1 .. Len(localstack) + Locals[f] /\ i <= Len(localstack)
        BY <2>1
      <3> QED BY <3>1, <2>2
    <2> QED BY <2>2, <2>3, <2>4, Zenon
  <1> QED BY <1>4, <1>5, <1>6 DEF MemoryTypeOK

LEMMA StackFacts ==
    ASSUME MemoryTypeOK
    PROVE  /\ Len(stack) \in Nat /\ DOMAIN stack = 1 .. Len(stack)
           /\ Len(localstack) \in Nat
           /\ (stack = <<>>) <=> (Len(stack) = 0)
           /\ (localstack = <<>>) <=> (Len(localstack) = 0)
           /\ \A i \in 1 .. Len(stack) : stack[i] \in StackRecord
           /\ \A i \in 1 .. Len(localstack) : localstack[i] \in Val
  BY DEF MemoryTypeOK

(* LocalStackExact and InsideBody, one activation at a time and with the   *)
(* sequences reduced to their lengths and elements.                        *)
LEMMA ByActivation ==
    ASSUME MemoryTypeOK
    PROVE  /\ LocalStackExact <=>
                 /\ Len(stack) = 0 => Len(localstack) = 0
                 /\ Len(stack) # 0 => stack[1].localsp = 0
                 /\ \A i \in 1 .. Len(stack) :
                       SpAfter(i) = stack[i].localsp + Locals[stack[i].function]
           /\ InsideBody <=>
                 \A i \in 1 .. Len(stack) : ResumeAt(i) \in BodyOf[stack[i].function]
  <1>1. /\ DOMAIN stack = 1 .. Len(stack)
        /\ (stack = <<>>) <=> (Len(stack) = 0)
        /\ (localstack = <<>>) <=> (Len(localstack) = 0)
    BY StackFacts
  <1> QED BY <1>1, Zenon DEF LocalStackExact, InsideBody

(* Entering keeps localstack exact and every activation inside its body,   *)
(* if the caller is to go on inside its own.                               *)
LEMMA EnterKeeps ==
    ASSUME MemoryTypeOK, LocalStackExact, InsideBody,
           NEW f \in Function, NEW mem \in [Addr -> Val],
           NEW stmt \in Nat, Enter(f, mem, stmt),
           stack # <<>> => stmt \in BodyOf[Top.function]
    PROVE  MemoryTypeOK' /\ LocalStackExact' /\ InsideBody'
  <1>1. /\ Len(stack) \in Nat /\ Len(localstack) \in Nat
        /\ (stack = <<>>) <=> (Len(stack) = 0)
    BY StackFacts
  <1>2. /\ Len(stack') = Len(stack) + 1
        /\ \A i \in 1 .. Len(stack) : stack'[i] = stack[i]
        /\ stack'[Len(stack) + 1] = [stmt |-> stmt, localsp |-> Len(localstack),
                                    function |-> f]
        /\ Len(localstack') = Len(localstack) + Locals[f]
        /\ MemoryTypeOK'
    BY EnterShape
  <1>3. /\ Len(stack) = 0 => Len(localstack) = 0
        /\ Len(stack) # 0 => stack[1].localsp = 0
        /\ \A i \in 1 .. Len(stack) :
              SpAfter(i) = stack[i].localsp + Locals[stack[i].function]
        /\ \A i \in 1 .. Len(stack) : ResumeAt(i) \in BodyOf[stack[i].function]
    BY ByActivation
  <1>4. Len(stack') # 0 /\ stack'[1].localsp = 0
    <2>1. CASE Len(stack) = 0
      BY <2>1, <1>2, <1>3
    <2>2. CASE Len(stack) # 0
      BY <2>2, <1>1, <1>2, <1>3
    <2> QED BY <2>1, <2>2
  <1>5. ASSUME NEW i \in 1 .. Len(stack')
        PROVE  /\ SpAfter(i)' = stack'[i].localsp + Locals[stack'[i].function]
               /\ ResumeAt(i)' \in BodyOf[stack'[i].function]
    <2>1. CASE i = Len(stack) + 1
      <3>1. SpAfter(i)' = Len(localstack') /\ ResumeAt(i)' = pc'
        BY <2>1, <1>2 DEF SpAfter, ResumeAt
      <3>2. pc' = Entry[f]
        BY DEF Enter
      <3>3. Entry[f] \in BodyOf[f]
        BY BodyFacts
      <3> QED BY <2>1, <3>1, <3>2, <3>3, <1>2
    <2>2. CASE i = Len(stack)
      <3>1. i \in 1 .. Len(stack) /\ i # Len(stack') /\ stack # <<>>
        BY <2>2, <1>1, <1>2
      <3>2. SpAfter(i)' = Len(localstack) /\ ResumeAt(i)' = stmt
        BY <2>2, <3>1, <1>2 DEF SpAfter, ResumeAt
      <3>3. SpAfter(i) = Len(localstack) /\ stack[i] = Top
        BY <2>2 DEF SpAfter, Top
      <3> QED BY <3>1, <3>2, <3>3, <1>2, <1>3
    <2>3. CASE i < Len(stack)
      <3>1. /\ i \in 1 .. Len(stack) /\ i + 1 \in 1 .. Len(stack)
            /\ i # Len(stack) /\ i # Len(stack')
        BY <2>3, <1>1, <1>2
      <3>2. stack'[i] = stack[i] /\ stack'[i + 1] = stack[i + 1]
        BY <3>1, <1>2
      <3>3. SpAfter(i)' = SpAfter(i) /\ ResumeAt(i)' = ResumeAt(i)
        BY <3>1, <3>2 DEF SpAfter, ResumeAt
      <3> QED BY <3>1, <3>2, <3>3, <1>3
    <2> QED BY <2>1, <2>2, <2>3, <1>1, <1>2
  <1>6. /\ LocalStackExact' <=>
              /\ Len(stack') = 0 => Len(localstack') = 0
              /\ Len(stack') # 0 => stack'[1].localsp = 0
              /\ \A i \in 1 .. Len(stack') :
                    SpAfter(i)' = stack'[i].localsp + Locals[stack'[i].function]
        /\ InsideBody' <=>
              \A i \in 1 .. Len(stack') : ResumeAt(i)' \in BodyOf[stack'[i].function]
    <2>1. /\ DOMAIN stack' = 1 .. Len(stack')
          /\ (stack' = <<>>) <=> (Len(stack') = 0)
          /\ (localstack' = <<>>) <=> (Len(localstack') = 0)
      BY <1>2 DEF MemoryTypeOK
    <2> QED BY <2>1, Zenon DEF LocalStackExact, InsideBody
  <1> QED BY <1>2, <1>4, <1>5, <1>6

(* A prefix of a sequence.                                                 *)
LEMMA PrefixFacts ==
    ASSUME NEW S, NEW s \in Seq(S), NEW n \in 0 .. Len(s)
    PROVE  /\ SubSeq(s, 1, n) \in Seq(S)
           /\ Len(SubSeq(s, 1, n)) = n
           /\ \A i \in 1 .. n : SubSeq(s, 1, n)[i] = s[i]
  <1>1. /\ Len(s) \in Nat /\ n \in Nat
        /\ \A i \in 1 .. n : s[i] \in S
    OBVIOUS
  <1>2. SubSeq(s, 1, n) = [i \in 1 .. n |-> s[i]]
    BY <1>1, SMTT(30)
  <1>3. [i \in 1 .. n |-> s[i]] \in [1 .. n -> S]
    BY <1>1
  <1>4. [i \in 1 .. n |-> s[i]] \in Seq(S) /\ Len([i \in 1 .. n |-> s[i]]) = n
    BY <1>1, <1>3
  <1> QED BY <1>2, <1>4

(* What leaving a function does; the backup to restore is really there.    *)
LEMMA LeaveShape ==
    ASSUME MemoryTypeOK, LocalStackExact, stack # <<>>,
           NEW mem \in [Addr -> Val], Leave(mem)
    PROVE  /\ MemoryTypeOK'
           /\ Len(stack) # 0
           /\ Len(stack') = Len(stack) - 1
           /\ \A i \in 1 .. Len(stack) - 1 : stack'[i] = stack[i]
           /\ Top \in StackRecord
           /\ Top.localsp + Locals[Top.function] = Len(localstack)
           /\ Len(localstack') = Top.localsp
           /\ \A i \in 1 .. Top.localsp : localstack'[i] = localstack[i]
  <1>1. /\ Len(stack) \in Nat \ {0} /\ Len(localstack) \in Nat
        /\ \A i \in 1 .. Len(localstack) : localstack[i] \in Val
        /\ Top \in StackRecord
    BY StackFacts DEF Top
  <1>2. /\ Top.localsp \in Nat /\ Top.function \in Function /\ Top.stmt \in Nat
    BY <1>1 DEF StackRecord
  <1>3. Locals[Top.function] \in Nat /\ FirstLocal[Top.function] \in Nat
    BY <1>2, LayoutFacts
  <1>4. Top.localsp + Locals[Top.function] = Len(localstack)
    <2>1. SpAfter(Len(stack)) = Top.localsp + Locals[Top.function]
      BY <1>1, ByActivation DEF Top
    <2> QED BY <2>1 DEF SpAfter
  <1>5. /\ localstack' \in Seq(Val)
        /\ Len(localstack') = Top.localsp
        /\ \A i \in 1 .. Top.localsp : localstack'[i] = localstack[i]
    <2>1. localstack \in Seq(Val) /\ Top.localsp \in 0 .. Len(localstack)
      BY <1>1, <1>2, <1>3, <1>4 DEF MemoryTypeOK
    <2> QED BY <2>1, PrefixFacts DEF Leave
  <1>6. /\ stack' \in Seq(StackRecord)
        /\ Len(stack') = Len(stack) - 1
        /\ \A i \in 1 .. Len(stack) - 1 : stack'[i] = stack[i]
    <2>1. stack \in Seq(StackRecord) /\ Len(stack) - 1 \in 0 .. Len(stack)
      BY <1>1 DEF MemoryTypeOK
    <2> QED BY <2>1, PrefixFacts DEF Leave
  <1>7. globals' \in [Addr -> Val]
    <2>1. ASSUME NEW a \in Addr, a \in LocalsOf[Top.function]
          PROVE  localstack[Top.localsp + a - FirstLocal[Top.function] + 1] \in Val
      <3>1. a \in FirstLocal[Top.function] ..
                     FirstLocal[Top.function] + Locals[Top.function] - 1
        BY <2>1, <1>2 DEF LocalsOf
      <3>2. Top.localsp + a - FirstLocal[Top.function] + 1 \in 1 .. Len(localstack)
        <4> DEFINE first == FirstLocal[Top.function]
        <4> DEFINE size == Locals[Top.function]
        <4> DEFINE base == Top.localsp
        <4>1. first \in Nat /\ size \in Nat /\ base \in Nat /\ a \in first .. first + size - 1
          BY <3>1, <1>1, <1>2, <1>3, <1>4
        <4>2. Len(localstack) = base + size
          BY <1>1, <1>2, <1>3, <1>4
        <4> HIDE DEF first, size, base
        <4>3. base + a - first + 1 \in 1 .. base + size
          BY <4>1
        <4> QED BY <4>2, <4>3 DEF first, size, base
      <3> QED BY <3>2, <1>1
    <2> QED BY <2>1 DEF Leave, RestoreLocals
  <1>8. pc' \in Nat
    BY <1>2 DEF Leave
  <1> QED BY <1>1, <1>4, <1>5, <1>6, <1>7, <1>8 DEF MemoryTypeOK

(* Leaving keeps localstack exact and every activation inside its body.    *)
LEMMA LeaveKeeps ==
    ASSUME MemoryTypeOK, LocalStackExact, InsideBody, stack # <<>>,
           NEW mem \in [Addr -> Val], Leave(mem)
    PROVE  MemoryTypeOK' /\ LocalStackExact' /\ InsideBody'
  <1>1. /\ MemoryTypeOK'
        /\ Len(stack) # 0 /\ Len(stack') = Len(stack) - 1
        /\ \A i \in 1 .. Len(stack) - 1 : stack'[i] = stack[i]
        /\ Len(localstack') = Top.localsp
    BY LeaveShape
  <1>2. /\ Len(stack) \in Nat
        /\ \A i \in 1 .. Len(stack) :
              SpAfter(i) = stack[i].localsp + Locals[stack[i].function]
        /\ \A i \in 1 .. Len(stack) : ResumeAt(i) \in BodyOf[stack[i].function]
        /\ stack[1].localsp = 0
    BY <1>1, StackFacts, ByActivation
  <1>3. /\ Len(stack') = 0 => Len(localstack') = 0
        /\ Len(stack') # 0 => stack'[1].localsp = 0
    <2>1. CASE Len(stack) = 1
      BY <2>1, <1>1, <1>2 DEF Top
    <2>2. CASE Len(stack) # 1
      <3>1. 1 \in 1 .. Len(stack) - 1 /\ Len(stack') # 0
        BY <2>2, <1>1, <1>2
      <3> QED BY <3>1, <1>1, <1>2
    <2> QED BY <2>1, <2>2
  <1>4. ASSUME NEW i \in 1 .. Len(stack')
        PROVE  /\ SpAfter(i)' = stack'[i].localsp + Locals[stack'[i].function]
               /\ ResumeAt(i)' \in BodyOf[stack'[i].function]
    <2>1. /\ i \in 1 .. Len(stack) /\ stack'[i] = stack[i] /\ i # Len(stack)
      BY <1>1, <1>2
    <2>2. SpAfter(i) = stack[i + 1].localsp /\ ResumeAt(i) = stack[i + 1].stmt
      BY <2>1 DEF SpAfter, ResumeAt
    <2>3. SpAfter(i)' = SpAfter(i) /\ ResumeAt(i)' = ResumeAt(i)
      <3>1. CASE i = Len(stack')
        <4>1. i + 1 = Len(stack)
          BY <3>1, <1>1, <1>2
        <4>2. SpAfter(i)' = Top.localsp /\ ResumeAt(i)' = Top.stmt
          BY <3>1, <1>1 DEF SpAfter, ResumeAt, Leave
        <4> QED BY <4>1, <4>2, <2>2 DEF Top
      <3>2. CASE i # Len(stack')
        <4>1. i + 1 \in 1 .. Len(stack) - 1
          BY <3>2, <1>1, <1>2
        <4>2. stack'[i + 1] = stack[i + 1]
          BY <4>1, <1>1
        <4> QED BY <3>2, <4>2, <2>2 DEF SpAfter, ResumeAt
      <3> QED BY <3>1, <3>2
    <2> QED BY <2>1, <2>3, <1>2
  <1>5. /\ LocalStackExact' <=>
              /\ Len(stack') = 0 => Len(localstack') = 0
              /\ Len(stack') # 0 => stack'[1].localsp = 0
              /\ \A i \in 1 .. Len(stack') :
                    SpAfter(i)' = stack'[i].localsp + Locals[stack'[i].function]
        /\ InsideBody' <=>
              \A i \in 1 .. Len(stack') : ResumeAt(i)' \in BodyOf[stack'[i].function]
    <2>1. /\ DOMAIN stack' = 1 .. Len(stack')
          /\ (stack' = <<>>) <=> (Len(stack') = 0)
          /\ (localstack' = <<>>) <=> (Len(localstack') = 0)
      BY <1>1 DEF MemoryTypeOK
    <2> QED BY <2>1, Zenon DEF LocalStackExact, InsideBody
  <1> QED BY <1>1, <1>3, <1>4, <1>5
-----------------------------------------------------------------------------
(* A step that stays in the running activation.                            *)
LEMMA StayKeeps ==
    ASSUME IInv, Running, UNCHANGED <<stack, localstack>>,
           pc' \in BodyOf[Top.function]
    PROVE  LocalStackExact' /\ InsideBody'
  <1>1. MemoryTypeOK /\ LocalStackExact /\ InsideBody
    BY DEF IInv, TypeOK, MemoryTypeOK, StackRecord
  <1>2. /\ DOMAIN stack = 1 .. Len(stack)
        /\ \A i \in 1 .. Len(stack) : ResumeAt(i) \in BodyOf[stack[i].function]
    BY <1>1, StackFacts, ByActivation
  <1>3. LocalStackExact'
    BY <1>1 DEF LocalStackExact, SpAfter
  <1>4. ASSUME NEW i \in 1 .. Len(stack)
        PROVE  ResumeAt(i)' \in BodyOf[stack[i].function]
    <2>1. CASE i = Len(stack)
      BY <2>1 DEF ResumeAt, Top
    <2>2. CASE i # Len(stack)
      BY <2>2, <1>2 DEF ResumeAt
    <2> QED BY <2>1, <2>2
  <1> QED BY <1>2, <1>3, <1>4 DEF InsideBody

(* The empty stacks that an error leaves.                                  *)
LEMMA CleanUpKeeps ==
    ASSUME CleanUp
    PROVE  LocalStackExact' /\ InsideBody' /\ ~Running'
           /\ stack' \in Seq(StackRecord) /\ localstack' \in Seq(Val)
  <1>1. stack' = <<>> /\ localstack' = <<>>
    BY DEF CleanUp
  <1>2. DOMAIN stack' = {}
    BY <1>1
  <1> QED BY <1>1, <1>2 DEF LocalStackExact, InsideBody, Running

(* The running function is at a statement of its own; unless it is the     *)
(* last, so is the next one.                                               *)
LEMMA TopFacts ==
    ASSUME IInv, Running
    PROVE  /\ Top.function \in Function
           /\ pc \in BodyOf[Top.function]
           /\ ~IsLast => pc + 1 \in BodyOf[Top.function]
           /\ BodyOf[Top.function] \subseteq Nat
           /\ LocalsOf[Top.function] \subseteq Addr
  <1>1. MemoryTypeOK /\ InsideBody /\ stack # <<>>
    BY DEF IInv, TypeOK, MemoryTypeOK, StackRecord, Running
  <1>2. /\ Len(stack) \in 1 .. Len(stack) /\ Top \in StackRecord
        /\ ResumeAt(Len(stack)) \in BodyOf[Top.function]
    BY <1>1, StackFacts, ByActivation DEF Top
  <1>3. Top.function \in Function /\ pc \in BodyOf[Top.function]
    BY <1>2 DEF StackRecord, ResumeAt
  <1>4. /\ BodyOf[Top.function] = Entry[Top.function] ..
                                  Entry[Top.function] + Size[Top.function] - 1
        /\ Entry[Top.function] \in Nat /\ Size[Top.function] \in Nat \ {0}
    BY <1>3, BodyFacts, LayoutFacts
  <1>5. ~IsLast => pc + 1 \in BodyOf[Top.function]
    BY <1>3, <1>4 DEF IsLast
  <1> QED BY <1>3, <1>4, <1>5, BodyFacts, LayoutFacts

LEMMA InitIInv == Init => IInv
  <1> SUFFICES ASSUME Init PROVE IInv
    OBVIOUS
  <1>1. stack = <<>> /\ localstack = <<>> /\ DOMAIN stack = {}
    BY DEF Init
  <1>2. TypeOK
    <2>1. stack \in Seq(StackRecord) /\ localstack \in Seq(Val)
      BY <1>1
    <2>2. statement \in Nat
      BY LayoutAssumption DEF Init, LayoutAssumption
    <2> QED BY <2>1, <2>2 DEF Init, TypeOK, StackRecord
  <1>3. LocalStackExact /\ InsideBody
    BY <1>1 DEF LocalStackExact, InsideBody
  <1>4. JumpsBounded
    BY <1>1, LimitsAssumption DEF Init, JumpsBounded, Running, LimitsAssumption
  <1> QED BY <1>2, <1>3, <1>4 DEF IInv

LEMMA ExecKeeps ==
    ASSUME IInv, NEW f \in Function, NEW parms \in [{w[2] : w \in Params[f]} -> Val],
           Exec(f, parms)
    PROVE  IInv'
  <1> DEFINE mem == [a \in Addr |-> IF a \in DOMAIN parms THEN parms[a] ELSE globals[a]]
  <1>1. MemoryTypeOK /\ LocalStackExact /\ InsideBody /\ statement \in Nat
    BY DEF IInv, TypeOK, MemoryTypeOK, StackRecord
  <1>2. stack = <<>> /\ Enter(f, mem, statement)
    BY DEF Exec, Running
  <1>3. mem \in [Addr -> Val]
    BY <1>1 DEF MemoryTypeOK
  <1>4. MemoryTypeOK' /\ LocalStackExact' /\ InsideBody'
    <2> HIDE DEF mem
    <2> QED BY <1>1, <1>2, <1>3, EnterKeeps
  <1>5. jumpcount' = 0 /\ vmerror' = FALSE /\ statement' = statement
    BY DEF Exec
  <1>6. JumpsBounded'
    BY <1>5, LimitsAssumption DEF JumpsBounded, LimitsAssumption
  <1> QED BY <1>1, <1>4, <1>5, <1>6 DEF IInv, TypeOK, MemoryTypeOK, StackRecord

(* The words an instruction or a builtin writes are values.                *)
LEMMA WordsType ==
    ASSUME NEW v \in Words
    PROVE  \A k \in DOMAIN v : v[k] \in Val
  BY DEF Words

LEMMA ResultType ==
    ASSUME globals \in [Addr -> Val], NEW v \in Words
    PROVE  WithResult(v) \in [Addr -> Val]
  BY WordsType DEF WithResult

LEMMA OperateKeeps ==
    ASSUME IInv, NEW a \in Addr, NEW v \in Words, Operate(a, v)
    PROVE  IInv'
  <1>1. /\ Running /\ ~IsLast /\ pc' = pc + 1
        /\ globals' = [b \in Addr |-> IF b - a \in DOMAIN v THEN v[b - a] ELSE globals[b]]
        /\ UNCHANGED <<localstack, stack, statement, jumpcount, vmerror>>
    BY DEF Operate
  <1>2. pc' \in BodyOf[Top.function] /\ pc' \in Nat
    BY <1>1, TopFacts
  <1>3. LocalStackExact' /\ InsideBody'
    BY <1>1, <1>2, StayKeeps
  <1>4. globals' \in [Addr -> Val]
    BY <1>1, WordsType DEF IInv, TypeOK
  <1> QED BY <1>1, <1>2, <1>3, <1>4 DEF IInv, TypeOK, JumpsBounded, Running

LEMMA BranchNotTakenKeeps ==
    ASSUME IInv, BranchNotTaken
    PROVE  IInv'
  <1>1. /\ Running /\ ~IsLast /\ pc' = pc + 1
        /\ UNCHANGED <<globals, localstack, stack, statement, jumpcount, vmerror>>
    BY DEF BranchNotTaken
  <1>2. pc' \in BodyOf[Top.function] /\ pc' \in Nat
    BY <1>1, TopFacts
  <1>3. LocalStackExact' /\ InsideBody'
    BY <1>1, <1>2, StayKeeps
  <1> QED BY <1>1, <1>2, <1>3 DEF IInv, TypeOK, JumpsBounded, Running

(* A jump keeps the invariant if it is an error when it reaches the limit. *)
LEMMA JumpKeeps ==
    ASSUME IInv, NEW f \in Function, NEW target \in BodyOf[f],
           NEW runaway \in BOOLEAN, Jump(target, runaway),
           ~runaway => jumpcount + 1 < GotoLimit
    PROVE  IInv'
  <1>1. /\ Running /\ target \in BodyOf[Top.function]
        /\ jumpcount' = jumpcount + 1 /\ pc' = target
        /\ UNCHANGED <<globals, statement>>
    BY DEF Jump
  <1>2. pc' \in BodyOf[Top.function] /\ pc' \in Nat
    BY <1>1, TopFacts
  <1>3. jumpcount \in Nat /\ jumpcount < GotoLimit /\ GotoLimit \in Nat
    BY <1>1, LimitsAssumption DEF IInv, TypeOK, JumpsBounded, LimitsAssumption
  <1>4. CASE runaway
    <2>1. CleanUp
      BY <1>4 DEF Jump
    <2>2. /\ LocalStackExact' /\ InsideBody' /\ ~Running'
          /\ stack' \in Seq(StackRecord) /\ localstack' \in Seq(Val)
      BY <2>1, CleanUpKeeps
    <2>3. TypeOK'
      BY <2>1, <2>2, <1>1, <1>2, <1>3 DEF CleanUp, IInv, TypeOK, StackRecord
    <2>4. JumpsBounded'
      BY <2>2, <1>1, <1>3 DEF JumpsBounded
    <2> QED BY <2>2, <2>3, <2>4 DEF IInv
  <1>5. CASE ~runaway
    <2>1. UNCHANGED <<stack, localstack, vmerror>>
      BY <1>5 DEF Jump
    <2>2. LocalStackExact' /\ InsideBody'
      BY <2>1, <1>1, <1>2, StayKeeps
    <2> QED BY <2>1, <2>2, <1>1, <1>2, <1>3, <1>5 DEF IInv, TypeOK, JumpsBounded, Running
  <1> QED BY <1>4, <1>5

LEMMA CallFunctionKeeps ==
    ASSUME IInv, NEW f \in Function, CallFunction(f)
    PROVE  IInv'
  <1>1. /\ Running /\ ~IsLast /\ statement' = pc + 1
        /\ Enter(f, globals, pc + 1)
        /\ UNCHANGED <<jumpcount, vmerror>>
    BY DEF CallFunction
  <1>2. MemoryTypeOK /\ LocalStackExact /\ InsideBody /\ globals \in [Addr -> Val]
    BY DEF IInv, TypeOK, MemoryTypeOK, StackRecord
  <1>3. pc + 1 \in BodyOf[Top.function] /\ pc + 1 \in Nat
    BY <1>1, TopFacts
  <1>4. MemoryTypeOK' /\ LocalStackExact' /\ InsideBody'
    BY <1>1, <1>2, <1>3, EnterKeeps
  <1> QED BY <1>1, <1>3, <1>4
          DEF IInv, TypeOK, MemoryTypeOK, StackRecord, JumpsBounded, Running

LEMMA CallBuiltinKeeps ==
    ASSUME IInv, NEW v \in Words, CallBuiltin(v)
    PROVE  IInv'
  <1>1. /\ Running /\ ~IsLast /\ pc' = pc + 1 /\ statement' = pc + 1
        /\ globals' = WithResult(v)
        /\ UNCHANGED <<localstack, stack, jumpcount, vmerror>>
    BY DEF CallBuiltin
  <1>2. pc' \in BodyOf[Top.function] /\ pc' \in Nat
    BY <1>1, TopFacts
  <1>3. LocalStackExact' /\ InsideBody'
    BY <1>1, <1>2, StayKeeps
  <1>4. globals' \in [Addr -> Val]
    BY <1>1, ResultType DEF IInv, TypeOK
  <1> QED BY <1>1, <1>2, <1>3, <1>4 DEF IInv, TypeOK, JumpsBounded, Running

LEMMA FailKeeps ==
    ASSUME IInv, NEW v \in Words, Fail(v)
    PROVE  IInv'
  <1>1. /\ CleanUp /\ statement' \in {statement, pc + 1}
        /\ globals' = WithResult(v)
        /\ UNCHANGED <<pc, jumpcount>>
    BY DEF Fail
  <1>2. /\ LocalStackExact' /\ InsideBody' /\ ~Running'
        /\ stack' \in Seq(StackRecord) /\ localstack' \in Seq(Val)
    BY <1>1, CleanUpKeeps
  <1>3. TypeOK'
    <2>1. globals' \in [Addr -> Val]
      BY <1>1, ResultType DEF IInv, TypeOK
    <2> QED BY <2>1, <1>1, <1>2 DEF CleanUp, IInv, TypeOK, StackRecord
  <1>4. JumpsBounded'
    BY <1>1, <1>2 DEF IInv, JumpsBounded
  <1> QED BY <1>2, <1>3, <1>4 DEF IInv

(* Every word of a returned operand is one of memory's.                    *)
LEMMA ReturnedType ==
    ASSUME globals \in [Addr -> Val], NEW opa \in Operand
    PROVE  Returned(opa) \in [Addr -> Val]
  <1>1. ASSUME NEW a \in Addr, \E k \in DOMAIN ReturnWord : ReturnWord[k] = a
        PROVE  (IF opa = 0 THEN 0 ELSE opa + a - OFS_RETURN) \in Addr
    <2>1. PICK k \in 0 .. VecSize - 1 : OFS_RETURN + k = a
      BY <1>1 DEF ReturnWord
    <2> QED BY <2>1, LayoutFacts DEF Operand, Addr
  <1> QED BY <1>1 DEF Returned

LEMMA ReturnKeeps ==
    ASSUME IInv, NEW opa \in Operand, Return(opa)
    PROVE  IInv'
  <1>1. /\ Running /\ Leave(Returned(opa))
        /\ UNCHANGED <<statement, jumpcount, vmerror>>
    BY DEF Return
  <1>2. MemoryTypeOK /\ LocalStackExact /\ InsideBody /\ stack # <<>>
    BY <1>1 DEF IInv, TypeOK, MemoryTypeOK, StackRecord, Running
  <1>3. Returned(opa) \in [Addr -> Val]
    BY <1>2, ReturnedType DEF MemoryTypeOK
  <1>4. MemoryTypeOK' /\ LocalStackExact' /\ InsideBody'
    BY <1>1, <1>2, <1>3, LeaveKeeps
  <1> QED BY <1>1, <1>4
          DEF IInv, TypeOK, MemoryTypeOK, StackRecord, JumpsBounded, Running

LEMMA NextIInv == IInv /\ [Next]_vars => IInv'
  <1> SUFFICES ASSUME IInv, [Next]_vars PROVE IInv'
    OBVIOUS
  <1>1. ASSUME NEW f \in Function, NEW parms \in [{w[2] : w \in Params[f]} -> Val],
               Exec(f, parms)
        PROVE  IInv'
    BY <1>1, ExecKeeps
  <1>2. ASSUME NEW a \in Addr, NEW v \in Words, Operate(a, v)
        PROVE  IInv'
    BY <1>2, OperateKeeps
  <1>3. CASE BranchNotTaken
    BY <1>3, BranchNotTakenKeeps
  <1>4. ASSUME NEW f \in Function, NEW t \in BodyOf[f], BranchTaken(t)
        PROVE  IInv'
    <2>1. ~(jumpcount + 1 >= MaxJumps) => jumpcount + 1 < GotoLimit
      BY LimitsAssumption DEF LimitsAssumption, IInv, TypeOK
    <2>2. CASE jumpcount + 1 >= MaxJumps
      <3>1. Jump(t, TRUE)
        BY <1>4, <2>2 DEF BranchTaken, Jump
      <3> QED BY <3>1, JumpKeeps
    <2>3. CASE ~(jumpcount + 1 >= MaxJumps)
      <3>1. Jump(t, FALSE)
        BY <1>4, <2>3 DEF BranchTaken, Jump
      <3> QED BY <3>1, <2>1, <2>3, JumpKeeps
    <2> QED BY <2>2, <2>3
  <1>5. ASSUME NEW f \in Function, NEW t \in BodyOf[f], Goto(t)
        PROVE  IInv'
    <2>1. ~(jumpcount + 1 = GotoLimit) => jumpcount + 1 < GotoLimit
      BY <1>5, LimitsAssumption
         DEF LimitsAssumption, IInv, TypeOK, JumpsBounded, Goto, Jump
    <2> QED BY <1>5, <2>1, JumpKeeps DEF Goto
  <1>6. ASSUME NEW f \in Function, CallFunction(f)
        PROVE  IInv'
    BY <1>6, CallFunctionKeeps
  <1>7. ASSUME NEW v \in Words, CallBuiltin(v)
        PROVE  IInv'
    BY <1>7, CallBuiltinKeeps
  <1>8. ASSUME NEW v \in Words, Fail(v)
        PROVE  IInv'
    BY <1>8, FailKeeps
  <1>9. ASSUME NEW opa \in Operand, Return(opa)
        PROVE  IInv'
    BY <1>9, ReturnKeeps
  <1>10. CASE UNCHANGED vars
    <2>1. UNCHANGED <<globals, localstack, stack, statement, pc, jumpcount, vmerror>>
      BY <1>10 DEF vars
    <2>2. TypeOK' /\ JumpsBounded'
      BY <2>1 DEF IInv, TypeOK, JumpsBounded, Running
    <2>3. LocalStackExact' /\ InsideBody'
      BY <2>1 DEF IInv, LocalStackExact, InsideBody, SpAfter, ResumeAt
    <2> QED BY <2>2, <2>3 DEF IInv
  <1> QED BY <1>1, <1>2, <1>3, <1>4, <1>5, <1>6, <1>7, <1>8, <1>9, <1>10 DEF Next, Step
-----------------------------------------------------------------------------
(* prog_exec's state is well typed: an entered function's backup, a        *)
(* returned word and a restored local are words of memory, for every       *)
(* placing of locals.                                                      *)
THEOREM TypeCorrect == Spec => []TypeOK
  BY InitIInv, NextIInv, PTL DEF Spec, IInv

(* prog_leavefunction cuts localstack back by what prog_enterfunction      *)
(* pushed, for every nesting of calls, returns and errors.                 *)
THEOREM LocalStackIsExact == Spec => []LocalStackExact
  BY InitIInv, NextIInv, PTL DEF Spec, IInv

(* A return resumes its caller inside the caller's own body.               *)
THEOREM StaysInsideBody == Spec => []InsideBody
  BY InitIInv, NextIInv, PTL DEF Spec, IInv

(* The two loop limits, tested differently, bound the same counter.        *)
THEOREM JumpsAreBounded == Spec => []JumpsBounded
  BY InitIInv, NextIInv, PTL DEF Spec, IInv
-----------------------------------------------------------------------------
(***************************************************************************)
(* The executor implements Activations: saving a function's locals on      *)
(* entry and restoring them on return gives every activation a frame of    *)
(* its own, wherever the compiler places locals and however calls nest.    *)
(***************************************************************************)

(* The least of a set of indices, which Nearest chooses.                   *)
LEMMA NearestFacts ==
    ASSUME NEW S, S \subseteq Nat, S # {}
    PROVE  Nearest(S) \in S /\ \A k \in S : Nearest(S) <= k
  <1> DEFINE less == {ss \in Nat \X Nat : ss[1] < ss[2]}
  <1>1. IsWellFoundedOn(less, Nat)
    BY NatLessThanWellFounded DEF OpToRel
  <1>2. PICK j \in S : \A k \in S : ~(<<k, j>> \in less)
    <2> HIDE DEF less
    <2> QED BY <1>1, WFMin
  <1>3. ASSUME NEW k \in S PROVE j <= k
    <2>1. j \in Nat /\ k \in Nat
      OBVIOUS
    <2>2. k < j => <<k, j>> \in less
      BY <2>1
    <2> QED BY <2>1, <2>2, <1>2
  <1> QED BY <1>3 DEF Nearest

LEMMA NearestUnique ==
    ASSUME NEW S, S \subseteq Nat, NEW j \in S, \A k \in S : j <= k
    PROVE  Nearest(S) = j
  <1>1. Nearest(S) \in S /\ Nearest(S) <= j /\ j <= Nearest(S)
    BY NearestFacts
  <1>2. Nearest(S) \in Nat /\ j \in Nat
    BY <1>1
  <1> QED BY <1>1, <1>2
-----------------------------------------------------------------------------
(* LocalStackExact relates neighbours; the words an outer activation finds *)
(* in a backup need the order of all of them.                              *)
EndOf(i) == stack[i].localsp + Locals[stack[i].function]
Nested ==
    /\ \A i \in 1 .. Len(stack) : EndOf(i) <= Len(localstack)
    /\ \A i, j \in 1 .. Len(stack) : i < j => EndOf(i) <= stack[j].localsp

JInv == IInv /\ Nested

LEMMA EnterNested ==
    ASSUME IInv, Nested, NEW f \in Function, NEW mem \in [Addr -> Val],
           NEW stmt \in Nat, Enter(f, mem, stmt)
    PROVE  Nested'
  <1>1. MemoryTypeOK
    BY DEF IInv, TypeOK, MemoryTypeOK, StackRecord
  <1>2. /\ Len(stack') = Len(stack) + 1
        /\ \A i \in 1 .. Len(stack) : stack'[i] = stack[i]
        /\ stack'[Len(stack) + 1] = [stmt |-> stmt, localsp |-> Len(localstack),
                                    function |-> f]
        /\ Len(localstack') = Len(localstack) + Locals[f]
    BY <1>1, EnterShape
  <1>3. /\ Len(stack) \in Nat /\ Len(localstack) \in Nat /\ Locals[f] \in Nat
        /\ \A i \in 1 .. Len(stack) : EndOf(i) \in Nat
    <2>1. \A i \in 1 .. Len(stack) : stack[i] \in StackRecord
      BY <1>1, StackFacts
    <2>2. \A i \in 1 .. Len(stack) : stack[i].localsp \in Nat /\ stack[i].function \in Function
      BY <2>1 DEF StackRecord
    <2>3. \A g \in Function : Locals[g] \in Nat
      BY LayoutFacts
    <2>4. \A i \in 1 .. Len(stack) : EndOf(i) \in Nat
      BY <2>2, <2>3 DEF EndOf
    <2> QED BY <1>1, <2>3, <2>4, StackFacts
  <1>4. \A i \in 1 .. Len(stack) : EndOf(i)' = EndOf(i)
    BY <1>2 DEF EndOf
  <1>5. ASSUME NEW i \in 1 .. Len(stack'), i = Len(stack')
        PROVE  EndOf(i)' = Len(localstack')
    BY <1>2, <1>5 DEF EndOf
  <1>6. ASSUME NEW i \in 1 .. Len(stack')
        PROVE  EndOf(i)' <= Len(localstack')
    <2>1. CASE i = Len(stack')
      BY <2>1, <1>2, <1>3, <1>5
    <2>2. CASE i # Len(stack')
      <3>1. i \in 1 .. Len(stack)
        BY <2>2, <1>2, <1>3
      <3>2. EndOf(i)' = EndOf(i) /\ EndOf(i) <= Len(localstack) /\ EndOf(i) \in Nat
        BY <3>1, <1>3, <1>4 DEF Nested
      <3> QED BY <3>2, <1>2, <1>3
    <2> QED BY <2>1, <2>2
  <1>7. ASSUME NEW i \in 1 .. Len(stack'), NEW j \in 1 .. Len(stack'), i < j
        PROVE  EndOf(i)' <= stack'[j].localsp
    <2>1. i \in 1 .. Len(stack)
      BY <1>7, <1>2, <1>3
    <2>2. CASE j = Len(stack')
      <3>1. stack'[j].localsp = Len(localstack)
        BY <2>2, <1>2
      <3> QED BY <3>1, <2>1, <1>4 DEF Nested
    <2>3. CASE j # Len(stack')
      <3>1. j \in 1 .. Len(stack)
        BY <2>3, <1>2, <1>3
      <3>2. EndOf(i) <= stack[j].localsp
        BY <3>1, <2>1, <1>7 DEF Nested
      <3> QED BY <3>1, <3>2, <2>1, <1>2, <1>4
    <2> QED BY <2>2, <2>3
  <1> QED BY <1>6, <1>7 DEF Nested

LEMMA LeaveNested ==
    ASSUME IInv, Nested, stack # <<>>, NEW mem \in [Addr -> Val], Leave(mem)
    PROVE  Nested'
  <1>1. MemoryTypeOK /\ LocalStackExact
    BY DEF IInv, TypeOK, MemoryTypeOK, StackRecord
  <1>2. /\ Len(stack) # 0 /\ Len(stack') = Len(stack) - 1
        /\ \A i \in 1 .. Len(stack) - 1 : stack'[i] = stack[i]
        /\ Len(localstack') = Top.localsp
    BY <1>1, LeaveShape
  <1>3. Len(stack) \in Nat
    BY <1>1, StackFacts
  <1>4. ASSUME NEW i \in 1 .. Len(stack')
        PROVE  /\ i \in 1 .. Len(stack) /\ i < Len(stack) /\ Len(stack) \in 1 .. Len(stack)
               /\ stack'[i] = stack[i] /\ EndOf(i)' = EndOf(i)
    BY <1>2, <1>3 DEF EndOf
  <1>5. \A i \in 1 .. Len(stack') : EndOf(i)' <= Len(localstack')
    BY <1>2, <1>4 DEF Nested, Top
  <1>6. \A i, j \in 1 .. Len(stack') : i < j => EndOf(i)' <= stack'[j].localsp
    BY <1>4 DEF Nested
  <1> QED BY <1>5, <1>6 DEF Nested

LEMMA CleanUpNested == CleanUp => Nested'
  <1> SUFFICES ASSUME CleanUp PROVE Nested'
    OBVIOUS
  <1>1. stack' = <<>> /\ 1 .. Len(stack') = {}
    BY DEF CleanUp
  <1> QED BY <1>1 DEF Nested

LEMMA SameNested == Nested /\ UNCHANGED <<stack, localstack>> => Nested'
  BY DEF Nested, EndOf
-----------------------------------------------------------------------------
LEMMA JInvFacts ==
    ASSUME IInv, Nested
    PROVE  /\ MemoryTypeOK /\ LocalStackExact /\ InsideBody
           /\ globals \in [Addr -> Val]
           /\ Len(stack) \in Nat /\ Len(localstack) \in Nat
           /\ \A i \in 1 .. Len(stack) : /\ stack[i].localsp \in Nat
                                         /\ stack[i].function \in Function
                                         /\ EndOf(i) \in Nat
                                         /\ EndOf(i) <= Len(localstack)
           /\ \A i \in 1 .. Len(localstack) : localstack[i] \in Val
  <1>1. MemoryTypeOK /\ LocalStackExact /\ InsideBody /\ globals \in [Addr -> Val]
    BY DEF IInv, TypeOK, MemoryTypeOK, StackRecord
  <1>2. \A i \in 1 .. Len(stack) : stack[i] \in StackRecord
    BY <1>1, StackFacts
  <1>3. \A i \in 1 .. Len(stack) : stack[i].localsp \in Nat /\ stack[i].function \in Function
    BY <1>2 DEF StackRecord
  <1>4. \A g \in Function : Locals[g] \in Nat
    BY LayoutFacts
  <1>5. \A i \in 1 .. Len(stack) : EndOf(i) \in Nat
    BY <1>3, <1>4 DEF EndOf
  <1> QED BY <1>1, <1>3, <1>5, StackFacts DEF Nested

(* The backup of a word lies inside the activation's part of localstack.   *)
LEMMA BackupPlace ==
    ASSUME IInv, Nested, NEW j \in 1 .. Len(stack), NEW a \in LocalsOf[stack[j].function]
    PROVE  stack[j].localsp + a - FirstLocal[stack[j].function] + 1 \in 1 .. EndOf(j)
  <1> DEFINE g == stack[j].function
  <1>1. g \in Function /\ stack[j].localsp \in Nat
    BY JInvFacts
  <1>2. FirstLocal[g] \in Nat /\ Locals[g] \in Nat /\ EndOf(j) = stack[j].localsp + Locals[g]
    BY <1>1, LayoutFacts DEF EndOf
  <1>3. a \in FirstLocal[g] .. FirstLocal[g] + Locals[g] - 1
    BY <1>1 DEF LocalsOf
  <1> DEFINE n == a - FirstLocal[g]
  <1> HIDE DEF g
  <1>4. n \in 0 .. Locals[g] - 1
    BY <1>2, <1>3
  <1>5. stack[j].localsp + a - FirstLocal[g] + 1 = stack[j].localsp + n + 1
    BY <1>1, <1>2, <1>3
  <1> HIDE DEF n
  <1>6. stack[j].localsp + n + 1 \in 1 .. EndOf(j)
    BY <1>1, <1>2, <1>4
  <1> QED BY <1>5, <1>6 DEF g

(* An activation that stays on the stack keeps its backup.                 *)
LEMMA BackupKept ==
    ASSUME IInv, Nested, NEW j \in 1 .. Len(stack), NEW a \in LocalsOf[stack[j].function],
           stack'[j] = stack[j],
           \A k \in 1 .. EndOf(j) : localstack'[k] = localstack[k]
    PROVE  localstack'[stack'[j].localsp + a - FirstLocal[stack'[j].function] + 1]
              = BackupOf(j, a)
  BY BackupPlace DEF BackupOf

LEMMA ShadowsFacts ==
    ASSUME NEW i \in Nat, NEW a
    PROVE  /\ Shadows(i, a) \subseteq Nat
           /\ Shadows(i, a) # {} =>
                 /\ Nearest(Shadows(i, a)) \in Shadows(i, a)
                 /\ \A k \in Shadows(i, a) : Nearest(Shadows(i, a)) <= k
  <1>1. Shadows(i, a) \subseteq Nat
    BY DEF Shadows
  <1> QED BY <1>1, NearestFacts

LEMMA SeenType ==
    ASSUME IInv, Nested, NEW i \in 1 .. Len(stack), NEW a \in Addr
    PROVE  Seen(i, a) \in Val
  <1>1. CASE Shadows(i, a) = {}
    BY <1>1, JInvFacts DEF Seen
  <1>2. CASE Shadows(i, a) # {}
    <2> DEFINE j == Nearest(Shadows(i, a))
    <2>1. j \in Shadows(i, a)
      BY <1>2, ShadowsFacts
    <2>2. j \in 1 .. Len(stack) /\ a \in LocalsOf[stack[j].function]
      BY <2>1, JInvFacts DEF Shadows
    <2> HIDE DEF j
    <2>3. stack[j].localsp + a - FirstLocal[stack[j].function] + 1 \in 1 .. EndOf(j)
      BY <2>2, BackupPlace
    <2>4. stack[j].localsp + a - FirstLocal[stack[j].function] + 1 \in 1 .. Len(localstack)
      BY <2>2, <2>3, JInvFacts
    <2>5. BackupOf(j, a) \in Val
      BY <2>4, JInvFacts DEF BackupOf
    <2> QED BY <2>5, <1>2 DEF Seen, j
  <1> QED BY <1>1, <1>2

(* The running activation sees its own locals in place.                    *)
LEMMA SeenByTop ==
    ASSUME NEW a
    PROVE  Len(stack) \in Nat => Seen(Len(stack), a) = globals[a]
  BY DEF Seen, Shadows

(* The place of a local among its function's.                              *)
LEMMA LocalIndex ==
    ASSUME NEW first \in Nat, NEW size \in Nat, NEW a \in first .. first + size - 1
    PROVE  /\ a - first + 1 \in 1 .. size
           /\ first + (a - first + 1) - 1 = a
  OBVIOUS

(* Entering a function changes nothing that an activation below it sees:   *)
(* its locals that the callee's cover are in the callee's backup.          *)
LEMMA EnterSeen ==
    ASSUME IInv, Nested, NEW f \in Function, NEW mem \in [Addr -> Val],
           NEW stmt \in Nat, Enter(f, mem, stmt),
           NEW i \in 1 .. Len(stack), NEW a \in Addr, mem[a] = globals[a]
    PROVE  Seen(i, a)' = Seen(i, a)
  <1> DEFINE n == Len(stack) + 1
  <1>1. /\ Len(stack') = n
        /\ \A k \in 1 .. Len(stack) : stack'[k] = stack[k]
        /\ stack'[n] = [stmt |-> stmt, localsp |-> Len(localstack), function |-> f]
        /\ \A k \in 1 .. Len(localstack) : localstack'[k] = localstack[k]
        /\ \A k \in 1 .. Locals[f] :
              localstack'[Len(localstack) + k] = mem[FirstLocal[f] + k - 1]
    BY EnterShape, JInvFacts
  <1>2. Len(stack) \in Nat /\ i \in Nat /\ Len(localstack) \in Nat
    BY JInvFacts
  <1>3. Shadows(i, a)' = Shadows(i, a) \cup (IF a \in LocalsOf[f] THEN {n} ELSE {})
    <2>1. \A k \in i + 1 .. n : (a \in LocalsOf[stack'[k].function]) <=>
             IF k = n THEN a \in LocalsOf[f] ELSE a \in LocalsOf[stack[k].function]
      BY <1>1, <1>2
    <2>2. \A k : k \in i + 1 .. n <=> (k = n \/ k \in i + 1 .. Len(stack))
      BY <1>2
    <2>3. n \notin i + 1 .. Len(stack)
      BY <1>2
    <2> HIDE DEF n
    <2> QED BY <2>1, <2>2, <2>3, <1>1 DEF Shadows
  <1>4. CASE Shadows(i, a) = {} /\ a \in LocalsOf[f]
    <2>1. Shadows(i, a)' = {n}
      BY <1>3, <1>4
    <2>2. Nearest({n}) = n
      <3> DEFINE single == {n}
      <3>1. single \subseteq Nat /\ n \in single /\ \A k \in single : n <= k
        BY <1>2
      <3> HIDE DEF n, single
      <3>2. Nearest(single) = n
        BY <3>1, NearestUnique
      <3> QED BY <3>2 DEF single
    <2>3. a \in FirstLocal[f] .. FirstLocal[f] + Locals[f] - 1
          /\ FirstLocal[f] \in Nat /\ Locals[f] \in Nat
      BY <1>4, LayoutFacts DEF LocalsOf
    <2>5. localstack'[Len(localstack) + (a - FirstLocal[f] + 1)] = mem[a]
      <3>1. /\ a - FirstLocal[f] + 1 \in 1 .. Locals[f]
            /\ FirstLocal[f] + (a - FirstLocal[f] + 1) - 1 = a
        BY <2>3, LocalIndex, Zenon
      <3>2. \A k \in 1 .. Locals[f] :
               localstack'[Len(localstack) + k] = mem[FirstLocal[f] + k - 1]
        BY <1>1
      <3>3. localstack'[Len(localstack) + (a - FirstLocal[f] + 1)]
               = mem[FirstLocal[f] + (a - FirstLocal[f] + 1) - 1]
        BY <3>1, <3>2, Zenon
      <3> QED BY <3>1, <3>3
    <2>6. Seen(i, a)' = localstack'[stack'[n].localsp + a
                                      - FirstLocal[stack'[n].function] + 1]
      <3> HIDE DEF n
      <3> QED BY <2>1, <2>2 DEF Seen, BackupOf
    <2>7. /\ stack'[n].localsp = Len(localstack) /\ stack'[n].function = f
          /\ Len(localstack) + a - FirstLocal[f] + 1 = Len(localstack) + (a - FirstLocal[f] + 1)
      BY <1>1, <1>2, <2>3
    <2>8. Seen(i, a) = globals[a]
      BY <1>4 DEF Seen
    <2> HIDE DEF n
    <2> QED BY <2>5, <2>6, <2>7, <2>8
  <1>5. CASE Shadows(i, a) = {} /\ a \notin LocalsOf[f]
    <2>1. Shadows(i, a)' = {}
      BY <1>3, <1>5
    <2>2. globals'[a] = mem[a]
      BY <1>5, CopyParamsType DEF Enter
    <2> QED BY <2>1, <2>2, <1>5 DEF Seen
  <1>6. CASE Shadows(i, a) # {}
    <2> DEFINE m == Nearest(Shadows(i, a))
    <2>1. m \in Shadows(i, a) /\ \A k \in Shadows(i, a) : m <= k
      BY <1>2, <1>6, ShadowsFacts
    <2>2. m \in 1 .. Len(stack) /\ a \in LocalsOf[stack[m].function]
      BY <2>1, <1>2 DEF Shadows
    <2> HIDE DEF m
    <2>3. m \in Shadows(i, a)' /\ \A k \in Shadows(i, a)' : m <= k
      <3>1. m <= n
        BY <2>2, <1>2
      <3>2. m \in Shadows(i, a)'
        BY <2>1, <1>3, Zenon
      <3>3. \A k \in Shadows(i, a)' : k \in Shadows(i, a) \/ k = n
        BY <1>3, Zenon
      <3>4. ASSUME NEW k \in Shadows(i, a)' PROVE m <= k
        <4> HIDE DEF n
        <4>1. CASE k = n
          BY <3>1, <4>1
        <4>2. CASE k \in Shadows(i, a)
          BY <2>1, <4>2, Zenon
        <4> QED BY <3>3, <4>1, <4>2, Zenon
      <3>5. \A k \in Shadows(i, a)' : m <= k
        BY <3>4, Zenon
      <3> QED BY <3>2, <3>5, Zenon
    <2>4. Shadows(i, a)' \subseteq Nat
      <3>1. Shadows(i, a) \subseteq Nat /\ n \in Nat
        BY <1>2, ShadowsFacts
      <3> HIDE DEF n
      <3> QED BY <3>1, <1>3, Zenon
    <2>5. Nearest(Shadows(i, a)') = m
      BY <2>3, <2>4, NearestUnique
    <2>6. localstack'[stack'[m].localsp + a - FirstLocal[stack'[m].function] + 1]
             = BackupOf(m, a)
      <3>1. EndOf(m) \in Nat /\ EndOf(m) <= Len(localstack)
        BY <2>2, JInvFacts
      <3>2. \A k \in 1 .. EndOf(m) : k \in 1 .. Len(localstack)
        BY <3>1, <1>2
      <3>3. stack'[m] = stack[m]
        BY <2>2, <1>1
      <3> QED BY <3>2, <3>3, <2>2, <1>1, BackupKept
    <2>7. Seen(i, a)' = localstack'[stack'[m].localsp + a
                                      - FirstLocal[stack'[m].function] + 1]
      BY <2>3, <2>5 DEF Seen, BackupOf
    <2>8. Seen(i, a) = BackupOf(m, a)
      BY <1>6 DEF Seen, m
    <2> QED BY <2>6, <2>7, <2>8
  <1> QED BY <1>4, <1>5, <1>6

(* The activation just entered sees its parameters and globals in place.   *)
LEMMA EnterSeenByNew ==
    ASSUME IInv, Nested, NEW f \in Function, NEW mem \in [Addr -> Val],
           NEW stmt \in Nat, Enter(f, mem, stmt), NEW a \in Addr,
           NEW i, i = Len(stack) + 1
    PROVE  Seen(i, a)' = CopyParams(f, mem)[a]
  <1>1. Len(stack') = i /\ i \in Nat
    <2>1. MemoryTypeOK /\ Len(stack) \in Nat
      BY JInvFacts
    <2>2. Len(stack') = Len(stack) + 1
      BY <2>1, EnterShape
    <2> QED BY <2>1, <2>2
  <1>2. Shadows(i, a)' = {}
    BY <1>1 DEF Shadows
  <1> QED BY <1>2 DEF Seen, Enter

(* Leaving a function changes nothing that an activation below it sees:    *)
(* what was in the callee's backup is in place again.                      *)
LEMMA LeaveSeen ==
    ASSUME IInv, Nested, stack # <<>>, NEW mem \in [Addr -> Val], Leave(mem),
           NEW i \in 1 .. Len(stack) - 1, NEW a \in Addr, mem[a] = globals[a]
    PROVE  Seen(i, a)' = Seen(i, a)
  <1> DEFINE n == Len(stack)
             g == Top.function
  <1>1. /\ Len(stack') = n - 1 /\ n # 0
        /\ \A k \in 1 .. n - 1 : stack'[k] = stack[k]
        /\ Top.localsp + Locals[g] = Len(localstack)
        /\ \A k \in 1 .. Top.localsp : localstack'[k] = localstack[k]
    BY LeaveShape, JInvFacts
  <1>2. /\ n \in Nat /\ i \in Nat /\ i < n /\ Top = stack[n]
        /\ Top.localsp \in Nat /\ g \in Function
    BY <1>1, JInvFacts DEF Top
  <1>3. Shadows(i, a)' = Shadows(i, a) \ {n}
    <2>1. \A k \in i + 1 .. n - 1 : stack'[k] = stack[k]
      BY <1>1, <1>2
    <2>2. \A k : k \in i + 1 .. n - 1 <=> (k \in i + 1 .. n /\ k # n)
      BY <1>2
    <2> QED BY <2>1, <2>2, <1>1 DEF Shadows
  <1>4. (n \in Shadows(i, a)) <=> a \in LocalsOf[g]
    BY <1>2 DEF Shadows
  <1>5. globals'[a] = IF a \in LocalsOf[g]
                      THEN localstack[Top.localsp + a - FirstLocal[g] + 1] ELSE mem[a]
    BY DEF Leave, RestoreLocals
  <1>6. CASE Shadows(i, a) = {}
    <2>1. Shadows(i, a)' = {} /\ a \notin LocalsOf[g]
      BY <1>3, <1>4, <1>6
    <2> QED BY <2>1, <1>5, <1>6 DEF Seen
  <1>7. CASE Shadows(i, a) = {n}
    <2>1. Shadows(i, a)' = {} /\ a \in LocalsOf[g]
      BY <1>3, <1>4, <1>7
    <2>2. Nearest(Shadows(i, a)) = n
      BY <1>2, <1>7, ShadowsFacts
    <2>3. Seen(i, a) = localstack[Top.localsp + a - FirstLocal[g] + 1]
      <3> HIDE DEF n, g
      <3>1. Seen(i, a) = BackupOf(n, a)
        BY <2>2, <1>7 DEF Seen
      <3> QED BY <3>1, <1>2 DEF BackupOf, g
    <2>4. Seen(i, a)' = globals'[a]
      BY <2>1 DEF Seen
    <2> QED BY <2>1, <2>3, <2>4, <1>5
  <1>8. CASE Shadows(i, a) # {} /\ Shadows(i, a) # {n}
    <2> DEFINE m == Nearest(Shadows(i, a))
    <2>1. m \in Shadows(i, a) /\ \A k \in Shadows(i, a) : m <= k
      BY <1>2, <1>8, ShadowsFacts
    <2>2. m \in 1 .. n /\ a \in LocalsOf[stack[m].function]
      BY <2>1, <1>2 DEF Shadows
    <2> HIDE DEF m
    <2>3. m # n
      <3>1. PICK k \in Shadows(i, a) : k # n
        BY <1>8
      <3>2. k \in 1 .. n /\ m <= k
        BY <3>1, <2>1, <1>2 DEF Shadows
      <3> QED BY <3>1, <3>2, <2>2, <1>2
    <2>4. m \in 1 .. n - 1 /\ stack'[m] = stack[m]
      <3>1. m \in 1 .. n - 1
        <4>1. n \in Nat
          BY <1>2
        <4> HIDE DEF n
        <4> QED BY <4>1, <2>2, <2>3
      <3> QED BY <3>1, <1>1
    <2>5. Nearest(Shadows(i, a)') = m
      <3>1. m \in Shadows(i, a)' /\ \A k \in Shadows(i, a)' : m <= k
        BY <2>1, <2>3, <1>3
      <3>2. Shadows(i, a)' \subseteq Nat
        BY <1>2, <1>3, ShadowsFacts
      <3> QED BY <3>1, <3>2, NearestUnique
    <2>6. localstack'[stack'[m].localsp + a - FirstLocal[stack'[m].function] + 1]
             = BackupOf(m, a)
      <3>1. EndOf(m) \in Nat /\ EndOf(m) <= Top.localsp
        <4>1. m \in 1 .. n /\ n \in 1 .. n /\ m < n
          BY <2>4, <1>2
        <4> QED BY <4>1, <1>2, JInvFacts DEF Nested
      <3>2. \A k \in 1 .. EndOf(m) : k \in 1 .. Top.localsp
        BY <3>1, <1>2
      <3> QED BY <3>2, <2>2, <2>4, <1>1, BackupKept
    <2>7. Seen(i, a)' = localstack'[stack'[m].localsp + a
                                      - FirstLocal[stack'[m].function] + 1]
      <3>1. m \in Shadows(i, a)'
        BY <2>1, <2>3, <1>3
      <3> QED BY <3>1, <2>5 DEF Seen, BackupOf
    <2>8. Seen(i, a) = BackupOf(m, a)
      BY <1>8 DEF Seen, m
    <2> QED BY <2>6, <2>7, <2>8
  <1> QED BY <1>6, <1>7, <1>8

(* A step that leaves both stacks alone changes what an activation sees    *)
(* only where it looks at memory itself.                                   *)
LEMMA StaySeen ==
    ASSUME UNCHANGED <<stack, localstack>>, NEW i, NEW a,
           Shadows(i, a) = {} => globals'[a] = globals[a]
    PROVE  Seen(i, a)' = Seen(i, a)
  <1>1. Shadows(i, a)' = Shadows(i, a)
    BY DEF Shadows
  <1>2. CASE Shadows(i, a) = {}
    BY <1>1, <1>2 DEF Seen
  <1>3. CASE Shadows(i, a) # {}
    <2>1. PICK m : m = Nearest(Shadows(i, a))
      OBVIOUS
    <2>2. Nearest(Shadows(i, a)') = m
      BY <2>1, <1>1
    <2>3. Seen(i, a)' = localstack'[stack'[m].localsp + a
                                      - FirstLocal[stack'[m].function] + 1]
      BY <2>2, <1>1, <1>3 DEF Seen, BackupOf
    <2> QED BY <2>1, <2>3, <1>3 DEF Seen, BackupOf
  <1> QED BY <1>2, <1>3
-----------------------------------------------------------------------------
(* Frames is a sequence, one element for each activation on the stack.     *)
FrameOf(i) == [function |-> stack[i].function,
               frame    |-> [a \in LocalsOf[stack[i].function] |-> Seen(i, a)],
               next     |-> ResumeAt(i)]
FramesOK ==
    /\ Frames \in Seq({Frames[i] : i \in 1 .. Len(stack)})
    /\ Len(stack) \in Nat /\ Len(Frames) = Len(stack)
    /\ DOMAIN Frames = 1 .. Len(stack)
    /\ \A i \in 1 .. Len(stack) : Frames[i] = FrameOf(i)
    /\ \A i \in 1 .. Len(stack) : \A a \in Addr : Seen(i, a) \in Val
    /\ SharedWords \in [Shared -> Val]
    /\ \A i \in 1 .. Len(stack) : stack[i].function \in Function

LEMMA FramesAreOK == JInv => FramesOK
  <1> SUFFICES ASSUME IInv, Nested PROVE FramesOK
    BY DEF JInv
  <1> DEFINE T == {Frames[i] : i \in 1 .. Len(stack)}
  <1>1. Len(stack) \in Nat
    BY JInvFacts
  <1>2. DOMAIN Frames = 1 .. Len(stack)
    BY DEF Frames
  <1>3. Frames = [i \in 1 .. Len(stack) |-> Frames[i]]
    BY DEF Frames
  <1>4. Frames \in [1 .. Len(stack) -> T]
    <2>1. \A i \in 1 .. Len(stack) : Frames[i] \in T
      OBVIOUS
    <2> HIDE DEF T
    <2> QED BY <1>3, <2>1
  <1>5. Frames \in Seq(T) /\ Len(Frames) = Len(stack)
    <2> HIDE DEF T
    <2> QED BY <1>1, <1>4
  <1>6. \A i \in 1 .. Len(stack) : Frames[i] = FrameOf(i)
    BY DEF Frames, FrameOf
  <1>7. \A i \in 1 .. Len(stack) : \A a \in Addr : Seen(i, a) \in Val
    BY SeenType
  <1>8. SharedWords \in [Shared -> Val]
    BY JInvFacts, LayoutFacts DEF SharedWords
  <1> QED BY <1>1, <1>2, <1>5, <1>6, <1>7, <1>8, JInvFacts DEF FramesOK

LEMMA InitRefines == Init => A!AInit
  <1> SUFFICES ASSUME Init PROVE A!AInit
    OBVIOUS
  <1>1. 1 .. Len(stack) = {}
    BY DEF Init
  <1>2. Frames = <<>>
    BY <1>1 DEF Frames
  <1>3. SharedWords \in [Shared -> Val]
    BY LayoutFacts DEF Init, SharedWords
  <1> QED BY <1>2, <1>3 DEF A!AInit

(* The running function's instructions that neither call nor return.       *)
LEMMA StayRefines ==
    ASSUME JInv, JInv', FramesOK, FramesOK', Running, UNCHANGED <<stack, localstack>>,
           \A a \in Addr : a \notin LocalsOf[Top.function] \cup Shared
                              => globals'[a] = globals[a]
    PROVE  A!AStep
  <1> DEFINE n == Len(stack)
             fr == [a \in LocalsOf[Top.function] |-> Seen(n, a)']
             act == [function |-> Top.function, frame |-> fr, next |-> pc']
  <1>1. /\ n \in Nat /\ n # 0 /\ n \in 1 .. n /\ Len(stack') = n
        /\ MemoryTypeOK /\ MemoryTypeOK' /\ InsideBody'
    BY JInvFacts, StackFacts DEF JInv, Running, IInv, TypeOK, MemoryTypeOK, StackRecord
  <1>2. A!Top = FrameOf(n) /\ A!Top.function = Top.function
    BY <1>1 DEF A!Top, FramesOK, FrameOf, Top
  <1>3. fr \in [LocalsOf[Top.function] -> Val]
    <2>1. LocalsOf[Top.function] \subseteq Addr
      BY LayoutFacts, <1>1 DEF Top, FramesOK
    <2> QED BY <2>1, <1>1 DEF FramesOK
  <1>4. pc' \in BodyOf[Top.function]
    <2>1. \A i \in DOMAIN stack' : ResumeAt(i)' \in BodyOf[stack'[i].function]
      BY <1>1 DEF InsideBody
    <2>2. ResumeAt(n)' = pc' /\ n \in DOMAIN stack'
      BY <1>1 DEF ResumeAt, MemoryTypeOK
    <2> QED BY <2>1, <2>2 DEF Top
  <1>5. Frames' = [Frames EXCEPT ![n] = act]
    <2>1. ASSUME NEW i \in 1 .. n, i # n
          PROVE  Frames'[i] = Frames[i]
      <3>1. ASSUME NEW a \in LocalsOf[stack[i].function]
            PROVE  Seen(i, a)' = Seen(i, a)
        <4>1. a \in Addr /\ a \notin Shared
          BY LayoutFacts DEF FramesOK, Shared
        <4>2. a \in LocalsOf[Top.function] => Shadows(i, a) # {}
          BY <2>1, <1>1 DEF Shadows, Top
        <4> QED BY <4>1, <4>2, StaySeen
      <3>2. ResumeAt(i)' = ResumeAt(i)
        BY <2>1 DEF ResumeAt
      <3>3. Frames'[i] = FrameOf(i)' /\ Frames[i] = FrameOf(i)
        BY <1>1 DEF FramesOK
      <3> QED BY <3>1, <3>2, <3>3 DEF FrameOf
    <2>2. Frames'[n] = act
      <3>1. ResumeAt(n)' = pc'
        BY <1>1 DEF ResumeAt
      <3>2. Frames'[n] = FrameOf(n)'
        BY <1>1 DEF FramesOK
      <3> QED BY <3>1, <3>2 DEF FrameOf, Top
    <2>3. /\ DOMAIN Frames' = 1 .. n /\ DOMAIN Frames = 1 .. n
          /\ Frames' = [i \in 1 .. n |-> Frames'[i]]
          /\ Frames = [i \in 1 .. n |-> Frames[i]]
      BY <1>1 DEF FramesOK, Frames
    <2> HIDE DEF act, n
    <2>4. \A i \in 1 .. n : Frames'[i] = [Frames EXCEPT ![n] = act][i]
      BY <2>1, <2>2, <2>3
    <2> QED BY <2>3, <2>4
  <1>6. Frames # <<>> /\ Len(Frames) = n
    BY <1>1 DEF FramesOK
  <1>7. SharedWords' \in [Shared -> Val]
    BY DEF FramesOK
  <1> HIDE DEF fr, n
  <1> QED BY <1>2, <1>3, <1>4, <1>5, <1>6, <1>7 DEF A!AStep

(* An error: every activation is gone.                                     *)
LEMMA AbortRefines ==
    ASSUME FramesOK, FramesOK', Running, JInv, stack' = <<>>
    PROVE  A!AAbort
  <1>1. Len(stack') = 0 /\ Len(stack) # 0
    BY JInvFacts, StackFacts DEF JInv, Running
  <1>2. Frames # <<>>
    BY <1>1 DEF FramesOK
  <1>3. 1 .. Len(stack') = {}
    BY <1>1
  <1>4. Frames' = <<>>
    BY <1>3 DEF Frames
  <1> QED BY <1>2, <1>4 DEF A!AAbort, FramesOK

(* Entering f for a caller that is to go on at pc + 1.                     *)
LEMMA CallRefines ==
    ASSUME JInv, JInv', FramesOK, FramesOK', NEW f \in Function, CallFunction(f)
    PROVE  A!ACall(f)
  <1> PICK n : n = Len(stack)
    OBVIOUS
  <1> DEFINE act == FrameOf(n + 1)'
  <1>1. Running /\ ~IsLast /\ Enter(f, globals, pc + 1)
    BY DEF CallFunction
  <1>2. /\ IInv /\ Nested /\ MemoryTypeOK /\ globals \in [Addr -> Val]
        /\ n \in Nat /\ n # 0 /\ n \in 1 .. n
    BY <1>1, JInvFacts, StackFacts DEF JInv, Running
  <1>3. pc + 1 \in BodyOf[Top.function] /\ pc + 1 \in Nat
    BY <1>1, <1>2, TopFacts
  <1>4. /\ Len(stack') = n + 1
        /\ \A i \in 1 .. n : stack'[i] = stack[i]
        /\ stack'[n + 1] = [stmt |-> pc + 1, localsp |-> Len(localstack), function |-> f]
    BY <1>1, <1>2, <1>3, EnterShape
  <1>5. /\ A!Top = FrameOf(n) /\ A!Top.function = Top.function
        /\ A!Top.next = pc /\ Len(Frames) = n /\ Frames # <<>>
    <2>1. ResumeAt(n) = pc
      BY DEF ResumeAt
    <2> QED BY <2>1, <1>2 DEF A!Top, FramesOK, FrameOf, Top
  <1>6. \A i \in 1 .. n : \A a \in Addr : Seen(i, a)' = Seen(i, a)
    BY <1>1, <1>2, <1>3, EnterSeen
  <1>7. act \in A!NewActivations(f) /\ A!IsNew(act, f, SharedWords)
    <2>1. /\ n + 1 \in 1 .. Len(stack') /\ stack'[n + 1].function = f
          /\ ResumeAt(n + 1)' = Entry[f]
      BY <1>1, <1>2, <1>4 DEF ResumeAt, Enter
    <2>2. act = [function |-> f, frame |-> [a \in LocalsOf[f] |-> Seen(n + 1, a)'],
                 next |-> Entry[f]]
      BY <2>1 DEF FrameOf
    <2>3. \A a \in LocalsOf[f] : a \in Addr /\ Seen(n + 1, a)' \in Val
      BY <2>1, LayoutFacts DEF FramesOK
    <2>4. act \in A!NewActivations(f)
      <3> DEFINE fr == [a \in LocalsOf[f] |-> Seen(n + 1, a)']
      <3>1. fr \in [LocalsOf[f] -> Val]
        BY <2>3
      <3> HIDE DEF fr
      <3> QED BY <3>1, <2>2 DEF A!NewActivations, fr
    <2>5. ASSUME NEW w \in Params[f]
          PROVE  act.frame[w[1]] = SharedWords[w[2]]
      <3>1. w[1] \in LocalsOf[f] /\ w[2] \in Shared /\ w[1] \in Addr
        BY ParamsAssumption, LayoutFacts DEF ParamsAssumption
      <3>2. act.frame[w[1]] = Seen(n + 1, w[1])'
        BY <2>2, <3>1
      <3>3. Seen(n + 1, w[1])' = CopyParams(f, globals)[w[1]]
        BY <3>1, <1>1, <1>2, <1>3, EnterSeenByNew
      <3>4. CopyParams(f, globals)[w[1]] = globals[w[2]]
        BY <1>2, CopyParamsType
      <3> QED BY <3>1, <3>2, <3>3, <3>4 DEF SharedWords
    <2> QED BY <2>4, <2>5 DEF A!IsNew, A!NewActivations
  <1>8. Frames' = Append([Frames EXCEPT ![n] = A!Caller], act)
    <2>1. ASSUME NEW i \in 1 .. n, i # n
          PROVE  Frames'[i] = Frames[i]
      <3>1. /\ i \in 1 .. Len(stack') /\ i # Len(stack') /\ i + 1 \in 1 .. n
            /\ stack'[i] = stack[i] /\ stack'[i + 1] = stack[i + 1]
        BY <2>1, <1>2, <1>4
      <3>2. ResumeAt(i)' = ResumeAt(i)
        BY <3>1, <2>1 DEF ResumeAt
      <3>3. \A a \in LocalsOf[stack[i].function] : a \in Addr
        BY LayoutFacts DEF FramesOK
      <3>4. Frames'[i] = FrameOf(i)' /\ Frames[i] = FrameOf(i)
        BY <3>1 DEF FramesOK
      <3> QED BY <3>1, <3>2, <3>3, <3>4, <1>6 DEF FrameOf
    <2>2. Frames'[n] = A!Caller
      <3>1. n \in 1 .. Len(stack') /\ n # Len(stack') /\ stack'[n] = stack[n]
        BY <1>2, <1>4
      <3>2. ResumeAt(n)' = pc + 1
        BY <3>1, <1>4 DEF ResumeAt
      <3>3. \A a \in LocalsOf[stack[n].function] : a \in Addr
        BY <1>2, LayoutFacts DEF FramesOK
      <3>4. Frames'[n] = FrameOf(n)'
        BY <3>1 DEF FramesOK
      <3>5. FrameOf(n)' = [function |-> stack[n].function,
                           frame |-> [a \in LocalsOf[stack[n].function] |-> Seen(n, a)],
                           next |-> pc + 1]
        BY <3>1, <3>2, <3>3, <1>2, <1>6 DEF FrameOf
      <3> QED BY <3>4, <3>5, <1>5 DEF A!Caller, FrameOf
    <2>3. Frames'[n + 1] = act
      BY <1>2, <1>4 DEF FramesOK
    <2>4. /\ Frames' = [i \in 1 .. n + 1 |-> Frames'[i]]
          /\ DOMAIN Frames = 1 .. n
      BY <1>2, <1>4 DEF FramesOK, Frames
    <2> DEFINE upd == [Frames EXCEPT ![n] = A!Caller]
    <2>5. /\ DOMAIN upd = 1 .. n
          /\ \A i \in 1 .. n : upd[i] = Frames'[i]
      BY <2>1, <2>2, <2>4
    <2> DEFINE T == {Frames'[i] : i \in 1 .. n + 1}
    <2>6. upd = [i \in 1 .. n |-> Frames'[i]]
      BY <2>5
    <2>7. (\A i \in 1 .. n : Frames'[i] \in T) /\ Frames'[n + 1] \in T
      BY <1>2
    <2> HIDE DEF T, upd, act
    <2>8. upd \in [1 .. n -> T]
      BY <2>6, <2>7
    <2>9. upd \in Seq(T) /\ Len(upd) = n
      BY <2>8, <1>2
    <2>10. /\ Append(upd, act) \in Seq(T)
           /\ Len(Append(upd, act)) = n + 1
           /\ \A i \in 1 .. n : Append(upd, act)[i] = upd[i]
           /\ Append(upd, act)[n + 1] = act
      BY <2>3, <2>7, <2>9, AppendProperties
    <2>11. \A i \in 1 .. n + 1 : Append(upd, act)[i] = Frames'[i]
      <3>1. \A i \in 1 .. n + 1 : i = n + 1 \/ i \in 1 .. n
        BY <1>2
      <3> QED BY <3>1, <2>3, <2>5, <2>10
    <2>12. Append(upd, act) = [i \in 1 .. n + 1 |-> Append(upd, act)[i]]
      <3> DEFINE app == Append(upd, act)
      <3>1. app \in Seq(T) /\ Len(app) = n + 1
        BY <2>10
      <3> HIDE DEF app
      <3>2. app \in [1 .. n + 1 -> T]
        BY <3>1, LenProperties
      <3>3. app = [i \in 1 .. n + 1 |-> app[i]]
        BY <3>2
      <3> QED BY <3>3 DEF app
    <2> QED BY <2>4, <2>11, <2>12 DEF upd
  <1>9. SharedWords' = SharedWords
    BY <1>1, <1>2, CopyParamsType DEF Enter, SharedWords, Shared
  <1> HIDE DEF act
  <1> QED BY <1>3, <1>5, <1>7, <1>8, <1>9 DEF A!ACall

(* The host enters f with parameters of its own.                           *)
LEMMA ExecRefines ==
    ASSUME JInv, JInv', FramesOK, FramesOK', NEW f \in Function,
           NEW parms \in [{w[2] : w \in Params[f]} -> Val], Exec(f, parms)
    PROVE  A!AStart(f)
  <1> DEFINE mem == [a \in Addr |-> IF a \in DOMAIN parms THEN parms[a] ELSE globals[a]]
             act == FrameOf(1)'
  <1>1. stack = <<>> /\ Enter(f, mem, statement) /\ statement \in Nat
    BY DEF Exec, Running, JInv, IInv, TypeOK
  <1>2. /\ IInv /\ Nested /\ MemoryTypeOK /\ mem \in [Addr -> Val]
    BY JInvFacts DEF JInv
  <1> HIDE DEF mem
  <1>3. Len(stack) = 0
    BY <1>1
  <1>4. /\ Len(stack') = 1
        /\ stack'[1] = [stmt |-> statement, localsp |-> Len(localstack), function |-> f]
    BY <1>1, <1>2, <1>3, EnterShape
  <1>5. ResumeAt(1)' = Entry[f]
    BY <1>1, <1>4 DEF ResumeAt, Enter
  <1>6. act = [function |-> f, frame |-> [a \in LocalsOf[f] |-> Seen(1, a)'],
               next |-> Entry[f]]
    BY <1>4, <1>5 DEF FrameOf
  <1>7. act \in A!NewActivations(f)
    <2> DEFINE fr == [a \in LocalsOf[f] |-> Seen(1, a)']
    <2>1. \A a \in LocalsOf[f] : a \in Addr /\ Seen(1, a)' \in Val
      <3>1. 1 \in 1 .. Len(stack')
        BY <1>4
      <3>2. \A a \in Addr : Seen(1, a)' \in Val
        BY <3>1 DEF FramesOK
      <3> QED BY <3>2, LayoutFacts
    <2>2. fr \in [LocalsOf[f] -> Val]
      BY <2>1
    <2> HIDE DEF fr
    <2> QED BY <2>2, <1>6 DEF A!NewActivations, fr
  <1>8. ASSUME NEW w \in Params[f]
        PROVE  act.frame[w[1]] = SharedWords'[w[2]]
    <2>1. /\ w[1] \in LocalsOf[f] /\ w[2] \in Shared /\ w[1] \in Addr
          /\ w[2] \in Addr /\ w[2] \notin LocalsOf[f]
      BY ParamsAssumption, LayoutFacts DEF ParamsAssumption, Shared
    <2>2. act.frame[w[1]] = Seen(1, w[1])'
      BY <1>6, <2>1
    <2>3. Seen(1, w[1])' = CopyParams(f, mem)[w[1]]
      BY <2>1, <1>1, <1>2, <1>3, EnterSeenByNew
    <2>4. CopyParams(f, mem)[w[1]] = mem[w[2]] /\ CopyParams(f, mem)[w[2]] = mem[w[2]]
      BY <1>2, <2>1, CopyParamsType
    <2>5. globals' = CopyParams(f, mem)
      BY <1>1 DEF Enter
    <2> QED BY <2>1, <2>2, <2>3, <2>4, <2>5 DEF SharedWords
  <1>9. Frames' = <<act>>
    <2>1. Frames' = [i \in 1 .. 1 |-> Frames'[i]]
      BY <1>4 DEF Frames
    <2>2. Frames'[1] = act
      BY <1>4 DEF FramesOK
    <2> HIDE DEF act
    <2> QED BY <2>1, <2>2
  <1>10. Frames = <<>>
    <2>1. 1 .. Len(stack) = {}
      BY <1>3
    <2> QED BY <2>1 DEF Frames
  <1>11. SharedWords' \in [Shared -> Val]
    BY DEF FramesOK
  <1>12. A!IsNew(act, f, SharedWords')
    <2> HIDE DEF act
    <2> QED BY <1>7, <1>8 DEF A!IsNew, A!NewActivations
  <1> HIDE DEF act
  <1> QED BY <1>7, <1>9, <1>10, <1>11, <1>12 DEF A!AStart

LEMMA ReturnRefines ==
    ASSUME JInv, JInv', FramesOK, FramesOK', NEW opa \in Operand, Return(opa)
    PROVE  A!AReturn(opa)
  <1> PICK n : n = Len(stack)
    OBVIOUS
  <1> DEFINE mem == Returned(opa)
  <1>1. stack # <<>> /\ Leave(mem)
    BY DEF Return, Running
  <1>2. /\ IInv /\ Nested /\ MemoryTypeOK /\ LocalStackExact
        /\ globals \in [Addr -> Val] /\ mem \in [Addr -> Val]
        /\ n \in Nat /\ n # 0 /\ n \in 1 .. n /\ n - 1 \in 0 .. n
    BY <1>1, JInvFacts, StackFacts, ReturnedType DEF JInv
  <1>3. /\ \A a \in Addr : (\A k \in DOMAIN ReturnWord : ReturnWord[k] # a)
                              => mem[a] = globals[a]
        /\ \A k \in DOMAIN ReturnWord : /\ ReturnWord[k] = OFS_RETURN + k
                                        /\ ReturnWord[k] \in Shared
                                        /\ ReturnWord[k] \in Addr
    BY LayoutAssumption, LayoutFacts DEF Returned, LayoutAssumption, ReturnWord
  <1>4. ASSUME NEW k \in DOMAIN ReturnWord
        PROVE  mem[ReturnWord[k]] = globals[IF opa = 0 THEN 0 ELSE opa + k]
    <2>1. /\ k \in Nat /\ opa \in Nat /\ ReturnWord[k] = 1 + k /\ ReturnWord[k] \in Addr
          /\ opa + ReturnWord[k] - 1 = opa + k
      BY <1>3, LayoutFacts DEF OFS_RETURN, Operand, ReturnWord
    <2> QED BY <2>1, <1>3 DEF Returned, OFS_RETURN
  <1> HIDE DEF mem
  <1>5. /\ Len(stack') = n - 1
        /\ \A i \in 1 .. n - 1 : stack'[i] = stack[i]
    BY <1>1, <1>2, LeaveShape
  <1>6. \A f \in Function : \A a \in LocalsOf[f] :
           a \in Addr /\ a \notin Shared /\ mem[a] = globals[a]
    <2>1. ASSUME NEW f \in Function, NEW a \in LocalsOf[f]
          PROVE  a \in Addr /\ a \notin Shared
      BY LayoutFacts DEF Shared
    <2>2. \A a \in Addr : a \notin Shared => mem[a] = globals[a]
      BY <1>3
    <2> QED BY <2>1, <2>2
  <1>7. ASSUME NEW i \in 1 .. n - 1
        PROVE  Frames'[i] = Frames[i]
    <2>1. /\ i \in 1 .. n /\ i # n /\ i \in 1 .. Len(stack')
          /\ stack'[i] = stack[i] /\ stack[i].function \in Function
      <3>1. i \in 1 .. n /\ i # n /\ i \in 1 .. Len(stack')
        BY <1>2, <1>5
      <3> QED BY <3>1, <1>5 DEF FramesOK
    <2>2. \A a \in LocalsOf[stack[i].function] : Seen(i, a)' = Seen(i, a)
      BY <2>1, <1>1, <1>2, <1>6, LeaveSeen
    <2>3. ResumeAt(i)' = ResumeAt(i)
      <3>1. CASE i = n - 1
        <4>1. ResumeAt(i) = stack[n].stmt
          BY <3>1, <1>2 DEF ResumeAt
        <4>2. ResumeAt(i)' = Top.stmt
          BY <3>1, <1>1, <1>5 DEF ResumeAt, Leave
        <4> QED BY <4>1, <4>2 DEF Top
      <3>2. CASE i # n - 1
        <4>1. i + 1 \in 1 .. n - 1
          BY <3>2, <1>2
        <4>2. stack'[i + 1] = stack[i + 1]
          BY <4>1, <1>5
        <4> QED BY <3>2, <4>2, <2>1, <1>5 DEF ResumeAt
      <3> QED BY <3>1, <3>2
    <2>4. Frames'[i] = FrameOf(i)' /\ Frames[i] = FrameOf(i)
      BY <2>1 DEF FramesOK
    <2> QED BY <2>1, <2>2, <2>3, <2>4 DEF FrameOf
  <1>8. /\ Len(Frames) = n /\ Frames # <<>>
        /\ A!Top = FrameOf(n) /\ A!Top.function = Top.function
        /\ \A a \in LocalsOf[Top.function] : A!Top.frame[a] = globals[a]
    <2>1. Len(Frames) = n /\ Frames # <<>> /\ Frames[n] = FrameOf(n)
      BY <1>2 DEF FramesOK
    <2>2. FrameOf(n).function = Top.function
      BY DEF FrameOf, Top
    <2>3. \A a : Seen(n, a) = globals[a]
      BY <1>2, SeenByTop
    <2>4. \A a \in LocalsOf[Top.function] : FrameOf(n).frame[a] = globals[a]
      BY <2>3 DEF FrameOf, Top
    <2> QED BY <2>1, <2>2, <2>4 DEF A!Top
  <1>9. Frames' = SubSeq(Frames, 1, Len(Frames) - 1)
    <2> DEFINE T == {Frames[i] : i \in 1 .. Len(stack)}
    <2>1. /\ Frames \in Seq(T)
      BY DEF FramesOK
    <2> HIDE DEF T
    <2>2. /\ SubSeq(Frames, 1, n - 1) \in Seq(T)
          /\ Len(SubSeq(Frames, 1, n - 1)) = n - 1
          /\ \A i \in 1 .. n - 1 : SubSeq(Frames, 1, n - 1)[i] = Frames[i]
      BY <2>1, <1>2, <1>8, PrefixFacts
    <2>3. Frames' = [i \in 1 .. n - 1 |-> Frames'[i]]
      BY <1>5 DEF Frames
    <2>4. SubSeq(Frames, 1, n - 1) = [i \in 1 .. n - 1 |-> SubSeq(Frames, 1, n - 1)[i]]
      BY <2>2
    <2> QED BY <2>2, <2>3, <2>4, <1>7, <1>8
  <1>10. \A a \in Shared : globals'[a] = mem[a]
    <2>1. Top.function \in Function
      BY <1>2 DEF Top, FramesOK
    <2> QED BY <2>1, <1>1 DEF Leave, RestoreLocals, Shared
  <1>11. SharedWords' \in [Shared -> Val]
    BY DEF FramesOK
  <1>12. \A a \in Shared : (\A k \in DOMAIN ReturnWord : a # ReturnWord[k])
                              => SharedWords'[a] = SharedWords[a]
    BY <1>3, <1>10, LayoutFacts DEF SharedWords
  <1>13. ASSUME NEW k \in DOMAIN ReturnWord
         PROVE  /\ opa + k \in LocalsOf[Top.function] =>
                      SharedWords'[ReturnWord[k]] = A!Top.frame[opa + k]
                /\ opa # 0 /\ opa + k \in Shared =>
                      SharedWords'[ReturnWord[k]] = SharedWords[opa + k]
    <2>1. SharedWords'[ReturnWord[k]] = globals[IF opa = 0 THEN 0 ELSE opa + k]
      BY <1>3, <1>4, <1>10 DEF SharedWords
    <2>2. opa = 0 => opa + k \in Shared
      <3>1. CASE k = 0
        BY <3>1, LayoutAssumption DEF LayoutAssumption
      <3>2. CASE k # 0
        <4>1. k - 1 \in DOMAIN ReturnWord /\ ReturnWord[k - 1] = k
          BY <3>2, LayoutFacts DEF ReturnWord, OFS_RETURN
        <4>2. k \in Shared /\ k \in Nat
          BY <4>1, <1>3, LayoutFacts
        <4> QED BY <4>2
      <3> QED BY <3>1, <3>2
    <2>3. opa + k \in LocalsOf[Top.function] => opa # 0
      BY <2>2, <1>2, <1>6 DEF Top, FramesOK
    <2> QED BY <2>1, <2>3, <1>8 DEF SharedWords
  <1> QED BY <1>8, <1>9, <1>11, <1>12, <1>13 DEF A!AReturn
-----------------------------------------------------------------------------
LEMMA InitJInv == Init => JInv
  <1> SUFFICES ASSUME Init PROVE Nested
    BY InitIInv DEF JInv
  <1>1. 1 .. Len(stack) = {}
    BY DEF Init
  <1> QED BY <1>1 DEF Nested

LEMMA NextJInv == JInv /\ [Next]_vars => JInv'
  <1> SUFFICES ASSUME IInv, Nested, [Next]_vars PROVE Nested'
    BY NextIInv DEF JInv
  <1>1. MemoryTypeOK /\ globals \in [Addr -> Val] /\ statement \in Nat
    BY JInvFacts DEF IInv, TypeOK
  <1>2. ASSUME NEW f \in Function, NEW parms \in [{w[2] : w \in Params[f]} -> Val],
               Exec(f, parms)
        PROVE  Nested'
    <2> DEFINE mem == [a \in Addr |-> IF a \in DOMAIN parms THEN parms[a] ELSE globals[a]]
    <2>1. mem \in [Addr -> Val] /\ Enter(f, mem, statement)
      BY <1>1, <1>2 DEF Exec
    <2> HIDE DEF mem
    <2> QED BY <1>1, <2>1, EnterNested
  <1>3. ASSUME NEW f \in Function, CallFunction(f)
        PROVE  Nested'
    <2>1. Enter(f, globals, pc + 1) /\ pc + 1 \in Nat
      BY <1>3 DEF CallFunction, IInv, TypeOK
    <2> QED BY <1>1, <2>1, EnterNested
  <1>4. ASSUME NEW opa \in Operand, Return(opa)
        PROVE  Nested'
    BY <1>1, <1>4, ReturnedType, LeaveNested DEF Return, Running
  <1>5. ASSUME NEW t, NEW runaway, Jump(t, runaway)
        PROVE  Nested'
    BY <1>5, CleanUpNested, SameNested DEF Jump
  <1>6. ASSUME NEW v, Fail(v)
        PROVE  Nested'
    BY <1>6, CleanUpNested DEF Fail
  <1>7. ASSUME NEW a, NEW v, Operate(a, v) \/ CallBuiltin(v) \/ BranchNotTaken
        PROVE  Nested'
    BY <1>7, SameNested DEF Operate, CallBuiltin, BranchNotTaken
  <1>8. CASE UNCHANGED vars
    BY <1>8, SameNested DEF vars
  <1> QED BY <1>2, <1>3, <1>4, <1>5, <1>6, <1>7, <1>8 DEF Next, Step, BranchTaken, Goto

LEMMA StepRefines ==
    ASSUME JInv, JInv', FramesOK, FramesOK', [Next]_vars
    PROVE  [A!ANext]_(A!avars)
  <1>1. ASSUME NEW f \in Function, NEW parms \in [{w[2] : w \in Params[f]} -> Val],
               Exec(f, parms)
        PROVE  A!ANext
    BY <1>1, ExecRefines DEF A!ANext
  <1>2. ASSUME NEW f \in Function, CallFunction(f)
        PROVE  A!ANext
    BY <1>2, CallRefines DEF A!ANext
  <1>3. ASSUME NEW opa \in Operand, Return(opa)
        PROVE  A!ANext
    BY <1>3, ReturnRefines DEF A!ANext
  <1>4. ASSUME NEW v \in Words, Fail(v)
        PROVE  A!ANext
    BY <1>4, AbortRefines DEF Fail, CleanUp, A!ANext
  <1>5. ASSUME NEW t, NEW runaway, Jump(t, runaway)
        PROVE  A!ANext
    <2>1. CASE stack' = <<>>
      BY <1>5, <2>1, AbortRefines DEF Jump, A!ANext
    <2>2. CASE stack' # <<>>
      <3>1. UNCHANGED <<stack, localstack, globals>> /\ Running
        BY <1>5, <2>2 DEF Jump, CleanUp
      <3> QED BY <3>1, StayRefines DEF A!ANext
    <2> QED BY <2>1, <2>2
  <1>6. CASE BranchNotTaken
    BY <1>6, StayRefines DEF BranchNotTaken, A!ANext
  <1>7. ASSUME NEW a \in Addr, NEW v \in Words, Operate(a, v)
        PROVE  A!ANext
    <2>1. Running /\ UNCHANGED <<stack, localstack>>
      BY <1>7 DEF Operate
    <2>2. ASSUME NEW b \in Addr, b \notin LocalsOf[Top.function] \cup Shared
          PROVE  globals'[b] = globals[b]
      <3>1. b - a \notin DOMAIN v
        <4>1. SUFFICES ASSUME b - a \in DOMAIN v PROVE FALSE
          OBVIOUS
        <4>2. a + (b - a) \in LocalsOf[Top.function] \cup Shared
          BY <1>7, <4>1 DEF Operate
        <4>3. a + (b - a) = b
          BY LayoutFacts
        <4> QED BY <4>2, <4>3, <2>2
      <3> QED BY <3>1, <1>7 DEF Operate
    <2> QED BY <2>1, <2>2, StayRefines DEF A!ANext
  <1>8. ASSUME NEW v \in Words, CallBuiltin(v)
        PROVE  A!ANext
    <2>1. Running /\ UNCHANGED <<stack, localstack>> /\ globals' = WithResult(v)
      BY <1>8 DEF CallBuiltin
    <2>2. ASSUME NEW b \in Addr, b \notin Shared
          PROVE  globals'[b] = globals[b]
      <3>1. b - OFS_RETURN \notin DOMAIN v
        <4>1. SUFFICES ASSUME b - OFS_RETURN \in DOMAIN v PROVE FALSE
          OBVIOUS
        <4>2. b - OFS_RETURN \in DOMAIN ReturnWord
          <5>1. PICK m \in 0 .. VecSize - 1 : DOMAIN v = 0 .. m
            BY DEF Words
          <5> QED BY <4>1, <5>1, LayoutFacts DEF ReturnWord
        <4>3. ReturnWord[b - OFS_RETURN] = b
          BY <4>2, LayoutFacts DEF ReturnWord, OFS_RETURN
        <4> QED BY <4>2, <4>3, <2>2, LayoutAssumption DEF LayoutAssumption
      <3> QED BY <3>1, <2>1 DEF WithResult
    <2> QED BY <2>1, <2>2, StayRefines DEF A!ANext
  <1>9. CASE UNCHANGED vars
    <2>1. UNCHANGED <<globals, stack, localstack, pc>>
      BY <1>9 DEF vars
    <2>2. \A i, a : Seen(i, a)' = Seen(i, a)
      BY <2>1, StaySeen
    <2>3. \A i : ResumeAt(i)' = ResumeAt(i)
      BY <2>1 DEF ResumeAt
    <2>4. Frames' = Frames
      BY <2>1, <2>2, <2>3 DEF Frames
    <2>5. SharedWords' = SharedWords
      BY <2>1 DEF SharedWords
    <2> QED BY <2>4, <2>5 DEF A!avars
  <1> QED BY <1>1, <1>2, <1>3, <1>4, <1>5, <1>6, <1>7, <1>8, <1>9
          DEF Next, Step, BranchTaken, Goto

(* prog_enterfunction and prog_leavefunction give every activation a frame *)
(* of its own, for every placing of locals, every nesting of calls and     *)
(* every depth of recursion: the executor implements Activations.          *)
THEOREM CallsKeepFrames == Spec => FramesArePrivate
  <1>1. JInv /\ [Next]_vars => JInv'
    BY NextJInv
  <1>2. JInv /\ JInv' /\ FramesOK /\ FramesOK' /\ [Next]_vars => [A!ANext]_(A!avars)
    BY StepRefines
  <1> QED BY InitJInv, InitRefines, FramesAreOK, <1>1, <1>2, PTL
          DEF Spec, FramesArePrivate, A!ASpec
-----------------------------------------------------------------------------
(* What INSTR_ADDRESS computed is an index of that field in that entity,   *)
(* which exists.                                                           *)
AddressKnown ==
    address # NoAddress =>
        \E e \in 0 .. entities - 1, f \in 0 .. EntityFields - 1 :
            address = [ptr |-> Word(e, f), entity |-> e, field |-> f]

PoolInv == EntitiesTypeOK /\ PoolAgrees /\ AddressKnown
-----------------------------------------------------------------------------
(* An entity's fields lie before those of every later one.                 *)
LEMMA WordsInOrder ==
    ASSUME NEW d \in Nat, NEW e \in Nat, d < e
    PROVE  /\ Word(d, EntityFields - 1) < Word(e, 0)
           /\ Word(d, EntityFields - 1) \in Nat /\ Word(e, 0) \in Nat
  <1>1. EntityFields \in Nat /\ EntityFields > 0
    BY EntityAssumption DEF EntityAssumption
  <1>2. PICK k \in Nat : e = d + 1 + k
    <2>1. e - d - 1 \in Nat /\ e = d + 1 + (e - d - 1)
      OBVIOUS
    <2> QED BY <2>1
  <1>3. EntityFields * k \in Nat /\ EntityFields * d \in Nat
    BY <1>1
  <1>4. EntityFields * e = EntityFields * d + EntityFields + EntityFields * k
    BY <1>1, <1>2
  <1> QED BY <1>1, <1>3, <1>4 DEF Word

(* A field of an entity lies inside the data of all entities.              *)
LEMMA WordInside ==
    ASSUME NEW n \in Nat, NEW e \in 0 .. n - 1, NEW f \in 0 .. EntityFields - 1
    PROVE  /\ Word(e, f) \in Nat /\ Word(e, f) < EntityFields * n
           /\ Word(e, f) \in Word(e, 0) .. Word(e, EntityFields - 1)
  <1>1. EntityFields \in Nat /\ EntityFields > 0 /\ e \in Nat /\ e < n
    BY EntityAssumption DEF EntityAssumption
  <1>2. Word(e, EntityFields - 1) < Word(n, 0) /\ Word(n, 0) = EntityFields * n
    <2>1. EntityFields * n \in Nat
      BY <1>1
    <2> QED BY <1>1, <2>1, WordsInOrder DEF Word
  <1>3. EntityFields * e \in Nat
    BY <1>1
  <1> QED BY <1>1, <1>2, <1>3 DEF Word

LEMMA WordsApart ==
    ASSUME NEW d \in Nat, NEW e \in Nat, d # e
    PROVE  (Word(d, 0) .. Word(d, EntityFields - 1)) \cap (Word(e, 0) .. Word(e, EntityFields - 1)) = {}
  <1>1. EntityFields \in Nat /\ EntityFields > 0
    BY EntityAssumption DEF EntityAssumption
  <1>2. \A x \in Nat : /\ EntityFields * x \in Nat
                       /\ Word(x, 0) \in Nat /\ Word(x, EntityFields - 1) \in Nat
    <2>1. \A x \in Nat : EntityFields * x \in Nat
      BY <1>1
    <2> QED BY <1>1, <2>1 DEF Word
  <1>3. CASE d < e
    BY <1>2, <1>3, WordsInOrder
  <1>4. CASE e < d
    BY <1>2, <1>4, WordsInOrder
  <1> QED BY <1>3, <1>4
-----------------------------------------------------------------------------
LEMMA ClearValues == Clear \in Seq(FieldVal) /\ Len(Clear) = EntityFields
  <1>1. EntityFields \in Nat /\ 0 \in FieldVal
    BY EntityAssumption DEF EntityAssumption
  <1>2. Clear \in [1 .. EntityFields -> FieldVal]
    BY <1>1 DEF Clear
  <1> QED BY <1>1, <1>2, SeqDef DEF Clear

(* A sequence whose words are replaced one by one stays of its length.     *)
LEMMA Rewritten ==
    ASSUME NEW s \in Seq(FieldVal), NEW t, t = [k \in DOMAIN s |-> t[k]],
           \A k \in DOMAIN s : t[k] \in FieldVal
    PROVE  t \in Seq(FieldVal) /\ Len(t) = Len(s)
  <1>1. Len(s) \in Nat /\ DOMAIN s = 1 .. Len(s)
    OBVIOUS
  <1>2. t \in [1 .. Len(s) -> FieldVal]
    BY <1>1
  <1> QED BY <1>1, <1>2, SeqDef

(* A pool of flags, of one slot at least, that gets another one, or        *)
(* another value of one that is not the first.                             *)
LEMMA PoolGrows ==
    ASSUME NEW S, NEW s \in Seq(S), s # <<>>, NEW x \in S
    PROVE  /\ Append(s, x) \in Seq(S) /\ Append(s, x) # <<>>
           /\ Len(Append(s, x)) = Len(s) + 1 /\ Append(s, x)[1] = s[1]
           /\ Len(s) \in Nat /\ Len(s) > 0
  BY EmptySeq, LenProperties, AppendProperties

LEMMA PoolChanges ==
    ASSUME NEW S, NEW s \in Seq(S), s # <<>>, NEW x \in S, NEW i \in 2 .. Len(s)
    PROVE  LET t == [s EXCEPT ![i] = x]
           IN t \in Seq(S) /\ Len(t) = Len(s) /\ t # <<>> /\ t[1] = s[1]
  BY EmptySeq, LenProperties, ExceptSeq

LEMMA SpawnKeeps ==
    ASSUME PoolInv, NEW e \in 0 .. MaxEntities, Spawn(e)
    PROVE  PoolInv'
  <1> USE DEF PoolInv
  <1>1. EntityFields \in Nat /\ 0 \in FieldVal /\ MaxEntities \in Nat
    BY EntityAssumption DEF EntityAssumption
  <1>2. CASE e \in Slots
    <2>1. SpawnReusing(e) /\ live' = live \cup {e} /\ UNCHANGED <<allowworldwrites, entityerror, address>>
      BY <1>2 DEF Spawn
    <2>2. entitydata' \in Seq(FieldVal) /\ Len(entitydata') = Len(entitydata)
      <3>1. entitydata \in Seq(FieldVal) /\ entitydata' = Cleared(e)
        BY <2>1 DEF SpawnReusing, EntitiesTypeOK
      <3>2. \A k \in DOMAIN entitydata : entitydata[k] \in FieldVal
        BY <3>1
      <3>3. /\ Cleared(e) = [k \in DOMAIN entitydata |-> Cleared(e)[k]]
            /\ \A k \in DOMAIN entitydata : Cleared(e)[k] \in FieldVal
        BY <1>1, <3>2, Zenon DEF Cleared
      <3> HIDE DEF Cleared
      <3> QED BY <3>1, <3>3, Rewritten
    <2>3. UNCHANGED <<entitypool, entities, address>>
      BY <2>1 DEF SpawnReusing
    <2>4. EntitiesTypeOK'
      BY <1>2, <2>1, <2>2, <2>3 DEF EntitiesTypeOK, Slots
    <2>5. PoolAgrees'
      BY <2>2, <2>3 DEF PoolAgrees, InUse
    <2>6. AddressKnown'
      BY <2>3 DEF AddressKnown
    <2> QED BY <2>4, <2>5, <2>6
  <1>3. CASE e \notin Slots
    <2>1. SpawnGrowing(e) /\ live' = live \cup {e} /\ UNCHANGED <<allowworldwrites, entityerror, address>>
      BY <1>3 DEF Spawn
    <2>2. /\ entitypool' \in Seq(BOOLEAN) /\ Len(entitypool') = Len(entitypool) + 1
          /\ Len(entitypool) \in Nat /\ Len(entitypool) > 0 /\ entitypool'[1] = entitypool[1]
      <3>1. entitypool \in Seq(BOOLEAN) /\ entitypool # <<>> /\ entitypool' = Append(entitypool, TRUE)
        BY <2>1 DEF SpawnGrowing, EntitiesTypeOK
      <3>2. TRUE \in BOOLEAN
        OBVIOUS
      <3> QED BY <3>1, <3>2, PoolGrows, Zenon
    <2>3. entitydata' \in Seq(FieldVal) /\ Len(entitydata') = Len(entitydata) + EntityFields
      <3>1. entitydata \in Seq(FieldVal) /\ entitydata' = entitydata \o Clear
        BY <2>1 DEF SpawnGrowing, EntitiesTypeOK
      <3> QED BY <3>1, ClearValues, ConcatProperties
    <2>4. entities' = entities + 1 /\ entities \in Nat
      BY <2>1 DEF SpawnGrowing, EntitiesTypeOK
    <2>5. EntitiesTypeOK'
      <3>1. live' \subseteq Slots'
        <4>1. live \subseteq 0 .. Len(entitypool) - 1
          BY DEF EntitiesTypeOK, Slots
        <4>2. e = Len(entitypool)
          BY <2>1 DEF SpawnGrowing
        <4>3. Slots' = 0 .. Len(entitypool)
          BY <2>2 DEF Slots
        <4>4. live' = live \cup {e} /\ Len(entitypool) \in Nat
          BY <2>1, <2>2
        <4>5. \A d \in live \cup {e} : d \in 0 .. Len(entitypool)
          BY <4>1, <4>2, <4>4
        <4> QED BY <4>3, <4>4, <4>5
      <3> QED BY <2>1, <2>2, <2>3, <2>4, <3>1 DEF EntitiesTypeOK
    <2>6. PoolAgrees'
      <3>1. EntityFields * (entities + 1) = EntityFields * entities + EntityFields
        BY <1>1, <2>4
      <3> QED BY <2>2, <2>3, <2>4, <3>1 DEF PoolAgrees, InUse
    <2>7. AddressKnown'
      BY <2>1, <2>4 DEF AddressKnown
    <2> QED BY <2>5, <2>6, <2>7
  <1> QED BY <1>2, <1>3

LEMMA StoresKeep ==
    ASSUME PoolInv, NEW v \in FieldVal,  StoreP(v) \/ \E e \in 0 .. MaxEntities : State(e, v)
    PROVE  PoolInv'
  <1> USE DEF PoolInv
  <1>1. UNCHANGED <<entitypool, entities, allowworldwrites, address, live>>
    BY DEF StoreP, State
  <1>2. entityerror' \in BOOLEAN
    BY DEF StoreP, State
  <1>3. entitydata' \in Seq(FieldVal) /\ Len(entitydata') = Len(entitydata)
    <2>1. CASE StoreP(v)
      BY <2>1, SMTT(30) DEF StoreP, EntitiesTypeOK
    <2>2. ASSUME NEW e \in 0 .. MaxEntities, State(e, v) PROVE entitydata' \in Seq(FieldVal) /\ Len(entitydata') = Len(entitydata)
      <3>1. entitydata \in Seq(FieldVal)
        BY DEF EntitiesTypeOK
      <3>2. \A k \in DOMAIN entitydata : entitydata[k] \in FieldVal
        BY <3>1
      <3> DEFINE at == IF e \in Slots THEN e ELSE 0
                 written == [k \in DOMAIN entitydata |->
                               IF \E f \in StateFields : k = Word(at, f) + 1 THEN v ELSE entitydata[k]]
      <3>3. entitydata' = written
        BY <2>2 DEF State
      <3>4. /\ written = [k \in DOMAIN entitydata |-> written[k]]
            /\ \A k \in DOMAIN entitydata : written[k] \in FieldVal
        BY <3>2, Zenon
      <3> HIDE DEF written
      <3> QED BY <3>1, <3>3, <3>4, Rewritten
    <2> QED BY <2>1, <2>2
  <1>4. EntitiesTypeOK'
    BY <1>1, <1>2, <1>3 DEF EntitiesTypeOK, Slots
  <1>5. PoolAgrees'
    BY <1>1, <1>3 DEF PoolAgrees, InUse
  <1>6. AddressKnown'
    BY <1>1 DEF AddressKnown
  <1> QED BY <1>4, <1>5, <1>6

LEMMA AddressKeeps ==
    ASSUME PoolInv, NEW e \in 0 .. MaxEntities, NEW f \in 0 .. EntityFields, Address(e, f)
    PROVE  PoolInv'
  <1> USE DEF PoolInv
  <1>1. UNCHANGED <<entitypool, entities, entitydata, allowworldwrites, entityerror, live>>
    BY DEF Address
  <1>2. /\ e \in 0 .. entities - 1 /\ f \in 0 .. EntityFields - 1
        /\ address' = [ptr |-> Word(e, f), entity |-> e, field |-> f]
    BY EntityAssumption DEF Address, Addressable, EntitiesTypeOK, EntityAssumption
  <1>3. Word(e, f) \in Nat
    BY <1>2, WordInside DEF EntitiesTypeOK
  <1>4. EntitiesTypeOK'
    BY <1>1, <1>2, <1>3 DEF EntitiesTypeOK, Slots
  <1>5. PoolAgrees'
    BY <1>1 DEF PoolAgrees, InUse
  <1>6. AddressKnown'
    BY <1>1, <1>2 DEF AddressKnown, Word
  <1> QED BY <1>4, <1>5, <1>6

LEMMA RemoveKeeps ==
    ASSUME PoolInv, NEW e \in 0 .. MaxEntities, RemoveEntity(e)
    PROVE  PoolInv'
  <1> USE DEF PoolInv
  <1>1. UNCHANGED <<entities, entitydata, allowworldwrites, entityerror, address>>
    BY DEF RemoveEntity
  <1>2. /\ entitypool' \in Seq(BOOLEAN) /\ Len(entitypool') = Len(entitypool)
        /\ entitypool' # <<>> /\ entitypool'[1] = entitypool[1]
    <2>1. entitypool \in Seq(BOOLEAN) /\ entitypool # <<>>
      BY DEF EntitiesTypeOK
    <2>2. /\ entitypool' = [entitypool EXCEPT ![e + 1] = FALSE]
          /\ e \in 1 .. Len(entitypool) - 1
      BY <2>1 DEF RemoveEntity, Freeable, Slots
    <2>3. e + 1 \in 2 .. Len(entitypool) /\ FALSE \in BOOLEAN
      BY <2>1, <2>2
    <2> QED BY <2>1, <2>2, <2>3, PoolChanges, Zenon
  <1>3. EntitiesTypeOK'
    BY <1>1, <1>2 DEF RemoveEntity, EntitiesTypeOK, Slots
  <1>4. PoolAgrees'
    BY <1>1, <1>2 DEF PoolAgrees, InUse
  <1>5. AddressKnown'
    BY <1>1 DEF AddressKnown
  <1> QED BY <1>3, <1>4, <1>5

(* Errors, and the host's next call.                                       *)
LEMMA ErrorsKeep ==
    ASSUME PoolInv, UNCHANGED <<entitypool, entities, entitydata, allowworldwrites, live>>,
           entityerror' \in BOOLEAN, address' = address \/ address' = NoAddress
    PROVE  PoolInv'
  <1> USE DEF PoolInv
  <1>1. EntitiesTypeOK'
    BY DEF EntitiesTypeOK, Slots
  <1>2. PoolAgrees'
    BY DEF PoolAgrees, InUse
  <1>3. AddressKnown'
    BY DEF AddressKnown
  <1> QED BY <1>1, <1>2, <1>3
-----------------------------------------------------------------------------
LEMMA EntitiesInvariant == EntitiesSpec => []PoolInv
  <1>1. EntitiesInit => PoolInv
    <2> SUFFICES ASSUME EntitiesInit PROVE PoolInv
      OBVIOUS
    <2>1. EntitiesTypeOK
      <3>1. entitypool \in Seq(BOOLEAN) /\ entitypool # <<>> /\ live \subseteq Slots
        BY DEF EntitiesInit, Slots
      <3>2. entitydata \in Seq(FieldVal) /\ entities \in Nat
        BY ClearValues DEF EntitiesInit
      <3> QED BY <3>1, <3>2, Zenon DEF EntitiesInit, EntitiesTypeOK
    <2>2. PoolAgrees
      BY ClearValues, EntityAssumption DEF EntitiesInit, PoolAgrees, InUse, EntityAssumption
    <2>3. AddressKnown
      BY DEF EntitiesInit, AddressKnown
    <2> QED BY <2>1, <2>2, <2>3 DEF PoolInv
  <1>2. PoolInv /\ [EntitiesNext]_entitiesVars => PoolInv'
    <2> SUFFICES ASSUME PoolInv, [EntitiesNext]_entitiesVars PROVE PoolInv'
      OBVIOUS
    <2>1. ASSUME NEW e \in 0 .. MaxEntities, Spawn(e) PROVE PoolInv'
      BY <2>1, SpawnKeeps
    <2>2. ASSUME NEW e \in 0 .. MaxEntities, RemoveEntity(e) PROVE PoolInv'
      BY <2>2, RemoveKeeps
    <2>3. ASSUME NEW e \in 0 .. MaxEntities, RemoveFails(e) PROVE PoolInv'
      BY <2>3, ErrorsKeep DEF RemoveFails
    <2>4. ASSUME NEW e \in 0 .. MaxEntities, NEW f \in 0 .. EntityFields, Address(e, f) PROVE PoolInv'
      BY <2>4, AddressKeeps
    <2>5. ASSUME NEW e \in 0 .. MaxEntities, NEW f \in 0 .. EntityFields, AccessFails(e, f) PROVE PoolInv'
      BY <2>5, ErrorsKeep DEF AccessFails
    <2>6. ASSUME NEW v \in FieldVal,  StoreP(v) \/ \E e \in 0 .. MaxEntities : State(e, v) PROVE PoolInv'
      BY <2>6, StoresKeep
    <2>7. CASE ExecEntities
      BY <2>7, ErrorsKeep DEF ExecEntities
    <2>8. CASE UNCHANGED entitiesVars
      BY <2>8, ErrorsKeep DEF entitiesVars, PoolInv, EntitiesTypeOK
    <2> QED BY <2>1, <2>2, <2>3, <2>4, <2>5, <2>6, <2>7, <2>8 DEF EntitiesNext
  <1> QED BY <1>1, <1>2, PTL DEF EntitiesSpec

(* The executor's entities stay well typed, whatever a program does.       *)
THEOREM EntitiesTypeCorrect == EntitiesSpec => []EntitiesTypeOK
  BY EntitiesInvariant, PTL DEF PoolInv

(* entities, entitypool and entitydata agree for any number of spawns,     *)
(* removals, reuses and errors, and for any size of an entity.             *)
THEOREM PoolAlwaysAgrees == EntitiesSpec => []PoolAgrees
  BY EntitiesInvariant, PTL DEF PoolInv

(* An index computed by INSTR_ADDRESS stays an index of the field and the  *)
(* entity it was computed for until INSTR_STOREP uses it.                  *)
THEOREM AddressesStay == EntitiesSpec => []AddressStays
  <1>1. PoolInv => AddressStays
    <2> SUFFICES ASSUME PoolInv, address # NoAddress PROVE AddressStays
      BY DEF AddressStays
    <2>1. PICK e \in 0 .. entities - 1, f \in 0 .. EntityFields - 1 :
              address = [ptr |-> Word(e, f), entity |-> e, field |-> f]
      BY DEF PoolInv, AddressKnown
    <2>2. entities \in Nat /\ entities = Len(entitypool) /\ Len(entitydata) = EntityFields * entities
      BY DEF PoolInv, EntitiesTypeOK, PoolAgrees
    <2>3. /\ Word(e, f) < EntityFields * entities
          /\ Word(e, f) \in Word(e, 0) .. Word(e, EntityFields - 1)
      BY <2>2, WordInside
    <2>4. \A d \in Slots : d # e => Word(e, f) \notin Word(d, 0) .. Word(d, EntityFields - 1)
      BY <2>2, <2>3, WordsApart DEF Slots
    <2> QED BY <2>1, <2>2, <2>3, <2>4 DEF AddressStays
  <1> QED BY <1>1, EntitiesInvariant, PTL
-----------------------------------------------------------------------------
(* What SpawnIsClean compares: the words of an entity, one by one.         *)
LEMMA FieldsOf ==
    ASSUME NEW data \in Seq(FieldVal), NEW n \in Nat, Len(data) = EntityFields * n, NEW e \in 0 .. n - 1
    PROVE  /\ DataOf(data, e) = [k \in 1 .. EntityFields |-> data[Word(e, k - 1) + 1]]
           /\ \A k \in 1 .. EntityFields :
                 Word(e, k - 1) \in Word(e, 0) .. Word(e, EntityFields - 1) /\ Word(e, k - 1) + 1 \in DOMAIN data
  <1>1. EntityFields \in Nat /\ EntityFields > 0 /\ e \in Nat
    BY EntityAssumption DEF EntityAssumption
  <1> DEFINE w == EntityFields * e
  <1>2. w \in Nat /\ \A f \in Int : Word(e, f) = w + f
    BY <1>1 DEF Word
  <1> HIDE DEF w
  <1>3. \A k \in 1 .. EntityFields :
           /\ Word(e, k - 1) \in Word(e, 0) .. Word(e, EntityFields - 1)
           /\ Word(e, k - 1) \in Nat /\ Word(e, k - 1) < Len(data)
    <2> TAKE k \in 1 .. EntityFields
    <2>1. k - 1 \in 0 .. EntityFields - 1
      BY <1>1
    <2> QED BY <2>1, WordInside
  <1>4. \A i \in w + 1 .. w + EntityFields : i \in DOMAIN data /\ data[i] \in FieldVal
    <2> TAKE i \in w + 1 .. w + EntityFields
    <2>1. i - w \in 1 .. EntityFields /\ Word(e, i - w - 1) + 1 = i
      BY <1>1, <1>2
    <2>2. i \in DOMAIN data
      BY <1>2, <1>3, <2>1
    <2> QED BY <2>2
  <1>5. DataOf(data, e) = SubSeq(data, w + 1, w + EntityFields)
    <2>1. Word(e, 0) = w
      BY <1>2
    <2> QED BY <2>1 DEF DataOf
  <1>6. /\ DataOf(data, e) \in Seq(FieldVal) /\ Len(DataOf(data, e)) = EntityFields
        /\ \A k \in 1 .. EntityFields : DataOf(data, e)[k] = data[w + 1 + k - 1]
    <2>1. w + 1 \in Int /\ w + EntityFields \in Int
      BY <1>1, <1>2
    <2>2. /\ SubSeq(data, w + 1, w + EntityFields) \in Seq(FieldVal)
          /\ Len(SubSeq(data, w + 1, w + EntityFields)) =
               IF w + 1 <= w + EntityFields THEN (w + EntityFields) - (w + 1) + 1 ELSE 0
          /\ \A k \in 1 .. (w + EntityFields) - (w + 1) + 1 :
                SubSeq(data, w + 1, w + EntityFields)[k] = data[(w + 1) + k - 1]
      BY <1>4, <2>1, SubSeqProperties
    <2>3. (w + EntityFields) - (w + 1) + 1 = EntityFields /\ w + 1 <= w + EntityFields
      BY <1>1, <1>2
    <2> QED BY <1>5, <2>2, <2>3
  <1>7. DataOf(data, e) = [k \in 1 .. EntityFields |-> DataOf(data, e)[k]]
    BY <1>6, LenProperties
  <1>8. \A k \in 1 .. EntityFields : DataOf(data, e)[k] = data[Word(e, k - 1) + 1]
    <2> TAKE k \in 1 .. EntityFields
    <2>1. w + 1 + k - 1 = Word(e, k - 1) + 1
      BY <1>1, <1>2
    <2> QED BY <1>6, <2>1
  <1> HIDE DEF DataOf
  <1> QED BY <1>1, <1>3, <1>7, <1>8

LEMMA ReusedIsClean ==
    ASSUME PoolInv, NEW e \in Slots, entitydata' = Cleared(e), entitydata' \in Seq(FieldVal),
           Len(entitydata') = Len(entitydata)
    PROVE  /\ DataOf(entitydata', e) = Clear
           /\ \A d \in Slots \ {e} : DataOf(entitydata', d) = DataOf(entitydata, d)
  <1>1. /\ entities \in Nat /\ entitydata \in Seq(FieldVal) /\ Len(entitydata) = EntityFields * entities
        /\ Slots = 0 .. entities - 1
    BY DEF PoolInv, EntitiesTypeOK, PoolAgrees, Slots
  <1>2. DOMAIN entitydata = DOMAIN entitydata'
    BY <1>1
  <1>3. ASSUME NEW d \in Slots, NEW k \in 1 .. EntityFields
        PROVE  entitydata'[Word(d, k - 1) + 1] = IF d = e THEN 0 ELSE entitydata[Word(d, k - 1) + 1]
    <2>1. Word(d, k - 1) \in Word(d, 0) .. Word(d, EntityFields - 1) /\ Word(d, k - 1) + 1 \in DOMAIN entitydata
      BY <1>1, FieldsOf
    <2>2. Word(d, k - 1) + 1 - 1 = Word(d, k - 1)
      <3>1. Word(d, k - 1) \in Int
        BY <1>1, EntityAssumption DEF Word, EntityAssumption
      <3> QED BY <3>1
    <2>3. CASE d = e
      BY <2>1, <2>2, <2>3 DEF Cleared
    <2>4. CASE d # e
      <3>1. Word(d, k - 1) \notin Word(e, 0) .. Word(e, EntityFields - 1)
        BY <1>1, <2>1, <2>4, WordsApart
      <3> QED BY <2>1, <2>2, <2>4, <3>1 DEF Cleared
    <2> QED BY <2>3, <2>4
  <1>4. DataOf(entitydata', e) = Clear
    <2>1. DataOf(entitydata', e) = [k \in 1 .. EntityFields |-> entitydata'[Word(e, k - 1) + 1]]
      <3>1. entities \in Nat /\ Len(entitydata') = EntityFields * entities /\ e \in 0 .. entities - 1
        BY <1>1
      <3> QED BY <3>1, FieldsOf, Zenon
    <2> QED BY <1>3, <2>1 DEF Clear
  <1>5. ASSUME NEW d \in Slots \ {e} PROVE DataOf(entitydata', d) = DataOf(entitydata, d)
    <2>0. /\ entities \in Nat /\ entitydata \in Seq(FieldVal) /\ Len(entitydata) = EntityFields * entities
          /\ Len(entitydata') = EntityFields * entities /\ d \in 0 .. entities - 1
      BY <1>1
    <2>1. DataOf(entitydata', d) = [k \in 1 .. EntityFields |-> entitydata'[Word(d, k - 1) + 1]]
      BY <2>0, FieldsOf, ZenonT(30)
    <2>2. DataOf(entitydata, d) = [k \in 1 .. EntityFields |-> entitydata[Word(d, k - 1) + 1]]
      BY <2>0, FieldsOf, ZenonT(30)
    <2> QED BY <1>3, <2>1, <2>2
  <1> QED BY <1>4, <1>5

LEMMA NewIsClean ==
    ASSUME PoolInv, NEW e, e = Len(entitypool), entitydata' = entitydata \o Clear
    PROVE  /\ DataOf(entitydata', e) = Clear
           /\ \A d \in Slots \ {e} : DataOf(entitydata', d) = DataOf(entitydata, d)
  <1>1. /\ entities \in Nat /\ entitydata \in Seq(FieldVal) /\ Len(entitydata) = EntityFields * entities
        /\ Slots = 0 .. entities - 1 /\ e = entities
    BY DEF PoolInv, EntitiesTypeOK, PoolAgrees, Slots
  <1> DEFINE w == EntityFields * entities
  <1>2. /\ EntityFields \in Nat /\ w \in Nat /\ EntityFields * (entities + 1) = w + EntityFields
        /\ entities + 1 \in Nat /\ \A f \in Int : Word(entities, f) = w + f
    BY <1>1, EntityAssumption DEF EntityAssumption, Word
  <1>3. Len(entitydata) = w /\ \A d \in Slots : d \in 0 .. (entities + 1) - 1
    BY <1>1
  <1> HIDE DEF w
  <1>4. /\ entitydata' \in Seq(FieldVal) /\ Len(entitydata') = w + EntityFields
        /\ \A i \in 1 .. w + EntityFields :
              entitydata'[i] = IF i <= w THEN entitydata[i] ELSE Clear[i - w]
    BY <1>1, <1>2, <1>3, ClearValues, ConcatProperties
  <1>5. \A d \in 0 .. (entities + 1) - 1 :
           DataOf(entitydata', d) = [k \in 1 .. EntityFields |-> entitydata'[Word(d, k - 1) + 1]]
    BY <1>2, <1>4, FieldsOf
  <1>6. DataOf(entitydata', e) = Clear
    <2>1. \A k \in 1 .. EntityFields : entitydata'[Word(e, k - 1) + 1] = Clear[k]
      <3> TAKE k \in 1 .. EntityFields
      <3>1. Word(e, k - 1) + 1 = w + k
        BY <1>1, <1>2
      <3>2. w + k \in 1 .. w + EntityFields /\ ~(w + k <= w) /\ (w + k) - w = k
        BY <1>2
      <3> QED BY <1>4, <3>1, <3>2
    <2>2. e \in 0 .. (entities + 1) - 1
      BY <1>1
    <2> QED BY <1>5, <2>1, <2>2 DEF Clear
  <1>7. ASSUME NEW d \in Slots \ {e} PROVE DataOf(entitydata', d) = DataOf(entitydata, d)
    <2>1. /\ DataOf(entitydata, d) = [k \in 1 .. EntityFields |-> entitydata[Word(d, k - 1) + 1]]
          /\ \A k \in 1 .. EntityFields : Word(d, k - 1) + 1 \in 1 .. w
      BY <1>1, <1>3, FieldsOf
    <2>2. \A k \in 1 .. EntityFields : entitydata'[Word(d, k - 1) + 1] = entitydata[Word(d, k - 1) + 1]
      <3>1. \A i \in 1 .. w : entitydata'[i] = entitydata[i]
        <4> TAKE i \in 1 .. w
        <4>1. i \in 1 .. w + EntityFields /\ i <= w
          BY <1>2
        <4> QED BY <1>4, <4>1
      <3> QED BY <2>1, <3>1, Zenon
    <2> QED BY <1>3, <1>5, <2>1, <2>2
  <1> QED BY <1>6, <1>7

(* No removed entity's fields come back in a new one, and no entity loses  *)
(* a word to another's spawn.                                              *)
THEOREM SpawnsAreClean == EntitiesSpec => SpawnIsClean
  <1> DEFINE Clean == \A e \in 0 .. MaxEntities : Spawn(e) =>
                         /\ DataOf(entitydata', e) = Clear
                         /\ \A d \in Slots \ {e} : DataOf(entitydata', d) = DataOf(entitydata, d)
  <1>1. PoolInv /\ [EntitiesNext]_entitiesVars => [Clean]_entitiesVars
    <2> SUFFICES ASSUME PoolInv, NEW e \in 0 .. MaxEntities, Spawn(e)
                 PROVE  /\ DataOf(entitydata', e) = Clear
                        /\ \A d \in Slots \ {e} : DataOf(entitydata', d) = DataOf(entitydata, d)
      OBVIOUS
    <2>1. PoolInv'
      BY SpawnKeeps
    <2>2. CASE e \in Slots
      <3>1. entitydata' = Cleared(e) /\ UNCHANGED entities
        BY <2>2 DEF Spawn, SpawnReusing
      <3>2. entitydata' \in Seq(FieldVal) /\ Len(entitydata') = Len(entitydata)
        BY <2>1, <3>1 DEF PoolInv, EntitiesTypeOK, PoolAgrees
      <3> QED BY <2>2, <3>1, <3>2, ReusedIsClean
    <2>3. CASE e \notin Slots
      BY <2>3, NewIsClean DEF Spawn, SpawnGrowing
    <2> QED BY <2>2, <2>3
  <1> QED BY <1>1, EntitiesInvariant, PTL DEF EntitiesSpec, SpawnIsClean
-----------------------------------------------------------------------------
Byte == Char \cup {NUL} \cup {ProgStrings[i] : i \in DOMAIN ProgStrings}

(* The table never gets shorter than the program's strings.                *)
TableInv == /\ StringsTypeOK
            /\ tempstring_start < Len(strings)
            /\ AlwaysTerminated
            /\ ProgramStringsKept
-----------------------------------------------------------------------------
LEMMA Constants ==
    /\ AreaSize \in Nat \ {0} /\ MaxAt \in Nat /\ tempstring_start \in Nat /\ tempstring_start <= MaxAt
    /\ ProgStrings \in Seq(Byte) /\ NUL \in Byte
    /\ \A t \in Text : t \in Seq(Byte) /\ Len(t) \in Nat /\ \A k \in DOMAIN t : t[k] # NUL
  <1> DEFINE Own == {ProgStrings[i] : i \in DOMAIN ProgStrings}
  <1>1. ProgStrings \in Seq(Own)
    BY StringsAssumption DEF StringsAssumption
  <1>2. Own \subseteq Byte /\ Char \subseteq Byte /\ NUL \in Byte
    BY DEF Byte
  <1> HIDE DEF Own
  <1>3. ProgStrings \in Seq(Byte) /\ Len(ProgStrings) \in Nat
    BY <1>1, <1>2
  <1>4. ASSUME NEW t \in Text
        PROVE  t \in Seq(Byte) /\ Len(t) \in Nat /\ \A k \in DOMAIN t : t[k] # NUL
    <2>1. t \in Seq(Char \ {NUL})
      BY StringsAssumption DEF StringsAssumption
    <2>2. \A k \in DOMAIN t : t[k] \in Char \ {NUL}
      BY <2>1
    <2> QED BY <1>2, <2>1, <2>2
  <1> QED BY <1>2, <1>3, <1>4, StringsAssumption DEF StringsAssumption, tempstring_start

(* A text with its terminator, put where it ends inside the table: the     *)
(* rest of the table stays, and so does its length.                        *)
LEMMA PutProperties ==
    ASSUME NEW mem \in Seq(Byte), NEW at \in Nat, NEW text \in Text, at + Len(text) < Len(mem)
    PROVE  LET put == Put(mem, at, text) IN
           /\ put \in Seq(Byte) /\ Len(put) = Len(mem)
           /\ \A k \in 1 .. at : put[k] = mem[k]
           /\ \A k \in 1 .. Len(text) : put[at + k] = text[k]
           /\ put[at + Len(text) + 1] = NUL
           /\ \A k \in at + Len(text) + 2 .. Len(mem) : put[k] = mem[k]
  <1> DEFINE put == Put(mem, at, text)
  <1>1. /\ text \in Seq(Byte) /\ Len(text) \in Nat /\ NUL \in Byte
        /\ DOMAIN text = 1 .. Len(text) /\ DOMAIN mem = 1 .. Len(mem) /\ Len(mem) \in Nat
    BY Constants
  <1>2. \A k \in 1 .. Len(mem) : put[k] = IF k - at \in 1 .. Len(text) THEN text[k - at]
                                          ELSE IF k = at + Len(text) + 1 THEN NUL ELSE mem[k]
    BY <1>1 DEF Put
  <1>3. put \in [1 .. Len(mem) -> Byte]
    <2>1. put = [k \in 1 .. Len(mem) |-> put[k]]
      BY <1>1 DEF Put
    <2>2. \A k \in 1 .. Len(mem) : put[k] \in Byte
      BY <1>1, <1>2
    <2> HIDE DEF put
    <2> QED BY <2>1, <2>2
  <1> HIDE DEF put
  <1>4. put \in Seq(Byte) /\ Len(put) = Len(mem)
    BY <1>1, <1>3, SeqDef
  <1>5. \A k \in 1 .. at : put[k] = mem[k]
    BY <1>1, <1>2
  <1>6. \A k \in 1 .. Len(text) : put[at + k] = text[k]
    <2> TAKE k \in 1 .. Len(text)
    <2>1. at + k \in 1 .. Len(mem) /\ (at + k) - at = k
      BY <1>1
    <2> QED BY <1>2, <2>1
  <1>7. put[at + Len(text) + 1] = NUL
    <2>1. at + Len(text) + 1 \in 1 .. Len(mem) /\ (at + Len(text) + 1) - at \notin 1 .. Len(text)
      BY <1>1
    <2> QED BY <1>2, <2>1
  <1>8. \A k \in at + Len(text) + 2 .. Len(mem) : put[k] = mem[k]
    BY <1>1, <1>2
  <1> QED BY <1>4, <1>5, <1>6, <1>7, <1>8 DEF put

(* Every slot that was added is empty.                                     *)
LEMMA GrowProperties ==
    ASSUME NEW mem \in Seq(Byte), NEW n \in Nat
    PROVE  /\ Grow(mem, n) \in Seq(Byte) /\ Len(Grow(mem, n)) = Len(mem) + n
           /\ \A k \in 1 .. Len(mem) : Grow(mem, n)[k] = mem[k]
           /\ \A k \in Len(mem) + 1 .. Len(mem) + n : Grow(mem, n)[k] = NUL
  <1> DEFINE more == [k \in 1 .. n |-> NUL]
  <1>1. more \in Seq(Byte) /\ Len(more) = n /\ \A k \in 1 .. n : more[k] = NUL
    <2>1. more \in [1 .. n -> Byte]
      BY Constants
    <2> QED BY <2>1, SeqDef
  <1> HIDE DEF more
  <1>2. Grow(mem, n) = mem \o more
    BY DEF Grow, more
  <1>3. /\ mem \o more \in Seq(Byte) /\ Len(mem \o more) = Len(mem) + n /\ Len(mem) \in Nat
        /\ \A k \in 1 .. Len(mem) + n :
              (mem \o more)[k] = IF k <= Len(mem) THEN mem[k] ELSE more[k - Len(mem)]
    <2>1. /\ mem \o more \in Seq(Byte) /\ Len(mem \o more) = Len(mem) + Len(more)
          /\ \A k \in 1 .. Len(mem) + Len(more) :
                (mem \o more)[k] = IF k <= Len(mem) THEN mem[k] ELSE more[k - Len(mem)]
      BY <1>1, ConcatProperties
    <2>2. Len(mem) \in Nat
      BY LenProperties
    <2> QED BY <1>1, <2>1, <2>2
  <1>4. \A k \in Len(mem) + 1 .. Len(mem) + n : (mem \o more)[k] = NUL
    <2> TAKE k \in Len(mem) + 1 .. Len(mem) + n
    <2>1. k \in 1 .. Len(mem) + n /\ ~(k <= Len(mem)) /\ k - Len(mem) \in 1 .. n
      BY <1>3
    <2> QED BY <1>1, <1>3, <2>1
  <1>5. \A k \in 1 .. Len(mem) : (mem \o more)[k] = mem[k]
    BY <1>3
  <1> QED BY <1>2, <1>3, <1>4, <1>5

(* Where prog_tempstring puts a text: in a table that it ends in, behind   *)
(* the program's strings, the terminator of the table being kept or its    *)
(* own.                                                                    *)
LEMMA Placed ==
    ASSUME TableInv, NEW text \in Text, TempString(text)
    PROVE  \E mem \in Seq(Byte), at \in Nat :
              /\ strings' = Put(mem, at, text) /\ last' = [at |-> at, text |-> text]
              /\ tempstring_start <= at /\ at + Len(text) < Len(mem)
              /\ Len(strings) <= Len(mem)
              /\ mem[Len(mem)] = NUL
              /\ \A k \in 1 .. tempstring_start : mem[k] = strings[k]
  <1> DEFINE at == Place(Len(text))
             len == Len(text)
  <1>1. /\ strings \in Seq(Byte) /\ Len(strings) \in Nat /\ tempstring_at \in tempstring_start .. MaxAt
        /\ tempstring_start < Len(strings) /\ strings[Len(strings)] = NUL
    BY DEF TableInv, StringsTypeOK, Byte, AlwaysTerminated
  <1>2. tempstring_start \in Nat /\ len \in Nat
    BY Constants
  <1>3. at \in Nat /\ tempstring_start <= at
    BY <1>1, <1>2 DEF Place
  <1>4. CASE Fits(at, len)
    <2>1. strings' = Put(strings, at, text) /\ last' = [at |-> at, text |-> text] /\ at + len < Len(strings)
      BY <1>4 DEF TempString, Fits
    <2> HIDE DEF at
    <2> QED BY <1>1, <1>2, <1>3, <2>1
  <1>5. CASE ~Fits(at, len)
    <2>1. /\ strings' = Put(Grow(strings, len + 1), at, text) /\ last' = [at |-> at, text |-> text]
          /\ ~(at + len < Len(strings))
      BY <1>5 DEF TempString, Fits
    <2>2. at = tempstring_start
      BY <1>1, <1>2, <2>1 DEF Place
    <2> DEFINE mem == Grow(strings, len + 1)
    <2>3. /\ mem \in Seq(Byte) /\ Len(mem) = Len(strings) + (len + 1)
          /\ \A k \in 1 .. Len(strings) : mem[k] = strings[k]
          /\ \A k \in Len(strings) + 1 .. Len(strings) + (len + 1) : mem[k] = NUL
      <3>1. len + 1 \in Nat /\ strings \in Seq(Byte)
        BY <1>1, <1>2
      <3> HIDE DEF len
      <3> QED BY <3>1, GrowProperties
    <2> HIDE DEF mem, at, len
    <2>4. mem[Len(mem)] = NUL
      BY <1>1, <1>2, <2>3
    <2>5. \A k \in 1 .. tempstring_start : mem[k] = strings[k]
      BY <1>1, <1>2, <2>3
    <2>6. at + len < Len(mem) /\ Len(strings) <= Len(mem)
      BY <1>1, <1>2, <2>2, <2>3
    <2>7. strings' = Put(mem, at, text)
      BY <2>1 DEF mem
    <2> QED BY <1>3, <2>1, <2>3, <2>4, <2>5, <2>6, <2>7 DEF len
  <1> QED BY <1>4, <1>5
-----------------------------------------------------------------------------
LEMMA TempStringKeeps ==
    ASSUME TableInv, NEW text \in Text, TempString(text)
    PROVE  TableInv'
  <1>1. PICK mem \in Seq(Byte), at \in Nat :
              /\ strings' = Put(mem, at, text) /\ last' = [at |-> at, text |-> text]
              /\ tempstring_start <= at /\ at + Len(text) < Len(mem)
              /\ Len(strings) <= Len(mem)
              /\ mem[Len(mem)] = NUL
              /\ \A k \in 1 .. tempstring_start : mem[k] = strings[k]
    BY Placed
  <1>2. /\ strings' \in Seq(Byte) /\ Len(strings') = Len(mem)
        /\ \A k \in 1 .. at : strings'[k] = mem[k]
        /\ strings'[at + Len(text) + 1] = NUL
        /\ \A k \in at + Len(text) + 2 .. Len(mem) : strings'[k] = mem[k]
    BY <1>1, PutProperties
  <1>3. /\ Len(text) \in Nat /\ tempstring_start \in Nat /\ MaxAt \in Nat /\ tempstring_start <= MaxAt
        /\ Len(mem) \in Nat /\ Len(strings) \in Nat
    <2>1. strings \in Seq(Byte)
      BY DEF TableInv, StringsTypeOK, Byte
    <2> QED BY <2>1, Constants, LenProperties
  <1>4. StringsTypeOK'
    <2>1. tempstring_at' \in tempstring_start .. MaxAt
      BY <1>3 DEF TableInv, StringsTypeOK, TempString, Advance
    <2> QED BY <1>2, <2>1 DEF StringsTypeOK, Byte
  <1>5. (tempstring_start < Len(strings))'
    BY <1>1, <1>2, <1>3 DEF TableInv, tempstring_start
  <1>6. AlwaysTerminated'
    <2>1. CASE Len(mem) = at + Len(text) + 1
      BY <1>2, <2>1 DEF AlwaysTerminated
    <2>2. CASE Len(mem) # at + Len(text) + 1
      BY <1>1, <1>2, <1>3, <2>2 DEF AlwaysTerminated
    <2> QED BY <2>1, <2>2
  <1>7. ProgramStringsKept'
    <2>1. \A k \in 1 .. tempstring_start : strings'[k] = strings[k]
      BY <1>1, <1>2, <1>3
    <2>2. /\ strings \in Seq(Byte) /\ tempstring_start \in 0 .. Len(strings)
          /\ strings' \in Seq(Byte) /\ tempstring_start \in 0 .. Len(strings')
      BY <1>1, <1>2, <1>3 DEF TableInv, StringsTypeOK, Byte
    <2>3. SubSeq(strings', 1, tempstring_start) = SubSeq(strings, 1, tempstring_start)
      BY <2>1, <2>2
    <2> QED BY <2>3 DEF TableInv, ProgramStringsKept, tempstring_start
  <1> QED BY <1>4, <1>5, <1>6, <1>7 DEF TableInv

LEMMA StringsInvariant == StringsSpec => []TableInv
  <1>1. StringsInit => TableInv
    <2> SUFFICES ASSUME StringsInit PROVE TableInv
      OBVIOUS
    <2>1. /\ ProgStrings \in Seq(Byte) /\ AreaSize \in Nat \ {0} /\ tempstring_start \in Nat
          /\ tempstring_start <= MaxAt /\ MaxAt \in Nat
      BY Constants
    <2>2. strings = Grow(ProgStrings, AreaSize)
      BY DEF StringsInit, Grow
    <2>3. /\ strings \in Seq(Byte) /\ Len(strings) = tempstring_start + AreaSize
          /\ \A k \in 1 .. tempstring_start : strings[k] = ProgStrings[k]
          /\ \A k \in tempstring_start + 1 .. tempstring_start + AreaSize : strings[k] = NUL
      BY <2>1, <2>2, GrowProperties DEF tempstring_start
    <2>4. StringsTypeOK
      BY <2>1, <2>3 DEF StringsInit, StringsTypeOK, Byte
    <2>5. AlwaysTerminated /\ tempstring_start < Len(strings)
      BY <2>1, <2>3 DEF AlwaysTerminated
    <2>6. ProgramStringsKept
      <3>1. SubSeq(strings, 1, tempstring_start) = SubSeq(ProgStrings, 1, tempstring_start)
        BY <2>1, <2>3
      <3>2. SubSeq(ProgStrings, 1, tempstring_start) = ProgStrings
        BY <2>1, SubSeqFull DEF tempstring_start
      <3> QED BY <3>1, <3>2 DEF ProgramStringsKept
    <2> QED BY <2>4, <2>5, <2>6 DEF TableInv
  <1>2. TableInv /\ [StringsNext]_stringsVars => TableInv'
    <2> SUFFICES ASSUME TableInv, [StringsNext]_stringsVars PROVE TableInv'
      OBVIOUS
    <2>1. ASSUME NEW text \in Text, TempString(text) PROVE TableInv'
      BY <2>1, TempStringKeeps
    <2>2. CASE UNCHANGED stringsVars
      BY <2>2 DEF stringsVars, TableInv, StringsTypeOK, AlwaysTerminated, ProgramStringsKept
    <2> QED BY <2>1, <2>2 DEF StringsNext
  <1> QED BY <1>1, <1>2, PTL DEF StringsSpec

(* The string table and the place for the next string stay well typed.     *)
THEOREM StringsTypeCorrect == StringsSpec => []StringsTypeOK
  BY StringsInvariant, PTL DEF TableInv

(* After any number of rounds and growths, with texts of any length, the   *)
(* table ends with a terminator.                                           *)
THEOREM TableAlwaysTerminated == StringsSpec => []AlwaysTerminated
  BY StringsInvariant, PTL DEF TableInv

(* No builtin ever writes into the program's own strings.                  *)
THEOREM ProgramStringsStay == StringsSpec => []ProgramStringsKept
  BY StringsInvariant, PTL DEF TableInv
-----------------------------------------------------------------------------
(* A text that stands in the table with its terminator is read back whole: *)
(* it has no terminator of its own.                                        *)
LEMMA ReadsBack ==
    ASSUME NEW s \in Seq(Byte), NEW at \in Nat, NEW text \in Text, at + Len(text) < Len(s),
           \A k \in 1 .. Len(text) : s[at + k] = text[k], s[at + Len(text) + 1] = NUL
    PROVE  LET ends == {n \in 0 .. Len(s) - at - 1 : s[at + n + 1] = NUL}
               len == CHOOSE n \in ends : \A m \in ends : n <= m
           IN SubSeq(s, at + 1, at + len) = text
  <1> DEFINE ends == {n \in 0 .. Len(s) - at - 1 : s[at + n + 1] = NUL}
             len == CHOOSE n \in ends : \A m \in ends : n <= m
  <1>1. /\ text \in Seq(Byte) /\ Len(text) \in Nat /\ Len(s) \in Nat
        /\ \A k \in 1 .. Len(text) : text[k] # NUL
    BY Constants, LenProperties
  <1>2. Len(text) \in ends
    <2>1. Len(text) \in 0 .. Len(s) - at - 1
      BY <1>1
    <2> QED BY <2>1
  <1>3. \A m \in ends : Len(text) <= m
    <2> SUFFICES ASSUME NEW m \in ends, ~(Len(text) <= m) PROVE FALSE
      OBVIOUS
    <2>1. m \in Nat /\ s[at + m + 1] = NUL
      BY <1>1
    <2>2. m + 1 \in 1 .. Len(text) /\ at + (m + 1) = at + m + 1
      BY <1>1, <2>1
    <2>3. s[at + (m + 1)] = text[m + 1]
      BY <2>2
    <2>4. s[at + (m + 1)] = s[at + m + 1]
      BY <2>2
    <2> QED BY <1>1, <2>1, <2>2, <2>3, <2>4
  <1>4. \A m \in ends : m \in Int
    BY <1>1
  <1> HIDE DEF ends
  <1>5. len \in ends /\ \A m \in ends : len <= m
    BY <1>2, <1>3
  <1> HIDE DEF len
  <1>6. len = Len(text)
    <2>1. len <= Len(text) /\ Len(text) <= len /\ len \in Int
      BY <1>2, <1>3, <1>4, <1>5
    <2> QED BY <1>1, <2>1
  <1>7. SubSeq(s, at + 1, at + Len(text)) = text
    <2> DEFINE sub == SubSeq(s, at + 1, at + Len(text))
    <2>1. /\ at + 1 \in Int /\ at + Len(text) \in Int
          /\ (at + Len(text)) - (at + 1) + 1 = Len(text)
          /\ ~(at + 1 <= at + Len(text)) => Len(text) = 0
      BY <1>1
    <2>2. \A i \in at + 1 .. at + Len(text) : s[i] \in Byte
      <3> TAKE i \in at + 1 .. at + Len(text)
      <3>1. i \in 1 .. Len(s)
        BY <1>1
      <3> QED BY <3>1, LenProperties
    <2>3. /\ sub \in Seq(Byte)
          /\ Len(sub) = IF at + 1 <= at + Len(text) THEN (at + Len(text)) - (at + 1) + 1 ELSE 0
          /\ \A i \in 1 .. (at + Len(text)) - (at + 1) + 1 : sub[i] = s[(at + 1) + i - 1]
      BY <2>1, <2>2, SubSeqProperties
    <2>4. Len(sub) = Len(text)
      BY <2>1, <2>3
    <2>5. \A i \in 1 .. Len(sub) : sub[i] = text[i]
      <3> TAKE i \in 1 .. Len(sub)
      <3>1. i \in 1 .. Len(text) /\ (at + 1) + i - 1 = at + i
        BY <1>1, <2>4
      <3>2. sub[i] = s[(at + 1) + i - 1]
        BY <2>1, <2>3, <3>1
      <3>3. s[(at + 1) + i - 1] = s[at + i]
        BY <3>1
      <3> QED BY <3>1, <3>2, <3>3
    <2> HIDE DEF sub
    <2>6. sub = text
      BY <1>1, <2>3, <2>4, <2>5, SeqEqual
    <2> QED BY <2>6 DEF sub
  <1> QED BY <1>6, <1>7 DEF len, ends

(* What a builtin made is what the program reads, wherever it was put and  *)
(* even if the table had to grow for it.                                   *)
THEOREM ResultsReadBack == StringsSpec => []LastReadsBack
  <1>1. StringsInit => LastReadsBack
    BY DEF StringsInit, LastReadsBack
  <1>2. TableInv /\ LastReadsBack /\ [StringsNext]_stringsVars => LastReadsBack'
    <2> SUFFICES ASSUME TableInv, LastReadsBack, [StringsNext]_stringsVars PROVE LastReadsBack'
      OBVIOUS
    <2>1. ASSUME NEW text \in Text, TempString(text) PROVE LastReadsBack'
      <3>1. PICK mem \in Seq(Byte), at \in Nat :
                /\ strings' = Put(mem, at, text) /\ last' = [at |-> at, text |-> text]
                /\ at + Len(text) < Len(mem)
        BY <2>1, Placed
      <3>2. /\ strings' \in Seq(Byte) /\ Len(strings') = Len(mem)
            /\ \A k \in 1 .. Len(text) : strings'[at + k] = text[k]
            /\ strings'[at + Len(text) + 1] = NUL
        BY <3>1, PutProperties
      <3>3. TextAt(at)' = text
        BY <3>1, <3>2, ReadsBack DEF TextAt
      <3>4. last'.at = at /\ last'.text = text
        BY <3>1
      <3> QED BY <3>3, <3>4 DEF LastReadsBack, TextAt
    <2>2. CASE UNCHANGED stringsVars
      BY <2>2 DEF stringsVars, LastReadsBack, TextAt
    <2> QED BY <2>1, <2>2 DEF StringsNext
  <1> QED BY <1>1, <1>2, StringsInvariant, PTL DEF StringsSpec
=============================================================================
