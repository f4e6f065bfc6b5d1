----------------------------- MODULE Activations -----------------------------
(***************************************************************************)
(* What a QuakeC program may rely on when functions call each other: every *)
(* activation of a function has a frame of its own, with its own locals,   *)
(* and a place of its own to go on from.  A call leaves the frames of the  *)
(* callers alone, recursion included, and a return resumes the caller at   *)
(* the statement after its call.                                           *)
(*                                                                         *)
(* The executor keeps no such frames: locals are ordinary globals at fixed *)
(* addresses, saved and put back around each call.  Module Qcvm models     *)
(* that and refines this specification.                                    *)
(***************************************************************************)
EXTENDS Integers, Sequences

CONSTANTS Function,     \* the functions of the program that have a body
          Val,          \* the values of one word
          Shared,       \* addresses that belong to no function's locals
          LocalsOf,     \* function |-> the addresses of its locals
          BodyOf,       \* function |-> its statements
          Entry,        \* function |-> the first of them
          Params,       \* function |-> {<<local address, shared address>>}
          Operand,      \* the addresses a result can be read from
          ReturnWord    \* k |-> the shared address of word k of a result

VARIABLES frames,   \* the activations, outermost first
          shared    \* the words every function sees

avars == <<frames, shared>>

Top == frames[Len(frames)]

(* A new activation of f: the parameters are copied in, every other local  *)
(* starts with whatever word is there.                                     *)
IsNew(act, f, mem) ==
    /\ act \in [function : {f}, frame : [LocalsOf[f] -> Val], next : {Entry[f]}]
    /\ \A w \in Params[f] : act.frame[w[1]] = mem[w[2]]

NewActivations(f) ==
    [function : {f}, frame : [LocalsOf[f] -> Val], next : {Entry[f]}]

AInit == /\ frames = <<>>
         /\ shared \in [Shared -> Val]

(* The host starts the program at function f, with parameters of its own.  *)
AStart(f) ==
    /\ frames = <<>>
    /\ shared' \in [Shared -> Val]
    /\ \E act \in NewActivations(f) :
          /\ IsNew(act, f, shared')
          /\ frames' = <<act>>

(* The running activation goes on to some statement of its own body and    *)
(* changes nothing but its own frame and the shared words.                 *)
AStep ==
    /\ frames # <<>>
    /\ \E fr \in [LocalsOf[Top.function] -> Val], n \in BodyOf[Top.function] :
          frames' = [frames EXCEPT ![Len(frames)] =
                        [function |-> Top.function, frame |-> fr, next |-> n]]
    /\ shared' \in [Shared -> Val]

(* The caller will go on after its call, with the frame it has now.        *)
Caller == [function |-> Top.function, frame |-> Top.frame, next |-> Top.next + 1]

ACall(f) ==
    /\ frames # <<>>
    /\ Top.next + 1 \in BodyOf[Top.function]
    /\ \E act \in NewActivations(f) :
          /\ IsNew(act, f, shared)
          /\ frames' = Append([frames EXCEPT ![Len(frames)] = Caller], act)
    /\ UNCHANGED shared

(* The result is what the returning activation sees at opa; where that is  *)
(* neither a local of its own nor a shared word, it is unspecified.        *)
AReturn(opa) ==
    /\ frames # <<>>
    /\ frames' = SubSeq(frames, 1, Len(frames) - 1)
    /\ shared' \in [Shared -> Val]
    /\ \A a \in Shared : (\A k \in DOMAIN ReturnWord : a # ReturnWord[k])
                            => shared'[a] = shared[a]
    /\ \A k \in DOMAIN ReturnWord :
          /\ opa + k \in LocalsOf[Top.function] =>
                shared'[ReturnWord[k]] = Top.frame[opa + k]
          /\ opa # 0 /\ opa + k \in Shared =>
                shared'[ReturnWord[k]] = shared[opa + k]

(* An error of the executor ends every activation at once.                 *)
AAbort ==
    /\ frames # <<>>
    /\ frames' = <<>>
    /\ shared' \in [Shared -> Val]

ANext == \/ \E f \in Function : AStart(f) \/ ACall(f)
         \/ AStep
         \/ \E opa \in Operand : AReturn(opa)
         \/ AAbort

ASpec == AInit /\ [][ANext]_avars
=============================================================================
