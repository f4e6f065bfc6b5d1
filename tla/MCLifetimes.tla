---------------------------- MODULE MCLifetimes ----------------------------
(***************************************************************************)
(* Where values are alive and where they are kept.  A behaviour works      *)
(* either on two vectors of ranges, with eight instruction ids and so up   *)
(* to four ranges on either side, one of which can absorb, split from or   *)
(* fall between several others; or on a function, as `does` says: the two  *)
(* have no variable in common.                                             *)
(*                                                                         *)
(* Functions of three blocks, a branch, a loop or a loop around both: two  *)
(* instructions, one and one, each any of Body, and what ends the blocks;  *)
(* and functions of one block of five instructions.  A parameter p, a      *)
(* float local a, a vector local v of two words, two temporaries t and u.  *)
(***************************************************************************)
EXTENDS LifeRanges, Liveness, TLC

CONSTANTS p, a, v, vx, vy, t, u

VARIABLE does

MCParam == <<p>>
MCLocal == <<a, v>>
MCTemp == <<t, u>>
MCMember == vx :> [of |-> v, word |-> 0] @@ vy :> [of |-> v, word |-> 1]

Operation(out, in) == [op |-> "op", out |-> out, in |-> in, params |-> <<>>, kept |-> {}]
Scale(out, in, kept) == [Operation(out, in) EXCEPT !.kept = {kept}]
Call(out, func, params) ==
    [op |-> "call", out |-> out, in |-> func, params |-> params, kept |-> {}]

Body == { Operation(<<t>>, <<p, a>>), Operation(<<a>>, <<p>>), Operation(<<a>>, <<t>>),
          Operation(<<u>>, <<t, a>>), Operation(<<vx>>, <<a>>), Operation(<<a>>, <<vy>>),
          Operation(<<v>>, <<>>),
          Scale(<<v>>, <<v, a>>, a), Scale(<<v>>, <<v, u>>, u),
          Call(<<t>>, <<>>, <<a>>), Call(<<u>>, <<>>, <<p, t>>),
          Call(<<a>>, <<t>>, <<u>>) }
NoReturn == [Call(<<>>, <<>>, <<t>>) EXCEPT !.op = "nrcall"]

Test == Operation(<<>>, <<p>>)
Final == {Operation(<<>>, <<a>>), Operation(<<>>, <<v>>), Operation(<<>>, <<u>>), NoReturn}

IfExits == <<{2, 3}, {3}, {}>>
Exits == {IfExits, <<{2}, {1, 3}, {}>>, <<{2, 3}, {1}, {}>>}

SelfLoop == {<<{2}, {2, 3}, {}>>}

(* A temporary is the value of an expression: it is written once, before   *)
(* it is read, in the block that reads it - or it waits for another        *)
(* operand that takes a branch, and is read where the branches meet.       *)
Places(blocks) == UNION {{<<b, k>> : k \in DOMAIN blocks[b]} : b \in DOMAIN blocks}
IsExpression(f, x) ==
    LET ins(y) == f.blocks[y[1]][y[2]]
        writers == {y \in Places(f.blocks) : x \in SeqSet(ins(y).out)}
        readers == {y \in Places(f.blocks) : x \in SeqSet(ins(y).in) \cup SeqSet(ins(y).params)}
    IN \/ writers = {} /\ readers = {}
       \/ /\ Cardinality(writers) = 1
          /\ \A y \in writers, z \in readers :
                \/ y[1] = z[1] /\ y[2] < z[2]
                \/ f.exits = IfExits /\ y[1] = 1 /\ z[1] = 3

TempsReadBy(ins) == {t, u} \cap (SeqSet(ins.in) \cup SeqSet(ins.params))
NoTemps == {x \in Body : TempsReadBy(x) = {}}
First == {b \in NoTemps \X Body \X {Test} : TempsReadBy(b[2]) \subseteq SeqSet(b[1].out)}
Second == NoTemps \X {Test}
Third == Body \X Final

All(exits) == {f \in [blocks : First \X Second \X Third, exits : exits] :
                  IsExpression(f, t) /\ IsExpression(f, u)}

Straight ==
    LET step == Body \cup {Operation(<<u>>, <<p, a>>)}
        blocks == {Operation(<<a>>, <<p>>)} \X step \X step \X step \X Final
    IN {f \in [blocks : {<<b>> : b \in blocks}, exits : {<<{}>>}] :
           IsExpression(f, t) /\ IsExpression(f, u)}

MCProgram == {f \in All(Exits) \cup Straight : ~HasDeadComponent(f)}
MCDeadComponents == {f \in All(Exits) : HasDeadComponent(f)}
MCSelfLoops == {f \in All(SelfLoop) : ~HasDeadComponent(f)}
-----------------------------------------------------------------------------
AnyProgram == CHOOSE f \in Program : TRUE

Init == /\ RangesInit /\ SlotsInit
        /\ does \in {"ranges", "slots"}
        /\ does = "ranges" => fn = AnyProgram

SomeRanges(step) == does = "ranges" /\ step /\ UNCHANGED <<slotsVars, does>>
SomeSlots(step) == does = "slots" /\ step /\ UNCHANGED <<rangesVars, does>>

Next == SomeRanges(RangesNext) \/ SomeSlots(SlotsNext)

vars == <<rangesVars, slotsVars, does>>
Spec == /\ Init /\ [][Next]_vars
        /\ WF_vars(SomeRanges(MergeStep)) /\ WF_vars(SomeSlots(SlotsNext))

(* Ranges and slots are what their modules say they are.                  *)
TypeOK == RangesTypeOK /\ SlotsTypeOK

(* Every function gets its slots: the passes over the blocks come to an    *)
(* end (Finishes, for the behaviours that work on a function).             *)
EveryFunctionFinishes == does = "slots" => Finishes
=============================================================================
