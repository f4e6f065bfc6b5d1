------------------------------ MODULE IrPasses ------------------------------
(***************************************************************************)
(* ir_function_finalize's passes over the blocks of a function: peephole,  *)
(* which joins an operation with the store of its result and a COND with   *)
(* the NOT before it, tail recursion, which makes a loop of a call of the  *)
(* function itself, and naive_phi, which replaces phi nodes by writes on   *)
(* the ways into their block.                                              *)
(***************************************************************************)
EXTENDS Lowering

IsOperation(ins) == ins.op \in {"NOT", "AND", "EQ", "CALL"}     \* instr_is_operation
Writes(ins) == IF ins.op \in {"NOT", "AND", "EQ", "CALL", "STORE", "PHI"} THEN <<ins.d>> ELSE <<>>
Reads(ins) == CASE ins.op \in {"AND", "EQ"}           -> <<ins.a, ins.b>>
                [] ins.op \in {"NOT", "STORE", "COND"} -> <<ins.a>>
                [] ins.op = "CALL"                     -> ins.params
                [] ins.op = "RETURN"                   -> IF ins.a = NoValue THEN <<>> ELSE <<ins.a>>
                [] ins.op = "PHI"                      -> [j \in DOMAIN ins.from |-> ins.from[j][2]]
                [] OTHER                               -> <<>>

(* The instructions of F, and those that occur in m_reads and m_writes.    *)
Places(F) == UNION {{<<b, j>> : j \in DOMAIN F.code[b]} : b \in DOMAIN F.code}
At(F, x) == F.code[x[1]][x[2]]
Occurrences(F, Of(_), v) ==
    {y \in UNION {{<<x, j>> : j \in DOMAIN Of(At(F, x))} : x \in Places(F)} :
        Of(At(F, y[1]))[y[2]] = v}
NReads(F, v) == Cardinality(Occurrences(F, Reads, v))
NWrites(F, v) == Cardinality(Occurrences(F, Writes, v))
WriterOf(F, v) == (CHOOSE y \in Occurrences(F, Writes, v) : TRUE)[1]

(* Peephole: an operation whose result only the next STORE reads.          *)
JoinsStore(F, b, i) ==
    /\ i > 1 /\ F.code[b][i].op = "STORE" /\ IsOperation(F.code[b][i - 1])
    /\ LET v == F.code[b][i - 1].d
       IN IsTemp(v) /\ NReads(F, v) = 1 /\ F.code[b][i].a = v

WithoutNot(cond, a) == [cond EXCEPT !.a = a, !.yes = cond.no, !.no = cond.yes]

(* Peephole: COND on a NOT that no one else reads, as often as it can be.  *)
RECURSIVE JoinNot(_, _)
JoinNot(F, b) ==
    LET cond == Last(F.code[b])
        not  == WriterOf(F, cond.a)
    IN IF ~(IsTemp(cond.a) /\ NReads(F, cond.a) = 1 /\ At(F, not).op = "NOT") THEN F
       ELSE LET swapped == [F EXCEPT !.code[b] = Append(Front(@), WithoutNot(cond, At(F, not).a))]
            IN JoinNot([swapped EXCEPT !.code[not[1]] = RemoveAt(@, not[2])], b)

(* The loop over the instructions: after an erased one, the one that took  *)
(* its place is passed over.                                               *)
RECURSIVE PeepholeBlock(_, _, _)
PeepholeBlock(F, b, i) ==
    IF i > Len(F.code[b]) THEN F
    ELSE IF JoinsStore(F, b, i)
    THEN PeepholeBlock([F EXCEPT !.code[b] = RemoveAt([@ EXCEPT ![i - 1].d = F.code[b][i].d], i)],
                       b, i + 1)
    ELSE IF F.code[b][i].op = "COND" THEN JoinNot(F, b)
    ELSE PeepholeBlock(F, b, i + 1)

Peephole(F) == FoldLeft(LAMBDA f, b : PeepholeBlock(f, b, 1), F, F.blocks)

StoreBeforeEnd(F, b, d, v) ==
    [F EXCEPT !.code[b] = InsertAt(@, Len(@), [op |-> "STORE", d |-> d, a |-> v])]

-----------------------------------------------------------------------------
(* Tail recursion.  A block's last instructions from the return on         *)
(* backwards: the call, or the store of its result and the call.           *)
Self == 0
FromEnd(code, k) == code[Len(code) - k]
Returns(code) == Len(code) > 1 /\ Last(code).op = "RETURN"
StoresResult(code) ==
    /\ Len(code) > 2 /\ FromEnd(code, 1).op = "STORE" /\ FromEnd(code, 2).op = "CALL"
    /\ Last(code).a = FromEnd(code, 1).d /\ FromEnd(code, 1).a = FromEnd(code, 2).d

(* The call writes to where its result was stored, also if nothing comes   *)
(* of the tail call.                                                       *)
ResultInPlace(code) ==
    IF Returns(code) /\ StoresResult(code)
    THEN SubSeq(code, 1, Len(code) - 3)
         \o <<[FromEnd(code, 2) EXCEPT !.d = FromEnd(code, 1).d], Last(code)>>
    ELSE code

(* Mutant: whatever is returned behind the call.                           *)
IsTailCallAny(code) ==
    Returns(code) /\ FromEnd(code, 1).op = "CALL" /\ FromEnd(code, 1).n = Self

IsTailCall(code) ==
    /\ Returns(code)
    /\ FromEnd(code, 1).op = "CALL" /\ FromEnd(code, 1).n = Self
    /\ Last(code).a \in {NoValue, FromEnd(code, 1).d}

(* The parameters are stored one after the other.                          *)
Looped(code, first) ==
    LET params == FromEnd(code, 1).params
    IN SubSeq(code, 1, Len(code) - 2)
       \o [p \in DOMAIN params |-> [op |-> "STORE", d |-> p, a |-> params[p]]]
       \o <<[op |-> "JUMP", to |-> first]>>

TailRecursion(F) ==
    [F EXCEPT !.code = [b \in DOMAIN @ |->
        LET code == ResultInPlace(@[b]) IN IF IsTailCall(code) THEN Looped(code, F.blocks[1]) ELSE code]]
-----------------------------------------------------------------------------
(* ir_block_naive_phi, one operand: its only writer writes the result of   *)
(* the phi instead, or it is stored there at the end of its block.         *)
Resolve(F, phi, v, from) ==
    IF IsTemp(v) /\ NReads(F, v) = 1 /\ NWrites(F, v) = 1
    THEN LET w == WriterOf(F, v) IN [F EXCEPT !.code[w[1]][w[2]].d = phi.d]
    ELSE StoreBeforeEnd(F, from, phi.d, v)

NaivePhiAt(F, b) ==
    LET i   == SelectInSeq(F.code[b], LAMBDA ins : ins.op = "PHI")
        phi == F.code[b][i]
        resolved == FoldLeft(LAMBDA f, e : Resolve(f, phi, e[2], e[1]), F, phi.from)
    IN [resolved EXCEPT !.code[b] = RemoveAt(@, i)]

RECURSIVE NaivePhiBlock(_, _)
NaivePhiBlock(F, b) ==
    IF \E i \in DOMAIN F.code[b] : F.code[b][i].op = "PHI"
    THEN NaivePhiBlock(NaivePhiAt(F, b), b) ELSE F

NaivePhi(F) == FoldLeft(NaivePhiBlock, F, F.blocks)

Finalize(F) == NaivePhi(TailRecursion(Peephole(F)))
=============================================================================
