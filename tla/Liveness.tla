------------------------------ MODULE Liveness ------------------------------
(***************************************************************************)
(* Where a function's values are kept (ir.cpp).  ir_function_enumerate     *)
(* numbers the instructions, ir_function_calculate_liferanges finds where  *)
(* each value is alive, walking the blocks backwards until nothing changes,*)
(* and ir_function_allocate_locals gives each value a slot that it may     *)
(* share with values it does not overlap.  Temporaries that no call        *)
(* interrupts go to memory all functions share, or straight to a call's    *)
(* parameter or result words.                                              *)
(*                                                                         *)
(* A life is the set of its ids here: module LifeRanges shows that the     *)
(* vectors of ranges stand for such sets.                                  *)
(***************************************************************************)
EXTENDS LifeRangeOps, FiniteSets

CONSTANTS Param,      \* m_params, in order
          Local,      \* the other m_locals
          Temp,       \* m_values
          Member,     \* component of a vector |-> [of, word]
          Vector,     \* the values that have components
          VectorSize, \* words of a vector: 3
          Program,    \* the functions: [blocks, exits], after ir_function_naive_phi
          Options     \* sets of optimizations: "local_temps", "global_temps", "call_stores"

VARIABLES fn,        \* the function being compiled
          opt,       \* its optimizations
          entry,     \* block |-> m_entry_id
          life,      \* m_life of all values: <<value, id>>
          living,    \* block |-> m_living
          locked,    \* the values with m_locked
          changed,   \* a pass changed something
          phase,     \* "propagate", "allocate" or "done"
          n,         \* the block, or the value, to look at next
          i,         \* the block's instruction to look at next, or 0
          fixed,     \* no local temps: every local has a slot of its own
          slots,     \* the two function_allocators
          at         \* value |-> where it is kept

slotsVars == <<fn, opt, entry, life, living, locked, changed, phase, n, i, fixed, slots, at>>

SeqSet(s) == {s[k] : k \in DOMAIN s}
Queue == Param \o Local \o Temp
Value == SeqSet(Queue) \cup DOMAIN Member
Root(v) == IF v \in DOMAIN Member THEN Member[v].of ELSE v
SizeOf(v) == IF v \in Vector THEN VectorSize ELSE 1
MembersOf(v) == {m \in DOMAIN Member : Member[m].of = v}
OwnersOf(v) == {Root(v)} \ {v}

(* ir_function_finalize gave every vector its components before.           *)
AllocatorAssumption ==
    /\ VectorSize \in Nat \ {0}
    /\ \A s \in {Param, Local, Temp} : s \in Seq(SeqSet(s))
    /\ \A j, k \in DOMAIN Queue : Queue[j] = Queue[k] => j = k
    /\ Vector \subseteq SeqSet(Queue)
    /\ Member \in [DOMAIN Member -> [of : Vector, word : 0 .. VectorSize - 1]]
    /\ DOMAIN Member \cap SeqSet(Queue) = {}
    /\ \A v \in Vector, k \in 0 .. VectorSize - 1 :
          \E m \in DOMAIN Member : Member[m] = [of |-> v, word |-> k]
ASSUME AllocatorAssumption

(* A function's first block is there from the start, and every block ends  *)
(* with an instruction that jumps or returns and writes nothing.  A call   *)
(* that does not return is such an end; what it calls was declared so: it  *)
(* is a variable, not an expression's value, whose type is never           *)
(* [[noreturn]].  Operands are kept for the executor's operations only.    *)
ProgramAssumption ==
    LET instruction == [op : {"op", "call", "nrcall"}, out : Seq(Value), in : Seq(Value),
                        params : Seq(Value), kept : SUBSET Value]
    IN \A f \in Program :
          /\ f.blocks \in Seq(Seq(instruction) \ {<<>>}) \ {<<>>}
          /\ f.exits \in [DOMAIN f.blocks -> SUBSET DOMAIN f.blocks]
          /\ \A b \in DOMAIN f.blocks : \A k \in DOMAIN f.blocks[b] :
                LET ins == f.blocks[b][k] IN
                /\ Len(ins.out) <= 1
                /\ k = Len(f.blocks[b]) => ins.out = <<>>
                /\ ins.kept # {} => ins.op = "op" /\ ins.kept \subseteq SeqSet(ins.in)
                /\ ins.op = "nrcall" => /\ SeqSet(ins.in) \cap SeqSet(Temp) = {}
                                       /\ k = Len(f.blocks[b]) /\ f.exits[b] = {}
ASSUME ProgramAssumption
-----------------------------------------------------------------------------
(* An instruction: `out`, the value it writes, if any; `in`, the operands  *)
(* it reads; for a call its parameters; `kept`, the operands the engine    *)
(* may read again after it began to write (MUL_VF's float and the like).   *)
Blocks == DOMAIN fn.blocks
InstrSet == UNION {{<<b, k>> : k \in DOMAIN fn.blocks[b]} : b \in Blocks}
At(x) == fn.blocks[x[1]][x[2]]

(* ir_function_enumerate: each block has an "entry" id of its own; before  *)
(* it come those of the blocks before it and of their instructions.        *)
Enumerated(f) ==
    [b \in DOMAIN f.blocks |->
        Cardinality(UNION {{c} \X (0 .. Len(f.blocks[c])) : c \in 1 .. b - 1})]
Eid(b, k) == entry[b] + k

Alive(lives, vs, id) == lives \cup (vs \X {id})
LifeOf(v) == {l[2] : l \in {k \in life : k[1] = v}}

(* A write ends the values' life upwards, and that of their components;    *)
(* the last component written ends the vector's.                           *)
Ended(alive, out) ==
    LET gone  == out \cup ((UNION {MembersOf(v) : v \in out}) \cap alive)
        whole == {w \in ((UNION {OwnersOf(v) : v \in out}) \cap alive) \ gone :
                     MembersOf(w) \cap (alive \ gone) = {}}
    IN gone \cup whole

(* "reading adds the full vector"                                          *)
Started(in) == in \cup UNION {OwnersOf(v) \cup MembersOf(v) : v \in in}

(* Mutant: a call locks what lives before its function operand is read.    *)
LockedByFirst(ins, after, read) == IF ins.op = "call" THEN after ELSE {}

(* ir_block_living_lock: what lives across the call, and the function.     *)
LockedBy(ins, after, read) == IF ins.op = "call" THEN read ELSE {}

Unplaced == [in |-> "nowhere", slot |-> 0]

(* "parameters live at 0"; ir_function_create_local locked them.           *)
SlotsInit == /\ fn \in Program
             /\ opt \in Options
             /\ entry = Enumerated(fn)
             /\ life = SeqSet(Param) \X {0}
             /\ living = [b \in Blocks |-> {}]
             /\ locked = SeqSet(Param)
             /\ changed = FALSE
             /\ phase = "propagate"
             /\ n = Len(fn.blocks)
             /\ i = Len(fn.blocks[n])
             /\ fixed = FALSE
             /\ slots = [lock |-> <<>>, global |-> <<>>]
             /\ at = [v \in SeqSet(Queue) |-> Unplaced]

(* Mutant: a call that finds its values locked already is a change too.    *)
ChangesAlways(lives, lock) == life # lives \/ (lock # {} /\ lock \subseteq Value)

Changes(lives, lock) == life # lives \/ ~(lock \subseteq locked)

(* ir_block_life_propagate, one instruction: what it writes, the operands  *)
(* kept beyond it, what it reads, what a call locks, the call's parameters,*)
(* and everything that lives then is alive at the instruction.             *)
PropagateInstr ==
    /\ phase = "propagate" /\ i > 0
    /\ LET ins    == fn.blocks[n][i]
           id     == Eid(n, i)
           ended  == Ended(living[n], SeqSet(ins.out))
           after  == living[n] \ ended
           kept   == ins.kept \cup UNION {OwnersOf(v) : v \in ins.kept}
           read   == after \cup Started(SeqSet(ins.in))
           before == read \cup Started(SeqSet(ins.params))
           lives  == Alive(Alive(life, ended \cup before, id), kept, id + 1)
           lock   == LockedBy(ins, after, read)
       IN /\ life' = lives
          /\ locked' = locked \cup lock
          /\ living' = [living EXCEPT ![n] = before]
          /\ changed' = (changed \/ Changes(lives, lock))
    /\ i' = i - 1
    /\ UNCHANGED <<fn, opt, entry, phase, n, fixed, slots, at>>

(* IR_FLAG_HAS_UNINITIALIZED: a local, or the component of one, that lives *)
(* where the function starts; whole vectors are let off.                   *)
Uninitialized(lv) == {v \in lv \ Vector : Root(v) \in SeqSet(Local)}

(* Mutant: only the first of a block's exits is looked at.                 *)
LivingOutFirst(b) == UNION {living[e] : e \in {f \in fn.exits[b] :
                                              \A g \in fn.exits[b] : f <= g}}

(* m_living is cleared before the exits are asked for theirs, so a block   *)
(* that jumps to itself gets nothing from there.                           *)
LivingOut(b) == UNION {living[e] : e \in fn.exits[b] \ {b}}

(* Mutant: one pass over the blocks is enough.                             *)
AgainNever(lives) == FALSE

Again(lives) == changed \/ lives # life

(* The block's entry id; then the block before it, which starts with what  *)
(* lives in its exits, or another pass, or the end of the passes.          *)
StartBlock(b) == /\ n' = b
                 /\ i' = Len(fn.blocks[b])
                 /\ living' = [living EXCEPT ![b] = LivingOut(b)]

PropagateEntry ==
    /\ phase = "propagate" /\ i = 0
    /\ LET lives == Alive(life, living[n], entry[n]) IN
       /\ life' = lives
       /\ IF n > 1 \/ Again(lives)
          THEN /\ StartBlock(IF n > 1 THEN n - 1 ELSE Len(fn.blocks))
               /\ changed' = (n > 1 /\ (changed \/ lives # life))
               /\ UNCHANGED <<phase, fixed>>
          ELSE /\ n' = 1
               /\ phase' = IF Queue = <<>> THEN "done" ELSE "allocate"
               /\ fixed' = \/ "local_temps" \notin opt
                           \/ Uninitialized(living[1]) # {}
               /\ UNCHANGED <<i, living, changed>>
    /\ UNCHANGED <<fn, opt, entry, locked, slots, at>>
-----------------------------------------------------------------------------
(* ir_function_allocate_locals, one value of m_locals, then of m_values.   *)
IsParam(k) == k <= Len(Param)
IsLocal(k) == k <= Len(Param) + Len(Local)
AllocatorOf(v, lockedNow) ==
    IF v \in lockedNow \/ "global_temps" \notin opt THEN "lock" ELSE "global"

(* function_allocator_alloc                                                *)
Alloc(a, v, unique) ==
    /\ slots' = [slots EXCEPT ![a] =
                    Append(@, [life |-> LifeOf(v), size |-> SizeOf(v), unique |-> unique])]
    /\ at' = [at EXCEPT ![v] = [in |-> a, slot |-> Len(slots[a]) + 1]]

(* ir_function_allocator_assign: the first slot that is shared at all, is  *)
(* large enough if it may be a parameter's, and is free when v is alive.   *)
Usable(a, k, v) ==
    /\ ~slots[a][k].unique
    /\ IsParam(k) => slots[a][k].size >= SizeOf(v)
    /\ ~Overlap(RangesOf(LifeOf(v)), RangesOf(slots[a][k].life))

Join(slot, v) == [slot EXCEPT !.life = @ \cup LifeOf(v),
                              !.size = IF @ < SizeOf(v) THEN SizeOf(v) ELSE @]

Assign(a, v) ==
    LET usable == {k \in DOMAIN slots[a] : Usable(a, k, v)}
        first == CHOOSE k \in usable : \A j \in usable : k <= j
    IN IF usable = {} THEN Alloc(a, v, FALSE)
       ELSE /\ slots' = [slots EXCEPT ![a][first] = Join(@, v)]
            /\ at' = [at EXCEPT ![v] = [in |-> a, slot |-> first]]

(* Mutant: the loop over the values runs once too often.                   *)
AdvanceLate == /\ n' = n + 1
               /\ phase' = IF n > Len(Queue) THEN "done" ELSE "allocate"

Advance == /\ n' = n + 1
           /\ phase' = IF n = Len(Queue) THEN "done" ELSE "allocate"

Placed == IsParam(n) \/ (fixed /\ IsLocal(n))

(* A parameter, or any local when there are no local temps.                *)
AllocateFixed ==
    /\ phase = "allocate" /\ Placed
    /\ locked' = locked \cup {Queue[n]}
    /\ Alloc(AllocatorOf(Queue[n], locked'), Queue[n], fixed)
    /\ Advance
    /\ UNCHANGED <<fn, opt, entry, i, life, living, changed, fixed>>

AllocateUnused ==
    /\ phase = "allocate" /\ ~Placed /\ LifeOf(Queue[n]) = {}
    /\ Advance
    /\ UNCHANGED <<fn, opt, entry, i, life, living, locked, changed, fixed, slots, at>>

(* "CALL optimization": the reads and the writes of a value, as m_reads    *)
(* and m_writes count them.                                                *)
Operands(ins) == ins.in \o ins.params
PlacesOf(s, v) == {k \in DOMAIN s : s[k] = v}
Reads(v) == Cardinality(UNION {{x} \X PlacesOf(Operands(At(x)), v) : x \in InstrSet})
Writes(v) == Cardinality(UNION {{x} \X PlacesOf(At(x).out, v) : x \in InstrSet})
ReaderOf(v) == CHOOSE x \in InstrSet : PlacesOf(Operands(At(x)), v) # {}
WriterOf(v) == CHOOSE x \in InstrSet : PlacesOf(At(x).out, v) # {}
IsCall(ins) == ins.op \in {"call", "nrcall"}

Unlocked(v) == "call_stores" \in opt /\ v \notin locked
ForCall(v) == Unlocked(v) /\ Reads(v) = 1 /\ Writes(v) = 1 /\ IsCall(At(ReaderOf(v)))
IsResult(v) == /\ Unlocked(v) /\ ~ForCall(v)
               /\ Writes(v) = 1 /\ At(WriterOf(v)).op = "call"

ParmOf(v) == LET params == At(ReaderOf(v)).params
             IN CHOOSE p \in DOMAIN params : params[p] = v

AllocateShared ==
    /\ phase = "allocate" /\ ~Placed /\ LifeOf(Queue[n]) # {}
    /\ IsLocal(n) \/ (~ForCall(Queue[n]) /\ ~IsResult(Queue[n]))
    /\ Assign(AllocatorOf(Queue[n], locked), Queue[n])
    /\ Advance
    /\ UNCHANGED <<fn, opt, entry, i, life, living, locked, changed, fixed>>

AllocateForCall ==
    /\ phase = "allocate" /\ ~IsLocal(n) /\ LifeOf(Queue[n]) # {} /\ ForCall(Queue[n])
    /\ Queue[n] \in SeqSet(At(ReaderOf(Queue[n])).params)
    /\ at' = [at EXCEPT ![Queue[n]] = [in |-> "parm", slot |-> ParmOf(Queue[n])]]
    /\ Advance
    /\ UNCHANGED <<fn, opt, entry, i, life, living, locked, changed, fixed, slots>>

AllocateResult ==
    /\ phase = "allocate" /\ ~IsLocal(n) /\ LifeOf(Queue[n]) # {} /\ IsResult(Queue[n])
    /\ at' = [at EXCEPT ![Queue[n]] = [in |-> "return", slot |-> 1]]
    /\ Advance
    /\ UNCHANGED <<fn, opt, entry, i, life, living, locked, changed, fixed, slots>>

SlotsNext == \/ PropagateInstr \/ PropagateEntry
             \/ AllocateFixed \/ AllocateUnused \/ AllocateShared
             \/ AllocateForCall \/ AllocateResult

SlotsSpec == SlotsInit /\ [][SlotsNext]_slotsVars /\ WF_slotsVars(SlotsNext)
-----------------------------------------------------------------------------
(* Where the words of a value are: "Adjust slot positions based on sizes", *)
(* then codeAddress.  A value that got no slot has m_code.local = 0.       *)
Position(a, k) == Cardinality(UNION {{j} \X (1 .. slots[a][j].size) : j \in 1 .. k - 1})
Area(v) == IF at[v] = Unplaced THEN AllocatorOf(v, locked) ELSE at[v].in
BaseOf(v) == CASE at[v] = Unplaced -> 0
               [] at[v].in = "parm" -> VectorSize * (at[v].slot - 1)
               [] at[v].in = "return" -> 0
               [] OTHER -> Position(at[v].in, at[v].slot)
WordsOf(v) == IF v \in DOMAIN Member THEN {<<Member[v].of, Member[v].word>>}
              ELSE {<<v, k>> : k \in 0 .. SizeOf(v) - 1}
Place(w) == <<Area(w[1]), BaseOf(w[1]) + w[2]>>

(* When a word is really needed: some way through the function reads it    *)
(* before anything writes it.                                              *)
Ins(f, b, k) == f.blocks[b][k]
Read(f, b, k, w) ==
    \E v \in SeqSet(Ins(f, b, k).in) \cup SeqSet(Ins(f, b, k).params) : w \in WordsOf(v)
Unwritten(f, b, j, k, w) ==
    \A m \in j .. k : \A v \in SeqSet(Ins(f, b, m).out) : w \notin WordsOf(v)
ReadAfter(f, b, j, w) ==
    \E k \in j + 1 .. Len(f.blocks[b]) : Read(f, b, k, w) /\ Unwritten(f, b, j + 1, k - 1, w)

(* The blocks on whose entry a word is needed: the fewest that contain     *)
(* those that read it, and with a block those that come to it with the word*)
(* as it is.                                                               *)
NeededOnEntry(f, w) ==
    LET all    == DOMAIN f.blocks
        reads  == {b \in all : ReadAfter(f, b, 0, w)}
        passes == {b \in all : Unwritten(f, b, 1, Len(f.blocks[b]), w)}
        Closed(s) == /\ reads \subseteq s
                     /\ {b \in passes : f.exits[b] \cap s # {}} \subseteq s
    IN {b \in all : \A s \in SUBSET all : Closed(s) => b \in s}

NeededAfter(f, b, k, w) ==
    \/ ReadAfter(f, b, k, w)
    \/ /\ Unwritten(f, b, k + 1, Len(f.blocks[b]), w)
       /\ f.exits[b] \cap NeededOnEntry(f, w) # {}
Words == UNION {WordsOf(v) : v \in Value}
Needed(x) == {w \in Words : NeededAfter(fn, x[1], x[2], w)}
WrittenWords(x) == UNION {WordsOf(v) : v \in SeqSet(At(x).out)}

(* A value is needed beyond an instruction that leaves it as it is.        *)
Crosses(f, b, k, v) ==
    \E w \in WordsOf(v) : NeededAfter(f, b, k, w) /\ Unwritten(f, b, k, k, w)

(* Temporaries are values of expressions.  They are written as a whole; one*)
(* that is passed to a call is not also taken apart; and of two that are   *)
(* pending together and are read once each, by two instructions, one is    *)
(* still pending where the other is read, since expressions are nested.    *)
TempAssumption ==
    \A f \in Program :
       LET all == UNION {{<<b, k>> : k \in DOMAIN f.blocks[b]} : b \in DOMAIN f.blocks}
           ins(x) == f.blocks[x[1]][x[2]]
           reading(v) == {x \in all : v \in SeqSet(ins(x).in) \cup SeqSet(ins(x).params)}
       IN /\ \A x \in all : \A m \in DOMAIN Member : Member[m].of \in SeqSet(Temp) =>
                /\ m \notin SeqSet(ins(x).out)
                /\ m \in SeqSet(ins(x).in) =>
                      \A y \in all : Member[m].of \notin SeqSet(ins(y).params)
          /\ \A u, v \in SeqSet(Temp) : \A x \in all :
                (u # v /\ u \in SeqSet(ins(x).out) /\ Crosses(f, x[1], x[2], v)) =>
                   \A c, d \in all : reading(u) = {c} /\ reading(v) = {d} =>
                      \/ c = d
                      \/ Crosses(f, c[1], c[2], v)
                      \/ Crosses(f, d[1], d[2], u)
ASSUME TempAssumption

(* A component of a vector is written and no one reads it after that.      *)
HasDeadComponent(f) ==
    \E b \in DOMAIN f.blocks : \E k \in DOMAIN f.blocks[b] :
       \E m \in SeqSet(f.blocks[b][k].out) \cap DOMAIN Member :
          \A w \in WordsOf(m) : ~NeededAfter(f, b, k, w)
-----------------------------------------------------------------------------
(* The type invariant.                                                     *)
SlotsTypeOK ==
    /\ life \subseteq Value \X Nat
    /\ living \in [Blocks -> SUBSET Value]
    /\ locked \subseteq Value
    /\ changed \in BOOLEAN /\ fixed \in BOOLEAN
    /\ phase \in {"propagate", "allocate", "done"}
    /\ phase = "propagate" => n \in Blocks /\ i \in 0 .. Len(fn.blocks[n])
    /\ phase = "allocate" => n \in DOMAIN Queue
    /\ \A v \in SeqSet(Queue) :
          at[v].in \in {"lock", "global"} => at[v].slot \in DOMAIN slots[at[v].in]

(* The life ranges the fixpoint ends with cover every need: a value some   *)
(* way through the function still reads is alive at every instruction on   *)
(* that way, loops and branches included, and its block's entry too.       *)
Settled == phase = "allocate" /\ n = 1
LivesCoverNeeds ==
    Settled =>
        /\ \A x \in InstrSet : \A w \in Needed(x) : <<w[1], Eid(x[1], x[2])>> \in life
        /\ \A w \in Words : \A b \in NeededOnEntry(fn, w) :
              {<<w[1], entry[b]>>, <<w[1], Eid(b, 1)>>} \subseteq life

(* No value is lost: whatever an instruction writes, and for a call        *)
(* whatever the callee may write (the words of parameters and result, and  *)
(* the temporaries all functions share), no word is overwritten that is    *)
(* still needed.  An operand the engine reads again is not overwritten     *)
(* either, unless it is a component of the very result.                    *)
Overwritten(x) == {Place(w) : w \in WrittenWords(x)}
Callee(place) == place[1] \in {"global", "parm", "return"}
NothingClobbered ==
    phase = "done" =>
        \A x \in InstrSet :
            /\ \A w \in Needed(x) \ WrittenWords(x) :
                  /\ Place(w) \notin Overwritten(x)
                  /\ At(x).op = "call" => ~Callee(Place(w))
            /\ \A v \in At(x).kept : \A w \in WordsOf(v) \ WrittenWords(x) :
                  Place(w) \notin Overwritten(x)

(* "internal error: unlocked parameter not found" never happens: a value   *)
(* that no call locks and only a call reads is one of that call's          *)
(* parameters, not the function it calls.                                  *)
UnlockedIsParam ==
    (phase = "allocate" /\ ~IsLocal(n) /\ LifeOf(Queue[n]) # {} /\ ForCall(Queue[n])) =>
        Queue[n] \in SeqSet(At(ReaderOf(Queue[n])).params)

(* Every function gets its slots: the passes over the blocks come to an    *)
(* end.                                                                    *)
Finishes == <>(phase = "done")

(* -Olocal-temps "will not have declared variables overlap, even if it was *)
(* possible" (doc/gmqcc.1).  The code disagrees: declared variables look   *)
(* for a slot the way temporaries do.                                      *)
DeclaredDoNotOverlap ==
    phase = "done" =>
        \A v, w \in SeqSet(Local) :
            (v # w /\ LifeOf(v) # {} /\ LifeOf(w) # {}) => at[v] # at[w]
=============================================================================
