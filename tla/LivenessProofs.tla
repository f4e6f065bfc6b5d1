--------------------------- MODULE LivenessProofs ---------------------------
(***************************************************************************)
(* Proofs about where values live, for any functions, any values and any   *)
(* vector size: the fixpoint over the blocks covers every need, and a call *)
(* finds what it has to place.                                             *)
(*                                                                         *)
(* The variables keep only one set of living values per block.  The proofs *)
(* speak of all points of the function: L[<<b, k>>] is what was last found *)
(* to live behind the k-th instruction of block b, before the first for    *)
(* k = 0.  In the state there is such an L that only grows from pass to    *)
(* pass, and is the wanted solution when a pass changes nothing.           *)
(***************************************************************************)
EXTENDS Liveness, FiniteSetTheorems, SequenceTheorems, WellFoundedInduction, TLAPS

(* What lives behind and before an instruction, from what lives after it.  *)
LivesBehind(ins, alive) == alive \ Ended(alive, SeqSet(ins.out))
Begun(ins) == Started(SeqSet(ins.in)) \cup Started(SeqSet(ins.params))
LivesBefore(ins, alive) == LivesBehind(ins, alive) \cup Begun(ins)

(* All that a write may end.                                               *)
Touched(out) == out \cup UNION {MembersOf(v) \cup OwnersOf(v) : v \in out}

(* A component is not alive without its vector.                            *)
WithOwners(alive) == \A m \in alive \cap DOMAIN Member : Member[m].of \in alive

(* A word is alive: its value is, and if it is a vector's the component.   *)
Covers(alive, w) ==
    /\ w[1] \in alive
    /\ w[1] \in Vector => \E m \in alive \cap DOMAIN Member : w \in WordsOf(m)

Instruction == [op : {"op", "call", "nrcall"}, out : Seq(Value), in : Seq(Value),
                params : Seq(Value), kept : SUBSET Value]
-----------------------------------------------------------------------------
(* Components and vectors.                                                 *)
LEMMA MemberFacts ==
    /\ VectorSize \in Nat \ {0}
    /\ Vector \subseteq SeqSet(Queue)
    /\ SeqSet(Queue) \subseteq Value /\ DOMAIN Member \subseteq Value
    /\ DOMAIN Member \cap Vector = {}
    /\ \A m \in DOMAIN Member : /\ Member[m].of \in Vector
                                /\ Member[m].word \in 0 .. VectorSize - 1
    /\ \A v \in Vector, k \in 0 .. VectorSize - 1 :
          \E m \in DOMAIN Member : Member[m].of = v /\ Member[m].word = k
  <1>1. VectorSize \in Nat \ {0} /\ Vector \subseteq SeqSet(Queue)
        /\ DOMAIN Member \cap SeqSet(Queue) = {}
    BY AllocatorAssumption DEF AllocatorAssumption
  <1>2. \A m \in DOMAIN Member : Member[m] \in [of : Vector, word : 0 .. VectorSize - 1]
    BY AllocatorAssumption DEF AllocatorAssumption
  <1>3. \A v \in Vector, k \in 0 .. VectorSize - 1 :
          \E m \in DOMAIN Member : Member[m] = [of |-> v, word |-> k]
    BY AllocatorAssumption DEF AllocatorAssumption
  <1>4. SeqSet(Queue) \subseteq Value /\ DOMAIN Member \subseteq Value
    BY DEF Value
  <1>5. \A v \in Vector, k \in 0 .. VectorSize - 1 :
          \E m \in DOMAIN Member : Member[m].of = v /\ Member[m].word = k
    BY <1>3
  <1>6. \A m \in DOMAIN Member : /\ Member[m].of \in Vector
                                /\ Member[m].word \in 0 .. VectorSize - 1
    BY <1>2
  <1>7. DOMAIN Member \cap Vector = {}
    BY <1>1
  <1> QED BY <1>1, <1>4, <1>5, <1>6, <1>7

LEMMA OwnerFacts ==
    /\ \A v, m : m \in MembersOf(v) <=> m \in DOMAIN Member /\ Member[m].of = v
    /\ \A v, x : v \in OwnersOf(x) <=> x \in DOMAIN Member /\ v = Member[x].of
    /\ \A v, x : v \in OwnersOf(x) => v \in Vector /\ v \notin DOMAIN Member
  <1>1. \A v, m : m \in MembersOf(v) <=> m \in DOMAIN Member /\ Member[m].of = v
    BY DEF MembersOf
  <1>2. \A v, x : v \in OwnersOf(x) <=> x \in DOMAIN Member /\ v = Member[x].of
    <2> TAKE v, x
    <2>1. CASE x \in DOMAIN Member
      <3>1. Member[x].of # x
        BY <2>1, MemberFacts
      <3> QED BY <2>1, <3>1 DEF OwnersOf, Root
    <2>2. CASE x \notin DOMAIN Member
      BY <2>2 DEF OwnersOf, Root
    <2> QED BY <2>1, <2>2
  <1>3. \A v, x : v \in OwnersOf(x) => v \in Vector /\ v \notin DOMAIN Member
    BY <1>2, MemberFacts
  <1> QED BY <1>1, <1>2, <1>3

LEMMA ValuesClosed ==
    ASSUME NEW S, S \subseteq Value
    PROVE  Started(S) \subseteq Value /\ Touched(S) \subseteq Value
  <1>1. \A v : MembersOf(v) \subseteq Value /\ OwnersOf(v) \subseteq Value
    BY OwnerFacts, MemberFacts
  <1> QED BY <1>1 DEF Started, Touched

(* What a write ends, said of one value.                                   *)
LEMMA EndedIs ==
    ASSUME NEW A, NEW out, NEW v
    PROVE  v \in Ended(A, out) <=>
              \/ v \in out
              \/ v \in A /\ \E x \in out : v \in MembersOf(x)
              \/ /\ v \in A /\ \E x \in out : v \in OwnersOf(x)
                 /\ \A m \in MembersOf(v) \cap A :
                       m \in out \/ \E x \in out : m \in MembersOf(x)
  <1> DEFINE gone  == out \cup ((UNION {MembersOf(x) : x \in out}) \cap A)
             whole == {w \in ((UNION {OwnersOf(x) : x \in out}) \cap A) \ gone :
                          MembersOf(w) \cap (A \ gone) = {}}
  <1>1. \A y : y \in gone <=> y \in out \/ (y \in A /\ \E x \in out : y \in MembersOf(x))
    OBVIOUS
  <1>2. Ended(A, out) = gone \cup whole
    BY DEF Ended
  <1>3. v \in whole <=> /\ v \in A /\ v \notin gone
                        /\ \E x \in out : v \in OwnersOf(x)
                        /\ \A m \in MembersOf(v) \cap A : m \in gone
    <2> HIDE DEF gone
    <2> QED OBVIOUS
  <1> HIDE DEF gone, whole
  <1> QED BY <1>1, <1>2, <1>3

LEMMA EndedTouched ==
    ASSUME NEW A, NEW out
    PROVE  Ended(A, out) \subseteq Touched(out)
  <1> SUFFICES ASSUME NEW v \in Ended(A, out) PROVE v \in Touched(out)
    OBVIOUS
  <1>1. v \in out \/ \E x \in out : v \in MembersOf(x) \/ v \in OwnersOf(x)
    BY EndedIs
  <1> QED BY <1>1 DEF Touched

LEMMA BeforeTyped ==
    ASSUME NEW ins \in Instruction, NEW A \in SUBSET Value
    PROVE  /\ LivesBefore(ins, A) \in SUBSET Value
           /\ Ended(A, SeqSet(ins.out)) \subseteq Value
           /\ A \subseteq Ended(A, SeqSet(ins.out)) \cup LivesBefore(ins, A)
  <1>1. SeqSet(ins.out) \subseteq Value /\ SeqSet(ins.in) \subseteq Value
        /\ SeqSet(ins.params) \subseteq Value
    BY DEF Instruction, SeqSet
  <1>2. Ended(A, SeqSet(ins.out)) \subseteq Value
    BY <1>1, ValuesClosed, EndedTouched
  <1>3. Begun(ins) \subseteq Value
    BY <1>1, ValuesClosed DEF Begun
  <1> QED BY <1>2, <1>3 DEF LivesBefore, LivesBehind

(* More alive after an instruction is more alive before it.                *)
LEMMA BeforeMonotone ==
    ASSUME NEW ins, NEW A, NEW B, A \subseteq B
    PROVE  LivesBefore(ins, A) \subseteq LivesBefore(ins, B)
  <1> DEFINE out == SeqSet(ins.out)
  <1>1. ASSUME NEW v \in A, v \notin Ended(A, out) PROVE v \notin Ended(B, out)
    <2> HIDE DEF out
    <2> QED BY <1>1, EndedIs
  <1> QED BY <1>1 DEF LivesBefore, LivesBehind

LEMMA BeforeWithOwners ==
    ASSUME NEW ins, NEW A, WithOwners(A)
    PROVE  WithOwners(LivesBefore(ins, A))
  <1> DEFINE out == SeqSet(ins.out)
  <1>1. ASSUME NEW m \in DOMAIN Member, m \in A, m \notin Ended(A, out)
        PROVE  Member[m].of \in A /\ Member[m].of \notin Ended(A, out)
    <2> DEFINE v == Member[m].of
    <2>1. v \in A
      BY <1>1 DEF WithOwners
    <2>2. v \in Vector /\ v \notin DOMAIN Member /\ m \in MembersOf(v)
      BY <1>1, MemberFacts, OwnerFacts
    <2>3. m \notin out /\ \A x \in out : m \notin MembersOf(x)
      <3> HIDE DEF out
      <3> QED BY <1>1, EndedIs
    <2>4. v \notin out
      BY <2>2, <2>3
    <2> HIDE DEF v, out
    <2> QED BY <1>1, <2>1, <2>2, <2>3, <2>4, EndedIs, OwnerFacts
  <1>2. ASSUME NEW S, NEW m \in DOMAIN Member, m \in Started(S)
        PROVE  Member[m].of \in Started(S)
    <2>1. \A v \in S : m \notin OwnersOf(v)
      BY OwnerFacts
    <2>2. CASE m \in S
      BY <2>2, OwnerFacts DEF Started
    <2>3. CASE \E v \in S : m \in MembersOf(v)
      BY <2>3, OwnerFacts DEF Started
    <2> QED BY <1>2, <2>1, <2>2, <2>3 DEF Started
  <1> HIDE DEF out
  <1> QED BY <1>1, <1>2 DEF WithOwners, LivesBefore, LivesBehind, Begun, out

(* What lives before an instruction is in a set that has all it begins, if *)
(* it is there or touched by the write.                                    *)
LEMMA NothingNewBefore ==
    ASSUME NEW ins, NEW A, NEW S, WithOwners(S), Begun(ins) \subseteq S,
           \A v \in LivesBefore(ins, A) : v \in S \/ v \in Touched(SeqSet(ins.out))
    PROVE  LivesBefore(ins, A) \subseteq S
  <1> DEFINE out == SeqSet(ins.out)
  <1>1. SUFFICES ASSUME NEW v \in A, v \notin Ended(A, out), v \notin S PROVE FALSE
    BY DEF LivesBefore, LivesBehind
  <1>2. \A y : y \in Touched(out) <=>
                  \/ y \in out
                  \/ \E x \in out : y \in MembersOf(x)
                  \/ \E x \in out : y \in OwnersOf(x)
    BY DEF Touched
  <1>3. \A y \in A : y \notin Ended(A, out) => y \in S \/ y \in Touched(out)
    BY DEF LivesBefore, LivesBehind
  <1> HIDE DEF out
  <1>4. v \notin out /\ \A x \in out : v \notin MembersOf(x)
    BY <1>1, EndedIs
  <1>5. \E x \in out : v \in OwnersOf(x)
    BY <1>1, <1>2, <1>3, <1>4
  <1>6. PICK m \in MembersOf(v) \cap A : m \notin out /\ \A x \in out : m \notin MembersOf(x)
    BY <1>1, <1>5, EndedIs
  <1>7. m \in DOMAIN Member /\ Member[m].of = v
    BY <1>6, OwnerFacts
  <1>8. \A x \in out : m \notin OwnersOf(x)
    BY <1>7, OwnerFacts
  <1>9. m \notin Ended(A, out)
    BY <1>6, <1>8, EndedIs
  <1>10. m \in S
    BY <1>2, <1>3, <1>6, <1>8, <1>9
  <1> QED BY <1>1, <1>7, <1>10 DEF WithOwners

(* A word that is alive and not written is alive before the instruction.   *)
LEMMA WordFacts ==
    ASSUME NEW w \in Words
    PROVE  /\ w[1] \notin DOMAIN Member
           /\ w \in WordsOf(w[1])
           /\ \A m \in DOMAIN Member : w \in WordsOf(m) =>
                 Member[m].of = w[1] /\ w[1] \in Vector
           /\ w[1] \in Vector => \E m \in DOMAIN Member : w \in WordsOf(m)
           /\ \A v : v \notin DOMAIN Member /\ w \in WordsOf(v) => v = w[1]
  <1>1. PICK v0 \in Value : w \in WordsOf(v0)
    BY DEF Words
  <1>2. \A m \in DOMAIN Member : w \in WordsOf(m) =>
            w = <<Member[m].of, Member[m].word>> /\ Member[m].of = w[1] /\ w[1] \in Vector
    BY MemberFacts DEF WordsOf
  <1>3. \A v : v \notin DOMAIN Member /\ w \in WordsOf(v) =>
            v = w[1] /\ \E k \in 0 .. SizeOf(v) - 1 : w = <<v, k>>
    BY DEF WordsOf
  <1>4. w[1] \notin DOMAIN Member
    BY <1>1, <1>2, <1>3, MemberFacts
  <1>5. w \in WordsOf(w[1])
    <2>1. CASE v0 \in DOMAIN Member
      <3>1. /\ w = <<Member[v0].of, Member[v0].word>> /\ Member[v0].of = w[1]
            /\ w[1] \in Vector /\ Member[v0].word \in 0 .. VectorSize - 1
        BY <1>1, <1>2, <2>1, MemberFacts
      <3>2. SizeOf(w[1]) = VectorSize
        BY <3>1 DEF SizeOf
      <3> QED BY <1>4, <3>1, <3>2 DEF WordsOf
    <2>2. CASE v0 \notin DOMAIN Member
      BY <1>1, <1>3, <2>2
    <2> QED BY <2>1, <2>2
  <1>6. ASSUME w[1] \in Vector PROVE \E m \in DOMAIN Member : w \in WordsOf(m)
    <2>1. PICK k \in 0 .. SizeOf(w[1]) - 1 : w = <<w[1], k>>
      BY <1>3, <1>4, <1>5
    <2>2. k \in 0 .. VectorSize - 1
      BY <1>6, <2>1 DEF SizeOf
    <2>3. PICK m \in DOMAIN Member : Member[m].of = w[1] /\ Member[m].word = k
      BY <1>6, <2>2, MemberFacts
    <2>4. w = <<Member[m].of, Member[m].word>>
      BY <2>1, <2>3
    <2> QED BY <2>4 DEF WordsOf
  <1> QED BY <1>2, <1>3, <1>4, <1>5, <1>6

LEMMA CoversMore ==
    ASSUME NEW A, NEW B, A \subseteq B, NEW w, Covers(A, w)
    PROVE  Covers(B, w)
  BY DEF Covers

LEMMA StaysCovered ==
    ASSUME NEW ins, NEW A, NEW w \in Words, Covers(A, w),
           \A v \in SeqSet(ins.out) : w \notin WordsOf(v)
    PROVE  Covers(LivesBefore(ins, A), w) /\ w[1] \in LivesBehind(ins, A)
  <1> DEFINE out == SeqSet(ins.out)
             r == w[1]
  <1>1. r \in A /\ r \notin out /\ r \notin DOMAIN Member
    BY WordFacts DEF Covers
  <1>2. \A x : r \notin MembersOf(x)
    BY <1>1, OwnerFacts
  <1>3. ASSUME NEW m \in DOMAIN Member, m \in A, w \in WordsOf(m)
        PROVE  /\ m \notin Ended(A, out) /\ m \in MembersOf(r)
               /\ m \notin out /\ \A x \in out : m \notin MembersOf(x)
    <2>1. Member[m].of = r /\ m \notin out
      BY <1>3, WordFacts
    <2>2. \A x \in out : m \notin MembersOf(x) /\ m \notin OwnersOf(x)
      BY <1>1, <2>1, OwnerFacts
    <2>3. m \in MembersOf(r)
      BY <2>1, OwnerFacts
    <2> HIDE DEF out, r
    <2> QED BY <2>1, <2>2, <2>3, EndedIs
  <1>4. r \notin Ended(A, out)
    <2>1. CASE r \in Vector
      <3>1. PICK m \in A \cap DOMAIN Member : w \in WordsOf(m)
        BY <2>1 DEF Covers
      <3> HIDE DEF out, r
      <3> QED BY <1>1, <1>2, <1>3, <3>1, EndedIs
    <2>2. CASE r \notin Vector
      <3>1. \A x : r \notin OwnersOf(x)
        BY <2>2, OwnerFacts
      <3> HIDE DEF out, r
      <3> QED BY <1>1, <1>2, <3>1, EndedIs
    <2> QED BY <2>1, <2>2
  <1>5. \A v \in A : v \notin Ended(A, out) => v \in LivesBefore(ins, A)
    BY DEF LivesBefore, LivesBehind
  <1>6. ASSUME r \in Vector
        PROVE  \E m \in LivesBefore(ins, A) \cap DOMAIN Member : w \in WordsOf(m)
    <2>1. PICK m \in A \cap DOMAIN Member : w \in WordsOf(m)
      BY <1>6 DEF Covers
    <2> HIDE DEF out, r
    <2> QED BY <1>3, <1>5, <2>1
  <1>7. r \in LivesBehind(ins, A)
    BY <1>1, <1>4 DEF LivesBehind
  <1> HIDE DEF out
  <1> QED BY <1>1, <1>4, <1>5, <1>6, <1>7 DEF Covers

(* A word that an instruction reads is alive before it.                    *)
LEMMA ReadIsCovered ==
    ASSUME NEW f, NEW b, NEW k, NEW w \in Words, Read(f, b, k, w), NEW A
    PROVE  Covers(LivesBefore(Ins(f, b, k), A), w)
  <1> DEFINE ins == Ins(f, b, k)
  <1>1. PICK v \in SeqSet(ins.in) \cup SeqSet(ins.params) : w \in WordsOf(v)
    BY DEF Read
  <1>2. PICK S : v \in S /\ Started(S) \subseteq LivesBefore(ins, A)
    <2>1. \/ v \in SeqSet(ins.in) /\ Started(SeqSet(ins.in)) \subseteq LivesBefore(ins, A)
          \/ v \in SeqSet(ins.params) /\ Started(SeqSet(ins.params)) \subseteq LivesBefore(ins, A)
      BY <1>1 DEF LivesBefore, Begun
    <2> QED BY <2>1
  <1>3. v \in Started(S) /\ OwnersOf(v) \subseteq Started(S) /\ MembersOf(v) \subseteq Started(S)
    BY <1>2 DEF Started
  <1>4. Covers(Started(S), w)
    <2>1. CASE v \in DOMAIN Member
      BY <1>1, <1>3, <2>1, WordFacts, OwnerFacts DEF Covers
    <2>2. CASE v \notin DOMAIN Member
      <3>1. v = w[1]
        BY <1>1, <2>2, WordFacts
      <3>2. ASSUME w[1] \in Vector PROVE \E m \in Started(S) \cap DOMAIN Member : w \in WordsOf(m)
        BY <1>3, <3>1, <3>2, WordFacts, OwnerFacts
      <3> QED BY <1>3, <3>1, <3>2 DEF Covers
    <2> QED BY <2>1, <2>2
  <1> HIDE DEF ins
  <1>5. Covers(LivesBefore(ins, A), w)
    BY <1>2, <1>4, CoversMore
  <1> QED BY <1>5 DEF ins
-----------------------------------------------------------------------------
(* The shape of a function.                                                *)
LEMMA Shape ==
    ASSUME NEW f \in Program
    PROVE  /\ Len(f.blocks) \in Nat \ {0} /\ DOMAIN f.blocks = 1 .. Len(f.blocks)
           /\ \A b \in DOMAIN f.blocks : /\ Len(f.blocks[b]) \in Nat \ {0}
                                        /\ DOMAIN f.blocks[b] = 1 .. Len(f.blocks[b])
                                        /\ f.exits[b] \subseteq DOMAIN f.blocks
           /\ \A b \in DOMAIN f.blocks, k \in Nat :
                 k \in 1 .. Len(f.blocks[b]) => Ins(f, b, k) \in Instruction
  <1>1. /\ f.blocks \in Seq(Seq(Instruction) \ {<<>>}) \ {<<>>}
        /\ f.exits \in [DOMAIN f.blocks -> SUBSET DOMAIN f.blocks]
    BY ProgramAssumption DEF ProgramAssumption, Instruction
  <1> HIDE DEF Instruction
  <1>2. /\ Len(f.blocks) \in Nat \ {0} /\ DOMAIN f.blocks = 1 .. Len(f.blocks)
        /\ \A b \in DOMAIN f.blocks : f.blocks[b] \in Seq(Instruction) \ {<<>>}
    BY <1>1
  <1>3. \A b \in DOMAIN f.blocks : /\ Len(f.blocks[b]) \in Nat \ {0}
                                  /\ DOMAIN f.blocks[b] = 1 .. Len(f.blocks[b])
    BY <1>2
  <1>4. \A b \in DOMAIN f.blocks, k \in Nat :
            k \in 1 .. Len(f.blocks[b]) => f.blocks[b][k] \in Instruction
    BY <1>2, <1>3
  <1>5. \A b \in DOMAIN f.blocks : f.exits[b] \subseteq DOMAIN f.blocks
    BY <1>1
  <1> QED BY <1>2, <1>3, <1>4, <1>5 DEF Ins
LEMMA InstructionFacts ==
    ASSUME NEW f \in Program, NEW b \in DOMAIN f.blocks,
           NEW k \in Nat, k \in 1 .. Len(f.blocks[b])
    PROVE  LET ins == Ins(f, b, k) IN
           /\ Len(ins.out) <= 1
           /\ k = Len(f.blocks[b]) => ins.out = <<>>
           /\ ins.kept # {} => ins.op = "op" /\ ins.kept \subseteq SeqSet(ins.in)
           /\ ins.op = "nrcall" => /\ SeqSet(ins.in) \cap SeqSet(Temp) = {}
                                  /\ k = Len(f.blocks[b]) /\ f.exits[b] = {}
  <1>1. k \in DOMAIN f.blocks[b]
    BY Shape
  <1> QED BY <1>1, ProgramAssumption, Zenon DEF ProgramAssumption, Ins
-----------------------------------------------------------------------------
(* The ids: each block's are behind those of the blocks before it.         *)
LEMMA EntriesApart ==
    ASSUME NEW f \in Program
    PROVE  LET E == Enumerated(f) IN
           /\ \A b \in DOMAIN f.blocks : E[b] \in Nat
           /\ \A b, c \in DOMAIN f.blocks : c < b => E[b] >= E[c] + Len(f.blocks[c]) + 1
  <1> DEFINE N == Len(f.blocks)
             ids(c) == {c} \X (0 .. Len(f.blocks[c]))
             upTo(b) == UNION {ids(c) : c \in 1 .. b - 1}
  <1>1. N \in Nat /\ DOMAIN f.blocks = 1 .. N
        /\ \A c \in 1 .. N : Len(f.blocks[c]) \in Nat
    BY Shape
  <1>2. \A c \in 1 .. N : IsFiniteSet(ids(c)) /\ Cardinality(ids(c)) = Len(f.blocks[c]) + 1
    <2> TAKE c \in 1 .. N
    <2>1. IsFiniteSet({c}) /\ Cardinality({c}) = 1
      BY FS_Singleton
    <2>2. IsFiniteSet(0 .. Len(f.blocks[c]))
          /\ Cardinality(0 .. Len(f.blocks[c])) = Len(f.blocks[c]) + 1
      <3>1. 0 \in Int /\ Len(f.blocks[c]) \in Int /\ ~(0 > Len(f.blocks[c]))
        BY <1>1
      <3>2. /\ IsFiniteSet(0 .. Len(f.blocks[c]))
            /\ Cardinality(0 .. Len(f.blocks[c])) =
                  IF 0 > Len(f.blocks[c]) THEN 0 ELSE Len(f.blocks[c]) - 0 + 1
        BY <3>1, FS_Interval
      <3> QED BY <3>1, <3>2
    <2>3. IsFiniteSet(ids(c))
          /\ Cardinality(ids(c)) = 1 * (Len(f.blocks[c]) + 1)
      BY <2>1, <2>2, FS_Product
    <2>4. Len(f.blocks[c]) \in Nat
      BY <1>1
    <2> QED BY <2>3, <2>4
  <1>3. \A c, d \in 1 .. N : c # d => ids(c) \cap ids(d) = {}
    OBVIOUS
  <1> HIDE DEF ids
  <1>4. \A b \in 1 .. N : IsFiniteSet(upTo(b)) /\ Cardinality(upTo(b)) \in Nat
    <2> TAKE b \in 1 .. N
    <2>1. \A c \in 1 .. b - 1 : c \in 1 .. N
      BY <1>1
    <2> DEFINE parts == {ids(c) : c \in 1 .. b - 1}
    <2>2. IsFiniteSet(parts)
      <3>1. IsFiniteSet(1 .. b - 1)
        BY FS_Interval
      <3> DEFINE g == [c \in 1 .. b - 1 |-> ids(c)]
      <3>2. g \in Surjection(1 .. b - 1, parts)
        BY DEF Surjection
      <3> QED BY <3>1, <3>2, FS_Surjection
    <2>3. \A T \in parts : IsFiniteSet(T)
      BY <1>2, <2>1
    <2> HIDE DEF parts
    <2>4. IsFiniteSet(UNION parts)
      BY <2>2, <2>3, FS_UNION
    <2>5. IsFiniteSet(upTo(b))
      BY <2>4 DEF parts
    <2> HIDE DEF upTo
    <2> QED BY <2>5, FS_CardinalityType
  <1>5. ASSUME NEW b \in 1 .. N, NEW c \in 1 .. N, c < b
        PROVE  Cardinality(upTo(b)) >= Cardinality(upTo(c)) + Len(f.blocks[c]) + 1
    <2>1. upTo(c) \cup ids(c) \subseteq upTo(b)
      <3>1. c \in 1 .. b - 1 /\ \A d \in 1 .. c - 1 : d \in 1 .. b - 1
        BY <1>1, <1>5
      <3> QED BY <3>1
    <2>2. upTo(c) \cap ids(c) = {}
      <3>1. \A d \in 1 .. c - 1 : d \in 1 .. N /\ d # c
        BY <1>1
      <3> QED BY <1>3, <3>1
    <2> HIDE DEF upTo
    <2>3. /\ IsFiniteSet(upTo(c) \cup ids(c))
          /\ Cardinality(upTo(c) \cup ids(c)) =
                Cardinality(upTo(c)) + Cardinality(ids(c)) - Cardinality(upTo(c) \cap ids(c))
      BY <1>2, <1>4, FS_Union
    <2>4. Cardinality(upTo(c) \cup ids(c)) <= Cardinality(upTo(b))
      BY <1>4, <2>1, FS_Subset
    <2>5. Cardinality(upTo(c) \cap ids(c)) = 0
      BY <2>2, FS_EmptySet
    <2> QED BY <1>1, <1>2, <1>4, <2>3, <2>4, <2>5
  <1>6. \A b \in DOMAIN f.blocks : Enumerated(f)[b] = Cardinality(upTo(b))
    BY DEF Enumerated, ids
  <1> HIDE DEF upTo
  <1> QED BY <1>1, <1>4, <1>5, <1>6

(* No other instruction of the function, no entry, and no id behind an     *)
(* instruction is the id of a block's first instruction.                   *)
LEMMA FirstIdApart ==
    ASSUME NEW f \in Program, NEW b \in DOMAIN f.blocks, NEW c \in DOMAIN f.blocks,
           NEW k \in 1 .. Len(f.blocks[c])
    PROVE  LET E == Enumerated(f) IN
           /\ E[b] \in Nat /\ E[c] \in Nat
           /\ E[b] + 1 # E[c]
           /\ E[b] + 1 # E[c] + k + 1
           /\ E[b] + 1 = E[c] + k => b = c /\ k = 1
  <1> DEFINE E == Enumerated(f)
  <1>1. E[b] \in Nat /\ E[c] \in Nat
        /\ (c < b => E[b] >= E[c] + Len(f.blocks[c]) + 1)
        /\ (b < c => E[c] >= E[b] + Len(f.blocks[b]) + 1)
    BY EntriesApart
  <1>2. b \in Nat /\ c \in Nat /\ Len(f.blocks[b]) \in Nat /\ Len(f.blocks[b]) >= 1
        /\ Len(f.blocks[c]) \in Nat /\ k \in Nat /\ 1 <= k /\ k <= Len(f.blocks[c])
    BY Shape
  <1> HIDE DEF E
  <1>3. /\ E[b] + 1 # E[c]
        /\ E[b] + 1 # E[c] + k + 1
        /\ E[b] + 1 = E[c] + k => b = c /\ k = 1
    <2> DEFINE x == E[b]
               y == E[c]
               lb == Len(f.blocks[b])
               lc == Len(f.blocks[c])
    <2>1. /\ x \in Nat /\ y \in Nat /\ lb \in Nat /\ lc \in Nat /\ lb >= 1 /\ k <= lc
          /\ (c < b => x >= y + lc + 1) /\ (b < c => y >= x + lb + 1)
          /\ (b = c => x = y)
      BY <1>1, <1>2
    <2> HIDE DEF x, y, lb, lc
    <2>2. x + 1 # y /\ x + 1 # y + k + 1 /\ (x + 1 = y + k => b = c /\ k = 1)
      <3>1. b \in Nat /\ c \in Nat /\ k \in Nat /\ 1 <= k
        BY <1>2
      <3>2. CASE b = c
        BY <2>1, <3>1, <3>2
      <3>3. CASE c < b
        <4>1. x >= y + lc + 1
          BY <2>1, <3>3
        <4> QED BY <2>1, <3>1, <4>1
      <3>4. CASE b < c
        <4>1. y >= x + lb + 1
          BY <2>1, <3>4
        <4> QED BY <2>1, <3>1, <4>1
      <3> QED BY <3>1, <3>2, <3>3, <3>4
    <2> QED BY <2>2 DEF x, y
  <1> QED BY <1>1, <1>3 DEF E
-----------------------------------------------------------------------------
(* The points of a function, and what has been found to live there.        *)
PointsOf(f) == UNION {{b} \X (0 .. Len(f.blocks[b])) : b \in DOMAIN f.blocks}
FromExits(f, L, b) == UNION {L[<<e, 0>>] : e \in f.exits[b] \ {b}}

(* Never more than what the points behind ask for, so that every pass can  *)
(* only add to it.                                                         *)
Growing(f, L) ==
    /\ L \in [PointsOf(f) -> SUBSET Value]
    /\ \A p \in PointsOf(f) : WithOwners(L[p])
    /\ \A b \in DOMAIN f.blocks, k \in Nat :
          k \in 1 .. Len(f.blocks[b]) =>
              L[<<b, k - 1>>] \subseteq LivesBefore(Ins(f, b, k), L[<<b, k>>])
    /\ \A b \in DOMAIN f.blocks : L[<<b, Len(f.blocks[b])>>] \subseteq FromExits(f, L, b)

More(f, L, M) == \A p \in PointsOf(f) : L[p] \subseteq M[p]

LEMMA PointFacts ==
    ASSUME NEW f \in Program
    PROVE  /\ \A b, k : <<b, k>> \in PointsOf(f) <=>
                  b \in DOMAIN f.blocks /\ k \in 0 .. Len(f.blocks[b])
           /\ \A b \in DOMAIN f.blocks :
                 /\ <<b, 0>> \in PointsOf(f) /\ <<b, Len(f.blocks[b])>> \in PointsOf(f)
                 /\ \A k \in Nat : k \in 1 .. Len(f.blocks[b]) =>
                       <<b, k>> \in PointsOf(f) /\ <<b, k - 1>> \in PointsOf(f)
           /\ \A b \in DOMAIN f.blocks, e \in DOMAIN f.blocks :
                 e \in f.exits[b] => <<e, 0>> \in PointsOf(f)
           /\ \A p \in PointsOf(f) : p = <<p[1], p[2]>>
  <1>1. \A b, k : <<b, k>> \in PointsOf(f) <=>
            b \in DOMAIN f.blocks /\ k \in 0 .. Len(f.blocks[b])
    BY DEF PointsOf
  <1>2. \A b \in DOMAIN f.blocks : Len(f.blocks[b]) \in Nat
    BY Shape
  <1>3. \A b \in DOMAIN f.blocks :
            /\ 0 \in 0 .. Len(f.blocks[b]) /\ Len(f.blocks[b]) \in 0 .. Len(f.blocks[b])
            /\ \A k \in Nat : k \in 1 .. Len(f.blocks[b]) =>
                  k \in 0 .. Len(f.blocks[b]) /\ k - 1 \in 0 .. Len(f.blocks[b])
    BY <1>2
  <1>4. \A p \in PointsOf(f) : p = <<p[1], p[2]>>
    BY DEF PointsOf
  <1> QED BY <1>1, <1>3, <1>4

LEMMA FromExitsMore ==
    ASSUME NEW f \in Program, NEW L, NEW M, More(f, L, M), NEW b \in DOMAIN f.blocks
    PROVE  FromExits(f, L, b) \subseteq FromExits(f, M, b)
  <1>1. \A e \in f.exits[b] : <<e, 0>> \in PointsOf(f)
    BY Shape, PointFacts
  <1> QED BY <1>1 DEF FromExits, More

(* A point can be raised to a set that holds what it held and no more than *)
(* the points behind ask for.                                              *)
MayRaise(f, L, p, S) ==
    /\ p \in PointsOf(f)
    /\ S \in SUBSET Value /\ WithOwners(S) /\ L[p] \subseteq S
    /\ \A k \in Nat : k \in 1 .. Len(f.blocks[p[1]]) /\ k - 1 = p[2] =>
           S \subseteq LivesBefore(Ins(f, p[1], k), L[<<p[1], k>>])
    /\ p[2] = Len(f.blocks[p[1]]) => S \subseteq FromExits(f, L, p[1])

Raised(L, p, S) == [L EXCEPT ![p] = S]

IsRaised(f, L, M, p, S) ==
    /\ Growing(f, M) /\ More(f, L, M)
    /\ M[p] = S /\ \A q \in PointsOf(f) : q # p => M[q] = L[q]

LEMMA Raise ==
    ASSUME NEW f \in Program, NEW L, Growing(f, L), NEW p, NEW S, MayRaise(f, L, p, S)
    PROVE  IsRaised(f, L, Raised(L, p, S), p, S)
  <1> DEFINE M == Raised(L, p, S)
  <1>0. /\ p \in PointsOf(f) /\ S \in SUBSET Value /\ WithOwners(S) /\ L[p] \subseteq S
        /\ \A k \in Nat : k \in 1 .. Len(f.blocks[p[1]]) /\ k - 1 = p[2] =>
               S \subseteq LivesBefore(Ins(f, p[1], k), L[<<p[1], k>>])
        /\ p[2] = Len(f.blocks[p[1]]) => S \subseteq FromExits(f, L, p[1])
    BY DEF MayRaise
  <1>1. L \in [PointsOf(f) -> SUBSET Value]
    BY DEF Growing
  <1>2. M \in [PointsOf(f) -> SUBSET Value] /\ M[p] = S
        /\ \A q \in PointsOf(f) : q # p => M[q] = L[q]
    BY <1>0, <1>1 DEF Raised
  <1> HIDE DEF M
  <1>3. More(f, L, M)
    BY <1>0, <1>2 DEF More
  <1>4. \A q \in PointsOf(f) : WithOwners(M[q])
    BY <1>0, <1>2 DEF Growing
  <1>5. ASSUME NEW b \in DOMAIN f.blocks, NEW k \in Nat, k \in 1 .. Len(f.blocks[b])
        PROVE  M[<<b, k - 1>>] \subseteq LivesBefore(Ins(f, b, k), M[<<b, k>>])
    <2>1. <<b, k>> \in PointsOf(f) /\ <<b, k - 1>> \in PointsOf(f)
      BY <1>5, PointFacts
    <2>2. L[<<b, k>>] \subseteq M[<<b, k>>]
      BY <1>3, <2>1 DEF More
    <2>3. LivesBefore(Ins(f, b, k), L[<<b, k>>]) \subseteq LivesBefore(Ins(f, b, k), M[<<b, k>>])
      BY <2>2, BeforeMonotone
    <2>4. CASE <<b, k - 1>> = p
      <3>1. p[1] = b /\ p[2] = k - 1
        BY <2>4
      <3>2. S \subseteq LivesBefore(Ins(f, b, k), L[<<b, k>>])
        BY <1>0, <1>5, <3>1
      <3> QED BY <1>2, <2>3, <2>4, <3>2
    <2>5. CASE <<b, k - 1>> # p
      <3>1. M[<<b, k - 1>>] = L[<<b, k - 1>>]
        BY <1>2, <2>1, <2>5
      <3>2. L[<<b, k - 1>>] \subseteq LivesBefore(Ins(f, b, k), L[<<b, k>>])
        BY <1>5 DEF Growing
      <3> QED BY <2>3, <3>1, <3>2
    <2> QED BY <2>4, <2>5
  <1>6. ASSUME NEW b \in DOMAIN f.blocks
        PROVE  M[<<b, Len(f.blocks[b])>>] \subseteq FromExits(f, M, b)
    <2> DEFINE q == <<b, Len(f.blocks[b])>>
    <2>1. q \in PointsOf(f) /\ q[1] = b /\ q[2] = Len(f.blocks[b])
      BY PointFacts
    <2>2. FromExits(f, L, b) \subseteq FromExits(f, M, b)
      BY <1>3, FromExitsMore
    <2>3. L[q] \subseteq FromExits(f, L, b)
      BY DEF Growing
    <2> HIDE DEF q
    <2>4. M[q] \subseteq FromExits(f, L, b)
      BY <1>0, <1>2, <2>1, <2>3
    <2> QED BY <2>2, <2>4 DEF q
  <1>7. Growing(f, M)
    BY <1>2, <1>4, <1>5, <1>6 DEF Growing
  <1> QED BY <1>2, <1>3, <1>7 DEF IsRaised, M

(* One instruction, and one block's end, are done again.                   *)
LEMMA RaiseBefore ==
    ASSUME NEW f \in Program, NEW L, Growing(f, L),
           NEW b \in DOMAIN f.blocks, NEW k \in Nat, k \in 1 .. Len(f.blocks[b])
    PROVE  LET p == <<b, k - 1>>
               S == LivesBefore(Ins(f, b, k), L[<<b, k>>])
           IN IsRaised(f, L, Raised(L, p, S), p, S)
  <1> DEFINE p == <<b, k - 1>>
             S == LivesBefore(Ins(f, b, k), L[<<b, k>>])
  <1>1. p \in PointsOf(f) /\ p[1] = b /\ p[2] = k - 1 /\ <<b, k>> \in PointsOf(f)
    BY PointFacts
  <1>2. L[<<b, k>>] \in SUBSET Value /\ WithOwners(L[<<b, k>>])
    BY <1>1 DEF Growing
  <1>3. Ins(f, b, k) \in Instruction
    BY Shape
  <1>4. S \in SUBSET Value /\ WithOwners(S)
    BY <1>2, <1>3, BeforeTyped, BeforeWithOwners
  <1>5. L[p] \subseteq S
    BY DEF Growing
  <1>6. p[2] # Len(f.blocks[b]) /\ \A j \in Nat : j - 1 = p[2] => j = k
    <2>1. k \in Nat /\ k <= Len(f.blocks[b]) /\ Len(f.blocks[b]) \in Nat
      BY Shape
    <2> QED BY <1>1, <2>1
  <1>7. \A j \in Nat : j \in 1 .. Len(f.blocks[p[1]]) /\ j - 1 = p[2] =>
            S \subseteq LivesBefore(Ins(f, p[1], j), L[<<p[1], j>>])
    BY <1>1, <1>6
  <1>8. p[2] = Len(f.blocks[p[1]]) => S \subseteq FromExits(f, L, p[1])
    BY <1>1, <1>6
  <1> HIDE DEF p, S
  <1>9. MayRaise(f, L, p, S)
    BY <1>1, <1>4, <1>5, <1>7, <1>8 DEF MayRaise
  <1> QED BY <1>9, Raise DEF p, S

LEMMA RaiseEnd ==
    ASSUME NEW f \in Program, NEW L, Growing(f, L), NEW b \in DOMAIN f.blocks
    PROVE  LET p == <<b, Len(f.blocks[b])>>
               S == FromExits(f, L, b)
           IN IsRaised(f, L, Raised(L, p, S), p, S)
  <1> DEFINE p == <<b, Len(f.blocks[b])>>
             S == FromExits(f, L, b)
  <1>1. p \in PointsOf(f) /\ p[1] = b /\ p[2] = Len(f.blocks[b])
    BY PointFacts
  <1>2. \A e \in f.exits[b] : L[<<e, 0>>] \in SUBSET Value /\ WithOwners(L[<<e, 0>>])
    <2>1. \A e \in f.exits[b] : <<e, 0>> \in PointsOf(f)
      BY Shape, PointFacts
    <2> QED BY <2>1 DEF Growing
  <1>3. S \in SUBSET Value
    BY <1>2 DEF FromExits
  <1>4. WithOwners(S)
    BY <1>2 DEF FromExits, WithOwners
  <1>5. L[p] \subseteq S
    BY DEF Growing
  <1>6. \A k \in Nat : ~(k \in 1 .. Len(f.blocks[p[1]]) /\ k - 1 = p[2])
    <2>1. Len(f.blocks[b]) \in Nat
      BY Shape
    <2> QED BY <1>1, <2>1
  <1>8. p[2] = Len(f.blocks[p[1]]) => S \subseteq FromExits(f, L, p[1])
    BY <1>1
  <1> HIDE DEF p, S
  <1>9. \A k \in Nat : k \in 1 .. Len(f.blocks[p[1]]) /\ k - 1 = p[2] =>
            S \subseteq LivesBefore(Ins(f, p[1], k), L[<<p[1], k>>])
    BY <1>6
  <1>10. MayRaise(f, L, p, S)
    BY <1>1, <1>3, <1>4, <1>5, <1>8, <1>9 DEF MayRaise
  <1> QED BY <1>10, Raise DEF p, S
-----------------------------------------------------------------------------
(* How far a pass has come, when it is behind the i0-th instruction of     *)
(* block b0: what it has done satisfies the equations between the points,  *)
Exact(f, L, b0, i0) ==
    \A b \in DOMAIN f.blocks, k \in Nat :
       k \in 1 .. Len(f.blocks[b]) /\ (b > b0 \/ (b = b0 /\ k > i0)) =>
           LivesBefore(Ins(f, b, k), L[<<b, k>>]) \subseteq L[<<b, k - 1>>]

(* what lives in the exits lives at the ends of the blocks,                *)
Joined(f, L, b0) ==
    \A b \in DOMAIN f.blocks :
       b >= b0 => FromExits(f, L, b) \subseteq L[<<b, Len(f.blocks[b])>>]

(* and what lives around an instruction, or at a block's entry, is alive   *)
(* at its id, but for the point that is to be looked at next.              *)
Marked(f, E, lives, L, b0, i0) ==
    /\ \A b \in DOMAIN f.blocks, k \in Nat : k \in 1 .. Len(f.blocks[b]) =>
          /\ L[<<b, k - 1>>] \X {E[b] + k} \subseteq lives
          /\ <<b, k>> # <<b0, i0>> => L[<<b, k>>] \X {E[b] + k} \subseteq lives
    /\ \A b \in DOMAIN f.blocks :
          <<b, 0>> # <<b0, i0>> => L[<<b, 0>>] \X {E[b]} \subseteq lives

(* What is alive at the id of a block's first instruction comes from that  *)
(* instruction: it lives before it, or is touched by what it writes.  So a *)
(* pass that finds nothing new there has not changed L[<<b, 0>>] either.   *)
Justified(f, E, lives, L) ==
    \A b \in DOMAIN f.blocks : \A v : <<v, E[b] + 1>> \in lives =>
       /\ Begun(Ins(f, b, 1)) \subseteq L[<<b, 0>>]
       /\ v \in L[<<b, 0>>] \/ v \in Touched(SeqSet(Ins(f, b, 1).out))

LEMMA ExactStep ==
    ASSUME NEW f \in Program, NEW L, NEW M, NEW b \in DOMAIN f.blocks,
           NEW k \in Nat, k \in 1 .. Len(f.blocks[b]),
           IsRaised(f, L, M, <<b, k - 1>>, LivesBefore(Ins(f, b, k), L[<<b, k>>])),
           Exact(f, L, b, k)
    PROVE  Exact(f, M, b, k - 1)
  <1>1. /\ More(f, L, M) /\ M[<<b, k - 1>>] = LivesBefore(Ins(f, b, k), L[<<b, k>>])
        /\ \A q \in PointsOf(f) : q # <<b, k - 1>> => M[q] = L[q]
    BY DEF IsRaised
  <1>2. SUFFICES ASSUME NEW c \in DOMAIN f.blocks, NEW j \in Nat, j \in 1 .. Len(f.blocks[c]),
                        c > b \/ (c = b /\ j > k - 1)
                 PROVE  LivesBefore(Ins(f, c, j), M[<<c, j>>]) \subseteq M[<<c, j - 1>>]
    BY DEF Exact
  <1>3. <<c, j>> \in PointsOf(f) /\ <<c, j - 1>> \in PointsOf(f)
    BY <1>2, PointFacts
  <1>4. b \in Nat /\ c \in Nat
    BY Shape
  <1>5. <<c, j>> # <<b, k - 1>>
    BY <1>2, <1>4
  <1>6. M[<<c, j>>] = L[<<c, j>>]
    BY <1>1, <1>3, <1>5
  <1>7. CASE c = b /\ j = k
    BY <1>1, <1>6, <1>7
  <1>8. CASE ~(c = b /\ j = k)
    <2>1. c > b \/ (c = b /\ j > k)
      BY <1>2, <1>4, <1>8
    <2>2. LivesBefore(Ins(f, c, j), L[<<c, j>>]) \subseteq L[<<c, j - 1>>]
      BY <1>2, <2>1 DEF Exact
    <2>3. L[<<c, j - 1>>] \subseteq M[<<c, j - 1>>]
      BY <1>1, <1>3 DEF More
    <2> QED BY <1>6, <2>2, <2>3
  <1> QED BY <1>7, <1>8

LEMMA JoinedStep ==
    ASSUME NEW f \in Program, NEW L, NEW M, NEW b \in DOMAIN f.blocks,
           NEW k \in Nat, k \in 1 .. Len(f.blocks[b]), NEW S,
           IsRaised(f, L, M, <<b, k - 1>>, S),
           k = 1 => S \subseteq L[<<b, 0>>],
           Joined(f, L, b)
    PROVE  Joined(f, M, b)
  <1>1. /\ More(f, L, M) /\ M[<<b, k - 1>>] = S
        /\ \A q \in PointsOf(f) : q # <<b, k - 1>> => M[q] = L[q]
    BY DEF IsRaised
  <1>2. \A e \in DOMAIN f.blocks : M[<<e, 0>>] \subseteq L[<<e, 0>>]
    <2> TAKE e \in DOMAIN f.blocks
    <2>1. <<e, 0>> \in PointsOf(f)
      BY PointFacts
    <2>2. CASE e = b /\ k = 1
      <3>1. <<b, k - 1>> = <<b, 0>>
        BY <2>2
      <3> QED BY <1>1, <2>2, <3>1
    <2>3. CASE ~(e = b /\ k = 1)
      <3>1. <<e, 0>> # <<b, k - 1>>
        BY <2>3
      <3> QED BY <1>1, <2>1, <3>1
    <2> QED BY <2>2, <2>3
  <1>3. \A c \in DOMAIN f.blocks : FromExits(f, M, c) \subseteq FromExits(f, L, c)
    <2> TAKE c \in DOMAIN f.blocks
    <2>1. \A e \in f.exits[c] : e \in DOMAIN f.blocks
      BY Shape
    <2>2. \A e \in f.exits[c] : M[<<e, 0>>] \subseteq L[<<e, 0>>]
      BY <1>2, <2>1
    <2> QED BY <2>2 DEF FromExits
  <1>4. \A c \in DOMAIN f.blocks :
            L[<<c, Len(f.blocks[c])>>] \subseteq M[<<c, Len(f.blocks[c])>>]
    BY <1>1, PointFacts DEF More
  <1> QED BY <1>3, <1>4, Zenon DEF Joined

LEMMA MarkedStep ==
    ASSUME NEW f \in Program, NEW L, NEW M, NEW b \in DOMAIN f.blocks,
           NEW k \in Nat, k \in 1 .. Len(f.blocks[b]), NEW E, NEW lives, NEW lives2, NEW S,
           IsRaised(f, L, M, <<b, k - 1>>, S),
           Marked(f, E, lives, L, b, k),
           lives \subseteq lives2,
           (L[<<b, k>>] \cup S) \X {E[b] + k} \subseteq lives2
    PROVE  Marked(f, E, lives2, M, b, k - 1)
  <1>1. /\ M[<<b, k - 1>>] = S
        /\ \A q \in PointsOf(f) : q # <<b, k - 1>> => M[q] = L[q]
    BY DEF IsRaised
  <1>2. ASSUME NEW c \in DOMAIN f.blocks, NEW j \in Nat, j \in 1 .. Len(f.blocks[c])
        PROVE  /\ M[<<c, j - 1>>] \X {E[c] + j} \subseteq lives2
               /\ <<c, j>> # <<b, k - 1>> => M[<<c, j>>] \X {E[c] + j} \subseteq lives2
    <2>1. <<c, j>> \in PointsOf(f) /\ <<c, j - 1>> \in PointsOf(f)
      BY <1>2, PointFacts
    <2>2. L[<<c, j - 1>>] \X {E[c] + j} \subseteq lives2
      BY <1>2 DEF Marked
    <2>3. <<c, j>> # <<b, k>> => L[<<c, j>>] \X {E[c] + j} \subseteq lives2
      BY <1>2 DEF Marked
    <2>4. <<c, j>> # <<b, k - 1>> => M[<<c, j>>] \X {E[c] + j} \subseteq lives2
      <3>1. CASE <<c, j>> = <<b, k>>
        <4>1. c = b /\ j = k
          BY <3>1
        <4> QED BY <1>1, <2>1, <4>1
      <3>2. CASE <<c, j>> # <<b, k>>
        BY <1>1, <2>1, <2>3, <3>2
      <3> QED BY <3>1, <3>2
    <2>5. M[<<c, j - 1>>] \X {E[c] + j} \subseteq lives2
      <3>1. CASE <<c, j - 1>> = <<b, k - 1>>
        <4>1. c = b /\ j = k
          BY <3>1
        <4> QED BY <1>1, <4>1
      <3>2. CASE <<c, j - 1>> # <<b, k - 1>>
        BY <1>1, <2>1, <2>2, <3>2
      <3> QED BY <3>1, <3>2
    <2> QED BY <2>4, <2>5
  <1>3. ASSUME NEW c \in DOMAIN f.blocks, <<c, 0>> # <<b, k - 1>>
        PROVE  M[<<c, 0>>] \X {E[c]} \subseteq lives2
    <2>1. <<c, 0>> \in PointsOf(f) /\ <<c, 0>> # <<b, k>>
      BY PointFacts
    <2>2. L[<<c, 0>>] \X {E[c]} \subseteq lives2
      BY <2>1 DEF Marked
    <2> QED BY <1>1, <1>3, <2>1, <2>2
  <1> QED BY <1>2, <1>3 DEF Marked

LEMMA JustifiedMore ==
    ASSUME NEW f \in Program, NEW L, NEW M, More(f, L, M), NEW E, NEW lives,
           Justified(f, E, lives, L)
    PROVE  Justified(f, E, lives, M)
  <1>1. \A b \in DOMAIN f.blocks : L[<<b, 0>>] \subseteq M[<<b, 0>>]
    BY PointFacts DEF More
  <1> QED BY <1>1 DEF Justified

(* The marks of an instruction: what it ended and what lives before it, at *)
(* its id, and what it keeps, behind it.                                   *)
LEMMA JustifiedStep ==
    ASSUME NEW f \in Program, NEW L, NEW M, NEW b \in DOMAIN f.blocks,
           NEW k \in Nat, k \in 1 .. Len(f.blocks[b]), NEW S, NEW T, NEW K,
           IsRaised(f, L, M, <<b, k - 1>>, S),
           Begun(Ins(f, b, k)) \subseteq S,
           T \subseteq S \cup Touched(SeqSet(Ins(f, b, k).out)),
           NEW lives, Justified(f, Enumerated(f), lives, L)
    PROVE  LET id == Enumerated(f)[b] + k
           IN Justified(f, Enumerated(f), (lives \cup (T \X {id})) \cup (K \X {id + 1}), M)
  <1> DEFINE E == Enumerated(f)
             id == E[b] + k
             lives2 == (lives \cup (T \X {id})) \cup (K \X {id + 1})
  <1>1. More(f, L, M) /\ M[<<b, k - 1>>] = S
    BY DEF IsRaised
  <1>2. Justified(f, E, lives, M)
    BY <1>1, JustifiedMore
  <1>3. ASSUME NEW c \in DOMAIN f.blocks, NEW v, <<v, E[c] + 1>> \in lives2,
               <<v, E[c] + 1>> \notin lives
        PROVE  c = b /\ k = 1 /\ v \in T
    <2>1. /\ E[c] + 1 # E[b] + k + 1
          /\ E[c] + 1 = E[b] + k => c = b /\ k = 1
      BY FirstIdApart
    <2> HIDE DEF E
    <2> QED BY <1>3, <2>1
  <1> HIDE DEF E, lives2
  <1>4. ASSUME NEW c \in DOMAIN f.blocks, NEW v, <<v, E[c] + 1>> \in lives2
        PROVE  /\ Begun(Ins(f, c, 1)) \subseteq M[<<c, 0>>]
               /\ v \in M[<<c, 0>>] \/ v \in Touched(SeqSet(Ins(f, c, 1).out))
    <2>1. CASE <<v, E[c] + 1>> \in lives
      BY <1>2, <2>1 DEF Justified
    <2>2. CASE <<v, E[c] + 1>> \notin lives
      <3>1. c = b /\ k = 1 /\ v \in T
        BY <1>3, <1>4, <2>2
      <3>2. <<b, k - 1>> = <<c, 0>>
        BY <3>1
      <3> QED BY <1>1, <3>1, <3>2
    <2> QED BY <2>1, <2>2
  <1>5. Justified(f, E, lives2, M)
    BY <1>4 DEF Justified
  <1> QED BY <1>5 DEF E, lives2

LEMMA JustifiedEntry ==
    ASSUME NEW f \in Program, NEW L, NEW b \in DOMAIN f.blocks, NEW T,
           NEW lives, Justified(f, Enumerated(f), lives, L)
    PROVE  Justified(f, Enumerated(f), lives \cup (T \X {Enumerated(f)[b]}), L)
  <1> DEFINE E == Enumerated(f)
  <1>1. ASSUME NEW c \in DOMAIN f.blocks PROVE E[c] + 1 # E[b]
    <2>1. 1 \in 1 .. Len(f.blocks[b])
      BY Shape
    <2> QED BY <2>1, FirstIdApart
  <1>2. Justified(f, E, lives, L)
    OBVIOUS
  <1> HIDE DEF E
  <1>3. \A c \in DOMAIN f.blocks : \A v :
            <<v, E[c] + 1>> \in lives \cup (T \X {E[b]}) => <<v, E[c] + 1>> \in lives
    BY <1>1
  <1>4. Justified(f, E, lives \cup (T \X {E[b]}), L)
    BY <1>2, <1>3 DEF Justified
  <1> QED BY <1>4 DEF E

(* A block whose first instruction marks nothing new has nothing new at    *)
(* its entry.                                                              *)
LEMMA NothingNewAtEntry ==
    ASSUME NEW f \in Program, NEW L, Growing(f, L), NEW b \in DOMAIN f.blocks,
           NEW E, NEW lives, Justified(f, E, lives, L), NEW A,
           LivesBefore(Ins(f, b, 1), A) \X {E[b] + 1} \subseteq lives
    PROVE  LivesBefore(Ins(f, b, 1), A) \subseteq L[<<b, 0>>]
  <1> DEFINE ins == Ins(f, b, 1)
             S == L[<<b, 0>>]
  <1>1. WithOwners(S)
    BY PointFacts DEF Growing
  <1>2. \A v \in LivesBefore(ins, A) : /\ Begun(ins) \subseteq S
                                       /\ v \in S \/ v \in Touched(SeqSet(ins.out))
    BY DEF Justified
  <1>3. CASE LivesBefore(ins, A) = {}
    BY <1>3
  <1>4. CASE LivesBefore(ins, A) # {}
    <2>1. Begun(ins) \subseteq S
      BY <1>2, <1>4
    <2> HIDE DEF ins, S
    <2>2. LivesBefore(ins, A) \subseteq S
      BY <1>1, <1>2, <2>1, NothingNewBefore
    <2> QED BY <2>2 DEF ins, S
  <1> QED BY <1>3, <1>4

(* The pass goes to the end of block c.                                    *)
LEMMA StartsBlock ==
    ASSUME NEW f \in Program, NEW L, NEW M, NEW b \in DOMAIN f.blocks,
           NEW c \in DOMAIN f.blocks,
           c = IF b > 1 THEN b - 1 ELSE Len(f.blocks),
           IsRaised(f, L, M, <<c, Len(f.blocks[c])>>, FromExits(f, L, c)),
           Exact(f, L, b, 0)
    PROVE  /\ \A e \in DOMAIN f.blocks : M[<<e, 0>>] = L[<<e, 0>>]
           /\ Exact(f, M, c, Len(f.blocks[c]))
           /\ (b > 1 => Joined(f, L, b)) => Joined(f, M, c)
           /\ \A E, lives : Marked(f, E, lives, L, 0, 0) =>
                                Marked(f, E, lives, M, c, Len(f.blocks[c]))
  <1> DEFINE p == <<c, Len(f.blocks[c])>>
  <1>1. /\ M[p] = FromExits(f, L, c)
        /\ \A q \in PointsOf(f) : q # p => M[q] = L[q]
    BY DEF IsRaised
  <1>2. b \in Nat /\ c \in Nat /\ 1 <= b /\ b <= Len(f.blocks) /\ Len(f.blocks) \in Nat
        /\ \A d \in DOMAIN f.blocks : d \in Nat /\ 1 <= d /\ d <= Len(f.blocks)
                                      /\ Len(f.blocks[d]) \in Nat /\ 1 <= Len(f.blocks[d])
    BY Shape, SMTT(30)
  <1>3. \A e \in DOMAIN f.blocks : M[<<e, 0>>] = L[<<e, 0>>]
    <2> TAKE e \in DOMAIN f.blocks
    <2>1. <<e, 0>> # p /\ <<e, 0>> \in PointsOf(f)
      BY <1>2, PointFacts
    <2> QED BY <1>1, <2>1
  <1>4. Exact(f, M, c, Len(f.blocks[c]))
    <2>1. SUFFICES ASSUME NEW d \in DOMAIN f.blocks, NEW j \in Nat, j \in 1 .. Len(f.blocks[d]),
                          d > c \/ (d = c /\ j > Len(f.blocks[c]))
                   PROVE  LivesBefore(Ins(f, d, j), M[<<d, j>>]) \subseteq M[<<d, j - 1>>]
      BY DEF Exact
    <2>2. d > c
      BY <1>2, <2>1
    <2>3. b > 1 /\ d >= b /\ (d > b \/ (d = b /\ j > 0))
      BY <1>2, <2>1, <2>2, SMTT(30)
    <2>4. <<d, j>> # p /\ <<d, j - 1>> # p
      BY <1>2, <2>2
    <2>5. <<d, j>> \in PointsOf(f) /\ <<d, j - 1>> \in PointsOf(f)
      BY <2>1, PointFacts
    <2>6. LivesBefore(Ins(f, d, j), L[<<d, j>>]) \subseteq L[<<d, j - 1>>]
      BY <2>1, <2>3 DEF Exact
    <2> HIDE DEF p
    <2> QED BY <1>1, <2>4, <2>5, <2>6
  <1>5. \A d \in DOMAIN f.blocks : FromExits(f, M, d) = FromExits(f, L, d)
    <2> TAKE d \in DOMAIN f.blocks
    <2>1. \A e \in f.exits[d] : e \in DOMAIN f.blocks
      BY Shape
    <2>2. \A e \in f.exits[d] : M[<<e, 0>>] = L[<<e, 0>>]
      BY <1>3, <2>1
    <2> QED BY <2>2 DEF FromExits
  <1>6. ASSUME b > 1 => Joined(f, L, b) PROVE Joined(f, M, c)
    <2>1. SUFFICES ASSUME NEW d \in DOMAIN f.blocks, d >= c
                   PROVE  FromExits(f, L, d) \subseteq M[<<d, Len(f.blocks[d])>>]
      BY <1>5 DEF Joined
    <2>2. CASE d = c
      BY <1>1, <2>2
    <2>3. CASE d # c
      <3>1. b > 1 /\ d >= b
        BY <1>2, <2>1, <2>3
      <3>2. <<d, Len(f.blocks[d])>> # p /\ <<d, Len(f.blocks[d])>> \in PointsOf(f)
        BY <2>3, PointFacts
      <3>3. FromExits(f, L, d) \subseteq L[<<d, Len(f.blocks[d])>>]
        BY <1>6, <3>1 DEF Joined
      <3> HIDE DEF p
      <3> QED BY <1>1, <3>2, <3>3
    <2> QED BY <2>2, <2>3
  <1>7. ASSUME NEW E, NEW lives, Marked(f, E, lives, L, 0, 0)
        PROVE  Marked(f, E, lives, M, c, Len(f.blocks[c]))
    <2>1. ASSUME NEW d \in DOMAIN f.blocks, NEW j \in Nat, j \in 1 .. Len(f.blocks[d])
          PROVE  /\ M[<<d, j - 1>>] \X {E[d] + j} \subseteq lives
                 /\ <<d, j>> # p => M[<<d, j>>] \X {E[d] + j} \subseteq lives
      <3>1. <<d, j>> \in PointsOf(f) /\ <<d, j - 1>> \in PointsOf(f)
        BY <2>1, PointFacts
      <3>2. <<d, j - 1>> # p
        <4>1. ~(d = c /\ j - 1 = Len(f.blocks[c]))
          BY <1>2, <2>1, SMTT(30)
        <4> QED BY <4>1
      <3>3. <<d, j>> # <<0, 0>>
        BY <1>2
      <3>4. L[<<d, j - 1>>] \X {E[d] + j} \subseteq lives
            /\ L[<<d, j>>] \X {E[d] + j} \subseteq lives
        BY <1>7, <2>1, <3>3 DEF Marked
      <3> HIDE DEF p
      <3> QED BY <1>1, <3>1, <3>2, <3>4
    <2>2. ASSUME NEW d \in DOMAIN f.blocks
          PROVE  M[<<d, 0>>] \X {E[d]} \subseteq lives
      <3>1. <<d, 0>> # <<0, 0>>
        BY <1>2
      <3> QED BY <1>3, <1>7, <3>1 DEF Marked
    <2> QED BY <2>1, <2>2 DEF Marked
  <1> QED BY <1>3, <1>4, <1>6, <1>7
-----------------------------------------------------------------------------
(* No block jumps to itself: its own need would not come back to its end   *)
(* (LivingOut), and is not covered (run self_loop).                        *)
NoSelfLoops == \A f \in Program : \A b \in DOMAIN f.blocks : b \notin f.exits[b]

(* What the passes end with: all equations hold and all marks are set.     *)
Solved(f, E, lives, L) ==
    Exact(f, L, 0, 0) /\ Joined(f, L, 0) /\ Marked(f, E, lives, L, 0, 0)

(* The least of a set of numbers.                                          *)
LEMMA LeastOf ==
    ASSUME NEW S, S \subseteq Nat, S # {}
    PROVE  \E j \in S : \A k \in S : j <= k
  <1> DEFINE less == {ss \in Nat \X Nat : ss[1] < ss[2]}
  <1>1. IsWellFoundedOn(less, Nat)
    BY NatLessThanWellFounded DEF OpToRel
  <1>2. PICK j \in S : \A k \in S : ~(<<k, j>> \in less)
    <2> HIDE DEF less
    <2> QED BY <1>1, WFMin
  <1>3. ASSUME NEW k \in S PROVE j <= k
    <2>1. j \in Nat /\ k \in Nat
      OBVIOUS
    <2>2. ~(k < j)
      BY <1>2, <2>1
    <2> QED BY <2>1, <2>2
  <1> QED BY <1>3

(* A word that lives at a point lives at each point before it in the block *)
(* from which nothing writes it.                                           *)
LEMMA CoveredUpwards ==
    ASSUME NEW f \in Program, NEW L, Exact(f, L, 0, 0), NEW b \in DOMAIN f.blocks,
           NEW w \in Words, NEW j \in 0 .. Len(f.blocks[b]), NEW k \in 0 .. j,
           Covers(L[<<b, j>>], w), Unwritten(f, b, k + 1, j, w)
    PROVE  Covers(L[<<b, k>>], w)
  <1> DEFINE S == {l \in k .. j : Covers(L[<<b, l>>], w)}
  <1>1. /\ Len(f.blocks[b]) \in Nat /\ j \in Nat /\ k \in Nat /\ k <= j
        /\ j <= Len(f.blocks[b]) /\ b \in Nat /\ b > 0
    BY Shape
  <1>2. j \in S /\ S \subseteq Nat
    BY <1>1
  <1> HIDE DEF S
  <1>3. PICK l \in S : \A h \in S : l <= h
    BY <1>2, LeastOf
  <1>4. l \in k .. j /\ Covers(L[<<b, l>>], w)
    BY DEF S
  <1>5. CASE l = k
    BY <1>4, <1>5
  <1>6. CASE l # k
    <2>1. /\ l \in Nat /\ l \in 1 .. Len(f.blocks[b]) /\ l \in k + 1 .. j
          /\ l - 1 \in k .. j /\ ~(l <= l - 1)
      BY <1>1, <1>4, <1>6
    <2>2. \A v \in SeqSet(Ins(f, b, l).out) : w \notin WordsOf(v)
      BY <2>1 DEF Unwritten
    <2>3. Covers(LivesBefore(Ins(f, b, l), L[<<b, l>>]), w)
      BY <1>4, <2>2, StaysCovered
    <2>4. LivesBefore(Ins(f, b, l), L[<<b, l>>]) \subseteq L[<<b, l - 1>>]
      BY <1>1, <2>1 DEF Exact
    <2>5. Covers(L[<<b, l - 1>>], w)
      BY <2>3, <2>4, CoversMore
    <2>6. l - 1 \in S
      BY <2>1, <2>5 DEF S
    <2> QED BY <1>3, <2>1, <2>6
  <1> QED BY <1>5, <1>6

LEMMA ReadAfterCovered ==
    ASSUME NEW f \in Program, NEW L, Exact(f, L, 0, 0), NEW b \in DOMAIN f.blocks,
           NEW w \in Words, NEW k \in 0 .. Len(f.blocks[b]), ReadAfter(f, b, k, w)
    PROVE  Covers(L[<<b, k>>], w)
  <1>1. PICK j \in k + 1 .. Len(f.blocks[b]) :
            Read(f, b, j, w) /\ Unwritten(f, b, k + 1, j - 1, w)
    BY DEF ReadAfter
  <1>2. /\ j \in Nat /\ j \in 1 .. Len(f.blocks[b]) /\ k \in 0 .. j - 1
        /\ j - 1 \in 0 .. Len(f.blocks[b]) /\ b \in Nat /\ b > 0
    BY <1>1, Shape
  <1>3. Covers(LivesBefore(Ins(f, b, j), L[<<b, j>>]), w)
    BY <1>1, ReadIsCovered
  <1>4. LivesBefore(Ins(f, b, j), L[<<b, j>>]) \subseteq L[<<b, j - 1>>]
    BY <1>2 DEF Exact
  <1>5. Covers(L[<<b, j - 1>>], w)
    BY <1>3, <1>4, CoversMore
  <1> QED BY <1>1, <1>2, <1>5, CoveredUpwards

(* A word that lives at the entry of an exit lives at the end of the block.*)
LEMMA ExitCovered ==
    ASSUME NoSelfLoops, NEW f \in Program, NEW L, Joined(f, L, 0),
           NEW b \in DOMAIN f.blocks, NEW e \in f.exits[b], NEW w, Covers(L[<<e, 0>>], w)
    PROVE  Covers(L[<<b, Len(f.blocks[b])>>], w)
  <1>1. e # b /\ b >= 0
    BY Shape DEF NoSelfLoops
  <1>2. FromExits(f, L, b) \subseteq L[<<b, Len(f.blocks[b])>>]
    BY <1>1 DEF Joined
  <1>3. L[<<e, 0>>] \subseteq FromExits(f, L, b)
    BY <1>1 DEF FromExits
  <1>4. L[<<e, 0>>] \subseteq L[<<b, Len(f.blocks[b])>>]
    BY <1>2, <1>3
  <1> QED BY <1>4, CoversMore

LEMMA EntryCovered ==
    ASSUME NoSelfLoops, NEW f \in Program, NEW L, Exact(f, L, 0, 0), Joined(f, L, 0),
           NEW w \in Words, NEW b \in NeededOnEntry(f, w)
    PROVE  b \in DOMAIN f.blocks /\ Covers(L[<<b, 0>>], w)
  <1> DEFINE S == {c \in DOMAIN f.blocks : Covers(L[<<c, 0>>], w)}
  <1>1. ASSUME NEW c \in DOMAIN f.blocks, ReadAfter(f, c, 0, w) PROVE c \in S
    <2>1. 0 \in 0 .. Len(f.blocks[c])
      BY Shape
    <2>2. Covers(L[<<c, 0>>], w)
      BY <1>1, <2>1, ReadAfterCovered
    <2> QED BY <2>2
  <1>2. ASSUME NEW c \in DOMAIN f.blocks, Unwritten(f, c, 1, Len(f.blocks[c]), w),
               f.exits[c] \cap S # {}
        PROVE  c \in S
    <2>1. PICK e \in f.exits[c] : Covers(L[<<e, 0>>], w)
      BY <1>2
    <2>2. Covers(L[<<c, Len(f.blocks[c])>>], w)
      BY <2>1, ExitCovered
    <2> DEFINE m == Len(f.blocks[c])
    <2>3. m \in 0 .. m /\ 0 \in 0 .. m /\ 0 + 1 = 1
      BY Shape
    <2>4. Unwritten(f, c, 0 + 1, m, w)
      BY <1>2, <2>3
    <2>5. Covers(L[<<c, 0>>], w)
      BY <2>2, <2>3, <2>4, CoveredUpwards
    <2> QED BY <2>5
  <1>3. S \in SUBSET DOMAIN f.blocks
    OBVIOUS
  <1> HIDE DEF S
  <1>4. b \in DOMAIN f.blocks /\ b \in S
    BY <1>1, <1>2, <1>3 DEF NeededOnEntry
  <1> QED BY <1>4 DEF S

LEMMA NeedCovered ==
    ASSUME NoSelfLoops, NEW f \in Program, NEW L, Exact(f, L, 0, 0), Joined(f, L, 0),
           NEW b \in DOMAIN f.blocks, NEW k \in 1 .. Len(f.blocks[b]),
           NEW w \in Words, NeededAfter(f, b, k, w)
    PROVE  Covers(L[<<b, k>>], w)
  <1> DEFINE m == Len(f.blocks[b])
  <1>1. m \in Nat /\ k \in 0 .. m /\ m \in 0 .. m
    BY Shape
  <1>2. CASE ReadAfter(f, b, k, w)
    BY <1>1, <1>2, ReadAfterCovered
  <1>3. CASE Unwritten(f, b, k + 1, m, w) /\ f.exits[b] \cap NeededOnEntry(f, w) # {}
    <2>1. PICK e \in f.exits[b] : e \in NeededOnEntry(f, w)
      BY <1>3
    <2>2. Covers(L[<<e, 0>>], w)
      BY <2>1, EntryCovered
    <2>3. Covers(L[<<b, m>>], w)
      BY <2>2, ExitCovered
    <2> QED BY <1>1, <1>3, <2>3, CoveredUpwards
  <1> QED BY <1>2, <1>3 DEF NeededAfter

(* So every need is among the lives.                                       *)
LEMMA SolutionCovers ==
    ASSUME NoSelfLoops, NEW f \in Program, NEW L, NEW E, NEW lives, Solved(f, E, lives, L)
    PROVE  /\ \A b \in DOMAIN f.blocks, k \in Nat : k \in 1 .. Len(f.blocks[b]) =>
                 \A w \in Words : NeededAfter(f, b, k, w) => <<w[1], E[b] + k>> \in lives
           /\ \A w \in Words : \A b \in NeededOnEntry(f, w) :
                 {<<w[1], E[b]>>, <<w[1], E[b] + 1>>} \subseteq lives
  <1>1. Exact(f, L, 0, 0) /\ Joined(f, L, 0) /\ Marked(f, E, lives, L, 0, 0)
    BY DEF Solved
  <1>2. ASSUME NEW b \in DOMAIN f.blocks, NEW k \in Nat, k \in 1 .. Len(f.blocks[b]),
               NEW w \in Words, NeededAfter(f, b, k, w)
        PROVE  <<w[1], E[b] + k>> \in lives
    <2>1. w[1] \in L[<<b, k>>]
      BY <1>1, <1>2, NeedCovered DEF Covers
    <2>2. <<b, k>> # <<0, 0>>
      BY Shape
    <2>3. L[<<b, k>>] \X {E[b] + k} \subseteq lives
      BY <1>1, <1>2, <2>2 DEF Marked
    <2> QED BY <2>1, <2>3
  <1>3. ASSUME NEW w \in Words, NEW b \in NeededOnEntry(f, w)
        PROVE  <<w[1], E[b]>> \in lives /\ <<w[1], E[b] + 1>> \in lives
    <2>1. b \in DOMAIN f.blocks /\ w[1] \in L[<<b, 0>>]
      BY <1>1, EntryCovered DEF Covers
    <2>2. <<b, 0>> # <<0, 0>> /\ 1 \in 1 .. Len(f.blocks[b]) /\ 1 \in Nat /\ 1 - 1 = 0
      BY <2>1, Shape
    <2>3. L[<<b, 0>>] \X {E[b]} \subseteq lives
      BY <1>1, <2>1, <2>2 DEF Marked
    <2>4. L[<<b, 1 - 1>>] \X {E[b] + 1} \subseteq lives
      BY <1>1, <2>1, <2>2 DEF Marked
    <2> QED BY <2>1, <2>2, <2>3, <2>4
  <1> QED BY <1>2, <1>3
-----------------------------------------------------------------------------
(* The inductive invariant of the states: their types, and which values    *)
(* the calls behind the place that is looked at have locked.               *)
Slot == [life : SUBSET Nat, size : Nat, unique : BOOLEAN]
SlotShape == /\ slots \in [lock : Seq(Slot), global : Seq(Slot)]
             /\ DOMAIN at = SeqSet(Queue)

CallsLocked(f, lock, b0, i0) ==
    \A b \in DOMAIN f.blocks, k \in Nat :
       /\ k \in 1 .. Len(f.blocks[b])
       /\ b > b0 \/ (b = b0 /\ k > i0)
       /\ Ins(f, b, k).op = "call"
       => SeqSet(Ins(f, b, k).in) \subseteq lock

TInv == /\ fn \in Program /\ entry = Enumerated(fn)
        /\ SlotsTypeOK /\ SlotShape
        /\ phase = "propagate" => CallsLocked(fn, locked, n, i)
        /\ phase = "allocate" => CallsLocked(fn, locked, 0, 0)

LEMMA QueueFacts ==
    /\ Len(Queue) \in Nat /\ DOMAIN Queue = 1 .. Len(Queue)
    /\ Len(Param) \in Nat /\ Len(Local) \in Nat
    /\ \A k \in DOMAIN Queue : Queue[k] \in SeqSet(Queue)
    /\ SeqSet(Param) \subseteq Value
    /\ \A k \in DOMAIN Param : IsParam(k) /\ k \in DOMAIN Queue /\ Queue[k] = Param[k]
    /\ \A k \in DOMAIN Queue : ~IsLocal(k) => Queue[k] \in SeqSet(Temp)
    /\ Queue = <<>> <=> Len(Queue) = 0
  <1>1. Param \in Seq(SeqSet(Param)) /\ Local \in Seq(SeqSet(Local)) /\ Temp \in Seq(SeqSet(Temp))
    BY AllocatorAssumption DEF AllocatorAssumption
  <1> DEFINE All == (SeqSet(Param) \cup SeqSet(Local)) \cup SeqSet(Temp)
             PL == Param \o Local
  <1>2. Param \in Seq(All) /\ Local \in Seq(All) /\ Temp \in Seq(All)
    BY <1>1
  <1> HIDE DEF All
  <1>3. /\ PL \in Seq(All) /\ Len(PL) = Len(Param) + Len(Local)
        /\ \A k \in 1 .. Len(Param) + Len(Local) :
              PL[k] = IF k <= Len(Param) THEN Param[k] ELSE Local[k - Len(Param)]
    BY <1>2, ConcatProperties
  <1>4. Queue = PL \o Temp
    BY DEF Queue
  <1> HIDE DEF PL
  <1>5. /\ Queue \in Seq(All) /\ Len(Queue) = Len(PL) + Len(Temp)
        /\ \A k \in 1 .. Len(PL) + Len(Temp) :
              Queue[k] = IF k <= Len(PL) THEN PL[k] ELSE Temp[k - Len(PL)]
    BY <1>2, <1>3, <1>4, ConcatProperties
  <1>6. /\ Len(Param) \in Nat /\ Len(Local) \in Nat /\ Len(Temp) \in Nat
        /\ DOMAIN Param = 1 .. Len(Param) /\ DOMAIN Temp = 1 .. Len(Temp)
    BY <1>2
  <1>7. Len(Queue) \in Nat /\ DOMAIN Queue = 1 .. Len(Queue) /\ (Queue = <<>> <=> Len(Queue) = 0)
    BY <1>5
  <1>8. \A k \in DOMAIN Queue : Queue[k] \in SeqSet(Queue)
    BY DEF SeqSet
  <1>9. \A k \in DOMAIN Param : IsParam(k) /\ k \in DOMAIN Queue /\ Queue[k] = Param[k]
    <2> TAKE k \in DOMAIN Param
    <2>1. k \in 1 .. Len(Param)
      BY <1>6
    <2>2. k \in 1 .. Len(Param) + Len(Local) /\ k \in 1 .. Len(PL) + Len(Temp)
          /\ k <= Len(PL) /\ k \in DOMAIN Queue /\ k <= Len(Param)
      BY <1>3, <1>5, <1>6, <1>7, <2>1
    <2>3. Param[k] = Queue[k]
      BY <1>3, <1>5, <2>2
    <2> QED BY <2>2, <2>3 DEF IsParam
  <1>11. SeqSet(Param) \subseteq Value
    BY <1>8, <1>9, MemberFacts DEF SeqSet
  <1>10. ASSUME NEW k \in DOMAIN Queue, ~IsLocal(k) PROVE Queue[k] \in SeqSet(Temp)
    <2>1. ~(k <= Len(PL)) /\ k \in 1 .. Len(PL) + Len(Temp)
      BY <1>3, <1>5, <1>7, <1>10 DEF IsLocal
    <2>2. k - Len(PL) \in 1 .. Len(Temp)
      BY <1>3, <1>6, <2>1
    <2>3. Queue[k] = Temp[k - Len(PL)]
      BY <1>5, <2>1
    <2> QED BY <1>6, <2>2, <2>3 DEF SeqSet
  <1> QED BY <1>6, <1>7, <1>8, <1>9, <1>10, <1>11

LEMMA SlotsInitTyped == SlotsInit => TInv
  <1> SUFFICES ASSUME SlotsInit PROVE TInv
    OBVIOUS
  <1> USE DEF SlotsInit
  <1>1. fn \in Program /\ entry = Enumerated(fn)
    OBVIOUS
  <1>2. /\ Blocks = 1 .. Len(fn.blocks) /\ Len(fn.blocks) \in Nat \ {0}
        /\ n = Len(fn.blocks) /\ i = Len(fn.blocks[n]) /\ Len(fn.blocks[n]) \in Nat
    BY <1>1, Shape DEF Blocks
  <1>3. n \in Blocks /\ i \in 0 .. Len(fn.blocks[n])
    BY <1>2
  <1>4. life \subseteq Value \X Nat /\ locked \subseteq Value
    BY QueueFacts
  <1>5. living \in [Blocks -> SUBSET Value]
    OBVIOUS
  <1>6. \A v \in SeqSet(Queue) : at[v].in = "nowhere"
    BY DEF Unplaced
  <1>7. SlotsTypeOK
    BY <1>3, <1>4, <1>5, <1>6 DEF SlotsTypeOK
  <1>8. SlotShape
    <2>1. <<>> \in Seq(Slot)
      OBVIOUS
    <2> QED BY <2>1 DEF SlotShape
  <1>9. CallsLocked(fn, locked, n, i)
    <2>1. SUFFICES ASSUME NEW b \in DOMAIN fn.blocks, NEW k \in Nat,
                          k \in 1 .. Len(fn.blocks[b]), b > n \/ (b = n /\ k > i)
                   PROVE  FALSE
      BY DEF CallsLocked
    <2>2. b \in Nat /\ b <= n
      BY <1>2 DEF Blocks
    <2> QED BY <1>2, <2>1, <2>2
  <1> QED BY <1>1, <1>7, <1>8, <1>9 DEF TInv

(* What the propagation of one instruction does, in the terms above.       *)
LEMMA InstrEffect ==
    ASSUME TInv, PropagateInstr
    PROVE  LET ins == Ins(fn, n, i)
               T == Ended(living[n], SeqSet(ins.out)) \cup LivesBefore(ins, living[n])
           IN /\ n \in DOMAIN fn.blocks /\ i \in Nat /\ i \in 1 .. Len(fn.blocks[n])
              /\ ins \in Instruction /\ living[n] \in SUBSET Value
              /\ entry[n] \in Nat
              /\ \E K \in SUBSET Value :
                    life' = (life \cup (T \X {entry[n] + i})) \cup (K \X {entry[n] + i + 1})
              /\ living' = [living EXCEPT ![n] = LivesBefore(ins, living[n])]
              /\ ~changed' => ~changed /\ life' = life
              /\ changed' \in BOOLEAN
              /\ locked \subseteq locked' /\ locked' \subseteq Value
              /\ ins.op = "call" => SeqSet(ins.in) \subseteq locked'
              /\ i' = i - 1
              /\ UNCHANGED <<fn, opt, entry, phase, n, fixed, slots, at>>
  <1> DEFINE ins == Ins(fn, n, i)
             ended == Ended(living[n], SeqSet(ins.out))
             before == LivesBefore(ins, living[n])
             read == LivesBehind(ins, living[n]) \cup Started(SeqSet(ins.in))
             K == ins.kept \cup UNION {OwnersOf(v) : v \in ins.kept}
             lives == (life \cup ((ended \cup before) \X {entry[n] + i}))
                         \cup (K \X {entry[n] + i + 1})
             lock == IF ins.op = "call" THEN read ELSE {}
  <1>1. /\ phase = "propagate" /\ i > 0 /\ n \in Blocks /\ i \in 0 .. Len(fn.blocks[n])
        /\ living \in [Blocks -> SUBSET Value] /\ locked \subseteq Value
        /\ changed \in BOOLEAN /\ fn \in Program /\ entry = Enumerated(fn)
    BY DEF TInv, SlotsTypeOK, PropagateInstr
  <1>2. n \in DOMAIN fn.blocks /\ i \in Nat /\ i \in 1 .. Len(fn.blocks[n])
    BY <1>1, Shape DEF Blocks
  <1>3. ins \in Instruction /\ living[n] \in SUBSET Value /\ entry[n] \in Nat
    BY <1>1, <1>2, Shape, EntriesApart
  <1>4. K \in SUBSET Value
    <2>1. ins.kept \subseteq Value
      BY <1>3 DEF Instruction
    <2>2. \A v : OwnersOf(v) \subseteq Value
      BY OwnerFacts, MemberFacts
    <2> QED BY <2>1, <2>2
  <1>5. /\ life' = lives
        /\ locked' = locked \cup lock
        /\ living' = [living EXCEPT ![n] = before]
        /\ changed' = (changed \/ lives # life \/ ~(lock \subseteq locked))
        /\ i' = i - 1
        /\ UNCHANGED <<fn, opt, entry, phase, n, fixed, slots, at>>
    BY DEF PropagateInstr, Ins, LivesBefore, LivesBehind, Begun, Alive, Changes, LockedBy, Eid
  <1>6. read \subseteq Value /\ SeqSet(ins.in) \subseteq read
    <2>1. SeqSet(ins.in) \subseteq Value
      BY <1>3 DEF Instruction, SeqSet
    <2>2. Started(SeqSet(ins.in)) \subseteq Value
      BY <2>1, ValuesClosed
    <2>3. SeqSet(ins.in) \subseteq Started(SeqSet(ins.in))
      BY DEF Started
    <2> QED BY <1>3, <2>2, <2>3 DEF LivesBehind
  <1> HIDE DEF ins, ended, before, read, K
  <1>7. locked \subseteq locked' /\ locked' \subseteq Value
        /\ (ins.op = "call" => SeqSet(ins.in) \subseteq locked')
    BY <1>1, <1>5, <1>6
  <1>8. ~changed' => ~changed /\ life' = life
    BY <1>5
  <1>9. changed' \in BOOLEAN
    BY <1>5
  <1>10. \E KK \in SUBSET Value :
            life' = (life \cup ((ended \cup before) \X {entry[n] + i})) \cup (KK \X {entry[n] + i + 1})
    BY <1>4, <1>5
  <1> QED BY <1>2, <1>3, <1>5, <1>7, <1>8, <1>9, <1>10 DEF ins, ended, before


(* The values that look for a slot.                                        *)
LEMMA LifeFacts ==
    ASSUME TInv, NEW v \in Value
    PROVE  LifeOf(v) \in SUBSET Nat /\ SizeOf(v) \in Nat
  <1>1. \A l \in life : l[2] \in Nat
    BY DEF TInv, SlotsTypeOK
  <1>2. LifeOf(v) \in SUBSET Nat
    BY <1>1 DEF LifeOf
  <1>3. SizeOf(v) \in Nat
    BY MemberFacts DEF SizeOf
  <1> QED BY <1>2, <1>3

(* A value that gets a slot of its own, or joins one, is at that slot.     *)
Kept(v, a) == /\ SlotShape' /\ a \in {"lock", "global"}
              /\ Len(slots'[a]) \in Nat /\ Len(slots[a]) <= Len(slots'[a])
              /\ \A c \in {"lock", "global"} : DOMAIN slots[c] \subseteq DOMAIN slots'[c]
              /\ \A w \in SeqSet(Queue) : w # v => at'[w] = at[w]
              /\ at'[v].in = a /\ at'[v].slot \in DOMAIN slots'[a]

LEMMA AllocKeeps ==
    ASSUME TInv, NEW v \in SeqSet(Queue), NEW a \in {"lock", "global"}, NEW u \in BOOLEAN,
           Alloc(a, v, u)
    PROVE  Kept(v, a)
  <1> DEFINE s == [life |-> LifeOf(v), size |-> SizeOf(v), unique |-> u]
  <1>1. s \in Slot
    BY LifeFacts, MemberFacts DEF Slot
  <1>2. slots \in [lock : Seq(Slot), global : Seq(Slot)] /\ DOMAIN at = SeqSet(Queue)
    BY DEF TInv, SlotShape
  <1>3. slots' = [slots EXCEPT ![a] = Append(@, s)]
        /\ at' = [at EXCEPT ![v] = [in |-> a, slot |-> Len(slots[a]) + 1]]
    BY DEF Alloc
  <1> HIDE DEF s
  <1>4. slots[a] \in Seq(Slot)
    BY <1>2
  <1>5. /\ Append(slots[a], s) \in Seq(Slot)
        /\ Len(Append(slots[a], s)) = Len(slots[a]) + 1
        /\ DOMAIN slots[a] = 1 .. Len(slots[a]) /\ Len(slots[a]) \in Nat
        /\ DOMAIN Append(slots[a], s) = 1 .. Len(slots[a]) + 1
    BY <1>1, <1>4
  <1>6. slots'[a] = Append(slots[a], s)
        /\ \A c \in {"lock", "global"} : c # a => slots'[c] = slots[c]
    BY <1>2, <1>3
  <1>7. slots' \in [lock : Seq(Slot), global : Seq(Slot)]
    BY <1>2, <1>3, <1>5
  <1>8. /\ at'[v] = [in |-> a, slot |-> Len(slots[a]) + 1]
        /\ \A w \in SeqSet(Queue) : w # v => at'[w] = at[w]
        /\ DOMAIN at' = SeqSet(Queue)
    BY <1>2, <1>3
  <1> QED BY <1>5, <1>6, <1>7, <1>8 DEF Kept, SlotShape

LEMMA AssignKeeps ==
    ASSUME TInv, NEW v \in SeqSet(Queue), NEW a \in {"lock", "global"}, Assign(a, v)
    PROVE  Kept(v, a)
  <1> DEFINE usable == {k \in DOMAIN slots[a] : Usable(a, k, v)}
             first == CHOOSE k \in usable : \A j \in usable : k <= j
             s == Join(slots[a][first], v)
  <1>1. slots \in [lock : Seq(Slot), global : Seq(Slot)] /\ DOMAIN at = SeqSet(Queue)
    BY DEF TInv, SlotShape
  <1>2. slots[a] \in Seq(Slot) /\ DOMAIN slots[a] \subseteq Nat /\ Len(slots[a]) \in Nat
        /\ DOMAIN slots[a] = 1 .. Len(slots[a])
    BY <1>1
  <1>3. CASE usable = {}
    BY <1>3, AllocKeeps DEF Assign
  <1>4. CASE usable # {}
    <2>1. \E k \in usable : \A j \in usable : k <= j
      BY <1>2, <1>4, LeastOf
    <2>2. first \in usable
      BY <2>1
    <2>3. first \in DOMAIN slots[a]
      BY <2>2
    <2>4. slots' = [slots EXCEPT ![a][first] = s]
          /\ at' = [at EXCEPT ![v] = [in |-> a, slot |-> first]]
      BY <1>4 DEF Assign
    <2> HIDE DEF first, usable
    <2>5. s \in Slot
      <3>1. slots[a][first] \in Slot
        BY <1>2, <2>3
      <3>2. LifeOf(v) \in SUBSET Nat /\ SizeOf(v) \in Nat
        BY LifeFacts, MemberFacts
      <3> QED BY <3>1, <3>2 DEF Join, Slot
    <2> HIDE DEF s
    <2>6. /\ [slots[a] EXCEPT ![first] = s] \in Seq(Slot)
          /\ Len([slots[a] EXCEPT ![first] = s]) = Len(slots[a])
          /\ DOMAIN [slots[a] EXCEPT ![first] = s] = DOMAIN slots[a]
      BY <1>2, <2>3, <2>5
    <2>7. slots'[a] = [slots[a] EXCEPT ![first] = s]
          /\ \A c \in {"lock", "global"} : c # a => slots'[c] = slots[c]
      BY <1>1, <2>4
    <2>8. slots' \in [lock : Seq(Slot), global : Seq(Slot)]
      BY <1>1, <2>4, <2>6
    <2>9. /\ at'[v] = [in |-> a, slot |-> first]
          /\ \A w \in SeqSet(Queue) : w # v => at'[w] = at[w]
          /\ DOMAIN at' = SeqSet(Queue)
      BY <1>1, <2>4
    <2> QED BY <1>2, <2>3, <2>6, <2>7, <2>8, <2>9 DEF Kept, SlotShape
  <1> QED BY <1>3, <1>4

(* What the steps of the allocation have in common.                        *)
LEMMA AdvanceTyped ==
    ASSUME TInv, phase = "allocate", Advance, locked \subseteq locked', locked' \subseteq Value,
           UNCHANGED <<fn, opt, entry, i, life, living, changed, fixed>>,
           SlotShape',
           \A v \in SeqSet(Queue) : at'[v].in \in {"lock", "global"} =>
               at'[v].slot \in DOMAIN slots'[at'[v].in]
    PROVE  TInv'
  <1>1. n \in DOMAIN Queue /\ Len(Queue) \in Nat /\ DOMAIN Queue = 1 .. Len(Queue)
    BY QueueFacts DEF TInv, SlotsTypeOK
  <1>2. n' = n + 1 /\ phase' = IF n = Len(Queue) THEN "done" ELSE "allocate"
    BY DEF Advance
  <1>3. phase' = "allocate" => n' \in DOMAIN Queue
    BY <1>1, <1>2
  <1>4. SlotsTypeOK'
    <2>1. Blocks' = Blocks
      BY DEF Blocks
    <2>2. life' \subseteq Value \X Nat /\ living' \in [Blocks -> SUBSET Value]
          /\ changed' \in BOOLEAN /\ fixed' \in BOOLEAN
      BY DEF TInv, SlotsTypeOK
    <2> QED BY <1>2, <1>3, <2>1, <2>2 DEF SlotsTypeOK
  <1>5. CallsLocked(fn, locked', 0, 0)
    <2>1. CallsLocked(fn, locked, 0, 0)
      BY DEF TInv
    <2> QED BY <2>1 DEF CallsLocked
  <1>6. CallsLocked(fn', locked', 0, 0)
    BY <1>5
  <1>7. fn' \in Program /\ entry' = Enumerated(fn')
    BY DEF TInv
  <1> QED BY <1>2, <1>4, <1>6, <1>7 DEF TInv

LEMMA KeptTyped ==
    ASSUME TInv, phase = "allocate", Advance, locked \subseteq locked', locked' \subseteq Value,
           UNCHANGED <<fn, opt, entry, i, life, living, changed, fixed>>,
           NEW a, NEW v \in SeqSet(Queue), Kept(v, a)
    PROVE  TInv'
  <1>1. ASSUME NEW w \in SeqSet(Queue), at'[w].in \in {"lock", "global"}
        PROVE  at'[w].slot \in DOMAIN slots'[at'[w].in]
    <2>1. CASE w = v
      BY <2>1 DEF Kept
    <2>2. CASE w # v
      <3>1. at'[w] = at[w]
        BY <2>2 DEF Kept
      <3>2. at[w].slot \in DOMAIN slots[at[w].in]
        BY <1>1, <3>1 DEF TInv, SlotsTypeOK
      <3> QED BY <1>1, <3>1, <3>2 DEF Kept
    <2> QED BY <2>1, <2>2
  <1>2. SlotShape'
    BY DEF Kept
  <1> QED BY <1>1, <1>2, AdvanceTyped


LEMMA InstrTyped == ASSUME TInv, PropagateInstr PROVE TInv'
  <1> DEFINE ins == Ins(fn, n, i)
             T == Ended(living[n], SeqSet(ins.out)) \cup LivesBefore(ins, living[n])
  <1>1. /\ n \in DOMAIN fn.blocks /\ i \in Nat /\ i \in 1 .. Len(fn.blocks[n])
        /\ ins \in Instruction /\ living[n] \in SUBSET Value /\ entry[n] \in Nat
        /\ living' = [living EXCEPT ![n] = LivesBefore(ins, living[n])]
        /\ changed' \in BOOLEAN
        /\ locked \subseteq locked' /\ locked' \subseteq Value
        /\ ins.op = "call" => SeqSet(ins.in) \subseteq locked'
        /\ i' = i - 1
        /\ UNCHANGED <<fn, opt, entry, phase, n, fixed, slots, at>>
    BY InstrEffect
  <1>2. PICK K \in SUBSET Value :
            life' = (life \cup (T \X {entry[n] + i})) \cup (K \X {entry[n] + i + 1})
    BY InstrEffect
  <1>3. T \subseteq Value /\ LivesBefore(ins, living[n]) \in SUBSET Value
    BY <1>1, BeforeTyped
  <1>4. phase = "propagate"
    BY DEF PropagateInstr
  <1>5. /\ life \subseteq Value \X Nat /\ living \in [Blocks -> SUBSET Value]
        /\ fixed \in BOOLEAN /\ n \in Blocks /\ i \in 0 .. Len(fn.blocks[n])
        /\ CallsLocked(fn, locked, n, i) /\ fn \in Program /\ entry = Enumerated(fn)
        /\ SlotShape
        /\ \A v \in SeqSet(Queue) :
              at[v].in \in {"lock", "global"} => at[v].slot \in DOMAIN slots[at[v].in]
    BY <1>4 DEF TInv, SlotsTypeOK
  <1> HIDE DEF T
  <1>6. life' \subseteq Value \X Nat
    BY <1>1, <1>2, <1>3, <1>5
  <1>7. living' \in [Blocks -> SUBSET Value]
    BY <1>1, <1>3, <1>5
  <1>8. CallsLocked(fn, locked', n, i - 1)
    <2>1. SUFFICES ASSUME NEW b \in DOMAIN fn.blocks, NEW k \in Nat,
                          k \in 1 .. Len(fn.blocks[b]), b > n \/ (b = n /\ k > i - 1),
                          Ins(fn, b, k).op = "call"
                   PROVE  SeqSet(Ins(fn, b, k).in) \subseteq locked'
      BY DEF CallsLocked
    <2>2. CASE b = n /\ k = i
      BY <1>1, <2>1, <2>2
    <2>3. CASE ~(b = n /\ k = i)
      <3>1. b > n \/ (b = n /\ k > i)
        <4>1. b \in Nat /\ n \in Nat
          BY <1>1, <1>5, Shape
        <4> QED BY <1>1, <2>1, <2>3, <4>1
      <3>2. SeqSet(Ins(fn, b, k).in) \subseteq locked
        BY <1>5, <2>1, <3>1 DEF CallsLocked
      <3> QED BY <1>1, <3>2
    <2> QED BY <2>2, <2>3
  <1> HIDE DEF ins
  <1>9. Blocks' = Blocks /\ i' \in 0 .. Len(fn.blocks[n])
    BY <1>1 DEF Blocks
  <1>10. SlotsTypeOK'
    BY <1>1, <1>4, <1>5, <1>6, <1>7, <1>9 DEF SlotsTypeOK
  <1>11. SlotShape'
    BY <1>1, <1>5 DEF SlotShape
  <1>12. CallsLocked(fn', locked', n', i')
    BY <1>1, <1>8
  <1>13. fn' \in Program /\ entry' = Enumerated(fn') /\ phase' = "propagate"
    BY <1>1, <1>4, <1>5
  <1> QED BY <1>10, <1>11, <1>12, <1>13 DEF TInv

(* What the end of a block does, in the terms above.                       *)
LEMMA EntryEffect ==
    ASSUME TInv, PropagateEntry
    PROVE  LET c == IF n > 1 THEN n - 1 ELSE Len(fn.blocks) IN
           /\ phase = "propagate" /\ i = 0
           /\ n \in DOMAIN fn.blocks /\ c \in DOMAIN fn.blocks
           /\ living[n] \in SUBSET Value /\ entry[n] \in Nat
           /\ life' = life \cup (living[n] \X {entry[n]})
           /\ \/ /\ n' = c /\ i' = Len(fn.blocks[c]) /\ phase' = "propagate" /\ fixed' = fixed
                 /\ living' = [living EXCEPT ![c] = LivingOut(c)]
                 /\ changed' \in BOOLEAN
                 /\ ~changed' /\ n > 1 => ~changed
              \/ /\ n = 1 /\ ~changed /\ life' = life
                 /\ n' = 1 /\ phase' \in {"allocate", "done"} /\ fixed' \in BOOLEAN
                 /\ phase' = "allocate" => Queue # <<>>
                 /\ UNCHANGED <<i, living, changed>>
           /\ UNCHANGED <<fn, opt, entry, locked, slots, at>>
  <1> DEFINE c == IF n > 1 THEN n - 1 ELSE Len(fn.blocks)
             lives == life \cup (living[n] \X {entry[n]})
  <1>1. phase = "propagate" /\ i = 0
    BY DEF PropagateEntry
  <1>2. /\ n \in Blocks /\ living \in [Blocks -> SUBSET Value]
        /\ fixed \in BOOLEAN /\ changed \in BOOLEAN
        /\ fn \in Program /\ entry = Enumerated(fn)
    BY <1>1 DEF TInv, SlotsTypeOK
  <1>3. n \in DOMAIN fn.blocks /\ n \in Nat /\ 1 <= n /\ n <= Len(fn.blocks)
        /\ Len(fn.blocks) \in Nat /\ DOMAIN fn.blocks = 1 .. Len(fn.blocks)
    BY <1>2, Shape DEF Blocks
  <1>4. c \in DOMAIN fn.blocks
    BY <1>3
  <1>5. living[n] \in SUBSET Value /\ entry[n] \in Nat
    BY <1>2, <1>3, EntriesApart
  <1>6. life' = lives /\ UNCHANGED <<fn, opt, entry, locked, slots, at>>
    BY DEF PropagateEntry, Alive
  <1>7. CASE n > 1 \/ Again(lives)
    <2>1. /\ StartBlock(c) /\ changed' = (n > 1 /\ (changed \/ lives # life))
          /\ UNCHANGED <<phase, fixed>>
      BY <1>7 DEF PropagateEntry, Alive
    <2> HIDE DEF lives, c
    <2>2. /\ n' = c /\ i' = Len(fn.blocks[c]) /\ phase' = "propagate" /\ fixed' = fixed
          /\ living' = [living EXCEPT ![c] = LivingOut(c)]
          /\ changed' \in BOOLEAN
          /\ ~changed' /\ n > 1 => ~changed
      BY <1>1, <2>1 DEF StartBlock
    <2> QED BY <1>1, <1>3, <1>4, <1>5, <1>6, <2>2 DEF lives, c
  <1>8. CASE ~(n > 1 \/ Again(lives))
    <2>1. /\ n' = 1 /\ phase' = IF Queue = <<>> THEN "done" ELSE "allocate"
          /\ fixed' = ("local_temps" \notin opt \/ Uninitialized(living[1]) # {})
          /\ UNCHANGED <<i, living, changed>>
      BY <1>8 DEF PropagateEntry, Alive
    <2>2. n = 1 /\ ~changed /\ lives = life
      BY <1>3, <1>8 DEF Again
    <2> HIDE DEF lives, c
    <2>3. /\ n = 1 /\ ~changed /\ life' = life
          /\ n' = 1 /\ phase' \in {"allocate", "done"} /\ fixed' \in BOOLEAN
          /\ phase' = "allocate" => Queue # <<>>
          /\ UNCHANGED <<i, living, changed>>
      BY <1>6, <2>1, <2>2
    <2> QED BY <1>1, <1>3, <1>4, <1>5, <1>6, <2>3 DEF lives, c
  <1> QED BY <1>7, <1>8

LEMMA EntryTyped == ASSUME TInv, PropagateEntry PROVE TInv'
  <1> DEFINE c == IF n > 1 THEN n - 1 ELSE Len(fn.blocks)
  <1>1. /\ phase = "propagate" /\ i = 0
        /\ n \in DOMAIN fn.blocks /\ c \in DOMAIN fn.blocks
        /\ living[n] \in SUBSET Value /\ entry[n] \in Nat
        /\ life' = life \cup (living[n] \X {entry[n]})
        /\ \/ /\ n' = c /\ i' = Len(fn.blocks[c]) /\ phase' = "propagate" /\ fixed' = fixed
              /\ living' = [living EXCEPT ![c] = LivingOut(c)]
              /\ changed' \in BOOLEAN
              /\ ~changed' /\ n > 1 => ~changed
           \/ /\ n = 1 /\ ~changed /\ life' = life
              /\ n' = 1 /\ phase' \in {"allocate", "done"} /\ fixed' \in BOOLEAN
              /\ phase' = "allocate" => Queue # <<>>
              /\ UNCHANGED <<i, living, changed>>
        /\ UNCHANGED <<fn, opt, entry, locked, slots, at>>
    BY EntryEffect
  <1>2. /\ life \subseteq Value \X Nat /\ living \in [Blocks -> SUBSET Value]
        /\ locked \subseteq Value
        /\ changed \in BOOLEAN /\ fixed \in BOOLEAN /\ n \in Blocks
        /\ CallsLocked(fn, locked, n, 0) /\ fn \in Program /\ entry = Enumerated(fn)
        /\ SlotShape
        /\ \A v \in SeqSet(Queue) :
              at[v].in \in {"lock", "global"} => at[v].slot \in DOMAIN slots[at[v].in]
    BY <1>1 DEF TInv, SlotsTypeOK
  <1>3. life' \subseteq Value \X Nat
    BY <1>1, <1>2
  <1>4. Blocks' = Blocks /\ Blocks = DOMAIN fn.blocks /\ DOMAIN fn.blocks = 1 .. Len(fn.blocks)
        /\ Len(fn.blocks) \in Nat /\ n \in Nat
    BY <1>1, <1>2, Shape DEF Blocks
  <1>5. fn' \in Program /\ entry' = Enumerated(fn')
    BY <1>1, <1>2
  <1>6. SlotShape'
    BY <1>1, <1>2 DEF SlotShape
  <1> HIDE DEF c
  <1>7. CASE n' = c /\ i' = Len(fn.blocks[c]) /\ phase' = "propagate" /\ fixed' = fixed
             /\ living' = [living EXCEPT ![c] = LivingOut(c)] /\ changed' \in BOOLEAN
    <2>1. LivingOut(c) \subseteq Value
      <3>1. \A e \in fn.exits[c] : e \in Blocks
        BY <1>1, <1>2, <1>4, Shape
      <3> QED BY <1>2, <3>1 DEF LivingOut
    <2>2. living' \in [Blocks -> SUBSET Value]
      BY <1>2, <1>7, <2>1
    <2>3. c \in Blocks /\ i' \in 0 .. Len(fn.blocks[c])
      BY <1>1, <1>2, <1>4, <1>7, Shape
    <2>4. SlotsTypeOK'
      BY <1>1, <1>2, <1>3, <1>4, <1>7, <2>2, <2>3 DEF SlotsTypeOK
    <2>5. CallsLocked(fn, locked, c, Len(fn.blocks[c]))
      <3>1. SUFFICES ASSUME NEW b \in DOMAIN fn.blocks, NEW k \in Nat,
                            k \in 1 .. Len(fn.blocks[b]), b > c \/ (b = c /\ k > Len(fn.blocks[c])),
                            Ins(fn, b, k).op = "call"
                     PROVE  SeqSet(Ins(fn, b, k).in) \subseteq locked
        BY DEF CallsLocked
      <3>2. b > c
        BY <1>2, <3>1, Shape
      <3>3. b > n \/ (b = n /\ k > 0)
        BY <1>4, <3>1, <3>2 DEF c
      <3> QED BY <1>2, <3>1, <3>3 DEF CallsLocked
    <2>6. CallsLocked(fn', locked', n', i')
      BY <1>1, <1>7, <2>5
    <2> QED BY <1>5, <1>6, <1>7, <2>4, <2>6 DEF TInv
  <1>8. CASE n = 1 /\ n' = 1 /\ phase' \in {"allocate", "done"} /\ fixed' \in BOOLEAN
             /\ (phase' = "allocate" => Queue # <<>>) /\ UNCHANGED <<i, living, changed>>
    <2>1. phase' = "allocate" => n' \in DOMAIN Queue
      BY <1>8, QueueFacts
    <2>2. SlotsTypeOK'
      BY <1>1, <1>2, <1>3, <1>4, <1>8, <2>1 DEF SlotsTypeOK
    <2>3. CallsLocked(fn, locked, 0, 0)
      <3>1. SUFFICES ASSUME NEW b \in DOMAIN fn.blocks, NEW k \in Nat,
                            k \in 1 .. Len(fn.blocks[b]), Ins(fn, b, k).op = "call"
                     PROVE  SeqSet(Ins(fn, b, k).in) \subseteq locked
        BY DEF CallsLocked
      <3>2. b > n \/ (b = n /\ k > 0)
        BY <1>4, <1>8, <3>1
      <3> QED BY <1>2, <3>1, <3>2 DEF CallsLocked
    <2>4. CallsLocked(fn', locked', 0, 0)
      BY <1>1, <2>3
    <2> QED BY <1>5, <1>6, <1>8, <2>2, <2>4 DEF TInv
  <1> QED BY <1>1, <1>7, <1>8


LEMMA AllocateTyped ==
    ASSUME TInv,
           \/ AllocateFixed \/ AllocateUnused \/ AllocateShared
           \/ AllocateForCall \/ AllocateResult
    PROVE  /\ phase = "allocate" /\ n' = n + 1 /\ n \in Nat \ {0}
           /\ phase' \in {"allocate", "done"} /\ TInv'
  <1>1. /\ phase = "allocate" /\ Advance /\ UNCHANGED <<fn, opt, entry, i, life, living, changed, fixed>>
        /\ locked \subseteq locked'
    BY DEF AllocateFixed, AllocateUnused, AllocateShared, AllocateForCall, AllocateResult
  <1>2. /\ n \in DOMAIN Queue /\ n \in Nat \ {0} /\ Queue[n] \in SeqSet(Queue)
        /\ locked \subseteq Value /\ Queue[n] \in Value /\ fixed \in BOOLEAN /\ SlotShape
        /\ \A v \in SeqSet(Queue) :
              at[v].in \in {"lock", "global"} => at[v].slot \in DOMAIN slots[at[v].in]
    BY <1>1, QueueFacts, MemberFacts DEF TInv, SlotsTypeOK
  <1>3. n' = n + 1 /\ phase' \in {"allocate", "done"}
    BY <1>1 DEF Advance
  <1>4. \A v, lock : AllocatorOf(v, lock) \in {"lock", "global"}
    BY DEF AllocatorOf
  <1>5. CASE AllocateFixed
    <2>1. locked' = locked \cup {Queue[n]}
          /\ Alloc(AllocatorOf(Queue[n], locked'), Queue[n], fixed)
      BY <1>5 DEF AllocateFixed
    <2>2. PICK a \in {"lock", "global"} : Alloc(a, Queue[n], fixed)
      BY <1>4, <2>1
    <2>3. Kept(Queue[n], a)
      BY <1>2, <2>2, AllocKeeps
    <2>4. locked' \subseteq Value
      BY <1>2, <2>1
    <2> QED BY <1>1, <1>2, <1>3, <2>3, <2>4, KeptTyped
  <1>6. CASE AllocateShared
    <2>1. locked' = locked /\ Assign(AllocatorOf(Queue[n], locked), Queue[n])
      BY <1>6 DEF AllocateShared
    <2>2. PICK a \in {"lock", "global"} : Assign(a, Queue[n])
      BY <1>4, <2>1
    <2>3. Kept(Queue[n], a)
      BY <1>2, <2>2, AssignKeeps
    <2>4. locked' \subseteq Value
      BY <1>2, <2>1
    <2> QED BY <1>1, <1>2, <1>3, <2>3, <2>4, KeptTyped
  <1>7. ASSUME NEW place, UNCHANGED <<slots, locked>>, place.in \notin {"lock", "global"},
               at' = at \/ at' = [at EXCEPT ![Queue[n]] = place]
        PROVE  TInv'
    <2>1. SlotShape'
      BY <1>2, <1>7 DEF SlotShape
    <2>2. ASSUME NEW v \in SeqSet(Queue), at'[v].in \in {"lock", "global"}
          PROVE  at'[v].slot \in DOMAIN slots'[at'[v].in]
      <3>1. at'[v] = at[v]
        BY <1>2, <1>7, <2>2 DEF SlotShape
      <3> QED BY <1>2, <1>7, <2>2, <3>1
    <2>3. locked' \subseteq Value
      BY <1>2, <1>7
    <2> QED BY <1>1, <2>1, <2>2, <2>3, AdvanceTyped
  <1>8. CASE AllocateUnused
    <2>1. UNCHANGED <<slots, locked, at>>
      BY <1>8 DEF AllocateUnused
    <2>2. Unplaced.in \notin {"lock", "global"}
      BY DEF Unplaced
    <2> QED BY <1>1, <1>2, <1>3, <1>7, <2>1, <2>2
  <1>9. CASE AllocateForCall
    <2> DEFINE place == [in |-> "parm", slot |-> ParmOf(Queue[n])]
    <2>1. UNCHANGED <<slots, locked>> /\ at' = [at EXCEPT ![Queue[n]] = place]
      BY <1>9 DEF AllocateForCall
    <2>2. place.in \notin {"lock", "global"}
      OBVIOUS
    <2> HIDE DEF place
    <2> QED BY <1>1, <1>2, <1>3, <1>7, <2>1, <2>2
  <1>10. CASE AllocateResult
    <2> DEFINE place == [in |-> "return", slot |-> 1]
    <2>1. UNCHANGED <<slots, locked>> /\ at' = [at EXCEPT ![Queue[n]] = place]
      BY <1>10 DEF AllocateResult
    <2>2. place.in \notin {"lock", "global"}
      OBVIOUS
    <2> HIDE DEF place
    <2> QED BY <1>1, <1>2, <1>3, <1>7, <2>1, <2>2
  <1> QED BY <1>5, <1>6, <1>8, <1>9, <1>10

LEMMA StutterTyped == ASSUME TInv, UNCHANGED slotsVars PROVE TInv'
  <1>1. UNCHANGED <<fn, entry, life, living, locked, changed, phase, n, i, fixed, slots, at>>
    BY DEF slotsVars
  <1> QED BY <1>1 DEF TInv, SlotsTypeOK, SlotShape, Blocks

LEMMA TypedAlways == SlotsSpec => []TInv
  <1>1. TInv /\ [SlotsNext]_slotsVars => TInv'
    BY InstrTyped, EntryTyped, AllocateTyped, StutterTyped DEF SlotsNext
  <1> QED BY <1>1, SlotsInitTyped, PTL DEF SlotsSpec

(* Types stay right: of lives, locks, slots and where every value is.      *)
THEOREM SlotsTypeCorrect == SlotsSpec => []SlotsTypeOK
  <1>1. TInv => SlotsTypeOK
    BY DEF TInv
  <1> QED BY <1>1, TypedAlways, PTL
-----------------------------------------------------------------------------
LEMMA InstrSetIs ==
    ASSUME TInv
    PROVE  \A x : x \in InstrSet <=> /\ x = <<x[1], x[2]>> /\ x[1] \in DOMAIN fn.blocks
                                     /\ x[2] \in Nat /\ x[2] \in 1 .. Len(fn.blocks[x[1]])
  <1>1. \A b \in Blocks : DOMAIN fn.blocks[b] = 1 .. Len(fn.blocks[b])
    BY Shape DEF TInv, Blocks
  <1>2. \A b \in Blocks : \A k \in 1 .. Len(fn.blocks[b]) : k \in Nat
    BY Shape DEF TInv, Blocks
  <1> QED BY <1>1, <1>2 DEF InstrSet, Blocks

(* A value that is read once has a reader, and what counts as its reader   *)
(* reads it as an operand or a parameter.                                  *)
LEMMA ReaderReads ==
    ASSUME TInv, NEW v, Reads(v) = 1
    PROVE  LET x == ReaderOf(v) IN
           x \in InstrSet /\ v \in SeqSet(At(x).in) \cup SeqSet(At(x).params)
  <1> DEFINE x == ReaderOf(v)
  <1>1. \E y \in InstrSet : PlacesOf(Operands(At(y)), v) # {}
    <2>1. SUFFICES ASSUME \A y \in InstrSet : PlacesOf(Operands(At(y)), v) = {} PROVE FALSE
      OBVIOUS
    <2>2. UNION {{y} \X PlacesOf(Operands(At(y)), v) : y \in InstrSet} = {}
      BY <2>1
    <2>3. Reads(v) = 0
      BY <2>2, FS_EmptySet DEF Reads
    <2> QED BY <2>3
  <1>2. x \in InstrSet /\ PlacesOf(Operands(At(x)), v) # {}
    BY <1>1 DEF ReaderOf
  <1>3. PICK k \in DOMAIN Operands(At(x)) : Operands(At(x))[k] = v
    BY <1>2 DEF PlacesOf
  <1>4. At(x) \in Instruction
    BY <1>2, InstrSetIs, Shape DEF TInv, At, Ins
  <1> HIDE DEF x
  <1>5. At(x).in \in Seq(Value) /\ At(x).params \in Seq(Value)
    BY <1>4 DEF Instruction
  <1>6. v \in SeqSet(At(x).in) \cup SeqSet(At(x).params)
    <2> DEFINE s == At(x).in
               t == At(x).params
    <2>0. s \in Seq(Value) /\ t \in Seq(Value) /\ Operands(At(x)) = s \o t
      BY <1>5 DEF Operands
    <2> HIDE DEF s, t
    <2>1. /\ s \o t \in Seq(Value) /\ Len(s \o t) = Len(s) + Len(t)
          /\ \A j \in 1 .. Len(s) + Len(t) :
                (s \o t)[j] = IF j <= Len(s) THEN s[j] ELSE t[j - Len(s)]
      BY <2>0, ConcatProperties
    <2>2. /\ DOMAIN s = 1 .. Len(s) /\ DOMAIN t = 1 .. Len(t)
          /\ Len(s) \in Nat /\ Len(t) \in Nat
      BY <2>0
    <2>3. k \in 1 .. Len(s) + Len(t) /\ (s \o t)[k] = v
      BY <1>3, <2>0, <2>1
    <2>4. v \in SeqSet(s) \cup SeqSet(t)
      <3>1. CASE k <= Len(s)
        BY <2>1, <2>2, <2>3, <3>1 DEF SeqSet
      <3>2. CASE ~(k <= Len(s))
        <4>1. k - Len(s) \in 1 .. Len(t)
          BY <2>2, <2>3, <3>2
        <4> QED BY <2>1, <2>2, <2>3, <3>2, <4>1 DEF SeqSet
      <3> QED BY <3>1, <3>2
    <2> QED BY <2>4 DEF s, t
  <1> QED BY <1>2, <1>6 DEF x

(* A call's function operand is locked, so the value that an unlocked      *)
(* temporary is for is a parameter: "unlocked parameter not found" is      *)
(* never reported.                                                         *)
LEMMA ParamFound == TInv => UnlockedIsParam
  <1> SUFFICES ASSUME TInv, phase = "allocate", ~IsLocal(n), ForCall(Queue[n])
               PROVE  Queue[n] \in SeqSet(At(ReaderOf(Queue[n])).params)
    BY DEF UnlockedIsParam
  <1> DEFINE v == Queue[n]
             x == ReaderOf(v)
  <1>1. v \notin locked /\ Reads(v) = 1 /\ At(x).op \in {"call", "nrcall"}
    BY DEF ForCall, Unlocked, IsCall
  <1>2. x \in InstrSet /\ v \in SeqSet(At(x).in) \cup SeqSet(At(x).params)
    BY <1>1, ReaderReads
  <1>3. v \in SeqSet(Temp)
    <2>1. n \in DOMAIN Queue
      BY DEF TInv, SlotsTypeOK
    <2> QED BY <2>1, QueueFacts
  <1> HIDE DEF x, v
  <1>4. /\ x[1] \in DOMAIN fn.blocks /\ x[2] \in Nat
        /\ x[2] \in 1 .. Len(fn.blocks[x[1]]) /\ At(x) = Ins(fn, x[1], x[2])
        /\ x[2] \in DOMAIN fn.blocks[x[1]] /\ x[1] > 0 /\ fn \in Program
    BY <1>2, InstrSetIs, Shape DEF TInv, At, Ins
  <1>5. CASE At(x).op = "call"
    <2>1. CallsLocked(fn, locked, 0, 0)
      BY DEF TInv
    <2>2. SeqSet(At(x).in) \subseteq locked
      BY <1>4, <1>5, <2>1 DEF CallsLocked
    <2> QED BY <1>1, <1>2, <2>2 DEF v, x
  <1>6. CASE At(x).op = "nrcall"
    <2>1. SeqSet(At(x).in) \cap SeqSet(Temp) = {}
      BY <1>4, <1>6, InstructionFacts
    <2> QED BY <1>2, <1>3, <2>1 DEF v, x
  <1> QED BY <1>1, <1>5, <1>6

(* The internal error "unlocked parameter not found" is unreachable, for   *)
(* any function: what only a call reads and no call locks is one of its    *)
(* parameters, since a call locks the function it calls.                   *)
THEOREM UnlockedIsAlwaysParam == SlotsSpec => []UnlockedIsParam
  <1> QED BY TypedAlways, ParamFound, PTL
-----------------------------------------------------------------------------
(* What has been found to live at the points, tied to the variables.       *)
TiedTo(f, E, lives, now, ch, b0, k0, L) ==
    /\ Growing(f, L)
    /\ \A b \in DOMAIN f.blocks : now[b] = L[<<b, IF b = b0 THEN k0 ELSE 0>>]
    /\ Exact(f, L, b0, k0)
    /\ ~ch => Joined(f, L, b0)
    /\ Marked(f, E, lives, L, b0, k0)
    /\ Justified(f, E, lives, L)

Tied(L) == TiedTo(fn, entry, life, living, changed, n, i, L)

GInv == phase = "propagate" => \E L : Tied(L)

LEMMA TiedInit ==
    ASSUME SlotsInit
    PROVE  \E L : Tied(L) /\ \A p \in PointsOf(fn) : L[p] = {}
  <1> DEFINE L == [p \in PointsOf(fn) |-> {}]
             N == Len(fn.blocks)
  <1>1. /\ fn \in Program /\ entry = Enumerated(fn) /\ life = SeqSet(Param) \X {0}
        /\ living = [b \in Blocks |-> {}] /\ n = N /\ i = Len(fn.blocks[n])
    BY DEF SlotsInit
  <1>2. /\ N \in Nat \ {0} /\ DOMAIN fn.blocks = 1 .. N /\ n \in DOMAIN fn.blocks
        /\ \A b \in DOMAIN fn.blocks : Len(fn.blocks[b]) \in Nat /\ Len(fn.blocks[b]) >= 1
    BY <1>1, Shape
  <1>3. \A p \in PointsOf(fn) : L[p] = {}
    OBVIOUS
  <1>4. L \in [PointsOf(fn) -> SUBSET Value]
    OBVIOUS
  <1> HIDE DEF L
  <1>5. \A b \in DOMAIN fn.blocks :
            /\ L[<<b, 0>>] = {} /\ L[<<b, Len(fn.blocks[b])>>] = {}
            /\ \A k \in Nat : k \in 1 .. Len(fn.blocks[b]) =>
                  L[<<b, k>>] = {} /\ L[<<b, k - 1>>] = {}
    BY <1>1, <1>3, PointFacts
  <1>6. Growing(fn, L)
    BY <1>3, <1>4, <1>5 DEF Growing, WithOwners
  <1>7. \A b \in DOMAIN fn.blocks : living[b] = L[<<b, IF b = n THEN i ELSE 0>>]
    BY <1>1, <1>5 DEF Blocks
  <1>8. Exact(fn, L, n, i)
    <2>1. SUFFICES ASSUME NEW b \in DOMAIN fn.blocks, NEW k \in Nat,
                          k \in 1 .. Len(fn.blocks[b]), b > n \/ (b = n /\ k > i)
                   PROVE  FALSE
      BY DEF Exact
    <2> QED BY <1>1, <1>2, <2>1
  <1>9. Joined(fn, L, n)
    <2>1. \A b \in DOMAIN fn.blocks, e \in DOMAIN fn.blocks : e \in fn.exits[b] => L[<<e, 0>>] = {}
      BY <1>5
    <2>2. \A b \in DOMAIN fn.blocks : FromExits(fn, L, b) = {}
      <3>1. SUFFICES ASSUME NEW b \in DOMAIN fn.blocks, NEW v, v \in FromExits(fn, L, b)
                     PROVE  FALSE
        OBVIOUS
      <3>2. PICK e \in fn.exits[b] : v \in L[<<e, 0>>]
        BY <3>1 DEF FromExits
      <3>3. e \in DOMAIN fn.blocks
        BY <1>1, Shape
      <3> QED BY <2>1, <3>2, <3>3
    <2> QED BY <2>2 DEF Joined
  <1>10. Marked(fn, entry, life, L, n, i)
    BY <1>5 DEF Marked
  <1>11. Justified(fn, entry, life, L)
    <2>1. \A b \in DOMAIN fn.blocks : entry[b] \in Nat
      BY <1>1, EntriesApart
    <2>2. \A b \in DOMAIN fn.blocks : \A v : <<v, entry[b] + 1>> \notin life
      BY <1>1, <2>1
    <2> QED BY <2>2 DEF Justified
  <1> QED BY <1>3, <1>6, <1>7, <1>8, <1>9, <1>10, <1>11 DEF Tied, TiedTo

LEMMA TiedInstr ==
    ASSUME TInv, PropagateInstr, NEW L, Tied(L)
    PROVE  \E M : /\ TiedTo(fn', entry', life', living', changed', n', i', M)
                  /\ IsRaised(fn, L, M, <<n, i - 1>>, LivesBefore(Ins(fn, n, i), L[<<n, i>>]))
  <1>1. phase = "propagate" /\ fn \in Program /\ entry = Enumerated(fn)
        /\ living \in [Blocks -> SUBSET Value]
    BY DEF PropagateInstr, TInv, SlotsTypeOK
  <1> DEFINE ins == Ins(fn, n, i)
             B == LivesBefore(ins, living[n])
             T == Ended(living[n], SeqSet(ins.out)) \cup B
             M == Raised(L, <<n, i - 1>>, B)
  <1>3. /\ n \in DOMAIN fn.blocks /\ i \in Nat /\ i \in 1 .. Len(fn.blocks[n])
        /\ ins \in Instruction /\ living[n] \in SUBSET Value /\ entry[n] \in Nat
        /\ living' = [living EXCEPT ![n] = B]
        /\ ~changed' => ~changed /\ life' = life
        /\ i' = i - 1
        /\ UNCHANGED <<fn, opt, entry, phase, n, fixed, slots, at>>
    BY InstrEffect
  <1>4. PICK K \in SUBSET Value :
            life' = (life \cup (T \X {entry[n] + i})) \cup (K \X {entry[n] + i + 1})
    BY InstrEffect
  <1>5. /\ Growing(fn, L)
        /\ \A b \in DOMAIN fn.blocks : living[b] = L[<<b, IF b = n THEN i ELSE 0>>]
        /\ Exact(fn, L, n, i) /\ (~changed => Joined(fn, L, n))
        /\ Marked(fn, entry, life, L, n, i) /\ Justified(fn, entry, life, L)
    BY DEF Tied, TiedTo
  <1>6. living[n] = L[<<n, i>>] /\ \A b \in DOMAIN fn.blocks : b # n => living[b] = L[<<b, 0>>]
    BY <1>3, <1>5
  <1>7. B = LivesBefore(ins, L[<<n, i>>])
    BY <1>6
  <1>8. IsRaised(fn, L, M, <<n, i - 1>>, B)
    BY <1>1, <1>3, <1>5, <1>7, RaiseBefore
  <1>9. /\ Growing(fn, M) /\ More(fn, L, M) /\ M[<<n, i - 1>>] = B
        /\ \A q \in PointsOf(fn) : q # <<n, i - 1>> => M[q] = L[q]
    BY <1>8 DEF IsRaised
  <1>10. Begun(ins) \subseteq B /\ T \subseteq B \cup Touched(SeqSet(ins.out))
         /\ (living[n] \cup B) \subseteq T
    BY <1>3, BeforeTyped, EndedTouched DEF LivesBefore
  <1> HIDE DEF M
  <1>11. \A b \in DOMAIN fn.blocks : living'[b] = M[<<b, IF b = n THEN i - 1 ELSE 0>>]
    <2> TAKE b \in DOMAIN fn.blocks
    <2>1. CASE b = n
      BY <1>1, <1>3, <1>9, <2>1 DEF Blocks
    <2>2. CASE b # n
      <3>1. <<b, 0>> \in PointsOf(fn) /\ <<b, 0>> # <<n, i - 1>>
        BY <1>1, <2>2, PointFacts
      <3> QED BY <1>1, <1>3, <1>6, <1>9, <2>2, <3>1 DEF Blocks
    <2> QED BY <2>1, <2>2
  <1>12. Exact(fn, M, n, i - 1)
    BY <1>1, <1>3, <1>5, <1>7, <1>8, ExactStep
  <1>13. Marked(fn, entry, life', M, n, i - 1)
    <2>1. life \subseteq life' /\ (L[<<n, i>>] \cup B) \X {entry[n] + i} \subseteq life'
      <3> HIDE DEF B, T
      <3> QED BY <1>4, <1>6, <1>10
    <2> QED BY <1>1, <1>3, <1>5, <1>8, <2>1, MarkedStep
  <1>14. Justified(fn, entry, life', M)
    <2> HIDE DEF B, T
    <2> QED BY <1>1, <1>3, <1>4, <1>5, <1>8, <1>10, JustifiedStep DEF ins
  <1>15. ASSUME ~changed' PROVE Joined(fn, M, n)
    <2>1. ~changed /\ life' = life
      BY <1>3, <1>15
    <2>2. ASSUME i = 1 PROVE B \subseteq L[<<n, 0>>]
      <3>1. B \X {entry[n] + 1} \subseteq life
        BY <1>4, <1>10, <2>1, <2>2
      <3>2. ins = Ins(fn, n, 1)
        BY <2>2
      <3>3. LivesBefore(Ins(fn, n, 1), living[n]) \X {entry[n] + 1} \subseteq life
        BY <3>1, <3>2
      <3>4. LivesBefore(Ins(fn, n, 1), living[n]) \subseteq L[<<n, 0>>]
        BY <1>1, <1>3, <1>5, <3>3, NothingNewAtEntry
      <3> QED BY <3>2, <3>4
    <2> HIDE DEF B
    <2> QED BY <1>1, <1>3, <1>5, <1>8, <2>1, <2>2, JoinedStep
  <1>15a. IsRaised(fn, L, M, <<n, i - 1>>, LivesBefore(Ins(fn, n, i), L[<<n, i>>]))
    BY <1>7, <1>8
  <1> HIDE DEF B, T, ins
  <1>16. TiedTo(fn, entry, life', living', changed', n, i - 1, M)
    BY <1>9, <1>11, <1>12, <1>13, <1>14, <1>15 DEF TiedTo
  <1>17. fn' = fn /\ entry' = entry /\ n' = n /\ i' = i - 1
    BY <1>3
  <1>18. TiedTo(fn', entry', life', living', changed', n', i', M)
    BY <1>16, <1>17
  <1> QED BY <1>15a, <1>18

(* All points are marked once the entry is.                                *)
LEMMA EntryMarks ==
    ASSUME NEW f \in Program, NEW b \in DOMAIN f.blocks, NEW E, NEW lives, NEW lives2, NEW L,
           Marked(f, E, lives, L, b, 0), lives \subseteq lives2,
           L[<<b, 0>>] \X {E[b]} \subseteq lives2
    PROVE  Marked(f, E, lives2, L, 0, 0)
  <1>1. ASSUME NEW c \in DOMAIN f.blocks, NEW k \in Nat, k \in 1 .. Len(f.blocks[c])
        PROVE  /\ L[<<c, k - 1>>] \X {E[c] + k} \subseteq lives2
               /\ L[<<c, k>>] \X {E[c] + k} \subseteq lives2
    <2>1. <<c, k>> # <<b, 0>>
      BY <1>1
    <2> QED BY <1>1, <2>1 DEF Marked
  <1>2. ASSUME NEW c \in DOMAIN f.blocks PROVE L[<<c, 0>>] \X {E[c]} \subseteq lives2
    <2>1. CASE c = b
      BY <2>1
    <2>2. CASE c # b
      <3>1. <<c, 0>> # <<b, 0>>
        BY <2>2
      <3> QED BY <3>1 DEF Marked
    <2> QED BY <2>1, <2>2
  <1> QED BY <1>1, <1>2 DEF Marked

LEMMA TiedEntry ==
    ASSUME TInv, PropagateEntry, NEW L, Tied(L)
    PROVE  LET c == IF n > 1 THEN n - 1 ELSE Len(fn.blocks) IN
           \/ /\ phase' = "propagate" /\ c \in DOMAIN fn.blocks
              /\ n' = c /\ i' = Len(fn.blocks[c])
              /\ \E M : /\ TiedTo(fn', entry', life', living', changed', n', i', M)
                        /\ IsRaised(fn, L, M, <<c, Len(fn.blocks[c])>>, FromExits(fn, L, c))
           \/ /\ phase' # "propagate" /\ Solved(fn, entry, life, L) /\ life' = life
  <1> DEFINE c == IF n > 1 THEN n - 1 ELSE Len(fn.blocks)
             Result ==
                \/ /\ phase' = "propagate" /\ c \in DOMAIN fn.blocks
                   /\ n' = c /\ i' = Len(fn.blocks[c])
                   /\ \E M : /\ TiedTo(fn', entry', life', living', changed', n', i', M)
                             /\ IsRaised(fn, L, M, <<c, Len(fn.blocks[c])>>, FromExits(fn, L, c))
                \/ /\ phase' # "propagate" /\ Solved(fn, entry, life, L) /\ life' = life
  <1>0. SUFFICES Result
    OBVIOUS
  <1>1. /\ phase = "propagate" /\ i = 0
        /\ n \in DOMAIN fn.blocks /\ c \in DOMAIN fn.blocks
        /\ life' = life \cup (living[n] \X {entry[n]})
        /\ \/ /\ n' = c /\ i' = Len(fn.blocks[c]) /\ phase' = "propagate"
              /\ living' = [living EXCEPT ![c] = LivingOut(c)]
              /\ ~changed' /\ n > 1 => ~changed
           \/ /\ n = 1 /\ ~changed /\ life' = life
              /\ n' = 1 /\ phase' \in {"allocate", "done"}
        /\ UNCHANGED <<fn, entry>>
    BY EntryEffect
  <1>2. fn \in Program /\ entry = Enumerated(fn) /\ living \in [Blocks -> SUBSET Value]
    BY DEF TInv, SlotsTypeOK
  <1>4. /\ Growing(fn, L)
        /\ \A b \in DOMAIN fn.blocks : living[b] = L[<<b, 0>>]
        /\ Exact(fn, L, n, 0) /\ (~changed => Joined(fn, L, n))
        /\ Marked(fn, entry, life, L, n, 0) /\ Justified(fn, entry, life, L)
    BY <1>1 DEF Tied, TiedTo
  <1>5. Marked(fn, entry, life', L, 0, 0)
    <2>1. life \subseteq life' /\ L[<<n, 0>>] \X {entry[n]} \subseteq life'
      BY <1>1, <1>4
    <2> QED BY <1>1, <1>2, <1>4, <2>1, EntryMarks
  <1>6. Justified(fn, entry, life', L)
    BY <1>1, <1>2, <1>4, JustifiedEntry
  <1>7. CASE n' = c /\ i' = Len(fn.blocks[c]) /\ phase' = "propagate"
             /\ living' = [living EXCEPT ![c] = LivingOut(c)] /\ (~changed' /\ n > 1 => ~changed)
    <2> DEFINE p == <<c, Len(fn.blocks[c])>>
               O == FromExits(fn, L, c)
               M == Raised(L, p, O)
    <2>1. IsRaised(fn, L, M, p, O)
      BY <1>1, <1>2, <1>4, RaiseEnd
    <2>2. Growing(fn, M) /\ More(fn, L, M) /\ M[p] = O
      BY <2>1 DEF IsRaised
    <2> HIDE DEF M
    <2>3. /\ \A e \in DOMAIN fn.blocks : M[<<e, 0>>] = L[<<e, 0>>]
          /\ Exact(fn, M, c, Len(fn.blocks[c]))
          /\ (n > 1 => Joined(fn, L, n)) => Joined(fn, M, c)
          /\ \A E, lives : Marked(fn, E, lives, L, 0, 0) =>
                               Marked(fn, E, lives, M, c, Len(fn.blocks[c]))
      <3>1. fn \in Program /\ n \in DOMAIN fn.blocks /\ c \in DOMAIN fn.blocks
        BY <1>1, <1>2
      <3>2. Exact(fn, L, n, 0)
        BY <1>4
      <3>3. c = IF n > 1 THEN n - 1 ELSE Len(fn.blocks)
        OBVIOUS
      <3> HIDE DEF c, p, O
      <3>4. p = <<c, Len(fn.blocks[c])>> /\ O = FromExits(fn, L, c)
        BY DEF p, O
      <3>5. IsRaised(fn, L, M, <<c, Len(fn.blocks[c])>>, FromExits(fn, L, c))
        BY <2>1, <3>4, Zenon
      <3> QED BY <3>1, <3>2, <3>3, <3>5, StartsBlock, ZenonT(30)
    <2>4. LivingOut(c) = O
      <3>1. \A e \in fn.exits[c] : e \in DOMAIN fn.blocks
        BY <1>1, <1>2, Shape
      <3>2. \A e \in fn.exits[c] \ {c} : living[e] = L[<<e, 0>>]
        BY <1>4, <3>1
      <3> DEFINE S == fn.exits[c] \ {c}
      <3>3. LivingOut(c) = UNION {living[e] : e \in S} /\ O = UNION {L[<<e, 0>>] : e \in S}
        BY DEF LivingOut, FromExits
      <3> HIDE DEF S
      <3>4. \A e \in S : living[e] = L[<<e, 0>>]
        BY <3>2 DEF S
      <3>5. {living[e] : e \in S} = {L[<<e, 0>>] : e \in S}
        BY <3>4
      <3> QED BY <3>3, <3>5
    <2> HIDE DEF c
    <2>5. \A b \in DOMAIN fn.blocks :
              living'[b] = M[<<b, IF b = c THEN Len(fn.blocks[c]) ELSE 0>>]
      BY <1>1, <1>2, <1>4, <1>7, <2>2, <2>3, <2>4 DEF Blocks
    <2>6. Marked(fn, entry, life', M, c, Len(fn.blocks[c]))
      BY <1>5, <2>3
    <2>7. Justified(fn, entry, life', M)
      BY <1>2, <1>6, <2>2, JustifiedMore
    <2>8. ~changed' => Joined(fn, M, c)
      BY <1>4, <1>7, <2>3
    <2> HIDE DEF p, O
    <2>9. TiedTo(fn, entry, life', living', changed', c, Len(fn.blocks[c]), M)
      BY <2>2, <2>3, <2>5, <2>6, <2>7, <2>8 DEF TiedTo
    <2>10. TiedTo(fn', entry', life', living', changed', n', i', M)
      BY <1>1, <1>7, <2>9
    <2>12. IsRaised(fn, L, M, <<c, Len(fn.blocks[c])>>, FromExits(fn, L, c))
      BY <2>1 DEF p, O
    <2> QED BY <1>1, <1>7, <2>10, <2>12
  <1>8. CASE n = 1 /\ ~changed /\ life' = life /\ phase' \in {"allocate", "done"}
    <2>1. Exact(fn, L, 0, 0)
      <3>1. SUFFICES ASSUME NEW b \in DOMAIN fn.blocks, NEW k \in Nat,
                            k \in 1 .. Len(fn.blocks[b])
                     PROVE  LivesBefore(Ins(fn, b, k), L[<<b, k>>]) \subseteq L[<<b, k - 1>>]
        BY DEF Exact
      <3>2. b > n \/ (b = n /\ k > 0)
        BY <1>2, <1>8, <3>1, Shape
      <3> QED BY <1>4, <3>1, <3>2 DEF Exact
    <2>2. Joined(fn, L, 0)
      <3>1. Joined(fn, L, 1)
        BY <1>4, <1>8
      <3>2. \A b \in DOMAIN fn.blocks : b >= 1
        BY <1>2, Shape
      <3> QED BY <3>1, <3>2 DEF Joined
    <2>3. Solved(fn, entry, life, L)
      BY <1>5, <1>8, <2>1, <2>2 DEF Solved
    <2> QED BY <1>8, <2>3
  <1> QED BY <1>1, <1>7, <1>8

LEMMA CoverInit == SlotsInit => LivesCoverNeeds
  BY DEF SlotsInit, LivesCoverNeeds, Settled

(* When the passes have ended.                                             *)
LEMMA SolvedCovers ==
    ASSUME NoSelfLoops, TInv, \E L : Solved(fn, entry, life, L)
    PROVE  /\ \A x \in InstrSet : \A w \in Needed(x) : <<w[1], Eid(x[1], x[2])>> \in life
           /\ \A w \in Words : \A b \in NeededOnEntry(fn, w) :
                 {<<w[1], entry[b]>>, <<w[1], Eid(b, 1)>>} \subseteq life
  <1>1. fn \in Program
    BY DEF TInv
  <1>2. PICK L : Solved(fn, entry, life, L)
    OBVIOUS
  <1>3. /\ \A b \in DOMAIN fn.blocks, k \in Nat : k \in 1 .. Len(fn.blocks[b]) =>
               \A w \in Words : NeededAfter(fn, b, k, w) => <<w[1], entry[b] + k>> \in life
        /\ \A w \in Words : \A b \in NeededOnEntry(fn, w) :
               {<<w[1], entry[b]>>, <<w[1], entry[b] + 1>>} \subseteq life
    BY <1>1, <1>2, SolutionCovers
  <1>4. ASSUME NEW x \in InstrSet, NEW w \in Needed(x)
        PROVE  <<w[1], Eid(x[1], x[2])>> \in life
    <2>1. x[1] \in DOMAIN fn.blocks /\ x[2] \in Nat /\ x[2] \in 1 .. Len(fn.blocks[x[1]])
      BY InstrSetIs
    <2>2. w \in Words /\ NeededAfter(fn, x[1], x[2], w)
      BY DEF Needed
    <2> QED BY <1>3, <2>1, <2>2 DEF Eid
  <1> QED BY <1>3, <1>4 DEF Eid

LEMMA CoverNext ==
    ASSUME NoSelfLoops, TInv, GInv, LivesCoverNeeds, [SlotsNext]_slotsVars
    PROVE  GInv' /\ LivesCoverNeeds'
  <1>1. CASE PropagateInstr
    <2>1. GInv'
      <3>1. PICK L : Tied(L)
        BY <1>1 DEF GInv, PropagateInstr
      <3>2. \E M : TiedTo(fn', entry', life', living', changed', n', i', M)
        BY <1>1, <3>1, TiedInstr
      <3> QED BY <3>2 DEF GInv, Tied
    <2>2. phase' = "propagate"
      BY <1>1 DEF PropagateInstr
    <2> QED BY <2>1, <2>2 DEF LivesCoverNeeds, Settled
  <1>2. CASE PropagateEntry
    <2>1. GInv' /\ (phase' # "propagate" => \E L : Solved(fn, entry, life, L) /\ life' = life)
      <3>1. PICK L : Tied(L)
        BY <1>2 DEF GInv, PropagateEntry
      <3>2. \/ phase' = "propagate" /\ \E M : TiedTo(fn', entry', life', living', changed', n', i', M)
            \/ phase' # "propagate" /\ Solved(fn, entry, life, L) /\ life' = life
        BY <1>2, <3>1, TiedEntry
      <3> QED BY <3>2 DEF GInv, Tied
    <2>2. CASE phase' = "propagate"
      BY <2>1, <2>2 DEF LivesCoverNeeds, Settled
    <2>3. CASE phase' # "propagate"
      <3>1. life' = life /\ \E L : Solved(fn, entry, life, L)
        BY <2>1, <2>3
      <3>2. fn' = fn /\ entry' = entry
        BY <1>2 DEF PropagateEntry
      <3>5. /\ \A x \in InstrSet : \A w \in Needed(x) : <<w[1], Eid(x[1], x[2])>> \in life
            /\ \A w \in Words : \A b \in NeededOnEntry(fn, w) :
                  {<<w[1], entry[b]>>, <<w[1], Eid(b, 1)>>} \subseteq life
        BY <3>1, SolvedCovers
      <3>6. InstrSet' = InstrSet /\ (\A x : Needed(x)' = Needed(x))
            /\ \A b, k : Eid(b, k)' = Eid(b, k)
        BY <3>2 DEF InstrSet, Needed, Eid, Blocks
      <3> QED BY <2>1, <3>1, <3>2, <3>5, <3>6 DEF LivesCoverNeeds
    <2> QED BY <2>2, <2>3
  <1>3. CASE \/ AllocateFixed \/ AllocateUnused \/ AllocateShared
             \/ AllocateForCall \/ AllocateResult
    <2>1. n' = n + 1 /\ n \in Nat \ {0} /\ phase' \in {"allocate", "done"}
      BY <1>3, AllocateTyped
    <2>2. n' # 1
      BY <2>1
    <2> QED BY <2>1, <2>2 DEF GInv, LivesCoverNeeds, Settled
  <1>4. CASE UNCHANGED slotsVars
    <2>1. UNCHANGED <<fn, entry, life, living, changed, phase, n, i>>
      BY <1>4 DEF slotsVars
    <2>2. GInv'
      BY <2>1 DEF GInv, Tied, TiedTo
    <2>3. InstrSet' = InstrSet /\ (\A x : Needed(x)' = Needed(x))
          /\ (\A b, k : Eid(b, k)' = Eid(b, k))
      BY <2>1 DEF InstrSet, Needed, Eid, Blocks
    <2>4. LivesCoverNeeds'
      BY <2>1, <2>3 DEF LivesCoverNeeds, Settled
    <2> QED BY <2>2, <2>4
  <1> QED BY <1>1, <1>2, <1>3, <1>4 DEF SlotsNext

(* The lives that the passes over the blocks end with cover every need, in *)
(* every function, whatever its branches and loops, in which no block is   *)
(* its own exit (ir_function_calculate_liferanges).                        *)
THEOREM LivesAlwaysCover == NoSelfLoops => (SlotsSpec => []LivesCoverNeeds)
  <1> SUFFICES ASSUME NoSelfLoops PROVE SlotsSpec => []LivesCoverNeeds
    OBVIOUS
  <1>1. SlotsInit => GInv /\ LivesCoverNeeds
    BY TiedInit, CoverInit DEF GInv
  <1>2. TInv /\ (GInv /\ LivesCoverNeeds) /\ [SlotsNext]_slotsVars => (GInv /\ LivesCoverNeeds)'
    BY CoverNext
  <1> QED BY <1>1, <1>2, TypedAlways, PTL DEF SlotsSpec
=============================================================================
