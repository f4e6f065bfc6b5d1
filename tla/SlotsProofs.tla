----------------------------- MODULE SlotsProofs -----------------------------
(***************************************************************************)
(* Proofs about where values are kept, for any functions, values and       *)
(* vector size: no word is overwritten that is still needed.               *)
(*                                                                         *)
(* Three invariants build on each other.  BackedInv says why anything is   *)
(* marked as alive, and what is marked or locked besides what lives, by    *)
(* the solution L of module LivenessProofs.  From it, two values in a slot *)
(* are never alive together but at the ends of their ranges: PlacedInv,    *)
(* which says where each value is.  An instruction's result and what is    *)
(* needed beyond it are not of that kind, so they are in different words.  *)
(***************************************************************************)
EXTENDS LivenessProofs, LifeRangesProofs

(* What is marked, and what is locked, besides what lives.                 *)
KeptOf(ins) == ins.kept \cup UNION {OwnersOf(v) : v \in ins.kept}

(* The instructions that this pass has seen marked what they write, and    *)
(* behind them what they keep.                                             *)
Effects(f, E, lives, b0, i0) ==
    \A b \in DOMAIN f.blocks, k \in Nat :
       k \in 1 .. Len(f.blocks[b]) /\ (b > b0 \/ (b = b0 /\ k > i0)) =>
          /\ SeqSet(Ins(f, b, k).out) \X {E[b] + k} \subseteq lives
          /\ KeptOf(Ins(f, b, k)) \X {E[b] + k + 1} \subseteq lives

(* A call locks what lives across it, once it has been looked at.          *)
CallsHold(f, lock, L, b0, i0) ==
    \A b \in DOMAIN f.blocks, k \in Nat :
       k \in 1 .. Len(f.blocks[b]) /\ <<b, k>> # <<b0, i0>> /\ Ins(f, b, k).op = "call" =>
          LivesBehind(Ins(f, b, k), L[<<b, k>>]) \subseteq lock

(* Nothing is marked without a reason.                                     *)
Reason(f, E, lives, L, v, s) ==
    \/ v \in SeqSet(Param) /\ s = 0
    \/ \E b \in DOMAIN f.blocks : s = E[b] /\ v \in L[<<b, 0>>]
    \/ \E b \in DOMAIN f.blocks, k \in Nat :
          /\ k \in 1 .. Len(f.blocks[b]) /\ s = E[b] + k
          /\ v \in L[<<b, k - 1>>] \/ v \in Touched(SeqSet(Ins(f, b, k).out))
    \/ \E b \in DOMAIN f.blocks, k \in Nat :
          /\ k \in 1 .. Len(f.blocks[b]) /\ s = E[b] + k + 1 /\ <<v, E[b] + k>> \in lives

Reasoned(f, E, lives, L) ==
    \A v, s : <<v, s>> \in lives => Reason(f, E, lives, L, v, s)

Backed(f, E, lives, lock, L, b0, i0) ==
    Effects(f, E, lives, b0, i0) /\ CallsHold(f, lock, L, b0, i0) /\ Reasoned(f, E, lives, L)

(* A reason stays one when more is marked and the solution grows.          *)
LEMMA ReasonMore ==
    ASSUME NEW f \in Program, NEW L, NEW M, More(f, L, M), NEW E,
           NEW lives, NEW lives2, lives \subseteq lives2, NEW v, NEW s,
           Reason(f, E, lives, L, v, s)
    PROVE  Reason(f, E, lives2, M, v, s)
  <1>1. \A b \in DOMAIN f.blocks : L[<<b, 0>>] \subseteq M[<<b, 0>>]
    BY PointFacts DEF More
  <1>2. \A b \in DOMAIN f.blocks, k \in Nat : k \in 1 .. Len(f.blocks[b]) =>
            L[<<b, k - 1>>] \subseteq M[<<b, k - 1>>]
    BY PointFacts DEF More
  <1>3. CASE v \in SeqSet(Param) /\ s = 0
    BY <1>3 DEF Reason
  <1>4. CASE \E b \in DOMAIN f.blocks : s = E[b] /\ v \in L[<<b, 0>>]
    BY <1>1, <1>4 DEF Reason
  <1>5. CASE \E b \in DOMAIN f.blocks, k \in Nat :
                /\ k \in 1 .. Len(f.blocks[b]) /\ s = E[b] + k
                /\ v \in L[<<b, k - 1>>] \/ v \in Touched(SeqSet(Ins(f, b, k).out))
    <2>1. PICK b \in DOMAIN f.blocks, k \in Nat :
                /\ k \in 1 .. Len(f.blocks[b]) /\ s = E[b] + k
                /\ v \in L[<<b, k - 1>>] \/ v \in Touched(SeqSet(Ins(f, b, k).out))
      BY <1>5
    <2>2. v \in M[<<b, k - 1>>] \/ v \in Touched(SeqSet(Ins(f, b, k).out))
      BY <1>2, <2>1
    <2> QED BY <2>1, <2>2, Zenon DEF Reason
  <1>6. CASE \E b \in DOMAIN f.blocks, k \in Nat :
                /\ k \in 1 .. Len(f.blocks[b]) /\ s = E[b] + k + 1
                /\ <<v, E[b] + k>> \in lives
    <2>1. PICK b \in DOMAIN f.blocks, k \in Nat :
                /\ k \in 1 .. Len(f.blocks[b]) /\ s = E[b] + k + 1
                /\ <<v, E[b] + k>> \in lives
      BY <1>6
    <2>2. <<v, E[b] + k>> \in lives2
      BY <2>1
    <2> QED BY <2>1, <2>2, Zenon DEF Reason
  <1> QED BY <1>3, <1>4, <1>5, <1>6 DEF Reason

(* What an instruction with the id s marks and locks: S lives before it.   *)
Marks(ins, s, alive, S, lives, lives2, lock, lock2) ==
    \E T : /\ lives2 = (lives \cup (T \X {s})) \cup (KeptOf(ins) \X {s + 1})
           /\ S \subseteq T /\ SeqSet(ins.out) \subseteq T
           /\ T \subseteq S \cup Touched(SeqSet(ins.out))
           /\ KeptOf(ins) \subseteq S /\ lock \subseteq lock2
           /\ ins.op = "call" => LivesBehind(ins, alive) \subseteq lock2

(* An instruction marks its life and what it keeps, and is now among those *)
(* the pass has seen.                                                      *)
LEMMA BackedStep ==
    ASSUME NEW f \in Program, NEW L, NEW M, NEW b \in DOMAIN f.blocks,
           NEW k \in Nat, k \in 1 .. Len(f.blocks[b]), NEW S, NEW E,
           NEW lives, NEW lives2, NEW lock, NEW lock2,
           IsRaised(f, L, M, <<b, k - 1>>, S), Backed(f, E, lives, lock, L, b, k),
           Marks(Ins(f, b, k), E[b] + k, L[<<b, k>>], S, lives, lives2, lock, lock2)
    PROVE  Backed(f, E, lives2, lock2, M, b, k - 1)
  <1> PICK T :
        /\ lives2 = (lives \cup (T \X {E[b] + k})) \cup (KeptOf(Ins(f, b, k)) \X {E[b] + k + 1})
        /\ S \subseteq T /\ SeqSet(Ins(f, b, k).out) \subseteq T
        /\ T \subseteq S \cup Touched(SeqSet(Ins(f, b, k).out))
        /\ KeptOf(Ins(f, b, k)) \subseteq S /\ lock \subseteq lock2
        /\ Ins(f, b, k).op = "call" => LivesBehind(Ins(f, b, k), L[<<b, k>>]) \subseteq lock2
    BY DEF Marks
  <1> DEFINE K == KeptOf(Ins(f, b, k))
  <1>1. /\ More(f, L, M) /\ M[<<b, k - 1>>] = S
        /\ \A q \in PointsOf(f) : q # <<b, k - 1>> => M[q] = L[q]
    BY DEF IsRaised
  <1>2. Effects(f, E, lives2, b, k - 1)
    <2>1. SUFFICES ASSUME NEW c \in DOMAIN f.blocks, NEW j \in Nat, j \in 1 .. Len(f.blocks[c]),
                          c > b \/ (c = b /\ j > k - 1)
                   PROVE  /\ SeqSet(Ins(f, c, j).out) \X {E[c] + j} \subseteq lives2
                          /\ KeptOf(Ins(f, c, j)) \X {E[c] + j + 1} \subseteq lives2
      BY DEF Effects
    <2>2. CASE c = b /\ j = k
      BY <2>2
    <2>3. CASE ~(c = b /\ j = k)
      <3>1. b \in Nat /\ c \in Nat
        BY Shape
      <3>2. c > b \/ (c = b /\ j > k)
        BY <2>1, <2>3, <3>1
      <3> QED BY <2>1, <3>2 DEF Backed, Effects
    <2> QED BY <2>2, <2>3
  <1>3. CallsHold(f, lock2, M, b, k - 1)
    <2>1. SUFFICES ASSUME NEW c \in DOMAIN f.blocks, NEW j \in Nat, j \in 1 .. Len(f.blocks[c]),
                          <<c, j>> # <<b, k - 1>>, Ins(f, c, j).op = "call"
                   PROVE  LivesBehind(Ins(f, c, j), M[<<c, j>>]) \subseteq lock2
      BY DEF CallsHold
    <2>2. M[<<c, j>>] = L[<<c, j>>]
      BY <1>1, <2>1, PointFacts
    <2>3. CASE <<c, j>> = <<b, k>>
      BY <2>1, <2>2, <2>3
    <2>4. CASE <<c, j>> # <<b, k>>
      BY <2>1, <2>2, <2>4 DEF Backed, CallsHold
    <2> QED BY <2>3, <2>4
  <1>4. Reasoned(f, E, lives2, M)
    <2>1. SUFFICES ASSUME NEW v, NEW s, <<v, s>> \in lives2
                   PROVE  Reason(f, E, lives2, M, v, s)
      BY DEF Reasoned
    <2>2. CASE <<v, s>> \in lives
      <3>1. Reason(f, E, lives, L, v, s)
        BY <2>2 DEF Backed, Reasoned
      <3> QED BY <1>1, <3>1, ReasonMore
    <2>3. CASE v \in T /\ s = E[b] + k
      <3>1. v \in M[<<b, k - 1>>] \/ v \in Touched(SeqSet(Ins(f, b, k).out))
        BY <1>1, <2>3
      <3> QED BY <2>3, <3>1, Zenon DEF Reason
    <2>4. CASE v \in K /\ s = E[b] + k + 1
      <3>1. <<v, E[b] + k>> \in lives2
        BY <2>4
      <3> QED BY <2>4, <3>1, Zenon DEF Reason
    <2> QED BY <2>1, <2>2, <2>3, <2>4
  <1> QED BY <1>2, <1>3, <1>4 DEF Backed

(* A block's entry is marked; then another block's end is looked at.       *)
LEMMA BackedEntry ==
    ASSUME NEW f \in Program, NEW L, NEW b \in DOMAIN f.blocks, NEW E,
           NEW lives, NEW lock, Backed(f, E, lives, lock, L, b, 0)
    PROVE  Backed(f, E, lives \cup (L[<<b, 0>>] \X {E[b]}), lock, L, b, 0)
  <1> DEFINE lives2 == lives \cup (L[<<b, 0>>] \X {E[b]})
  <1>1. Effects(f, E, lives2, b, 0)
    BY DEF Backed, Effects
  <1>2. Reasoned(f, E, lives2, L)
    <2>1. SUFFICES ASSUME NEW v, NEW s, <<v, s>> \in lives2
                   PROVE  Reason(f, E, lives2, L, v, s)
      BY DEF Reasoned
    <2>2. CASE <<v, s>> \in lives
      <3>1. Reason(f, E, lives, L, v, s)
        BY <2>2 DEF Backed, Reasoned
      <3>2. More(f, L, L) /\ lives \subseteq lives2
        BY DEF More
      <3> HIDE DEF lives2
      <3> QED BY <3>1, <3>2, ReasonMore
    <2>3. CASE v \in L[<<b, 0>>] /\ s = E[b]
      BY <2>3 DEF Reason
    <2> QED BY <2>1, <2>2, <2>3
  <1> QED BY <1>1, <1>2 DEF Backed

(* The pass goes on to another block, from its end.                        *)
LEMMA BackedTurn ==
    ASSUME NEW f \in Program, NEW L, NEW M, NEW b \in DOMAIN f.blocks, NEW E,
           NEW lives, NEW lock, Backed(f, E, lives, lock, L, b, 0), NEW c \in DOMAIN f.blocks,
           c = IF b > 1 THEN b - 1 ELSE Len(f.blocks), NEW S,
           IsRaised(f, L, M, <<c, Len(f.blocks[c])>>, S)
    PROVE  Backed(f, E, lives, lock, M, c, Len(f.blocks[c]))
  <1>1. /\ More(f, L, M)
        /\ \A q \in PointsOf(f) : q # <<c, Len(f.blocks[c])>> => M[q] = L[q]
    BY DEF IsRaised
  <1>2. Effects(f, E, lives, c, Len(f.blocks[c]))
    <2>1. SUFFICES ASSUME NEW d \in DOMAIN f.blocks, NEW j \in Nat, j \in 1 .. Len(f.blocks[d]),
                          d > c \/ (d = c /\ j > Len(f.blocks[c]))
                   PROVE  /\ SeqSet(Ins(f, d, j).out) \X {E[d] + j} \subseteq lives
                          /\ KeptOf(Ins(f, d, j)) \X {E[d] + j + 1} \subseteq lives
      BY DEF Effects
    <2>2. b \in Nat /\ d \in Nat /\ d <= Len(f.blocks) /\ Len(f.blocks) \in Nat
      <3>1. DOMAIN f.blocks = 1 .. Len(f.blocks) /\ Len(f.blocks) \in Nat
        BY Shape
      <3> QED BY <3>1
    <2>3. d > b \/ (d = b /\ j > 0)
      <3>1. d > c
        BY <2>1
      <3> QED BY <2>1, <2>2, <3>1
    <2> QED BY <2>1, <2>3 DEF Backed, Effects
  <1>3. CallsHold(f, lock, M, c, Len(f.blocks[c]))
    <2>1. SUFFICES ASSUME NEW d \in DOMAIN f.blocks, NEW j \in Nat, j \in 1 .. Len(f.blocks[d]),
                          <<d, j>> # <<c, Len(f.blocks[c])>>, Ins(f, d, j).op = "call"
                   PROVE  LivesBehind(Ins(f, d, j), M[<<d, j>>]) \subseteq lock
      BY DEF CallsHold
    <2>2. M[<<d, j>>] = L[<<d, j>>]
      BY <1>1, <2>1, PointFacts
    <2>3. <<d, j>> # <<b, 0>>
      BY <2>1
    <2> QED BY <2>1, <2>2, <2>3 DEF Backed, CallsHold
  <1>4. Reasoned(f, E, lives, M)
    <2>1. SUFFICES ASSUME NEW v, NEW s, <<v, s>> \in lives
                   PROVE  Reason(f, E, lives, M, v, s)
      BY DEF Reasoned
    <2>2. Reason(f, E, lives, L, v, s)
      BY <2>1 DEF Backed, Reasoned
    <2> QED BY <1>1, <2>2, ReasonMore
  <1> QED BY <1>2, <1>3, <1>4 DEF Backed

(* A pass that has seen block 1 has seen all of them.                      *)
LEMMA BackedEnd ==
    ASSUME NEW f \in Program, NEW L, NEW E, NEW lives, NEW lock,
           Backed(f, E, lives, lock, L, 1, 0)
    PROVE  Backed(f, E, lives, lock, L, 0, 0)
  <1>1. \A b \in DOMAIN f.blocks : b \in Nat /\ b >= 1
    BY Shape
  <1>2. \A b \in DOMAIN f.blocks, k \in Nat :
            k \in 1 .. Len(f.blocks[b]) => /\ b > 1 \/ (b = 1 /\ k > 0)
                                          /\ <<b, k>> # <<1, 0>>
    BY <1>1
  <1>3. Effects(f, E, lives, 0, 0)
    BY <1>2, Zenon DEF Backed, Effects
  <1>4. CallsHold(f, lock, L, 0, 0)
    BY <1>2, Zenon DEF Backed, CallsHold
  <1> QED BY <1>3, <1>4 DEF Backed

(* The state: while the passes go on, and when they have ended.            *)
Settles(f, E, lives, lock, L) ==
    Growing(f, L) /\ Solved(f, E, lives, L) /\ Backed(f, E, lives, lock, L, 0, 0)

BackedInv ==
    /\ phase = "propagate" =>
          \E L : Tied(L) /\ Backed(fn, entry, life, locked, L, n, i)
    /\ phase # "propagate" => \E L : Settles(fn, entry, life, locked, L)

LEMMA BackedInit == SlotsInit => BackedInv
  <1> SUFFICES ASSUME SlotsInit PROVE BackedInv
    OBVIOUS
  <1>1. /\ fn \in Program /\ life = SeqSet(Param) \X {0} /\ phase = "propagate"
        /\ n = Len(fn.blocks) /\ i = Len(fn.blocks[n])
    BY DEF SlotsInit
  <1>2. PICK L : Tied(L) /\ \A p \in PointsOf(fn) : L[p] = {}
    BY TiedInit
  <1>3. Effects(fn, entry, life, n, i)
    <2>1. SUFFICES ASSUME NEW b \in DOMAIN fn.blocks, NEW k \in Nat,
                          k \in 1 .. Len(fn.blocks[b]), b > n \/ (b = n /\ k > i)
                   PROVE  FALSE
      BY DEF Effects
    <2>2. b \in Nat /\ Len(fn.blocks) \in Nat /\ b <= Len(fn.blocks)
          /\ Len(fn.blocks[b]) \in Nat
      BY <1>1, Shape
    <2> QED BY <1>1, <2>1, <2>2
  <1>4. CallsHold(fn, locked, L, n, i)
    <2>1. \A b \in DOMAIN fn.blocks, k \in Nat : k \in 1 .. Len(fn.blocks[b]) => L[<<b, k>>] = {}
      BY <1>1, <1>2, PointFacts
    <2>2. \A ins : LivesBehind(ins, {}) = {}
      BY DEF LivesBehind
    <2> QED BY <2>1, <2>2 DEF CallsHold
  <1>5. Reasoned(fn, entry, life, L)
    BY <1>1 DEF Reasoned, Reason
  <1> QED BY <1>1, <1>2, <1>3, <1>4, <1>5 DEF BackedInv, Backed

(* What PropagateInstr marks and locks, beside what lives before it.       *)
LEMMA InstrMarks ==
    ASSUME TInv, PropagateInstr
    PROVE  LET ins == Ins(fn, n, i)
               T == Ended(living[n], SeqSet(ins.out)) \cup LivesBefore(ins, living[n])
           IN /\ life' = (life \cup (T \X {entry[n] + i})) \cup (KeptOf(ins) \X {entry[n] + i + 1})
              /\ locked \subseteq locked'
              /\ ins.op = "call" => LivesBehind(ins, living[n]) \subseteq locked'
              /\ SeqSet(ins.out) \subseteq T
              /\ KeptOf(ins) \subseteq LivesBefore(ins, living[n])
  <1> DEFINE ins == Ins(fn, n, i)
             ended == Ended(living[n], SeqSet(ins.out))
             before == LivesBefore(ins, living[n])
             read == LivesBehind(ins, living[n]) \cup Started(SeqSet(ins.in))
  <1>1. /\ life' = (life \cup ((ended \cup before) \X {entry[n] + i}))
                      \cup (KeptOf(ins) \X {entry[n] + i + 1})
        /\ locked' = locked \cup (IF ins.op = "call" THEN read ELSE {})
    BY DEF PropagateInstr, Ins, LivesBefore, LivesBehind, Begun, Alive, LockedBy, Eid, KeptOf
  <1>2. SeqSet(ins.out) \subseteq ended
    BY DEF Ended
  <1>3. KeptOf(ins) \subseteq before
    <2>1. n \in DOMAIN fn.blocks /\ i \in Nat /\ i \in 1 .. Len(fn.blocks[n]) /\ fn \in Program
      BY InstrEffect DEF TInv
    <2>2. ins.kept \subseteq SeqSet(ins.in)
      BY <2>1, InstructionFacts
    <2> HIDE DEF ins
    <2>3. KeptOf(ins) \subseteq Started(SeqSet(ins.in))
      BY <2>2 DEF KeptOf, Started
    <2> QED BY <2>3 DEF LivesBefore, Begun
  <1> HIDE DEF ins, ended, before, read
  <1>4. locked \subseteq locked' /\ (ins.op = "call" => read \subseteq locked')
    BY <1>1
  <1>5. LivesBehind(ins, living[n]) \subseteq read
    BY DEF read
  <1> QED BY <1>1, <1>2, <1>3, <1>4, <1>5 DEF ins, ended, before

LEMMA BackedInstr ==
    ASSUME TInv, PropagateInstr, NEW L, Tied(L), Backed(fn, entry, life, locked, L, n, i)
    PROVE  BackedInv'
  <1> DEFINE ins == Ins(fn, n, i)
             S == LivesBefore(ins, living[n])
             T == Ended(living[n], SeqSet(ins.out)) \cup S
  <1>1. /\ n \in DOMAIN fn.blocks /\ i \in Nat /\ i \in 1 .. Len(fn.blocks[n])
        /\ living[n] \in SUBSET Value /\ ins \in Instruction /\ fn \in Program
        /\ phase' = "propagate" /\ fn' = fn /\ entry' = entry /\ n' = n /\ i' = i - 1
    BY InstrEffect DEF PropagateInstr, TInv
  <1>2. living[n] = L[<<n, i>>]
    BY <1>1 DEF Tied, TiedTo
  <1>3. PICK M : /\ TiedTo(fn', entry', life', living', changed', n', i', M)
                 /\ IsRaised(fn, L, M, <<n, i - 1>>, LivesBefore(Ins(fn, n, i), L[<<n, i>>]))
    BY TiedInstr
  <1>4. IsRaised(fn, L, M, <<n, i - 1>>, S)
    BY <1>2, <1>3
  <1>5. /\ life' = (life \cup (T \X {entry[n] + i})) \cup (KeptOf(ins) \X {entry[n] + i + 1})
        /\ locked \subseteq locked' /\ SeqSet(ins.out) \subseteq T /\ KeptOf(ins) \subseteq S
        /\ ins.op = "call" => LivesBehind(ins, L[<<n, i>>]) \subseteq locked'
    BY <1>2, InstrMarks
  <1>6. S \subseteq T /\ T \subseteq S \cup Touched(SeqSet(ins.out))
    BY <1>1, BeforeTyped, EndedTouched
  <1> HIDE DEF S, T, ins
  <1>7. Marks(ins, entry[n] + i, L[<<n, i>>], S, life, life', locked, locked')
    BY <1>5, <1>6 DEF Marks
  <1>8. Backed(fn, entry, life', locked', M, n, i - 1)
    <2>1. Marks(Ins(fn, n, i), entry[n] + i, L[<<n, i>>], S, life, life', locked, locked')
      BY <1>7 DEF ins
    <2> QED BY <1>1, <1>4, <2>1, BackedStep, Zenon
  <1>9. Backed(fn', entry', life', locked', M, n', i')
    BY <1>1, <1>8
  <1> QED BY <1>1, <1>3, <1>9 DEF BackedInv, Tied

(* PropagateEntry marks the block's entry, for a reason; then the pass     *)
(* goes on, or is the last.                                                *)
LEMMA BackedTurns ==
    ASSUME TInv, PropagateEntry, NEW L, Tied(L), Backed(fn, entry, life, locked, L, n, i)
    PROVE  BackedInv'
  <1> DEFINE c == IF n > 1 THEN n - 1 ELSE Len(fn.blocks)
  <1>1. /\ phase = "propagate" /\ i = 0 /\ n \in DOMAIN fn.blocks /\ fn \in Program
        /\ life' = life \cup (living[n] \X {entry[n]})
        /\ fn' = fn /\ entry' = entry /\ locked' = locked
        /\ phase' # "propagate" => n = 1
    BY EntryEffect DEF TInv
  <1>2. living[n] = L[<<n, 0>>] /\ Growing(fn, L)
    BY <1>1 DEF Tied, TiedTo
  <1>3. Backed(fn, entry, life', locked, L, n, 0)
    BY <1>1, <1>2, BackedEntry
  <1>4. \/ /\ phase' = "propagate" /\ c \in DOMAIN fn.blocks
           /\ n' = c /\ i' = Len(fn.blocks[c])
           /\ \E M : /\ TiedTo(fn', entry', life', living', changed', n', i', M)
                     /\ IsRaised(fn, L, M, <<c, Len(fn.blocks[c])>>, FromExits(fn, L, c))
        \/ /\ phase' # "propagate" /\ Solved(fn, entry, life, L) /\ life' = life
    BY TiedEntry
  <1>5. CASE phase' = "propagate"
    <2>1. /\ c \in DOMAIN fn.blocks /\ n' = c /\ i' = Len(fn.blocks[c])
          /\ \E M : /\ TiedTo(fn', entry', life', living', changed', n', i', M)
                    /\ IsRaised(fn, L, M, <<c, Len(fn.blocks[c])>>, FromExits(fn, L, c))
      BY <1>4, <1>5
    <2>2. PICK M : /\ TiedTo(fn', entry', life', living', changed', n', i', M)
                   /\ IsRaised(fn, L, M, <<c, Len(fn.blocks[c])>>, FromExits(fn, L, c))
      BY <2>1
    <2>3. c = IF n > 1 THEN n - 1 ELSE Len(fn.blocks)
      OBVIOUS
    <2> HIDE DEF c
    <2>4. Backed(fn, entry, life', locked, M, c, Len(fn.blocks[c]))
      BY <1>1, <1>3, <2>1, <2>2, <2>3, BackedTurn
    <2>5. Backed(fn', entry', life', locked', M, n', i')
      BY <1>1, <2>1, <2>4
    <2> QED BY <1>5, <2>2, <2>5 DEF BackedInv, Tied
  <1>6. CASE phase' # "propagate"
    <2>1. Solved(fn, entry, life', L) /\ n = 1
      BY <1>1, <1>4, <1>6
    <2>2. Backed(fn, entry, life', locked, L, 0, 0)
      BY <1>1, <1>3, <2>1, BackedEnd
    <2>3. Settles(fn', entry', life', locked', L)
      BY <1>1, <1>2, <2>1, <2>2 DEF Settles
    <2> QED BY <1>6, <2>3 DEF BackedInv
  <1> QED BY <1>5, <1>6

(* Locking more does no harm.                                              *)
LEMMA SettlesMore ==
    ASSUME NEW f, NEW E, NEW lives, NEW lock, NEW lock2, NEW L, lock \subseteq lock2,
           Settles(f, E, lives, lock, L)
    PROVE  Settles(f, E, lives, lock2, L)
  <1>1. CallsHold(f, lock2, L, 0, 0)
    BY DEF Settles, Backed, CallsHold
  <1> QED BY <1>1 DEF Settles, Backed

LEMMA BackedNext == ASSUME TInv, BackedInv, [SlotsNext]_slotsVars PROVE BackedInv'
  <1>1. CASE PropagateInstr
    <2>1. PICK L : Tied(L) /\ Backed(fn, entry, life, locked, L, n, i)
      BY <1>1 DEF BackedInv, PropagateInstr
    <2> QED BY <1>1, <2>1, BackedInstr
  <1>2. CASE PropagateEntry
    <2>1. PICK L : Tied(L) /\ Backed(fn, entry, life, locked, L, n, i)
      BY <1>2 DEF BackedInv, PropagateEntry
    <2> QED BY <1>2, <2>1, BackedTurns
  <1>3. CASE \/ AllocateFixed \/ AllocateUnused \/ AllocateShared
             \/ AllocateForCall \/ AllocateResult
    <2>1. /\ phase = "allocate" /\ phase' \in {"allocate", "done"}
      BY <1>3, AllocateTyped
    <2>2. fn' = fn /\ entry' = entry /\ life' = life /\ locked \subseteq locked'
      BY <1>3 DEF AllocateFixed, AllocateUnused, AllocateShared, AllocateForCall, AllocateResult
    <2>3. PICK L : Settles(fn, entry, life, locked, L)
      BY <2>1 DEF BackedInv
    <2>4. Settles(fn', entry', life', locked', L)
      BY <2>2, <2>3, SettlesMore
    <2> QED BY <2>1, <2>4 DEF BackedInv
  <1>4. CASE UNCHANGED slotsVars
    BY <1>4 DEF slotsVars, BackedInv, Tied, TiedTo
  <1> QED BY <1>1, <1>2, <1>3, <1>4 DEF SlotsNext
-----------------------------------------------------------------------------
(* What is known of the lives once the passes have ended.                  *)
LEMMA IdsBounded ==
    ASSUME NEW f \in Program, NEW lives, NEW lock, NEW L,
           Settles(f, Enumerated(f), lives, lock, L)
    PROVE  \E m \in Nat : \A v, s : <<v, s>> \in lives => s \in 0 .. m
  <1> DEFINE E == Enumerated(f)
             N == Len(f.blocks)
             m == E[N] + Len(f.blocks[N]) + 1
  <1>1. N \in Nat \ {0} /\ DOMAIN f.blocks = 1 .. N
        /\ \A b \in 1 .. N : Len(f.blocks[b]) \in Nat
    BY Shape
  <1>2. \A b \in 1 .. N : E[b] \in Nat /\ (b < N => E[N] >= E[b] + Len(f.blocks[b]) + 1)
    BY <1>1, EntriesApart, SMTT(30)
  <1> HIDE DEF E
  <1>3. \A b \in 1 .. N : E[b] + Len(f.blocks[b]) + 1 <= m
    <2> TAKE b \in 1 .. N
    <2>1. /\ N \in 1 .. N /\ (b < N \/ b = N)
          /\ E[b] \in Nat /\ E[N] \in Nat /\ Len(f.blocks[b]) \in Nat /\ Len(f.blocks[N]) \in Nat
      BY <1>1, <1>2
    <2>2. CASE b < N
      <3>1. E[N] >= E[b] + Len(f.blocks[b]) + 1
        BY <1>2, <2>2
      <3> QED BY <2>1, <3>1
    <2>3. CASE b = N
      BY <2>1, <2>3
    <2> QED BY <2>1, <2>2, <2>3
  <1>4. m \in Nat
    BY <1>1, <1>2
  <1>5. ASSUME NEW v, NEW s, <<v, s>> \in lives PROVE s \in 0 .. m
    <2>1. Reason(f, E, lives, L, v, s)
      BY <1>5 DEF Settles, Backed, Reasoned, E
    <2>2. s = 0 \/ \E b \in 1 .. N, k \in Nat :
                     k <= Len(f.blocks[b]) + 1 /\ s = E[b] + k
      <3>1. CASE \E b \in DOMAIN f.blocks : s = E[b]
        <4>1. PICK b \in 1 .. N : s = E[b]
          BY <1>1, <3>1
        <4>2. 0 <= Len(f.blocks[b]) + 1 /\ s = E[b] + 0
          BY <1>1, <1>2, <4>1
        <4> QED BY <4>2
      <3>2. CASE \E b \in DOMAIN f.blocks, k \in Nat :
                    k \in 1 .. Len(f.blocks[b]) /\ s = E[b] + k
        <4>1. PICK b \in 1 .. N, k \in Nat : k \in 1 .. Len(f.blocks[b]) /\ s = E[b] + k
          BY <1>1, <3>2
        <4>2. k <= Len(f.blocks[b]) + 1
          BY <1>1, <4>1
        <4> QED BY <4>1, <4>2
      <3>3. CASE \E b \in DOMAIN f.blocks, k \in Nat :
                    k \in 1 .. Len(f.blocks[b]) /\ s = E[b] + k + 1
        <4>1. PICK b \in 1 .. N, k \in Nat : k \in 1 .. Len(f.blocks[b]) /\ s = E[b] + k + 1
          BY <1>1, <3>3
        <4>2. E[b] \in Nat /\ Len(f.blocks[b]) \in Nat
          BY <1>1, <1>2
        <4>3. k + 1 \in Nat /\ E[b] + k + 1 = E[b] + (k + 1)
          BY <4>2
        <4>4. k + 1 <= Len(f.blocks[b]) + 1
          BY <4>1, <4>2
        <4> QED BY <4>1, <4>3, <4>4
      <3> QED BY <2>1, <3>1, <3>2, <3>3, Zenon DEF Reason
    <2>3. CASE s = 0
      BY <1>4, <2>3
    <2>4. CASE \E b \in 1 .. N, k \in Nat : k <= Len(f.blocks[b]) + 1 /\ s = E[b] + k
      <3>1. PICK b \in 1 .. N, k \in Nat : k <= Len(f.blocks[b]) + 1 /\ s = E[b] + k
        BY <2>4
      <3>2. s \in Nat /\ s <= E[b] + Len(f.blocks[b]) + 1
        <4>1. E[b] \in Nat /\ Len(f.blocks[b]) \in Nat
          BY <1>1, <1>2
        <4>2. s \in Nat
          BY <3>1, <4>1
        <4> QED BY <3>1, <4>1, <4>2
      <3>3. E[b] + Len(f.blocks[b]) + 1 <= m /\ E[b] + Len(f.blocks[b]) + 1 \in Nat
        BY <1>1, <1>2, <1>3
      <3> HIDE DEF m
      <3> QED BY <1>4, <3>2, <3>3
    <2> QED BY <2>2, <2>3, <2>4
  <1> QED BY <1>4, <1>5

(* A range starts at a function's start, with a block, where it goes on to *)
(* the block's first instruction, or at an instruction that writes.        *)
LEMMA RangeStarts ==
    ASSUME NEW f \in Program, NEW lives, NEW lock, NEW L, NEW E, E = Enumerated(f),
           Settles(f, E, lives, lock, L),
           NEW v, NEW s, <<v, s>> \in lives, <<v, s - 1>> \notin lives
    PROVE  \/ v \in SeqSet(Param) /\ s = 0
           \/ \E b \in DOMAIN f.blocks : s = E[b] /\ <<v, s + 1>> \in lives
           \/ \E b \in DOMAIN f.blocks, k \in Nat :
                 /\ k \in 1 .. Len(f.blocks[b]) /\ s = E[b] + k
                 /\ v \in Touched(SeqSet(Ins(f, b, k).out))
  <1>1. Reason(f, E, lives, L, v, s) /\ Marked(f, E, lives, L, 0, 0)
    BY DEF Settles, Solved, Backed, Reasoned
  <1>2. \A b \in DOMAIN f.blocks : b >= 1 /\ b \in Nat /\ 1 \in 1 .. Len(f.blocks[b])
                                  /\ E[b] \in Nat
    BY Shape, EntriesApart
  <1>3. ASSUME NEW b \in DOMAIN f.blocks, s = E[b], v \in L[<<b, 0>>]
        PROVE  <<v, s + 1>> \in lives
    <2>1. L[<<b, 1 - 1>>] \X {E[b] + 1} \subseteq lives
      BY <1>1, <1>2 DEF Marked
    <2>2. <<b, 1 - 1>> = <<b, 0>>
      OBVIOUS
    <2> QED BY <1>3, <2>1, <2>2
  <1>4. ASSUME NEW b \in DOMAIN f.blocks, NEW k \in Nat, k \in 1 .. Len(f.blocks[b]),
               s = E[b] + k
        PROVE  v \notin L[<<b, k - 1>>]
    <2>1. SUFFICES ASSUME v \in L[<<b, k - 1>>] PROVE FALSE
      OBVIOUS
    <2>2. CASE k = 1
      <3>1. <<b, 0>> # <<0, 0>> /\ <<b, k - 1>> = <<b, 0>>
        BY <1>2, <2>2
      <3>2. L[<<b, 0>>] \X {E[b]} \subseteq lives
        BY <1>1, <3>1 DEF Marked
      <3>3. s - 1 = E[b]
        BY <1>2, <1>4, <2>2
      <3> QED BY <2>1, <3>1, <3>2, <3>3
    <2>3. CASE k # 1
      <3> DEFINE j == k - 1
      <3>0. E[b] \in Nat /\ Len(f.blocks[b]) \in Nat
        BY <1>2, Shape
      <3>1. j \in Nat /\ j \in 1 .. Len(f.blocks[b]) /\ s - 1 = E[b] + j
        BY <1>4, <2>3, <3>0
      <3> HIDE DEF j
      <3>2. <<b, j>> # <<0, 0>>
        BY <1>2
      <3>3. L[<<b, j>>] \X {E[b] + j} \subseteq lives
        BY <1>1, <3>1, <3>2 DEF Marked
      <3>4. v \in L[<<b, j>>]
        BY <2>1 DEF j
      <3> QED BY <3>1, <3>3, <3>4
    <2> QED BY <2>2, <2>3
  <1>5. ASSUME NEW b \in DOMAIN f.blocks, NEW k \in Nat, k \in 1 .. Len(f.blocks[b]),
               s = E[b] + k + 1
        PROVE  <<v, E[b] + k>> \notin lives
    <2>1. s - 1 = E[b] + k
      BY <1>2, <1>5
    <2> QED BY <2>1
  <1>6. CASE \E b \in DOMAIN f.blocks : s = E[b] /\ v \in L[<<b, 0>>]
    BY <1>3, <1>6
  <1>7. CASE \E b \in DOMAIN f.blocks, k \in Nat :
                /\ k \in 1 .. Len(f.blocks[b]) /\ s = E[b] + k
                /\ v \in L[<<b, k - 1>>] \/ v \in Touched(SeqSet(Ins(f, b, k).out))
    <2>1. PICK b \in DOMAIN f.blocks, k \in Nat :
                /\ k \in 1 .. Len(f.blocks[b]) /\ s = E[b] + k
                /\ v \in L[<<b, k - 1>>] \/ v \in Touched(SeqSet(Ins(f, b, k).out))
      BY <1>7
    <2>2. v \in Touched(SeqSet(Ins(f, b, k).out))
      BY <1>4, <2>1
    <2> QED BY <2>1, <2>2, Zenon
  <1>8. CASE \E b \in DOMAIN f.blocks, k \in Nat :
                /\ k \in 1 .. Len(f.blocks[b]) /\ s = E[b] + k + 1 /\ <<v, E[b] + k>> \in lives
    BY <1>5, <1>8
  <1> QED BY <1>1, <1>6, <1>7, <1>8, Zenon DEF Reason

(* Two values do not start together, so a value that is written and never  *)
(* read, a single id, does not meet the start of another's range.          *)
LEMMA IdApart ==
    ASSUME NEW f \in Program, NEW b \in DOMAIN f.blocks, NEW c \in DOMAIN f.blocks,
           NEW k \in Nat, NEW j \in Nat, k <= Len(f.blocks[b]), j <= Len(f.blocks[c]),
           Enumerated(f)[b] + k = Enumerated(f)[c] + j
    PROVE  b = c /\ k = j
  <1> DEFINE E == Enumerated(f)
  <1>1. E[b] \in Nat /\ E[c] \in Nat
        /\ (c < b => E[b] >= E[c] + Len(f.blocks[c]) + 1)
        /\ (b < c => E[c] >= E[b] + Len(f.blocks[b]) + 1)
    BY EntriesApart
  <1>2. b \in Nat /\ c \in Nat /\ Len(f.blocks[b]) \in Nat /\ Len(f.blocks[c]) \in Nat
    BY Shape
  <1>3. E[b] + k = E[c] + j
    OBVIOUS
  <1> HIDE DEF E
  <1>4. ~(c < b)
    BY <1>1, <1>2, <1>3, SMTT(30)
  <1>5. ~(b < c)
    BY <1>1, <1>2, <1>3, SMTT(30)
  <1>6. b = c
    BY <1>2, <1>4, <1>5
  <1> QED BY <1>1, <1>3, <1>6

(* An instruction writes no two values, with their vectors or components.  *)
LEMMA WrittenAlone ==
    ASSUME NEW out \in Seq(Value), Len(out) <= 1, NEW v \in SeqSet(Queue), NEW u \in SeqSet(Queue),
           v \in Touched(SeqSet(out)), u \in Touched(SeqSet(out))
    PROVE  v = u
  <1>1. \A x, y \in SeqSet(out) : x = y
    <2>1. SUFFICES ASSUME NEW j \in DOMAIN out, NEW k \in DOMAIN out PROVE j = k
      BY DEF SeqSet
    <2>2. DOMAIN out = 1 .. Len(out) /\ Len(out) \in Nat
      OBVIOUS
    <2> QED BY <2>1, <2>2
  <1>2. SeqSet(Queue) \cap DOMAIN Member = {}
    BY AllocatorAssumption DEF AllocatorAssumption
  <1>3. \A q \in SeqSet(Queue) : q \in Touched(SeqSet(out)) =>
            \E o \in SeqSet(out) : q = Root(o)
    <2>1. SUFFICES ASSUME NEW q \in SeqSet(Queue), q \in Touched(SeqSet(out))
                   PROVE  \E o \in SeqSet(out) : q = Root(o)
      OBVIOUS
    <2>2. q \notin DOMAIN Member
      BY <1>2
    <2>3. Root(q) = q
      BY <2>2 DEF Root
    <2>4. \A x : q \notin MembersOf(x)
      BY <2>2 DEF MembersOf
    <2>5. \A x : q \in OwnersOf(x) => q = Root(x)
      BY DEF OwnersOf
    <2> QED BY <2>1, <2>3, <2>4, <2>5 DEF Touched
  <1> QED BY <1>1, <1>3

(* A range of a single id is that of a value that is written and not read. *)
(* No other value's range starts there: it would be written there, too, or *)
(* alive at the start of a block or function.                              *)
LEMMA NoPointMeets ==
    ASSUME NEW f \in Program, NEW lives, NEW lock, NEW L,
           Settles(f, Enumerated(f), lives, lock, L),
           NEW v \in SeqSet(Queue), NEW u \in SeqSet(Queue), v # u, v \notin SeqSet(Param),
           NEW s, <<v, s>> \in lives, <<u, s>> \in lives,
           <<v, s - 1>> \notin lives, <<v, s + 1>> \notin lives, <<u, s - 1>> \notin lives
    PROVE  FALSE
  <1> DEFINE E == Enumerated(f)
  <1>1. \E b \in DOMAIN f.blocks, k \in Nat :
            /\ k \in 1 .. Len(f.blocks[b]) /\ s = E[b] + k
            /\ v \in Touched(SeqSet(Ins(f, b, k).out))
    BY RangeStarts
  <1>2. PICK b \in DOMAIN f.blocks, k \in Nat :
            /\ k \in 1 .. Len(f.blocks[b]) /\ s = E[b] + k
            /\ v \in Touched(SeqSet(Ins(f, b, k).out))
    BY <1>1
  <1>3. \/ u \in SeqSet(Param) /\ s = 0
        \/ \E c \in DOMAIN f.blocks : s = E[c] /\ <<u, s + 1>> \in lives
        \/ \E c \in DOMAIN f.blocks, j \in Nat :
              /\ j \in 1 .. Len(f.blocks[c]) /\ s = E[c] + j
              /\ u \in Touched(SeqSet(Ins(f, c, j).out))
    BY RangeStarts
  <1>4. E[b] \in Nat /\ Len(f.blocks[b]) \in Nat
    BY Shape, EntriesApart
  <1>5. \A c \in DOMAIN f.blocks : Len(f.blocks[c]) \in Nat /\ E[c] \in Nat
    BY Shape, EntriesApart
  <1>6. ASSUME NEW c \in DOMAIN f.blocks, NEW j \in Nat, j <= Len(f.blocks[c]), s = E[c] + j
        PROVE  b = c /\ k = j
    <2>1. k <= Len(f.blocks[b]) /\ E[b] + k = E[c] + j
      BY <1>2, <1>4, <1>6
    <2> QED BY <1>6, <2>1, IdApart
  <1> HIDE DEF E
  <1>7. CASE u \in SeqSet(Param) /\ s = 0
    BY <1>2, <1>4, <1>7
  <1>8. CASE \E c \in DOMAIN f.blocks : s = E[c] /\ <<u, s + 1>> \in lives
    <2>1. PICK c \in DOMAIN f.blocks : s = E[c]
      BY <1>8
    <2>2. 0 \in Nat /\ 0 <= Len(f.blocks[c]) /\ s = E[c] + 0
      BY <1>5, <2>1
    <2>3. k = 0
      BY <1>6, <2>2
    <2> QED BY <1>2, <2>3
  <1>9. CASE \E c \in DOMAIN f.blocks, j \in Nat :
                /\ j \in 1 .. Len(f.blocks[c]) /\ s = E[c] + j
                /\ u \in Touched(SeqSet(Ins(f, c, j).out))
    <2>1. PICK c \in DOMAIN f.blocks, j \in Nat :
                /\ j \in 1 .. Len(f.blocks[c]) /\ s = E[c] + j
                /\ u \in Touched(SeqSet(Ins(f, c, j).out))
      BY <1>9
    <2>2. j <= Len(f.blocks[c])
      BY <1>5, <2>1
    <2>3. b = c /\ k = j
      BY <1>6, <2>1, <2>2
    <2>4. Ins(f, b, k) \in Instruction /\ Len(Ins(f, b, k).out) <= 1
      BY <1>2, Shape, InstructionFacts
    <2>5. Ins(f, b, k).out \in Seq(Value)
      BY <2>4 DEF Instruction
    <2> QED BY <1>2, <2>1, <2>3, <2>4, <2>5, WrittenAlone
  <1> QED BY <1>3, <1>7, <1>8, <1>9
-----------------------------------------------------------------------------
(* Where values are, while they are placed one after the other.            *)
Waiting(j) == phase = "propagate" \/ (phase = "allocate" /\ j >= n)

Sits(v, a, k) == at[v] = [in |-> a, slot |-> k]
Areas == {"lock", "global"}

PlacedWell(v) ==
    \/ at[v] = Unplaced
    \/ \E a \in Areas : \E k \in DOMAIN slots[a] :
          /\ Sits(v, a, k) /\ SizeOf(v) <= slots[a][k].size
          /\ a = "global" => v \notin locked
    \/ /\ Sits(v, "parm", ParmOf(v)) /\ v \in SeqSet(Temp)
       /\ ForCall(v) /\ v \in SeqSet(At(ReaderOf(v)).params)
    \/ Sits(v, "return", 1) /\ v \in SeqSet(Temp) /\ IsResult(v)

(* A slot's life is that of the values in it.                              *)
Fills == \A a \in Areas : \A k \in DOMAIN slots[a] : \A s :
            s \in slots[a][k].life <=> \E u \in SeqSet(Queue) : Sits(u, a, k) /\ s \in LifeOf(u)

(* No two values in a slot are both alive somewhere, but for the ends.     *)
SlotsApart == \A v \in SeqSet(Queue) : \A u \in SeqSet(Queue) : \A a \in Areas : \A k :
                (v # u /\ Sits(v, a, k) /\ Sits(u, a, k)) => ~Inside(LifeOf(v), LifeOf(u))

PlacedInv ==
    /\ phase = "propagate" => slots = [lock |-> <<>>, global |-> <<>>]
    /\ \A j \in DOMAIN Queue : Waiting(j) => at[Queue[j]] = Unplaced
    /\ \A j \in DOMAIN Queue :
          ~Waiting(j) /\ at[Queue[j]] = Unplaced => LifeOf(Queue[j]) = {}
    /\ \A v \in SeqSet(Queue) : PlacedWell(v)
    /\ Fills /\ SlotsApart

LEMMA InLife ==
    ASSUME TInv
    PROVE  \A v, s : s \in LifeOf(v) <=> <<v, s>> \in life
  <1>1. \A l \in life : l = <<l[1], l[2]>>
    BY DEF TInv, SlotsTypeOK
  <1> QED BY <1>1 DEF LifeOf

(* What does not change with the places.                                   *)
SameFunction == fn' = fn /\ opt' = opt /\ life' = life

LEMMA FunctionStays ==
    ASSUME SameFunction
    PROVE  /\ \A v : LifeOf(v)' = LifeOf(v)
           /\ InstrSet' = InstrSet /\ \A x : At(x)' = At(x)
           /\ \A v : ReaderOf(v)' = ReaderOf(v) /\ ParmOf(v)' = ParmOf(v)
           /\ \A v : (v \in locked' <=> v \in locked) =>
                 (ForCall(v)' <=> ForCall(v)) /\ (IsResult(v)' <=> IsResult(v))
  <1>1. fn' = fn /\ opt' = opt /\ life' = life
    BY DEF SameFunction
  <1>2. \A v : LifeOf(v)' = LifeOf(v)
    BY <1>1 DEF LifeOf
  <1>3. InstrSet' = InstrSet /\ \A x : At(x)' = At(x)
    BY <1>1 DEF InstrSet, Blocks, At
  <1>4. \A v : ReaderOf(v)' = ReaderOf(v) /\ WriterOf(v)' = WriterOf(v)
               /\ Reads(v)' = Reads(v) /\ Writes(v)' = Writes(v)
    BY <1>3 DEF ReaderOf, WriterOf, Reads, Writes
  <1>5. \A v : ParmOf(v)' = ParmOf(v)
    BY <1>3, <1>4 DEF ParmOf
  <1>6. \A v : (v \in locked' <=> v \in locked) => (Unlocked(v)' <=> Unlocked(v))
    BY <1>1 DEF Unlocked
  <1>7. \A v : (v \in locked' <=> v \in locked) => (ForCall(v)' <=> ForCall(v))
    BY <1>3, <1>4, <1>6 DEF ForCall
  <1>8. \A v : (v \in locked' <=> v \in locked) => (IsResult(v)' <=> IsResult(v))
    BY <1>3, <1>4, <1>6, <1>7 DEF IsResult
  <1> QED BY <1>2, <1>3, <1>4, <1>5, <1>7, <1>8

(* One value is placed, or found to need no place; the others stay.        *)
Places(v) ==
    /\ phase = "allocate" /\ v = Queue[n] /\ Advance
    /\ SameFunction
    /\ \A u : u # v => (u \in locked' <=> u \in locked)
    /\ \A u \in SeqSet(Queue) : u # v => at'[u] = at[u]

(* Slots are never taken back, and only one changes.                       *)
OneSlot(a, k) ==
    /\ \A c \in Areas : DOMAIN slots[c] \subseteq DOMAIN slots'[c]
    /\ \A c \in Areas : \A j \in DOMAIN slots[c] : \A m \in Nat :
          m <= slots[c][j].size => m <= slots'[c][j].size
    /\ \A c \in Areas : \A j \in DOMAIN slots'[c] :
          <<c, j>> # <<a, k>> => j \in DOMAIN slots[c] /\ slots'[c][j] = slots[c][j]

LEMMA QueueApart ==
    ASSUME TInv, NEW v, Places(v)
    PROVE  /\ v \in SeqSet(Queue) /\ n \in DOMAIN Queue /\ n \in Nat /\ at[v] = at[v]
           /\ \A j \in DOMAIN Queue : Queue[j] = v <=> j = n
           /\ \A j \in DOMAIN Queue : j # n => (Waiting(j)' <=> Waiting(j))
           /\ \A j \in DOMAIN Queue : j = n => ~Waiting(j)' /\ Waiting(j)
  <1>1. /\ n \in DOMAIN Queue /\ v = Queue[n] /\ phase = "allocate" /\ n' = n + 1
        /\ phase' = IF n = Len(Queue) THEN "done" ELSE "allocate"
    BY DEF TInv, SlotsTypeOK, Places, Advance
  <1>2. DOMAIN Queue = 1 .. Len(Queue) /\ Len(Queue) \in Nat
    BY QueueFacts
  <1>3. v \in SeqSet(Queue) /\ n \in Nat
    BY <1>1, <1>2, QueueFacts
  <1>4. \A j \in DOMAIN Queue : Queue[j] = v <=> j = n
    <2>1. \A j \in DOMAIN Queue : Queue[j] = Queue[n] => j = n
      BY <1>1, AllocatorAssumption, Zenon DEF AllocatorAssumption
    <2> QED BY <1>1, <2>1
  <1>5. \A j \in DOMAIN Queue : j # n => (Waiting(j)' <=> Waiting(j))
    <2> TAKE j \in DOMAIN Queue
    <2> HAVE j # n
    <2>1. j \in Nat /\ j <= Len(Queue)
      BY <1>2
    <2>2. CASE n = Len(Queue)
      <3>1. phase' = "done" /\ ~(j >= n)
        BY <1>1, <1>2, <1>3, <2>1, <2>2
      <3> QED BY <1>1, <3>1 DEF Waiting
    <2>3. CASE n # Len(Queue)
      <3>1. phase' = "allocate" /\ (j >= n <=> j >= n + 1)
        BY <1>1, <1>2, <1>3, <2>1, <2>3
      <3> QED BY <1>1, <3>1 DEF Waiting
    <2> QED BY <2>2, <2>3
  <1>6. \A j \in DOMAIN Queue : j = n => ~Waiting(j)'
    <2>1. ~(n >= n + 1) /\ phase' \in {"done", "allocate"}
      BY <1>1, <1>3
    <2> QED BY <1>1, <2>1 DEF Waiting
  <1>7. \A j \in DOMAIN Queue : j = n => Waiting(j)
    BY <1>1, <1>3 DEF Waiting
  <1> QED BY <1>1, <1>3, <1>4, <1>5, <1>6, <1>7

(* The other values' places, when one is placed.                           *)
LEMMA OthersStay ==
    ASSUME TInv, PlacedInv, NEW v, Places(v), NEW a, NEW k, OneSlot(a, k) \/ slots' = slots,
           NEW u \in SeqSet(Queue), u # v
    PROVE  PlacedWell(u)'
  <1>1. PlacedWell(u) /\ at'[u] = at[u] /\ (u \in locked' <=> u \in locked) /\ SameFunction
    BY DEF PlacedInv, Places
  <1>2. /\ ReaderOf(u)' = ReaderOf(u) /\ ParmOf(u)' = ParmOf(u)
        /\ (ForCall(u)' <=> ForCall(u)) /\ (IsResult(u)' <=> IsResult(u))
        /\ \A x : At(x)' = At(x)
    BY <1>1, FunctionStays
  <1>3. CASE at[u] = Unplaced
    BY <1>1, <1>3 DEF PlacedWell
  <1>4. CASE \E c \in Areas : \E j \in DOMAIN slots[c] :
                /\ Sits(u, c, j) /\ SizeOf(u) <= slots[c][j].size
                /\ c = "global" => u \notin locked
    <2>1. PICK c \in Areas : \E j \in DOMAIN slots[c] :
                /\ Sits(u, c, j) /\ SizeOf(u) <= slots[c][j].size
                /\ c = "global" => u \notin locked
      BY <1>4
    <2>2. PICK j \in DOMAIN slots[c] :
                /\ Sits(u, c, j) /\ SizeOf(u) <= slots[c][j].size
                /\ c = "global" => u \notin locked
      BY <2>1
    <2>3. j \in DOMAIN slots'[c] /\ SizeOf(u) <= slots'[c][j].size
      <3>1. CASE slots' = slots
        BY <2>2, <3>1
      <3>2. CASE OneSlot(a, k)
        <4>1. SizeOf(u) \in Nat
          BY LifeFacts, MemberFacts
        <4> QED BY <2>2, <3>2, <4>1 DEF OneSlot
      <3> QED BY <3>1, <3>2
    <2>4. at'[u] = [in |-> c, slot |-> j]
      BY <1>1, <2>2 DEF Sits
    <2> QED BY <1>1, <2>2, <2>3, <2>4 DEF PlacedWell, Sits
  <1>5. CASE /\ Sits(u, "parm", ParmOf(u)) /\ u \in SeqSet(Temp)
             /\ ForCall(u) /\ u \in SeqSet(At(ReaderOf(u)).params)
    <2>1. at'[u] = [in |-> "parm", slot |-> ParmOf(u)]
      BY <1>1, <1>5 DEF Sits
    <2> QED BY <1>2, <1>5, <2>1 DEF PlacedWell, Sits
  <1>6. CASE Sits(u, "return", 1) /\ u \in SeqSet(Temp) /\ IsResult(u)
    <2>1. at'[u] = [in |-> "return", slot |-> 1]
      BY <1>1, <1>6 DEF Sits
    <2> QED BY <1>2, <1>6, <2>1 DEF PlacedWell, Sits
  <1> QED BY <1>1, <1>3, <1>4, <1>5, <1>6 DEF PlacedWell

(* A value gets a place in a slot, alone or with others.                   *)
Joins(v, a, k) ==
    /\ Places(v) /\ a \in Areas /\ k \in DOMAIN slots'[a]
    /\ OneSlot(a, k)
    /\ at'[v] = [in |-> a, slot |-> k]
    /\ a = "global" => v \notin locked'
    /\ SizeOf(v) <= slots'[a][k].size
    /\ \A s : s \in slots'[a][k].life <=>
               (k \in DOMAIN slots[a] /\ s \in slots[a][k].life) \/ s \in LifeOf(v)
    /\ k \in DOMAIN slots[a] =>
          ~Inside(LifeOf(v), slots[a][k].life) /\ ~Inside(slots[a][k].life, LifeOf(v))

(* A slot's life stays the lives of all values in it.                      *)
LEMMA JoinFills ==
    ASSUME TInv, PlacedInv, NEW v, NEW a, NEW k, Joins(v, a, k)
    PROVE  Fills'
  <1>1. /\ Places(v) /\ a \in Areas /\ OneSlot(a, k) /\ at'[v] = [in |-> a, slot |-> k]
        /\ \A s : s \in slots'[a][k].life <=>
                     (k \in DOMAIN slots[a] /\ s \in slots[a][k].life) \/ s \in LifeOf(v)
    BY DEF Joins
  <1>2. /\ v \in SeqSet(Queue) /\ SameFunction
        /\ \A u \in SeqSet(Queue) : u # v => at'[u] = at[u]
    BY <1>1, QueueApart DEF Places
  <1>3. \A u : LifeOf(u)' = LifeOf(u)
    BY <1>2, FunctionStays
  <1>4. at[v] = Unplaced
    BY <1>1, QueueApart DEF PlacedInv
  <1>5. \A c \in Areas : \A j : ~Sits(v, c, j)
    BY <1>4 DEF Sits, Areas, Unplaced
  <1>6. ASSUME NEW c \in Areas, NEW j \in DOMAIN slots'[c], NEW s
        PROVE  s \in slots'[c][j].life <=>
                   \E u \in SeqSet(Queue) : at'[u] = [in |-> c, slot |-> j] /\ s \in LifeOf(u)
    <2>1. j \in DOMAIN slots[c] =>
              (s \in slots[c][j].life <=>
                   \E u \in SeqSet(Queue) : at[u] = [in |-> c, slot |-> j] /\ s \in LifeOf(u))
      BY DEF PlacedInv, Fills, Sits
    <2>2. CASE c = a /\ j = k
      <3>1. \A u \in SeqSet(Queue) :
             u # v /\ at[u] = [in |-> a, slot |-> k] => k \in DOMAIN slots[a]
        <4> TAKE u \in SeqSet(Queue)
        <4> HAVE u # v /\ at[u] = [in |-> a, slot |-> k]
        <4>1. at[u].in = a /\ at[u].slot = k
          OBVIOUS
        <4> QED BY <1>1, <4>1 DEF TInv, SlotsTypeOK, Areas
      <3>2. ASSUME k \in DOMAIN slots[a], s \in slots[a][k].life
            PROVE  \E u \in SeqSet(Queue) : at'[u] = [in |-> a, slot |-> k] /\ s \in LifeOf(u)
        <4>1. PICK u \in SeqSet(Queue) : at[u] = [in |-> a, slot |-> k] /\ s \in LifeOf(u)
          BY <2>1, <2>2, <3>2
        <4>2. u # v
          BY <1>1, <1>5, <4>1 DEF Sits
        <4> QED BY <1>2, <4>1, <4>2
      <3>3. ASSUME NEW u \in SeqSet(Queue), at'[u] = [in |-> a, slot |-> k], s \in LifeOf(u), u # v
            PROVE  k \in DOMAIN slots[a] /\ s \in slots[a][k].life
        <4>1. at[u] = [in |-> a, slot |-> k]
          BY <1>2, <3>3
        <4> QED BY <2>1, <2>2, <3>1, <3>3, <4>1
      <3> QED BY <1>1, <1>2, <2>2, <3>2, <3>3
    <2>3. CASE ~(c = a /\ j = k)
      <3>1. j \in DOMAIN slots[c] /\ slots'[c][j] = slots[c][j]
        BY <1>1, <2>3 DEF OneSlot
      <3>2. \A u \in SeqSet(Queue) :
             at'[u] = [in |-> c, slot |-> j] <=> at[u] = [in |-> c, slot |-> j]
        <4> TAKE u \in SeqSet(Queue)
        <4>1. CASE u = v
          <5>1. at[v] # [in |-> c, slot |-> j]
            BY <1>5 DEF Sits
          <5>2. at'[v] # [in |-> c, slot |-> j]
            BY <1>1, <2>3
          <5> QED BY <4>1, <5>1, <5>2
        <4>2. CASE u # v
          BY <1>2, <4>2
        <4> QED BY <4>1, <4>2
      <3> QED BY <2>1, <3>1, <3>2
    <2> QED BY <2>2, <2>3
  <1> QED BY <1>3, <1>6 DEF Fills, Sits

LEMMA InsideMore ==
    ASSUME NEW X, NEW Y, NEW Z, Y \subseteq Z
    PROVE  (Inside(X, Y) => Inside(X, Z)) /\ (Inside(Y, X) => Inside(Z, X))
  BY DEF Inside

(* One more value in a slot is alive beside no other of them.              *)
LEMMA JoinApart ==
    ASSUME TInv, PlacedInv, NEW v, NEW a, NEW k, Joins(v, a, k)
    PROVE  SlotsApart'
  <1>1. /\ Places(v) /\ a \in Areas /\ at'[v] = [in |-> a, slot |-> k]
        /\ k \in DOMAIN slots[a] =>
              ~Inside(LifeOf(v), slots[a][k].life) /\ ~Inside(slots[a][k].life, LifeOf(v))
    BY DEF Joins
  <1>2. /\ v \in SeqSet(Queue) /\ SameFunction
        /\ \A u \in SeqSet(Queue) : u # v => at'[u] = at[u]
    BY <1>1, QueueApart DEF Places
  <1>3. \A u : LifeOf(u)' = LifeOf(u)
    BY <1>2, FunctionStays
  <1>4. ASSUME NEW u \in SeqSet(Queue), u # v, at[u] = [in |-> a, slot |-> k]
        PROVE  ~Inside(LifeOf(v), LifeOf(u)) /\ ~Inside(LifeOf(u), LifeOf(v))
    <2>1. at[u].in = a /\ at[u].slot = k
      BY <1>4
    <2>2. k \in DOMAIN slots[a]
      BY <1>1, <2>1 DEF TInv, SlotsTypeOK, Areas
    <2>3. LifeOf(u) \subseteq slots[a][k].life
      BY <1>1, <1>4, <2>2 DEF PlacedInv, Fills, Sits
    <2> QED BY <1>1, <2>2, <2>3, InsideMore
  <1>5. ASSUME NEW x \in SeqSet(Queue), NEW u \in SeqSet(Queue), NEW c \in Areas, NEW j,
               x # u, at'[x] = [in |-> c, slot |-> j], at'[u] = [in |-> c, slot |-> j]
        PROVE  ~Inside(LifeOf(x), LifeOf(u))
    <2>1. CASE x # v /\ u # v
      <3>1. at[x] = [in |-> c, slot |-> j] /\ at[u] = [in |-> c, slot |-> j]
        BY <1>2, <1>5, <2>1
      <3> QED BY <1>5, <3>1 DEF PlacedInv, SlotsApart, Sits
    <2>2. CASE x = v
      <3>1. c = a /\ j = k /\ u # v
        BY <1>1, <1>5, <2>2
      <3>2. at[u] = [in |-> a, slot |-> k]
        BY <1>2, <1>5, <3>1
      <3> QED BY <1>4, <2>2, <3>1, <3>2
    <2>3. CASE u = v
      <3>1. c = a /\ j = k /\ x # v
        BY <1>1, <1>5, <2>3
      <3>2. at[x] = [in |-> a, slot |-> k]
        BY <1>2, <1>5, <3>1
      <3> QED BY <1>4, <2>3, <3>1, <3>2
    <2> QED BY <2>1, <2>2, <2>3
  <1> QED BY <1>3, <1>5 DEF SlotsApart, Sits

(* What is left to show when a value is placed.                            *)
LEMMA PlacedKeeps ==
    ASSUME TInv, PlacedInv, NEW v, Places(v), NEW a, NEW k, OneSlot(a, k) \/ slots' = slots,
           PlacedWell(v)', at'[v] = Unplaced => LifeOf(v) = {}, Fills', SlotsApart'
    PROVE  PlacedInv'
  <1>1. SameFunction /\ (\A u \in SeqSet(Queue) : u # v => at'[u] = at[u])
        /\ phase' # "propagate"
    BY DEF Places, Advance
  <1>2. \A u : LifeOf(u)' = LifeOf(u)
    BY <1>1, FunctionStays
  <1>3. /\ v \in SeqSet(Queue) /\ n \in DOMAIN Queue
        /\ \A j \in DOMAIN Queue : Queue[j] = v <=> j = n
        /\ \A j \in DOMAIN Queue : j # n => (Waiting(j)' <=> Waiting(j))
        /\ \A j \in DOMAIN Queue : j = n => ~Waiting(j)'
    BY QueueApart
  <1>4. \A j \in DOMAIN Queue : j # n => at'[Queue[j]] = at[Queue[j]]
    BY <1>1, <1>3, QueueFacts
  <1>5. ASSUME NEW j \in DOMAIN Queue
        PROVE  /\ Waiting(j)' => at'[Queue[j]] = Unplaced
               /\ ~Waiting(j)' /\ at'[Queue[j]] = Unplaced => LifeOf(Queue[j]) = {}
    <2>1. CASE j = n
      BY <1>3, <2>1
    <2>2. CASE j # n
      BY <1>3, <1>4, <2>2 DEF PlacedInv
    <2> QED BY <2>1, <2>2
  <1>6. \A u \in SeqSet(Queue) : PlacedWell(u)'
    BY OthersStay
  <1> QED BY <1>1, <1>2, <1>5, <1>6 DEF PlacedInv

(* A value that joins a slot is placed well, and so are all others.        *)
LEMMA JoinKeeps ==
    ASSUME TInv, PlacedInv, NEW v, NEW a, NEW k, Joins(v, a, k)
    PROVE  PlacedInv'
  <1>1. /\ Places(v) /\ a \in Areas /\ k \in DOMAIN slots'[a] /\ OneSlot(a, k)
        /\ at'[v] = [in |-> a, slot |-> k] /\ SizeOf(v) <= slots'[a][k].size
        /\ a = "global" => v \notin locked'
    BY DEF Joins
  <1>2. PlacedWell(v)'
    BY <1>1 DEF PlacedWell, Sits
  <1>3. at'[v] # Unplaced
    BY <1>1 DEF Unplaced, Areas
  <1>4. Fills' /\ SlotsApart'
    BY JoinFills, JoinApart
  <1> QED BY <1>1, <1>2, <1>3, <1>4, PlacedKeeps

(* function_allocator_alloc: a slot of its own.                            *)
LEMMA AllocJoins ==
    ASSUME TInv, PlacedInv, NEW v, Places(v), NEW a \in Areas, NEW u \in BOOLEAN, Alloc(a, v, u),
           a = "global" => v \notin locked'
    PROVE  PlacedInv'
  <1> DEFINE s == [life |-> LifeOf(v), size |-> SizeOf(v), unique |-> u]
             k == Len(slots[a]) + 1
  <1>0. v \in SeqSet(Queue) /\ v \in Value
    BY QueueApart, MemberFacts
  <1>1. s \in Slot /\ s.life = LifeOf(v) /\ s.size = SizeOf(v) /\ SizeOf(v) \in Nat
    BY <1>0, LifeFacts DEF Slot
  <1>2. slots \in [lock : Seq(Slot), global : Seq(Slot)] /\ DOMAIN at = SeqSet(Queue)
    BY DEF TInv, SlotShape
  <1>3. slots' = [slots EXCEPT ![a] = Append(@, s)]
        /\ at' = [at EXCEPT ![v] = [in |-> a, slot |-> k]]
    BY DEF Alloc
  <1> HIDE DEF s
  <1>4. slots[a] \in Seq(Slot)
    BY <1>2 DEF Areas
  <1>5. /\ Len(Append(slots[a], s)) = Len(slots[a]) + 1
        /\ DOMAIN slots[a] = 1 .. Len(slots[a]) /\ Len(slots[a]) \in Nat
        /\ DOMAIN Append(slots[a], s) = 1 .. k
        /\ Append(slots[a], s)[k] = s
        /\ \A j \in 1 .. Len(slots[a]) : Append(slots[a], s)[j] = slots[a][j]
    BY <1>1, <1>4
  <1>6. slots'[a] = Append(slots[a], s)
        /\ \A c \in Areas : c # a => slots'[c] = slots[c]
    BY <1>2, <1>3 DEF Areas
  <1>7. k \notin DOMAIN slots[a] /\ k \in DOMAIN slots'[a] /\ slots'[a][k] = s
        /\ DOMAIN slots[a] \subseteq DOMAIN slots'[a]
        /\ \A j \in DOMAIN slots'[a] : j # k => j \in DOMAIN slots[a] /\ slots'[a][j] = slots[a][j]
    BY <1>5, <1>6
  <1> HIDE DEF k
  <1>8. at'[v] = [in |-> a, slot |-> k]
    BY <1>0, <1>2, <1>3
  <1>9. OneSlot(a, k)
    <2>1. \A c \in Areas : DOMAIN slots[c] \subseteq DOMAIN slots'[c]
      BY <1>6, <1>7
    <2>2. \A c \in Areas : \A j \in DOMAIN slots'[c] :
              <<c, j>> # <<a, k>> => j \in DOMAIN slots[c] /\ slots'[c][j] = slots[c][j]
      BY <1>6, <1>7
    <2>3. \A c \in Areas : \A j \in DOMAIN slots[c] : <<c, j>> # <<a, k>>
      BY <1>7
    <2> QED BY <2>1, <2>2, <2>3 DEF OneSlot
  <1>10. SizeOf(v) <= slots'[a][k].size
    BY <1>1, <1>7
  <1>11. Joins(v, a, k)
    BY <1>1, <1>7, <1>8, <1>9, <1>10 DEF Joins
  <1> QED BY <1>11, JoinKeeps

(* Two sets of ids that the overlap test calls apart are: a value that is  *)
(* written and never read is no exception, for nothing starts with it.     *)
LEMMA SharersApart ==
    ASSUME TInv, PlacedInv, BackedInv, phase = "allocate",
           NEW v \in SeqSet(Queue), v \notin SeqSet(Param),
           NEW a \in Areas, NEW k \in DOMAIN slots[a],
           ~Overlap(RangesOf(LifeOf(v)), RangesOf(slots[a][k].life)),
           at[v] = Unplaced
    PROVE  ~Inside(LifeOf(v), slots[a][k].life) /\ ~Inside(slots[a][k].life, LifeOf(v))
  <1> DEFINE X == LifeOf(v)
             Y == slots[a][k].life
  <1>1. PICK L : Settles(fn, entry, life, locked, L)
    BY DEF BackedInv
  <1>2. entry = Enumerated(fn) /\ fn \in Program
    BY DEF TInv
  <1>3. PICK m \in Nat : \A u, s : <<u, s>> \in life => s \in 0 .. m
    BY <1>1, <1>2, IdsBounded
  <1>4. X \in SUBSET (0 .. m)
    BY <1>3, InLife
  <1>5. \A s : s \in Y <=> \E u \in SeqSet(Queue) : Sits(u, a, k) /\ s \in LifeOf(u)
    BY DEF PlacedInv, Fills
  <1>6. Y \in SUBSET (0 .. m)
    <2>1. ASSUME NEW s \in Y PROVE s \in 0 .. m
      <3>1. PICK u \in SeqSet(Queue) : s \in LifeOf(u)
        BY <1>5, <2>1
      <3> QED BY <1>3, <3>1, InLife
    <2> QED BY <2>1
  <1>7. ~PointMeets(X, Y)
    <2>1. SUFFICES ASSUME NEW s \in X \cap Y, s - 1 \notin X, s + 1 \notin X, s - 1 \notin Y
                   PROVE  FALSE
      BY DEF PointMeets
    <2>2. PICK u \in SeqSet(Queue) : Sits(u, a, k) /\ s \in LifeOf(u)
      BY <1>5, <2>1
    <2>3. s - 1 \notin LifeOf(u)
      BY <1>5, <2>1, <2>2
    <2>4. u # v
      BY <2>2 DEF Sits, Unplaced, Areas
    <2>5. /\ <<v, s>> \in life /\ <<u, s>> \in life
          /\ <<v, s - 1>> \notin life /\ <<v, s + 1>> \notin life /\ <<u, s - 1>> \notin life
      BY <2>1, <2>2, <2>3, InLife
    <2>6. Settles(fn, Enumerated(fn), life, locked, L)
      BY <1>1, <1>2
    <2> QED BY <1>2, <2>4, <2>5, <2>6, NoPointMeets
  <1>8. ~Overlap(RangesOf(X), RangesOf(Y))
    OBVIOUS
  <1> HIDE DEF X, Y
  <1>9. ~Inside(X, Y) /\ ~Inside(Y, X)
    BY <1>3, <1>4, <1>6, <1>7, <1>8, NoOverlapApart
  <1> QED BY <1>9 DEF X, Y

(* ir_function_allocator_assign: the first slot that is free.              *)
LEMMA AssignJoins ==
    ASSUME TInv, PlacedInv, BackedInv, NEW v, Places(v), v \notin SeqSet(Param), NEW a \in Areas,
           Assign(a, v), a = "global" => v \notin locked'
    PROVE  PlacedInv'
  <1> DEFINE usable == {k \in DOMAIN slots[a] : Usable(a, k, v)}
             k == CHOOSE k \in usable : \A j \in usable : k <= j
             s == Join(slots[a][k], v)
  <1>0. v \in SeqSet(Queue) /\ v \in Value /\ phase = "allocate"
    BY QueueApart, MemberFacts DEF Places
  <1>1. slots \in [lock : Seq(Slot), global : Seq(Slot)] /\ DOMAIN at = SeqSet(Queue)
    BY DEF TInv, SlotShape
  <1>2. slots[a] \in Seq(Slot) /\ DOMAIN slots[a] \subseteq Nat /\ Len(slots[a]) \in Nat
        /\ DOMAIN slots[a] = 1 .. Len(slots[a])
    BY <1>1 DEF Areas
  <1>3. CASE usable = {}
    <2>1. Alloc(a, v, FALSE)
      BY <1>3 DEF Assign
    <2> QED BY <2>1, AllocJoins
  <1>4. CASE usable # {}
    <2>1. \E l \in usable : \A j \in usable : l <= j
      BY <1>2, <1>4, LeastOf
    <2>2. k \in usable
      BY <2>1
    <2>3. k \in DOMAIN slots[a] /\ ~Overlap(RangesOf(LifeOf(v)), RangesOf(slots[a][k].life))
      BY <2>2 DEF Usable
    <2>4. slots' = [slots EXCEPT ![a][k] = s]
          /\ at' = [at EXCEPT ![v] = [in |-> a, slot |-> k]]
      BY <1>4 DEF Assign
    <2> HIDE DEF k, usable
    <2>5. /\ s.life = slots[a][k].life \cup LifeOf(v) /\ SizeOf(v) <= s.size
          /\ \A m \in Nat : m <= slots[a][k].size => m <= s.size
      <3>1. slots[a][k] \in Slot
        BY <1>2, <2>3
      <3>2. SizeOf(v) \in Nat
        BY <1>0, LifeFacts
      <3>3. slots[a][k].size \in Nat
        BY <3>1 DEF Slot
      <3>4. /\ s.life = slots[a][k].life \cup LifeOf(v)
            /\ s.size = IF slots[a][k].size < SizeOf(v) THEN SizeOf(v) ELSE slots[a][k].size
        BY <3>1 DEF Join, Slot
      <3> QED BY <3>2, <3>3, <3>4
    <2> HIDE DEF s
    <2>6. /\ slots'[a] = [slots[a] EXCEPT ![k] = s]
          /\ \A c \in Areas : c # a => slots'[c] = slots[c]
      BY <1>1, <2>4 DEF Areas
    <2>7. /\ DOMAIN slots'[a] = DOMAIN slots[a] /\ slots'[a][k] = s
          /\ \A j \in DOMAIN slots[a] : j # k => slots'[a][j] = slots[a][j]
      BY <2>3, <2>6
    <2>8. at'[v] = [in |-> a, slot |-> k]
      BY <1>0, <1>1, <2>4
    <2>9. OneSlot(a, k)
      <3>1. \A c \in Areas : DOMAIN slots[c] = DOMAIN slots'[c]
        BY <2>6, <2>7
      <3>2. \A c \in Areas : \A j \in DOMAIN slots'[c] :
                <<c, j>> # <<a, k>> => slots'[c][j] = slots[c][j]
        BY <2>6, <2>7
      <3>3. \A c \in Areas : \A j \in DOMAIN slots[c] : \A m \in Nat :
                m <= slots[c][j].size => m <= slots'[c][j].size
        <4> TAKE c \in Areas
        <4> TAKE j \in DOMAIN slots[c]
        <4>1. CASE c = a /\ j = k
          BY <2>5, <2>7, <4>1
        <4>2. CASE ~(c = a /\ j = k)
          <5>1. slots'[c][j] = slots[c][j]
            BY <3>1, <3>2, <4>2
          <5> QED BY <5>1
        <4> QED BY <4>1, <4>2
      <3> QED BY <3>1, <3>2, <3>3 DEF OneSlot
    <2>10. at[v] = Unplaced
      BY QueueApart DEF PlacedInv
    <2>11. ~Inside(LifeOf(v), slots[a][k].life) /\ ~Inside(slots[a][k].life, LifeOf(v))
      BY <1>0, <2>3, <2>10, SharersApart
    <2>12. Joins(v, a, k)
      BY <2>3, <2>5, <2>7, <2>8, <2>9, <2>11 DEF Joins
    <2> QED BY <2>12, JoinKeeps
  <1> QED BY <1>3, <1>4

(* No slot changes: the value gets words of a call, or nothing.            *)
LEMMA NoSlotKeeps ==
    ASSUME TInv, PlacedInv, NEW v, Places(v), slots' = slots, NEW place, place.in \notin Areas,
           at'[v] = place, PlacedWell(v)', place = Unplaced => LifeOf(v) = {}
    PROVE  PlacedInv'
  <1>1. v \in SeqSet(Queue) /\ at[v] = Unplaced
    BY QueueApart DEF PlacedInv
  <1>2. at'[v] = place /\ \A u \in SeqSet(Queue) : u # v => at'[u] = at[u]
    BY DEF Places
  <1>3. \A u : LifeOf(u)' = LifeOf(u)
    BY FunctionStays DEF Places
  <1>4. \A u \in SeqSet(Queue) : \A c \in Areas : \A j :
            at'[u] = [in |-> c, slot |-> j] <=> at[u] = [in |-> c, slot |-> j]
    <2> TAKE u \in SeqSet(Queue)
    <2> TAKE c \in Areas
    <2> TAKE j
    <2>1. CASE u = v
      <3>1. at[v] # [in |-> c, slot |-> j]
        BY <1>1 DEF Areas, Unplaced
      <3> QED BY <1>2, <2>1, <3>1
    <2>2. CASE u # v
      BY <1>2, <2>2
    <2> QED BY <2>1, <2>2
  <1>5. Fills'
    BY <1>3, <1>4 DEF PlacedInv, Fills, Sits
  <1>6. SlotsApart'
    BY <1>3, <1>4 DEF PlacedInv, SlotsApart, Sits
  <1> QED BY <1>2, <1>5, <1>6, PlacedKeeps

LEMMA NotParam ==
    ASSUME NEW k \in DOMAIN Queue, ~IsParam(k)
    PROVE  Queue[k] \notin SeqSet(Param)
  <1>1. SUFFICES ASSUME NEW j \in DOMAIN Param, Param[j] = Queue[k] PROVE FALSE
    BY DEF SeqSet
  <1>2. IsParam(j) /\ j \in DOMAIN Queue /\ Queue[j] = Queue[k]
    BY <1>1, QueueFacts
  <1>3. j = k
    BY <1>2, AllocatorAssumption, Zenon DEF AllocatorAssumption
  <1> QED BY <1>2, <1>3

(* Before the first value is placed.                                       *)
LEMMA NothingPlaced ==
    ASSUME slots' = [lock |-> <<>>, global |-> <<>>], \A v \in SeqSet(Queue) : at'[v] = Unplaced,
           \A j \in DOMAIN Queue : Waiting(j)'
    PROVE  PlacedInv'
  <1>1. \A a \in Areas : DOMAIN slots'[a] = {}
    BY DEF Areas
  <1>2. \A v \in SeqSet(Queue) : \A a \in Areas : \A k : at'[v] # [in |-> a, slot |-> k]
    BY DEF Areas, Unplaced
  <1>3. Fills'
    BY <1>1 DEF Fills
  <1>4. SlotsApart'
    BY <1>2 DEF SlotsApart, Sits
  <1>5. \A v \in SeqSet(Queue) : PlacedWell(v)'
    BY DEF PlacedWell
  <1>6. \A j \in DOMAIN Queue : at'[Queue[j]] = Unplaced
    BY QueueFacts
  <1> QED BY <1>3, <1>4, <1>5, <1>6 DEF PlacedInv

LEMMA PlacedInit ==
    ASSUME SlotsInit
    PROVE  PlacedInv
  <1>1. /\ slots = [lock |-> <<>>, global |-> <<>>] /\ phase = "propagate"
        /\ \A v \in SeqSet(Queue) : at[v] = Unplaced
    BY DEF SlotsInit
  <1>2. \A a \in Areas : DOMAIN slots[a] = {}
    BY <1>1 DEF Areas
  <1>3. \A v \in SeqSet(Queue) : \A a \in Areas : \A k : at[v] # [in |-> a, slot |-> k]
    BY <1>1 DEF Areas, Unplaced
  <1>4. Fills
    BY <1>2 DEF Fills
  <1>5. SlotsApart
    BY <1>3 DEF SlotsApart, Sits
  <1>6. \A v \in SeqSet(Queue) : PlacedWell(v)
    BY <1>1 DEF PlacedWell
  <1>7. \A j \in DOMAIN Queue : at[Queue[j]] = Unplaced /\ Waiting(j)
    BY <1>1, QueueFacts DEF Waiting
  <1> QED BY <1>1, <1>4, <1>5, <1>6, <1>7 DEF PlacedInv

LEMMA PlacedPropagate ==
    ASSUME TInv, PlacedInv, PropagateInstr \/ PropagateEntry
    PROVE  PlacedInv'
  <1>1. phase = "propagate" /\ slots' = slots /\ at' = at
    BY DEF PropagateInstr, PropagateEntry
  <1>2. slots = [lock |-> <<>>, global |-> <<>>] /\ \A j \in DOMAIN Queue : at[Queue[j]] = Unplaced
    BY <1>1 DEF PlacedInv, Waiting
  <1>3. \A v \in SeqSet(Queue) : at'[v] = Unplaced
    BY <1>1, <1>2 DEF SeqSet
  <1>4. \/ phase' = "propagate"
        \/ phase' = "allocate" /\ n' = 1
        \/ phase' = "done" /\ Queue = <<>>
    BY <1>1 DEF PropagateInstr, PropagateEntry
  <1>5. DOMAIN Queue = 1 .. Len(Queue) /\ Len(Queue) \in Nat /\ (Queue = <<>> => Len(Queue) = 0)
    BY QueueFacts
  <1>6. \A j \in DOMAIN Queue : Waiting(j)'
    <2>1. CASE phase' = "propagate"
      BY <2>1 DEF Waiting
    <2>2. CASE phase' = "allocate" /\ n' = 1
      <3>1. \A j \in DOMAIN Queue : j >= 1
        BY <1>5
      <3> QED BY <2>2, <3>1 DEF Waiting
    <2>3. CASE Queue = <<>>
      <3>1. DOMAIN Queue = {}
        BY <1>5, <2>3
      <3> QED BY <3>1
    <2> QED BY <1>4, <2>1, <2>2, <2>3
  <1> QED BY <1>1, <1>2, <1>3, <1>6, NothingPlaced

LEMMA PlacedAllocate ==
    ASSUME TInv, BackedInv, PlacedInv,
           \/ AllocateFixed \/ AllocateUnused \/ AllocateShared
           \/ AllocateForCall \/ AllocateResult
    PROVE  PlacedInv'
  <1>0. PICK v : v = Queue[n]
    OBVIOUS
  <1>1. /\ phase = "allocate" /\ Advance /\ SameFunction
        /\ \A u : u # v => (u \in locked' <=> u \in locked)
    BY <1>0 DEF AllocateFixed, AllocateUnused, AllocateShared, AllocateForCall, AllocateResult,
           SameFunction
  <1>2. /\ n \in DOMAIN Queue /\ v \in SeqSet(Queue) /\ DOMAIN at = SeqSet(Queue)
        /\ fixed \in BOOLEAN
    BY <1>0, <1>1, QueueFacts DEF TInv, SlotsTypeOK, SlotShape
  <1>3. \A u, lock : AllocatorOf(u, lock) \in Areas
                    /\ (AllocatorOf(u, lock) = "global" => u \notin lock)
    BY DEF AllocatorOf, Areas
  <1>4. ASSUME \A u \in SeqSet(Queue) : u # v => at'[u] = at[u]
        PROVE  Places(v)
    BY <1>0, <1>1, <1>4 DEF Places
  <1>5. CASE AllocateFixed
    <2>1. Alloc(AllocatorOf(v, locked'), v, fixed)
      BY <1>0, <1>5 DEF AllocateFixed
    <2>2. PICK a \in Areas : Alloc(a, v, fixed) /\ (a = "global" => v \notin locked')
      BY <1>3, <2>1
    <2>3. \A u \in SeqSet(Queue) : u # v => at'[u] = at[u]
      BY <1>2, <2>2 DEF Alloc
    <2> QED BY <1>2, <1>4, <2>2, <2>3, AllocJoins
  <1>6. CASE AllocateShared
    <2>1. locked' = locked /\ Assign(AllocatorOf(v, locked), v) /\ ~IsParam(n)
      BY <1>0, <1>6 DEF AllocateShared, Placed
    <2>2. PICK a \in Areas : Assign(a, v) /\ (a = "global" => v \notin locked')
      BY <1>3, <2>1
    <2>3. \A u \in SeqSet(Queue) : u # v => at'[u] = at[u]
      BY <1>2, <2>2 DEF Assign, Alloc
    <2>4. v \notin SeqSet(Param)
      BY <1>0, <1>2, <2>1, NotParam
    <2> QED BY <1>4, <2>2, <2>3, <2>4, AssignJoins
  <1>7. CASE AllocateUnused
    <2>1. at' = at /\ slots' = slots /\ LifeOf(v) = {}
      BY <1>0, <1>7 DEF AllocateUnused
    <2>2. Places(v)
      BY <1>4, <2>1
    <2>3. at'[v] = Unplaced
      BY <2>1, <2>2, QueueApart DEF PlacedInv
    <2>4. PlacedWell(v)' /\ Unplaced.in \notin Areas
      BY <2>3 DEF PlacedWell, Unplaced, Areas
    <2> QED BY <2>1, <2>2, <2>3, <2>4, NoSlotKeeps
  <1>8. CASE AllocateForCall
    <2> DEFINE place == [in |-> "parm", slot |-> ParmOf(v)]
    <2>1. /\ at' = [at EXCEPT ![v] = place] /\ slots' = slots /\ locked' = locked
          /\ ~IsLocal(n) /\ ForCall(v) /\ v \in SeqSet(At(ReaderOf(v)).params)
      BY <1>0, <1>8 DEF AllocateForCall
    <2>2. at'[v] = place /\ \A u \in SeqSet(Queue) : u # v => at'[u] = at[u]
      BY <1>2, <2>1
    <2>3. Places(v)
      BY <1>4, <2>2
    <2>4. v \in SeqSet(Temp)
      BY <1>0, <1>2, <2>1, QueueFacts
    <2>5. /\ ReaderOf(v)' = ReaderOf(v) /\ ParmOf(v)' = ParmOf(v) /\ (\A x : At(x)' = At(x))
          /\ (ForCall(v)' <=> ForCall(v))
      BY <1>1, <2>1, FunctionStays
    <2>6. PlacedWell(v)'
      BY <2>1, <2>2, <2>4, <2>5 DEF PlacedWell, Sits
    <2>7. place.in \notin Areas /\ place # Unplaced
      BY DEF Areas, Unplaced
    <2> QED BY <2>1, <2>2, <2>3, <2>6, <2>7, NoSlotKeeps
  <1>9. CASE AllocateResult
    <2> DEFINE place == [in |-> "return", slot |-> 1]
    <2>1. /\ at' = [at EXCEPT ![v] = place] /\ slots' = slots /\ locked' = locked
          /\ ~IsLocal(n) /\ IsResult(v)
      BY <1>0, <1>9 DEF AllocateResult
    <2>2. at'[v] = place /\ \A u \in SeqSet(Queue) : u # v => at'[u] = at[u]
      BY <1>2, <2>1
    <2>3. Places(v)
      BY <1>4, <2>2
    <2>4. v \in SeqSet(Temp)
      BY <1>0, <1>2, <2>1, QueueFacts
    <2>5. IsResult(v)' <=> IsResult(v)
      BY <1>1, <2>1, FunctionStays
    <2>6. PlacedWell(v)'
      BY <2>1, <2>2, <2>4, <2>5 DEF PlacedWell, Sits
    <2>7. place.in \notin Areas /\ place # Unplaced
      BY DEF Areas, Unplaced
    <2> QED BY <2>1, <2>2, <2>3, <2>6, <2>7, NoSlotKeeps
  <1> QED BY <1>5, <1>6, <1>7, <1>8, <1>9

LEMMA PlacedNext ==
    ASSUME TInv, BackedInv, PlacedInv, [SlotsNext]_slotsVars
    PROVE  PlacedInv'
  <1>1. CASE UNCHANGED slotsVars
    <2>1. /\ UNCHANGED <<fn, opt, life, locked, phase, n, slots, at>> /\ SameFunction
      BY <1>1 DEF slotsVars, SameFunction
    <2>2. /\ \A v : LifeOf(v)' = LifeOf(v) /\ ReaderOf(v)' = ReaderOf(v) /\ ParmOf(v)' = ParmOf(v)
          /\ \A v : (ForCall(v)' <=> ForCall(v)) /\ (IsResult(v)' <=> IsResult(v))
          /\ \A x : At(x)' = At(x)
      BY <2>1, FunctionStays
    <2>3. \A v : PlacedWell(v)' <=> PlacedWell(v)
      BY <2>1, <2>2 DEF PlacedWell, Sits
    <2>4. (Fills' <=> Fills) /\ (SlotsApart' <=> SlotsApart)
      BY <2>1, <2>2 DEF Fills, SlotsApart, Sits
    <2>5. \A j : Waiting(j)' <=> Waiting(j)
      BY <2>1 DEF Waiting
    <2> QED BY <2>1, <2>2, <2>3, <2>4, <2>5 DEF PlacedInv
  <1> QED BY <1>1, PlacedPropagate, PlacedAllocate DEF SlotsNext

LEMMA PlacedAlways == SlotsSpec => [](TInv /\ BackedInv /\ PlacedInv)
  <1>1. SlotsInit => BackedInv /\ PlacedInv
    BY BackedInit, PlacedInit
  <1>2. TInv /\ (BackedInv /\ PlacedInv) /\ [SlotsNext]_slotsVars => (BackedInv /\ PlacedInv)'
    BY BackedNext, PlacedNext
  <1> QED BY <1>1, <1>2, TypedAlways, PTL DEF SlotsSpec
-----------------------------------------------------------------------------
InstrOf(f) == UNION {{<<b, k>> : k \in DOMAIN f.blocks[b]} : b \in DOMAIN f.blocks}
ReadingOf(f, v) == {x \in InstrOf(f) : \/ v \in SeqSet(Ins(f, x[1], x[2]).in)
                                       \/ v \in SeqSet(Ins(f, x[1], x[2]).params)}

LEMMA TempsWhole ==
    ASSUME NEW f \in Program, NEW x \in InstrOf(f), NEW m \in DOMAIN Member,
           Member[m].of \in SeqSet(Temp)
    PROVE  /\ m \notin SeqSet(Ins(f, x[1], x[2]).out)
           /\ m \in SeqSet(Ins(f, x[1], x[2]).in) =>
                 \A y \in InstrOf(f) : Member[m].of \notin SeqSet(Ins(f, y[1], y[2]).params)
  BY TempAssumption DEF TempAssumption, InstrOf, Ins

LEMMA TempsNested ==
    ASSUME NEW f \in Program, NEW x \in InstrOf(f),
           NEW u \in SeqSet(Temp), NEW v \in SeqSet(Temp), u # v,
           u \in SeqSet(Ins(f, x[1], x[2]).out), Crosses(f, x[1], x[2], v),
           NEW c \in InstrOf(f), NEW d \in InstrOf(f),
           ReadingOf(f, u) = {c}, ReadingOf(f, v) = {d}
    PROVE  c = d \/ Crosses(f, c[1], c[2], v) \/ Crosses(f, d[1], d[2], u)
  <1> DEFINE reading(z) == {y \in InstrOf(f) : z \in SeqSet(f.blocks[y[1]][y[2]].in)
                                                  \cup SeqSet(f.blocks[y[1]][y[2]].params)}
  <1>1. reading(u) = {c} /\ reading(v) = {d}
    BY DEF ReadingOf, Ins
  <1>2. u \in SeqSet(f.blocks[x[1]][x[2]].out)
    BY DEF Ins
  <1>3. \A p \in InstrOf(f), q \in InstrOf(f) : reading(u) = {p} /\ reading(v) = {q} =>
            p = q \/ Crosses(f, p[1], p[2], v) \/ Crosses(f, q[1], q[2], u)
    BY <1>2, TempAssumption, Zenon DEF TempAssumption, InstrOf
  <1> QED BY <1>1, <1>3

LEMMA UnionFinite ==
    ASSUME NEW S, IsFiniteSet(S), NEW g, \A x \in S : IsFiniteSet(g[x])
    PROVE  IsFiniteSet(UNION {g[x] : x \in S})
  <1> DEFINE h == [x \in S |-> g[x]]
             parts == {g[x] : x \in S}
  <1>1. h \in Surjection(S, parts)
    BY DEF Surjection
  <1>2. IsFiniteSet(parts)
    <2> HIDE DEF h, parts
    <2> QED BY <1>1, FS_Surjection
  <1>3. \A T \in parts : IsFiniteSet(T)
    OBVIOUS
  <1> HIDE DEF parts
  <1> QED BY <1>2, <1>3, FS_UNION DEF parts

LEMMA InstrFinite ==
    ASSUME TInv
    PROVE  /\ IsFiniteSet(InstrSet) /\ InstrSet = InstrOf(fn)
           /\ \A x \in InstrSet : At(x) \in Instruction /\ At(x) = Ins(fn, x[1], x[2])
  <1>1. fn \in Program /\ Len(fn.blocks) \in Nat /\ DOMAIN fn.blocks = 1 .. Len(fn.blocks)
    BY Shape DEF TInv
  <1>2. InstrSet = InstrOf(fn)
    BY DEF InstrSet, InstrOf, Blocks
  <1>3. \A x \in InstrSet : At(x) \in Instruction /\ At(x) = Ins(fn, x[1], x[2])
    BY <1>1, InstrSetIs, Shape DEF At, Ins
  <1> DEFINE S == UNION {{b} \X (1 .. Len(fn.blocks[b])) : b \in DOMAIN fn.blocks}
             g == [b \in DOMAIN fn.blocks |-> {b} \X (1 .. Len(fn.blocks[b]))]
  <1>4. InstrSet \subseteq S
    <2>1. ASSUME NEW x \in InstrSet PROVE x \in S
      <3>1. x = <<x[1], x[2]>> /\ x[1] \in DOMAIN fn.blocks /\ x[2] \in 1 .. Len(fn.blocks[x[1]])
        BY InstrSetIs
      <3>2. x \in {x[1]} \X (1 .. Len(fn.blocks[x[1]]))
        BY <3>1
      <3> QED BY <3>1, <3>2
    <2> HIDE DEF S
    <2> QED BY <2>1
  <1>5. \A b \in DOMAIN fn.blocks : IsFiniteSet(g[b])
    <2> TAKE b \in DOMAIN fn.blocks
    <2>1. Len(fn.blocks[b]) \in Int
      BY <1>1, Shape
    <2>2. IsFiniteSet(1 .. Len(fn.blocks[b]))
      BY <2>1, FS_Interval
    <2>3. IsFiniteSet({b})
      BY FS_Singleton
    <2>4. IsFiniteSet({b} \X (1 .. Len(fn.blocks[b])))
      BY <2>2, <2>3, FS_Product
    <2> QED BY <2>4
  <1>6. IsFiniteSet(DOMAIN fn.blocks)
    BY <1>1, FS_Interval
  <1>7. S = UNION {g[b] : b \in DOMAIN fn.blocks}
    OBVIOUS
  <1> HIDE DEF g
  <1>8. IsFiniteSet(UNION {g[b] : b \in DOMAIN fn.blocks})
    BY <1>5, <1>6, UnionFinite
  <1> HIDE DEF S
  <1>9. IsFiniteSet(InstrSet)
    BY <1>4, <1>7, <1>8, FS_Subset
  <1> QED BY <1>2, <1>3, <1>9

(* A count of one over the instructions is one instruction's.              *)
LEMMA OnePlace ==
    ASSUME TInv, NEW places, \A x \in InstrSet : IsFiniteSet(places[x]),
           Cardinality(UNION {{x} \X places[x] : x \in InstrSet}) = 1
    PROVE  \A x \in InstrSet, y \in InstrSet : places[x] # {} /\ places[y] # {} => x = y
  <1> DEFINE g == [x \in InstrSet |-> {x} \X places[x]]
             S == UNION {{x} \X places[x] : x \in InstrSet}
  <1>1. \A x \in InstrSet : IsFiniteSet(g[x])
    <2> TAKE x \in InstrSet
    <2>1. IsFiniteSet({x})
      BY FS_Singleton
    <2>2. IsFiniteSet({x} \X places[x])
      BY <2>1, FS_Product
    <2> QED BY <2>2
  <1>2. S = UNION {g[x] : x \in InstrSet}
    OBVIOUS
  <1>3. IsFiniteSet(S)
    <2> HIDE DEF g, S
    <2>1. IsFiniteSet(InstrSet)
      BY InstrFinite
    <2>2. IsFiniteSet(UNION {g[x] : x \in InstrSet})
      BY <1>1, <2>1, UnionFinite
    <2> QED BY <1>2, <2>2
  <1> HIDE DEF g
  <1>4. ASSUME NEW x \in InstrSet, NEW k \in places[x] PROVE <<x, k>> \in S
    <2>1. <<x, k>> \in {x} \X places[x]
      OBVIOUS
    <2> QED BY <2>1
  <1>5. Cardinality(S) = 1
    OBVIOUS
  <1> HIDE DEF S
  <1>6. PICK e : S = {e}
    BY <1>3, <1>5, FS_Singleton
  <1> QED BY <1>4, <1>6

(* m_reads counts one: there is one instruction that reads it.             *)
LEMMA OneReader ==
    ASSUME TInv, NEW v, Reads(v) = 1
    PROVE  /\ ReaderOf(v) \in InstrSet
           /\ ReadingOf(fn, v) = {ReaderOf(v)}
  <1> DEFINE places == [x \in InstrSet |-> PlacesOf(Operands(At(x)), v)]
  <1>1. \A x \in InstrSet : /\ At(x).in \in Seq(Value) /\ At(x).params \in Seq(Value)
                            /\ At(x) = Ins(fn, x[1], x[2])
    BY InstrFinite DEF Instruction
  <1>2. \A x \in InstrSet : v \in SeqSet(At(x).in) \cup SeqSet(At(x).params) =>
            PlacesOf(Operands(At(x)), v) # {}
    <2> TAKE x \in InstrSet
    <2> HAVE v \in SeqSet(At(x).in) \cup SeqSet(At(x).params)
    <2> DEFINE s == At(x).in
               t == At(x).params
    <2>1. s \in Seq(Value) /\ t \in Seq(Value) /\ Operands(At(x)) = s \o t
      BY <1>1 DEF Operands
    <2>2. v \in SeqSet(s) \cup SeqSet(t)
      OBVIOUS
    <2> HIDE DEF s, t
    <2>3. /\ s \o t \in Seq(Value) /\ Len(s \o t) = Len(s) + Len(t)
          /\ \A j \in 1 .. Len(s) + Len(t) :
                (s \o t)[j] = IF j <= Len(s) THEN s[j] ELSE t[j - Len(s)]
      BY <2>1, ConcatProperties
    <2>4. /\ DOMAIN s = 1 .. Len(s) /\ DOMAIN t = 1 .. Len(t)
          /\ Len(s) \in Nat /\ Len(t) \in Nat
          /\ DOMAIN (s \o t) = 1 .. Len(s) + Len(t)
      BY <2>1, <2>3
    <2>5. \E j \in DOMAIN (s \o t) : (s \o t)[j] = v
      <3>1. CASE v \in SeqSet(s)
        <4>1. PICK j \in 1 .. Len(s) : s[j] = v
          BY <2>4, <3>1 DEF SeqSet
        <4>2. j \in 1 .. Len(s) + Len(t) /\ j <= Len(s)
          BY <2>4
        <4> QED BY <2>3, <2>4, <4>1, <4>2
      <3>2. CASE v \in SeqSet(t)
        <4>1. PICK j \in 1 .. Len(t) : t[j] = v
          BY <2>4, <3>2 DEF SeqSet
        <4>2. Len(s) + j \in 1 .. Len(s) + Len(t) /\ ~(Len(s) + j <= Len(s))
              /\ (Len(s) + j) - Len(s) = j
          BY <2>4
        <4>3. (s \o t)[Len(s) + j] = t[(Len(s) + j) - Len(s)]
          BY <2>3, <4>2
        <4> QED BY <2>4, <4>1, <4>2, <4>3
      <3> QED BY <2>2, <3>1, <3>2
    <2> QED BY <2>1, <2>5 DEF PlacesOf
  <1>3. \A x \in InstrSet : IsFiniteSet(places[x])
    <2> TAKE x \in InstrSet
    <2>1. Operands(At(x)) \in Seq(Value)
      BY <1>1, ConcatProperties DEF Operands
    <2>2. DOMAIN Operands(At(x)) = 1 .. Len(Operands(At(x))) /\ Len(Operands(At(x))) \in Nat
      BY <2>1
    <2>3. IsFiniteSet(DOMAIN Operands(At(x)))
      BY <2>2, FS_Interval
    <2>4. PlacesOf(Operands(At(x)), v) \subseteq DOMAIN Operands(At(x))
      BY DEF PlacesOf
    <2>5. IsFiniteSet(PlacesOf(Operands(At(x)), v))
      BY <2>3, <2>4, FS_Subset
    <2> QED BY <2>5
  <1>4. Cardinality(UNION {{x} \X places[x] : x \in InstrSet}) = 1
    BY DEF Reads
  <1>5. \A x \in InstrSet : places[x] = PlacesOf(Operands(At(x)), v)
    OBVIOUS
  <1> HIDE DEF places
  <1>6. \A x \in InstrSet, y \in InstrSet : places[x] # {} /\ places[y] # {} => x = y
    BY <1>3, <1>4, OnePlace
  <1>7. ReaderOf(v) \in InstrSet
        /\ v \in SeqSet(At(ReaderOf(v)).in) \cup SeqSet(At(ReaderOf(v)).params)
    BY ReaderReads
  <1>8. \A x : x \in ReadingOf(fn, v) <=>
            x \in InstrSet /\ v \in SeqSet(At(x).in) \cup SeqSet(At(x).params)
    BY <1>1, InstrFinite DEF ReadingOf
  <1>9. \A x \in ReadingOf(fn, v) : x = ReaderOf(v)
    BY <1>2, <1>5, <1>6, <1>7, <1>8
  <1> QED BY <1>7, <1>8, <1>9

(* m_writes counts one: there is one instruction that writes it.           *)
LEMMA OneWriter ==
    ASSUME TInv, NEW v, Writes(v) = 1, NEW x \in InstrSet, v \in SeqSet(At(x).out)
    PROVE  x = WriterOf(v)
  <1> DEFINE places == [y \in InstrSet |-> PlacesOf(At(y).out, v)]
  <1>1. \A y \in InstrSet : At(y).out \in Seq(Value)
    BY InstrFinite DEF Instruction
  <1>2. \A y \in InstrSet : IsFiniteSet(places[y])
    <2> TAKE y \in InstrSet
    <2>1. DOMAIN At(y).out = 1 .. Len(At(y).out) /\ Len(At(y).out) \in Nat
      BY <1>1
    <2>2. IsFiniteSet(DOMAIN At(y).out)
      BY <2>1, FS_Interval
    <2>3. PlacesOf(At(y).out, v) \subseteq DOMAIN At(y).out
      BY DEF PlacesOf
    <2>4. IsFiniteSet(PlacesOf(At(y).out, v))
      BY <2>2, <2>3, FS_Subset
    <2> QED BY <2>4
  <1>3. Cardinality(UNION {{y} \X places[y] : y \in InstrSet}) = 1
    BY DEF Writes
  <1>4. \A y \in InstrSet : places[y] = PlacesOf(At(y).out, v)
    OBVIOUS
  <1> HIDE DEF places
  <1>5. \A y \in InstrSet, z \in InstrSet : places[y] # {} /\ places[z] # {} => y = z
    BY <1>2, <1>3, OnePlace
  <1>6. PlacesOf(At(x).out, v) # {}
    BY DEF SeqSet, PlacesOf
  <1>7. WriterOf(v) \in InstrSet /\ PlacesOf(At(WriterOf(v)).out, v) # {}
    BY <1>6 DEF WriterOf
  <1> QED BY <1>4, <1>5, <1>6, <1>7
-----------------------------------------------------------------------------
(* What is alive around an instruction, in the terms of the points.        *)
LEMMA AliveAround ==
    ASSUME NEW f \in Program, NEW E, E = Enumerated(f), NEW lives, NEW lock, NEW L,
           Settles(f, E, lives, lock, L),
           NEW b \in DOMAIN f.blocks, NEW k \in Nat, k \in 1 .. Len(f.blocks[b])
    PROVE  /\ \A v \in L[<<b, k - 1>>] : <<v, E[b] + k>> \in lives /\ <<v, E[b] + k - 1>> \in lives
           /\ \A v \in L[<<b, k>>] : k < Len(f.blocks[b]) => <<v, E[b] + k + 1>> \in lives
           /\ LivesBefore(Ins(f, b, k), L[<<b, k>>]) \subseteq L[<<b, k - 1>>]
  <1>1. Marked(f, E, lives, L, 0, 0) /\ Exact(f, L, 0, 0)
    BY DEF Settles, Solved
  <1>2. b \in Nat /\ b > 0 /\ E[b] \in Nat /\ Len(f.blocks[b]) \in Nat
    BY Shape, EntriesApart
  <1>3. L[<<b, k - 1>>] \X {E[b] + k} \subseteq lives
    BY <1>1 DEF Marked
  <1>4. L[<<b, k - 1>>] \X {E[b] + k - 1} \subseteq lives
    <2>1. CASE k = 1
      <3>1. <<b, k - 1>> = <<b, 0>> /\ <<b, 0>> # <<0, 0>> /\ E[b] + k - 1 = E[b]
        BY <1>2, <2>1
      <3>2. L[<<b, 0>>] \X {E[b]} \subseteq lives
        BY <1>1, <3>1 DEF Marked
      <3> QED BY <3>1, <3>2
    <2>2. CASE k # 1
      <3> DEFINE j == k - 1
      <3>1. j \in Nat /\ j \in 1 .. Len(f.blocks[b]) /\ E[b] + k - 1 = E[b] + j
        BY <1>2, <2>2
      <3> HIDE DEF j
      <3>2. <<b, j>> # <<0, 0>>
        BY <1>2
      <3>3. L[<<b, j>>] \X {E[b] + j} \subseteq lives
        BY <1>1, <3>1, <3>2 DEF Marked
      <3> QED BY <3>1, <3>3 DEF j
    <2> QED BY <2>1, <2>2
  <1>5. ASSUME k < Len(f.blocks[b])
        PROVE  L[<<b, k>>] \X {E[b] + k + 1} \subseteq lives
    <2> DEFINE j == k + 1
    <2>1. j \in Nat /\ j \in 1 .. Len(f.blocks[b]) /\ E[b] + k + 1 = E[b] + j /\ j - 1 = k
      BY <1>2, <1>5
    <2> HIDE DEF j
    <2>2. L[<<b, j - 1>>] \X {E[b] + j} \subseteq lives
      BY <1>1, <2>1 DEF Marked
    <2> QED BY <2>1, <2>2
  <1>6. LivesBefore(Ins(f, b, k), L[<<b, k>>]) \subseteq L[<<b, k - 1>>]
    BY <1>1, <1>2 DEF Exact
  <1> QED BY <1>3, <1>4, <1>5, <1>6

(* A value is alive around an instruction: before, at and behind it.       *)
Around(v, id) == {id - 1, id, id + 1} \subseteq LifeOf(v)

(* A value that is needed beyond an instruction that leaves it as it is.   *)
LEMMA CrossingLives ==
    ASSUME NoSelfLoops, TInv, BackedInv, phase # "propagate", NEW x \in InstrSet,
           NEW w \in Words, NeededAfter(fn, x[1], x[2], w), Unwritten(fn, x[1], x[2], x[2], w)
    PROVE  /\ Eid(x[1], x[2]) \in LifeOf(w[1])
           /\ x[2] < Len(fn.blocks[x[1]]) => Around(w[1], Eid(x[1], x[2]))
           /\ At(x).op = "call" => w[1] \in locked
  <1> DEFINE b == x[1]
             k == x[2]
             v == w[1]
             ins == Ins(fn, b, k)
  <1>1. PICK L : Settles(fn, entry, life, locked, L)
    BY DEF BackedInv
  <1>2. fn \in Program /\ entry = Enumerated(fn)
    BY DEF TInv
  <1>3. /\ b \in DOMAIN fn.blocks /\ k \in Nat /\ k \in 1 .. Len(fn.blocks[b])
        /\ At(x) = ins /\ Eid(b, k) = entry[b] + k
    BY InstrSetIs, InstrFinite DEF Eid
  <1>4. Exact(fn, L, 0, 0) /\ Joined(fn, L, 0) /\ CallsHold(fn, locked, L, 0, 0)
    BY <1>1 DEF Settles, Solved, Backed
  <1>5. Covers(L[<<b, k>>], w)
    <2>1. k \in 1 .. Len(fn.blocks[b]) /\ NeededAfter(fn, b, k, w)
      BY <1>3
    <2> HIDE DEF b, k
    <2> QED BY <1>2, <1>3, <1>4, <2>1, NeedCovered
  <1>6. \A o \in SeqSet(ins.out) : w \notin WordsOf(o)
    <2>1. k \in k .. k
      BY <1>3
    <2> QED BY <2>1 DEF Unwritten
  <1> HIDE DEF b, k, ins
  <1>7. w[1] \in LivesBehind(ins, L[<<b, k>>])
    BY <1>5, <1>6, StaysCovered
  <1>8. v \in L[<<b, k>>] /\ v \in LivesBefore(ins, L[<<b, k>>])
    BY <1>7 DEF LivesBehind, LivesBefore
  <1>9. /\ \A u \in L[<<b, k - 1>>] :
              <<u, entry[b] + k>> \in life /\ <<u, entry[b] + k - 1>> \in life
        /\ \A u \in L[<<b, k>>] : k < Len(fn.blocks[b]) => <<u, entry[b] + k + 1>> \in life
        /\ LivesBefore(ins, L[<<b, k>>]) \subseteq L[<<b, k - 1>>]
    BY <1>1, <1>2, <1>3, AliveAround DEF ins
  <1>10. v \in L[<<b, k - 1>>]
    BY <1>8, <1>9
  <1>11. At(x).op = "call" => v \in locked
    <2>1. <<b, k>> # <<0, 0>>
      BY <1>2, <1>3, Shape
    <2>2. At(x).op = "call" => LivesBehind(ins, L[<<b, k>>]) \subseteq locked
      BY <1>3, <1>4, <2>1 DEF CallsHold, ins
    <2> QED BY <1>7, <2>2
  <1>12. /\ entry[b] + k \in LifeOf(v) /\ entry[b] + k - 1 \in LifeOf(v)
         /\ k < Len(fn.blocks[b]) => entry[b] + k + 1 \in LifeOf(v)
    BY <1>8, <1>9, <1>10, InLife
  <1>13. Eid(b, k) \in LifeOf(v)
    BY <1>3, <1>12
  <1>14. k < Len(fn.blocks[b]) => Around(v, Eid(b, k))
    <2> PICK id : id = Eid(b, k)
      OBVIOUS
    <2>1. id = entry[b] + k /\ entry[b] \in Nat /\ k \in Nat
      BY <1>2, <1>3, EntriesApart
    <2>2. k < Len(fn.blocks[b]) => id - 1 \in LifeOf(v) /\ id \in LifeOf(v) /\ id + 1 \in LifeOf(v)
      BY <1>12, <2>1
    <2> QED BY <2>2 DEF Around
  <1> QED BY <1>11, <1>13, <1>14 DEF b, k

(* A value that an instruction writes, or writes a component of.           *)
LEMMA WrittenLives ==
    ASSUME NoSelfLoops, \A f \in Program : ~HasDeadComponent(f),
           TInv, BackedInv, phase # "propagate",
           NEW x \in InstrSet, NEW o \in SeqSet(At(x).out)
    PROVE  Eid(x[1], x[2]) \in LifeOf(Root(o)) /\ x[2] < Len(fn.blocks[x[1]])
  <1> DEFINE b == x[1]
             k == x[2]
             ins == Ins(fn, b, k)
  <1>1. PICK L : Settles(fn, entry, life, locked, L)
    BY DEF BackedInv
  <1>2. fn \in Program /\ entry = Enumerated(fn)
    BY DEF TInv
  <1>3. /\ b \in DOMAIN fn.blocks /\ k \in Nat /\ k \in 1 .. Len(fn.blocks[b])
        /\ At(x) = ins /\ Eid(b, k) = entry[b] + k /\ Len(fn.blocks[b]) \in Nat
    BY <1>2, InstrSetIs, InstrFinite, Shape DEF Eid
  <1> HIDE DEF b, k, ins
  <1>4. k < Len(fn.blocks[b])
    <2>1. SUFFICES ASSUME k = Len(fn.blocks[b]) PROVE FALSE
      BY <1>3
    <2>2. ins.out = <<>>
      BY <1>2, <1>3, <2>1, InstructionFacts DEF ins
    <2> QED BY <1>3, <2>2 DEF SeqSet
  <1>5. CASE o \notin DOMAIN Member
    <2>1. Root(o) = o
      BY <1>5 DEF Root
    <2>2. Effects(fn, entry, life, 0, 0)
      BY <1>1 DEF Settles, Backed
    <2>3. b > 0
      BY <1>2, <1>3, Shape
    <2>4. SeqSet(ins.out) \X {entry[b] + k} \subseteq life
      BY <1>3, <2>2, <2>3 DEF Effects, ins
    <2>5. <<o, entry[b] + k>> \in life
      BY <1>3, <2>4
    <2>6. Eid(b, k) \in LifeOf(Root(o))
      BY <1>3, <2>1, <2>5, InLife
    <2> QED BY <1>4, <2>6 DEF b, k
  <1>6. CASE o \in DOMAIN Member
    <2>1. o \in SeqSet(fn.blocks[b][k].out) \cap DOMAIN Member /\ k \in DOMAIN fn.blocks[b]
      BY <1>2, <1>3, <1>6, Shape DEF ins, Ins
    <2>2. PICK w \in WordsOf(o) : NeededAfter(fn, b, k, w)
      BY <1>2, <1>3, <2>1 DEF HasDeadComponent
    <2>3. w \in Words /\ w[1] = Root(o)
      <3>1. o \in Value
        BY <1>6, MemberFacts
      <3> QED BY <1>6, <2>2, <3>1 DEF Words, WordsOf, Root
    <2>4. Solved(fn, entry, life, L)
      BY <1>1 DEF Settles
    <2>5. <<w[1], entry[b] + k>> \in life
      BY <1>2, <1>3, <2>2, <2>3, <2>4, SolutionCovers
    <2>6. Eid(b, k) \in LifeOf(Root(o))
      BY <1>3, <2>3, <2>5, InLife
    <2> QED BY <1>4, <2>6 DEF b, k
  <1> QED BY <1>5, <1>6

(* An operand that the engine may read again.                              *)
LEMMA KeptLives ==
    ASSUME TInv, BackedInv, phase # "propagate", NEW x \in InstrSet, NEW v \in At(x).kept
    PROVE  Around(Root(v), Eid(x[1], x[2])) /\ At(x).op = "op" /\ v \in SeqSet(At(x).in)
  <1> DEFINE b == x[1]
             k == x[2]
             ins == Ins(fn, b, k)
             q == Root(v)
  <1>1. PICK L : Settles(fn, entry, life, locked, L)
    BY DEF BackedInv
  <1>2. fn \in Program /\ entry = Enumerated(fn)
    BY DEF TInv
  <1>3. /\ b \in DOMAIN fn.blocks /\ k \in Nat /\ k \in 1 .. Len(fn.blocks[b])
        /\ At(x) = ins /\ Eid(b, k) = entry[b] + k
    BY InstrSetIs, InstrFinite DEF Eid
  <1> HIDE DEF b, k, ins
  <1>4. At(x).op = "op" /\ v \in SeqSet(At(x).in)
    BY <1>2, <1>3, InstructionFacts DEF ins
  <1>5. q = v \/ q \in OwnersOf(v)
    BY DEF OwnersOf
  <1>6. q \in KeptOf(ins) /\ q \in Started(SeqSet(ins.in))
    BY <1>3, <1>4, <1>5 DEF KeptOf, Started
  <1> HIDE DEF q
  <1>7. q \in LivesBefore(ins, L[<<b, k>>])
    BY <1>6 DEF LivesBefore, Begun
  <1>8. /\ \A u \in L[<<b, k - 1>>] :
              <<u, entry[b] + k>> \in life /\ <<u, entry[b] + k - 1>> \in life
        /\ LivesBefore(ins, L[<<b, k>>]) \subseteq L[<<b, k - 1>>]
    BY <1>1, <1>2, <1>3, AliveAround DEF ins
  <1>9. KeptOf(ins) \X {entry[b] + k + 1} \subseteq life
    <2>1. Effects(fn, entry, life, 0, 0)
      BY <1>1 DEF Settles, Backed
    <2>2. b > 0
      BY <1>2, <1>3, Shape
    <2> QED BY <1>3, <2>1, <2>2 DEF Effects, ins
  <1>10. <<q, entry[b] + k>> \in life /\ <<q, entry[b] + k - 1>> \in life
         /\ <<q, entry[b] + k + 1>> \in life
    BY <1>6, <1>7, <1>8, <1>9
  <1>11. Around(q, Eid(b, k))
    <2> PICK id : id = Eid(b, k)
      OBVIOUS
    <2>1. id = entry[b] + k /\ entry[b] \in Nat /\ k \in Nat
      BY <1>2, <1>3, EntriesApart
    <2>2. <<q, id>> \in life /\ <<q, id - 1>> \in life /\ <<q, id + 1>> \in life
      BY <1>10, <2>1
    <2>3. id - 1 \in LifeOf(q) /\ id \in LifeOf(q) /\ id + 1 \in LifeOf(q)
      BY <2>2, InLife
    <2> QED BY <2>3 DEF Around
  <1> QED BY <1>4, <1>11 DEF b, k, q
-----------------------------------------------------------------------------
(* Slots follow one another, each as large as the largest value in it.     *)
LEMMA PositionsApart ==
    ASSUME TInv, NEW a \in Areas
    PROVE  /\ \A k \in DOMAIN slots[a] : Position(a, k) \in Nat
           /\ \A j, k \in DOMAIN slots[a] :
                 j < k => Position(a, k) >= Position(a, j) + slots[a][j].size
  <1> DEFINE N == Len(slots[a])
             cells(c) == {c} \X (1 .. slots[a][c].size)
             upTo(b) == UNION {cells(c) : c \in 1 .. b - 1}
  <1>1. N \in Nat /\ DOMAIN slots[a] = 1 .. N
        /\ \A c \in 1 .. N : slots[a][c].size \in Nat
    <2>1. slots[a] \in Seq(Slot)
      BY DEF TInv, SlotShape, Areas
    <2>2. \A c \in DOMAIN slots[a] : slots[a][c] \in Slot
      BY <2>1
    <2> QED BY <2>1, <2>2 DEF Slot
  <1>2. \A c \in 1 .. N : IsFiniteSet(cells(c)) /\ Cardinality(cells(c)) = slots[a][c].size
    <2> TAKE c \in 1 .. N
    <2>1. IsFiniteSet({c}) /\ Cardinality({c}) = 1
      BY FS_Singleton
    <2>2. slots[a][c].size \in Nat
      BY <1>1
    <2>3. IsFiniteSet(1 .. slots[a][c].size)
          /\ Cardinality(1 .. slots[a][c].size) = slots[a][c].size
      <3>1. 1 \in Int /\ slots[a][c].size \in Int
        BY <2>2
      <3>2. /\ IsFiniteSet(1 .. slots[a][c].size)
            /\ Cardinality(1 .. slots[a][c].size) =
                  IF 1 > slots[a][c].size THEN 0 ELSE slots[a][c].size - 1 + 1
        BY <3>1, FS_Interval
      <3> QED BY <2>2, <3>2
    <2>4. /\ IsFiniteSet({c} \X (1 .. slots[a][c].size))
          /\ Cardinality({c} \X (1 .. slots[a][c].size)) =
                Cardinality({c}) * Cardinality(1 .. slots[a][c].size)
      BY <2>1, <2>3, FS_Product, Zenon
    <2> QED BY <2>1, <2>2, <2>3, <2>4
  <1>3. \A c, d \in 1 .. N : c # d => cells(c) \cap cells(d) = {}
    OBVIOUS
  <1>0. \A k : Position(a, k) = Cardinality(upTo(k))
    BY DEF Position
  <1> HIDE DEF cells
  <1>4. \A b \in 1 .. N : IsFiniteSet(upTo(b)) /\ Cardinality(upTo(b)) \in Nat
    <2> TAKE b \in 1 .. N
    <2>1. \A c \in 1 .. b - 1 : c \in 1 .. N
      BY <1>1
    <2> DEFINE g == [c \in 1 .. b - 1 |-> cells(c)]
    <2>2. IsFiniteSet(1 .. b - 1) /\ \A c \in 1 .. b - 1 : IsFiniteSet(g[c])
      BY <1>2, <2>1, FS_Interval
    <2>3. upTo(b) = UNION {g[c] : c \in 1 .. b - 1}
      OBVIOUS
    <2> HIDE DEF upTo, g
    <2>4. IsFiniteSet(upTo(b))
      BY <2>2, <2>3, UnionFinite
    <2> QED BY <2>4, FS_CardinalityType
  <1>5. ASSUME NEW b \in 1 .. N, NEW c \in 1 .. N, c < b
        PROVE  Cardinality(upTo(b)) >= Cardinality(upTo(c)) + slots[a][c].size
    <2>1. upTo(c) \cup cells(c) \subseteq upTo(b)
      <3>1. c \in 1 .. b - 1 /\ \A d \in 1 .. c - 1 : d \in 1 .. b - 1
        BY <1>1, <1>5
      <3> QED BY <3>1
    <2>2. upTo(c) \cap cells(c) = {}
      <3>1. \A d \in 1 .. c - 1 : d \in 1 .. N /\ d # c
        BY <1>1
      <3> QED BY <1>3, <3>1
    <2> HIDE DEF upTo
    <2>3. /\ IsFiniteSet(upTo(c) \cup cells(c))
          /\ Cardinality(upTo(c) \cup cells(c)) =
                Cardinality(upTo(c)) + Cardinality(cells(c)) - Cardinality(upTo(c) \cap cells(c))
      BY <1>2, <1>4, FS_Union
    <2>4. Cardinality(upTo(c) \cup cells(c)) <= Cardinality(upTo(b))
      BY <1>4, <2>1, FS_Subset
    <2>5. Cardinality(upTo(c) \cap cells(c)) = 0
      BY <2>2, FS_EmptySet
    <2> QED BY <1>1, <1>2, <1>4, <2>3, <2>4, <2>5
  <1> HIDE DEF upTo
  <1> QED BY <1>0, <1>1, <1>4, <1>5

(* A word's value, and its place in it.                                    *)
LEMMA WordParts ==
    ASSUME NEW w \in Words
    PROVE  /\ w = <<w[1], w[2]>> /\ w[1] \in SeqSet(Queue) /\ w[1] \in Value
           /\ w[2] \in Nat /\ w[2] < SizeOf(w[1]) /\ SizeOf(w[1]) \in Nat
           /\ SizeOf(w[1]) <= VectorSize
           /\ \A o : w \in WordsOf(o) => w[1] = Root(o)
  <1>1. w[1] \notin DOMAIN Member /\ w \in WordsOf(w[1])
    BY WordFacts
  <1>2. PICK k \in 0 .. SizeOf(w[1]) - 1 : w = <<w[1], k>>
    BY <1>1 DEF WordsOf
  <1>3. SizeOf(w[1]) \in Nat /\ SizeOf(w[1]) <= VectorSize /\ VectorSize \in Nat
    BY MemberFacts DEF SizeOf
  <1>4. w[2] \in Nat /\ w[2] < SizeOf(w[1])
    BY <1>2, <1>3
  <1>5. w[1] \in SeqSet(Queue)
    <2>1. PICK o \in Value : w \in WordsOf(o)
      BY DEF Words
    <2>2. CASE o \in DOMAIN Member
      BY <2>1, <2>2, WordFacts, MemberFacts
    <2>3. CASE o \notin DOMAIN Member
      <3>1. o = w[1]
        BY <2>1, <2>3, WordFacts
      <3> QED BY <2>1, <2>3, <3>1 DEF Value
    <2> QED BY <2>2, <2>3
  <1>6. \A o : w \in WordsOf(o) => w[1] = Root(o)
    BY WordFacts DEF Root
  <1> QED BY <1>2, <1>3, <1>4, <1>5, <1>6, MemberFacts

(* Where a value that has a place may be.                                  *)
InSlot(v, a, k) == /\ at[v].in = a /\ at[v].slot = k /\ Sits(v, a, k)
                   /\ k \in DOMAIN slots[a] /\ SizeOf(v) <= slots[a][k].size
                   /\ a = "global" => v \notin locked
InParm(v) == /\ at[v].in = "parm" /\ at[v].slot = ParmOf(v) /\ v \in SeqSet(Temp)
             /\ ForCall(v) /\ v \in SeqSet(At(ReaderOf(v)).params)
InReturn(v) == at[v].in = "return" /\ v \in SeqSet(Temp) /\ IsResult(v)

(* A value with a place is in a slot, or waits in a parameter's or the     *)
(* result's words.                                                         *)
LEMMA PlaceIs ==
    ASSUME PlacedInv, NEW v \in SeqSet(Queue), at[v] # Unplaced
    PROVE  \/ \E a \in Areas : \E k : InSlot(v, a, k)
           \/ InParm(v)
           \/ InReturn(v)
  <1>1. PlacedWell(v)
    BY DEF PlacedInv
  <1>2. CASE \E a \in Areas : \E k \in DOMAIN slots[a] :
                /\ Sits(v, a, k) /\ SizeOf(v) <= slots[a][k].size
                /\ a = "global" => v \notin locked
    <2>1. PICK a \in Areas : \E k \in DOMAIN slots[a] :
                /\ Sits(v, a, k) /\ SizeOf(v) <= slots[a][k].size
                /\ a = "global" => v \notin locked
      BY <1>2
    <2>2. PICK k \in DOMAIN slots[a] :
                /\ Sits(v, a, k) /\ SizeOf(v) <= slots[a][k].size
                /\ a = "global" => v \notin locked
      BY <2>1
    <2>3. at[v].in = a /\ at[v].slot = k
      BY <2>2 DEF Sits
    <2> QED BY <2>2, <2>3 DEF InSlot
  <1>3. CASE /\ Sits(v, "parm", ParmOf(v)) /\ v \in SeqSet(Temp)
             /\ ForCall(v) /\ v \in SeqSet(At(ReaderOf(v)).params)
    <2>1. at[v].in = "parm" /\ at[v].slot = ParmOf(v)
      BY <1>3 DEF Sits
    <2> QED BY <1>3, <2>1 DEF InParm
  <1>4. CASE Sits(v, "return", 1) /\ v \in SeqSet(Temp) /\ IsResult(v)
    <2>1. at[v].in = "return"
      BY <1>4 DEF Sits
    <2> QED BY <1>4, <2>1 DEF InReturn
  <1> QED BY <1>1, <1>2, <1>3, <1>4 DEF PlacedWell

(* Words of values in different slots have different places.               *)
LEMMA SlotWordsApart ==
    ASSUME TInv, PlacedInv, NEW w \in Words, NEW z \in Words, Place(w) = Place(z),
           NEW a \in Areas, NEW k, Sits(w[1], a, k), at[z[1]] # Unplaced
    PROVE  Sits(z[1], a, k)
  <1> DEFINE v == w[1]
             u == z[1]
  <1>1. /\ v \in SeqSet(Queue) /\ u \in SeqSet(Queue)
        /\ w[2] \in Nat /\ z[2] \in Nat /\ SizeOf(v) \in Nat /\ SizeOf(u) \in Nat
        /\ w[2] < SizeOf(v) /\ z[2] < SizeOf(u)
    BY WordParts
  <1>2. at[v] = [in |-> a, slot |-> k] /\ at[v].in = a /\ at[v].slot = k /\ at[v] # Unplaced
    BY DEF Sits, Areas, Unplaced
  <1>3. Area(v) = a /\ BaseOf(v) = Position(a, k)
    BY <1>2 DEF Area, BaseOf, Areas
  <1>4. Area(u) = at[u].in
    BY DEF Area
  <1>5. at[u].in = a /\ BaseOf(v) + w[2] = BaseOf(u) + z[2]
    BY <1>3, <1>4 DEF Place
  <1>6. ASSUME NEW y \in SeqSet(Queue), at[y] # Unplaced, at[y].in = a
        PROVE  \E j : InSlot(y, a, j)
    <2>1. ~InParm(y) /\ ~InReturn(y)
      BY <1>6 DEF InParm, InReturn, Areas
    <2>2. \E c \in Areas : \E j : InSlot(y, c, j)
      BY <1>6, <2>1, PlaceIs
    <2> QED BY <1>6, <2>2 DEF InSlot
  <1>7. k \in DOMAIN slots[a] /\ SizeOf(v) <= slots[a][k].size
    <2>1. PICK j : InSlot(v, a, j)
      BY <1>1, <1>2, <1>6
    <2> QED BY <1>2, <2>1 DEF InSlot
  <1>8. PICK j \in DOMAIN slots[a] :
           Sits(u, a, j) /\ SizeOf(u) <= slots[a][j].size /\ at[u].slot = j
    <2>1. PICK j : InSlot(u, a, j)
      BY <1>1, <1>5, <1>6
    <2> QED BY <2>1 DEF InSlot
  <1>9. BaseOf(u) = Position(a, j)
    BY <1>5, <1>8 DEF BaseOf, Areas
  <1>10. /\ Position(a, k) \in Nat /\ Position(a, j) \in Nat
         /\ k < j => Position(a, j) >= Position(a, k) + slots[a][k].size
         /\ j < k => Position(a, k) >= Position(a, j) + slots[a][j].size
    BY <1>7, <1>8, PositionsApart
  <1>11. slots[a][k].size \in Nat /\ slots[a][j].size \in Nat /\ k \in Nat /\ j \in Nat
    <2>1. slots[a] \in Seq(Slot)
      BY DEF TInv, SlotShape, Areas
    <2>2. slots[a][k] \in Slot /\ slots[a][j] \in Slot
      BY <1>7, <1>8, <2>1
    <2> QED BY <1>7, <1>8, <2>1, <2>2 DEF Slot
  <1>12. Position(a, k) + w[2] = Position(a, j) + z[2]
    BY <1>3, <1>5, <1>9
  <1> HIDE DEF v, u
  <1>13. ~(k < j)
    BY <1>1, <1>7, <1>10, <1>11, <1>12
  <1>14. ~(j < k)
    BY <1>1, <1>8, <1>10, <1>11, <1>12
  <1>15. j = k
    BY <1>11, <1>13, <1>14
  <1> QED BY <1>8, <1>15 DEF u

(* A parameter's words: three of each.                                     *)
LEMMA ParmWordsApart ==
    ASSUME NEW p \in Nat, NEW q \in Nat, NEW s \in Nat, NEW t \in Nat, NEW m \in Nat,
           s < m, t < m, m * (p - 1) + s = m * (q - 1) + t
    PROVE  p = q
  <1>1. m * (p - 1) = m * p - m /\ m * (q - 1) = m * q - m
    OBVIOUS
  <1>2. m * p + s = m * q + t /\ m * p \in Nat /\ m * q \in Nat
    BY <1>1
  <1>3. ASSUME p < q PROVE FALSE
    <2>1. PICK d \in Nat : q = p + 1 + d
      <3>1. q - p - 1 \in Nat /\ q = p + 1 + (q - p - 1)
        BY <1>3
      <3> QED BY <3>1
    <2>2. m * q = m * p + m + m * d /\ m * d \in Nat
      BY <2>1
    <2> QED BY <1>2, <2>2
  <1>4. ASSUME q < p PROVE FALSE
    <2>1. PICK d \in Nat : p = q + 1 + d
      <3>1. p - q - 1 \in Nat /\ p = q + 1 + (p - q - 1)
        BY <1>4
      <3> QED BY <3>1
    <2>2. m * p = m * q + m + m * d /\ m * d \in Nat
      BY <2>1
    <2> QED BY <1>2, <2>2
  <1> QED BY <1>3, <1>4
-----------------------------------------------------------------------------
(* All is placed that is ever alive.                                       *)
LEMMA LivingPlaced ==
    ASSUME PlacedInv, phase = "done", NEW v \in SeqSet(Queue), LifeOf(v) # {}
    PROVE  at[v] # Unplaced
  <1>1. PICK j \in DOMAIN Queue : Queue[j] = v
    BY DEF SeqSet
  <1>2. ~Waiting(j)
    BY DEF Waiting
  <1> QED BY <1>1, <1>2 DEF PlacedInv

(* A call's parameter value is passed there and nowhere else.              *)
LEMMA ParmReader ==
    ASSUME TInv, NEW v, InParm(v)
    PROVE  /\ ReaderOf(v) \in InstrSet /\ ReadingOf(fn, v) = {ReaderOf(v)}
           /\ IsCall(At(ReaderOf(v))) /\ v \in SeqSet(At(ReaderOf(v)).params)
           /\ v \in SeqSet(Temp) /\ v \notin locked
           /\ at[v].slot \in Nat /\ At(ReaderOf(v)).params[at[v].slot] = v
  <1>1. /\ ForCall(v) /\ v \in SeqSet(Temp) /\ v \in SeqSet(At(ReaderOf(v)).params)
        /\ at[v].slot = ParmOf(v)
    BY DEF InParm
  <1>2. Reads(v) = 1 /\ IsCall(At(ReaderOf(v))) /\ v \notin locked
    BY <1>1 DEF ForCall, Unlocked
  <1>3. ReaderOf(v) \in InstrSet /\ ReadingOf(fn, v) = {ReaderOf(v)}
    BY <1>2, OneReader
  <1> DEFINE params == At(ReaderOf(v)).params
  <1>4. params \in Seq(Value)
    BY <1>3, InstrFinite DEF Instruction
  <1>5. \E p \in DOMAIN params : params[p] = v
    BY <1>1 DEF SeqSet
  <1>6. ParmOf(v) \in DOMAIN params /\ params[ParmOf(v)] = v
    BY <1>5 DEF ParmOf
  <1>7. ParmOf(v) \in Nat
    BY <1>4, <1>6
  <1> QED BY <1>1, <1>2, <1>3, <1>6, <1>7

(* A value that crosses a call is locked: none waits for its own call, or  *)
(* is the result of one, where another call is made.                       *)
LEMMA CrossingLocked ==
    ASSUME NoSelfLoops, TInv, BackedInv, phase # "propagate", NEW x \in InstrSet, IsCall(At(x)),
           NEW v \in SeqSet(Queue), Crosses(fn, x[1], x[2], v)
    PROVE  v \in locked
  <1>1. PICK w \in WordsOf(v) : NeededAfter(fn, x[1], x[2], w) /\ Unwritten(fn, x[1], x[2], x[2], w)
    BY DEF Crosses
  <1>2. v \in Value /\ v \notin DOMAIN Member
    BY MemberFacts, AllocatorAssumption DEF AllocatorAssumption
  <1>3. w \in Words
    BY <1>2 DEF Words
  <1>4. w[1] = v
    BY <1>2, <1>3, WordFacts
  <1>5. CASE At(x).op = "call"
    BY <1>1, <1>3, <1>4, <1>5, CrossingLives
  <1>6. CASE At(x).op = "nrcall"
    <2>1. /\ fn \in Program /\ x[1] \in DOMAIN fn.blocks /\ x[2] \in Nat
          /\ x[2] \in 1 .. Len(fn.blocks[x[1]]) /\ At(x) = Ins(fn, x[1], x[2])
      BY InstrSetIs, InstrFinite DEF TInv
    <2>2. x[2] = Len(fn.blocks[x[1]]) /\ fn.exits[x[1]] = {}
      BY <1>6, <2>1, InstructionFacts
    <2>3. x[2] + 1 .. Len(fn.blocks[x[1]]) = {}
      BY <2>1, <2>2
    <2>4. ~ReadAfter(fn, x[1], x[2], w)
      BY <2>3 DEF ReadAfter
    <2> QED BY <1>1, <2>2, <2>4 DEF NeededAfter
  <1> QED BY <1>5, <1>6 DEF IsCall

(* What is written: a value, or a component of one, that has a place; one  *)
(* that is placed as a temporary is written as a whole.                    *)
LEMMA WrittenIs ==
    ASSUME NoSelfLoops, \A f \in Program : ~HasDeadComponent(f),
           TInv, BackedInv, PlacedInv, phase = "done", NEW x \in InstrSet,
           NEW o \in SeqSet(At(x).out), NEW z \in Words, z \in WordsOf(o)
    PROVE  /\ z[1] = Root(o) /\ at[z[1]] # Unplaced
           /\ Eid(x[1], x[2]) \in LifeOf(z[1]) /\ x[2] < Len(fn.blocks[x[1]])
           /\ z[1] \in SeqSet(Temp) => z[1] \in SeqSet(At(x).out)
  <1>1. z[1] = Root(o) /\ z[1] \in SeqSet(Queue)
    BY WordParts
  <1>2. Eid(x[1], x[2]) \in LifeOf(z[1]) /\ x[2] < Len(fn.blocks[x[1]])
    BY <1>1, WrittenLives
  <1>3. at[z[1]] # Unplaced
    BY <1>1, <1>2, LivingPlaced
  <1>4. ASSUME z[1] \in SeqSet(Temp) PROVE z[1] \in SeqSet(At(x).out)
    <2>1. fn \in Program /\ x \in InstrOf(fn) /\ At(x) = Ins(fn, x[1], x[2])
      BY InstrFinite DEF TInv
    <2>2. o \notin DOMAIN Member
      BY <1>1, <1>4, <2>1, TempsWhole DEF Root
    <2> QED BY <1>1, <2>2 DEF Root
  <1> QED BY <1>1, <1>2, <1>3, <1>4

(* Why a value is not to be overwritten: it is needed beyond, or kept.     *)
Spared(x, w) ==
    \/ NeededAfter(fn, x[1], x[2], w) /\ Unwritten(fn, x[1], x[2], x[2], w)
    \/ \E v \in At(x).kept : w \in WordsOf(v)

(* What must not be overwritten has a place and is alive on both sides of  *)
(* the instruction; it is not in a parameter's words unless it crosses.    *)
LEMMA SparedIs ==
    ASSUME NoSelfLoops, TInv, BackedInv, PlacedInv, phase = "done", NEW x \in InstrSet,
           x[2] < Len(fn.blocks[x[1]]), NEW w \in Words, Spared(x, w)
    PROVE  /\ Around(w[1], Eid(x[1], x[2])) /\ at[w[1]] # Unplaced
           /\ \/ Crosses(fn, x[1], x[2], w[1])
              \/ At(x).op = "op" /\ ~InParm(w[1])
  <1> DEFINE v == w[1]
  <1>1. v \in SeqSet(Queue) /\ w \in WordsOf(v)
    BY WordParts, WordFacts
  <1>2. Around(v, Eid(x[1], x[2])) => at[v] # Unplaced
    BY <1>1, LivingPlaced DEF Around
  <1>3. CASE NeededAfter(fn, x[1], x[2], w) /\ Unwritten(fn, x[1], x[2], x[2], w)
    <2>1. Crosses(fn, x[1], x[2], v)
      BY <1>1, <1>3 DEF Crosses
    <2>2. Around(v, Eid(x[1], x[2]))
      BY <1>3, CrossingLives
    <2> QED BY <1>2, <2>1, <2>2
  <1>4. CASE \E y \in At(x).kept : w \in WordsOf(y)
    <2>1. PICK y \in At(x).kept : w \in WordsOf(y)
      BY <1>4
    <2>2. v = Root(y)
      BY <2>1, WordParts
    <2>3. Around(v, Eid(x[1], x[2])) /\ At(x).op = "op" /\ y \in SeqSet(At(x).in)
      BY <2>1, <2>2, KeptLives
    <2>4. ASSUME InParm(v) PROVE FALSE
      <3>1. /\ ReaderOf(v) \in InstrSet /\ ReadingOf(fn, v) = {ReaderOf(v)}
            /\ IsCall(At(ReaderOf(v))) /\ v \in SeqSet(At(ReaderOf(v)).params)
            /\ v \in SeqSet(Temp)
        BY <2>4, ParmReader
      <3>2. /\ fn \in Program /\ x \in InstrOf(fn) /\ ReaderOf(v) \in InstrOf(fn)
            /\ At(x) = Ins(fn, x[1], x[2])
            /\ At(ReaderOf(v)) = Ins(fn, ReaderOf(v)[1], ReaderOf(v)[2])
        BY <3>1, InstrFinite DEF TInv
      <3>3. CASE y \in DOMAIN Member
        <4>1. Member[y].of \in SeqSet(Temp)
          BY <2>2, <3>1, <3>3 DEF Root
        <4>2. \A c \in InstrOf(fn) : Member[y].of \notin SeqSet(Ins(fn, c[1], c[2]).params)
          BY <2>3, <3>2, <3>3, <4>1, TempsWhole
        <4> QED BY <2>2, <3>1, <3>2, <3>3, <4>2 DEF Root
      <3>4. CASE y \notin DOMAIN Member
        <4>1. y = v
          BY <2>2, <3>4 DEF Root
        <4>2. x \in ReadingOf(fn, v)
          BY <2>3, <3>2, <4>1 DEF ReadingOf
        <4>3. x = ReaderOf(v)
          BY <3>1, <4>2
        <4>4. At(x).op \in {"call", "nrcall"}
          BY <3>1, <4>3 DEF IsCall
        <4> QED BY <2>3, <4>4
      <3> QED BY <3>3, <3>4
    <2> QED BY <1>2, <2>3, <2>4
  <1> QED BY <1>3, <1>4 DEF Spared

(* The words a call's parameters are in, by their values.                  *)
LEMMA ParmsApart ==
    ASSUME NoSelfLoops, TInv, BackedInv, phase # "propagate", NEW x \in InstrSet,
           NEW w \in Words, NEW z \in Words, w[1] # z[1], InParm(w[1]), InParm(z[1]),
           Place(w) = Place(z), z[1] \in SeqSet(At(x).out), Crosses(fn, x[1], x[2], w[1])
    PROVE  FALSE
  <1> DEFINE v == w[1]
             u == z[1]
             c == ReaderOf(u)
             d == ReaderOf(v)
  <1>1. /\ d \in InstrSet /\ ReadingOf(fn, v) = {d} /\ IsCall(At(d))
        /\ v \in SeqSet(Temp) /\ v \notin locked
        /\ at[v].slot \in Nat /\ At(d).params[at[v].slot] = v
    BY ParmReader
  <1>2. /\ c \in InstrSet /\ ReadingOf(fn, u) = {c} /\ IsCall(At(c))
        /\ u \in SeqSet(Temp) /\ u \notin locked
        /\ at[u].slot \in Nat /\ At(c).params[at[u].slot] = u
    BY ParmReader
  <1>3. /\ v \in SeqSet(Queue) /\ u \in SeqSet(Queue) /\ w[2] \in Nat /\ z[2] \in Nat
        /\ w[2] < VectorSize /\ z[2] < VectorSize /\ VectorSize \in Nat
    BY WordParts, MemberFacts
  <1>4. /\ BaseOf(v) = VectorSize * (at[v].slot - 1)
        /\ BaseOf(u) = VectorSize * (at[u].slot - 1)
    BY DEF InParm, BaseOf, Unplaced
  <1>5. BaseOf(v) + w[2] = BaseOf(u) + z[2]
    BY DEF Place
  <1>6. at[v].slot = at[u].slot
    <2>1. VectorSize * (at[v].slot - 1) + w[2] = VectorSize * (at[u].slot - 1) + z[2]
      BY <1>4, <1>5
    <2> HIDE DEF v, u
    <2> QED BY <1>1, <1>2, <1>3, <2>1, ParmWordsApart
  <1>7. c # d
    BY <1>1, <1>2, <1>6
  <1>8. /\ fn \in Program /\ x \in InstrOf(fn) /\ c \in InstrOf(fn) /\ d \in InstrOf(fn)
        /\ u \in SeqSet(Ins(fn, x[1], x[2]).out)
    BY <1>1, <1>2, InstrFinite DEF TInv
  <1>9. u # v /\ Crosses(fn, x[1], x[2], v)
    OBVIOUS
  <1> HIDE DEF v, u, c, d
  <1>10. c = d \/ Crosses(fn, c[1], c[2], v) \/ Crosses(fn, d[1], d[2], u)
    BY <1>1, <1>2, <1>8, <1>9, TempsNested
  <1>11. CASE Crosses(fn, c[1], c[2], v)
    BY <1>1, <1>2, <1>3, <1>11, CrossingLocked
  <1>12. CASE Crosses(fn, d[1], d[2], u)
    BY <1>1, <1>2, <1>3, <1>12, CrossingLocked
  <1> QED BY <1>7, <1>10, <1>11, <1>12

(* It shares no word with what the instruction writes: in a slot, since    *)
(* lives are apart; in a parameter's words, since one of the two would     *)
(* cross a call and be locked; in the result's, since the instruction is a *)
(* call.                                                                   *)
LEMMA SparedApart ==
    ASSUME NoSelfLoops, \A f \in Program : ~HasDeadComponent(f),
           TInv, BackedInv, PlacedInv, phase = "done", NEW x \in InstrSet,
           NEW w \in Words, Spared(x, w), w \notin WrittenWords(x),
           NEW z \in WrittenWords(x), Place(w) = Place(z)
    PROVE  FALSE
  <1> DEFINE v == w[1]
             u == z[1]
             id == Eid(x[1], x[2])
  <1>1. PICK o \in SeqSet(At(x).out) : z \in WordsOf(o)
    BY DEF WrittenWords
  <1>2. z \in Words
    <2>1. At(x).out \in Seq(Value)
      BY InstrFinite DEF Instruction
    <2>2. o \in Value
      BY <1>1, <2>1 DEF SeqSet
    <2> QED BY <1>1, <2>2 DEF Words
  <1>3. /\ at[u] # Unplaced /\ id \in LifeOf(u) /\ x[2] < Len(fn.blocks[x[1]])
        /\ u \in SeqSet(Temp) => u \in SeqSet(At(x).out)
    BY <1>1, <1>2, WrittenIs
  <1>4. /\ Around(v, id) /\ at[v] # Unplaced
        /\ Crosses(fn, x[1], x[2], v) \/ (At(x).op = "op" /\ ~InParm(v))
    BY <1>3, SparedIs
  <1>5. v \in SeqSet(Queue) /\ u \in SeqSet(Queue)
    BY <1>2, WordParts
  <1>6. v # u
    <2>1. SUFFICES ASSUME v = u PROVE FALSE
      OBVIOUS
    <2>2. w = <<w[1], w[2]>> /\ z = <<z[1], z[2]>> /\ w[2] \in Nat /\ z[2] \in Nat
      BY <1>2, WordParts
    <2>3. BaseOf(v) + w[2] = BaseOf(u) + z[2]
      BY DEF Place
    <2>4. BaseOf(v) \in Int
      <3>1. \A a \in Areas : \A k : InSlot(v, a, k) =>
                BaseOf(v) = Position(a, k) /\ Position(a, k) \in Nat
        <4> TAKE a \in Areas
        <4> TAKE k
        <4> HAVE InSlot(v, a, k)
        <4>1. at[v].in = a /\ at[v].slot = k /\ k \in DOMAIN slots[a]
          BY DEF InSlot
        <4>2. BaseOf(v) = Position(a, k)
          BY <1>4, <4>1 DEF BaseOf, Areas
        <4> QED BY <4>1, <4>2, PositionsApart
      <3>2. InParm(v) => BaseOf(v) = VectorSize * (at[v].slot - 1) /\ at[v].slot \in Nat
        BY <1>4, ParmReader DEF InParm, BaseOf
      <3>3. InReturn(v) => BaseOf(v) = 0
        BY <1>4 DEF InReturn, BaseOf
      <3>4. VectorSize \in Nat
        BY MemberFacts
      <3> QED BY <1>4, <1>5, <3>1, <3>2, <3>3, <3>4, PlaceIs
    <2>5. w[2] = z[2]
      BY <2>1, <2>2, <2>3, <2>4
    <2> QED BY <2>1, <2>2, <2>5
  <1>7. Area(v) = Area(u) /\ Area(v) = at[v].in /\ Area(u) = at[u].in
    BY <1>3, <1>4 DEF Place, Area
  <1> HIDE DEF v, u, id
  <1>8. CASE \E a \in Areas : \E k : InSlot(v, a, k)
    <2>1. PICK a \in Areas : \E k : InSlot(v, a, k)
      BY <1>8
    <2>2. PICK k : InSlot(v, a, k)
      BY <2>1
    <2>3. Sits(w[1], a, k) /\ at[z[1]] # Unplaced
      BY <1>3, <2>2 DEF InSlot, v, u
    <2>4. Sits(z[1], a, k)
      BY <1>2, <2>1, <2>3, SlotWordsApart
    <2>5. ~Inside(LifeOf(u), LifeOf(v))
      BY <1>5, <1>6, <2>1, <2>3, <2>4 DEF PlacedInv, SlotsApart, v, u
    <2>6. Inside(LifeOf(u), LifeOf(v))
      BY <1>3, <1>4 DEF Inside, Around
    <2> QED BY <2>5, <2>6
  <1>9. CASE InParm(v)
    <2>1. InParm(u)
      <3>1. at[u].in = "parm"
        BY <1>7, <1>9 DEF InParm
      <3> QED BY <1>3, <1>5, <3>1, PlaceIs DEF InSlot, InReturn, Areas
    <2>2. u \in SeqSet(At(x).out)
      BY <1>3, <2>1 DEF InParm
    <2>3. phase # "propagate" /\ Crosses(fn, x[1], x[2], v)
      BY <1>4, <1>9
    <2> QED BY <1>2, <1>6, <1>9, <2>1, <2>2, <2>3, ParmsApart DEF v, u
  <1>10. CASE InReturn(v)
    <2>1. InReturn(u)
      <3>1. at[u].in = "return"
        BY <1>7, <1>10 DEF InReturn
      <3> QED BY <1>3, <1>5, <3>1, PlaceIs DEF InSlot, InParm, Areas
    <2>2. u \in SeqSet(At(x).out) /\ Writes(u) = 1 /\ At(WriterOf(u)).op = "call"
      BY <1>3, <2>1 DEF InReturn, IsResult
    <2>3. x = WriterOf(u)
      BY <2>2, OneWriter
    <2>4. At(x).op = "call"
      BY <2>2, <2>3
    <2>5. Crosses(fn, x[1], x[2], v) /\ IsCall(At(x)) /\ phase # "propagate"
      BY <1>4, <2>4 DEF IsCall
    <2>6. v \in locked
      BY <1>5, <2>5, CrossingLocked
    <2> QED BY <1>10, <2>6 DEF InReturn, IsResult, Unlocked
  <1> QED BY <1>4, <1>5, <1>8, <1>9, <1>10, PlaceIs

(* What crosses a call stays where no callee writes.                       *)
LEMMA CrossingHidden ==
    ASSUME NoSelfLoops, TInv, BackedInv, PlacedInv, phase = "done", NEW x \in InstrSet,
           At(x).op = "call", NEW w \in Words,
           NeededAfter(fn, x[1], x[2], w), Unwritten(fn, x[1], x[2], x[2], w)
    PROVE  ~Callee(Place(w))
  <1> DEFINE v == w[1]
  <1>1. v \in locked /\ LifeOf(v) # {} /\ v \in SeqSet(Queue)
    BY CrossingLives, WordParts
  <1>2. at[v] # Unplaced
    BY <1>1, LivingPlaced
  <1>3. ~InParm(v) /\ ~InReturn(v)
    BY <1>1 DEF InParm, InReturn, ForCall, IsResult, Unlocked
  <1>4. \E a \in Areas : \E k : InSlot(v, a, k)
    BY <1>1, <1>2, <1>3, PlaceIs
  <1>5. at[v].in = "lock"
    BY <1>1, <1>4 DEF InSlot, Areas
  <1>6. Place(w)[1] = "lock"
    BY <1>2, <1>5 DEF Place, Area
  <1> QED BY <1>6 DEF Callee

(* The three invariants are enough.                                        *)
LEMMA PlacedUnclobbered ==
    ASSUME NoSelfLoops, \A f \in Program : ~HasDeadComponent(f), TInv, BackedInv, PlacedInv
    PROVE  NothingClobbered
  <1> SUFFICES ASSUME phase = "done", NEW x \in InstrSet
               PROVE  /\ \A w \in Needed(x) \ WrittenWords(x) :
                            /\ Place(w) \notin Overwritten(x)
                            /\ At(x).op = "call" => ~Callee(Place(w))
                      /\ \A v \in At(x).kept : \A w \in WordsOf(v) \ WrittenWords(x) :
                            Place(w) \notin Overwritten(x)
    BY DEF NothingClobbered
  <1>1. \A w \in Words : Spared(x, w) /\ w \notin WrittenWords(x) => Place(w) \notin Overwritten(x)
    BY SparedApart DEF Overwritten
  <1>2. \A w : w \notin WrittenWords(x) => Unwritten(fn, x[1], x[2], x[2], w)
    <2>1. At(x) = Ins(fn, x[1], x[2]) /\ x[2] \in Nat
      BY InstrFinite, InstrSetIs
    <2>2. x[2] .. x[2] = {x[2]}
      BY <2>1
    <2> QED BY <2>1, <2>2 DEF WrittenWords, Unwritten
  <1>3. ASSUME NEW w \in Needed(x) \ WrittenWords(x)
        PROVE  /\ Place(w) \notin Overwritten(x)
               /\ At(x).op = "call" => ~Callee(Place(w))
    <2>1. w \in Words /\ NeededAfter(fn, x[1], x[2], w) /\ Unwritten(fn, x[1], x[2], x[2], w)
      BY <1>2, <1>3 DEF Needed
    <2> QED BY <1>1, <1>3, <2>1, CrossingHidden DEF Spared
  <1>4. ASSUME NEW v \in At(x).kept, NEW w \in WordsOf(v) \ WrittenWords(x)
        PROVE  Place(w) \notin Overwritten(x)
    <2>1. At(x).kept \subseteq Value
      BY InstrFinite DEF Instruction
    <2>2. w \in Words
      BY <1>4, <2>1 DEF Words
    <2> QED BY <1>1, <1>4, <2>2 DEF Spared
  <1> QED BY <1>3, <1>4

(* No word is overwritten that is still needed, by an instruction or by    *)
(* what a call calls: the slots ir_function_allocate_locals shares, the    *)
(* memory all functions share and the words of parameters and results.     *)
(* Two facts of the functions are assumed, as the runs do: no block is its *)
(* own exit (the run self_loop shows what happens then), and no component  *)
(* is written in vain.                                                     *)
THEOREM NothingIsClobbered ==
    ASSUME NoSelfLoops, \A f \in Program : ~HasDeadComponent(f)
    PROVE  SlotsSpec => []NothingClobbered
  <1>1. TInv /\ BackedInv /\ PlacedInv => NothingClobbered
    BY PlacedUnclobbered
  <1> QED BY <1>1, PlacedAlways, PTL
=============================================================================
