-------------------------- MODULE ExpressionProofs --------------------------
(***************************************************************************)
(* Proofs about expressions: the parser's stacks, for any tables of        *)
(* operators, any tokens and whatever the operators make of their operands *)
(* (Shunting); and operations that are emulated by several statements, for *)
(* any memory and any place of the result (Emulation).                     *)
(***************************************************************************)
EXTENDS Shunting, Emulation, SequenceTheorems, WellFoundedInduction, TLAPS

OpEntry == [isparen : BOOLEAN, op : OperEntry, off : Nat]
Mark == [ops : Nat, argc : Nat]

IsOp(entry, id) == ~entry.isparen /\ entry.op.id = id

(* The first entry of the operator stack that belongs to the k-th open     *)
(* parenthesis: an index and a ternary have an operator below it.          *)
Base(p, m, k) == IF p[k] \in {"index", "ternary1"} THEN m[k].ops - 1 ELSE m[k].ops

(* Which entries of the operators o belong to which of the parentheses p;  *)
(* m is where they are, and c is how many counts of arguments there are.   *)
Matched(o, p, m, c) ==
    /\ Len(m) = Len(p)
    /\ \A k \in 1 .. Len(p) : 1 <= Base(p, m, k) /\ m[k].ops <= Len(o) /\ m[k].argc <= c
    /\ \A k \in 1 .. Len(p) : \A j \in 1 .. k - 1 : m[j].ops < Base(p, m, k)
    /\ \A k \in 1 .. Len(p) :
          /\ p[k] = "ternary2" => IsOp(o[m[k].ops], "?:")
          /\ p[k] # "ternary2" => o[m[k].ops].isparen
          /\ p[k] = "ternary1" => IsOp(o[m[k].ops - 1], "?:")
          /\ p[k] = "index" => IsOp(o[m[k].ops - 1], "[")
          /\ p[k] = "func" => 1 <= m[k].argc /\ \A j \in 1 .. k - 1 : m[j].argc < m[k].argc
    /\ \A i \in 1 .. Len(o) : o[i].isparen => \E k \in 1 .. Len(p) : m[k].ops = i
    /\ \A i \in 1 .. Len(o) : IsOp(o[i], "?:") =>
          \E k \in 1 .. Len(p) : p[k] \in {"ternary1", "ternary2"} /\ Base(p, m, k) = i

(* A ternary's operator is only ever pushed along with its parenthesis.    *)
NoTernary == stage \in {"token", "close"} => cur.id # "?:"

IInv == ParseTypeOK /\ Matched(ops, paren, mark, Len(argc)) /\ NoTernary
-----------------------------------------------------------------------------
(* Facts about sequences.                                                  *)
LEMMA Elements ==
    ASSUME NEW S, NEW s \in Seq(S)
    PROVE  s \in Seq({s[k] : k \in DOMAIN s})
  <1>1. Len(s) \in Nat /\ DOMAIN s = 1 .. Len(s) /\ s = [k \in 1 .. Len(s) |-> s[k]]
    OBVIOUS
  <1> DEFINE T == {s[k] : k \in DOMAIN s}
  <1>2. \A k \in 1 .. Len(s) : s[k] \in T
    BY <1>1
  <1> HIDE DEF T
  <1>3. [k \in 1 .. Len(s) |-> s[k]] \in Seq(T)
    BY <1>1, <1>2, IsASeq
  <1> QED BY <1>1, <1>3 DEF T

LEMMA AppendElements ==
    ASSUME NEW s, s \in Seq({s[k] : k \in DOMAIN s}), NEW e
    PROVE  Append(s, e) \in Seq({Append(s, e)[k] : k \in DOMAIN Append(s, e)})
  <1> DEFINE S == {s[k] : k \in DOMAIN s} \cup {e}
  <1>1. s \in Seq(S)
    <2>1. \A i \in 1 .. Len(s) : s[i] \in S
      BY ElementOfSeq
    <2> QED BY <2>1, SeqDef
  <1>2. e \in S
    OBVIOUS
  <1> HIDE DEF S
  <1>3. Append(s, e) \in Seq(S)
    BY <1>1, <1>2
  <1> QED BY <1>3, Elements

(* Less of a sequence, or nothing of it.                                   *)
LEMMA Shorter ==
    ASSUME NEW S, NEW s \in Seq(S), NEW n \in Int, n <= Len(s)
    PROVE  /\ SubSeq(s, 1, n) \in Seq(S)
           /\ Len(SubSeq(s, 1, n)) = IF 1 <= n THEN n ELSE 0
           /\ \A i \in 1 .. n : SubSeq(s, 1, n)[i] = s[i]
  <1>1. \A i \in 1 .. n : s[i] \in S
    BY ElementOfSeq
  <1> QED BY <1>1, SubSeqProperties

LEMMA Dropped ==
    ASSUME NEW S, NEW s \in Seq(S), NEW n \in Nat, n <= Len(s)
    PROVE  /\ SubSeq(s, 1, Len(s) - n) \in Seq(S)
           /\ Len(SubSeq(s, 1, Len(s) - n)) = Len(s) - n
           /\ \A i \in 1 .. Len(s) - n : SubSeq(s, 1, Len(s) - n)[i] = s[i]
  <1> DEFINE l == Len(s) - n
  <1>1. l \in Int /\ l <= Len(s) /\ 0 <= l
    OBVIOUS
  <1> HIDE DEF l
  <1>2. /\ SubSeq(s, 1, l) \in Seq(S)
        /\ Len(SubSeq(s, 1, l)) = IF 1 <= l THEN l ELSE 0
        /\ \A i \in 1 .. l : SubSeq(s, 1, l)[i] = s[i]
    BY <1>1, Shorter
  <1>3. (IF 1 <= l THEN l ELSE 0) = l
    BY <1>1
  <1> QED BY <1>2, <1>3 DEF l

(* One sequence after another.                                             *)
LEMMA Joined ==
    \A s, t \in Seq(OpEntry) :
        /\ s \o t \in Seq(OpEntry) /\ Len(s \o t) = Len(s) + Len(t)
        /\ \A i \in 1 .. Len(s) : (s \o t)[i] = s[i]
        /\ \A i \in 1 .. Len(t) : (s \o t)[Len(s) + i] = t[i]
  BY ConcatProperties
-----------------------------------------------------------------------------
(* The marks of an open parenthesis are places of the operator stack.      *)
LEMMA MarkInside ==
    ASSUME NEW o \in Seq(OpEntry), NEW p \in Seq(ParenType), NEW m \in Seq(Mark), NEW c \in Nat,
           Matched(o, p, m, c), NEW k \in 1 .. Len(p)
    PROVE  /\ m[k] \in Mark /\ m[k].argc \in Nat /\ m[k].ops \in 1 .. Len(o)
           /\ p[k] \in {"index", "ternary1"} => m[k].ops - 1 \in 1 .. Len(o)
  <1>1. m[k] \in Mark
    <2>1. k \in 1 .. Len(m)
      BY DEF Matched
    <2> QED BY <2>1, ElementOfSeq
  <1>2. m[k].ops \in Nat /\ m[k].argc \in Nat
    BY <1>1 DEF Mark
  <1>3. 1 <= Base(p, m, k) /\ m[k].ops <= Len(o)
    BY DEF Matched
  <1>4. Base(p, m, k) = IF p[k] \in {"index", "ternary1"} THEN m[k].ops - 1 ELSE m[k].ops
    BY DEF Base
  <1>5. Len(o) \in Nat
    BY LenProperties
  <1> QED BY <1>1, <1>2, <1>3, <1>4, <1>5

(* What is on top of the operators belongs to the innermost parenthesis or *)
(* to none.                                                                *)
LEMMA TopIsLast ==
    ASSUME NEW o \in Seq(OpEntry), NEW p \in Seq(ParenType), NEW m \in Seq(Mark), NEW c \in Nat,
           Matched(o, p, m, c), NEW k \in 1 .. Len(p), m[k].ops = Len(o)
    PROVE  k = Len(p)
  <1>1. ASSUME k < Len(p) PROVE FALSE
    <2>1. Len(p) \in 1 .. Len(p) /\ k \in 1 .. Len(p) - 1
      BY <1>1
    <2>2. m[k].ops < Base(p, m, Len(p)) /\ m[Len(p)].ops <= Len(o)
      BY <2>1 DEF Matched
    <2>3. m[Len(p)] \in Mark /\ m[k] \in Mark
      BY <2>1, ElementOfSeq DEF Matched
    <2> QED BY <2>2, <2>3, SMTT(30) DEF Base, Mark
  <1> QED BY <1>1

(* An operator that opens nothing is pushed.                               *)
LEMMA PushKeeps ==
    ASSUME NEW o \in Seq(OpEntry), NEW p \in Seq(ParenType), NEW m \in Seq(Mark), NEW c \in Nat,
           Matched(o, p, m, c), NEW e \in OpEntry, ~e.isparen, ~IsOp(e, "?:")
    PROVE  Matched(Append(o, e), p, m, c)
  <1> DEFINE q == Append(o, e)
  <1>1. /\ Len(q) = Len(o) + 1 /\ q[Len(o) + 1] = e
        /\ \A i \in 1 .. Len(o) : q[i] = o[i]
        /\ Len(o) \in Nat /\ Len(p) \in Nat
    OBVIOUS
  <1> HIDE DEF q
  <1>2. \A k \in 1 .. Len(p) : m[k] \in Mark
    BY MarkInside
  <1>3. \A k \in 1 .. Len(p) : m[k].ops \in 1 .. Len(o)
                               /\ (p[k] \in {"index", "ternary1"} => m[k].ops - 1 \in 1 .. Len(o))
    BY MarkInside
  <1>4. \A k \in 1 .. Len(p) : 1 <= Base(p, m, k) /\ m[k].ops <= Len(q) /\ m[k].argc <= c
    BY <1>1, <1>2 DEF Matched, Mark
  <1>5. \A k \in 1 .. Len(p) : \A j \in 1 .. k - 1 : m[j].ops < Base(p, m, k)
    BY DEF Matched
  <1>6. \A k \in 1 .. Len(p) :
          /\ p[k] = "ternary2" => IsOp(q[m[k].ops], "?:")
          /\ p[k] # "ternary2" => q[m[k].ops].isparen
          /\ p[k] = "ternary1" => IsOp(q[m[k].ops - 1], "?:")
          /\ p[k] = "index" => IsOp(q[m[k].ops - 1], "[")
          /\ p[k] = "func" => 1 <= m[k].argc /\ \A j \in 1 .. k - 1 : m[j].argc < m[k].argc
    BY <1>1, <1>3 DEF Matched
  <1>7. \A i \in 1 .. Len(q) : q[i].isparen \/ IsOp(q[i], "?:") => i \in 1 .. Len(o) /\ q[i] = o[i]
    BY <1>1
  <1>8. Matched(q, p, m, c)
    BY <1>4, <1>5, <1>6, <1>7 DEF Matched
  <1> QED BY <1>8 DEF q

(* An operator that opened nothing is applied.                             *)
LEMMA DropKeeps ==
    ASSUME NEW o \in Seq(OpEntry), NEW p \in Seq(ParenType), NEW m \in Seq(Mark), NEW c \in Nat,
           Matched(o, p, m, c), o # <<>>, ~o[Len(o)].isparen, ~IsOp(o[Len(o)], "?:")
    PROVE  Matched(SubSeq(o, 1, Len(o) - 1), p, m, c)
  <1> DEFINE q == SubSeq(o, 1, Len(o) - 1)
  <1>1. Len(o) \in Nat \ {0} /\ Len(p) \in Nat
    BY EmptySeq
  <1>2. Len(q) = Len(o) - 1 /\ \A i \in 1 .. Len(q) : q[i] = o[i]
    <2>1. SubSeq(o, 1, Len(o) - 1) = q /\ 1 <= Len(o) /\ 1 \in Nat
      BY <1>1
    <2> HIDE DEF q
    <2>2. /\ Len(SubSeq(o, 1, Len(o) - 1)) = Len(o) - 1
          /\ \A i \in 1 .. Len(o) - 1 : SubSeq(o, 1, Len(o) - 1)[i] = o[i]
      BY <2>1, Dropped, Zenon
    <2> QED BY <2>1, <2>2
  <1> HIDE DEF q
  <1>3. \A k \in 1 .. Len(p) : m[k] \in Mark
    BY MarkInside
  <1>4. \A k \in 1 .. Len(p) : m[k].ops # Len(o)
    BY DEF Matched
  <1>5. \A k \in 1 .. Len(p) : m[k].ops \in 1 .. Len(q)
                               /\ (p[k] \in {"index", "ternary1"} => m[k].ops - 1 \in 1 .. Len(q))
    <2> TAKE k \in 1 .. Len(p)
    <2>1. m[k].ops \in 1 .. Len(o) /\ m[k].ops # Len(o)
      BY <1>4, MarkInside
    <2>2. p[k] \in {"index", "ternary1"} => m[k].ops - 1 \in 1 .. Len(o)
      BY MarkInside
    <2> QED BY <2>1, <2>2, <1>1, <1>2
  <1>6. \A k \in 1 .. Len(p) : 1 <= Base(p, m, k) /\ m[k].ops <= Len(q) /\ m[k].argc <= c
    <2> TAKE k \in 1 .. Len(p)
    <2>1. 1 <= Base(p, m, k) /\ m[k].argc <= c
      BY DEF Matched
    <2>2. m[k].ops <= Len(q)
      BY <1>1, <1>2, <1>5
    <2> QED BY <2>1, <2>2
  <1>7. \A k \in 1 .. Len(p) :
          /\ p[k] = "ternary2" => IsOp(q[m[k].ops], "?:")
          /\ p[k] # "ternary2" => q[m[k].ops].isparen
          /\ p[k] = "ternary1" => IsOp(q[m[k].ops - 1], "?:")
          /\ p[k] = "index" => IsOp(q[m[k].ops - 1], "[")
          /\ p[k] = "func" => 1 <= m[k].argc /\ \A j \in 1 .. k - 1 : m[j].argc < m[k].argc
    BY <1>2, <1>5 DEF Matched
  <1>8. \A i \in 1 .. Len(q) : i \in 1 .. Len(o) /\ q[i] = o[i]
    BY <1>1, <1>2
  <1>9. \A k \in 1 .. Len(p) : \A j \in 1 .. k - 1 : m[j].ops < Base(p, m, k)
    BY DEF Matched
  <1>10. Matched(q, p, m, c)
    BY <1>6, <1>7, <1>8, <1>9 DEF Matched
  <1> QED BY <1>10 DEF q

(* A parenthesis is entered: t is what it is.                              *)
LEMMA EnterKeeps ==
    ASSUME NEW o \in Seq(OpEntry), NEW p \in Seq(ParenType), NEW m \in Seq(Mark), NEW c \in Nat,
           Matched(o, p, m, c),
           NEW q \in Seq(OpEntry), NEW t \in ParenType \ {"ternary2"}, NEW d \in Nat,
           \A i \in 1 .. Len(o) : q[i] = o[i], q[Len(q)].isparen,
           c <= d, t = "func" => c < d,
           Len(q) = Len(o) + (IF t \in {"index", "ternary1"} THEN 2 ELSE 1),
           t = "ternary1" => IsOp(q[Len(o) + 1], "?:"), t = "index" => IsOp(q[Len(o) + 1], "[")
    PROVE  Matched(q, Append(p, t), Append(m, [ops |-> Len(q), argc |-> d]), d)
  <1> DEFINE p2 == Append(p, t)
  <1> DEFINE new == [ops |-> Len(q), argc |-> d]
  <1> DEFINE m2 == Append(m, new)
  <1> DEFINE K == Len(p) + 1
  <1>1. Len(p) \in Nat /\ Len(o) \in Nat /\ Len(q) \in Nat /\ Len(m) = Len(p) /\ new \in Mark
    BY DEF Matched, Mark
  <1>2. /\ Len(p2) = K /\ p2[K] = t
        /\ \A k \in 1 .. Len(p) : p2[k] = p[k]
    BY <1>1
  <1>3. /\ Len(m2) = K /\ m2[K] = new
        /\ \A k \in 1 .. Len(p) : m2[k] = m[k]
    BY <1>1
  <1>4. new.ops = Len(q) /\ new.argc = d
    OBVIOUS
  <1> HIDE DEF p2, m2, new
  <1>5. \A k \in 1 .. Len(p) : m[k] \in Mark
    BY MarkInside
  <1>6. \A k \in 1 .. K : k \in 1 .. Len(p) \/ k = K
    BY <1>1, SMTT(30)
  <1>7. \A k \in 1 .. Len(p) : Base(p2, m2, k) = Base(p, m, k)
    BY <1>2, <1>3 DEF Base
  <1>8. /\ Base(p2, m2, K) = Len(o) + 1
        /\ Base(p2, m2, K) = IF t \in {"index", "ternary1"} THEN Len(q) - 1 ELSE Len(q)
    <2>1. p2[K] = t /\ m2[K].ops = Len(q)
      BY <1>2, <1>3, <1>4
    <2>2. Base(p2, m2, K) = IF t \in {"index", "ternary1"} THEN Len(q) - 1 ELSE Len(q)
      BY <2>1 DEF Base
    <2> QED BY <2>2, <1>1
  <1>9. \A k \in 1 .. Len(p) : m[k].ops \in 1 .. Len(o)
                               /\ (p[k] \in {"index", "ternary1"} => m[k].ops - 1 \in 1 .. Len(o))
    BY MarkInside
  <1>10. \A k \in 1 .. K : 1 <= Base(p2, m2, k) /\ m2[k].ops <= Len(q) /\ m2[k].argc <= d
    <2>1. ASSUME NEW k \in 1 .. Len(p)
          PROVE  1 <= Base(p2, m2, k) /\ m2[k].ops <= Len(q) /\ m2[k].argc <= d
      <3>1. 1 <= Base(p, m, k) /\ m[k].ops <= Len(o) /\ m[k].argc <= c
        BY DEF Matched
      <3>2. m[k].ops \in Nat /\ m[k].argc \in Nat
        BY MarkInside
      <3>3. m2[k] = m[k] /\ Base(p2, m2, k) = Base(p, m, k)
        BY <1>3, <1>7
      <3>4. m[k].ops <= Len(q)
        BY <3>1, <3>2, <1>1
      <3>5. m[k].argc <= d
        BY <3>1, <3>2
      <3> QED BY <3>1, <3>3, <3>4, <3>5
    <2>2. 1 <= Base(p2, m2, K) /\ m2[K].ops <= Len(q) /\ m2[K].argc <= d
      <3>1. m2[K].ops = Len(q) /\ m2[K].argc = d
        BY <1>3, <1>4
      <3> QED BY <3>1, <1>1, <1>8
    <2> QED BY <2>1, <2>2, <1>6
  <1>11. \A k \in 1 .. K : \A j \in 1 .. k - 1 : m2[j].ops < Base(p2, m2, k)
    <2>1. ASSUME NEW k \in 1 .. Len(p), NEW j \in 1 .. k - 1
          PROVE  m2[j].ops < Base(p2, m2, k)
      <3>1. j \in 1 .. Len(p)
        BY <1>1
      <3>2. m[j].ops < Base(p, m, k)
        BY DEF Matched
      <3> QED BY <3>1, <3>2, <1>3, <1>7
    <2>2. \A j \in 1 .. K - 1 : m2[j].ops < Base(p2, m2, K)
      <3>1. ASSUME NEW j \in 1 .. Len(p) PROVE m2[j].ops <= Len(o)
        BY <1>3, <1>9
      <3>2. Base(p2, m2, K) = Len(o) + 1 /\ Len(o) \in Nat /\ \A j \in 1 .. K - 1 : j \in 1 .. Len(p)
        BY <1>1, <1>8
      <3>3. \A j \in 1 .. Len(p) : m2[j].ops \in Nat
        BY <1>3, <1>9
      <3> QED BY <3>1, <3>2, <3>3
    <2> QED BY <2>1, <2>2, <1>6
  <1>12. \A k \in 1 .. K :
          /\ p2[k] = "ternary2" => IsOp(q[m2[k].ops], "?:")
          /\ p2[k] # "ternary2" => q[m2[k].ops].isparen
          /\ p2[k] = "ternary1" => IsOp(q[m2[k].ops - 1], "?:")
          /\ p2[k] = "index" => IsOp(q[m2[k].ops - 1], "[")
          /\ p2[k] = "func" => 1 <= m2[k].argc /\ \A j \in 1 .. k - 1 : m2[j].argc < m2[k].argc
    <2>1. ASSUME NEW k \in 1 .. Len(p)
          PROVE  /\ p2[k] = "ternary2" => IsOp(q[m2[k].ops], "?:")
                 /\ p2[k] # "ternary2" => q[m2[k].ops].isparen
                 /\ p2[k] = "ternary1" => IsOp(q[m2[k].ops - 1], "?:")
                 /\ p2[k] = "index" => IsOp(q[m2[k].ops - 1], "[")
                 /\ p2[k] = "func" => 1 <= m2[k].argc /\ \A j \in 1 .. k - 1 : m2[j].argc < m2[k].argc
      <3>1. m2[k] = m[k] /\ p2[k] = p[k] /\ \A j \in 1 .. k - 1 : m2[j] = m[j]
        BY <1>1, <1>2, <1>3
      <3>2. q[m[k].ops] = o[m[k].ops]
        BY <1>9
      <3>3. p[k] \in {"index", "ternary1"} => q[m[k].ops - 1] = o[m[k].ops - 1]
        BY <1>9
      <3>4. /\ p[k] = "ternary2" => IsOp(o[m[k].ops], "?:")
            /\ p[k] # "ternary2" => o[m[k].ops].isparen
            /\ p[k] = "ternary1" => IsOp(o[m[k].ops - 1], "?:")
            /\ p[k] = "index" => IsOp(o[m[k].ops - 1], "[")
            /\ p[k] = "func" => 1 <= m[k].argc /\ \A j \in 1 .. k - 1 : m[j].argc < m[k].argc
        BY DEF Matched
      <3> QED BY <3>1, <3>2, <3>3, <3>4
    <2>2. /\ p2[K] = "ternary2" => IsOp(q[m2[K].ops], "?:")
          /\ p2[K] # "ternary2" => q[m2[K].ops].isparen
          /\ p2[K] = "ternary1" => IsOp(q[m2[K].ops - 1], "?:")
          /\ p2[K] = "index" => IsOp(q[m2[K].ops - 1], "[")
      BY <1>1, <1>2, <1>3, <1>4
    <2>3. p2[K] = "func" => 1 <= m2[K].argc /\ \A j \in 1 .. K - 1 : m2[j].argc < m2[K].argc
      <3>1. \A j \in 1 .. Len(p) : m[j].argc \in Nat /\ m[j].argc <= c
        BY <1>5 DEF Matched, Mark
      <3>2. p2[K] = "func" => c < d
        BY <1>2
      <3>3. K - 1 = Len(p) /\ m2[K].argc = d
        BY <1>1, <1>3, <1>4
      <3>4. c < d => 1 <= d /\ \A j \in 1 .. Len(p) : m2[j].argc < d
        BY <3>1, <1>3
      <3> QED BY <3>2, <3>3, <3>4
    <2> QED BY <2>1, <2>2, <2>3, <1>6
  <1>13. \A i \in 1 .. Len(q) : i \in 1 .. Len(o) \/ i = Len(q) \/ (i = Len(o) + 1 /\ i = Len(q) - 1)
    BY <1>1
  <1>14. K \in 1 .. K /\ \A k \in 1 .. Len(p) : k \in 1 .. K
    BY <1>1
  <1>15. \A i \in 1 .. Len(q) : q[i].isparen => \E k \in 1 .. K : m2[k].ops = i
    <2>1. \A i \in 1 .. Len(o) : q[i].isparen => \E k \in 1 .. Len(p) : m2[k].ops = i
      <3>1. \A i \in 1 .. Len(o) : o[i].isparen => \E k \in 1 .. Len(p) : m[k].ops = i
        BY DEF Matched
      <3> QED BY <3>1, <1>3
    <2>2. m2[K].ops = Len(q)
      BY <1>3, <1>4
    <2>3. Len(o) + 1 = Len(q) - 1 => ~q[Len(o) + 1].isparen
      BY <1>1 DEF IsOp
    <2> QED BY <2>1, <2>2, <2>3, <1>13, <1>14
  <1>16. \A i \in 1 .. Len(q) : IsOp(q[i], "?:") =>
             \E k \in 1 .. K : p2[k] \in {"ternary1", "ternary2"} /\ Base(p2, m2, k) = i
    <2>1. \A i \in 1 .. Len(o) : IsOp(q[i], "?:") =>
             \E k \in 1 .. Len(p) : p2[k] \in {"ternary1", "ternary2"} /\ Base(p2, m2, k) = i
      BY <1>2, <1>7 DEF Matched
    <2>2. ~IsOp(q[Len(q)], "?:")
      BY DEF IsOp
    <2>3. Len(o) + 1 = Len(q) - 1 /\ IsOp(q[Len(o) + 1], "?:") => t = "ternary1"
      BY <1>1 DEF IsOp
    <2>4. Len(o) + 1 = Len(q) - 1 /\ IsOp(q[Len(o) + 1], "?:") =>
             p2[K] \in {"ternary1", "ternary2"} /\ Base(p2, m2, K) = Len(o) + 1
      BY <2>3, <1>2, <1>8
    <2> QED BY <2>1, <2>2, <2>4, <1>13, <1>14
  <1>17. Matched(q, p2, m2, d)
    BY <1>2, <1>3, <1>10, <1>11, <1>12, <1>15, <1>16 DEF Matched
  <1> QED BY <1>17 DEF p2, m2, new

(* The innermost parenthesis is left with the operators that belong to it. *)
LEMMA LeaveKeeps ==
    ASSUME NEW o \in Seq(OpEntry), NEW p \in Seq(ParenType), NEW m \in Seq(Mark), NEW c \in Nat,
           Matched(o, p, m, c), NEW p2 \in Seq(ParenType), NEW m2 \in Seq(Mark), NEW q \in Seq(OpEntry),
           NEW d \in Nat, p # <<>>, p[Len(p)] # "ternary1",
           Len(p2) = Len(p) - 1, \A k \in 1 .. Len(p) - 1 : p2[k] = p[k],
           Len(m2) = Len(p) - 1, \A k \in 1 .. Len(p) - 1 : m2[k] = m[k],
           Len(q) = Base(p, m, Len(p)) - 1, \A i \in 1 .. Len(q) : q[i] = o[i],
           \A k \in 1 .. Len(p) - 1 : m[k].argc <= d
    PROVE  Matched(q, p2, m2, d)
  <1> DEFINE K == Len(p)
  <1>1. K \in Nat \ {0} /\ Len(o) \in Nat /\ Len(q) \in Nat /\ Len(m) = K
    BY EmptySeq DEF Matched
  <1> HIDE DEF K
  <1>2. K = Len(p)
    BY DEF K
  <1>3. K \in 1 .. K /\ \A k \in 1 .. K : m[k] \in Mark
    BY <1>1, <1>2, MarkInside
  <1>4. \A k \in 1 .. K - 1 : /\ k \in 1 .. K
                             /\ p2[k] = p[k] /\ m2[k] = m[k] /\ Base(p2, m2, k) = Base(p, m, k)
    <2> TAKE k \in 1 .. K - 1
    <2>1. k \in 1 .. K /\ p2[k] = p[k] /\ m2[k] = m[k]
      <3>1. k \in 1 .. K
        BY <1>1
      <3>2. k \in 1 .. Len(p) - 1
        BY <1>2
      <3> QED BY <3>1, <3>2
    <2> QED BY <2>1 DEF Base
  <1>5. Len(q) < m[K].ops /\ Len(q) < Len(o)
    <2>1. m[K].ops \in 1 .. Len(o)
      BY <1>2, <1>3, MarkInside
    <2>2. Base(p, m, K) = m[K].ops - 1 \/ Base(p, m, K) = m[K].ops
      BY DEF Base
    <2> QED BY <2>1, <2>2, <1>1, <1>2
  <1>6. \A k \in 1 .. K - 1 : m[k].ops < Base(p, m, K)
    BY <1>1, <1>2 DEF Matched
  <1>7. Base(p, m, K) \in Int /\ Len(q) = Base(p, m, K) - 1
    <2>1. m[K].ops \in Nat
      BY <1>3 DEF Mark
    <2> QED BY <2>1, <1>2 DEF Base
  <1>8. \A k \in 1 .. K - 1 : m[k].ops <= Len(q) /\ m[k].ops \in Nat /\ 1 <= Base(p, m, k)
    <2>1. \A k \in 1 .. K - 1 : m[k].ops \in Nat
      BY <1>3, <1>4 DEF Mark
    <2>2. \A k \in 1 .. K - 1 : 1 <= Base(p, m, k)
      BY <1>2, <1>4 DEF Matched
    <2>3. \A k \in 1 .. K - 1 : m[k].ops <= Len(q)
      BY <2>1, <1>1, <1>6, <1>7, SMTT(30)
    <2> QED BY <2>1, <2>2, <2>3
  <1>9. \A k \in 1 .. K - 1 : m[k].ops \in 1 .. Len(q)
                             /\ (p[k] \in {"index", "ternary1"} => m[k].ops - 1 \in 1 .. Len(q))
    BY <1>1, <1>8, SMTT(30) DEF Base
  <1>10. \A k \in 1 .. K - 1 : 1 <= Base(p2, m2, k) /\ m2[k].ops <= Len(q) /\ m2[k].argc <= d
    BY <1>2, <1>4, <1>8
  <1>11. \A k \in 1 .. K - 1 : \A j \in 1 .. k - 1 : m2[j].ops < Base(p2, m2, k)
    <2>1. \A k \in 1 .. K : \A j \in 1 .. k - 1 : m[j].ops < Base(p, m, k)
      BY <1>2 DEF Matched
    <2>2. \A k \in 1 .. K - 1 : \A j \in 1 .. k - 1 : j \in 1 .. K - 1
      BY <1>1
    <2> QED BY <2>1, <2>2, <1>4
  <1>12. ASSUME NEW k \in 1 .. K - 1
         PROVE  /\ p2[k] = "ternary2" => IsOp(q[m2[k].ops], "?:")
                /\ p2[k] # "ternary2" => q[m2[k].ops].isparen
                /\ p2[k] = "ternary1" => IsOp(q[m2[k].ops - 1], "?:")
                /\ p2[k] = "index" => IsOp(q[m2[k].ops - 1], "[")
                /\ p2[k] = "func" => 1 <= m2[k].argc /\ \A j \in 1 .. k - 1 : m2[j].argc < m2[k].argc
    <2>1. /\ p[k] = "ternary2" => IsOp(o[m[k].ops], "?:")
          /\ p[k] # "ternary2" => o[m[k].ops].isparen
          /\ p[k] = "ternary1" => IsOp(o[m[k].ops - 1], "?:")
          /\ p[k] = "index" => IsOp(o[m[k].ops - 1], "[")
          /\ p[k] = "func" => 1 <= m[k].argc /\ \A j \in 1 .. k - 1 : m[j].argc < m[k].argc
      BY <1>2, <1>4 DEF Matched
    <2>2. q[m[k].ops] = o[m[k].ops] /\ (p[k] \in {"index", "ternary1"} => q[m[k].ops - 1] = o[m[k].ops - 1])
      BY <1>9
    <2>3. m2[k] = m[k] /\ p2[k] = p[k] /\ \A j \in 1 .. k - 1 : m2[j] = m[j]
      BY <1>1, <1>4
    <2> QED BY <2>1, <2>2, <2>3
  <1>13. \A i \in 1 .. Len(q) : i \in 1 .. Len(o) /\ q[i] = o[i] /\ i < m[K].ops /\ i < Base(p, m, K)
    <2> TAKE i \in 1 .. Len(q)
    <2>1. i \in 1 .. Len(o)
      BY <1>1, <1>5
    <2>2. q[i] = o[i]
      BY <2>1
    <2>3. m[K].ops \in Nat /\ i \in Nat /\ i <= Len(q)
      BY <1>1, <1>3 DEF Mark
    <2>4. i < m[K].ops
      BY <2>3, <1>1, <1>5
    <2>5. i < Base(p, m, K)
      BY <2>3, <1>1, <1>7
    <2> QED BY <2>1, <2>2, <2>4, <2>5
  <1>14. \A k \in 1 .. K : k = K \/ k \in 1 .. K - 1
    BY <1>1
  <1>15. \A i \in 1 .. Len(q) : q[i].isparen => \E k \in 1 .. K - 1 : m2[k].ops = i
    <2>1. \A i \in 1 .. Len(o) : o[i].isparen => \E k \in 1 .. K : m[k].ops = i
      BY <1>2 DEF Matched
    <2>2. \A i \in 1 .. Len(q) : m[K].ops # i
      <3>1. m[K].ops \in Nat
        BY <1>3 DEF Mark
      <3> QED BY <3>1, <1>1, <1>5
    <2>3. ASSUME NEW i \in 1 .. Len(q), q[i].isparen
          PROVE  \E k \in 1 .. K - 1 : m2[k].ops = i
      <3>1. PICK k \in 1 .. K : m[k].ops = i
        BY <2>1, <2>3, <1>13
      <3>2. k \in 1 .. K - 1
        BY <3>1, <2>2, <1>14
      <3> QED BY <3>1, <3>2, <1>4
    <2> QED BY <2>3
  <1>16. \A i \in 1 .. Len(q) : IsOp(q[i], "?:") =>
             \E k \in 1 .. K - 1 : p2[k] \in {"ternary1", "ternary2"} /\ Base(p2, m2, k) = i
    <2>1. \A i \in 1 .. Len(o) : IsOp(o[i], "?:") =>
             \E k \in 1 .. K : p[k] \in {"ternary1", "ternary2"} /\ Base(p, m, k) = i
      BY <1>2 DEF Matched
    <2>2. \A i \in 1 .. Len(q) : Base(p, m, K) # i
      BY <1>1, <1>7, <1>13
    <2>3. ASSUME NEW i \in 1 .. Len(q), IsOp(q[i], "?:")
          PROVE  \E k \in 1 .. K - 1 : p2[k] \in {"ternary1", "ternary2"} /\ Base(p2, m2, k) = i
      <3>1. PICK k \in 1 .. K : p[k] \in {"ternary1", "ternary2"} /\ Base(p, m, k) = i
        BY <2>1, <2>3, <1>13
      <3>2. k \in 1 .. K - 1
        BY <3>1, <2>2, <1>14
      <3> QED BY <3>1, <3>2, <1>4
    <2> QED BY <2>3
  <1> QED BY <1>2, <1>10, <1>11, <1>12, <1>15, <1>16 DEF Matched

(* The colon: the middle of a ternary is closed, its last part begins.     *)
LEMMA TurnKeeps ==
    ASSUME NEW o \in Seq(OpEntry), NEW p \in Seq(ParenType), NEW m \in Seq(Mark), NEW c \in Nat,
           Matched(o, p, m, c), NEW p2 \in Seq(ParenType), NEW m2 \in Seq(Mark), NEW q \in Seq(OpEntry),
           p # <<>>, p[Len(p)] = "ternary1", m[Len(p)].ops = Len(o),
           Len(p2) = Len(p), \A k \in 1 .. Len(p) - 1 : p2[k] = p[k], p2[Len(p)] = "ternary2",
           Len(m2) = Len(p), \A k \in 1 .. Len(p) - 1 : m2[k] = m[k],
           m2[Len(p)].ops = Len(o) - 1, m2[Len(p)].argc = m[Len(p)].argc,
           Len(q) = Len(o), \A i \in 1 .. Len(o) - 1 : q[i] = o[i],
           ~q[Len(o)].isparen, ~IsOp(q[Len(o)], "?:")
    PROVE  Matched(q, p2, m2, c)
  <1> DEFINE K == Len(p)
  <1> DEFINE n == Len(o)
  <1>1. K \in Nat \ {0} /\ n \in Nat /\ Len(m) = K
    BY EmptySeq DEF Matched
  <1> HIDE DEF K, n
  <1>2. K = Len(p) /\ n = Len(o) /\ K \in 1 .. K
    BY <1>1 DEF K, n
  <1>3. \A k \in 1 .. K : m[k] \in Mark
    BY <1>1, ElementOfSeq
  <1>4. Base(p, m, K) = n - 1 /\ Base(p2, m2, K) = n - 1 /\ 1 <= n - 1
    BY <1>1, <1>2 DEF Matched, Base
  <1>5. \A k \in 1 .. K - 1 : /\ k \in 1 .. K
                             /\ p2[k] = p[k] /\ m2[k] = m[k] /\ Base(p2, m2, k) = Base(p, m, k)
    BY <1>1, <1>2 DEF Base
  <1>6. \A k \in 1 .. K : k = K \/ k \in 1 .. K - 1
    BY <1>1
  <1>7. \A k \in 1 .. K - 1 : m[k].ops < n - 1 /\ m[k].ops \in Nat /\ 1 <= Base(p, m, k) /\ m[k].argc <= c
    <2>1. \A k \in 1 .. K - 1 : m[k].ops \in Nat
      BY <1>3, <1>5 DEF Mark
    <2>2. \A k \in 1 .. K - 1 : 1 <= Base(p, m, k) /\ m[k].argc <= c
      BY <1>2, <1>5 DEF Matched
    <2>3. \A k \in 1 .. K - 1 : m[k].ops < Base(p, m, K)
      BY <1>2 DEF Matched
    <2> QED BY <2>1, <2>2, <2>3, <1>4
  <1>8. \A k \in 1 .. K - 1 : m[k].ops \in 1 .. n - 1
                             /\ (p[k] \in {"index", "ternary1"} => m[k].ops - 1 \in 1 .. n - 1)
    BY <1>1, <1>7 DEF Base
  <1>9. m[K].argc <= c
    BY <1>2 DEF Matched
  <1>10. \A k \in 1 .. K : 1 <= Base(p2, m2, k) /\ m2[k].ops <= n /\ m2[k].argc <= c
    BY <1>1, <1>2, <1>4, <1>5, <1>6, <1>7, <1>9, SMTT(30)
  <1>11. \A k \in 1 .. K : \A j \in 1 .. k - 1 : m2[j].ops < Base(p2, m2, k)
    <2>1. \A k \in 1 .. K : \A j \in 1 .. k - 1 : m[j].ops < Base(p, m, k)
      BY <1>2 DEF Matched
    <2>2. \A k \in 1 .. K : \A j \in 1 .. k - 1 : j \in 1 .. K - 1
      BY <1>1
    <2>3. \A k \in 1 .. K : Base(p2, m2, k) = Base(p, m, k)
      BY <1>4, <1>5, <1>6
    <2> QED BY <2>1, <2>2, <2>3, <1>5
  <1>12. ASSUME NEW k \in 1 .. K
         PROVE  /\ p2[k] = "ternary2" => IsOp(q[m2[k].ops], "?:")
                /\ p2[k] # "ternary2" => q[m2[k].ops].isparen
                /\ p2[k] = "ternary1" => IsOp(q[m2[k].ops - 1], "?:")
                /\ p2[k] = "index" => IsOp(q[m2[k].ops - 1], "[")
                /\ p2[k] = "func" => 1 <= m2[k].argc /\ \A j \in 1 .. k - 1 : m2[j].argc < m2[k].argc
    <2>1. CASE k \in 1 .. K - 1
      <3>1. /\ p[k] = "ternary2" => IsOp(o[m[k].ops], "?:")
            /\ p[k] # "ternary2" => o[m[k].ops].isparen
            /\ p[k] = "ternary1" => IsOp(o[m[k].ops - 1], "?:")
            /\ p[k] = "index" => IsOp(o[m[k].ops - 1], "[")
            /\ p[k] = "func" => 1 <= m[k].argc /\ \A j \in 1 .. k - 1 : m[j].argc < m[k].argc
        BY <1>2 DEF Matched
      <3>2. q[m[k].ops] = o[m[k].ops] /\ (p[k] \in {"index", "ternary1"} => q[m[k].ops - 1] = o[m[k].ops - 1])
        BY <2>1, <1>2, <1>8
      <3>3. m2[k] = m[k] /\ p2[k] = p[k] /\ \A j \in 1 .. k - 1 : m2[j] = m[j]
        BY <2>1, <1>1, <1>5
      <3> QED BY <3>1, <3>2, <3>3
    <2>2. CASE k = K
      <3>1. IsOp(o[n - 1], "?:")
        BY <1>2 DEF Matched
      <3>2. q[n - 1] = o[n - 1]
        <4>1. n - 1 \in 1 .. n - 1
          BY <1>1, <1>4
        <4> QED BY <4>1, <1>2
      <3> QED BY <2>2, <3>1, <3>2, <1>2
    <2> QED BY <2>1, <2>2, <1>6
  <1>13. \A i \in 1 .. n : i = n \/ (i \in 1 .. n - 1 /\ q[i] = o[i])
    BY <1>1, <1>2
  <1>14. \A i \in 1 .. n : q[i].isparen => \E k \in 1 .. K : m2[k].ops = i
    <2>1. \A i \in 1 .. n : o[i].isparen => \E k \in 1 .. K : m[k].ops = i
      BY <1>2 DEF Matched
    <2>2. \A i \in 1 .. n - 1 : m[K].ops # i
      BY <1>1, <1>2
    <2>3. ASSUME NEW i \in 1 .. n, q[i].isparen
          PROVE  \E k \in 1 .. K : m2[k].ops = i
      <3>1. i \in 1 .. n - 1 /\ o[i].isparen
        BY <2>3, <1>2, <1>13
      <3>2. PICK k \in 1 .. K : m[k].ops = i
        BY <2>1, <3>1
      <3>3. k \in 1 .. K - 1
        BY <3>1, <3>2, <2>2, <1>6
      <3> QED BY <3>2, <3>3, <1>5
    <2> QED BY <2>3
  <1>15. \A i \in 1 .. n : IsOp(q[i], "?:") =>
             \E k \in 1 .. K : p2[k] \in {"ternary1", "ternary2"} /\ Base(p2, m2, k) = i
    <2>1. \A i \in 1 .. n : IsOp(o[i], "?:") =>
             \E k \in 1 .. K : p[k] \in {"ternary1", "ternary2"} /\ Base(p, m, k) = i
      BY <1>2 DEF Matched
    <2>2. p2[K] = "ternary2" /\ Base(p2, m2, K) = Base(p, m, K)
      BY <1>2, <1>4
    <2>3. ASSUME NEW i \in 1 .. n, IsOp(q[i], "?:")
          PROVE  \E k \in 1 .. K : p2[k] \in {"ternary1", "ternary2"} /\ Base(p2, m2, k) = i
      <3>1. i \in 1 .. n - 1 /\ IsOp(o[i], "?:")
        BY <2>3, <1>2, <1>13
      <3>2. PICK k \in 1 .. K : p[k] \in {"ternary1", "ternary2"} /\ Base(p, m, k) = i
        BY <2>1, <3>1
      <3>3. p2[k] \in {"ternary1", "ternary2"} /\ Base(p2, m2, k) = i
        BY <3>2, <2>2, <1>5, <1>6
      <3> QED BY <3>3
    <2> QED BY <2>3
  <1> QED BY <1>2, <1>10, <1>11, <1>12, <1>14, <1>15 DEF Matched
-----------------------------------------------------------------------------
(* What the invariant says of the top of the stacks.                       *)
LEMMA TopFacts ==
    ASSUME IInv, ops # <<>>
    PROVE  /\ OnParen => /\ paren # <<>> /\ Back(paren) # "ternary2"
                         /\ mark[Len(paren)].ops = Len(ops)
           /\ IsOp(ops[Len(ops)], "?:") => /\ InTernary2
                                          /\ mark[Len(paren)].ops = Len(ops)
  <1>1. /\ ops \in Seq(OpEntry) /\ paren \in Seq(ParenType) /\ mark \in Seq(Mark) /\ Len(argc) \in Nat
        /\ Matched(ops, paren, mark, Len(argc))
    BY DEF IInv, ParseTypeOK, OpEntry, Mark
  <1>2. Len(ops) \in 1 .. Len(ops) /\ Len(mark) = Len(paren) /\ Len(paren) \in Nat
    BY <1>1, EmptySeq DEF Matched
  <1>3. ASSUME OnParen
        PROVE  paren # <<>> /\ Back(paren) # "ternary2" /\ mark[Len(paren)].ops = Len(ops)
    <2>1. ops[Len(ops)].isparen
      BY <1>3 DEF OnParen, Back
    <2>2. PICK k \in 1 .. Len(paren) : mark[k].ops = Len(ops)
      BY <2>1, <1>1, <1>2 DEF Matched
    <2>3. k = Len(paren)
      BY <1>1, <2>2, TopIsLast
    <2>4. paren[k] # "ternary2"
      BY <1>1, <2>1, <2>2 DEF Matched, IsOp
    <2>5. paren # <<>>
      BY <2>2, EmptySeq
    <2> QED BY <2>2, <2>3, <2>4, <2>5 DEF Back
  <1>4. ASSUME IsOp(ops[Len(ops)], "?:")
        PROVE  InTernary2 /\ mark[Len(paren)].ops = Len(ops)
    <2>1. PICK k \in 1 .. Len(paren) : paren[k] \in {"ternary1", "ternary2"} /\ Base(paren, mark, k) = Len(ops)
      BY <1>1, <1>2, <1>4 DEF Matched
    <2>2. mark[k] \in Mark /\ mark[k].ops <= Len(ops)
      BY <1>1, <1>2, ElementOfSeq DEF Matched
    <2>3. paren[k] = "ternary2" /\ mark[k].ops = Len(ops)
      BY <1>2, <2>1, <2>2 DEF Base, Mark
    <2>4. k = Len(paren)
      BY <1>1, <2>3, TopIsLast
    <2>5. paren # <<>>
      BY <2>1, EmptySeq
    <2> QED BY <2>3, <2>4, <2>5 DEF InTernary2, Back
  <1> QED BY <1>3, <1>4

(* The stacks agree wherever the invariant holds.                          *)
LEMMA MatchedAgree == IInv => StacksAgree
  <1> SUFFICES ASSUME IInv PROVE StacksAgree
    OBVIOUS
  <1>1. /\ ops \in Seq(OpEntry) /\ paren \in Seq(ParenType) /\ mark \in Seq(Mark) /\ argc \in Seq(Nat)
        /\ Matched(ops, paren, mark, Len(argc))
    BY DEF IInv, ParseTypeOK, OpEntry, Mark
  <1>2. paren # <<>> => Len(paren) \in 1 .. Len(paren)
    BY <1>1, EmptySeq
  <1>3. OnParen => paren # <<>> /\ Back(paren) # "ternary2"
    BY TopFacts DEF OnParen, OpsEmpty
  <1>4. ~OpsEmpty /\ ~OnParen /\ Applied.id = "?:" => InTernary2
    BY TopFacts DEF OnParen, OpsEmpty, Applied, Back, IsOp
  <1>5. paren # <<>> /\ Back(paren) = "func" => argc # <<>>
    <2>1. ASSUME paren # <<>>, Back(paren) = "func", argc = <<>> PROVE FALSE
      <3>1. 1 <= mark[Len(paren)].argc /\ mark[Len(paren)].argc <= 0
        BY <1>1, <1>2, <2>1, EmptySeq DEF Matched, Back
      <3>2. mark[Len(paren)] \in Mark
        BY <1>1, <1>2, <2>1, ElementOfSeq DEF Matched
      <3> QED BY <3>1, <3>2 DEF Mark
    <2> QED BY <2>1
  <1>6. OnParen /\ Back(paren) = "index" => Len(ops) > 1 /\ ops[Len(ops) - 1].op.id = "["
    <2>1. ASSUME OnParen, Back(paren) = "index"
          PROVE  Len(ops) > 1 /\ ops[Len(ops) - 1].op.id = "["
      <3>1. paren # <<>> /\ mark[Len(paren)].ops = Len(ops)
        BY <2>1, TopFacts DEF OnParen, OpsEmpty
      <3>2. 1 <= Len(ops) - 1 /\ IsOp(ops[Len(ops) - 1], "[")
        BY <1>1, <1>2, <2>1, <3>1 DEF Matched, Base, Back
      <3> QED BY <1>1, <3>2 DEF IsOp
    <2> QED BY <2>1
  <1>7. OpsEmpty => paren = <<>>
    <2>1. ASSUME OpsEmpty, paren # <<>> PROVE FALSE
      <3>1. 1 <= Base(paren, mark, Len(paren)) /\ mark[Len(paren)].ops <= 0
        BY <1>1, <1>2, <2>1, EmptySeq DEF Matched, OpsEmpty
      <3>2. mark[Len(paren)] \in Mark
        BY <1>1, <1>2, <2>1, ElementOfSeq DEF Matched
      <3> QED BY <3>1, <3>2 DEF Mark, Base
    <2> QED BY <2>1
  <1> QED BY <1>3, <1>4, <1>5, <1>6, <1>7 DEF StacksAgree

(* The initial state.                                                      *)
LEMMA InitIInv == ParseInit => IInv
  <1> SUFFICES ASSUME ParseInit PROVE IInv
    OBVIOUS
  <1>1. PICK i \in Inputs : ParseStart(i)
    BY DEF ParseInit
  <1>2. NoOp \in OperEntry /\ NoOp.id # "?:"
    BY DEF NoOp, Entry, OperEntry
  <1>3. ParseTypeOK
    <2>1. input.table \in DOMAIN Tables
      BY <1>1, ShuntingAssumption DEF ParseStart, ShuntingAssumption
    <2>2. /\ ops \in Seq([isparen : BOOLEAN, op : OperEntry, off : Nat])
          /\ paren \in Seq(ParenType) /\ argc \in Seq(Nat)
          /\ mark \in Seq([ops : Nat, argc : Nat])
          /\ out \in Seq({out[k] : k \in DOMAIN out})
      BY <1>1, EmptySeq DEF ParseStart
    <2>3. pos \in Nat \ {0} /\ ternaries \in Int
      BY <1>1 DEF ParseStart
    <2>4. wantop \in BOOLEAN
      BY <1>1, Zenon DEF ParseStart
    <2>5. stage \in {"token", "operator", "close", "end"} \cup Final /\ cur \in OperEntry
      BY <1>1, <1>2, Zenon DEF ParseStart
    <2> QED BY <2>1, <2>2, <2>3, <2>4, <2>5 DEF ParseTypeOK
  <1>4. Matched(ops, paren, mark, Len(argc))
    BY <1>1, EmptySeq DEF ParseStart, Matched
  <1> QED BY <1>1, <1>2, <1>3, <1>4 DEF IInv, NoTernary, ParseStart

LEMMA RejectKeeps ==
    ASSUME IInv, Reject
    PROVE  IInv'
  <1>1. ParseTypeOK' /\ NoTernary'
    BY DEF IInv, Reject, stacks, ParseTypeOK, NoTernary, Final
  <1>2. Matched(ops, paren, mark, Len(argc))'
    BY DEF IInv, Reject, stacks
  <1> QED BY <1>1, <1>2 DEF IInv
-----------------------------------------------------------------------------
(* The type invariant in two halves, and what changes in the second.       *)
IsSeq(s) == s \in Seq({s[k] : k \in DOMAIN s})

StacksOK == /\ ops \in Seq(OpEntry) /\ paren \in Seq(ParenType)
            /\ argc \in Seq(Nat) /\ mark \in Seq(Mark) /\ IsSeq(out)
RestOK == /\ input.table \in DOMAIN Tables /\ pos \in Nat \ {0} /\ ternaries \in Int /\ wantop \in BOOLEAN
          /\ stage \in {"token", "operator", "close", "end"} \cup Final
          /\ cur \in OperEntry

LEMMA Halves == ParseTypeOK <=> StacksOK /\ RestOK
  BY DEF ParseTypeOK, StacksOK, RestOK, OpEntry, Mark, IsSeq

LEMMA NoOpFacts == NoOp \in OperEntry /\ NoOp.id = ""
  BY DEF NoOp, Entry, OperEntry

LEMMA AdvanceKeeps ==
    ASSUME RestOK, Advance, cur' = NoOp \/ cur' = cur, cur'.id # "?:", ternaries' \in Int, wantop' \in BOOLEAN
    PROVE  RestOK' /\ NoTernary'
  <1>1. pos' \in Nat \ {0} /\ input' = input
    BY DEF RestOK, Advance
  <1>2. stage' \in {"rejected", "end", "token"}
    BY DEF Advance
  <1>3. cur' \in OperEntry
    BY NoOpFacts DEF RestOK
  <1> QED BY <1>1, <1>2, <1>3 DEF RestOK, NoTernary, Final

LEMMA PopFacts ==
    ASSUME NEW S, NEW s \in Seq(S), s # <<>>
    PROVE  /\ Pop(s) \in Seq(S) /\ Len(Pop(s)) = Len(s) - 1
           /\ \A i \in 1 .. Len(s) - 1 : Pop(s)[i] = s[i]
  <1>1. 1 <= Len(s) /\ 1 \in Nat
    BY EmptySeq
  <1>2. /\ SubSeq(s, 1, Len(s) - 1) \in Seq(S) /\ Len(SubSeq(s, 1, Len(s) - 1)) = Len(s) - 1
        /\ \A i \in 1 .. Len(s) - 1 : SubSeq(s, 1, Len(s) - 1)[i] = s[i]
    BY <1>1, Dropped, Zenon
  <1> QED BY <1>2 DEF Pop

(* An element behind the last one.                                         *)
LEMMA AppendIsSeq ==
    ASSUME NEW s, IsSeq(s), NEW e
    PROVE  IsSeq(Append(s, e))
  <1>1. s \in Seq({s[k] : k \in DOMAIN s})
    BY DEF IsSeq
  <1>2. Append(s, e) \in Seq({Append(s, e)[k] : k \in DOMAIN Append(s, e)})
    BY <1>1, AppendElements, ZenonT(30)
  <1> QED BY <1>2, Zenon DEF IsSeq

(* An element in place of the last ones.                                   *)
LEMMA PushIsSeq ==
    ASSUME NEW s, IsSeq(s), NEW n \in Int, n <= Len(s), NEW e
    PROVE  IsSeq(Append(SubSeq(s, 1, n), e))
  <1> DEFINE S == {s[k] : k \in DOMAIN s}
  <1> DEFINE t == SubSeq(s, 1, n)
  <1>1. s \in Seq(S)
    BY DEF IsSeq
  <1>2. Len(s) \in Nat
    BY <1>1, LenProperties
  <1> HIDE DEF S
  <1>3. t \in Seq(S)
    BY <1>1, Shorter
  <1> HIDE DEF t
  <1>4. t \in Seq({t[k] : k \in DOMAIN t})
    BY <1>3, Elements
  <1>5. IsSeq(t)
    BY <1>4, Zenon DEF IsSeq
  <1>6. IsSeq(Append(t, e))
    BY <1>5, AppendIsSeq
  <1> QED BY <1>6 DEF t

LEMMA PopNFacts ==
    ASSUME NEW s, IsSeq(s), NEW k \in Nat
    PROVE  Len(s) - k \in Int /\ Len(s) - k <= Len(s)
  <1>1. Len(s) \in Nat
    BY DEF IsSeq
  <1> QED BY <1>1

(* The stacks when the top operator, no parenthesis, is taken off.         *)
LEMMA DropTop ==
    ASSUME IInv, ~OpsEmpty, ~OnParen, Applied.id # "?:", ops' = Pop(ops),
           UNCHANGED <<paren, mark>>, Len(argc') = Len(argc)
    PROVE  ops' \in Seq(OpEntry) /\ Matched(ops, paren, mark, Len(argc))'
  <1>1. /\ ops \in Seq(OpEntry) /\ paren \in Seq(ParenType) /\ mark \in Seq(Mark) /\ Len(argc) \in Nat
        /\ Matched(ops, paren, mark, Len(argc))
    BY DEF IInv, ParseTypeOK, OpEntry, Mark
  <1>2. ops # <<>> /\ ~ops[Len(ops)].isparen /\ ~IsOp(ops[Len(ops)], "?:")
    BY DEF OpsEmpty, OnParen, Applied, Back, IsOp
  <1>3. ops' = SubSeq(ops, 1, Len(ops) - 1)
    BY DEF Pop
  <1>4. Matched(ops', paren, mark, Len(argc))
    BY <1>1, <1>2, <1>3, DropKeeps
  <1> QED BY <1>1, <1>2, <1>4, PopFacts

(* A parenthesis is left, with all that belongs to it.                     *)
LEMMA LeaveTop ==
    ASSUME IInv, ops # <<>>, paren # <<>>, Back(paren) # "ternary1", mark[Len(paren)].ops = Len(ops),
           ops' \in Seq(OpEntry), Len(ops') = Base(paren, mark, Len(paren)) - 1,
           \A i \in 1 .. Len(ops') : ops'[i] = ops[i],
           paren' = Pop(paren), mark' = Pop(mark), argc' \in Seq(Nat),
           \A k \in 1 .. Len(paren) - 1 : mark[k].argc <= Len(argc')
    PROVE  /\ paren' \in Seq(ParenType) /\ mark' \in Seq(Mark)
           /\ Matched(ops, paren, mark, Len(argc))'
  <1>1. /\ ops \in Seq(OpEntry) /\ paren \in Seq(ParenType) /\ mark \in Seq(Mark) /\ Len(argc) \in Nat
        /\ Matched(ops, paren, mark, Len(argc))
    <2>1. ops \in Seq(OpEntry) /\ paren \in Seq(ParenType) /\ mark \in Seq(Mark) /\ argc \in Seq(Nat)
      BY DEF IInv, ParseTypeOK, OpEntry, Mark
    <2> QED BY <2>1, LenProperties DEF IInv
  <1>2. Len(mark) = Len(paren) /\ Len(paren) \in Nat \ {0} /\ mark # <<>>
    BY <1>1, EmptySeq DEF Matched
  <1>3. /\ paren' \in Seq(ParenType) /\ Len(paren') = Len(paren) - 1
        /\ \A k \in 1 .. Len(paren) - 1 : paren'[k] = paren[k]
    BY <1>1, PopFacts
  <1>4. /\ mark' \in Seq(Mark) /\ Len(mark') = Len(paren) - 1
        /\ \A k \in 1 .. Len(paren) - 1 : mark'[k] = mark[k]
    BY <1>1, <1>2, PopFacts
  <1>5. Len(argc') \in Nat
    OBVIOUS
  <1>6. Matched(ops', paren', mark', Len(argc'))
    BY <1>1, <1>2, <1>3, <1>4, <1>5, LeaveKeeps, ZenonT(60) DEF Back
  <1> QED BY <1>3, <1>4, <1>6
-----------------------------------------------------------------------------
(* What is below the operands of an operator.                              *)
LEMMA OperandsFacts ==
    ASSUME IInv, CanApply
    PROVE  /\ ops # <<>> /\ ops \in Seq(OpEntry) /\ Applied \in OperEntry /\ Applied.operands \in Nat
           /\ Applied.id = "?:" => Applied.operands # 0
  <1>1. ops # <<>> /\ ops \in Seq(OpEntry)
    BY DEF IInv, ParseTypeOK, OpEntry, CanApply, OpsEmpty
  <1>2. Len(ops) \in 1 .. Len(ops)
    BY <1>1, EmptySeq
  <1>3. Applied \in OperEntry
    <2>1. ops[Len(ops)] \in OpEntry
      BY <1>1, <1>2, ElementOfSeq
    <2> QED BY <2>1 DEF Applied, Back, OpEntry
  <1>4. CASE Applied = NoOp
    BY <1>1, <1>3, <1>4 DEF NoOp, Entry
  <1>5. CASE Applied # NoOp
    BY <1>1, <1>3, <1>5, ShuntingAssumption DEF OperEntry, ShuntingAssumption
  <1> QED BY <1>4, <1>5

(* A comma in the arguments of a call.                                     *)
LEMMA SeparateKeeps ==
    ASSUME IInv, CanApply, Reduce, Applied.operands # 0, SeparatesArguments
    PROVE  StacksOK' /\ Matched(ops, paren, mark, Len(argc))'
  <1>1. /\ ops' = Pop(ops) /\ argc' = [argc EXCEPT ![Len(argc)] = argc[Len(argc)] + 1]
        /\ UNCHANGED <<paren, mark>>
    BY DEF Reduce
  <1>2. argc \in Seq(Nat) /\ argc # <<>>
    BY MatchedAgree DEF IInv, ParseTypeOK, StacksAgree, SeparatesArguments
  <1>3. Len(argc) \in 1 .. Len(argc) /\ argc[Len(argc)] \in Nat
    BY <1>2, EmptySeq, ElementOfSeq
  <1>4. argc' \in Seq(Nat) /\ Len(argc') = Len(argc)
    BY <1>1, <1>2, <1>3, ExceptSeq
  <1>5. ops' \in Seq(OpEntry) /\ Matched(ops, paren, mark, Len(argc))'
    BY <1>1, <1>4, DropTop DEF CanApply, SeparatesArguments
  <1>6. IsSeq(out')
    <2> DEFINE last == [k \in 1 .. 2 |-> [Exprs[k] EXCEPT !.block = FALSE]]
    <2> DEFINE rest == PopN(out, 2)
    <2> DEFINE S == {out[k] : k \in DOMAIN out} \cup {last[1], last[2]}
    <2>1. out' = rest \o last
      BY DEF Reduce
    <2>2. rest \in Seq(S)
      <3>1. IsSeq(out)
        BY DEF IInv, ParseTypeOK, IsSeq
      <3>2. out \in Seq(S)
        <4>1. \A i \in 1 .. Len(out) : out[i] \in S
          BY <3>1, ElementOfSeq DEF IsSeq
        <4> HIDE DEF last
        <4> QED BY <3>1, <4>1, SeqDef DEF IsSeq
      <3>3. Len(out) - 2 \in Int /\ Len(out) - 2 <= Len(out)
        BY <3>1, PopNFacts
      <3> HIDE DEF S
      <3> QED BY <3>2, <3>3, Shorter DEF PopN
    <2>3. last \in Seq(S)
      <3>1. last[1] \in S /\ last[2] \in S
        BY Zenon
      <3>2. \A k \in 1 .. 2 : last[k] \in S
        <4> HIDE DEF S, last
        <4>1. \A k \in 1 .. 2 : k = 1 \/ k = 2
          OBVIOUS
        <4> QED BY <3>1, <4>1
      <3> DEFINE f(k) == [Exprs[k] EXCEPT !.block = FALSE]
      <3>3. last = [k \in 1 .. 2 |-> f(k)]
        OBVIOUS
      <3>4. \A k \in 1 .. 2 : f(k) \in S
        <4>1. \A k \in 1 .. 2 : last[k] = f(k)
          OBVIOUS
        <4> HIDE DEF S, last, f
        <4> QED BY <3>2, <4>1
      <3> HIDE DEF S, last, f
      <3>5. [k \in 1 .. 2 |-> f(k)] \in Seq(S)
        BY <3>4, IsASeq
      <3> QED BY <3>3, <3>5
    <2> HIDE DEF S, rest, last
    <2>4. out' \in Seq(S)
      BY <2>1, <2>2, <2>3, ConcatProperties
    <2> QED BY <2>4, Elements DEF IsSeq
  <1>7. paren \in Seq(ParenType) /\ mark \in Seq(Mark)
    BY DEF IInv, ParseTypeOK, Mark
  <1> QED BY <1>1, <1>4, <1>5, <1>6, <1>7 DEF StacksOK, IsSeq

(* Any other operator.                                                     *)
LEMMA ReduceKeeps ==
    ASSUME IInv, CanApply, Reduce
    PROVE  StacksOK' /\ Matched(ops, paren, mark, Len(argc))'
  <1>1. /\ ops # <<>> /\ ops \in Seq(OpEntry) /\ Applied.operands \in Nat
        /\ Applied.id = "?:" => Applied.operands # 0
    BY OperandsFacts
  <1>2. ops' = Pop(ops) /\ ~OpsEmpty /\ ~OnParen
    BY DEF Reduce, CanApply
  <1>3. /\ paren \in Seq(ParenType) /\ mark \in Seq(Mark) /\ argc \in Seq(Nat) /\ IsSeq(out)
        /\ Matched(ops, paren, mark, Len(argc))
    BY DEF IInv, ParseTypeOK, Mark, IsSeq
  <1>4. CASE Applied.operands = 0
    <2>1. UNCHANGED <<out, argc, paren, mark>>
      BY <1>4 DEF Reduce
    <2>2. ops' \in Seq(OpEntry) /\ Matched(ops, paren, mark, Len(argc))'
      BY <1>1, <1>2, <1>4, <2>1, DropTop
    <2> QED BY <1>3, <2>1, <2>2 DEF StacksOK, IsSeq
  <1>5. CASE Applied.operands # 0 /\ SeparatesArguments
    BY <1>5, SeparateKeeps
  <1>6. CASE Applied.operands # 0 /\ ~SeparatesArguments
    <2>1. argc' = argc /\ Unparen
      BY <1>6 DEF Reduce
    <2>2. IsSeq(out')
      <3>1. PICK e : out' = Append(SubSeq(out, 1, Len(out) - Applied.operands), e)
        BY <1>6 DEF Reduce, Push, PopN
      <3>2. Len(out) - Applied.operands \in Int /\ Len(out) - Applied.operands <= Len(out)
        BY <1>1, <1>3, PopNFacts
      <3> QED BY <1>3, <3>1, <3>2, PushIsSeq
    <2>3. CASE Applied.id # "?:"
      <3>1. UNCHANGED <<paren, mark>>
        BY <2>1, <2>3 DEF Unparen
      <3>2. ops' \in Seq(OpEntry) /\ Matched(ops, paren, mark, Len(argc))'
        BY <1>2, <2>1, <2>3, <3>1, DropTop
      <3> QED BY <1>3, <2>1, <2>2, <3>1, <3>2 DEF StacksOK
    <2>4. CASE Applied.id = "?:"
      <3>1. paren' = Pop(paren) /\ mark' = Pop(mark)
        BY <2>1, <2>4 DEF Unparen
      <3>2. InTernary2 /\ mark[Len(paren)].ops = Len(ops)
        BY <1>1, <1>2, <2>4, TopFacts DEF OnParen, OpsEmpty, Applied, Back, IsOp
      <3>3. paren # <<>> /\ Back(paren) = "ternary2"
        BY <3>2 DEF InTernary2
      <3>4. /\ ops' \in Seq(OpEntry) /\ Len(ops') = Len(ops) - 1
            /\ \A i \in 1 .. Len(ops) - 1 : ops'[i] = ops[i]
        BY <1>1, <1>2, PopFacts
      <3>5. Base(paren, mark, Len(paren)) = Len(ops)
        BY <3>2, <3>3 DEF Base, Back
      <3>6. \A k \in 1 .. Len(paren) - 1 : mark[k].argc <= Len(argc)
        BY <1>3 DEF Matched
      <3>7. /\ paren' \in Seq(ParenType) /\ mark' \in Seq(Mark)
            /\ Matched(ops, paren, mark, Len(argc))'
        BY <1>1, <1>3, <2>1, <3>1, <3>2, <3>3, <3>4, <3>5, <3>6, LeaveTop
      <3> QED BY <1>3, <2>1, <2>2, <3>4, <3>7 DEF StacksOK
    <2> QED BY <2>3, <2>4
  <1> QED BY <1>4, <1>5, <1>6

LEMMA ApplyKeeps ==
    ASSUME IInv, Apply
    PROVE  IInv'
  <1>1. CASE CanApply
    <2>1. Reduce /\ UNCHANGED <<input, pos, stage, cur, ternaries, wantop>>
      BY <1>1 DEF Apply
    <2>2. RestOK' /\ NoTernary'
      BY <2>1, Halves DEF IInv, RestOK, NoTernary
    <2> QED BY <1>1, <2>1, <2>2, ReduceKeeps, Halves DEF IInv, StacksOK, RestOK, ParseTypeOK, OpEntry, Mark, IsSeq
  <1>2. CASE ~CanApply
    BY <1>2, RejectKeeps DEF Apply
  <1> QED BY <1>1, <1>2
-----------------------------------------------------------------------------
(* What the actions have in common: only the stage changes, ...            *)
LEMMA StageKeeps ==
    ASSUME IInv, stage' \in {"token", "operator", "close", "end"} \cup Final,
           stage' \in {"token", "close"} => cur'.id # "?:", cur' \in OperEntry,
           UNCHANGED <<input, pos, stacks, ternaries, wantop>>
    PROVE  IInv'
  <1>1. StacksOK' /\ RestOK'
    BY Halves DEF IInv, StacksOK, RestOK, stacks
  <1>2. ParseTypeOK'
    BY <1>1 DEF ParseTypeOK, StacksOK, RestOK, OpEntry, Mark, IsSeq
  <1>3. Matched(ops, paren, mark, Len(argc))'
    BY DEF IInv, stacks
  <1> QED BY <1>2, <1>3 DEF IInv, NoTernary

(* ... or the loop over the tokens goes on.                                *)
LEMMA StepKeeps ==
    ASSUME IInv, StacksOK', Matched(ops, paren, mark, Len(argc))', Advance,
           cur' = NoOp \/ cur' = cur, cur'.id # "?:", ternaries' \in Int, wantop' \in BOOLEAN
    PROVE  IInv'
  <1>1. RestOK
    BY Halves DEF IInv
  <1>2. RestOK' /\ NoTernary'
    BY <1>1, AdvanceKeeps
  <1> QED BY <1>2 DEF IInv, ParseTypeOK, StacksOK, RestOK, OpEntry, Mark, IsSeq

LEMMA ClassifyKeeps == IInv /\ ClassifyOperator => IInv'
  <1> SUFFICES ASSUME IInv, ClassifyOperator PROVE IInv'
    OBVIOUS
  <1>1. cur \in OperEntry /\ input.table \in DOMAIN Tables
    BY DEF IInv, ParseTypeOK
  <1>2. CASE StopsAt(ThisOperator)
    BY <1>1, <1>2, StageKeeps DEF ClassifyOperator, LeaveLoop, stacks
  <1>3. CASE ~StopsAt(ThisOperator)
    <2>1. ThisOperator \in OperEntry
      <3>1. ThisOperator \in Known(Token.text)
        BY DEF ClassifyOperator, ThisOperator
      <3> QED BY <1>1, <3>1 DEF Known, Lookup, OperEntry
    <2> QED BY <1>3, <2>1, StageKeeps DEF ClassifyOperator
  <1> QED BY <1>2, <1>3

(* An opening parenthesis, bracket or question mark.                       *)
LEMMA EnteredKeeps ==
    ASSUME IInv, NEW t \in ParenType \ {"ternary2"}, NEW entries \in Seq(OpEntry), Entered(t, entries),
           argc' \in Seq(Nat), Len(argc) <= Len(argc'), t = "func" => Len(argc) < Len(argc'),
           Len(entries) = (IF t \in {"index", "ternary1"} THEN 2 ELSE 1),
           entries[Len(entries)].isparen,
           t = "ternary1" => IsOp(entries[1], "?:"), t = "index" => IsOp(entries[1], "[")
    PROVE  StacksOK' /\ Matched(ops, paren, mark, Len(argc))'
  <1>1. /\ ops \in Seq(OpEntry) /\ paren \in Seq(ParenType) /\ mark \in Seq(Mark) /\ IsSeq(out)
        /\ Len(argc) \in Nat /\ Matched(ops, paren, mark, Len(argc))
    BY DEF IInv, ParseTypeOK, OpEntry, Mark, IsSeq
  <1>2. /\ paren' = Append(paren, t) /\ ops' = ops \o entries /\ out' = out
        /\ mark' = Append(mark, [ops |-> Len(ops'), argc |-> Len(argc')])
    BY DEF Entered
  <1>3. /\ ops' \in Seq(OpEntry) /\ Len(ops') = Len(ops) + Len(entries)
        /\ \A i \in 1 .. Len(ops) : ops'[i] = ops[i]
        /\ \A i \in 1 .. Len(entries) : ops'[Len(ops) + i] = entries[i]
    <2>1. /\ ops \o entries \in Seq(OpEntry) /\ Len(ops \o entries) = Len(ops) + Len(entries)
          /\ \A i \in 1 .. Len(ops) : (ops \o entries)[i] = ops[i]
          /\ \A i \in 1 .. Len(entries) : (ops \o entries)[Len(ops) + i] = entries[i]
      BY <1>1, Joined
    <2>2. ops' = ops \o entries
      BY <1>2
    <2> QED BY <2>1, <2>2
  <1>4. Len(ops') \in Nat /\ Len(argc') \in Nat
    BY <1>3
  <1>5. /\ 1 \in 1 .. Len(entries) /\ Len(entries) \in 1 .. Len(entries)
        /\ Len(ops') = Len(ops) + (IF t \in {"index", "ternary1"} THEN 2 ELSE 1)
    BY <1>3
  <1>6. ops'[Len(ops')] = entries[Len(entries)] /\ ops'[Len(ops) + 1] = entries[1]
    BY <1>3, <1>5
  <1>7. Matched(ops', paren', mark', Len(argc'))
    <2>1. /\ ops'[Len(ops')].isparen
          /\ t = "ternary1" => IsOp(ops'[Len(ops) + 1], "?:")
          /\ t = "index" => IsOp(ops'[Len(ops) + 1], "[")
      BY <1>6
    <2>2. Matched(ops', Append(paren, t), Append(mark, [ops |-> Len(ops'), argc |-> Len(argc')]), Len(argc'))
      BY <1>1, <1>3, <1>4, <1>5, <2>1, EnterKeeps, Zenon
    <2> QED BY <1>2, <2>2
  <1>8. paren' \in Seq(ParenType) /\ mark' \in Seq(Mark)
    BY <1>1, <1>2, <1>4 DEF Mark
  <1> QED BY <1>1, <1>2, <1>3, <1>7, <1>8 DEF StacksOK, IsSeq

LEMMA EntryFacts ==
    ASSUME IInv
    PROVE  /\ syop(cur) \in OpEntry /\ ~syop(cur).isparen /\ syop(cur).op = cur
           /\ \A n \in Nat : syparen(n) \in OpEntry /\ syparen(n).isparen
           /\ Len(out) \in Nat /\ argc \in Seq(Nat) /\ ternaries \in Int /\ wantop \in BOOLEAN
  <1>1. /\ syop(cur) \in OpEntry /\ ~syop(cur).isparen /\ syop(cur).op = cur
        /\ \A n \in Nat : syparen(n) \in OpEntry /\ syparen(n).isparen
    BY NoOpFacts DEF IInv, ParseTypeOK, OpEntry, syop, syparen
  <1>2. argc \in Seq(Nat) /\ ternaries \in Int /\ IsSeq(out)
    BY DEF IInv, ParseTypeOK, IsSeq
  <1>3. wantop \in BOOLEAN
    BY Zenon DEF IInv, ParseTypeOK
  <1>4. Len(out) \in Nat
    BY <1>2 DEF IsSeq
  <1> QED BY <1>1, <1>2, <1>3, <1>4

LEMMA OpenParenKeeps == IInv /\ OpenParen => IInv'
  <1> SUFFICES ASSUME IInv, OpenParen PROVE IInv'
    OBVIOUS
  <1>1. StacksOK' /\ Matched(ops, paren, mark, Len(argc))'
    <2>1. CASE wantop
      <3> DEFINE e == <<syparen(Len(out))>>
      <3>1. argc' = Append(argc, 0) /\ Entered("func", e)
        BY <2>1 DEF OpenParen
      <3>2. e \in Seq(OpEntry) /\ Len(e) = 1 /\ e[1].isparen
        BY EntryFacts
      <3>3. argc' \in Seq(Nat) /\ Len(argc) < Len(argc') /\ Len(argc) <= Len(argc')
        BY <3>1, EntryFacts
      <3> HIDE DEF e
      <3> QED BY <3>1, <3>2, <3>3, EnteredKeeps DEF ParenType
    <2>2. CASE ~wantop
      <3> DEFINE e == <<syparen(0)>>
      <3>1. argc' = argc /\ Entered("expr", e)
        BY <2>2 DEF OpenParen
      <3>2. e \in Seq(OpEntry) /\ Len(e) = 1 /\ e[1].isparen
        BY EntryFacts
      <3>3. argc' \in Seq(Nat) /\ Len(argc) <= Len(argc')
        BY <3>1, EntryFacts
      <3> HIDE DEF e
      <3> QED BY <3>1, <3>2, <3>3, EnteredKeeps DEF ParenType
    <2> QED BY <2>1, <2>2
  <1>2. cur' = NoOp /\ ternaries' = ternaries /\ Advance
    BY DEF OpenParen
  <1>3. wantop' \in BOOLEAN
    BY Zenon DEF OpenParen
  <1> QED BY <1>1, <1>2, <1>3, StepKeeps, NoOpFacts, EntryFacts

LEMMA OpenIndexKeeps == IInv /\ OpenIndex => IInv'
  <1> SUFFICES ASSUME IInv, OpenIndex PROVE IInv'
    OBVIOUS
  <1>1. CASE wantop
    <2> DEFINE e == <<syop(cur), syparen(0)>>
    <2>1. argc' = argc /\ Entered("index", e) /\ cur' = NoOp /\ ternaries' = ternaries /\ Advance
      BY <1>1 DEF OpenIndex
    <2>2. e \in Seq(OpEntry) /\ Len(e) = 2 /\ e[2].isparen /\ IsOp(e[1], "[")
      BY EntryFacts DEF OpenIndex, IsOp
    <2>3. argc' \in Seq(Nat) /\ Len(argc) <= Len(argc')
      BY <2>1, EntryFacts
    <2> HIDE DEF e
    <2>4. StacksOK' /\ Matched(ops, paren, mark, Len(argc))'
      BY <2>1, <2>2, <2>3, EnteredKeeps DEF ParenType
    <2>5. wantop' \in BOOLEAN
      BY <1>1, Zenon DEF OpenIndex
    <2> QED BY <2>1, <2>4, <2>5, StepKeeps, NoOpFacts, EntryFacts
  <1>2. CASE ~wantop
    BY <1>2, RejectKeeps DEF OpenIndex
  <1> QED BY <1>1, <1>2

LEMMA OpenTernaryKeeps == IInv /\ OpenTernary => IInv'
  <1> SUFFICES ASSUME IInv, OpenTernary PROVE IInv'
    OBVIOUS
  <1> DEFINE e == <<syop(cur), syparen(0)>>
  <1>1. argc' = argc /\ Entered("ternary1", e) /\ cur' = NoOp /\ ternaries' = ternaries + 1 /\ Advance
    BY DEF OpenTernary
  <1>2. e \in Seq(OpEntry) /\ Len(e) = 2 /\ e[2].isparen /\ IsOp(e[1], "?:")
    BY EntryFacts DEF OpenTernary, IsOp
  <1>3. argc' \in Seq(Nat) /\ Len(argc) <= Len(argc')
    BY <1>1, EntryFacts
  <1> HIDE DEF e
  <1>4. StacksOK' /\ Matched(ops, paren, mark, Len(argc))'
    BY <1>1, <1>2, <1>3, EnteredKeeps DEF ParenType
  <1>5. wantop' \in BOOLEAN
    BY Zenon DEF OpenTernary
  <1>6. ternaries' \in Int
    BY <1>1, EntryFacts
  <1> QED BY <1>1, <1>4, <1>5, <1>6, StepKeeps, NoOpFacts

LEMMA MeetColonKeeps == IInv /\ MeetColon => IInv'
  <1> SUFFICES ASSUME IInv, MeetColon PROVE IInv'
    OBVIOUS
  <1>1. cur \in OperEntry /\ cur.id # "?:"
    BY DEF IInv, ParseTypeOK, MeetColon
  <1> QED BY <1>1, RejectKeeps, StageKeeps DEF MeetColon, stacks

LEMMA PushOperatorKeeps == IInv /\ PushOperator => IInv'
  <1> SUFFICES ASSUME IInv, PushOperator PROVE IInv'
    OBVIOUS
  <1>1. /\ ops \in Seq(OpEntry) /\ paren \in Seq(ParenType) /\ mark \in Seq(Mark) /\ IsSeq(out)
        /\ argc \in Seq(Nat) /\ Len(argc) \in Nat /\ Matched(ops, paren, mark, Len(argc))
    BY DEF IInv, ParseTypeOK, OpEntry, Mark, IsSeq
  <1>2. /\ ops' = Append(ops, syop(cur)) /\ UNCHANGED <<out, paren, argc, mark, ternaries>>
        /\ cur' = NoOp /\ Advance /\ cur.id # "?:"
    BY DEF PushOperator
  <1>3. ~IsOp(syop(cur), "?:")
    BY <1>2, EntryFacts DEF IsOp
  <1>4. Matched(ops', paren, mark, Len(argc))
    BY <1>1, <1>2, <1>3, EntryFacts, PushKeeps
  <1>5. ops' \in Seq(OpEntry)
    BY <1>1, <1>2, EntryFacts
  <1>6. StacksOK' /\ Matched(ops, paren, mark, Len(argc))'
    BY <1>1, <1>2, <1>4, <1>5 DEF StacksOK, IsSeq
  <1>7. wantop' \in BOOLEAN
    BY Zenon DEF PushOperator
  <1> QED BY <1>2, <1>6, <1>7, StepKeeps, NoOpFacts, EntryFacts
-----------------------------------------------------------------------------
(* A closing parenthesis, bracket or colon.                                *)
LEMMA CloseKeeps == IInv /\ Close => IInv'
  <1> SUFFICES ASSUME IInv, Close PROVE IInv'
    OBVIOUS
  <1>1. cur \in OperEntry /\ cur.id # "?:"
    BY DEF IInv, ParseTypeOK, NoTernary, Close, CloserHere
  <1> QED BY <1>1, RejectKeeps, StageKeeps DEF Close, LeaveLoop, stacks

LEMMA ClosingFacts ==
    ASSUME IInv, stage = "close", OnParen
    PROVE  /\ ops # <<>> /\ ops \in Seq(OpEntry) /\ Len(ops) \in 1 .. Len(ops)
           /\ paren # <<>> /\ mark[Len(paren)].ops = Len(ops) /\ Len(paren) \in 1 .. Len(paren)
           /\ Len(mark) = Len(paren)
           /\ paren \in Seq(ParenType) /\ mark \in Seq(Mark) /\ argc \in Seq(Nat) /\ IsSeq(out)
           /\ Matched(ops, paren, mark, Len(argc))
           /\ cur \in OperEntry /\ cur.id # "?:"
           /\ \A k \in 1 .. Len(paren) - 1 : mark[k].argc <= Len(argc)
  <1>1. /\ ops \in Seq(OpEntry) /\ paren \in Seq(ParenType) /\ mark \in Seq(Mark)
        /\ argc \in Seq(Nat) /\ IsSeq(out) /\ Matched(ops, paren, mark, Len(argc))
        /\ cur \in OperEntry /\ cur.id # "?:"
    BY DEF IInv, ParseTypeOK, OpEntry, Mark, IsSeq, NoTernary
  <1>2. ops # <<>>
    BY DEF OnParen, OpsEmpty
  <1>3. paren # <<>> /\ mark[Len(paren)].ops = Len(ops)
    BY <1>2, TopFacts
  <1>4. Len(ops) \in 1 .. Len(ops) /\ Len(paren) \in 1 .. Len(paren)
    BY <1>1, <1>2, <1>3, EmptySeq
  <1>5. Len(mark) = Len(paren) /\ \A k \in 1 .. Len(paren) - 1 : mark[k].argc <= Len(argc)
    BY <1>1 DEF Matched
  <1> QED BY <1>1, <1>2, <1>3, <1>4, <1>5

LEMMA CloseExprKeeps == IInv /\ CloseExpr => IInv'
  <1> SUFFICES ASSUME IInv, CloseExpr PROVE IInv'
    OBVIOUS
  <1>1. CASE out = <<>>
    BY <1>1, RejectKeeps DEF CloseExpr
  <1>2. CASE out # <<>>
    <2>1. stage = "close" /\ OnParen /\ Back(paren) = "expr"
      BY DEF CloseExpr
    <2>2. /\ ops' = Pop(ops) /\ paren' = Pop(paren) /\ mark' = Pop(mark) /\ argc' = argc
          /\ wantop' = TRUE /\ Advance /\ cur' = cur /\ ternaries' = ternaries
          /\ \E e : out' = Append(Pop(out), e)
      BY <1>2 DEF CloseExpr, Exit, Push, Closed
    <2>3. /\ ops' \in Seq(OpEntry) /\ Len(ops') = Len(ops) - 1
          /\ \A i \in 1 .. Len(ops) - 1 : ops'[i] = ops[i]
      BY <2>1, <2>2, ClosingFacts, PopFacts
    <2>4. Base(paren, mark, Len(paren)) = Len(ops)
      BY <2>1, ClosingFacts DEF Base, Back
    <2>5. /\ paren' \in Seq(ParenType) /\ mark' \in Seq(Mark)
          /\ Matched(ops, paren, mark, Len(argc))'
      BY <2>1, <2>2, <2>3, <2>4, ClosingFacts, LeaveTop
    <2>6. IsSeq(out')
      <3>1. PICK e : out' = Append(SubSeq(out, 1, Len(out) - 1), e)
        BY <2>2 DEF Pop
      <3>2. IsSeq(out) /\ Len(out) - 1 \in Int /\ Len(out) - 1 <= Len(out)
        BY <2>1, ClosingFacts, PopNFacts
      <3> QED BY <3>1, <3>2, PushIsSeq
    <2>7. StacksOK'
      BY <2>1, <2>2, <2>3, <2>5, <2>6, ClosingFacts DEF StacksOK
    <2> QED BY <2>1, <2>2, <2>5, <2>7, StepKeeps, ClosingFacts, EntryFacts
  <1> QED BY <1>1, <1>2

LEMMA CloseIndexKeeps == IInv /\ CloseIndex => IInv'
  <1> SUFFICES ASSUME IInv, CloseIndex PROVE IInv'
    OBVIOUS
  <1> DEFINE bad == Len(out) < 2 \/ Build("[", TopN(out, 2)) = NoExpr
  <1>1. CASE bad
    BY <1>1, RejectKeeps DEF CloseIndex
  <1>2. CASE ~bad
    <2>1. stage = "close" /\ OnParen /\ Back(paren) = "index"
      BY DEF CloseIndex
    <2>2. /\ ops' = PopN(ops, 2) /\ paren' = Pop(paren) /\ mark' = Pop(mark) /\ argc' = argc
          /\ wantop' = TRUE /\ Advance /\ cur' = cur /\ ternaries' = ternaries
          /\ \E e : out' = Append(PopN(out, 2), e)
      BY <1>2 DEF CloseIndex, Exit, Push, Closed
    <2>3. Len(ops) > 1
      BY <2>1, MatchedAgree DEF StacksAgree
    <2>4. /\ ops' \in Seq(OpEntry) /\ Len(ops') = Len(ops) - 2
          /\ \A i \in 1 .. Len(ops) - 2 : ops'[i] = ops[i]
      <3>1. 2 \in Nat /\ 2 <= Len(ops) /\ ops \in Seq(OpEntry)
        BY <2>1, <2>3, ClosingFacts
      <3> QED BY <2>2, <3>1, Dropped, Zenon DEF PopN
    <2>5. Base(paren, mark, Len(paren)) = Len(ops) - 1
      BY <2>1, ClosingFacts DEF Base, Back
    <2>6. Len(ops') = Base(paren, mark, Len(paren)) - 1
      BY <2>1, <2>4, <2>5, ClosingFacts
    <2>7. \A i \in 1 .. Len(ops') : ops'[i] = ops[i]
      BY <2>4
    <2>8. /\ paren' \in Seq(ParenType) /\ mark' \in Seq(Mark)
          /\ Matched(ops, paren, mark, Len(argc))'
      BY <2>1, <2>2, <2>4, <2>6, <2>7, ClosingFacts, LeaveTop
    <2>9. IsSeq(out')
      <3>1. PICK e : out' = Append(SubSeq(out, 1, Len(out) - 2), e)
        BY <2>2 DEF PopN
      <3>2. IsSeq(out) /\ Len(out) - 2 \in Int /\ Len(out) - 2 <= Len(out)
        BY <2>1, ClosingFacts, PopNFacts
      <3> QED BY <3>1, <3>2, PushIsSeq
    <2>10. StacksOK'
      BY <2>1, <2>2, <2>4, <2>8, <2>9, ClosingFacts DEF StacksOK
    <2> QED BY <2>1, <2>2, <2>8, <2>10, StepKeeps, ClosingFacts, EntryFacts
  <1> QED BY <1>1, <1>2

LEMMA CloseTernaryKeeps == IInv /\ CloseTernary => IInv'
  <1> SUFFICES ASSUME IInv, CloseTernary PROVE IInv'
    OBVIOUS
  <1>1. stage = "close" /\ OnParen /\ Back(paren) = "ternary1"
    BY DEF CloseTernary
  <1>2. /\ paren' = Append(Pop(paren), "ternary2") /\ ops' = Append(Pop(ops), syop(cur))
        /\ mark' = Append(Pop(mark), [Back(mark) EXCEPT !.ops = Len(ops) - 1])
        /\ ternaries' = ternaries - 1 /\ cur' = NoOp /\ Advance /\ out' = out /\ argc' = argc
    BY DEF CloseTernary
  <1>3. /\ paren' \in Seq(ParenType) /\ Len(paren') = Len(paren) /\ paren'[Len(paren)] = "ternary2"
        /\ \A k \in 1 .. Len(paren) - 1 : paren'[k] = paren[k]
    <2>1. /\ Pop(paren) \in Seq(ParenType) /\ Len(Pop(paren)) = Len(paren) - 1
          /\ \A i \in 1 .. Len(paren) - 1 : Pop(paren)[i] = paren[i]
      BY <1>1, ClosingFacts, PopFacts
    <2> QED BY <1>1, <1>2, <2>1, ClosingFacts, AppendProperties DEF ParenType
  <1>4. /\ ops' \in Seq(OpEntry) /\ Len(ops') = Len(ops) /\ ops'[Len(ops)] = syop(cur)
        /\ \A k \in 1 .. Len(ops) - 1 : ops'[k] = ops[k]
    <2>1. /\ Pop(ops) \in Seq(OpEntry) /\ Len(Pop(ops)) = Len(ops) - 1
          /\ \A i \in 1 .. Len(ops) - 1 : Pop(ops)[i] = ops[i]
      BY <1>1, ClosingFacts, PopFacts
    <2> QED BY <1>1, <1>2, <2>1, ClosingFacts, EntryFacts, AppendProperties
  <1> DEFINE new == [Back(mark) EXCEPT !.ops = Len(ops) - 1]
  <1>5. new \in Mark /\ new.ops = Len(ops) - 1 /\ new.argc = mark[Len(paren)].argc
    <2>1. mark[Len(paren)] \in Mark /\ Back(mark) = mark[Len(paren)] /\ Len(ops) - 1 \in Nat
      BY <1>1, ClosingFacts, ElementOfSeq DEF Back
    <2> QED BY <2>1 DEF Mark
  <1>6. /\ mark' \in Seq(Mark) /\ Len(mark') = Len(paren) /\ mark'[Len(paren)] = new
        /\ \A k \in 1 .. Len(paren) - 1 : mark'[k] = mark[k]
    <2>1. mark # <<>>
      BY <1>1, ClosingFacts, EmptySeq
    <2>2. /\ Pop(mark) \in Seq(Mark) /\ Len(Pop(mark)) = Len(mark) - 1
          /\ \A i \in 1 .. Len(mark) - 1 : Pop(mark)[i] = mark[i]
      BY <1>1, <2>1, ClosingFacts, PopFacts
    <2>3. mark' = Append(Pop(mark), new)
      BY <1>2
    <2> HIDE DEF new
    <2> QED BY <1>1, <1>5, <2>2, <2>3, ClosingFacts, AppendProperties
  <1> HIDE DEF new
  <1>7. ~ops'[Len(ops)].isparen /\ ~IsOp(ops'[Len(ops)], "?:")
    BY <1>1, <1>4, ClosingFacts, EntryFacts DEF IsOp
  <1>8. Matched(ops', paren', mark', Len(argc))
    <2>1. paren[Len(paren)] = "ternary1" /\ Len(argc) \in Nat
      BY <1>1, ClosingFacts DEF Back
    <2> QED BY <1>1, <1>3, <1>4, <1>5, <1>6, <1>7, <2>1, ClosingFacts, TurnKeeps
  <1>9. StacksOK' /\ Matched(ops, paren, mark, Len(argc))'
    BY <1>1, <1>2, <1>3, <1>4, <1>6, <1>8, ClosingFacts DEF StacksOK, IsSeq
  <1>10. wantop' \in BOOLEAN
    BY Zenon DEF CloseTernary
  <1>11. ternaries' \in Int
    BY <1>2, EntryFacts
  <1> QED BY <1>2, <1>9, <1>10, <1>11, StepKeeps, NoOpFacts

LEMMA CloseCallKeeps == IInv /\ CloseCall => IInv'
  <1> SUFFICES ASSUME IInv, CloseCall PROVE IInv'
    OBVIOUS
  <1>1. stage = "close" /\ OnParen /\ Back(paren) = "func"
    BY DEF CloseCall
  <1> DEFINE past == Len(out) < fid \/ fid + paramcount # Len(out)
  <1> DEFINE call == SubSeq(out, fid, Len(out))
  <1>2. CASE past
    <2>1. /\ stage' = "internal" /\ UNCHANGED <<input, pos, cur, stacks, ternaries, wantop>>
      BY <1>2 DEF CloseCall
    <2> QED BY <1>1, <2>1, ClosingFacts, StageKeeps DEF stacks, Final
  <1>3. CASE ~past /\ Build("call", call) = NoExpr
    BY <1>3, RejectKeeps DEF CloseCall
  <1>4. CASE ~past /\ Build("call", call) # NoExpr
    <2>1. /\ ops' = Pop(ops) /\ paren' = Pop(paren) /\ mark' = Pop(mark) /\ argc' = Pop(argc)
          /\ wantop' = TRUE /\ Advance /\ cur' = cur /\ ternaries' = ternaries
          /\ \E e : out' = Append(SubSeq(out, 1, fid - 1), e)
      BY <1>4 DEF CloseCall, Exit, Push, Closed
    <2>2. /\ ops' \in Seq(OpEntry) /\ Len(ops') = Len(ops) - 1
          /\ \A i \in 1 .. Len(ops) - 1 : ops'[i] = ops[i]
      BY <1>1, <2>1, ClosingFacts, PopFacts
    <2>3. argc # <<>>
      BY <1>1, MatchedAgree, ClosingFacts DEF StacksAgree
    <2>4. argc' \in Seq(Nat) /\ Len(argc') = Len(argc) - 1
      BY <1>1, <2>1, <2>3, ClosingFacts, PopFacts
    <2>5. Base(paren, mark, Len(paren)) = Len(ops)
      BY <1>1, ClosingFacts DEF Base, Back
    <2>6. \A k \in 1 .. Len(paren) - 1 : mark[k].argc <= Len(argc')
      <3>1. \A k \in 1 .. Len(paren) - 1 : mark[k].argc < mark[Len(paren)].argc
        BY <1>1, ClosingFacts DEF Matched, Back
      <3>2. mark[Len(paren)].argc <= Len(argc) /\ \A k \in 1 .. Len(paren) : mark[k].argc \in Nat
        <4>1. \A k \in 1 .. Len(paren) : mark[k] \in Mark
          BY <1>1, ClosingFacts, ElementOfSeq
        <4>2. mark[Len(paren)].argc <= Len(argc)
          BY <1>1, ClosingFacts DEF Matched
        <4> QED BY <4>1, <4>2 DEF Mark
      <3>3. Len(argc) \in Nat /\ \A k \in 1 .. Len(paren) - 1 : k \in 1 .. Len(paren)
        BY <1>1, ClosingFacts
      <3>4. Len(paren) \in 1 .. Len(paren)
        BY <1>1, ClosingFacts
      <3> QED BY <2>4, <3>1, <3>2, <3>3, <3>4
    <2>7. /\ paren' \in Seq(ParenType) /\ mark' \in Seq(Mark)
          /\ Matched(ops, paren, mark, Len(argc))'
      <3>1. Len(ops') = Base(paren, mark, Len(paren)) - 1 /\ \A i \in 1 .. Len(ops') : ops'[i] = ops[i]
        BY <2>2, <2>5
      <3> QED BY <1>1, <2>1, <2>2, <2>4, <2>6, <3>1, ClosingFacts, LeaveTop
    <2>8. IsSeq(out')
      <3>1. PICK e : out' = Append(SubSeq(out, 1, fid - 1), e)
        BY <2>1
      <3>2. fid \in Nat
        <4>1. ops[Len(ops)] \in OpEntry
          BY <1>1, ClosingFacts, ElementOfSeq
        <4> QED BY <4>1 DEF fid, Back, OpEntry
      <3>3. IsSeq(out) /\ Len(out) \in Nat
        BY <1>1, ClosingFacts, EntryFacts
      <3>4. fid - 1 \in Int /\ fid - 1 <= Len(out)
        BY <1>4, <3>2, <3>3
      <3> QED BY <3>1, <3>3, <3>4, PushIsSeq
    <2>9. StacksOK'
      BY <2>1, <2>2, <2>4, <2>7, <2>8 DEF StacksOK
    <2> QED BY <1>1, <2>1, <2>7, <2>9, StepKeeps, ClosingFacts, EntryFacts
  <1> QED BY <1>2, <1>3, <1>4
-----------------------------------------------------------------------------
(* Operands, and the end of the expression.                                *)
LEMMA OperandKeeps == IInv /\ PushOperand => IInv'
  <1> SUFFICES ASSUME IInv, PushOperand PROVE IInv'
    OBVIOUS
  <1> DEFINE node == ParseOperand(Token.text, MemberOf)
  <1>1. CASE node = NoExpr
    BY <1>1, RejectKeeps DEF PushOperand
  <1>2. CASE node # NoExpr
    <2>1. /\ UNCHANGED <<cur, ops, paren, argc, mark, ternaries>> /\ wantop' = TRUE /\ Advance
          /\ \E e : out' = Append(out, e)
      BY <1>2 DEF PushOperand, Push
    <2>2. StacksOK /\ Matched(ops, paren, mark, Len(argc))' /\ cur.id # "?:"
      BY <2>1, Halves DEF IInv, NoTernary, PushOperand
    <2>3. IsSeq(out')
      <3>1. PICK e : out' = Append(out, e)
        BY <2>1
      <3>2. IsSeq(out)
        BY <2>2 DEF StacksOK
      <3> QED BY <3>1, <3>2, AppendIsSeq
    <2>4. StacksOK'
      BY <2>1, <2>2, <2>3 DEF StacksOK
    <2> QED BY <2>1, <2>2, <2>4, StepKeeps, EntryFacts
  <1> QED BY <1>1, <1>2

LEMMA ConcatenateKeeps == IInv /\ Concatenate => IInv'
  <1> SUFFICES ASSUME IInv, Concatenate PROVE IInv'
    OBVIOUS
  <1>1. \/ Reject
        \/ /\ UNCHANGED <<cur, ops, paren, argc, mark, ternaries, wantop>> /\ Advance
           /\ \E e : out' = Append(Pop(out), e)
    BY DEF Concatenate, Push
  <1>2. CASE Reject
    BY <1>2, RejectKeeps
  <1>3. CASE ~Reject
    <2>1. /\ UNCHANGED <<cur, ops, paren, argc, mark, ternaries, wantop>> /\ Advance
          /\ \E e : out' = Append(Pop(out), e)
      BY <1>1, <1>3
    <2>2. StacksOK /\ Matched(ops, paren, mark, Len(argc))' /\ cur.id # "?:"
      BY <2>1, Halves DEF IInv, NoTernary, Concatenate
    <2>3. IsSeq(out')
      <3>1. PICK e : out' = Append(SubSeq(out, 1, Len(out) - 1), e)
        BY <2>1 DEF Pop
      <3>2. IsSeq(out) /\ Len(out) - 1 \in Int /\ Len(out) - 1 <= Len(out)
        BY <2>2, PopNFacts DEF StacksOK
      <3> QED BY <3>1, <3>2, PushIsSeq
    <2>4. StacksOK'
      BY <2>1, <2>2, <2>3 DEF StacksOK
    <2>5. cur' = cur /\ ternaries' = ternaries /\ wantop' = wantop
      BY <2>1
    <2>6. wantop' \in BOOLEAN
      BY <2>5, EntryFacts, Zenon
    <2>7. ternaries' \in Int
      BY <2>5, EntryFacts
    <2>8. cur'.id # "?:"
      BY <2>2, <2>5
    <2> QED BY <2>1, <2>2, <2>4, <2>5, <2>6, <2>7, <2>8, StepKeeps
  <1> QED BY <1>2, <1>3

LEMMA FinishKeeps == IInv /\ Finish => IInv'
  <1> SUFFICES ASSUME IInv, Finish PROVE IInv'
    OBVIOUS
  <1>1. stage' \in Final /\ UNCHANGED <<input, pos, cur, stacks, ternaries, wantop>>
    BY DEF Finish, Final
  <1>2. cur \in OperEntry /\ ~(stage' \in {"token", "close"})
    BY <1>1 DEF IInv, ParseTypeOK, Final
  <1> QED BY <1>1, <1>2, StageKeeps DEF stacks

(* Every step keeps the invariant.                                         *)
LEMMA NextIInv == IInv /\ [ParseNext]_parseVars => IInv'
  <1> SUFFICES ASSUME IInv, [ParseNext]_parseVars PROVE IInv'
    OBVIOUS
  <1>1. CASE ReduceTighter \/ ReduceTernary \/ ReduceInside \/ ReduceRest
    BY <1>1, ApplyKeeps DEF ReduceTighter, ReduceTernary, ReduceInside, ReduceRest
  <1>2. CASE UnknownOperator \/ Unexpected
    BY <1>2, RejectKeeps DEF UnknownOperator, Unexpected
  <1>3. CASE ClassifyOperator
    BY <1>3, ClassifyKeeps
  <1>4. CASE OpenParen \/ OpenIndex \/ OpenTernary
    BY <1>4, OpenParenKeeps, OpenIndexKeeps, OpenTernaryKeeps
  <1>5. CASE MeetColon \/ PushOperator
    BY <1>5, MeetColonKeeps, PushOperatorKeeps
  <1>6. CASE Close
    BY <1>6, CloseKeeps
  <1>7. CASE CloseExpr \/ CloseIndex \/ CloseTernary \/ CloseCall
    BY <1>7, CloseExprKeeps, CloseIndexKeeps, CloseTernaryKeeps, CloseCallKeeps
  <1>8. CASE PushOperand \/ Concatenate
    BY <1>8, OperandKeeps, ConcatenateKeeps
  <1>9. CASE Finish
    BY <1>9, FinishKeeps
  <1>10. CASE UNCHANGED parseVars
    <2>1. UNCHANGED <<input, pos, stage, cur, stacks, ternaries, wantop>>
      BY <1>10 DEF parseVars, stacks
    <2>2. stage' \in {"token", "operator", "close", "end"} \cup Final /\ cur' \in OperEntry
          /\ (stage' \in {"token", "close"} => cur'.id # "?:")
      BY <2>1 DEF IInv, ParseTypeOK, NoTernary
    <2> QED BY <2>1, <2>2, StageKeeps
  <1> QED BY <1>1, <1>2, <1>3, <1>4, <1>5, <1>6, <1>7, <1>8, <1>9, <1>10 DEF ParseNext

LEMMA AlwaysIInv == ParseSpec => []IInv
  <1>1. ParseInit => IInv
    BY InitIInv
  <1>2. IInv /\ [ParseNext]_parseVars => IInv'
    BY NextIInv
  <1> QED BY <1>1, <1>2, PTL DEF ParseSpec
-----------------------------------------------------------------------------
(* The stacks of parse_expression_leave keep their types - no push or pop  *)
(* goes below an empty stack - for any operators, tokens and nodes.        *)
THEOREM ParseTypeCorrect == ParseSpec => []ParseTypeOK
  <1>1. IInv => ParseTypeOK
    BY DEF IInv
  <1> QED BY <1>1, AlwaysIInv, PTL

(* The stacks of operators, parentheses and argument counts agree, so that *)
(* none of the code's back() and pop_back() calls meets an empty vector.   *)
THEOREM StacksAlwaysAgree == ParseSpec => []StacksAgree
  <1>1. IInv => StacksAgree
    BY MatchedAgree
  <1> QED BY <1>1, AlwaysIInv, PTL
-----------------------------------------------------------------------------
(* Functions defined by recursion: there is one, as whatever it calls      *)
(* itself with comes before what it is called with.  A set of numbers has  *)
(* a least one.                                                            *)
LEMMA LeastNumber ==
    ASSUME NEW numbers, numbers \subseteq Nat, numbers # {}
    PROVE  \E j \in numbers : \A k \in numbers : j <= k
  <1> DEFINE less == {ss \in Nat \X Nat : ss[1] < ss[2]}
  <1>1. IsWellFoundedOn(less, Nat)
    BY NatLessThanWellFounded DEF OpToRel
  <1>2. PICK j \in numbers : \A k \in numbers : ~(<<k, j>> \in less)
    <2> HIDE DEF less
    <2> QED BY <1>1, WFMin
  <1>3. ASSUME NEW k \in numbers PROVE j <= k
    <2>1. j \in Nat /\ k \in Nat
      OBVIOUS
    <2>2. ~(k < j)
      BY <1>2, <2>1
    <2> QED BY <2>1, <2>2
  <1> QED BY <1>3

(* The turn of such a function at x, and one that agrees with its turns    *)
(* wherever the measure is n at most.                                      *)
TurnAt(f, x, base, start, next, result) ==
    IF x \in base THEN start[x] ELSE result[<<x, f[next[x]]>>]
AgreesUpTo(n, f, args, m, base, start, next, result) ==
    \A x \in args : m[x] <= n => f[x] = TurnAt(f, x, base, start, next, result)

(* Where it calls itself, the measure m gets less.                         *)
ComesToAnEnd(args, values, m, base, start, next, result) ==
    /\ m \in [args -> Nat] /\ base \in SUBSET args
    /\ start \in [args -> values] /\ next \in [args -> args]
    /\ result \in [args \X values -> values]
    /\ \A x \in args \ base : m[next[x]] < m[x]

HasSolution(args, values, base, start, next, result) ==
    \E f \in [args -> values] : \A x \in args : f[x] = TurnAt(f, x, base, start, next, result)

(* There are solutions up to any measure: were there a least one up to     *)
(* which there is none, one more turn of those below it would be one.      *)
LEMMA RecursionUpTo ==
    ASSUME NEW args, NEW values, NEW m, NEW base, NEW start, NEW next, NEW result,
           ComesToAnEnd(args, values, m, base, start, next, result), NEW n \in Nat
    PROVE  \E f \in [args -> values] : AgreesUpTo(n, f, args, m, base, start, next, result)
  <1> DEFINE Agrees(k, f) == AgreesUpTo(k, f, args, m, base, start, next, result)
             Wrong == {k \in Nat : ~ \E f \in [args -> values] : Agrees(k, f)}
  <1> USE DEF ComesToAnEnd
  <1>1. SUFFICES ASSUME n \in Wrong PROVE FALSE
    OBVIOUS
  <1>2. PICK k \in Wrong : \A j \in Wrong : k <= j
    <2>1. Wrong \subseteq Nat /\ Wrong # {}
      BY <1>1
    <2> HIDE DEF Wrong
    <2> QED BY <2>1, LeastNumber
  <1>3. k \in Nat /\ ~ \E f \in [args -> values] : Agrees(k, f)
    OBVIOUS
  <1>4. \E f \in [args -> values] : \A x \in args : m[x] < k =>
            f[x] = TurnAt(f, x, base, start, next, result)
    <2>1. CASE k = 0
      <3>1. \A x \in args : ~(m[x] < k)
        BY <2>1
      <3> QED BY <3>1
    <2>2. CASE k # 0
      <3>1. k - 1 \in Nat /\ ~(k <= k - 1)
        BY <1>3, <2>2
      <3>2. k - 1 \notin Wrong
        BY <1>2, <3>1
      <3>3. PICK f \in [args -> values] : Agrees(k - 1, f)
        BY <3>1, <3>2
      <3>4. \A x \in args : m[x] < k => m[x] <= k - 1
        BY <1>3
      <3> QED BY <3>3, <3>4 DEF AgreesUpTo
    <2> QED BY <2>1, <2>2
  <1>5. PICK f \in [args -> values] : \A x \in args : m[x] < k =>
            f[x] = TurnAt(f, x, base, start, next, result)
    BY <1>4
  <1> DEFINE g == [x \in args |-> IF m[x] < k THEN f[x] ELSE TurnAt(f, x, base, start, next, result)]
  <1>6. \A x \in args : TurnAt(f, x, base, start, next, result) \in values
    BY DEF TurnAt
  <1>7. g \in [args -> values]
    BY <1>6
  <1>8. \A x \in args : g[x] = IF m[x] < k THEN f[x] ELSE TurnAt(f, x, base, start, next, result)
    OBVIOUS
  <1> HIDE DEF g
  <1>9. ASSUME NEW x \in args, m[x] <= k
        PROVE  TurnAt(g, x, base, start, next, result) = TurnAt(f, x, base, start, next, result)
    <2>1. CASE x \in base
      BY <2>1 DEF TurnAt
    <2>2. CASE x \notin base
      <3>1. next[x] \in args /\ m[next[x]] \in Nat /\ m[x] \in Nat /\ m[next[x]] < m[x]
        BY <2>2
      <3>2. m[next[x]] < k
        BY <1>3, <1>9, <3>1
      <3>3. g[next[x]] = f[next[x]]
        BY <1>8, <3>1, <3>2
      <3> QED BY <3>3 DEF TurnAt
    <2> QED BY <2>1, <2>2
  <1>10. ASSUME NEW x \in args, m[x] <= k
         PROVE  g[x] = TurnAt(g, x, base, start, next, result)
    BY <1>5, <1>8, <1>9, <1>10
  <1>11. Agrees(k, g)
    BY <1>10 DEF AgreesUpTo
  <1> QED BY <1>3, <1>7, <1>11

(* So there is one for all arguments: solutions up to n agree with each    *)
(* other as far as they go, and what they agree on is one.                 *)
LEMMA Recursion ==
    ASSUME NEW args, NEW values, NEW m, NEW base, NEW start, NEW next, NEW result,
           ComesToAnEnd(args, values, m, base, start, next, result)
    PROVE  HasSolution(args, values, base, start, next, result)
  <1> DEFINE Agrees(n, f) == AgreesUpTo(n, f, args, m, base, start, next, result)
             upTo(n) == CHOOSE f \in [args -> values] : Agrees(n, f)
             h == [x \in args |-> upTo(m[x])[x]]
  <1>1. \A n \in Nat : \E f \in [args -> values] : Agrees(n, f)
    BY RecursionUpTo
  <1> USE DEF ComesToAnEnd
  <1>2. ASSUME NEW n \in Nat PROVE upTo(n) \in [args -> values] /\ Agrees(n, upTo(n))
    <2> HIDE DEF Agrees
    <2> QED BY <1>1, Zenon
  <1>3. \A x \in args : upTo(m[x]) \in [args -> values] /\ Agrees(m[x], upTo(m[x]))
    <2> HIDE DEF upTo, Agrees
    <2> QED BY <1>2
  <1>4. \A x \in args : h[x] = upTo(m[x])[x]
    BY Zenon
  <1>5. h \in [args -> values]
    <2> HIDE DEF upTo, Agrees
    <2> QED BY <1>3
  <1> HIDE DEF h, upTo
  <1>6. ASSUME NEW n \in Nat, NEW f, NEW g, Agrees(n, f), Agrees(n, g), NEW y \in args, m[y] <= n
        PROVE  f[y] = g[y]
    <2> DEFINE Wrong == {k \in Nat : \E x \in args : m[x] = k /\ k <= n /\ f[x] # g[x]}
    <2>1. SUFFICES ASSUME f[y] # g[y] PROVE FALSE
      OBVIOUS
    <2>2. m[y] \in Wrong
      BY <1>6, <2>1
    <2>3. PICK k \in Wrong : \A j \in Wrong : k <= j
      <3>1. Wrong \subseteq Nat /\ Wrong # {}
        BY <2>2
      <3> HIDE DEF Wrong
      <3> QED BY <3>1, LeastNumber
    <2>4. PICK x \in args : m[x] = k /\ k <= n /\ f[x] # g[x]
      OBVIOUS
    <2>5. /\ f[x] = TurnAt(f, x, base, start, next, result)
          /\ g[x] = TurnAt(g, x, base, start, next, result)
      BY <1>6, <2>4 DEF AgreesUpTo
    <2>6. x \notin base
      BY <2>4, <2>5 DEF TurnAt
    <2>7. next[x] \in args /\ m[next[x]] \in Nat /\ m[x] \in Nat /\ m[next[x]] < m[x]
      BY <2>6
    <2>8. m[next[x]] \notin Wrong /\ m[next[x]] <= n
      <3>1. m[next[x]] <= n /\ ~(k <= m[next[x]])
        BY <1>6, <2>4, <2>7
      <3> HIDE DEF Wrong
      <3> QED BY <2>3, <3>1
    <2>9. f[next[x]] = g[next[x]]
      BY <2>7, <2>8
    <2> QED BY <2>4, <2>5, <2>6, <2>9 DEF TurnAt
  <1>7. ASSUME NEW x \in args PROVE h[x] = TurnAt(h, x, base, start, next, result)
    <2>1. upTo(m[x])[x] = TurnAt(upTo(m[x]), x, base, start, next, result)
      <3>1. m[x] <= m[x]
        OBVIOUS
      <3> QED BY <1>3, <3>1 DEF AgreesUpTo
    <2>2. CASE x \in base
      BY <1>4, <2>1, <2>2 DEF TurnAt
    <2>3. CASE x \notin base
      <3> DEFINE y == next[x]
      <3>1. y \in args /\ m[y] \in Nat /\ m[x] \in Nat /\ m[y] < m[x]
        BY <2>3
      <3>2. AgreesUpTo(m[y], upTo(m[x]), args, m, base, start, next, result)
        <4>1. \A z \in args : m[z] <= m[y] => m[z] <= m[x]
          BY <3>1
        <4>2. AgreesUpTo(m[x], upTo(m[x]), args, m, base, start, next, result)
          BY <1>3
        <4> QED BY <4>1, <4>2 DEF AgreesUpTo
      <3>3. AgreesUpTo(m[y], upTo(m[y]), args, m, base, start, next, result)
        BY <1>3, <3>1
      <3>4. m[y] <= m[y]
        BY <3>1
      <3> HIDE DEF y
      <3>5. upTo(m[x])[y] = upTo(m[y])[y]
        BY <1>6, <3>1, <3>2, <3>3, <3>4
      <3>6. h[y] = upTo(m[x])[y]
        BY <1>4, <3>1, <3>5
      <3>7. h[next[x]] = upTo(m[x])[next[x]]
        BY <3>6 DEF y
      <3>8. h[x] = result[<<x, upTo(m[x])[next[x]]>>]
        BY <1>4, <2>1, <2>3 DEF TurnAt
      <3> QED BY <2>3, <3>7, <3>8 DEF TurnAt
    <2> QED BY <2>2, <2>3
  <1> QED BY <1>5, <1>7 DEF HasSolution
-----------------------------------------------------------------------------
(* Numbers: the operations on whole ones are those of the integers.  The   *)
(* greatest common divisor first, which takes remainders until there is    *)
(* none.                                                                   *)
LEMMA GcdTurns ==
    \A p \in Nat \X Nat : gcd[p] = IF p[2] = 0 THEN p[1] ELSE gcd[<<p[2], p[1] % p[2]>>]
  <1> DEFINE pairs == Nat \X Nat
             m == [p \in pairs |-> p[2]]
             base == {p \in pairs : p[2] = 0}
             start == [p \in pairs |-> p[1]]
             next == [p \in pairs |-> IF p[2] = 0 THEN p ELSE <<p[2], p[1] % p[2]>>]
             result == [q \in pairs \X Nat |-> q[2]]
             Loops(f) == f = [p \in pairs |-> IF p[2] = 0 THEN p[1] ELSE f[<<p[2], p[1] % p[2]>>]]
  <1>1. \A p \in pairs : p[1] \in Nat /\ p[2] \in Nat
    OBVIOUS
  <1>2. \A p \in pairs : p[2] # 0 => p[1] % p[2] \in Nat /\ p[1] % p[2] < p[2]
    BY <1>1
  <1>3. /\ m \in [pairs -> Nat] /\ base \in SUBSET pairs /\ start \in [pairs -> Nat]
        /\ next \in [pairs -> pairs]
        /\ result \in [pairs \X Nat -> Nat]
    BY <1>1, <1>2
  <1>4. \A p \in pairs \ base : m[next[p]] < m[p]
    BY <1>1, <1>2
  <1>5. PICK f \in [pairs -> Nat] : \A p \in pairs : f[p] = TurnAt(f, p, base, start, next, result)
    <2>1. ComesToAnEnd(pairs, Nat, m, base, start, next, result)
      BY <1>3, <1>4 DEF ComesToAnEnd
    <2> HIDE DEF pairs, m, base, start, next, result
    <2>2. HasSolution(pairs, Nat, base, start, next, result)
      BY <2>1, Recursion
    <2> QED BY <2>2 DEF HasSolution
  <1>6. \A p \in pairs : f[p] = IF p[2] = 0 THEN p[1] ELSE f[<<p[2], p[1] % p[2]>>]
    <2>1. ASSUME NEW p \in pairs
          PROVE  TurnAt(f, p, base, start, next, result) = IF p[2] = 0 THEN p[1] ELSE f[<<p[2], p[1] % p[2]>>]
      <3>1. CASE p[2] = 0
        BY <3>1 DEF TurnAt
      <3>2. CASE p[2] # 0
        <4>1. p \notin base /\ next[p] = <<p[2], p[1] % p[2]>>
          BY <3>2
        <4>2. f[next[p]] \in Nat
          BY <1>3
        <4>3. result[<<p, f[next[p]]>>] = f[next[p]]
          BY <4>2
        <4> QED BY <3>2, <4>1, <4>3 DEF TurnAt
      <3> QED BY <3>1, <3>2
    <2> QED BY <1>5, <2>1
  <1>7. Loops(f)
    BY <1>6
  <1>8. Loops(gcd)
    <2>1. \E g : Loops(g)
      BY <1>7
    <2> QED BY <2>1, Zenon DEF gcd
  <1> QED BY <1>8

(* And of two integers: halving ends at 0 or at -1.                        *)
LEMMA AndTurns ==
    \A x, y \in Int :
        And[<<x, y>>] = IF x = 0 \/ y = 0 THEN 0 ELSE IF x = -1 THEN y ELSE IF y = -1 THEN x
                        ELSE (x % 2) * (y % 2) + 2 * And[<<x \div 2, y \div 2>>]
  <1> DEFINE pairs == Int \X Int
             m == [p \in pairs |-> Abs(p[1])]
             base == {p \in pairs : p[1] \in {0, -1} \/ p[2] \in {0, -1}}
             start == [p \in pairs |-> IF p[1] = 0 \/ p[2] = 0 THEN 0 ELSE IF p[1] = -1 THEN p[2] ELSE p[1]]
             next == [p \in pairs |-> <<p[1] \div 2, p[2] \div 2>>]
             result == [q \in pairs \X Int |-> (q[1][1] % 2) * (q[1][2] % 2) + 2 * q[2]]
             turn(f, x, y) == IF x = 0 \/ y = 0 THEN 0 ELSE IF x = -1 THEN y ELSE IF y = -1 THEN x
                              ELSE (x % 2) * (y % 2) + 2 * f[<<x \div 2, y \div 2>>]
             Loops(f) == f = [p \in pairs |-> turn(f, p[1], p[2])]
  <1>1. \A p \in pairs : p[1] \in Int /\ p[2] \in Int /\ p = <<p[1], p[2]>>
    OBVIOUS
  <1>2. \A x \in Int : /\ x \div 2 \in Int /\ x % 2 \in {0, 1} /\ Abs(x) \in Nat
                       /\ x \notin {0, -1} => Abs(x \div 2) < Abs(x)
    BY DEF Abs
  <1>3. /\ m \in [pairs -> Nat] /\ base \in SUBSET pairs /\ start \in [pairs -> Int]
        /\ next \in [pairs -> pairs]
    BY <1>1, <1>2
  <1>4. result \in [pairs \X Int -> Int]
    <2>1. \A q \in pairs \X Int : (q[1][1] % 2) * (q[1][2] % 2) + 2 * q[2] \in Int
      <3>1. ASSUME NEW q \in pairs \X Int PROVE (q[1][1] % 2) * (q[1][2] % 2) + 2 * q[2] \in Int
        <4>1. q[1][1] % 2 \in {0, 1} /\ q[1][2] % 2 \in {0, 1} /\ q[2] \in Int
          BY <1>1, <1>2
        <4> QED BY <4>1
      <3> QED BY <3>1
    <2> QED BY <2>1
  <1>5. \A p \in pairs \ base : m[next[p]] < m[p]
    BY <1>1, <1>2
  <1>6. PICK f \in [pairs -> Int] : \A p \in pairs : f[p] = TurnAt(f, p, base, start, next, result)
    <2>1. ComesToAnEnd(pairs, Int, m, base, start, next, result)
      BY <1>3, <1>4, <1>5 DEF ComesToAnEnd
    <2> HIDE DEF pairs, m, base, start, next, result
    <2>2. HasSolution(pairs, Int, base, start, next, result)
      BY <2>1, Recursion
    <2> QED BY <2>2 DEF HasSolution
  <1>7. \A p \in pairs : f[p] = turn(f, p[1], p[2])
    <2>1. ASSUME NEW p \in pairs
          PROVE  TurnAt(f, p, base, start, next, result) = turn(f, p[1], p[2])
      <3>1. CASE p \in base
        BY <1>1, <3>1 DEF TurnAt
      <3>2. CASE p \notin base
        <4>1. next[p] = <<p[1] \div 2, p[2] \div 2>> /\ next[p] \in pairs
          BY <1>3
        <4>2. f[next[p]] \in Int
          BY <4>1
        <4>3. result[<<p, f[next[p]]>>] = (p[1] % 2) * (p[2] % 2) + 2 * f[next[p]]
          BY <4>2
        <4>4. turn(f, p[1], p[2]) = (p[1] % 2) * (p[2] % 2) + 2 * f[<<p[1] \div 2, p[2] \div 2>>]
          BY <3>2
        <4>5. TurnAt(f, p, base, start, next, result) = result[<<p, f[next[p]]>>]
          BY <3>2 DEF TurnAt
        <4> HIDE DEF turn, result, next
        <4> QED BY <4>1, <4>3, <4>4, <4>5
      <3> QED BY <3>1, <3>2
    <2> QED BY <1>6, <2>1
  <1>8. Loops(f)
    <2> HIDE DEF turn
    <2> QED BY <1>7
  <1>9. Loops(And)
    <2>1. \E g : Loops(g)
      BY <1>8
    <2> QED BY <2>1, Zenon DEF And
  <1> QED BY <1>9

(* IntAnd of integers is one, and of a number with itself that number: a   *)
(* pair of which this were wrong has halves of which it is.                *)
LEMMA IntAndProperties ==
    ASSUME NEW x \in Int, NEW y \in Int
    PROVE  IntAnd(x, y) \in Int /\ IntAnd(x, x) = x
  <1> DEFINE right(a, b) == And[<<a, b>>] \in Int /\ And[<<a, a>>] = a
             Wrong == {n \in Nat : \E a, b \in Int : Abs(a) = n /\ ~right(a, b)}
  <1>1. \A a \in Int : /\ a \div 2 \in Int /\ a % 2 \in {0, 1} /\ Abs(a) \in Nat
                       /\ a = (a % 2) + 2 * (a \div 2)
                       /\ a \notin {0, -1} => Abs(a \div 2) < Abs(a)
    BY DEF Abs
  <1>2. SUFFICES ASSUME ~right(x, y) PROVE FALSE
    BY DEF IntAnd
  <1>3. Abs(x) \in Wrong
    BY <1>1, <1>2
  <1>4. PICK n \in Wrong : \A k \in Wrong : n <= k
    <2>1. Wrong \subseteq Nat /\ Wrong # {}
      BY <1>3
    <2> HIDE DEF Wrong
    <2> QED BY <2>1, LeastNumber
  <1>5. PICK a \in Int, b \in Int : Abs(a) = n /\ ~right(a, b)
    OBVIOUS
  <1>6. a \notin {0, -1} => right(a \div 2, b \div 2)
    <2>1. SUFFICES ASSUME a \notin {0, -1} PROVE right(a \div 2, b \div 2)
      OBVIOUS
    <2>2. Abs(a \div 2) \in Nat /\ Abs(a \div 2) < n /\ n \in Nat
      BY <1>1, <1>5, <2>1
    <2>3. Abs(a \div 2) \notin Wrong
      <3> HIDE DEF Wrong
      <3> QED BY <1>4, <2>2
    <2> QED BY <1>1, <2>2, <2>3
  <1>7. And[<<a, b>>] \in Int
    <2>1. CASE a \in {0, -1} \/ b \in {0, -1}
      <3>1. And[<<a, b>>] \in {0, a, b}
        BY <2>1, AndTurns
      <3> QED BY <3>1
    <2>2. CASE ~(a \in {0, -1} \/ b \in {0, -1})
      <3>1. And[<<a, b>>] = (a % 2) * (b % 2) + 2 * And[<<a \div 2, b \div 2>>]
        BY <2>2, AndTurns
      <3>2. And[<<a \div 2, b \div 2>>] \in Int
        BY <1>6, <2>2
      <3>3. a % 2 \in {0, 1} /\ b % 2 \in {0, 1}
        BY <1>1
      <3> QED BY <3>1, <3>2, <3>3
    <2> QED BY <2>1, <2>2
  <1>8. And[<<a, a>>] = a
    <2>1. CASE a \in {0, -1}
      BY <2>1, AndTurns
    <2>2. CASE a \notin {0, -1}
      <3>1. And[<<a, a>>] = (a % 2) * (a % 2) + 2 * And[<<a \div 2, a \div 2>>]
        BY <2>2, AndTurns
      <3>2. And[<<a \div 2, a \div 2>>] = a \div 2
        BY <1>6, <2>2
      <3>3. a % 2 \in {0, 1} /\ a = (a % 2) + 2 * (a \div 2) /\ a \div 2 \in Int
        BY <1>1
      <3>4. (a % 2) * (a % 2) = a % 2
        BY <3>3
      <3> QED BY <3>1, <3>2, <3>3, <3>4
    <2> QED BY <2>1, <2>2
  <1> QED BY <1>5, <1>7, <1>8

(* An integer over 1 is in lowest terms.                                   *)
LEMMA WholeFractions ==
    ASSUME NEW n \in Int
    PROVE  Fraction(n, 1) = F(n)
  <1>1. Abs(n) \in Nat /\ Abs(1) = 1 /\ Sgn(1) = 1
    BY DEF Abs, Sgn
  <1>2. gcd[<<1, 0>>] = 1
    BY GcdTurns
  <1>3. Abs(n) % 1 = 0
    BY <1>1
  <1>4. gcd[<<Abs(n), 1>>] = gcd[<<1, 0>>]
    <2>1. <<Abs(n), 1>> \in Nat \X Nat
      BY <1>1
    <2>2. gcd[<<Abs(n), 1>>] = gcd[<<1, Abs(n) % 1>>]
      BY <2>1, GcdTurns
    <2> QED BY <1>3, <2>2
  <1>5. (1 * n) \div 1 = n /\ 1 \div 1 = 1
    OBVIOUS
  <1> QED BY <1>1, <1>2, <1>4, <1>5 DEF Fraction, F

Wholes == {F(n) : n \in Int}

(* The operations on whole numbers give what those of the integers give.   *)
LEMMA WholeNumbers ==
    ASSUME NEW x \in Int, NEW y \in Int
    PROVE  /\ Mul(F(x), F(y)) = F(x * y)
           /\ Sub(F(x), F(y)) = F(x - y)
           /\ BitAnd(F(x), F(y)) = F(IntAnd(x, y))
           /\ BitOr(F(x), F(y)) = F(IntOr(x, y))
           /\ BitXor(F(x), F(y)) = F(IntXor(x, y))
  <1>1. F(x)[1] = x /\ F(x)[2] = 1 /\ F(y)[1] = y /\ F(y)[2] = 1
    BY DEF F
  <1>2. Mul(F(x), F(y)) = F(x * y)
    <2>1. Mul(F(x), F(y)) = Fraction(x * y, 1)
      BY <1>1 DEF Mul
    <2> QED BY <2>1, WholeFractions
  <1>3. Sub(F(x), F(y)) = F(x - y)
    <2>1. Neg(F(y))[1] = -y /\ Neg(F(y))[2] = 1
      BY <1>1 DEF Neg
    <2>2. Sub(F(x), F(y)) = Fraction(x * 1 + (-y) * 1, 1 * 1)
      BY <1>1, <2>1 DEF Sub, Add
    <2>3. x * 1 + (-y) * 1 = x - y /\ 1 * 1 = 1 /\ x - y \in Int
      OBVIOUS
    <2> QED BY <2>2, <2>3, WholeFractions
  <1>4. ToInt(F(x)) = x /\ ToInt(F(y)) = y
    BY <1>1 DEF ToInt
  <1> QED BY <1>2, <1>3, <1>4 DEF BitAnd, BitOr, BitXor
-----------------------------------------------------------------------------
(* The statements of an instruction, in three families: each component at  *)
(* once, halves of three components and their difference, halves of one.   *)
AtOnce == {"BITAND_V", "BITAND_VF", "BITOR_V", "BITOR_VF"}
ByHalves == {"BITXOR_V", "BITXOR_VF", "CROSS"}
Bits(op) == IF op \in {"BITAND_V", "BITAND_VF"} THEN "BITAND" ELSE "BITOR"
Stride(op) == IF op \in {"BITAND_VF", "BITOR_VF", "BITXOR_VF"} THEN 0 ELSE 1

(* The half of component j (counted from 0) that is written to Temp1, and  *)
(* the one that is written to Temp0.                                       *)
First(i, j) == IF i.op = "CROSS"
               THEN Statement("MUL_F", i.a + ((j + 1) % 3), i.b + ((j + 2) % 3), Temp1 + j)
               ELSE Statement("BITOR", i.a + j, i.b + Stride(i.op) * j, Temp1 + j)
Second(i, j) == IF i.op = "CROSS"
                THEN Statement("MUL_F", i.a + ((j + 2) % 3), i.b + ((j + 1) % 3), Temp0 + j)
                ELSE Statement("BITAND", i.a + j, i.b + Stride(i.op) * j, Temp0 + j)

LongerByTwo(t, x, y, s, any) ==
    /\ t \in Seq(any) /\ Len(t) = Len(s) + 2 /\ t[1] = x /\ t[2] = y
    /\ \A k \in 1 .. Len(s) : t[k + 2] = s[k]

(* Two elements in front of a sequence.                                    *)
LEMMA PairThenMore ==
    ASSUME NEW x, NEW y, NEW any, x \in any, y \in any, NEW s \in Seq(any)
    PROVE  LongerByTwo(<<x, y>> \o s, x, y, s, any)
  <1>1. <<x, y>> \in Seq(any) /\ Len(<<x, y>>) = 2
    OBVIOUS
  <1> DEFINE p == <<x, y>>
  <1>2. p[1] = x /\ p[2] = y
    OBVIOUS
  <1> HIDE DEF p
  <1> QED BY <1>1, <1>2, ConcatProperties DEF p, LongerByTwo

(* The seven statements of what is computed by halves.                     *)
LEMMA HalvesAre ==
    ASSUME NEW i, i.op \in ByHalves
    PROVE  /\ Len(statements(i)) = 7 /\ DOMAIN statements(i) = 1 .. 7
           /\ \A j \in 0 .. 2 : /\ statements(i)[2 * j + 1] = First(i, j)
                                /\ statements(i)[2 * j + 2] = Second(i, j)
           /\ statements(i)[7] = Statement("SUB_V", Temp1, Temp0, i.r)
  <1> DEFINE last == Statement("SUB_V", Temp1, Temp0, i.r)
             f0 == First(i, 0)
             f1 == First(i, 1)
             f2 == First(i, 2)
             s0 == Second(i, 0)
             s1 == Second(i, 1)
             s2 == Second(i, 2)
             any == {last, f0, f1, f2, s0, s1, s2}
             three == <<f2, s2>> \o <<last>>
             five == <<f1, s1>> \o three
             seven == <<f0, s0>> \o five
  <1>1. statements(i) = <<f0, s0>> \o <<f1, s1>> \o <<f2, s2>> \o <<last>>
    BY SMTT(30) DEF statements, ByHalves, Xor, Products, Difference, First, Second, Stride
  <1> HIDE DEF last, f0, f1, f2, s0, s1, s2
  <1>2. <<f0, s0>> \o <<f1, s1>> \o <<f2, s2>> \o <<last>> = seven
    OBVIOUS
  <1>3. <<last>> \in Seq(any) /\ Len(<<last>>) = 1 /\ <<last>>[1] = last
    OBVIOUS
  <1>4. f0 \in any /\ f1 \in any /\ f2 \in any /\ s0 \in any /\ s1 \in any /\ s2 \in any
    OBVIOUS
  <1> HIDE DEF any
  <1>5. /\ three \in Seq(any) /\ Len(three) = 3
        /\ three[1] = f2 /\ three[2] = s2 /\ three[3] = last
    BY <1>3, <1>4, PairThenMore DEF LongerByTwo
  <1> HIDE DEF three
  <1>6. /\ five \in Seq(any) /\ Len(five) = 5
        /\ five[1] = f1 /\ five[2] = s1 /\ five[3] = f2 /\ five[4] = s2 /\ five[5] = last
    <2>0. /\ five \in Seq(any) /\ Len(five) = Len(three) + 2 /\ five[1] = f1 /\ five[2] = s1
          /\ \A k \in 1 .. Len(three) : five[k + 2] = three[k]
      <3>1. f1 \in any
        BY <1>4
      <3>2. s1 \in any
        BY <1>4
      <3>3. three \in Seq(any)
        BY <1>5
      <3>4. five = <<f1, s1>> \o three
        OBVIOUS
      <3> HIDE DEF five
      <3>5. LongerByTwo(five, f1, s1, three, any)
        BY <3>1, <3>2, <3>3, <3>4, PairThenMore
      <3> QED BY <3>5 DEF LongerByTwo
    <2> HIDE DEF five
    <2>1. \A k \in 1 .. 3 : five[k + 2] = three[k]
      BY <2>0, <1>5
    <2>2. five[1 + 2] = f2 /\ five[2 + 2] = s2 /\ five[3 + 2] = last
      BY <1>5, <2>1
    <2> QED BY <1>5, <2>0, <2>2
  <1> HIDE DEF five
  <1>7. /\ seven \in Seq(any) /\ Len(seven) = 7
        /\ seven[1] = f0 /\ seven[2] = s0 /\ seven[3] = f1 /\ seven[4] = s1
        /\ seven[5] = f2 /\ seven[6] = s2 /\ seven[7] = last
    <2>0. /\ seven \in Seq(any) /\ Len(seven) = Len(five) + 2 /\ seven[1] = f0 /\ seven[2] = s0
          /\ \A k \in 1 .. Len(five) : seven[k + 2] = five[k]
      <3>1. f0 \in any
        BY <1>4
      <3>2. s0 \in any
        BY <1>4
      <3>3. five \in Seq(any)
        BY <1>6
      <3>4. seven = <<f0, s0>> \o five
        OBVIOUS
      <3> HIDE DEF seven
      <3>5. LongerByTwo(seven, f0, s0, five, any)
        BY <3>1, <3>2, <3>3, <3>4, PairThenMore
      <3> QED BY <3>5 DEF LongerByTwo
    <2> HIDE DEF seven
    <2>1. \A k \in 1 .. 5 : seven[k + 2] = five[k]
      BY <2>0, <1>6
    <2>2. /\ seven[1 + 2] = f1 /\ seven[2 + 2] = s1 /\ seven[3 + 2] = f2
          /\ seven[4 + 2] = s2 /\ seven[5 + 2] = last
      BY <1>6, <2>1
    <2> QED BY <1>6, <2>0, <2>2
  <1> HIDE DEF seven
  <1>8. statements(i) = seven
    BY <1>1, <1>2
  <1>9. \A j \in 0 .. 2 : /\ seven[2 * j + 1] = First(i, j)
                          /\ seven[2 * j + 2] = Second(i, j)
    BY <1>7 DEF f0, f1, f2, s0, s1, s2
  <1>10. DOMAIN seven = 1 .. 7
    BY <1>7
  <1> QED BY <1>7, <1>8, <1>9, <1>10 DEF last

(* The three statements of what is computed a component at a time.         *)
LEMMA AtOnceAre ==
    ASSUME NEW i, i.op \in AtOnce
    PROVE  /\ Len(statements(i)) = 3 /\ DOMAIN statements(i) = 1 .. 3
           /\ \A k \in 1 .. 3 : statements(i)[k] =
                  Statement(Bits(i.op), i.a + k - 1, i.b + Stride(i.op) * (k - 1), i.r + k - 1)
  <1>1. statements(i) = Componentwise(Bits(i.op), i, Stride(i.op))
    <2>1. CASE i.op = "BITAND_V"
      BY <2>1 DEF statements, Bits, Stride
    <2>2. CASE i.op = "BITAND_VF"
      BY <2>2 DEF statements, Bits, Stride
    <2>3. CASE i.op = "BITOR_V"
      BY <2>3 DEF statements, Bits, Stride
    <2>4. CASE i.op = "BITOR_VF"
      BY <2>4 DEF statements, Bits, Stride
    <2> QED BY <2>1, <2>2, <2>3, <2>4 DEF AtOnce
  <1> DEFINE each(k) == Statement(Bits(i.op), i.a + k - 1, i.b + Stride(i.op) * (k - 1), i.r + k - 1)
             s == [k \in 1 .. 3 |-> each(k)]
  <1>2. Componentwise(Bits(i.op), i, Stride(i.op)) = s
    BY DEF Componentwise
  <1>3. DOMAIN s = 1 .. 3 /\ \A k \in 1 .. 3 : s[k] = each(k)
    OBVIOUS
  <1>4. s \in Seq({s[1], s[2], s[3]}) /\ Len(s) = 3
    <2> HIDE DEF s
    <2> DEFINE any == {s[1], s[2], s[3]}
    <2>1. s \in [1 .. 3 -> any]
      <3>1. s = [k \in 1 .. 3 |-> s[k]]
        BY DEF s
      <3>2. \A k \in 1 .. 3 : s[k] \in any
        OBVIOUS
      <3> HIDE DEF any
      <3> QED BY <3>1, <3>2
    <2> HIDE DEF any
    <2>2. s \in Seq(any)
      BY <2>1, SeqDef
    <2>3. Len(s) \in Nat /\ DOMAIN s = 1 .. Len(s)
      BY <2>2
    <2>4. Len(s) = 3
      BY <1>3, <2>3
    <2> QED BY <2>2, <2>4 DEF any
  <1> HIDE DEF s, each
  <1>5. statements(i) = s
    BY <1>1, <1>2
  <1> QED BY <1>3, <1>4, <1>5 DEF each

(* The three statements of an exclusive or of two floats.                  *)
LEMMA ExclusiveOrIs ==
    ASSUME NEW i, i.op = "BITXOR"
    PROVE  /\ Len(statements(i)) = 3 /\ DOMAIN statements(i) = 1 .. 3
           /\ statements(i)[1] = Statement("BITOR", i.a + 0, i.b + 0 * 0, Temp1 + 0)
           /\ statements(i)[2] = Statement("BITAND", i.a + 0, i.b + 0 * 0, Temp0 + 0)
           /\ statements(i)[3] = Statement("SUB_F", Temp1, Temp0, i.r)
  <1> DEFINE x == Statement("BITOR", i.a + 0, i.b + 0 * 0, Temp1 + 0)
             y == Statement("BITAND", i.a + 0, i.b + 0 * 0, Temp0 + 0)
             z == Statement("SUB_F", Temp1, Temp0, i.r)
             three == <<x, y>> \o <<z>>
  <1>1. statements(i) = three
    <2>1. statements(i) = Xor(i, 0, 0) \o <<z>>
      BY DEF statements
    <2> QED BY <2>1, Zenon DEF Xor
  <1> HIDE DEF x, y, z
  <1>2. <<z>> \in Seq({x, y, z}) /\ Len(<<z>>) = 1 /\ <<z>>[1] = z
    OBVIOUS
  <1>3. /\ three \in Seq({x, y, z}) /\ Len(three) = 3
        /\ three[1] = x /\ three[2] = y /\ three[3] = z
    <2>1. \A k \in 1 .. 1 : three[k + 2] = <<z>>[k]
      BY <1>2, PairThenMore DEF LongerByTwo
    <2>2. three[1 + 2] = z
      BY <1>2, <2>1
    <2> QED BY <1>2, <2>2, PairThenMore DEF LongerByTwo
  <1> HIDE DEF three
  <1> QED BY <1>1, <1>3 DEF x, y, z
-----------------------------------------------------------------------------
(* What a statement gives of the words before the first one.               *)
Gives(s) == Instr(s.op, before[s.a], before[s.b])

(* The invariant: which statements were executed, and that those still to  *)
(* be executed find their operands as they were.                           *)
EmulationTypeOK ==
    /\ instr.op \in EmulatedOps /\ instr \in Instruction(instr.op)
    /\ before \in [1 .. 15 -> Wholes] /\ DOMAIN words = 1 .. 15
AtOnceInv ==
    instr.op \in AtOnce =>
        /\ pc \in 1 .. 4
        /\ \A k \in 1 .. 15 : words[k] = IF k < pc THEN Gives(statements(instr)[k]) ELSE before[k]
HalvesInv ==
    instr.op \in ByHalves =>
        /\ pc \in 1 .. 8
        /\ \A j \in 0 .. 2 : /\ 2 * j + 1 < pc => words[Temp1 + j] = Gives(First(instr, j))
                             /\ 2 * j + 2 < pc => words[Temp0 + j] = Gives(Second(instr, j))
                             /\ pc = 8 => words[1 + j] = Sub(Gives(First(instr, j)), Gives(Second(instr, j)))
        /\ \A k \in 1 .. 9 : pc <= 7 \/ k > 3 => words[k] = before[k]
ExclusiveOrInv ==
    instr.op = "BITXOR" =>
        /\ pc \in 1 .. 4
        /\ 1 < pc => words[Temp1] = BitOr(before[instr.a], before[instr.b])
        /\ 2 < pc => words[Temp0] = BitAnd(before[instr.a], before[instr.b])
        /\ \A k \in 1 .. 9 : pc <= 3 \/ k # instr.r => words[k] = before[k]
        /\ pc = 4 => words[instr.r] = Sub(BitOr(before[instr.a], before[instr.b]),
                                          BitAnd(before[instr.a], before[instr.b]))
EmulationInv == EmulationTypeOK /\ AtOnceInv /\ HalvesInv /\ ExclusiveOrInv

(* What an instruction's operands are (Emulation).                         *)
LEMMA InstructionIs ==
    ASSUME NEW op, op \in EmulatedOps, NEW i \in Instruction(op)
    PROVE  /\ i.op = op /\ i.joined \in BOOLEAN /\ Allocated(i)
           /\ i.a \in Addresses(op, 1) /\ i.b \in Addresses(op, 2)
           /\ op = "BITXOR" => i.r \in 1 .. 3
           /\ op # "BITXOR" => i.r = 1
  BY DEF Instruction

(* Each operation is in one of the families.                               *)
LEMMA Families ==
    ASSUME NEW op, op \in EmulatedOps
    PROVE  /\ op \in AtOnce \/ op \in ByHalves \/ op = "BITXOR"
           /\ op \in AtOnce => op \notin ByHalves /\ op # "BITXOR"
           /\ op \in ByHalves => op # "BITXOR"
  BY DEF EmulatedOps, AtOnce, ByHalves

(* The halves are computed from the operands' own words, into temporaries. *)
LEMMA HalfOperands ==
    ASSUME NEW op, op \in ByHalves, NEW i \in Instruction(op), NEW j \in 0 .. 2
    PROVE  /\ First(i, j).a \in 1 .. 9 /\ First(i, j).b \in 1 .. 9 /\ First(i, j).c = Temp1 + j
           /\ Second(i, j).a \in 1 .. 9 /\ Second(i, j).b \in 1 .. 9 /\ Second(i, j).c = Temp0 + j
           /\ First(i, j).op # "SUB_V" /\ Second(i, j).op # "SUB_V"
  <1>1. op \in EmulatedOps
    BY DEF EmulatedOps, ByHalves
  <1>2. i.op = op /\ i.a \in Addresses(op, 1) /\ i.b \in Addresses(op, 2)
    BY <1>1, InstructionIs
  <1>3. i.a \in {1, 4, 7}
    BY <1>2 DEF Addresses, Floats, ByHalves
  <1>4. op = "BITXOR_VF" \/ i.b \in {1, 4, 7}
    BY <1>2 DEF Addresses, Floats, ByHalves
  <1>5. i.b \in 1 .. 9
    BY <1>2, <1>4 DEF Addresses, Floats
  <1>6. (j + 1) % 3 \in 0 .. 2 /\ (j + 2) % 3 \in 0 .. 2
    OBVIOUS
  <1>7. CASE op = "CROSS"
    BY <1>2, <1>3, <1>4, <1>6, <1>7 DEF First, Second, Statement
  <1>8. CASE op # "CROSS"
    <2>1. Stride(op) \in {0, 1} /\ (op = "BITXOR_VF" => Stride(op) = 0)
      BY DEF Stride
    <2>2. i.b + Stride(op) * j \in 1 .. 9
      <3>1. CASE Stride(op) = 0
        BY <1>5, <3>1
      <3>2. CASE Stride(op) = 1
        <4>1. i.b \in {1, 4, 7}
          BY <1>4, <2>1, <3>2
        <4> QED BY <3>2, <4>1
      <3> QED BY <2>1, <3>1, <3>2
    <2> QED BY <1>2, <1>3, <1>8, <2>2 DEF First, Second, Statement
  <1> QED BY <1>7, <1>8

(* Of a word and itself, both operations give that word.                   *)
LEMMA SameTwice ==
    ASSUME NEW x \in Wholes
    PROVE  BitAnd(x, x) = x /\ BitOr(x, x) = x
  <1>1. PICK n \in Int : x = F(n)
    BY DEF Wholes
  <1>2. IntAnd(n, n) = n
    BY IntAndProperties
  <1>3. IntOr(n, n) = n
    BY <1>2 DEF IntOr
  <1> QED BY <1>1, <1>2, <1>3, WholeNumbers

(* What is in one of two words but not in both: either, less both.         *)
LEMMA OneLessTheOther ==
    ASSUME NEW x \in Wholes, NEW y \in Wholes
    PROVE  Sub(BitOr(x, y), BitAnd(x, y)) = BitXor(x, y)
  <1>1. PICK m \in Int, n \in Int : x = F(m) /\ y = F(n)
    BY DEF Wholes
  <1> DEFINE z == IntAnd(m, n)
  <1>2. z \in Int
    BY IntAndProperties
  <1>3. IntOr(m, n) = m + n - z /\ IntXor(m, n) = m + n - 2 * z
    BY DEF IntOr, IntXor
  <1> HIDE DEF z
  <1>4. /\ IntOr(m, n) \in Int /\ IntOr(m, n) - z = IntXor(m, n)
    BY <1>2, <1>3
  <1>5. BitOr(x, y) = F(IntOr(m, n)) /\ BitAnd(x, y) = F(z) /\ BitXor(x, y) = F(IntXor(m, n))
    BY <1>1, WholeNumbers DEF z
  <1>6. Sub(F(IntOr(m, n)), F(z)) = F(IntOr(m, n) - z)
    BY <1>2, <1>4, WholeNumbers
  <1> QED BY <1>4, <1>5, <1>6

(* What a statement of one component computes.                             *)
LEMMA BitsGive ==
    ASSUME NEW op \in AtOnce, NEW x, NEW y
    PROVE  Instr(Bits(op), x, y) = IF op \in {"BITAND_V", "BITAND_VF"} THEN BitAnd(x, y) ELSE BitOr(x, y)
  <1>1. Instr("BITAND", x, y) = BitAnd(x, y) /\ Instr("BITOR", x, y) = BitOr(x, y)
    BY DEF Instr, ArithmeticOps, EmulatedOps
  <1> QED BY <1>1 DEF Bits

(* The invariant holds before the first statement.                         *)
LEMMA EmulationInitInv ==
    ASSUME EmulationInit
    PROVE  EmulationInv
  <1>1. PICK op \in EmulatedOps, memory \in Memories : \E i \in Instruction(op) : EmulationStart(i, memory)
    BY DEF EmulationInit
  <1>2. PICK i \in Instruction(op) : EmulationStart(i, memory)
    BY <1>1
  <1>3. instr = i /\ instr.op = op /\ pc = 1 /\ before = words
        /\ words = [k \in 1 .. 15 |-> IF k < 10 THEN F(memory[k]) ELSE F(0)]
    BY <1>2, InstructionIs DEF EmulationStart
  <1>4. memory \in [1 .. 9 -> Int]
    BY EmulationAssumption
  <1>5. \A k \in 1 .. 15 : IF k < 10 THEN F(memory[k]) \in Wholes ELSE F(0) \in Wholes
    BY <1>4 DEF Wholes
  <1>6. EmulationTypeOK
    BY <1>3, <1>5 DEF EmulationTypeOK
  <1>7. AtOnceInv /\ HalvesInv /\ ExclusiveOrInv
    BY <1>3 DEF AtOnceInv, HalvesInv, ExclusiveOrInv
  <1> QED BY <1>6, <1>7 DEF EmulationInv

(* A statement of one component writes its word, and no other.             *)
LEMMA StatementWrites ==
    ASSUME EmulationTypeOK, ExecStatement, NEW s, s = statements(instr)[pc], s.op # "SUB_V"
    PROVE  /\ pc' = pc + 1 /\ instr' = instr /\ before' = before
           /\ \A k \in 1 .. 15 :
                 words'[k] = IF k = s.c THEN Instr(s.op, words[s.a], words[s.b]) ELSE words[k]
           /\ DOMAIN words' = 1 .. 15
  <1>1. words' = [words EXCEPT ![s.c] = Instr(s.op, words[s.a], words[s.b])]
    BY DEF ExecStatement
  <1>2. DOMAIN words = 1 .. 15
    BY DEF EmulationTypeOK
  <1> QED BY <1>1, <1>2 DEF ExecStatement

(* A component at a time: a word of the result is written when its own     *)
(* component is read, and an operand that is read for every component is   *)
(* elsewhere, unless the other operand is the result: then it is written   *)
(* as it was.                                                              *)
LEMMA AtOnceStep ==
    ASSUME EmulationInv, ~JoinsOverlapping, ExecStatement, instr.op \in AtOnce
    PROVE  EmulationTypeOK' /\ AtOnceInv'
  <1> DEFINE op == instr.op
             s == statements(instr)[pc]
  <1>1. /\ pc \in 1 .. 4
        /\ \A k \in 1 .. 15 : words[k] = IF k < pc THEN Gives(statements(instr)[k]) ELSE before[k]
    BY DEF EmulationInv, AtOnceInv
  <1>2. /\ DOMAIN statements(instr) = 1 .. 3
        /\ \A k \in 1 .. 3 : statements(instr)[k] =
               Statement(Bits(op), instr.a + k - 1, instr.b + Stride(op) * (k - 1), instr.r + k - 1)
    BY AtOnceAre
  <1>3. pc \in 1 .. 3
    BY <1>2 DEF ExecStatement
  <1>4. /\ op \in EmulatedOps /\ instr \in Instruction(op) /\ op # "BITXOR"
        /\ before \in [1 .. 15 -> Wholes]
    BY Families DEF EmulationInv, EmulationTypeOK
  <1>5. /\ instr.r = 1 /\ instr.a \in Addresses(op, 1) /\ instr.b \in Addresses(op, 2)
        /\ instr.joined \in BOOLEAN /\ Allocated(instr)
    BY <1>4, InstructionIs
  <1>6. /\ instr.a \in {1, 4, 7} /\ instr.b \in 1 .. 9
        /\ Stride(op) = 1 => instr.b \in {1, 4, 7}
        /\ Stride(op) \in {0, 1}
        /\ Stride(op) = 0 => op \in {"BITAND_VF", "BITOR_VF"}
    BY <1>5 DEF Addresses, Floats, AtOnce, Stride
  <1>7. /\ s.op = Bits(op) /\ s.a = instr.a + pc - 1 /\ s.b = instr.b + Stride(op) * (pc - 1) /\ s.c = pc
    BY <1>2, <1>3, <1>5 DEF Statement
  <1>8. s.op # "SUB_V"
    BY <1>7 DEF Bits
  <1>9. words[s.a] = before[s.a]
    <2>1. s.a \in 1 .. 9 /\ ~(s.a < pc)
      BY <1>3, <1>6, <1>7
    <2> QED BY <1>1, <2>1
  <1>10. words[s.b] = before[s.b]
    <2>1. CASE Stride(op) = 1
      <3>1. s.b = instr.b + (pc - 1)
        BY <1>3, <1>6, <1>7, <2>1
      <3>2. s.b \in 1 .. 9 /\ ~(s.b < pc)
        BY <1>3, <1>6, <3>1, <2>1
      <3> QED BY <1>1, <3>2
    <2>2. CASE Stride(op) = 0
      <3> DEFINE b == instr.b
      <3>1. s.b = b /\ b \in 1 .. 9
        BY <1>3, <1>6, <1>7, <2>2
      <3>2. CASE ~(b < pc)
        BY <1>1, <3>1, <3>2
      <3>3. CASE b < pc
        <4>1. b \in 1 .. 3
          BY <1>3, <3>1, <3>3
        <4>2. instr.a = 1
          <5>1. op \in {"BITAND_VF", "BITOR_VF"}
            BY <1>6, <2>2
          <5>2. ~MayShare(instr)
            BY <4>1, <5>1 DEF MayShare, InResult, ExtraLife
          <5>3. ~Overlapping(instr)
            BY <1>5, <5>2 DEF Allocated
          <5>4. InResult(instr.a)
            BY <4>1, <5>1, <5>3 DEF Overlapping, InResult
          <5> QED BY <1>6, <5>4 DEF InResult
        <4>3. words[b] = Gives(statements(instr)[b])
          BY <1>1, <3>3, <4>1
        <4>4. statements(instr)[b] = Statement(Bits(op), b, b, b)
          <5>1. instr.a + b - 1 = b /\ instr.b + Stride(op) * (b - 1) = b /\ instr.r + b - 1 = b
            BY <1>5, <2>2, <4>1, <4>2
          <5>2. statements(instr)[b] =
                  Statement(Bits(op), instr.a + b - 1, instr.b + Stride(op) * (b - 1), instr.r + b - 1)
            BY <1>2, <4>1
          <5> HIDE DEF b, op
          <5> QED BY <5>1, <5>2
        <4>5. Gives(Statement(Bits(op), b, b, b)) = Instr(Bits(op), before[b], before[b])
          BY DEF Gives, Statement
        <4>6. before[b] \in Wholes
          BY <1>4, <3>1
        <4>7. Instr(Bits(op), before[b], before[b]) = before[b]
          BY <4>6, BitsGive, SameTwice
        <4> QED BY <3>1, <4>3, <4>4, <4>5, <4>7
      <3> QED BY <3>2, <3>3
    <2> QED BY <1>6, <2>1, <2>2
  <1>11. /\ pc' = pc + 1 /\ instr' = instr /\ before' = before /\ DOMAIN words' = 1 .. 15
         /\ \A k \in 1 .. 15 :
               words'[k] = IF k = pc THEN Instr(s.op, words[s.a], words[s.b]) ELSE words[k]
    <2> HIDE DEF s
    <2>1. s = statements(instr)[pc]
      BY DEF s
    <2> QED BY <1>7, <1>8, <2>1, StatementWrites DEF EmulationInv
  <1>12. Instr(s.op, words[s.a], words[s.b]) = Gives(s)
    BY <1>9, <1>10 DEF Gives
  <1>13. \A k \in 1 .. 15 : words'[k] = IF k < pc + 1 THEN Gives(statements(instr)[k]) ELSE before[k]
    <2>1. \A k \in 1 .. 15 : words'[k] = IF k = pc THEN Gives(statements(instr)[pc]) ELSE words[k]
      BY <1>11, <1>12
    <2>2. \A k \in 1 .. 15 : k < pc + 1 <=> (k = pc \/ k < pc)
      BY <1>1
    <2>3. \A k \in 1 .. 15 : k = pc => ~(k < pc)
      BY <1>1
    <2> QED BY <1>1, <2>1, <2>2, <2>3
  <1>14. EmulationTypeOK'
    BY <1>11 DEF EmulationInv, EmulationTypeOK
  <1>15. AtOnceInv'
    BY <1>3, <1>11, <1>13 DEF AtOnceInv, Gives
  <1> QED BY <1>14, <1>15

(* By halves: the operands stay as they are until the last statement.      *)
LEMMA HalvesStep ==
    ASSUME EmulationInv, ExecStatement, instr.op \in ByHalves
    PROVE  EmulationTypeOK' /\ HalvesInv'
  <1> DEFINE op == instr.op
             s == statements(instr)[pc]
  <1>1. /\ pc \in 1 .. 8
        /\ \A j \in 0 .. 2 : /\ 2 * j + 1 < pc => words[Temp1 + j] = Gives(First(instr, j))
                             /\ 2 * j + 2 < pc => words[Temp0 + j] = Gives(Second(instr, j))
        /\ \A k \in 1 .. 9 : pc <= 7 \/ k > 3 => words[k] = before[k]
    BY DEF EmulationInv, HalvesInv
  <1>2. /\ DOMAIN statements(instr) = 1 .. 7
        /\ \A j \in 0 .. 2 : /\ statements(instr)[2 * j + 1] = First(instr, j)
                             /\ statements(instr)[2 * j + 2] = Second(instr, j)
        /\ statements(instr)[7] = Statement("SUB_V", Temp1, Temp0, instr.r)
    BY HalvesAre
  <1>3. pc \in 1 .. 7 /\ pc' = pc + 1 /\ instr' = instr /\ before' = before
    BY <1>2 DEF ExecStatement
  <1>4. op \in EmulatedOps /\ instr \in Instruction(op) /\ op # "BITXOR" /\ instr.r = 1
        /\ DOMAIN words = 1 .. 15
    BY Families, InstructionIs DEF EmulationInv, EmulationTypeOK
  <1>5. \A j \in 0 .. 2 :
           /\ First(instr, j).a \in 1 .. 9 /\ First(instr, j).b \in 1 .. 9 /\ First(instr, j).c = Temp1 + j
           /\ Second(instr, j).a \in 1 .. 9 /\ Second(instr, j).b \in 1 .. 9 /\ Second(instr, j).c = Temp0 + j
           /\ First(instr, j).op # "SUB_V" /\ Second(instr, j).op # "SUB_V"
    BY <1>4, HalfOperands
  <1>6. Temp0 = 10 /\ Temp1 = 13
    BY DEF Temp0, Temp1
  <1>7. ASSUME NEW j \in 0 .. 2, pc = 2 * j + 1
        PROVE  EmulationTypeOK' /\ HalvesInv'
    <2>1. s = First(instr, j) /\ s.op # "SUB_V" /\ s.c = 13 + j /\ s.a \in 1 .. 9 /\ s.b \in 1 .. 9
      BY <1>2, <1>5, <1>6, <1>7
    <2>2. DOMAIN words' = 1 .. 15 /\ \A k \in 1 .. 15 :
              words'[k] = IF k = 13 + j THEN Gives(First(instr, j)) ELSE words[k]
      <3>1. words[s.a] = before[s.a] /\ words[s.b] = before[s.b]
        BY <1>1, <1>3, <2>1
      <3>2. Instr(s.op, words[s.a], words[s.b]) = Gives(First(instr, j))
        BY <2>1, <3>1 DEF Gives
      <3> HIDE DEF s
      <3>3. s = statements(instr)[pc]
        BY DEF s
      <3>4. DOMAIN words' = 1 .. 15 /\ \A k \in 1 .. 15 :
               words'[k] = IF k = s.c THEN Instr(s.op, words[s.a], words[s.b]) ELSE words[k]
        BY <2>1, <3>3, StatementWrites DEF EmulationInv
      <3> QED BY <2>1, <3>2, <3>4
    <2>3. EmulationTypeOK'
      BY <1>3, <2>2 DEF EmulationInv, EmulationTypeOK
    <2>4. \A i \in 0 .. 2 : /\ 2 * i + 1 < pc + 1 => words'[Temp1 + i] = Gives(First(instr, i))
                            /\ 2 * i + 2 < pc + 1 => words'[Temp0 + i] = Gives(Second(instr, i))
      <3>1. ASSUME NEW i \in 0 .. 2
            PROVE  /\ 2 * i + 1 < pc + 1 => words'[13 + i] = Gives(First(instr, i))
                   /\ 2 * i + 2 < pc + 1 => words'[10 + i] = Gives(Second(instr, i))
        <4>1. /\ 13 + i \in 1 .. 15 /\ 10 + i \in 1 .. 15 /\ 10 + i # 13 + j
              /\ 2 * i + 1 < pc + 1 => i = j \/ 2 * i + 1 < pc
              /\ 2 * i + 2 < pc + 1 => 2 * i + 2 < pc
              /\ i # j => 13 + i # 13 + j
          BY <1>7
        <4>2. words'[10 + i] = words[10 + i]
              /\ words'[13 + i] = IF i = j THEN Gives(First(instr, j)) ELSE words[13 + i]
          BY <2>2, <4>1
        <4> QED BY <1>1, <1>6, <4>1, <4>2
      <3> QED BY <1>6, <3>1
    <2>5. \A k \in 1 .. 9 : words'[k] = before[k]
      <3>1. \A k \in 1 .. 9 : k \in 1 .. 15 /\ k # 13 + j
        OBVIOUS
      <3> QED BY <1>1, <1>3, <2>2, <3>1
    <2>6. pc + 1 # 8
      BY <1>7
    <2> QED BY <1>3, <2>3, <2>4, <2>5, <2>6 DEF HalvesInv, Gives
  <1>8. ASSUME NEW j \in 0 .. 2, pc = 2 * j + 2
        PROVE  EmulationTypeOK' /\ HalvesInv'
    <2>1. s = Second(instr, j) /\ s.op # "SUB_V" /\ s.c = 10 + j /\ s.a \in 1 .. 9 /\ s.b \in 1 .. 9
      BY <1>2, <1>5, <1>6, <1>8
    <2>2. DOMAIN words' = 1 .. 15 /\ \A k \in 1 .. 15 :
              words'[k] = IF k = 10 + j THEN Gives(Second(instr, j)) ELSE words[k]
      <3>1. words[s.a] = before[s.a] /\ words[s.b] = before[s.b]
        BY <1>1, <1>3, <2>1
      <3>2. Instr(s.op, words[s.a], words[s.b]) = Gives(Second(instr, j))
        BY <2>1, <3>1 DEF Gives
      <3> HIDE DEF s
      <3>3. s = statements(instr)[pc]
        BY DEF s
      <3>4. DOMAIN words' = 1 .. 15 /\ \A k \in 1 .. 15 :
               words'[k] = IF k = s.c THEN Instr(s.op, words[s.a], words[s.b]) ELSE words[k]
        BY <2>1, <3>3, StatementWrites DEF EmulationInv
      <3> QED BY <2>1, <3>2, <3>4
    <2>3. EmulationTypeOK'
      BY <1>3, <2>2 DEF EmulationInv, EmulationTypeOK
    <2>4. \A i \in 0 .. 2 : /\ 2 * i + 1 < pc + 1 => words'[Temp1 + i] = Gives(First(instr, i))
                            /\ 2 * i + 2 < pc + 1 => words'[Temp0 + i] = Gives(Second(instr, i))
      <3>1. ASSUME NEW i \in 0 .. 2
            PROVE  /\ 2 * i + 1 < pc + 1 => words'[13 + i] = Gives(First(instr, i))
                   /\ 2 * i + 2 < pc + 1 => words'[10 + i] = Gives(Second(instr, i))
        <4>1. /\ 13 + i \in 1 .. 15 /\ 10 + i \in 1 .. 15 /\ 13 + i # 10 + j
              /\ 2 * i + 1 < pc + 1 => 2 * i + 1 < pc
              /\ 2 * i + 2 < pc + 1 => i = j \/ 2 * i + 2 < pc
              /\ i # j => 10 + i # 10 + j
          BY <1>8
        <4>2. words'[13 + i] = words[13 + i]
              /\ words'[10 + i] = IF i = j THEN Gives(Second(instr, j)) ELSE words[10 + i]
          BY <2>2, <4>1
        <4> QED BY <1>1, <1>6, <4>1, <4>2
      <3> QED BY <1>6, <3>1
    <2>5. \A k \in 1 .. 9 : words'[k] = before[k]
      <3>1. \A k \in 1 .. 9 : k \in 1 .. 15 /\ k # 10 + j
        OBVIOUS
      <3> QED BY <1>1, <1>3, <2>2, <3>1
    <2>6. pc + 1 # 8
      BY <1>8
    <2> QED BY <1>3, <2>3, <2>4, <2>5, <2>6 DEF HalvesInv, Gives
  <1>9. CASE pc = 7
    <2>1. s = Statement("SUB_V", 13, 10, 1)
      BY <1>2, <1>4, <1>6, <1>9
    <2>2. words' = Difference3(words, s)
      BY <2>1 DEF ExecStatement, Statement
    <2>3. /\ DOMAIN words' = 1 .. 15
          /\ words'[1] = Sub(words[13], words[10]) /\ words'[2] = Sub(words[14], words[11])
          /\ words'[3] = Sub(words[15], words[12])
          /\ \A k \in 4 .. 15 : words'[k] = words[k]
      BY <1>4, <2>1, <2>2 DEF Difference3, Statement
    <2>4. EmulationTypeOK'
      BY <1>3, <2>3 DEF EmulationInv, EmulationTypeOK
    <2>5. \A j \in 0 .. 2 : /\ words[13 + j] = Gives(First(instr, j))
                            /\ words[10 + j] = Gives(Second(instr, j))
      BY <1>1, <1>6, <1>9
    <2>6. \A j \in 0 .. 2 : /\ words'[13 + j] = Gives(First(instr, j))
                            /\ words'[10 + j] = Gives(Second(instr, j))
      BY <2>3, <2>5
    <2>7. \A j \in 0 .. 2 : words'[1 + j] = Sub(words[13 + j], words[10 + j])
      BY <2>3
    <2>8. \A k \in 1 .. 9 : k > 3 => words'[k] = before[k]
      BY <1>1, <1>9, <2>3
    <2> QED BY <1>3, <1>6, <1>9, <2>4, <2>5, <2>6, <2>7, <2>8 DEF HalvesInv, Gives
  <1>10. pc = 7 \/ \E j \in 0 .. 2 : pc = 2 * j + 1 \/ pc = 2 * j + 2
    <2>1. pc \in {1, 2, 3, 4, 5, 6, 7}
      BY <1>3
    <2>2. 1 = 2 * 0 + 1 /\ 2 = 2 * 0 + 2 /\ 3 = 2 * 1 + 1 /\ 4 = 2 * 1 + 2 /\ 5 = 2 * 2 + 1 /\ 6 = 2 * 2 + 2
      OBVIOUS
    <2> QED BY <2>1, <2>2
  <1> QED BY <1>7, <1>8, <1>9, <1>10

(* The same with one component.                                            *)
LEMMA ExclusiveOrStep ==
    ASSUME EmulationInv, ExecStatement, instr.op = "BITXOR"
    PROVE  EmulationTypeOK' /\ ExclusiveOrInv'
  <1> DEFINE a == instr.a
             b == instr.b
             r == instr.r
             s == statements(instr)[pc]
  <1>1. /\ pc \in 1 .. 4
        /\ 1 < pc => words[Temp1] = BitOr(before[a], before[b])
        /\ 2 < pc => words[Temp0] = BitAnd(before[a], before[b])
        /\ \A k \in 1 .. 9 : pc <= 3 \/ k # r => words[k] = before[k]
    BY DEF EmulationInv, ExclusiveOrInv
  <1>2. /\ DOMAIN statements(instr) = 1 .. 3
        /\ statements(instr)[1] = Statement("BITOR", a + 0, b + 0 * 0, Temp1 + 0)
        /\ statements(instr)[2] = Statement("BITAND", a + 0, b + 0 * 0, Temp0 + 0)
        /\ statements(instr)[3] = Statement("SUB_F", Temp1, Temp0, r)
    BY ExclusiveOrIs
  <1>3. pc \in 1 .. 3
    BY <1>2 DEF ExecStatement
  <1>4. instr.op \in EmulatedOps /\ instr \in Instruction(instr.op)
    BY DEF EmulationInv, EmulationTypeOK
  <1>5. a \in 1 .. 9 /\ b \in 1 .. 9 /\ r \in 1 .. 3
    BY <1>4, InstructionIs DEF Addresses, Floats
  <1>6. Temp0 = 10 /\ Temp1 = 13 /\ a + 0 = a /\ b + 0 * 0 = b
    BY <1>5 DEF Temp0, Temp1
  <1>7. /\ pc = 1 => s.op = "BITOR" /\ s.a = a /\ s.b = b /\ s.c = 13
        /\ pc = 2 => s.op = "BITAND" /\ s.a = a /\ s.b = b /\ s.c = 10
        /\ pc = 3 => s.op = "SUB_F" /\ s.a = 13 /\ s.b = 10 /\ s.c = r
    BY <1>2, <1>6 DEF Statement
  <1>8. s.op # "SUB_V"
    BY <1>3, <1>7
  <1>9. /\ pc' = pc + 1 /\ instr' = instr /\ before' = before /\ DOMAIN words' = 1 .. 15
        /\ \A k \in 1 .. 15 :
              words'[k] = IF k = s.c THEN Instr(s.op, words[s.a], words[s.b]) ELSE words[k]
    <2> HIDE DEF s
    <2>1. s = statements(instr)[pc]
      BY DEF s
    <2> QED BY <1>8, <2>1, StatementWrites DEF EmulationInv
  <1>10. \A x, y : /\ Instr("BITOR", x, y) = BitOr(x, y) /\ Instr("BITAND", x, y) = BitAnd(x, y)
                   /\ Instr("SUB_F", x, y) = Sub(x, y)
    BY DEF Instr, Arithmetic, ArithmeticOps, EmulatedOps
  <1>11. EmulationTypeOK'
    BY <1>9 DEF EmulationInv, EmulationTypeOK
  <1> HIDE DEF s
  <1>12. CASE pc = 1
    <2>1. \A k \in 1 .. 15 : words'[k] = IF k = 13 THEN BitOr(words[a], words[b]) ELSE words[k]
      BY <1>7, <1>9, <1>10, <1>12
    <2>2. words[a] = before[a] /\ words[b] = before[b]
      BY <1>1, <1>5, <1>12
    <2>3. words'[13] = BitOr(before[a], before[b]) /\ \A k \in 1 .. 9 : words'[k] = before[k]
      BY <1>1, <1>12, <2>1, <2>2
    <2> QED BY <1>6, <1>9, <1>11, <1>12, <2>3 DEF ExclusiveOrInv
  <1>13. CASE pc = 2
    <2>1. \A k \in 1 .. 15 : words'[k] = IF k = 10 THEN BitAnd(words[a], words[b]) ELSE words[k]
      BY <1>7, <1>9, <1>10, <1>13
    <2>2. words[a] = before[a] /\ words[b] = before[b] /\ words[13] = BitOr(before[a], before[b])
      BY <1>1, <1>5, <1>6, <1>13
    <2>3. /\ words'[10] = BitAnd(before[a], before[b]) /\ words'[13] = BitOr(before[a], before[b])
          /\ \A k \in 1 .. 9 : words'[k] = before[k]
      BY <1>1, <1>13, <2>1, <2>2
    <2> QED BY <1>6, <1>9, <1>11, <1>13, <2>3 DEF ExclusiveOrInv
  <1>14. CASE pc = 3
    <2>1. \A k \in 1 .. 15 : words'[k] = IF k = r THEN Sub(words[13], words[10]) ELSE words[k]
      BY <1>7, <1>9, <1>10, <1>14
    <2>2. words[13] = BitOr(before[a], before[b]) /\ words[10] = BitAnd(before[a], before[b])
      BY <1>1, <1>6, <1>14
    <2>3. /\ words'[10] = BitAnd(before[a], before[b]) /\ words'[13] = BitOr(before[a], before[b])
          /\ words'[r] = Sub(BitOr(before[a], before[b]), BitAnd(before[a], before[b]))
          /\ \A k \in 1 .. 9 : k # r => words'[k] = before[k]
      BY <1>1, <1>5, <1>14, <2>1, <2>2
    <2> QED BY <1>6, <1>9, <1>11, <1>14, <2>3 DEF ExclusiveOrInv
  <1> QED BY <1>3, <1>11, <1>12, <1>13, <1>14

(* Every statement keeps the invariant.                                    *)
LEMMA EmulationNextInv ==
    ASSUME EmulationInv, ~JoinsOverlapping, [EmulationNext]_emulationVars
    PROVE  EmulationInv'
  <1>1. CASE ExecStatement
    <2>1. instr' = instr /\ instr.op \in EmulatedOps
      BY <1>1 DEF ExecStatement, EmulationInv, EmulationTypeOK
    <2>2. CASE instr.op \in AtOnce
      <3>1. EmulationTypeOK' /\ AtOnceInv'
        BY <1>1, <2>2, AtOnceStep
      <3>2. HalvesInv' /\ ExclusiveOrInv'
        BY <2>1, <2>2, Families DEF HalvesInv, ExclusiveOrInv
      <3> QED BY <3>1, <3>2 DEF EmulationInv
    <2>3. CASE instr.op \in ByHalves
      <3>1. EmulationTypeOK' /\ HalvesInv'
        BY <1>1, <2>3, HalvesStep
      <3>2. AtOnceInv' /\ ExclusiveOrInv'
        BY <2>1, <2>3, Families DEF AtOnceInv, ExclusiveOrInv
      <3> QED BY <3>1, <3>2 DEF EmulationInv
    <2>4. CASE instr.op = "BITXOR"
      <3>1. EmulationTypeOK' /\ ExclusiveOrInv'
        BY <1>1, <2>4, ExclusiveOrStep
      <3>2. AtOnceInv' /\ HalvesInv'
        BY <2>1, <2>4, Families DEF AtOnceInv, HalvesInv
      <3> QED BY <3>1, <3>2 DEF EmulationInv
    <2> QED BY <2>1, <2>2, <2>3, <2>4, Families
  <1>2. CASE UNCHANGED emulationVars
    BY <1>2 DEF emulationVars, EmulationInv, EmulationTypeOK, AtOnceInv, HalvesInv, ExclusiveOrInv, Gives
  <1> QED BY <1>1, <1>2 DEF EmulationNext

(* When all were executed, the result is there.                            *)
LEMMA ThreeComponents ==
    ASSUME NEW x, NEW y, NEW z, NEW f, f = [k \in 1 .. 3 |-> f[k]], f[1] = x, f[2] = y, f[3] = z
    PROVE  <<x, y, z>> = f
  OBVIOUS

(* Then the components are those that the instruction has as a whole.      *)
LEMMA AtOnceResult ==
    ASSUME EmulationInv, instr.op \in AtOnce
    PROVE  ResultOfOperands
  <1> DEFINE op == instr.op
             va == VectorAt(before, instr.a)
             ob == OperandOf(2, instr.b)
             result == Instr(op, va, ob)
  <1>1. /\ Len(statements(instr)) = 3
        /\ \A k \in 1 .. 3 : statements(instr)[k] =
               Statement(Bits(op), instr.a + k - 1, instr.b + Stride(op) * (k - 1), instr.r + k - 1)
    BY AtOnceAre
  <1>2. /\ pc \in 1 .. 4
        /\ \A k \in 1 .. 15 : words[k] = IF k < pc THEN Gives(statements(instr)[k]) ELSE before[k]
    BY DEF EmulationInv, AtOnceInv
  <1>3. SUFFICES ASSUME pc = 4
                 PROVE  VectorAt(words, 1) = result /\ \A k \in 4 .. 9 : words[k] = before[k]
    <2>1. op # "BITXOR" /\ instr.r = 1
      BY Families, InstructionIs DEF EmulationInv, EmulationTypeOK
    <2>2. OperandOf(1, instr.a) = va
      BY DEF OperandOf, Floats, AtOnce
    <2>3. (1 .. 9) \ (1 .. 1 + 2) = 4 .. 9
      OBVIOUS
    <2> HIDE DEF va, ob
    <2> QED BY <1>1, <1>2, <2>1, <2>2, <2>3 DEF ResultOfOperands, ob
  <1>4. \A k \in 4 .. 9 : words[k] = before[k]
    BY <1>2, <1>3
  <1>5. /\ instr.a \in {1, 4, 7} /\ instr.b \in 1 .. 9
    <2>1. instr.a \in Addresses(op, 1) /\ instr.b \in Addresses(op, 2)
      BY InstructionIs DEF EmulationInv, EmulationTypeOK
    <2> QED BY <2>1 DEF Addresses, Floats, AtOnce
  <1>6. \A k \in 1 .. 3 : words[k] = Instr(Bits(op), before[instr.a + k - 1], before[instr.b + Stride(op) * (k - 1)])
    BY <1>1, <1>2, <1>3 DEF Gives, Statement
  <1>7. \A k \in 1 .. 3 : va[k] = before[instr.a + k - 1]
    BY <1>5 DEF VectorAt
  <1>8. \A k \in 1 .. 3 : Stride(op) = 1 => ob[k] = before[instr.b + Stride(op) * (k - 1)]
    <2>1. SUFFICES ASSUME Stride(op) = 1
                   PROVE  \A k \in 1 .. 3 : ob[k] = before[instr.b + 1 * (k - 1)]
      OBVIOUS
    <2>2. op \notin {"BITAND_VF", "BITOR_VF"}
      BY <2>1 DEF Stride
    <2>3. ob = VectorAt(before, instr.b)
      BY <2>2 DEF OperandOf, Floats, AtOnce
    <2>4. \A k \in 1 .. 3 : VectorAt(before, instr.b)[k] = before[instr.b + 1 * (k - 1)]
      BY <1>5 DEF VectorAt
    <2> QED BY <2>3, <2>4
  <1>9. Stride(op) = 0 => ob = before[instr.b] /\ \A k \in 1 .. 3 : instr.b + Stride(op) * (k - 1) = instr.b
    BY <1>5 DEF OperandOf, Stride, Floats, AtOnce
  <1>10. VectorAt(words, 1) = <<words[1], words[2], words[3]>>
    BY DEF VectorAt
  <1> HIDE DEF va, ob
  <1>11. CASE op = "BITAND_V"
    <2>1. result = [k \in 1 .. 3 |-> BitAnd(va[k], ob[k])]
      BY <1>11 DEF Instr, Emulated, EmulatedOps, ArithmeticOps, Each
    <2>2. \A k \in 1 .. 3 : words[k] = BitAnd(va[k], ob[k])
      BY <1>6, <1>7, <1>8, <1>11, BitsGive DEF Stride
    <2> QED BY <1>4, <1>10, <2>1, <2>2
  <1>12. CASE op = "BITOR_V"
    <2>1. result = [k \in 1 .. 3 |-> BitOr(va[k], ob[k])]
      BY <1>12 DEF Instr, Emulated, EmulatedOps, ArithmeticOps, Each
    <2>2. \A k \in 1 .. 3 : words[k] = BitOr(va[k], ob[k])
      BY <1>6, <1>7, <1>8, <1>12, BitsGive DEF Stride
    <2> QED BY <1>4, <1>10, <2>1, <2>2
  <1>13. CASE op = "BITAND_VF"
    <2>1. result = [k \in 1 .. 3 |-> BitAnd(va[k], ob)]
      BY <1>13 DEF Instr, Emulated, EmulatedOps, ArithmeticOps, EachOf
    <2>2. \A k \in 1 .. 3 : words[k] = BitAnd(va[k], ob)
      BY <1>6, <1>7, <1>9, <1>13, BitsGive DEF Stride
    <2> QED BY <1>4, <1>10, <2>1, <2>2
  <1>14. CASE op = "BITOR_VF"
    <2>1. result = [k \in 1 .. 3 |-> BitOr(va[k], ob)]
      BY <1>14 DEF Instr, Emulated, EmulatedOps, ArithmeticOps, EachOf
    <2>2. \A k \in 1 .. 3 : words[k] = BitOr(va[k], ob)
      BY <1>6, <1>7, <1>9, <1>14, BitsGive DEF Stride
    <2> QED BY <1>4, <1>10, <2>1, <2>2
  <1> QED BY <1>11, <1>12, <1>13, <1>14 DEF AtOnce

(* And so are those that are computed by halves.                           *)
LEMMA HalvesResult ==
    ASSUME EmulationInv, instr.op \in ByHalves
    PROVE  ResultOfOperands
  <1> DEFINE op == instr.op
             va == VectorAt(before, instr.a)
             ob == OperandOf(2, instr.b)
             result == Instr(op, va, ob)
  <1>1. Len(statements(instr)) = 7
    BY HalvesAre
  <1>2. pc \in 1 .. 8
    BY DEF EmulationInv, HalvesInv
  <1>3. SUFFICES ASSUME pc = 8
                 PROVE  VectorAt(words, 1) = result /\ \A k \in 4 .. 9 : words[k] = before[k]
    <2>1. op # "BITXOR" /\ instr.r = 1
      BY Families, InstructionIs DEF EmulationInv, EmulationTypeOK
    <2>2. OperandOf(1, instr.a) = va
      BY DEF OperandOf, Floats, ByHalves
    <2>3. (1 .. 9) \ (1 .. 1 + 2) = 4 .. 9
      OBVIOUS
    <2> HIDE DEF va, ob
    <2> QED BY <1>1, <1>2, <2>1, <2>2, <2>3 DEF ResultOfOperands, ob
  <1>4. \A k \in 4 .. 9 : words[k] = before[k]
    BY <1>3 DEF EmulationInv, HalvesInv
  <1>5. \A j \in 0 .. 2 : words[1 + j] = Sub(Gives(First(instr, j)), Gives(Second(instr, j)))
    BY <1>3 DEF EmulationInv, HalvesInv
  <1>6. /\ instr.a \in {1, 4, 7} /\ instr.b \in 1 .. 9 /\ (op # "BITXOR_VF" => instr.b \in {1, 4, 7})
    <2>1. instr.a \in Addresses(op, 1) /\ instr.b \in Addresses(op, 2)
      BY InstructionIs DEF EmulationInv, EmulationTypeOK
    <2> QED BY <2>1 DEF Addresses, Floats, ByHalves
  <1>7. VectorAt(words, 1) = <<words[1], words[2], words[3]>>
    BY DEF VectorAt
  <1>8. /\ va[1] = before[instr.a] /\ va[2] = before[instr.a + 1] /\ va[3] = before[instr.a + 2]
    BY DEF VectorAt
  <1>9. \A x, y : /\ Instr("BITOR", x, y) = BitOr(x, y) /\ Instr("BITAND", x, y) = BitAnd(x, y)
                  /\ Instr("MUL_F", x, y) = Mul(x, y)
    BY DEF Instr, Arithmetic, ArithmeticOps, EmulatedOps
  <1>10. before \in [1 .. 15 -> Wholes]
    BY DEF EmulationInv, EmulationTypeOK
  <1> HIDE DEF va
  <1>11. CASE op = "CROSS"
    <2>1. ob = VectorAt(before, instr.b)
      BY <1>11 DEF OperandOf, Floats
    <2>2. ob[1] = before[instr.b] /\ ob[2] = before[instr.b + 1] /\ ob[3] = before[instr.b + 2]
      BY <2>1 DEF VectorAt
    <2> HIDE DEF ob
    <2>3. \A j \in 0 .. 2 :
             /\ Gives(First(instr, j)) = Mul(before[instr.a + ((j + 1) % 3)], before[instr.b + ((j + 2) % 3)])
             /\ Gives(Second(instr, j)) = Mul(before[instr.a + ((j + 2) % 3)], before[instr.b + ((j + 1) % 3)])
      BY <1>9, <1>11 DEF First, Second, Gives, Statement
    <2>4. /\ words[1] = Sub(Mul(va[2], ob[3]), Mul(va[3], ob[2]))
          /\ words[2] = Sub(Mul(va[3], ob[1]), Mul(va[1], ob[3]))
          /\ words[3] = Sub(Mul(va[1], ob[2]), Mul(va[2], ob[1]))
      <3>1. /\ (0 + 1) % 3 = 1 /\ (0 + 2) % 3 = 2 /\ (1 + 1) % 3 = 2 /\ (1 + 2) % 3 = 0
            /\ (2 + 1) % 3 = 0 /\ (2 + 2) % 3 = 1 /\ instr.a + 0 = instr.a /\ instr.b + 0 = instr.b
        BY <1>6
      <3>2. words[1 + 0] = Sub(Gives(First(instr, 0)), Gives(Second(instr, 0)))
            /\ words[1 + 1] = Sub(Gives(First(instr, 1)), Gives(Second(instr, 1)))
            /\ words[1 + 2] = Sub(Gives(First(instr, 2)), Gives(Second(instr, 2)))
        BY <1>5
      <3>3. /\ Gives(First(instr, 0)) = Mul(va[2], ob[3]) /\ Gives(Second(instr, 0)) = Mul(va[3], ob[2])
        BY <1>8, <2>2, <2>3, <3>1
      <3>4. /\ Gives(First(instr, 1)) = Mul(va[3], ob[1]) /\ Gives(Second(instr, 1)) = Mul(va[1], ob[3])
        BY <1>8, <2>2, <2>3, <3>1
      <3>5. /\ Gives(First(instr, 2)) = Mul(va[1], ob[2]) /\ Gives(Second(instr, 2)) = Mul(va[2], ob[1])
        BY <1>8, <2>2, <2>3, <3>1
      <3> QED BY <3>2, <3>3, <3>4, <3>5
    <2>5. result = CROSS(va, ob)
      BY <1>11 DEF Instr, Emulated, EmulatedOps, ArithmeticOps
    <2>6. CROSS(va, ob) = [j \in 1 .. 3 |-> CROSS(va, ob)[j]]
      BY DEF CROSS
    <2>7. /\ CROSS(va, ob)[1] = Sub(Mul(va[2], ob[3]), Mul(va[3], ob[2]))
          /\ CROSS(va, ob)[2] = Sub(Mul(va[3], ob[1]), Mul(va[1], ob[3]))
          /\ CROSS(va, ob)[3] = Sub(Mul(va[1], ob[2]), Mul(va[2], ob[1]))
      <3>1. /\ (1 % 3) + 1 = 2 /\ ((1 + 1) % 3) + 1 = 3 /\ (2 % 3) + 1 = 3 /\ ((2 + 1) % 3) + 1 = 1
            /\ (3 % 3) + 1 = 1 /\ ((3 + 1) % 3) + 1 = 2
        OBVIOUS
      <3>2. \A j \in 1 .. 3 : CROSS(va, ob)[j] =
               Sub(Mul(va[(j % 3) + 1], ob[((j + 1) % 3) + 1]), Mul(va[((j + 1) % 3) + 1], ob[(j % 3) + 1]))
        BY DEF CROSS
      <3> QED BY <3>1, <3>2
    <2> HIDE DEF result
    <2>8. VectorAt(words, 1) = CROSS(va, ob)
      BY <1>7, <2>4, <2>6, <2>7, ThreeComponents
    <2> QED BY <1>4, <2>5, <2>8
  <1>12. CASE op # "CROSS"
    <2> DEFINE second(j) == before[instr.b + Stride(op) * j]
    <2>1. \A j \in 0 .. 2 : instr.a + j \in 1 .. 15 /\ instr.b + Stride(op) * j \in 1 .. 15
      BY <1>6 DEF Stride
    <2>2. \A j \in 0 .. 2 : words[1 + j] = BitXor(before[instr.a + j], second(j))
      <3>1. ASSUME NEW j \in 0 .. 2 PROVE words[1 + j] = BitXor(before[instr.a + j], second(j))
        <4>1. /\ Gives(First(instr, j)) = BitOr(before[instr.a + j], second(j))
              /\ Gives(Second(instr, j)) = BitAnd(before[instr.a + j], second(j))
          BY <1>9, <1>12 DEF First, Second, Gives, Statement
        <4>2. before[instr.a + j] \in Wholes /\ second(j) \in Wholes
          BY <1>10, <2>1
        <4> HIDE DEF second
        <4> QED BY <1>5, <4>1, <4>2, OneLessTheOther
      <3> QED BY <3>1
    <2>3. words[1] = BitXor(va[1], second(0)) /\ words[2] = BitXor(va[2], second(1))
          /\ words[3] = BitXor(va[3], second(2))
      <3>1. /\ words[1 + 0] = BitXor(before[instr.a + 0], second(0))
            /\ words[1 + 1] = BitXor(before[instr.a + 1], second(1))
            /\ words[1 + 2] = BitXor(before[instr.a + 2], second(2))
        <4> HIDE DEF second
        <4> QED BY <2>2
      <3>2. instr.a + 0 = instr.a
        BY <1>6
      <3> HIDE DEF second
      <3> QED BY <1>8, <3>1, <3>2
    <2>4. CASE op = "BITXOR_V"
      <3>1. ob = VectorAt(before, instr.b)
        BY <2>4 DEF OperandOf, Floats
      <3>2. second(0) = ob[1] /\ second(1) = ob[2] /\ second(2) = ob[3]
        <4>1. /\ instr.b + Stride(op) * 0 = instr.b /\ instr.b + Stride(op) * 1 = instr.b + 1
              /\ instr.b + Stride(op) * 2 = instr.b + 2
          BY <1>6, <2>4 DEF Stride
        <4>2. ob[1] = before[instr.b] /\ ob[2] = before[instr.b + 1] /\ ob[3] = before[instr.b + 2]
          BY <3>1 DEF VectorAt
        <4> QED BY <4>1, <4>2
      <3> HIDE DEF ob, second
      <3>3. result = [k \in 1 .. 3 |-> BitXor(va[k], ob[k])]
        BY <2>4 DEF Instr, Emulated, EmulatedOps, ArithmeticOps, Each
      <3> QED BY <1>4, <1>7, <2>3, <3>2, <3>3
    <2>5. CASE op = "BITXOR_VF"
      <3>1. ob = before[instr.b]
        BY <2>5 DEF OperandOf, Floats
      <3>2. second(0) = ob /\ second(1) = ob /\ second(2) = ob
        BY <1>6, <2>5, <3>1 DEF Stride
      <3> HIDE DEF ob, second
      <3>3. result = [k \in 1 .. 3 |-> BitXor(va[k], ob)]
        BY <2>5 DEF Instr, Emulated, EmulatedOps, ArithmeticOps, EachOf
      <3> QED BY <1>4, <1>7, <2>3, <3>2, <3>3
    <2> QED BY <1>12, <2>4, <2>5 DEF ByHalves
  <1> QED BY <1>11, <1>12

(* And the one.                                                            *)
LEMMA ExclusiveOrResult ==
    ASSUME EmulationInv, instr.op = "BITXOR"
    PROVE  ResultOfOperands
  <1>1. Len(statements(instr)) = 3
    BY ExclusiveOrIs
  <1>2. pc \in 1 .. 4
    BY DEF EmulationInv, ExclusiveOrInv
  <1>3. pc = 4 => /\ words[instr.r] = Sub(BitOr(before[instr.a], before[instr.b]),
                                          BitAnd(before[instr.a], before[instr.b]))
                  /\ \A k \in 1 .. 9 : k # instr.r => words[k] = before[k]
    BY DEF EmulationInv, ExclusiveOrInv
  <1>4. OperandOf(1, instr.a) = before[instr.a] /\ OperandOf(2, instr.b) = before[instr.b]
    BY DEF OperandOf, Floats
  <1>5. \A x, y : Instr("BITXOR", x, y) = Sub(BitOr(x, y), BitAnd(x, y))
    BY DEF Instr, Emulated, EmulatedOps, ArithmeticOps
  <1> QED BY <1>1, <1>2, <1>3, <1>4, <1>5 DEF ResultOfOperands

(* An emulated operation gives what its operands had before it, wherever   *)
(* its result is put and whatever is in memory: operands that are read     *)
(* again after a word of the result was written are not where that word    *)
(* is, or give the same once more.  With results that the peephole pass    *)
(* puts over all of another vector operand it is not so.                   *)
THEOREM ResultAlwaysOfOperands == ~JoinsOverlapping => (EmulationSpec => []ResultOfOperands)
  <1> SUFFICES ASSUME ~JoinsOverlapping PROVE EmulationSpec => []ResultOfOperands
    OBVIOUS
  <1>1. EmulationInit => EmulationInv
    BY EmulationInitInv
  <1>2. EmulationInv /\ [EmulationNext]_emulationVars => EmulationInv'
    BY EmulationNextInv
  <1>3. EmulationInv => ResultOfOperands
    <2>1. EmulationInv => instr.op \in EmulatedOps
      BY DEF EmulationInv, EmulationTypeOK
    <2> QED BY <2>1, Families, AtOnceResult, HalvesResult, ExclusiveOrResult
  <1> QED BY <1>1, <1>2, <1>3, PTL DEF EmulationSpec
=============================================================================
