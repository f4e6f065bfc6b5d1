--------------------------- MODULE LifeRangesProofs ---------------------------
(***************************************************************************)
(* Proofs about the compiler's life ranges, for any number of instruction  *)
(* ids: adding an id and merging another value's ranges keep the ranges in *)
(* order and apart, and lose and invent no id; and two values overlap for  *)
(* the compiler exactly when their ranges do.                              *)
(***************************************************************************)
EXTENDS LifeRanges, FiniteSetTheorems, SequenceTheorems, WellFoundedInduction, TLAPS

Gap(life, k) == life[k].end + 1 < life[k + 1].start

(* What comes before the entry mergeLife looks at is done: it ends before  *)
(* the range that is merged starts.                                        *)
BehindIsDone == Merging /\ myi > 1 => mine[myi - 1].end + 1 < other[oi].start

(* The entry has taken the range in, or the range lies behind it.          *)
TakenIn == mine[myi].start <= other[oi].start /\ other[oi].end <= mine[myi].end
Behind == /\ mine[myi].end + 1 < other[oi].start
          /\ myi < Len(mine) => Gap(mine, myi)

(* While the entry absorbs its successors only the two may touch.          *)
Absorbing == /\ \A k \in DOMAIN mine : mine[k].start <= mine[k].end
             /\ \A k \in 1 .. Len(mine) - 1 : k # myi => Gap(mine, k)
             /\ myi < Len(mine) => mine[myi].start <= mine[myi + 1].start
             /\ TakenIn \/ Behind

IInv == /\ RangesTypeOK
        /\ Normal(other)
        /\ merge # "absorb" => Normal(mine)
        /\ BehindIsDone
        /\ merge = "absorb" => Absorbing
        /\ KeepsEveryId
-----------------------------------------------------------------------------
LEMMA LifeRangeFacts ==
    /\ \A r \in LifeRange : r.start \in Id /\ r.end \in Id
    /\ Id \subseteq Nat
  BY MaxIdAssumption DEF LifeRange, Id, MaxIdAssumption

LEMMA Elements ==
    ASSUME NEW life \in Seq(LifeRange)
    PROVE  /\ Len(life) \in Nat /\ DOMAIN life = 1 .. Len(life)
           /\ \A k \in 1 .. Len(life) : /\ life[k] \in LifeRange
                                       /\ life[k].start \in Id /\ life[k].start \in Nat
                                       /\ life[k].end \in Id /\ life[k].end \in Nat
  <1>1. Len(life) \in Nat /\ DOMAIN life = 1 .. Len(life)
    OBVIOUS
  <1>2. \A k \in 1 .. Len(life) : life[k] \in LifeRange
    OBVIOUS
  <1> QED BY <1>1, <1>2, LifeRangeFacts

(* An entry is put in, or taken out: what is behind it moves.              *)
LEMMA InsertAtProperties ==
    ASSUME NEW s \in Seq(LifeRange), NEW i \in 1 .. Len(s) + 1, NEW e \in LifeRange
    PROVE  /\ InsertAt(s, i, e) \in Seq(LifeRange) /\ Len(InsertAt(s, i, e)) = Len(s) + 1
           /\ \A k \in 1 .. Len(s) + 1 :
                 InsertAt(s, i, e)[k] = IF k < i THEN s[k] ELSE IF k = i THEN e ELSE s[k - 1]
  <1> DEFINE n == Len(s)
             h == SubSeq(s, 1, i - 1)
             t == SubSeq(s, i, n)
  <1>1. n \in Nat /\ i \in Nat /\ 1 <= i /\ i <= n + 1 /\ \A k \in 1 .. n : s[k] \in LifeRange
    OBVIOUS
  <1>2. InsertAt(s, i, e) = (h \o <<e>>) \o t
    BY DEF InsertAt
  <1>3. h \in Seq(LifeRange) /\ Len(h) = i - 1 /\ \A k \in 1 .. i - 1 : h[k] = s[k]
    <2>1. 1 \in Int /\ i - 1 \in Int /\ \A k \in 1 .. i - 1 : s[k] \in LifeRange
      BY <1>1
    <2>2. /\ h \in Seq(LifeRange) /\ Len(h) = (IF 1 <= i - 1 THEN (i - 1) - 1 + 1 ELSE 0)
          /\ \A k \in 1 .. (i - 1) - 1 + 1 : h[k] = s[1 + k - 1]
      BY <2>1, SubSeqProperties
    <2> HIDE DEF h
    <2> QED BY <1>1, <2>2
  <1>4. t \in Seq(LifeRange) /\ Len(t) = n - i + 1 /\ \A k \in 1 .. n - i + 1 : t[k] = s[i + k - 1]
    <2>1. i \in Int /\ n \in Int /\ \A k \in i .. n : s[k] \in LifeRange
      BY <1>1
    <2>2. /\ t \in Seq(LifeRange) /\ Len(t) = (IF i <= n THEN n - i + 1 ELSE 0)
          /\ \A k \in 1 .. n - i + 1 : t[k] = s[i + k - 1]
      BY <2>1, SubSeqProperties
    <2> HIDE DEF t
    <2> QED BY <1>1, <2>2
  <1> HIDE DEF h, t, n
  <1>5. /\ h \o <<e>> \in Seq(LifeRange) /\ Len(h \o <<e>>) = i
        /\ \A k \in 1 .. i : (h \o <<e>>)[k] = IF k < i THEN s[k] ELSE e
    <2>1. <<e>> \in Seq(LifeRange) /\ Len(<<e>>) = 1 /\ <<e>>[1] = e
      OBVIOUS
    <2>2. /\ h \o <<e>> \in Seq(LifeRange) /\ Len(h \o <<e>>) = (i - 1) + 1
          /\ \A k \in 1 .. (i - 1) + 1 :
                (h \o <<e>>)[k] = IF k <= i - 1 THEN h[k] ELSE <<e>>[k - (i - 1)]
      BY <1>3, <2>1, ConcatProperties
    <2>3. \A k \in 1 .. i : (h \o <<e>>)[k] = IF k < i THEN s[k] ELSE e
      <3> TAKE k \in 1 .. i
      <3>1. k \in 1 .. (i - 1) + 1 /\ (k <= i - 1 <=> k < i) /\ (~(k < i) => k - (i - 1) = 1)
        BY <1>1
      <3> QED BY <1>3, <2>1, <2>2, <3>1
    <2> QED BY <1>1, <2>2, <2>3
  <1> DEFINE f == h \o <<e>>
  <1> HIDE DEF f
  <1>6. /\ f \o t \in Seq(LifeRange) /\ Len(f \o t) = i + (n - i + 1)
        /\ \A k \in 1 .. i + (n - i + 1) : (f \o t)[k] = IF k <= i THEN f[k] ELSE t[k - i]
    <2>1. f \in Seq(LifeRange) /\ Len(f) = i
      BY <1>5 DEF f
    <2>2. /\ f \o t \in Seq(LifeRange) /\ Len(f \o t) = Len(f) + Len(t)
          /\ \A k \in 1 .. Len(f) + Len(t) :
                (f \o t)[k] = IF k <= Len(f) THEN f[k] ELSE t[k - Len(f)]
      BY <1>4, <2>1, ConcatProperties
    <2> QED BY <1>4, <2>1, <2>2
  <1>7. \A k \in 1 .. n + 1 : (f \o t)[k] = IF k < i THEN s[k] ELSE IF k = i THEN e ELSE s[k - 1]
    <2> TAKE k \in 1 .. n + 1
    <2>1. k \in 1 .. i + (n - i + 1)
      BY <1>1
    <2>2. CASE k <= i
      BY <1>1, <1>5, <1>6, <2>1, <2>2 DEF f
    <2>3. CASE ~(k <= i)
      <3>1. k - i \in 1 .. n - i + 1 /\ i + (k - i) - 1 = k - 1
        BY <1>1, <2>3
      <3> QED BY <1>1, <1>4, <1>6, <2>1, <2>3, <3>1
    <2> QED BY <2>2, <2>3
  <1>8. i + (n - i + 1) = n + 1
    BY <1>1
  <1> QED BY <1>2, <1>6, <1>7, <1>8 DEF f, n

LEMMA RemoveAtProperties ==
    ASSUME NEW s \in Seq(LifeRange), NEW i \in 1 .. Len(s)
    PROVE  /\ RemoveAt(s, i) \in Seq(LifeRange) /\ Len(RemoveAt(s, i)) = Len(s) - 1
           /\ \A k \in 1 .. Len(s) - 1 : RemoveAt(s, i)[k] = IF k < i THEN s[k] ELSE s[k + 1]
  <1> DEFINE n == Len(s)
             h == SubSeq(s, 1, i - 1)
             t == SubSeq(s, i + 1, n)
  <1>1. n \in Nat /\ i \in Nat /\ 1 <= i /\ i <= n /\ \A k \in 1 .. n : s[k] \in LifeRange
    OBVIOUS
  <1>2. RemoveAt(s, i) = h \o t
    BY DEF RemoveAt
  <1>3. h \in Seq(LifeRange) /\ Len(h) = i - 1 /\ \A k \in 1 .. i - 1 : h[k] = s[k]
    <2>1. 1 \in Int /\ i - 1 \in Int /\ \A k \in 1 .. i - 1 : s[k] \in LifeRange
      BY <1>1
    <2>2. /\ h \in Seq(LifeRange) /\ Len(h) = (IF 1 <= i - 1 THEN (i - 1) - 1 + 1 ELSE 0)
          /\ \A k \in 1 .. (i - 1) - 1 + 1 : h[k] = s[1 + k - 1]
      BY <2>1, SubSeqProperties
    <2> HIDE DEF h
    <2> QED BY <1>1, <2>2
  <1>4. t \in Seq(LifeRange) /\ Len(t) = n - i /\ \A k \in 1 .. n - i : t[k] = s[i + k]
    <2>1. i + 1 \in Int /\ n \in Int /\ \A k \in i + 1 .. n : s[k] \in LifeRange
      BY <1>1
    <2>2. /\ t \in Seq(LifeRange) /\ Len(t) = (IF i + 1 <= n THEN n - (i + 1) + 1 ELSE 0)
          /\ \A k \in 1 .. n - (i + 1) + 1 : t[k] = s[(i + 1) + k - 1]
      BY <2>1, SubSeqProperties
    <2> HIDE DEF t
    <2>3. ASSUME NEW k \in 1 .. n - i PROVE t[k] = s[i + k]
      <3>1. k \in 1 .. n - (i + 1) + 1 /\ (i + 1) + k - 1 = i + k
        BY <1>1
      <3> QED BY <2>2, <3>1
    <2> QED BY <1>1, <2>2, <2>3
  <1> HIDE DEF h, t, n
  <1>5. /\ h \o t \in Seq(LifeRange) /\ Len(h \o t) = (i - 1) + (n - i)
        /\ \A k \in 1 .. (i - 1) + (n - i) :
              (h \o t)[k] = IF k <= i - 1 THEN h[k] ELSE t[k - (i - 1)]
    <2>1. /\ h \o t \in Seq(LifeRange) /\ Len(h \o t) = Len(h) + Len(t)
          /\ \A k \in 1 .. Len(h) + Len(t) :
                (h \o t)[k] = IF k <= Len(h) THEN h[k] ELSE t[k - Len(h)]
      BY <1>3, <1>4, ConcatProperties
    <2> QED BY <1>3, <1>4, <2>1
  <1>6. \A k \in 1 .. n - 1 : (h \o t)[k] = IF k < i THEN s[k] ELSE s[k + 1]
    <2> TAKE k \in 1 .. n - 1
    <2>1. k \in 1 .. (i - 1) + (n - i) /\ (k <= i - 1 <=> k < i)
      BY <1>1
    <2>2. CASE k < i
      <3>1. k \in 1 .. i - 1
        BY <1>1, <2>2
      <3> QED BY <1>3, <1>5, <2>1, <2>2, <3>1
    <2>3. CASE ~(k < i)
      <3>1. k - (i - 1) \in 1 .. n - i /\ i + (k - (i - 1)) = k + 1
        BY <1>1, <2>3
      <3> QED BY <1>4, <1>5, <2>1, <2>3, <3>1
    <2> QED BY <2>2, <2>3
  <1>7. (i - 1) + (n - i) = n - 1
    BY <1>1
  <1> QED BY <1>2, <1>5, <1>6, <1>7 DEF n
-----------------------------------------------------------------------------
(* What an operation does to the ids.                                      *)
LEMMA IdsMembers ==
    ASSUME NEW life \in Seq(LifeRange), NEW i
    PROVE  i \in Ids(life) <=> \E k \in 1 .. Len(life) : i \in life[k].start .. life[k].end
  BY Elements DEF Ids

LEMMA IdsInserted ==
    ASSUME NEW life \in Seq(LifeRange), NEW k \in 1 .. Len(life) + 1, NEW r \in LifeRange
    PROVE  Ids(InsertAt(life, k, r)) = Ids(life) \cup (r.start .. r.end)
  <1> DEFINE new == InsertAt(life, k, r)
             n == Len(life)
  <1>1. /\ new \in Seq(LifeRange) /\ Len(new) = n + 1
        /\ \A m \in 1 .. n + 1 : new[m] = IF m < k THEN life[m] ELSE IF m = k THEN r ELSE life[m - 1]
    <2>1. new \in Seq(LifeRange) /\ Len(new) = n + 1
      BY InsertAtProperties
    <2>2. ASSUME NEW m \in 1 .. n + 1
          PROVE  new[m] = IF m < k THEN life[m] ELSE IF m = k THEN r ELSE life[m - 1]
      BY InsertAtProperties
    <2> QED BY <2>1, <2>2
  <1>2. n \in Nat /\ k \in 1 .. n + 1
    BY Elements
  <1> HIDE DEF new, n
  <1>3. ASSUME NEW i \in Ids(new) PROVE i \in Ids(life) \cup (r.start .. r.end)
    <2>1. PICK m \in 1 .. n + 1 : i \in new[m].start .. new[m].end
      BY <1>1, IdsMembers
    <2>2. CASE m = k
      BY <1>1, <1>2, <2>1, <2>2
    <2>3. CASE m < k
      <3>1. m \in 1 .. n /\ new[m] = life[m]
        BY <1>1, <1>2, <2>3
      <3> QED BY <2>1, <3>1, IdsMembers DEF n
    <2>4. CASE m > k
      <3>1. m - 1 \in 1 .. n /\ new[m] = life[m - 1]
        BY <1>1, <1>2, <2>4
      <3> QED BY <2>1, <3>1, IdsMembers DEF n
    <2> QED BY <1>2, <2>2, <2>3, <2>4
  <1>4. ASSUME NEW i \in r.start .. r.end PROVE i \in Ids(new)
    <2>1. new[k] = r
      BY <1>1, <1>2
    <2> QED BY <1>1, <1>2, <2>1, IdsMembers
  <1>5. ASSUME NEW i \in Ids(life) PROVE i \in Ids(new)
    <2>1. PICK m \in 1 .. n : i \in life[m].start .. life[m].end
      BY IdsMembers DEF n
    <2>2. CASE m < k
      <3>1. m \in 1 .. n + 1 /\ new[m] = life[m]
        BY <1>1, <1>2, <2>2
      <3> QED BY <1>1, <2>1, <3>1, IdsMembers
    <2>3. CASE m >= k
      <3>1. m + 1 \in 1 .. n + 1 /\ new[m + 1] = life[(m + 1) - 1] /\ (m + 1) - 1 = m
        BY <1>1, <1>2, <2>3
      <3> QED BY <1>1, <2>1, <3>1, IdsMembers
    <2> QED BY <1>2, <2>2, <2>3
  <1> QED BY <1>3, <1>4, <1>5 DEF new

LEMMA IdsWidened ==
    ASSUME NEW life \in Seq(LifeRange), NEW k \in 1 .. Len(life), NEW r \in LifeRange,
           r.start <= life[k].start, life[k].end <= r.end
    PROVE  Ids([life EXCEPT ![k] = r]) = Ids(life) \cup (r.start .. r.end)
  <1> DEFINE new == [life EXCEPT ![k] = r]
             n == Len(life)
  <1>1. /\ new \in Seq(LifeRange) /\ Len(new) = n
        /\ \A m \in 1 .. n : new[m] = IF m = k THEN r ELSE life[m]
    BY ExceptSeq
  <1>2. life[k].start .. life[k].end \subseteq r.start .. r.end
    <2>1. /\ life[k].start \in Nat /\ life[k].end \in Nat
          /\ r.start \in Nat /\ r.end \in Nat
      BY Elements, LifeRangeFacts
    <2> QED BY <2>1
  <1> HIDE DEF new
  <1>3. ASSUME NEW i \in Ids(new) PROVE i \in Ids(life) \cup (r.start .. r.end)
    <2>1. PICK m \in 1 .. n : i \in new[m].start .. new[m].end
      BY <1>1, IdsMembers
    <2> QED BY <1>1, <2>1, IdsMembers
  <1>4. ASSUME NEW i \in r.start .. r.end PROVE i \in Ids(new)
    <2>1. k \in 1 .. n /\ new[k] = r
      BY <1>1
    <2> QED BY <1>1, <2>1, IdsMembers
  <1>5. ASSUME NEW i \in Ids(life) PROVE i \in Ids(new)
    <2>1. PICK m \in 1 .. n : i \in life[m].start .. life[m].end
      BY IdsMembers
    <2>2. i \in new[m].start .. new[m].end
      BY <1>1, <1>2, <2>1
    <2> QED BY <1>1, <2>2, IdsMembers
  <1> QED BY <1>3, <1>4, <1>5 DEF new

(* An entry that lies inside another one is taken out: no id is lost.      *)
LEMMA IdsRemoved ==
    ASSUME NEW life \in Seq(LifeRange), NEW k \in 1 .. Len(life), NEW l \in 1 .. Len(life),
           l # k, life[k].start .. life[k].end \subseteq life[l].start .. life[l].end
    PROVE  Ids(RemoveAt(life, k)) = Ids(life)
  <1> DEFINE new == RemoveAt(life, k)
             n == Len(life)
  <1>1. /\ new \in Seq(LifeRange) /\ Len(new) = n - 1
        /\ \A m \in 1 .. n - 1 : new[m] = IF m < k THEN life[m] ELSE life[m + 1]
    BY RemoveAtProperties
  <1>2. n \in Nat /\ k \in 1 .. n /\ l \in 1 .. n
    BY Elements
  <1> HIDE DEF new, n
  <1>3. ASSUME NEW i \in Ids(new) PROVE i \in Ids(life)
    <2>1. PICK m \in 1 .. n - 1 : i \in new[m].start .. new[m].end
      BY <1>1, IdsMembers
    <2>2. m \in 1 .. n /\ m + 1 \in 1 .. n
      BY <1>2
    <2> QED BY <1>1, <2>1, <2>2, IdsMembers DEF n
  <1>4. ASSUME NEW m \in 1 .. n, m # k, NEW i \in life[m].start .. life[m].end
        PROVE  i \in Ids(new)
    <2>1. CASE m < k
      <3>1. m \in 1 .. n - 1 /\ new[m] = life[m]
        BY <1>1, <1>2, <2>1
      <3> QED BY <1>1, <1>4, <3>1, IdsMembers
    <2>2. CASE m > k
      <3>1. m - 1 \in 1 .. n - 1 /\ new[m - 1] = life[(m - 1) + 1] /\ (m - 1) + 1 = m
        BY <1>1, <1>2, <2>2
      <3> QED BY <1>1, <1>4, <3>1, IdsMembers
    <2> QED BY <1>2, <1>4, <2>1, <2>2
  <1>5. ASSUME NEW i \in Ids(life) PROVE i \in Ids(new)
    <2>1. PICK m \in 1 .. n : i \in life[m].start .. life[m].end
      BY IdsMembers DEF n
    <2>2. CASE m = k
      <3>1. i \in life[l].start .. life[l].end
        BY <2>1, <2>2
      <3> QED BY <1>2, <1>4, <3>1
    <2> QED BY <1>4, <2>1, <2>2
  <1> QED BY <1>3, <1>5 DEF new
-----------------------------------------------------------------------------
(* A range that touches neither neighbour is put between them.             *)
LEMMA InsertedNormal ==
    ASSUME NEW life \in Seq(LifeRange), Normal(life),
           NEW k \in 1 .. Len(life) + 1, NEW r \in LifeRange, r.start <= r.end,
           k <= Len(life) => r.end + 1 < life[k].start,
           k > 1 => life[k - 1].end + 1 < r.start
    PROVE  InsertAt(life, k, r) \in Seq(LifeRange) /\ Normal(InsertAt(life, k, r))
  <1> DEFINE n == Len(life)
             new == InsertAt(life, k, r)
  <1>1. n \in Nat /\ k \in 1 .. n + 1
    BY Elements
  <1>2. /\ \A j \in 1 .. n : life[j].start <= life[j].end
        /\ \A j \in 1 .. n - 1 : life[j].end + 1 < life[j + 1].start
    BY Elements DEF Normal
  <1>3. /\ new \in Seq(LifeRange) /\ Len(new) = n + 1
        /\ \A m \in 1 .. n + 1 : new[m] = IF m < k THEN life[m] ELSE IF m = k THEN r ELSE life[m - 1]
    BY InsertAtProperties
  <1>4. DOMAIN new = 1 .. n + 1
    BY <1>3, Elements
  <1> HIDE DEF new
  <1>5. \A j \in 1 .. n + 1 : new[j].start <= new[j].end
    <2> TAKE j \in 1 .. n + 1
    <2>1. CASE j = k
      BY <1>3, <2>1
    <2>2. CASE j < k
      <3>1. j \in 1 .. n
        BY <1>1, <2>2
      <3> QED BY <1>2, <1>3, <2>2, <3>1
    <2>3. CASE j > k
      <3>1. j - 1 \in 1 .. n /\ ~(j < k) /\ j # k
        BY <1>1, <2>3
      <3> QED BY <1>2, <1>3, <3>1
    <2> QED BY <1>1, <2>1, <2>2, <2>3
  <1>6. \A j \in 1 .. n : new[j].end + 1 < new[j + 1].start
    <2> TAKE j \in 1 .. n
    <2>1. j \in 1 .. n + 1 /\ j + 1 \in 1 .. n + 1 /\ (j + 1) - 1 = j
      BY <1>1
    <2>2. CASE j + 1 < k
      <3>1. j \in 1 .. n - 1 /\ new[j] = life[j] /\ new[j + 1] = life[j + 1]
        BY <1>1, <1>3, <2>1, <2>2
      <3> QED BY <1>2, <3>1
    <2>3. CASE j + 1 = k
      <3>1. k > 1 /\ k - 1 = j /\ new[j] = life[j] /\ new[j + 1] = r
        BY <1>1, <1>3, <2>1, <2>3
      <3> QED BY <3>1
    <2>4. CASE j = k
      <3>1. k <= n /\ new[j] = r /\ new[j + 1] = life[j]
        BY <1>1, <1>3, <2>1, <2>4
      <3> QED BY <2>4, <3>1
    <2>5. CASE j > k
      <3>1. /\ j - 1 \in 1 .. n - 1 /\ (j - 1) + 1 = j
            /\ new[j] = life[j - 1] /\ new[j + 1] = life[j]
        BY <1>1, <1>3, <2>1, <2>5
      <3>2. life[j - 1].end + 1 < life[(j - 1) + 1].start
        BY <1>2, <3>1
      <3> QED BY <3>1, <3>2
    <2> QED BY <1>1, <2>2, <2>3, <2>4, <2>5
  <1>7. (n + 1) - 1 = n
    BY <1>1
  <1> QED BY <1>3, <1>4, <1>5, <1>6, <1>7 DEF new, Normal

(* setAlive finds the first range that starts after s.                     *)
LEMMA FirstAfterExists ==
    ASSUME NEW life \in Seq(LifeRange), NEW s \in Id
    PROVE  LET k == FirstAfter(life, s) IN
           /\ k \in 1 .. Len(life) + 1
           /\ \A j \in 1 .. k - 1 : life[j].start <= s
           /\ k <= Len(life) => life[k].start > s
  <1> DEFINE n == Len(life)
             T == {k \in 1 .. n + 1 : k <= n => life[k].start > s}
             R == OpToRel(<, Nat)
  <1>1. n \in Nat /\ (\A k \in 1 .. n : life[k].start \in Nat) /\ s \in Nat
    BY Elements, LifeRangeFacts
  <1>2. T \subseteq Nat /\ n + 1 \in T
    BY <1>1
  <1>3. PICK k \in T : \A j \in T : ~ (<<j, k>> \in R)
    <2>1. IsWellFoundedOn(R, Nat)
      BY NatLessThanWellFounded
    <2> HIDE DEF T, R
    <2> QED BY <1>2, <2>1, WFMin
  <1>4. \A j \in T : ~ (j < k)
    BY <1>2, <1>3 DEF OpToRel
  <1>5. \A j \in 1 .. k - 1 : life[j].start <= s
    <2> TAKE j \in 1 .. k - 1
    <2>1. j \in 1 .. n /\ j < k
      BY <1>1
    <2>2. j \notin T
      BY <1>4, <2>1
    <2> QED BY <1>1, <2>1, <2>2
  <1> DEFINE First(m) == /\ \A j \in 1 .. m - 1 : life[j].start <= s
                         /\ m <= Len(life) => life[m].start > s
  <1>6. k \in 1 .. Len(life) + 1 /\ First(k)
    BY <1>5
  <1>7. FirstAfter(life, s) = CHOOSE m \in 1 .. Len(life) + 1 : First(m)
    BY DEF FirstAfter
  <1> HIDE DEF First, T
  <1>8. FirstAfter(life, s) \in 1 .. Len(life) + 1 /\ First(FirstAfter(life, s))
    BY <1>6, <1>7, Zenon
  <1> QED BY <1>8 DEF First

(* setAlive: the ranges stay in order and apart, and s is the one new id.  *)
LEMMA SetAliveProperties ==
    ASSUME NEW life \in Seq(LifeRange), Normal(life), NEW s \in Id
    PROVE  /\ SetAlive(life, s) \in Seq(LifeRange)
           /\ Normal(SetAlive(life, s))
           /\ Ids(SetAlive(life, s)) = Ids(life) \cup {s}
  <1> DEFINE k == FirstAfter(life, s)
             n == Len(life)
             new == SetAlive(life, s)
  <1>1. /\ k \in 1 .. n + 1
        /\ \A j \in 1 .. k - 1 : life[j].start <= s
        /\ k <= n => life[k].start > s
    BY FirstAfterExists
  <1>2. /\ n \in Nat /\ s \in Nat
        /\ \A j \in 1 .. n : /\ life[j] \in LifeRange
                            /\ life[j].start \in Nat /\ life[j].end \in Nat
                            /\ life[j].start \in Id /\ life[j].end \in Id
    BY Elements, LifeRangeFacts
  <1>3. /\ \A j \in 1 .. n : life[j].start <= life[j].end
        /\ \A j \in 1 .. n - 1 : life[j].end + 1 < life[j + 1].start
    BY Elements DEF Normal
  <1>4. \A x \in Id, y \in Id : [start |-> x, end |-> y] \in LifeRange
    BY DEF LifeRange
  <1>5. k > 1 => k - 1 \in 1 .. n /\ life[k - 1].start <= s
    BY <1>1, <1>2
  <1>6. \A i \in s .. s : i = s
    BY <1>2
  <1>7. new = CASE Contained(life, k, s) -> life
              [] TouchesBefore(life, k, s) /\ TouchesAfter(life, k, s) ->
                    RemoveAt([life EXCEPT ![k - 1].end = life[k].end], k)
              [] TouchesBefore(life, k, s) /\ ~TouchesAfter(life, k, s) ->
                    [life EXCEPT ![k - 1].end = s]
              [] TouchesAfter(life, k, s) /\ ~TouchesBefore(life, k, s) ->
                    [life EXCEPT ![k].start = s]
              [] OTHER -> InsertAt(life, k, Interval(s, s))
    BY DEF SetAlive
  <1> HIDE DEF k, new
  <1>8. CASE Contained(life, k, s)
    <2>1. ~TouchesBefore(life, k, s)
      BY <1>2, <1>5, <1>8 DEF Contained, TouchesBefore
    <2>2. ~TouchesAfter(life, k, s)
      <3> SUFFICES ASSUME TouchesAfter(life, k, s) PROVE FALSE
        OBVIOUS
      <3>1. k \in 1 .. n /\ k - 1 \in 1 .. n - 1 /\ (k - 1) + 1 = k /\ life[k].start = s + 1
        BY <1>1, <1>2, <1>5, <1>8 DEF Contained, TouchesAfter
      <3>2. life[k - 1].end + 1 < s + 1 /\ life[k - 1].end \in Nat
        BY <1>2, <1>3, <1>5, <3>1
      <3> QED BY <1>2, <1>8, <3>2 DEF Contained
    <2>3. new = life
      BY <1>7, <1>8, <2>1, <2>2
    <2>4. s \in Ids(life)
      <3>1. k - 1 \in 1 .. n /\ s \in life[k - 1].start .. life[k - 1].end
        BY <1>2, <1>5, <1>8 DEF Contained
      <3> QED BY <3>1, IdsMembers
    <2> QED BY <2>3, <2>4 DEF new
  <1>9. CASE ~Contained(life, k, s) /\ TouchesBefore(life, k, s) /\ TouchesAfter(life, k, s)
    <2> DEFINE r == [start |-> life[k - 1].start, end |-> life[k].end]
               wide == [life EXCEPT ![k - 1] = r]
    <2>1. /\ k \in 1 .. n /\ k - 1 \in 1 .. n - 1 /\ k - 1 \in 1 .. n /\ (k - 1) + 1 = k
          /\ life[k].start = s + 1 /\ life[k - 1].end + 1 = s
      <3>1. k > 1 /\ life[k - 1].end + 1 = s
        BY <1>9 DEF TouchesBefore
      <3>2. k <= n /\ life[k].start - 1 = s
        BY <1>9 DEF TouchesAfter
      <3>3. k \in 1 .. n /\ k - 1 \in 1 .. n - 1 /\ k - 1 \in 1 .. n /\ (k - 1) + 1 = k
        BY <1>1, <1>2, <3>1, <3>2
      <3>4. life[k].start \in Nat
        BY <1>2, <3>3
      <3> QED BY <1>2, <3>1, <3>2, <3>3, <3>4
    <2>2. r \in LifeRange /\ [life[k - 1] EXCEPT !.end = life[k].end] = r
      <3>1. r \in LifeRange
        BY <1>2, <1>4, <2>1
      <3>2. life[k - 1] = [start |-> life[k - 1].start, end |-> life[k - 1].end]
        BY <1>2, <2>1 DEF LifeRange
      <3> QED BY <3>1, <3>2
    <2>3. new = RemoveAt(wide, k)
      BY <1>7, <1>9, <2>2
    <2>4. /\ wide \in Seq(LifeRange) /\ Len(wide) = n
          /\ \A j \in 1 .. n : wide[j] = IF j = k - 1 THEN r ELSE life[j]
      BY <2>1, <2>2, ExceptSeq
    <2>5. r.start = life[k - 1].start /\ r.end = life[k].end /\ life[k - 1].end <= r.end
      BY <1>2, <1>3, <2>1
    <2>6. Ids(wide) = Ids(life) \cup (r.start .. r.end)
      <3>1. r.start <= life[k - 1].start
        BY <1>2, <2>1, <2>5
      <3> HIDE DEF r
      <3> QED BY <2>1, <2>2, <2>5, <3>1, IdsWidened
    <2> HIDE DEF wide, r
    <2>7. wide[k - 1] = r /\ wide[k] = life[k]
      BY <2>1, <2>4
    <2>8. Ids(new) = Ids(wide)
      <3>1. wide[k].start .. wide[k].end \subseteq wide[k - 1].start .. wide[k - 1].end
        <4>1. /\ life[k - 1].start \in Nat /\ life[k - 1].end \in Nat
              /\ life[k].start \in Nat /\ life[k].end \in Nat
          BY <1>2, <2>1
        <4>2. life[k - 1].start <= life[k - 1].end
          BY <1>3, <2>1
        <4>3. life[k - 1].start <= life[k].start
          BY <1>2, <2>1, <4>1, <4>2
        <4> QED BY <2>5, <2>7, <4>1, <4>3
      <3>2. k # k - 1
        BY <2>1, <1>2
      <3> QED BY <2>1, <2>3, <2>4, <3>1, <3>2, IdsRemoved
    <2>9. r.start .. r.end \subseteq Ids(life) \cup {s} /\ s \in r.start .. r.end
      <3>1. ASSUME NEW i \in r.start .. r.end PROVE i \in Ids(life) \cup {s}
        <4>1. \/ i \in life[k - 1].start .. life[k - 1].end
              \/ i = s
              \/ i \in life[k].start .. life[k].end
          BY <1>2, <2>1, <2>5
        <4> QED BY <2>1, <4>1, IdsMembers
      <3>2. s \in r.start .. r.end
        BY <1>2, <1>3, <1>5, <2>1, <2>5
      <3> QED BY <3>1, <3>2
    <2>10. /\ new \in Seq(LifeRange) /\ Len(new) = n - 1
           /\ \A j \in 1 .. n - 1 : new[j] = IF j < k THEN wide[j] ELSE wide[j + 1]
      <3>1. k \in 1 .. Len(wide)
        BY <2>1, <2>4
      <3> QED BY <2>3, <2>4, <3>1, RemoveAtProperties
    <2>11. \A j \in 1 .. n - 1 :
              /\ new[j].start = (IF j < k THEN life[j].start ELSE life[j + 1].start)
              /\ new[j].end = (IF j < k - 1 THEN life[j].end ELSE life[j + 1].end)
      <3> TAKE j \in 1 .. n - 1
      <3>1. j \in 1 .. n /\ j + 1 \in 1 .. n
        BY <1>2
      <3>2. CASE j < k - 1
        BY <2>1, <2>4, <2>10, <3>1, <3>2
      <3>3. CASE j = k - 1
        BY <2>1, <2>4, <2>5, <2>10, <3>1, <3>3
      <3>4. CASE j > k - 1
        <4>1. ~(j < k) /\ ~(j < k - 1) /\ j + 1 # k - 1
          BY <1>2, <2>1, <3>4
        <4>2. new[j] = wide[j + 1] /\ wide[j + 1] = life[j + 1]
          BY <2>4, <2>10, <3>1, <4>1
        <4> QED BY <4>1, <4>2
      <3> QED BY <2>1, <1>2, <3>2, <3>3, <3>4
    <2>12. Normal(new)
      <3>1. \A j \in 1 .. n - 1 : new[j].start <= new[j].end
        <4> TAKE j \in 1 .. n - 1
        <4>1. /\ j \in 1 .. n /\ j + 1 \in 1 .. n
              /\ life[j].start \in Nat /\ life[j].end \in Nat
              /\ life[j + 1].start \in Nat /\ life[j + 1].end \in Nat
          BY <1>2
        <4>2. /\ life[j].start <= life[j].end /\ life[j + 1].start <= life[j + 1].end
              /\ life[j].end + 1 < life[j + 1].start
          BY <1>3, <4>1
        <4>3. CASE j < k - 1
          <5>1. j < k
            BY <1>1, <1>2, <4>3
          <5> QED BY <2>11, <4>2, <4>3, <5>1
        <4>4. CASE j < k /\ ~(j < k - 1)
          <5>1. new[j].start = life[j].start /\ new[j].end = life[j + 1].end
            BY <2>11, <4>4
          <5>2. life[j].start <= life[j + 1].end
            BY <4>1, <4>2
          <5> QED BY <5>1, <5>2
        <4>5. CASE ~(j < k)
          <5>1. ~(j < k - 1)
            BY <1>1, <1>2, <4>5
          <5> QED BY <2>11, <4>2, <4>5, <5>1
        <4> QED BY <4>3, <4>4, <4>5
      <3>2. \A j \in 1 .. n - 2 : new[j].end + 1 < new[j + 1].start
        <4> TAKE j \in 1 .. n - 2
        <4>1. /\ j \in 1 .. n - 1 /\ j + 1 \in 1 .. n - 1 /\ (j + 1) + 1 \in 1 .. n
              /\ (j < k - 1 <=> j + 1 < k)
          BY <1>2, <2>1
        <4>2. CASE j < k - 1
          <5>1. new[j].end = life[j].end /\ new[j + 1].start = life[j + 1].start
            BY <2>11, <4>1, <4>2
          <5> QED BY <1>3, <4>1, <5>1
        <4>3. CASE ~(j < k - 1)
          <5>1. new[j].end = life[j + 1].end /\ new[j + 1].start = life[(j + 1) + 1].start
            BY <2>11, <4>1, <4>3
          <5> QED BY <1>3, <4>1, <5>1
        <4> QED BY <4>2, <4>3
      <3>3. DOMAIN new = 1 .. n - 1 /\ (n - 1) - 1 = n - 2
        BY <1>2, <2>10, Elements
      <3> QED BY <2>10, <3>1, <3>2, <3>3 DEF Normal
    <2> QED BY <2>6, <2>8, <2>9, <2>10, <2>12 DEF new
  <1>10. ASSUME NEW m \in 1 .. n, NEW r \in LifeRange,
                new = [life EXCEPT ![m] = r],
                r.start <= life[m].start, life[m].end <= r.end,
                m > 1 => life[m - 1].end + 1 < r.start,
                m < n => r.end + 1 < life[m + 1].start,
                r.start .. r.end = (life[m].start .. life[m].end) \cup {s}
         PROVE  new \in Seq(LifeRange) /\ Normal(new) /\ Ids(new) = Ids(life) \cup {s}
    <2>1. /\ new \in Seq(LifeRange) /\ Len(new) = n
          /\ \A j \in 1 .. n : new[j] = IF j = m THEN r ELSE life[j]
      BY <1>10, ExceptSeq
    <2>2. \A j \in 1 .. n : new[j].start <= new[j].end
      BY <1>2, <1>3, <1>10, <2>1, LifeRangeFacts
    <2>3. \A j \in 1 .. n - 1 : new[j].end + 1 < new[j + 1].start
      <3> TAKE j \in 1 .. n - 1
      <3>1. j \in 1 .. n /\ j + 1 \in 1 .. n /\ j # j + 1
        BY <1>2
      <3>2. CASE j = m
        BY <1>10, <1>2, <2>1, <3>1, <3>2
      <3>3. CASE j + 1 = m
        <4>1. m > 1 /\ m - 1 = j /\ new[j] = life[j] /\ new[j + 1] = r
          BY <1>2, <2>1, <3>1, <3>3
        <4> QED BY <1>10, <4>1
      <3>4. CASE j # m /\ j + 1 # m
        BY <1>3, <2>1, <3>1, <3>4
      <3> QED BY <3>2, <3>3, <3>4
    <2>4. DOMAIN new = 1 .. n
      BY <2>1, Elements
    <2>5. Ids(new) = Ids(life) \cup (r.start .. r.end)
      BY <1>10, IdsWidened
    <2>6. life[m].start .. life[m].end \subseteq Ids(life)
      BY IdsMembers
    <2> QED BY <1>10, <2>1, <2>2, <2>3, <2>4, <2>5, <2>6 DEF Normal
  <1>11. CASE ~Contained(life, k, s) /\ TouchesBefore(life, k, s) /\ ~TouchesAfter(life, k, s)
    <2> DEFINE m == k - 1
               r == [start |-> life[m].start, end |-> s]
    <2>1. /\ m \in 1 .. n /\ life[m].end + 1 = s /\ m + 1 = k
          /\ k <= n => s + 1 < life[k].start
      <3>1. k > 1 /\ life[k - 1].end + 1 = s
        BY <1>11 DEF TouchesBefore
      <3>2. k <= n => life[k].start - 1 # s
        BY <1>11 DEF TouchesAfter
      <3>3. m \in 1 .. n /\ m + 1 = k
        BY <1>1, <1>2, <3>1
      <3>4. k <= n => life[k].start > s /\ life[k].start \in Nat
        BY <1>1, <1>2
      <3> QED BY <1>2, <3>1, <3>2, <3>3, <3>4
    <2>2. r \in LifeRange /\ [life[m] EXCEPT !.end = s] = r
      BY <1>2, <1>4, <2>1 DEF LifeRange
    <2>3. new = [life EXCEPT ![m] = r]
      BY <1>7, <1>11, <2>2
    <2>4. r.start = life[m].start /\ r.end = s
      OBVIOUS
    <2> HIDE DEF r, m
    <2>5. r.start <= life[m].start /\ life[m].end <= r.end
      BY <1>2, <2>1, <2>4
    <2>6. m > 1 => life[m - 1].end + 1 < r.start
      <3> HAVE m > 1
      <3>1. m - 1 \in 1 .. n - 1 /\ (m - 1) + 1 = m
        BY <1>2, <2>1
      <3> QED BY <1>3, <2>4, <3>1
    <2>7. m < n => r.end + 1 < life[m + 1].start
      BY <1>2, <2>1, <2>4
    <2>8. r.start .. r.end = (life[m].start .. life[m].end) \cup {s}
      BY <1>2, <1>3, <2>1, <2>4
    <2> QED BY <1>10, <2>1, <2>2, <2>3, <2>5, <2>6, <2>7, <2>8 DEF new
  <1>12. CASE ~Contained(life, k, s) /\ TouchesAfter(life, k, s) /\ ~TouchesBefore(life, k, s)
    <2> DEFINE r == [start |-> s, end |-> life[k].end]
    <2>1. /\ k \in 1 .. n /\ life[k].start = s + 1
          /\ k > 1 => life[k - 1].end + 1 < s
      <3>1. k \in 1 .. n /\ life[k].start = s + 1
        BY <1>1, <1>2, <1>12 DEF TouchesAfter
      <3>2. k > 1 => life[k - 1].end < s /\ life[k - 1].end + 1 # s /\ life[k - 1].end \in Nat
        BY <1>2, <1>5, <1>12 DEF Contained, TouchesBefore
      <3> QED BY <1>2, <3>1, <3>2
    <2>2. r \in LifeRange /\ [life[k] EXCEPT !.start = s] = r
      BY <1>2, <1>4, <2>1 DEF LifeRange
    <2>3. new = [life EXCEPT ![k] = r]
      BY <1>7, <1>12, <2>2
    <2>4. r.start = s /\ r.end = life[k].end
      OBVIOUS
    <2> HIDE DEF r
    <2>5. r.start <= life[k].start /\ life[k].end <= r.end
      BY <1>2, <2>1, <2>4
    <2>6. k < n => r.end + 1 < life[k + 1].start
      BY <1>2, <1>3, <2>1, <2>4
    <2>7. r.start .. r.end = (life[k].start .. life[k].end) \cup {s}
      BY <1>2, <1>3, <2>1, <2>4
    <2> QED BY <1>10, <2>1, <2>2, <2>3, <2>4, <2>5, <2>6, <2>7 DEF new
  <1>13. CASE ~Contained(life, k, s) /\ ~TouchesAfter(life, k, s) /\ ~TouchesBefore(life, k, s)
    <2> DEFINE r == Interval(s, s)
    <2>1. r \in LifeRange /\ r.start = s /\ r.end = s
      BY <1>4 DEF Interval
    <2>2. new = InsertAt(life, k, r)
      BY <1>7, <1>13
    <2> HIDE DEF r
    <2>3. /\ k <= n => s + 1 < life[k].start
          /\ k > 1 => life[k - 1].end + 1 < s
      <3>1. k <= n => life[k].start # s + 1 /\ life[k].start \in Nat /\ life[k].start > s
        BY <1>1, <1>2, <1>13 DEF TouchesAfter
      <3>2. k > 1 => life[k - 1].end < s /\ life[k - 1].end + 1 # s /\ life[k - 1].end \in Nat
        BY <1>2, <1>5, <1>13 DEF Contained, TouchesBefore
      <3> QED BY <1>2, <3>1, <3>2
    <2>4. /\ new \in Seq(LifeRange) /\ Normal(new)
          /\ Ids(new) = Ids(life) \cup (r.start .. r.end)
      BY <1>1, <1>2, <2>1, <2>2, <2>3, InsertedNormal, IdsInserted
    <2>5. r.start .. r.end = {s}
      BY <1>2, <2>1
    <2> QED BY <2>4, <2>5 DEF new
  <1> QED BY <1>8, <1>9, <1>11, <1>12, <1>13
-----------------------------------------------------------------------------
(* What is still to be merged: the next range and what follows it.         *)
LEMMA PendingIds ==
    ASSUME NEW life \in Seq(LifeRange), NEW m \in 1 .. Len(life)
    PROVE  Ids(SubSeq(life, m, Len(life)))
              = (life[m].start .. life[m].end)
                   \cup (IF m = Len(life) THEN {} ELSE Ids(SubSeq(life, m + 1, Len(life))))
  <1> DEFINE n == Len(life)
             Rest(j) == SubSeq(life, j, n)
  <1>1. n \in Nat /\ m \in 1 .. n /\ \A k \in 1 .. n : life[k] \in LifeRange
    BY Elements
  <1>2. ASSUME NEW j \in 1 .. n
        PROVE  /\ Rest(j) \in Seq(LifeRange)
               /\ \A i : i \in Ids(Rest(j)) <=> \E k \in j .. n : i \in life[k].start .. life[k].end
    <2> DEFINE t == SubSeq(life, j, n)
    <2>1. j \in Int /\ n \in Int /\ \A k \in j .. n : life[k] \in LifeRange
      BY <1>1
    <2>2. /\ t \in Seq(LifeRange) /\ Len(t) = (IF j <= n THEN n - j + 1 ELSE 0)
          /\ \A k \in 1 .. n - j + 1 : t[k] = life[j + k - 1]
      BY <2>1, SubSeqProperties
    <2> HIDE DEF t
    <2>3. Len(t) = n - j + 1
      BY <1>1, <2>2
    <2>4. ASSUME NEW i, NEW k \in 1 .. n - j + 1, i \in t[k].start .. t[k].end
          PROVE  \E l \in j .. n : i \in life[l].start .. life[l].end
      <3>1. j + k - 1 \in j .. n /\ t[k] = life[j + k - 1]
        BY <1>1, <2>2
      <3> QED BY <2>4, <3>1
    <2>5. ASSUME NEW i, NEW l \in j .. n, i \in life[l].start .. life[l].end
          PROVE  \E k \in 1 .. n - j + 1 : i \in t[k].start .. t[k].end
      <3>1. l - j + 1 \in 1 .. n - j + 1 /\ j + (l - j + 1) - 1 = l
        BY <1>1
      <3>2. t[l - j + 1] = life[l]
        BY <2>2, <3>1
      <3> QED BY <2>5, <3>1, <3>2
    <2>6. \A i : i \in Ids(t) <=> \E k \in 1 .. n - j + 1 : i \in t[k].start .. t[k].end
      BY <2>2, <2>3, IdsMembers
    <2> QED BY <2>2, <2>4, <2>5, <2>6 DEF t
  <1> HIDE DEF n, Rest
  <1>3. CASE m = n
    <2>1. \A k \in m .. n : k = m
      BY <1>1, <1>3
    <2>2. m \in m .. n
      BY <1>1
    <2> QED BY <1>1, <1>2, <1>3, <2>1, <2>2 DEF n, Rest
  <1>4. CASE m # n
    <2>1. m + 1 \in 1 .. n /\ \A k : k \in m .. n <=> k = m \/ k \in m + 1 .. n
      BY <1>1, <1>4
    <2>2. \A i : i \in Ids(Rest(m)) <=> \/ i \in life[m].start .. life[m].end
                                       \/ i \in Ids(Rest(m + 1))
      BY <1>1, <1>2, <2>1
    <2> QED BY <1>4, <2>2 DEF n, Rest
  <1> QED BY <1>3, <1>4

LEMMA AppendIsInsert ==
    ASSUME NEW s \in Seq(LifeRange), NEW e \in LifeRange
    PROVE  Append(s, e) = InsertAt(s, Len(s) + 1, e)
  <1> DEFINE n == Len(s)
  <1>1. n \in Nat /\ (n + 1) - 1 = n /\ n < n + 1 /\ n + 1 \in Int /\ n \in Int
    OBVIOUS
  <1>2. SubSeq(s, 1, n) = s
    BY SubSeqFull
  <1>3. SubSeq(s, n + 1, n) = <<>>
    BY <1>1, SubSeqEmpty
  <1>4. InsertAt(s, n + 1, e) = (s \o <<e>>) \o <<>>
    BY <1>1, <1>2, <1>3 DEF InsertAt
  <1>5. s \o <<e>> \in Seq(LifeRange) /\ Append(s, e) = s \o <<e>>
    BY AppendIsConcat, AppendProperties
  <1>6. (s \o <<e>>) \o <<>> = s \o <<e>>
    BY <1>5, ConcatEmptySeq
  <1> QED BY <1>4, <1>5, <1>6

(* The step to the next range of other: what was merged is in mine, and    *)
(* everything before entry m ends where the merged range does or before.   *)
LEMMA NextOtherKeeps ==
    ASSUME IInv, Merging, NEW m \in Nat \ {0}, NextOther(m),
           UNCHANGED <<other, want>>,
           mine' \in Seq(LifeRange), Normal(mine'), m <= Len(mine'),
           m > 1 => mine'[m - 1].end <= other[oi].end,
           Ids(mine') = Ids(mine) \cup (other[oi].start .. other[oi].end)
    PROVE  IInv'
  <1> DEFINE n == Len(other)
  <1>1. /\ n \in Nat /\ oi \in 1 .. n /\ other \in Seq(LifeRange) /\ want \subseteq Id
        /\ \A k \in 1 .. n : other[k].start \in Nat /\ other[k].end \in Nat
    <2>1. other \in Seq(LifeRange) /\ oi \in Nat \ {0} /\ oi <= n /\ want \subseteq Id
      BY DEF IInv, RangesTypeOK
    <2> QED BY <2>1, Elements
  <1>2. Ids(mine) \cup Ids(SubSeq(other, oi, n)) = want
    BY DEF IInv, KeepsEveryId, Pending
  <1>3. Ids(SubSeq(other, oi, n)) = (other[oi].start .. other[oi].end)
                   \cup (IF oi = n THEN {} ELSE Ids(SubSeq(other, oi + 1, n)))
    BY <1>1, PendingIds
  <1>4. CASE oi = n
    <2>1. merge' = "idle" /\ oi' = 1 /\ myi' = 1
      BY <1>4 DEF NextOther
    <2>2. RangesTypeOK'
      BY <1>1, <2>1 DEF RangesTypeOK, Merging
    <2>3. KeepsEveryId'
      BY <1>2, <1>3, <1>4, <2>1 DEF KeepsEveryId, Pending, Merging
    <2>4. Normal(other') /\ BehindIsDone' /\ (merge = "absorb" => Absorbing)'
      BY <2>1 DEF IInv, BehindIsDone, Merging
    <2> QED BY <2>1, <2>2, <2>3, <2>4 DEF IInv
  <1>5. CASE oi # n
    <2>1. merge' = "compare" /\ oi' = oi + 1 /\ myi' = m
      BY <1>5 DEF NextOther
    <2>2. oi + 1 \in 1 .. n /\ oi \in 1 .. n - 1
      BY <1>1, <1>5
    <2>3. RangesTypeOK'
      BY <1>1, <2>1, <2>2 DEF RangesTypeOK, Merging
    <2>4. KeepsEveryId'
      BY <1>2, <1>3, <1>5, <2>1 DEF KeepsEveryId, Pending, Merging
    <2>5. BehindIsDone'
      <3> SUFFICES ASSUME m > 1 PROVE mine'[m - 1].end + 1 < other[oi + 1].start
        BY <2>1 DEF BehindIsDone, Merging
      <3>1. other[oi].end + 1 < other[oi + 1].start
        BY <2>2 DEF IInv, Normal
      <3>2. m - 1 \in 1 .. Len(mine')
        BY Elements
      <3>3. mine'[m - 1].end \in Nat
        BY <3>2, Elements
      <3>4. other[oi].end \in Nat /\ other[oi + 1].start \in Nat
        BY <1>1, <2>2
      <3>5. mine'[m - 1].end <= other[oi].end
        OBVIOUS
      <3>6. \A x, y, z \in Nat : x <= y /\ y + 1 < z => x + 1 < z
        OBVIOUS
      <3> QED BY <3>1, <3>3, <3>4, <3>5, <3>6, Zenon
    <2>6. Normal(other') /\ (merge # "absorb" => Normal(mine))' /\ (merge = "absorb" => Absorbing)'
      BY <2>1 DEF IInv
    <2> QED BY <2>3, <2>4, <2>5, <2>6 DEF IInv
  <1> QED BY <1>4, <1>5
-----------------------------------------------------------------------------
LEMMA InvFacts ==
    ASSUME IInv
    PROVE  /\ mine \in Seq(LifeRange) /\ other \in Seq(LifeRange)
           /\ Len(mine) \in Nat /\ Len(other) \in Nat
           /\ DOMAIN mine = 1 .. Len(mine) /\ DOMAIN other = 1 .. Len(other)
           /\ \A k \in 1 .. Len(mine) : /\ mine[k] \in LifeRange
                                       /\ mine[k].start \in Nat /\ mine[k].end \in Nat
                                       /\ mine[k].start \in Id /\ mine[k].end \in Id
           /\ \A k \in 1 .. Len(other) : /\ other[k] \in LifeRange
                                        /\ other[k].start \in Nat /\ other[k].end \in Nat
                                        /\ other[k].start \in Id /\ other[k].end \in Id
                                        /\ other[k].start <= other[k].end
           /\ oi \in Nat \ {0} /\ myi \in Nat \ {0} /\ want \subseteq Id
           /\ Merging => oi \in 1 .. Len(other) /\ myi \in 1 .. Len(mine)
  <1>1. /\ mine \in Seq(LifeRange) /\ other \in Seq(LifeRange)
        /\ oi \in Nat \ {0} /\ myi \in Nat \ {0} /\ want \subseteq Id
        /\ Merging => oi <= Len(other) /\ myi <= Len(mine)
    BY DEF IInv, RangesTypeOK
  <1>2. \A k \in 1 .. Len(other) : other[k].start <= other[k].end
    BY <1>1, Elements DEF IInv, Normal
  <1> QED BY <1>1, <1>2, Elements

LEMMA AddBeforeKeeps ==
    ASSUME IInv, AddBefore
    PROVE  IInv'
  <1> DEFINE o == other[oi]
  <1>1. /\ merge = "compare" /\ Merging /\ o.end + 1 < mine[myi].start
        /\ mine' = InsertAt(mine, myi, o) /\ NextOther(myi + 1) /\ UNCHANGED <<other, want>>
    BY DEF AddBefore, Before, Merging
  <1>2. /\ mine \in Seq(LifeRange) /\ Len(mine) \in Nat /\ myi \in 1 .. Len(mine)
        /\ o \in LifeRange /\ o.start \in Nat /\ o.end \in Nat /\ o.start <= o.end
    BY <1>1, InvFacts
  <1>3. Normal(mine) /\ (myi > 1 => mine[myi - 1].end + 1 < o.start)
    BY <1>1 DEF IInv, BehindIsDone
  <1> HIDE DEF o
  <1>4. myi \in 1 .. Len(mine) + 1
    BY <1>2
  <1>5. mine' \in Seq(LifeRange) /\ Normal(mine')
    BY <1>1, <1>2, <1>3, <1>4, InsertedNormal
  <1>6. Len(mine') = Len(mine) + 1 /\ mine'[myi] = o
    <2> DEFINE new == InsertAt(mine, myi, o)
    <2>1. /\ Len(new) = Len(mine) + 1
          /\ \A k \in 1 .. Len(mine) + 1 :
                new[k] = IF k < myi THEN mine[k] ELSE IF k = myi THEN o ELSE mine[k - 1]
      BY <1>2, <1>4, InsertAtProperties
    <2> HIDE DEF new
    <2>2. Len(new) = Len(mine) + 1 /\ new[myi] = o
      BY <1>2, <1>4, <2>1
    <2> QED BY <1>1, <2>2 DEF new
  <1>7. Ids(mine') = Ids(mine) \cup (o.start .. o.end)
    BY <1>1, <1>2, <1>4, IdsInserted
  <1>8. myi + 1 \in Nat \ {0} /\ myi + 1 <= Len(mine') /\ mine'[(myi + 1) - 1].end <= o.end
    <2>1. (myi + 1) - 1 = myi
      BY <1>2
    <2> QED BY <1>2, <1>6, <2>1
  <1> QED BY <1>1, <1>5, <1>7, <1>8, NextOtherKeeps DEF o

LEMMA ProceedKeeps ==
    ASSUME IInv, Proceed
    PROVE  IInv'
  <1> DEFINE o == other[oi]
             e == mine[myi]
             n == Len(mine)
  <1>1. merge = "absorb" /\ Merging /\ ~Combines /\ UNCHANGED <<other, want>>
    BY DEF Proceed, Merging
  <1>2. /\ mine \in Seq(LifeRange) /\ n \in Nat /\ myi \in 1 .. n
        /\ o \in LifeRange /\ o.start \in Nat /\ o.end \in Nat /\ o.start <= o.end
        /\ \A k \in 1 .. n : mine[k].start \in Nat /\ mine[k].end \in Nat
        /\ DOMAIN mine = 1 .. n
    BY <1>1, InvFacts
  <1>3. Absorbing /\ (myi > 1 => mine[myi - 1].end + 1 < o.start)
    BY <1>1 DEF IInv, BehindIsDone
  <1>4. Normal(mine)
    <2>1. \A k \in 1 .. n : mine[k].start <= mine[k].end
      BY <1>2, <1>3 DEF Absorbing
    <2>2. \A k \in 1 .. n - 1 : mine[k].end + 1 < mine[k + 1].start
      <3> TAKE k \in 1 .. n - 1
      <3>1. CASE k # myi
        BY <1>3, <3>1 DEF Absorbing, Gap
      <3>2. CASE k = myi
        <4>1. myi < n /\ myi + 1 \in 1 .. n
          BY <1>2, <3>2
        <4> QED BY <1>1, <1>2, <3>2, <4>1 DEF Combines
      <3> QED BY <3>1, <3>2
    <2> QED BY <1>2, <2>1, <2>2 DEF Normal
  <1>5. e.end \in Nat /\ e.start \in Nat
    BY <1>2
  <1>6. o.start > e.end => e.end + 1 < o.start
    <2>1. TakenIn => o.end <= e.end
      BY DEF TakenIn
    <2>2. Behind => e.end + 1 < o.start
      BY DEF Behind
    <2>3. TakenIn \/ Behind
      BY <1>3 DEF Absorbing
    <2> HIDE DEF o, e
    <2> QED BY <1>2, <1>5, <2>1, <2>2, <2>3
  <1>7. CASE ~(o.start > e.end)
    <2>1. mine' = mine /\ NextOther(myi)
      BY <1>7 DEF Proceed
    <2>2. TakenIn
      BY <1>2, <1>3, <1>5, <1>7 DEF Absorbing, Behind
    <2>3. Ids(mine') = Ids(mine) \cup (o.start .. o.end)
      <3>1. e.start .. e.end \subseteq Ids(mine)
        BY <1>2, IdsMembers
      <3>2. e.start <= o.start /\ o.end <= e.end
        BY <2>2 DEF TakenIn
      <3>3. o.start .. o.end \subseteq e.start .. e.end
        BY <1>2, <1>5, <3>2
      <3> QED BY <2>1, <3>1, <3>3
    <2>4. myi > 1 => mine'[myi - 1].end <= o.end
      <3> HAVE myi > 1
      <3>1. myi - 1 \in 1 .. n
        BY <1>2
      <3>2. mine[myi - 1].end \in Nat /\ mine[myi - 1].end + 1 < o.start
        BY <1>2, <1>3, <3>1
      <3> QED BY <1>2, <2>1, <3>2
    <2>5. myi \in Nat \ {0} /\ myi <= Len(mine')
      BY <1>2, <2>1
    <2> QED BY <1>1, <1>2, <1>4, <2>1, <2>3, <2>4, <2>5, NextOtherKeeps
  <1>8. CASE o.start > e.end /\ myi = n
    <2>1. mine' = Append(mine, o) /\ NextOther(myi + 1)
      BY <1>8 DEF Proceed
    <2>2. e.end + 1 < o.start
      BY <1>8, <1>6
    <2> HIDE DEF o
    <2>3. mine' = InsertAt(mine, n + 1, o) /\ n + 1 \in 1 .. n + 1
      BY <1>2, <2>1, AppendIsInsert
    <2>4. mine' \in Seq(LifeRange) /\ Normal(mine')
      <3>1. (n + 1) - 1 = n /\ ~(n + 1 <= n)
        BY <1>2
      <3>2. n + 1 > 1 => mine[(n + 1) - 1].end + 1 < o.start
        BY <1>8, <2>2, <3>1
      <3> QED BY <1>2, <1>4, <2>3, <3>1, <3>2, InsertedNormal
    <2>5. Ids(mine') = Ids(mine) \cup (o.start .. o.end)
      BY <1>2, <2>3, IdsInserted
    <2>6. Len(mine') = n + 1 /\ mine'[n] = mine[n]
      BY <1>2, <1>8, <2>1, AppendProperties
    <2>7. myi + 1 \in Nat \ {0} /\ myi + 1 <= Len(mine') /\ mine'[(myi + 1) - 1].end <= o.end
      <3>1. (myi + 1) - 1 = n
        BY <1>2, <1>8
      <3>2. mine'[(myi + 1) - 1] = e
        BY <1>8, <2>6, <3>1
      <3> QED BY <1>2, <1>5, <1>8, <2>2, <2>6, <3>2
    <2> QED BY <1>1, <2>1, <2>4, <2>5, <2>7, NextOtherKeeps DEF o
  <1>9. CASE o.start > e.end /\ myi # n
    <2>1. merge' = "compare" /\ myi' = myi + 1 /\ UNCHANGED <<mine, oi>>
      BY <1>9 DEF Proceed
    <2>2. e.end + 1 < o.start
      BY <1>9, <1>6
    <2>3. RangesTypeOK'
      <3>1. RangesTypeOK /\ myi + 1 \in Nat \ {0} /\ myi + 1 <= n
        <4>1. RangesTypeOK
          BY DEF IInv
        <4>2. myi + 1 \in Nat \ {0} /\ myi + 1 <= n
          <5> HIDE DEF n
          <5> QED BY <1>2, <1>9
        <4> QED BY <4>1, <4>2
      <3> QED BY <1>1, <2>1, <3>1 DEF RangesTypeOK, Merging
    <2>4. BehindIsDone'
      <3>1. (myi + 1) - 1 = myi
        BY <1>2
      <3> QED BY <1>1, <2>1, <2>2, <3>1 DEF BehindIsDone
    <2>5. KeepsEveryId'
      BY <1>1, <2>1 DEF IInv, KeepsEveryId, Pending, Merging
    <2> QED BY <1>1, <1>4, <2>1, <2>3, <2>4, <2>5 DEF IInv
  <1> QED BY <1>7, <1>8, <1>9

LEMMA WidenKeeps ==
    ASSUME IInv, Widen
    PROVE  IInv'
  <1> DEFINE o == other[oi]
             e == mine[myi]
             r == Widened(mine[myi], other[oi])
             n == Len(mine)
  <1>1. /\ merge = "compare" /\ Merging /\ merge' = "absorb"
        /\ mine' = [mine EXCEPT ![myi] = r] /\ UNCHANGED <<other, oi, myi, want>>
        /\ ~(o.end + 1 < e.start)
    BY DEF Widen, Before, Merging
  <1>2. /\ mine \in Seq(LifeRange) /\ n \in Nat /\ myi \in 1 .. n /\ oi \in 1 .. Len(other)
        /\ o \in LifeRange /\ o.start \in Nat /\ o.end \in Nat /\ o.start <= o.end
        /\ e \in LifeRange /\ e.start \in Nat /\ e.end \in Nat
        /\ \A k \in 1 .. n : mine[k].start \in Nat /\ mine[k].end \in Nat
    BY <1>1, InvFacts
  <1>3. /\ \A k \in 1 .. n : mine[k].start <= mine[k].end
        /\ \A k \in 1 .. n - 1 : mine[k].end + 1 < mine[k + 1].start
        /\ myi > 1 => mine[myi - 1].end + 1 < o.start
        /\ Ids(mine) \cup Ids(SubSeq(other, oi, Len(other))) = want
    BY <1>1, InvFacts DEF IInv, BehindIsDone, Normal, KeepsEveryId, Pending
  <1>4. /\ r \in LifeRange /\ r.start \in Nat /\ r.end \in Nat
        /\ r.start = (IF o.start < e.start THEN o.start ELSE e.start)
        /\ r.end = (IF o.end > e.end /\ o.start <= e.end + 1 THEN o.end ELSE e.end)
    <2> DEFINE w == [start |-> (IF o.start < e.start THEN o.start ELSE e.start),
                     end |-> (IF o.end > e.end /\ o.start <= e.end + 1 THEN o.end ELSE e.end)]
               started == IF o.start < e.start /\ o.end + 1 >= e.start
                          THEN [e EXCEPT !.start = o.start] ELSE e
    <2>1. e.start <= e.end
      BY <1>2, <1>3
    <2>2. r = IF o.end > started.end /\ o.start <= started.end + 1
              THEN [started EXCEPT !.end = o.end] ELSE started
      BY DEF Widened
    <2>3. e = [start |-> e.start, end |-> e.end]
      BY <1>2 DEF LifeRange
    <2> HIDE DEF o, e, r
    <2>4. r = w
      BY <1>1, <1>2, <2>1, <2>2, <2>3
    <2>5. o.start \in Id /\ o.end \in Id /\ e.start \in Id /\ e.end \in Id
      BY <1>2, LifeRangeFacts
    <2>6. w \in LifeRange /\ w.start \in Nat /\ w.end \in Nat
      BY <1>2, <2>5 DEF LifeRange
    <2> QED BY <2>4, <2>6
  <1> HIDE DEF o, e, r, n
  <1>5. /\ mine' \in Seq(LifeRange) /\ Len(mine') = n
        /\ \A k \in 1 .. n : mine'[k] = IF k = myi THEN r ELSE mine[k]
    BY <1>1, <1>2, <1>4, ExceptSeq DEF n
  <1>6. mine'[myi] = r /\ e = mine[myi]
    BY <1>2, <1>5 DEF e
  <1>7. r.start <= e.start /\ e.end <= r.end /\ r.start <= r.end
    <2>1. e.start <= e.end
      BY <1>2, <1>3, <1>6
    <2>2. r.start <= e.start /\ e.end <= r.end
      BY <1>2, <1>4
    <2> QED BY <1>2, <1>4, <2>1, <2>2
  <1>8. \/ r.start <= o.start /\ o.end <= r.end
        \/ r = e /\ e.end + 1 < o.start
    <2>1. CASE o.start <= e.end + 1
      BY <1>2, <1>4, <2>1
    <2>2. CASE ~(o.start <= e.end + 1)
      <3>1. r.start = e.start /\ r.end = e.end
        BY <1>2, <1>3, <1>4, <1>6, <2>2
      <3>2. r = e
        BY <1>2, <1>4, <3>1 DEF LifeRange
      <3> QED BY <1>2, <2>2, <3>2
    <2> QED BY <2>1, <2>2
  <1>9. RangesTypeOK'
    <2>1. RangesTypeOK /\ myi <= n /\ oi <= Len(other)
      BY <1>2 DEF IInv
    <2> QED BY <1>1, <1>5, <2>1 DEF RangesTypeOK, Merging
  <1>10. BehindIsDone'
    <2> SUFFICES ASSUME myi > 1 PROVE mine'[myi - 1].end + 1 < o.start
      BY <1>1 DEF BehindIsDone, o
    <2>1. myi - 1 \in 1 .. n /\ myi - 1 # myi
      BY <1>2
    <2> QED BY <1>3, <1>5, <2>1
  <1>11. Absorbing'
    <2>1. \A k \in 1 .. n : mine'[k].start <= mine'[k].end
      BY <1>3, <1>5, <1>7
    <2>2. ASSUME NEW k \in 1 .. n - 1, k # myi PROVE mine'[k].end + 1 < mine'[k + 1].start
      <3>1. k \in 1 .. n /\ k + 1 \in 1 .. n /\ mine'[k] = mine[k]
        BY <1>2, <1>5, <2>2
      <3>2. CASE k + 1 = myi
        <4>1. myi > 1 /\ myi - 1 = k /\ mine'[k + 1] = r
          BY <1>2, <1>6, <3>1, <3>2
        <4>2. mine[k].end + 1 < o.start /\ mine[k].end + 1 < e.start
          BY <1>3, <1>6, <3>2, <4>1
        <4> QED BY <1>4, <3>1, <4>1, <4>2
      <3>3. CASE k + 1 # myi
        BY <1>3, <1>5, <3>1, <3>3
      <3> QED BY <3>2, <3>3
    <2>3. ASSUME myi < n
          PROVE  mine'[myi].start <= mine'[myi + 1].start /\ mine'[myi + 1] = mine[myi + 1]
      <3>1. /\ myi + 1 \in 1 .. n /\ myi \in 1 .. n - 1 /\ myi + 1 # myi
            /\ mine[myi + 1].start \in Nat
        BY <1>2, <2>3
      <3>2. mine[myi].end + 1 < mine[myi + 1].start
        BY <1>3, <3>1
      <3>3. e.start <= e.end
        BY <1>2, <1>3, <1>6
      <3>4. r.start <= mine[myi + 1].start
        <4>1. r.start \in Nat /\ e.start \in Nat /\ e.end \in Nat /\ r.start <= e.start
          BY <1>2, <1>4, <1>7
        <4>2. e.end + 1 < mine[myi + 1].start
          BY <1>6, <3>2
        <4> QED BY <3>1, <3>3, <4>1, <4>2
      <3>5. mine'[myi + 1] = mine[myi + 1]
        BY <1>5, <3>1
      <3> QED BY <1>6, <3>4, <3>5
    <2>4. (TakenIn \/ Behind)'
      <3>1. CASE r.start <= o.start /\ o.end <= r.end
        BY <1>1, <1>6, <3>1 DEF TakenIn, o
      <3>2. CASE r = e /\ e.end + 1 < o.start
        <4>1. myi < n => r.end + 1 < mine'[myi + 1].start
          <5> HAVE myi < n
          <5>1. myi \in 1 .. n - 1
            BY <1>2
          <5> QED BY <1>3, <1>6, <2>3, <3>2, <5>1
        <4> QED BY <1>1, <1>5, <1>6, <3>2, <4>1 DEF Behind, Gap, o
      <3> QED BY <1>8, <3>1, <3>2
    <2>5. DOMAIN mine' = 1 .. n
      BY <1>5, Elements
    <2> QED BY <1>1, <1>5, <2>1, <2>2, <2>3, <2>4, <2>5 DEF Absorbing, Gap
  <1>12. KeepsEveryId'
    <2>1. Ids(mine') = Ids(mine) \cup (r.start .. r.end)
      BY <1>1, <1>2, <1>4, <1>6, <1>7, IdsWidened DEF n
    <2>2. e.start .. e.end \subseteq Ids(mine)
      BY <1>2, <1>6, IdsMembers DEF n
    <2>3. o.start .. o.end \subseteq Ids(SubSeq(other, oi, Len(other)))
      <3>1. other \in Seq(LifeRange)
        BY InvFacts
      <3> QED BY <1>2, <3>1, PendingIds DEF o
    <2>4. r.start .. r.end \subseteq (e.start .. e.end) \cup (o.start .. o.end)
      BY <1>1, <1>2, <1>4
    <2>5. Ids(mine') \cup Ids(SubSeq(other, oi, Len(other))) = want
      BY <1>3, <2>1, <2>2, <2>3, <2>4
    <2> QED BY <1>1, <2>5 DEF KeepsEveryId, Pending, Merging
  <1>13. Normal(other')
    BY <1>1 DEF IInv
  <1> QED BY <1>1, <1>9, <1>10, <1>11, <1>12, <1>13 DEF IInv

LEMMA AbsorbKeeps ==
    ASSUME IInv, Absorb
    PROVE  IInv'
  <1> DEFINE o == other[oi]
             n == Len(mine)
             x == mine[myi]
             y == mine[myi + 1]
             r == [start |-> x.start, end |-> Longer(x, y)]
             wide == [mine EXCEPT ![myi] = r]
  <1>1. /\ merge = "absorb" /\ Merging /\ UNCHANGED <<other, oi, myi, merge, want>>
        /\ mine' = RemoveAt([mine EXCEPT ![myi].end = Longer(x, y)], myi + 1)
        /\ myi < n /\ x.end + 1 >= y.start
    BY DEF Absorb, Combines, Merging
  <1>2. /\ mine \in Seq(LifeRange) /\ n \in Nat /\ myi \in 1 .. n - 1 /\ oi \in 1 .. Len(other)
        /\ myi \in 1 .. n /\ myi + 1 \in 1 .. n
        /\ o.start \in Nat /\ o.end \in Nat
        /\ \A k \in 1 .. n : /\ mine[k].start \in Nat /\ mine[k].end \in Nat
                            /\ mine[k] \in LifeRange
    BY <1>1, InvFacts
  <1>3. /\ \A k \in 1 .. n : mine[k].start <= mine[k].end
        /\ \A k \in 1 .. n - 1 : k # myi => mine[k].end + 1 < mine[k + 1].start
        /\ x.start <= y.start
        /\ myi > 1 => mine[myi - 1].end + 1 < o.start
        /\ Ids(mine) \cup Ids(SubSeq(other, oi, Len(other))) = want
    BY <1>1, InvFacts DEF IInv, Absorbing, Gap, BehindIsDone, KeepsEveryId, Pending
  <1>4. TakenIn
    <2>1. Absorbing
      BY <1>1 DEF IInv
    <2>2. ~Behind
      BY <1>1, <1>2 DEF Behind, Gap
    <2> QED BY <2>1, <2>2 DEF Absorbing
  <1>5. /\ x \in LifeRange /\ x.start \in Nat /\ x.end \in Nat /\ x.start <= x.end
        /\ y \in LifeRange /\ y.start \in Nat /\ y.end \in Nat /\ y.start <= y.end
    BY <1>2, <1>3
  <1>6. /\ r \in LifeRange /\ r.start = x.start
        /\ r.end = (IF x.end < y.end THEN y.end ELSE x.end) /\ r.end \in Nat
        /\ x.end <= r.end /\ y.end <= r.end
    <2>1. x.start \in Id /\ x.end \in Id /\ y.end \in Id
      BY <1>5, LifeRangeFacts
    <2>2. Longer(x, y) = IF x.end < y.end THEN y.end ELSE x.end
      BY DEF Longer
    <2>3. Longer(x, y) \in Id
      BY <2>1, <2>2
    <2>4. r \in LifeRange
      BY <2>1, <2>3 DEF LifeRange
    <2> HIDE DEF x, y
    <2> QED BY <1>5, <2>2, <2>4
  <1>7. mine' = RemoveAt(wide, myi + 1)
    <2>1. [mine EXCEPT ![myi].end = Longer(x, y)] = wide
      <3>1. x = [start |-> x.start, end |-> x.end]
        BY <1>5 DEF LifeRange
      <3>2. [x EXCEPT !.end = Longer(x, y)] = r
        BY <3>1
      <3> QED BY <3>2
    <2> QED BY <1>1, <2>1
  <1>8. /\ wide \in Seq(LifeRange) /\ Len(wide) = n
        /\ \A k \in 1 .. n : wide[k] = IF k = myi THEN r ELSE mine[k]
    BY <1>2, <1>6, ExceptSeq
  <1> HIDE DEF r, wide
  <1>9. wide[myi] = r /\ wide[myi + 1] = y
    BY <1>2, <1>8
  <1>10. /\ mine' \in Seq(LifeRange) /\ Len(mine') = n - 1
         /\ \A k \in 1 .. n - 1 : mine'[k] = IF k < myi + 1 THEN wide[k] ELSE wide[k + 1]
    <2>1. myi + 1 \in 1 .. Len(wide)
      BY <1>2, <1>8
    <2> QED BY <1>7, <1>8, <2>1, RemoveAtProperties
  <1>11. /\ \A k \in 1 .. n - 1 : k < myi => mine'[k] = mine[k]
         /\ mine'[myi] = r
         /\ \A k \in 1 .. n - 1 : k > myi => mine'[k] = mine[k + 1]
    <2>1. ASSUME NEW k \in 1 .. n - 1, k < myi PROVE mine'[k] = mine[k]
      <3>1. k \in 1 .. n /\ k < myi + 1 /\ k # myi
        BY <1>2, <2>1
      <3> QED BY <1>8, <1>10, <3>1
    <2>2. mine'[myi] = r
      <3>1. myi < myi + 1
        BY <1>2
      <3> QED BY <1>2, <1>9, <1>10, <3>1
    <2>3. ASSUME NEW k \in 1 .. n - 1, k > myi PROVE mine'[k] = mine[k + 1]
      <3>1. k + 1 \in 1 .. n /\ ~(k < myi + 1) /\ k + 1 # myi
        BY <1>2, <2>3
      <3> QED BY <1>8, <1>10, <3>1
    <2> QED BY <2>1, <2>2, <2>3
  <1> HIDE DEF x, y, o, n
  <1>12. RangesTypeOK'
    <2>1. RangesTypeOK /\ myi <= n - 1 /\ oi <= Len(other)
      BY <1>2 DEF IInv
    <2> QED BY <1>1, <1>10, <2>1 DEF RangesTypeOK, Merging
  <1>13. BehindIsDone'
    <2> SUFFICES ASSUME myi > 1 PROVE mine'[myi - 1].end + 1 < o.start
      BY <1>1 DEF BehindIsDone, o
    <2>1. myi - 1 \in 1 .. n - 1 /\ myi - 1 < myi
      BY <1>2
    <2> QED BY <1>3, <1>11, <2>1
  <1>14. Absorbing'
    <2>1. \A k \in 1 .. n - 1 : mine'[k].start <= mine'[k].end
      <3> TAKE k \in 1 .. n - 1
      <3>1. k \in 1 .. n /\ k + 1 \in 1 .. n
        BY <1>2
      <3>2. r.start <= r.end
        BY <1>5, <1>6
      <3>3. CASE k < myi
        BY <1>3, <1>11, <3>1, <3>3
      <3>4. CASE k = myi
        BY <1>11, <3>2, <3>4
      <3>5. CASE k > myi
        BY <1>3, <1>11, <3>1, <3>5
      <3> QED BY <1>2, <3>3, <3>4, <3>5
    <2>2. ASSUME NEW k \in 1 .. n - 2, k # myi PROVE mine'[k].end + 1 < mine'[k + 1].start
      <3>1. k \in 1 .. n - 1 /\ k + 1 \in 1 .. n - 1
        BY <1>2
      <3>2. CASE k > myi
        <4>1. k + 1 > myi /\ k + 1 # myi
          BY <1>2, <3>2
        <4>2. mine'[k] = mine[k + 1] /\ mine'[k + 1] = mine[(k + 1) + 1]
          BY <1>11, <3>1, <3>2, <4>1
        <4> QED BY <1>3, <3>1, <4>1, <4>2
      <3>3. CASE k < myi
        <4>1. mine'[k] = mine[k] /\ mine'[k + 1].start = mine[k + 1].start
          <5>1. k + 1 < myi \/ k + 1 = myi
            BY <1>2, <3>3
          <5>2. CASE k + 1 < myi
            BY <1>11, <3>1, <3>3, <5>2
          <5>3. CASE k + 1 = myi
            <6>1. mine'[k + 1] = r /\ mine[k + 1] = x
              BY <1>11, <5>3 DEF x
            <6> QED BY <1>6, <1>11, <3>1, <3>3, <6>1
          <5> QED BY <5>1, <5>2, <5>3
        <4> QED BY <1>3, <2>2, <3>1, <4>1
      <3> QED BY <1>2, <2>2, <3>2, <3>3
    <2>3. myi < n - 1 => mine'[myi].start <= mine'[myi + 1].start
      <3> HAVE myi < n - 1
      <3>1. myi + 1 \in 1 .. n - 1 /\ (myi + 1) + 1 \in 1 .. n /\ myi + 1 # myi
        BY <1>2
      <3>2. mine'[myi] = r /\ mine'[myi + 1] = mine[(myi + 1) + 1]
        <4>1. myi + 1 > myi
          BY <1>2
        <4> QED BY <1>11, <3>1, <4>1
      <3>3. y.end + 1 < mine[(myi + 1) + 1].start /\ mine[(myi + 1) + 1].start \in Nat
        BY <1>2, <1>3, <3>1 DEF y
      <3>4. x.start <= y.start
        BY <1>3
      <3> QED BY <1>5, <1>6, <3>2, <3>3, <3>4
    <2>4. TakenIn'
      <3>1. mine'[myi] = r
        BY <1>11
      <3>2. x.start <= o.start /\ o.end <= x.end
        BY <1>4 DEF TakenIn, x, o
      <3>3. r.start <= o.start /\ o.end <= r.end
        BY <1>2, <1>5, <1>6, <3>2
      <3> QED BY <1>1, <3>1, <3>3 DEF TakenIn, o
    <2>5. DOMAIN mine' = 1 .. n - 1 /\ (n - 1) - 1 = n - 2
      BY <1>2, <1>10, Elements
    <2> QED BY <1>1, <1>10, <2>1, <2>2, <2>3, <2>4, <2>5 DEF Absorbing, Gap
  <1>15. KeepsEveryId'
    <2>1. Ids(wide) = Ids(mine) \cup (r.start .. r.end)
      <3>1. r.start <= mine[myi].start /\ mine[myi].end <= r.end
        BY <1>5, <1>6 DEF x
      <3> QED BY <1>2, <1>6, <3>1, IdsWidened DEF wide, n
    <2>2. r.start .. r.end \subseteq Ids(mine)
      <3>1. x.start .. x.end \subseteq Ids(mine) /\ y.start .. y.end \subseteq Ids(mine)
        BY <1>2, IdsMembers DEF x, y, n
      <3>2. r.start .. r.end \subseteq (x.start .. x.end) \cup (y.start .. y.end)
        BY <1>1, <1>5, <1>6
      <3> QED BY <3>1, <3>2
    <2>3. Ids(mine') = Ids(wide)
      <3>1. y.start .. y.end \subseteq r.start .. r.end
        <4>1. x.start <= y.start
          BY <1>3
        <4> QED BY <1>5, <1>6, <4>1
      <3>2. myi + 1 # myi /\ myi + 1 \in 1 .. Len(wide) /\ myi \in 1 .. Len(wide)
        BY <1>2, <1>8
      <3> QED BY <1>7, <1>8, <1>9, <3>1, <3>2, IdsRemoved
    <2>4. Ids(mine') \cup Ids(SubSeq(other, oi, Len(other))) = want
      BY <1>3, <2>1, <2>2, <2>3
    <2> QED BY <1>1, <2>4 DEF KeepsEveryId, Pending, Merging
  <1>16. Normal(other')
    BY <1>1 DEF IInv
  <1> QED BY <1>1, <1>12, <1>13, <1>14, <1>15, <1>16 DEF IInv

LEMMA SetMineAliveKeeps ==
    ASSUME IInv, NEW s \in Id, SetMineAlive(s)
    PROVE  IInv'
  <1>1. /\ merge # "absorb" /\ ~Merging /\ mine' = SetAlive(mine, s) /\ want' = want \cup {s}
        /\ UNCHANGED <<other, oi, myi, merge>>
    BY DEF SetMineAlive, Merging
  <1>2. mine \in Seq(LifeRange) /\ Normal(mine) /\ want \subseteq Id /\ Ids(mine) = want
    BY <1>1, InvFacts DEF IInv, KeepsEveryId, Pending
  <1>3. mine' \in Seq(LifeRange) /\ Normal(mine') /\ Ids(mine') = Ids(mine) \cup {s}
    BY <1>1, <1>2, SetAliveProperties
  <1>4. RangesTypeOK'
    <2>1. RangesTypeOK
      BY DEF IInv
    <2> QED BY <1>1, <1>2, <1>3, <2>1 DEF RangesTypeOK, Merging
  <1>5. KeepsEveryId' /\ BehindIsDone' /\ Normal(other')
    BY <1>1, <1>2, <1>3 DEF IInv, KeepsEveryId, Pending, BehindIsDone, Merging
  <1> QED BY <1>1, <1>3, <1>4, <1>5 DEF IInv

LEMMA SetOtherAliveKeeps ==
    ASSUME IInv, NEW s \in Id, SetOtherAlive(s)
    PROVE  IInv'
  <1>1. /\ merge # "absorb" /\ ~Merging /\ other' = SetAlive(other, s)
        /\ UNCHANGED <<mine, oi, myi, merge, want>>
    BY DEF SetOtherAlive, Merging
  <1>2. other \in Seq(LifeRange) /\ Normal(other) /\ Normal(mine) /\ Ids(mine) = want
    BY <1>1, InvFacts DEF IInv, KeepsEveryId, Pending
  <1>3. other' \in Seq(LifeRange) /\ Normal(other')
    BY <1>1, <1>2, SetAliveProperties
  <1>4. RangesTypeOK'
    <2>1. RangesTypeOK
      BY DEF IInv
    <2> QED BY <1>1, <1>3, <2>1 DEF RangesTypeOK, Merging
  <1>5. KeepsEveryId' /\ BehindIsDone' /\ Normal(mine')
    BY <1>1, <1>2 DEF KeepsEveryId, Pending, BehindIsDone, Merging
  <1> QED BY <1>1, <1>3, <1>4, <1>5 DEF IInv

LEMMA MergeStartKeeps ==
    ASSUME IInv, MergeStart
    PROVE  IInv'
  <1>1. /\ merge # "absorb" /\ ~Merging /\ want' = want \cup Ids(other)
        /\ mine' = (IF mine = <<>> THEN other ELSE mine)
        /\ merge' = (IF mine = <<>> \/ other = <<>> THEN "idle" ELSE "compare")
        /\ oi' = 1 /\ myi' = 1 /\ UNCHANGED other
    BY DEF MergeStart, Merging
  <1>2. /\ mine \in Seq(LifeRange) /\ other \in Seq(LifeRange) /\ Normal(mine) /\ Normal(other)
        /\ want \subseteq Id /\ Ids(mine) = want
    BY <1>1, InvFacts DEF IInv, KeepsEveryId, Pending
  <1>3. Ids(<<>>) = {}
    BY DEF Ids
  <1>4. Ids(other) \subseteq Id
    <2> SUFFICES ASSUME NEW i \in Ids(other) PROVE i \in Id
      OBVIOUS
    <2>1. PICK k \in 1 .. Len(other) : i \in other[k].start .. other[k].end
      BY <1>2, IdsMembers
    <2>2. /\ other[k].start \in 0 .. MaxId /\ other[k].end \in 0 .. MaxId /\ MaxId \in Nat
      BY <1>2, Elements, MaxIdAssumption DEF Id, MaxIdAssumption
    <2> QED BY <2>1, <2>2 DEF Id
  <1>5. CASE mine = <<>> \/ other = <<>>
    <2>1. mine' \in Seq(LifeRange) /\ Normal(mine') /\ Ids(mine') = want'
      BY <1>1, <1>2, <1>3, <1>5
    <2>2. merge' = "idle"
      BY <1>1, <1>5
    <2>3. RangesTypeOK'
      BY <1>1, <1>2, <1>4, <2>1, <2>2 DEF RangesTypeOK, Merging
    <2>4. KeepsEveryId' /\ BehindIsDone'
      BY <2>1, <2>2 DEF KeepsEveryId, Pending, BehindIsDone, Merging
    <2> QED BY <1>1, <1>2, <2>1, <2>2, <2>3, <2>4 DEF IInv
  <1>6. CASE mine # <<>> /\ other # <<>>
    <2>1. mine' = mine /\ merge' = "compare"
      BY <1>1, <1>6
    <2>2. Len(mine) \in Nat \ {0} /\ Len(other) \in Nat \ {0}
      BY <1>2, <1>6, EmptySeq, Elements
    <2>3. RangesTypeOK'
      BY <1>1, <1>2, <1>4, <2>1, <2>2 DEF RangesTypeOK, Merging
    <2>4. Ids(SubSeq(other, 1, Len(other))) = Ids(other)
      <3>1. SubSeq(other, 1, Len(other)) = other
        BY <1>2, SubSeqFull
      <3> QED BY <3>1
    <2>5. KeepsEveryId'
      BY <1>1, <1>2, <2>1, <2>4 DEF KeepsEveryId, Pending, Merging
    <2>6. BehindIsDone'
      BY <1>1 DEF BehindIsDone
    <2> QED BY <1>1, <1>2, <2>1, <2>3, <2>5, <2>6 DEF IInv
  <1> QED BY <1>5, <1>6
-----------------------------------------------------------------------------
LEMMA InitInv == RangesInit => IInv
  <1> SUFFICES ASSUME RangesInit PROVE IInv
    OBVIOUS
  <1>1. mine = <<>> /\ other = <<>> /\ merge = "idle" /\ oi = 1 /\ myi = 1 /\ want = {}
    BY DEF RangesInit
  <1>2. <<>> \in Seq(LifeRange) /\ Len(<<>>) = 0 /\ DOMAIN <<>> = {}
    OBVIOUS
  <1>3. Ids(<<>>) = {} /\ Normal(<<>>)
    BY <1>2 DEF Ids, Normal
  <1>4. RangesTypeOK
    BY <1>1, <1>2 DEF RangesTypeOK, Merging
  <1> QED BY <1>1, <1>3, <1>4 DEF IInv, KeepsEveryId, Pending, BehindIsDone, Merging

LEMMA NextInv == IInv /\ [RangesNext]_rangesVars => IInv'
  <1> SUFFICES ASSUME IInv, [RangesNext]_rangesVars PROVE IInv'
    OBVIOUS
  <1>1. ASSUME NEW s \in Id, SetMineAlive(s) PROVE IInv'
    BY <1>1, SetMineAliveKeeps
  <1>2. ASSUME NEW s \in Id, SetOtherAlive(s) PROVE IInv'
    BY <1>2, SetOtherAliveKeeps
  <1>3. CASE MergeStart
    BY <1>3, MergeStartKeeps
  <1>4. CASE MergeStep
    BY <1>4, AddBeforeKeeps, WidenKeeps, AbsorbKeeps, ProceedKeeps DEF MergeStep
  <1>5. CASE UNCHANGED rangesVars
    BY <1>5 DEF rangesVars, IInv, RangesTypeOK, BehindIsDone, Absorbing, Gap, TakenIn, Behind,
                KeepsEveryId, Pending, Merging
  <1> QED BY <1>1, <1>2, <1>3, <1>4, <1>5 DEF RangesNext

(* The ranges are what they are said to be, and mergeLife's cursors stay   *)
(* inside them: neither m_life is read or erased past its end.             *)
THEOREM RangesTypeCorrect == RangesSpec => []RangesTypeOK
  <1>1. IInv => RangesTypeOK
    BY DEF IInv
  <1> QED BY InitInv, NextInv, <1>1, PTL DEF RangesSpec

(* After any setAlive and mergeLife, in any order, the ranges are in order *)
(* and no two of them touch: what insertion and the overlap test rely on.  *)
THEOREM RangesStayNormal == RangesSpec => []StaysNormal
  <1>1. IInv => StaysNormal
    BY DEF IInv, StaysNormal, Merging
  <1> QED BY InitInv, NextInv, <1>1, PTL DEF RangesSpec

(* A value is alive exactly where setAlive said so, for itself or for a    *)
(* value it was merged with; while mergeLife runs, what is missing is what *)
(* it has not come to.                                                     *)
THEOREM NoIdIsLost == RangesSpec => []KeepsEveryId
  <1>1. IInv => KeepsEveryId
    BY DEF IInv
  <1> QED BY InitInv, NextInv, <1>1, PTL DEF RangesSpec
-----------------------------------------------------------------------------
(* The two vectors' overlap test (ir_values_overlap).                      *)
LEMMA LeastId ==
    ASSUME NEW S, S \subseteq Nat, S # {}
    PROVE  \E j \in S : \A k \in S : j <= k
  <1> DEFINE less == {ss \in Nat \X Nat : ss[1] < ss[2]}
  <1>1. IsWellFoundedOn(less, Nat)
    BY NatLessThanWellFounded DEF OpToRel
  <1>2. PICK j \in S : \A k \in S : ~(<<k, j>> \in less)
    <2> HIDE DEF less
    <2> QED BY <1>1, WFMin
  <1>3. ASSUME NEW k \in S PROVE j <= k
    <2>1. j \in Nat /\ k \in Nat
      OBVIOUS
    <2>2. ~(k < j)
      BY <1>2, <2>1
    <2> QED BY <2>1, <2>2
  <1> QED BY <1>3

(* Ranges of any ids: those of module LifeRanges have a bound.             *)
IdRange == [start : Nat, end : Nat]

LEMMA SpanElements ==
    ASSUME NEW life \in Seq(IdRange)
    PROVE  /\ Len(life) \in Nat /\ DOMAIN life = 1 .. Len(life)
           /\ \A k \in 1 .. Len(life) : life[k].start \in Nat /\ life[k].end \in Nat
  <1>1. Len(life) \in Nat /\ DOMAIN life = 1 .. Len(life)
    OBVIOUS
  <1>2. \A k \in 1 .. Len(life) : life[k] \in IdRange
    OBVIOUS
  <1>3. \A r \in IdRange : r.start \in Nat /\ r.end \in Nat
    BY DEF IdRange
  <1> QED BY <1>1, <1>2, <1>3

(* Ranges that are in order one by one are in order altogether.            *)
LEMMA NormalIsOrdered ==
    ASSUME NEW life \in Seq(IdRange), Normal(life)
    PROVE  \A k \in 1 .. Len(life) :
              /\ life[k].start <= life[k].end
              /\ \A l \in k + 1 .. Len(life) : life[k].end < life[l].start
  <1>1. /\ Len(life) \in Nat /\ DOMAIN life = 1 .. Len(life)
        /\ \A k \in 1 .. Len(life) : life[k].start \in Nat /\ life[k].end \in Nat
    BY SpanElements
  <1>2. \A k \in 1 .. Len(life) : life[k].start <= life[k].end
    BY <1>1 DEF Normal
  <1>3. \A k \in 1 .. Len(life) - 1 : life[k].end + 1 < life[k + 1].start
    BY DEF Normal
  <1>4. ASSUME NEW k \in 1 .. Len(life), NEW l \in k + 1 .. Len(life)
        PROVE  life[k].end < life[l].start
    <2> DEFINE S == {m \in k + 1 .. Len(life) : ~(life[k].end < life[m].start)}
    <2>1. SUFFICES ASSUME S # {} PROVE FALSE
      BY <1>4
    <2>2. S \in SUBSET Nat
      BY <1>1
    <2> HIDE DEF S
    <2>3. PICK m \in S : \A h \in S : m <= h
      BY <2>1, <2>2, LeastId
    <2>4. m \in k + 1 .. Len(life) /\ ~(life[k].end < life[m].start)
      BY <2>3 DEF S
    <2>5. k \in Nat /\ m \in Nat /\ k + 1 <= m /\ m <= Len(life) /\ m - 1 \in 1 .. Len(life) - 1
          /\ m - 1 \in 1 .. Len(life) /\ (m - 1) + 1 = m
      BY <1>1, <2>4
    <2>6. life[m - 1].end + 1 < life[m].start
      BY <1>3, <2>5
    <2>7. life[k].end < life[m - 1].end + 1
      <3>1. CASE m - 1 = k
        BY <1>1, <2>5, <3>1
      <3>2. CASE m - 1 # k
        <4>1. m - 1 \in k + 1 .. Len(life) /\ ~(m <= m - 1)
          BY <1>1, <2>5, <3>2
        <4>2. m - 1 \notin S
          BY <2>3, <4>1
        <4>3. life[k].end < life[m - 1].start
          BY <4>1, <4>2 DEF S
        <4>4. life[m - 1].start <= life[m - 1].end
          BY <1>2, <2>5
        <4> QED BY <1>1, <2>5, <4>3, <4>4
      <3> QED BY <3>1, <3>2
    <2> QED BY <1>1, <2>4, <2>5, <2>6, <2>7
  <1> QED BY <1>2, <1>4

(* Two ranges at the cursors or behind them clash.                         *)
ClashFrom(a, b, la, lb) ==
    \E k \in la .. Len(a), l \in lb .. Len(b) : Clash(a[k], b[l])

(* The one that starts earlier, if these two do not clash, clashes with    *)
(* nothing of the other vector that is still to come.                      *)
LEMMA EarlierIsDone ==
    ASSUME NEW a \in Seq(IdRange), NEW b \in Seq(IdRange), Normal(a), Normal(b),
           ~StartsWithPoint(a, b), NEW la \in 1 .. Len(a), NEW lb \in 1 .. Len(b),
           ~Clash(a[la], b[lb])
    PROVE  /\ a[la].start < b[lb].start => \A l \in lb .. Len(b) : ~Clash(a[la], b[l])
           /\ ~(a[la].start < b[lb].start) => \A k \in la .. Len(a) : ~Clash(a[k], b[lb])
  <1>1. /\ Len(a) \in Nat /\ DOMAIN a = 1 .. Len(a)
        /\ Len(b) \in Nat /\ DOMAIN b = 1 .. Len(b)
        /\ \A k \in 1 .. Len(a) : a[k].start \in Nat /\ a[k].end \in Nat
        /\ \A k \in 1 .. Len(b) : b[k].start \in Nat /\ b[k].end \in Nat
    BY SpanElements
  <1>2. /\ \A k \in 1 .. Len(a) : /\ a[k].start <= a[k].end
                                  /\ \A l \in k + 1 .. Len(a) : a[k].end < a[l].start
        /\ \A k \in 1 .. Len(b) : /\ b[k].start <= b[k].end
                                  /\ \A l \in k + 1 .. Len(b) : b[k].end < b[l].start
    BY NormalIsOrdered
  <1>3. ~(a[la].start < b[lb].end) \/ ~(b[lb].start < a[la].end)
    BY DEF Clash
  <1>4. ~(a[la].start = a[la].end /\ b[lb].start = a[la].start)
    BY <1>1 DEF StartsWithPoint
  <1>5. ASSUME a[la].start < b[lb].start, NEW l \in lb .. Len(b)
        PROVE  ~Clash(a[la], b[l])
    <2>1. a[la].end <= b[lb].start
      BY <1>1, <1>2, <1>3, <1>5
    <2>2. b[lb].start <= b[l].start
      <3>1. CASE l = lb
        BY <1>1, <3>1
      <3>2. CASE l # lb
        <4>1. l \in lb + 1 .. Len(b) /\ l \in 1 .. Len(b)
          BY <1>1, <3>2
        <4>2. b[lb].end < b[l].start /\ b[lb].start <= b[lb].end
          BY <1>2, <4>1
        <4> QED BY <1>1, <4>1, <4>2
      <3> QED BY <3>1, <3>2
    <2>3. l \in 1 .. Len(b)
      BY <1>1
    <2>4. ~(b[l].start < a[la].end)
      BY <1>1, <2>1, <2>2, <2>3
    <2> QED BY <2>4 DEF Clash
  <1>6. ASSUME ~(a[la].start < b[lb].start), NEW k \in la .. Len(a)
        PROVE  ~Clash(a[k], b[lb])
    <2>1. b[lb].end <= a[la].start
      BY <1>1, <1>2, <1>3, <1>4, <1>6
    <2>2. a[la].start <= a[k].start
      <3>1. CASE k = la
        BY <1>1, <3>1
      <3>2. CASE k # la
        <4>1. k \in la + 1 .. Len(a) /\ k \in 1 .. Len(a)
          BY <1>1, <3>2
        <4>2. a[la].end < a[k].start /\ a[la].start <= a[la].end
          BY <1>2, <4>1
        <4> QED BY <1>1, <4>1, <4>2
      <3> QED BY <3>1, <3>2
    <2>3. k \in 1 .. Len(a)
      BY <1>1
    <2>4. ~(a[k].start < b[lb].end)
      BY <1>1, <2>1, <2>2, <2>3
    <2> QED BY <2>4 DEF Clash
  <1> QED BY <1>5, <1>6

(* What one turn of ir_values_overlap's loop answers, if `later` is what   *)
(* those after it do.                                                      *)
Turn(a, b, later, la, lb) ==
    IF la > Len(a) \/ lb > Len(b) THEN FALSE
    ELSE IF Clash(a[la], b[lb]) THEN TRUE
    ELSE IF a[la].start < b[lb].start THEN later[<<la + 1, lb>>]
    ELSE later[<<la, lb + 1>>]

LEMMA ClashFromTurns ==
    ASSUME NEW a \in Seq(IdRange), NEW b \in Seq(IdRange), Normal(a), Normal(b),
           ~StartsWithPoint(a, b), NEW la \in 1 .. Len(a) + 1, NEW lb \in 1 .. Len(b) + 1
    PROVE  /\ la > Len(a) \/ lb > Len(b) => ~ClashFrom(a, b, la, lb)
           /\ la <= Len(a) /\ lb <= Len(b) =>
                 /\ Clash(a[la], b[lb]) => ClashFrom(a, b, la, lb)
                 /\ ~Clash(a[la], b[lb]) /\ a[la].start < b[lb].start =>
                       (ClashFrom(a, b, la, lb) <=> ClashFrom(a, b, la + 1, lb))
                 /\ ~Clash(a[la], b[lb]) /\ ~(a[la].start < b[lb].start) =>
                       (ClashFrom(a, b, la, lb) <=> ClashFrom(a, b, la, lb + 1))
  <1>1. Len(a) \in Nat /\ Len(b) \in Nat
    OBVIOUS
  <1>2. la > Len(a) \/ lb > Len(b) => ~ClashFrom(a, b, la, lb)
    BY <1>1 DEF ClashFrom
  <1>3. ASSUME la <= Len(a), lb <= Len(b)
        PROVE  /\ la \in 1 .. Len(a) /\ lb \in 1 .. Len(b)
               /\ \A k : k \in la .. Len(a) <=> k = la \/ k \in la + 1 .. Len(a)
               /\ \A l : l \in lb .. Len(b) <=> l = lb \/ l \in lb + 1 .. Len(b)
    BY <1>1, <1>3
  <1>4. ASSUME la <= Len(a), lb <= Len(b), ~Clash(a[la], b[lb])
        PROVE  /\ a[la].start < b[lb].start => \A l \in lb .. Len(b) : ~Clash(a[la], b[l])
               /\ ~(a[la].start < b[lb].start) => \A k \in la .. Len(a) : ~Clash(a[k], b[lb])
    BY <1>3, <1>4, EarlierIsDone
  <1>5. la <= Len(a) /\ lb <= Len(b) /\ Clash(a[la], b[lb]) => ClashFrom(a, b, la, lb)
    BY <1>3 DEF ClashFrom
  <1>6. ASSUME la <= Len(a), lb <= Len(b), ~Clash(a[la], b[lb]), a[la].start < b[lb].start
        PROVE  ClashFrom(a, b, la, lb) <=> ClashFrom(a, b, la + 1, lb)
    <2>1. \A l \in lb .. Len(b) : ~Clash(a[la], b[l])
      BY <1>4, <1>6
    <2>2. \A k : k \in la .. Len(a) <=> k = la \/ k \in la + 1 .. Len(a)
      BY <1>3, <1>6
    <2> QED BY <2>1, <2>2, Zenon DEF ClashFrom
  <1>7. ASSUME la <= Len(a), lb <= Len(b), ~Clash(a[la], b[lb]), ~(a[la].start < b[lb].start)
        PROVE  ClashFrom(a, b, la, lb) <=> ClashFrom(a, b, la, lb + 1)
    <2>1. \A k \in la .. Len(a) : ~Clash(a[k], b[lb])
      BY <1>4, <1>7
    <2>2. \A l : l \in lb .. Len(b) <=> l = lb \/ l \in lb + 1 .. Len(b)
      BY <1>3, <1>7
    <2> QED BY <2>1, <2>2, Zenon DEF ClashFrom
  <1> QED BY <1>2, <1>5, <1>6, <1>7

(* Every table of answers that agrees with the loop's turns finds exactly  *)
(* the clashes: were there a cursor where it is wrong, it would be wrong   *)
(* further on.                                                             *)
LEMMA WalkFinds ==
    ASSUME NEW a \in Seq(IdRange), NEW b \in Seq(IdRange), Normal(a), Normal(b),
           ~StartsWithPoint(a, b), NEW walk,
           \A la \in 1 .. Len(a) + 1, lb \in 1 .. Len(b) + 1 :
               walk[<<la, lb>>] = Turn(a, b, walk, la, lb)
    PROVE  walk[<<1, 1>>] <=> ClashFrom(a, b, 1, 1)
  <1> DEFINE wrong(d) == \E la \in 1 .. Len(a) + 1, lb \in 1 .. Len(b) + 1 :
                             /\ d = (Len(a) + 1 - la) + (Len(b) + 1 - lb)
                             /\ ~(walk[<<la, lb>>] <=> ClashFrom(a, b, la, lb))
             S == {d \in Nat : wrong(d)}
  <1>1. Len(a) \in Nat /\ Len(b) \in Nat
    OBVIOUS
  <1>2. SUFFICES ASSUME ~(walk[<<1, 1>>] <=> ClashFrom(a, b, 1, 1)) PROVE FALSE
    OBVIOUS
  <1>3. (Len(a) + 1 - 1) + (Len(b) + 1 - 1) \in S
    <2> DEFINE d == (Len(a) + 1 - 1) + (Len(b) + 1 - 1)
    <2>1. d \in Nat /\ 1 \in 1 .. Len(a) + 1 /\ 1 \in 1 .. Len(b) + 1
      BY <1>1
    <2>2. wrong(d)
      <3>1. d = (Len(a) + 1 - 1) + (Len(b) + 1 - 1)
        OBVIOUS
      <3> HIDE DEF d
      <3> QED BY <1>2, <2>1, <3>1
    <2> HIDE DEF wrong
    <2> QED BY <2>1, <2>2
  <1>4. S \subseteq Nat /\ S # {}
    BY <1>3
  <1> HIDE DEF S
  <1>5. PICK d \in S : \A e \in S : d <= e
    BY <1>4, LeastId
  <1>6. PICK la \in 1 .. Len(a) + 1, lb \in 1 .. Len(b) + 1 :
            /\ d = (Len(a) + 1 - la) + (Len(b) + 1 - lb)
            /\ ~(walk[<<la, lb>>] <=> ClashFrom(a, b, la, lb))
    BY <1>5 DEF S
  <1>7. ASSUME la <= Len(a) PROVE walk[<<la + 1, lb>>] <=> ClashFrom(a, b, la + 1, lb)
    <2>1. la + 1 \in 1 .. Len(a) + 1
      BY <1>1, <1>7
    <2>2. (Len(a) + 1 - (la + 1)) + (Len(b) + 1 - lb) \in Nat
          /\ (Len(a) + 1 - (la + 1)) + (Len(b) + 1 - lb) < d
      BY <1>1, <1>6, <1>7
    <2>3. (Len(a) + 1 - (la + 1)) + (Len(b) + 1 - lb) \notin S
      BY <1>1, <1>5, <2>2, <1>4
    <2> QED BY <2>1, <2>2, <2>3 DEF S
  <1>8. ASSUME lb <= Len(b) PROVE walk[<<la, lb + 1>>] <=> ClashFrom(a, b, la, lb + 1)
    <2>1. lb + 1 \in 1 .. Len(b) + 1
      BY <1>1, <1>8
    <2>2. (Len(a) + 1 - la) + (Len(b) + 1 - (lb + 1)) \in Nat
          /\ (Len(a) + 1 - la) + (Len(b) + 1 - (lb + 1)) < d
      BY <1>1, <1>6, <1>8
    <2>3. (Len(a) + 1 - la) + (Len(b) + 1 - (lb + 1)) \notin S
      BY <1>1, <1>5, <2>2, <1>4
    <2> QED BY <2>1, <2>2, <2>3 DEF S
  <1>9. walk[<<la, lb>>] = Turn(a, b, walk, la, lb)
    OBVIOUS
  <1>10. /\ la > Len(a) \/ lb > Len(b) => ~ClashFrom(a, b, la, lb)
         /\ la <= Len(a) /\ lb <= Len(b) =>
               /\ Clash(a[la], b[lb]) => ClashFrom(a, b, la, lb)
               /\ ~Clash(a[la], b[lb]) /\ a[la].start < b[lb].start =>
                     (ClashFrom(a, b, la, lb) <=> ClashFrom(a, b, la + 1, lb))
               /\ ~Clash(a[la], b[lb]) /\ ~(a[la].start < b[lb].start) =>
                     (ClashFrom(a, b, la, lb) <=> ClashFrom(a, b, la, lb + 1))
    BY ClashFromTurns
  <1>11. CASE la > Len(a) \/ lb > Len(b)
    <2>1. walk[<<la, lb>>] = FALSE
      BY <1>9, <1>11 DEF Turn
    <2> QED BY <1>6, <1>10, <1>11, <2>1
  <1>12. CASE ~(la > Len(a) \/ lb > Len(b)) /\ Clash(a[la], b[lb])
    <2>1. walk[<<la, lb>>] = TRUE
      BY <1>9, <1>12 DEF Turn
    <2>2. la <= Len(a) /\ lb <= Len(b)
      BY <1>1, <1>12
    <2> QED BY <1>6, <1>10, <1>12, <2>1, <2>2
  <1>13. CASE /\ ~(la > Len(a) \/ lb > Len(b)) /\ ~Clash(a[la], b[lb])
              /\ a[la].start < b[lb].start
    <2>1. walk[<<la, lb>>] = walk[<<la + 1, lb>>]
      BY <1>9, <1>13 DEF Turn
    <2>2. la <= Len(a) /\ lb <= Len(b)
      BY <1>1, <1>13
    <2> QED BY <1>6, <1>7, <1>10, <1>13, <2>1, <2>2
  <1>14. CASE /\ ~(la > Len(a) \/ lb > Len(b)) /\ ~Clash(a[la], b[lb])
              /\ ~(a[la].start < b[lb].start)
    <2>1. walk[<<la, lb>>] = walk[<<la, lb + 1>>]
      BY <1>9, <1>14 DEF Turn
    <2>2. la <= Len(a) /\ lb <= Len(b)
      BY <1>1, <1>14
    <2> QED BY <1>6, <1>8, <1>10, <1>14, <2>1, <2>2
  <1> QED BY <1>11, <1>12, <1>13, <1>14

(* There is such a table, so ir_values_overlap's is one.                   *)
LEMMA OverlapFinds ==
    ASSUME NEW a \in Seq(IdRange), NEW b \in Seq(IdRange), Normal(a), Normal(b),
           ~StartsWithPoint(a, b)
    PROVE  Overlap(a, b) <=> ClashFrom(a, b, 1, 1)
  <1> DEFINE A == 1 .. Len(a) + 1
             B == 1 .. Len(b) + 1
             Loops(w) == w = [c \in A \X B |-> Turn(a, b, w, c[1], c[2])]
             found == [c \in A \X B |-> IF ClashFrom(a, b, c[1], c[2]) THEN TRUE ELSE FALSE]
             walk == CHOOSE w : Loops(w)
  <1>1. Len(a) \in Nat /\ Len(b) \in Nat
    OBVIOUS
  <1>2. \A la \in A, lb \in B :
            found[<<la, lb>>] = IF ClashFrom(a, b, la, lb) THEN TRUE ELSE FALSE
    OBVIOUS
  <1>3. ASSUME NEW la \in A, NEW lb \in B
        PROVE  found[<<la, lb>>] = Turn(a, b, found, la, lb)
    <2> HIDE DEF found
    <2>1. /\ la > Len(a) \/ lb > Len(b) => ~ClashFrom(a, b, la, lb)
          /\ la <= Len(a) /\ lb <= Len(b) =>
                /\ Clash(a[la], b[lb]) => ClashFrom(a, b, la, lb)
                /\ ~Clash(a[la], b[lb]) /\ a[la].start < b[lb].start =>
                      (ClashFrom(a, b, la, lb) <=> ClashFrom(a, b, la + 1, lb))
                /\ ~Clash(a[la], b[lb]) /\ ~(a[la].start < b[lb].start) =>
                      (ClashFrom(a, b, la, lb) <=> ClashFrom(a, b, la, lb + 1))
      BY ClashFromTurns
    <2>2. CASE la > Len(a) \/ lb > Len(b)
      BY <1>2, <2>1, <2>2 DEF Turn
    <2>3. CASE ~(la > Len(a) \/ lb > Len(b))
      <3>1. la <= Len(a) /\ lb <= Len(b) /\ la + 1 \in A /\ lb + 1 \in B
        BY <1>1, <2>3
      <3>2. /\ found[<<la + 1, lb>>] = IF ClashFrom(a, b, la + 1, lb) THEN TRUE ELSE FALSE
            /\ found[<<la, lb + 1>>] = IF ClashFrom(a, b, la, lb + 1) THEN TRUE ELSE FALSE
            /\ found[<<la, lb>>] = IF ClashFrom(a, b, la, lb) THEN TRUE ELSE FALSE
        BY <1>2, <3>1
      <3>3. CASE Clash(a[la], b[lb])
        <4>1. Turn(a, b, found, la, lb) = TRUE
          BY <2>3, <3>3 DEF Turn
        <4> QED BY <2>1, <3>1, <3>2, <3>3, <4>1
      <3>4. CASE ~Clash(a[la], b[lb]) /\ a[la].start < b[lb].start
        <4>1. Turn(a, b, found, la, lb) = found[<<la + 1, lb>>]
          BY <2>3, <3>4 DEF Turn
        <4> QED BY <2>1, <3>1, <3>2, <3>4, <4>1
      <3>5. CASE ~Clash(a[la], b[lb]) /\ ~(a[la].start < b[lb].start)
        <4>1. Turn(a, b, found, la, lb) = found[<<la, lb + 1>>]
          BY <2>3, <3>5 DEF Turn
        <4> QED BY <2>1, <3>1, <3>2, <3>5, <4>1
      <3> QED BY <3>3, <3>4, <3>5
    <2> QED BY <2>2, <2>3
  <1>4. Loops(found)
    BY <1>3, Zenon
  <1>5. Loops(walk)
    <2> HIDE DEF Loops, found
    <2> QED BY <1>4, Zenon
  <1>6. \A la \in A, lb \in B : walk[<<la, lb>>] = Turn(a, b, walk, la, lb)
    <2> HIDE DEF walk
    <2> QED BY <1>5
  <1>7. walk[<<1, 1>>] <=> ClashFrom(a, b, 1, 1)
    <2> HIDE DEF walk
    <2> QED BY <1>6, WalkFinds, Zenon
  <1>8. Overlap(a, b) = walk[<<1, 1>>]
    BY Zenon DEF Overlap, Turn
  <1> QED BY <1>7, <1>8

(* Whatever was set alive and merged, in order and apart, ir_values_overlap*)
(* says that two values overlap exactly when two of their ranges clash:    *)
(* walking on from the one that starts earlier skips no clash, except      *)
(* where a value is written in vain and another one starts there.          *)
THEOREM OverlapAlwaysExact == RangesSpec => []OverlapExact
  <1>1. IInv => OverlapExact
    <2> SUFFICES ASSUME IInv, ~Merging, ~StartsWithPoint(mine, other)
                 PROVE  Overlap(mine, other) <=>
                           \E k \in DOMAIN mine, l \in DOMAIN other : Clash(mine[k], other[l])
      BY DEF OverlapExact
    <2>0. LifeRange \subseteq IdRange
      BY LifeRangeFacts DEF LifeRange, IdRange
    <2>1. mine \in Seq(IdRange) /\ other \in Seq(IdRange)
          /\ DOMAIN mine = 1 .. Len(mine) /\ DOMAIN other = 1 .. Len(other)
      <3>1. mine \in Seq(LifeRange) /\ other \in Seq(LifeRange)
            /\ DOMAIN mine = 1 .. Len(mine) /\ DOMAIN other = 1 .. Len(other)
        BY InvFacts
      <3>2. \A k \in 1 .. Len(mine) : mine[k] \in IdRange
        BY <2>0, <3>1
      <3>3. \A k \in 1 .. Len(other) : other[k] \in IdRange
        BY <2>0, <3>1
      <3> QED BY <3>1, <3>2, <3>3
    <2>2. Normal(mine) /\ Normal(other)
      BY DEF IInv, Merging
    <2>3. Overlap(mine, other) <=> ClashFrom(mine, other, 1, 1)
      BY <2>1, <2>2, OverlapFinds
    <2> QED BY <2>1, <2>3 DEF ClashFrom
  <1> QED BY InitInv, NextInv, <1>1, PTL DEF RangesSpec
-----------------------------------------------------------------------------
(* RangesOf: the ranges of a set of ids, from their starts.                *)
Starts(ids) == {s \in ids : s - 1 \notin ids}
EndsRun(ids, s, e) == e >= s /\ s .. e \subseteq ids /\ e + 1 \notin ids
Rank(S, s) == Cardinality({r \in S : r < s})

LEMMA RunBegins ==
    ASSUME NEW ids \in SUBSET Nat, NEW x \in ids
    PROVE  \E s \in Starts(ids) : s <= x /\ s .. x \subseteq ids
  <1> DEFINE T == {s \in Nat : s <= x /\ s .. x \subseteq ids}
  <1>1. x \in T
    BY SMT
  <1>2. PICK s \in T : \A r \in T : s <= r
    <2>1. T \subseteq Nat /\ T # {}
      BY <1>1
    <2> HIDE DEF T
    <2> QED BY <2>1, LeastId
  <1>3. s \in ids
    BY <1>2
  <1>4. s - 1 \notin ids
    <2>1. SUFFICES ASSUME s - 1 \in ids PROVE FALSE
      OBVIOUS
    <2>2. s - 1 \in Nat /\ s - 1 <= x /\ ~(s <= s - 1)
      BY <1>2, <2>1
    <2>3. (s - 1) .. x \subseteq ids
      BY <1>2, <2>1
    <2> QED BY <1>2, <2>2, <2>3
  <1> QED BY <1>2, <1>3, <1>4 DEF Starts

LEMMA RunEnds ==
    ASSUME NEW m \in Nat, NEW ids \in SUBSET (0 .. m), NEW s \in ids
    PROVE  \E e \in ids : EndsRun(ids, s, e)
  <1> DEFINE T == {k \in Nat : s < k /\ k \notin ids}
  <1>1. s \in Nat /\ m + 1 \in T
    BY SMT
  <1>2. PICK k \in T : \A r \in T : k <= r
    <2>1. T \subseteq Nat /\ T # {}
      BY <1>1
    <2> HIDE DEF T
    <2> QED BY <2>1, LeastId
  <1>3. k - 1 >= s /\ k - 1 \in Nat /\ (k - 1) + 1 = k /\ k \notin ids
    BY <1>1, <1>2
  <1>4. s .. (k - 1) \subseteq ids
    <2>1. SUFFICES ASSUME NEW j \in s .. (k - 1), j \notin ids PROVE FALSE
      OBVIOUS
    <2>2. j \in Nat /\ j # s /\ s < j /\ ~(k <= j)
      BY <1>1, <1>2, <2>1
    <2> QED BY <1>2, <2>1, <2>2
  <1>5. k - 1 \in ids
    BY <1>1, <1>3, <1>4
  <1> QED BY <1>3, <1>4, <1>5 DEF EndsRun

(* Ranks: strictly rising, so each from 0 to the last is somebody's.       *)
LEMMA RankRises ==
    ASSUME NEW S \in SUBSET Nat, IsFiniteSet(S)
    PROVE  /\ \A s \in S : Rank(S, s) \in Nat /\ Rank(S, s) < Cardinality(S)
           /\ \A s \in S, t \in S : s < t => Rank(S, s) < Rank(S, t)
  <1>1. \A s \in S : LET below == {r \in S : r < s} IN
            /\ IsFiniteSet(below) /\ Cardinality(below) \in Nat
            /\ IsFiniteSet(below \cup {s})
            /\ Cardinality(below \cup {s}) = Cardinality(below) + 1
    <2> TAKE s \in S
    <2> DEFINE below == {r \in S : r < s}
    <2>1. below \in SUBSET S /\ s \notin below
      OBVIOUS
    <2> HIDE DEF below
    <2>2. IsFiniteSet(below)
      BY <2>1, FS_Subset
    <2> QED BY <2>1, <2>2, FS_AddElement, FS_CardinalityType DEF below
  <1>2. ASSUME NEW s \in S PROVE Rank(S, s) \in Nat /\ Rank(S, s) < Cardinality(S)
    <2> DEFINE below == {r \in S : r < s}
    <2>1. (below \cup {s}) \in SUBSET S
      OBVIOUS
    <2>2. /\ Cardinality(below) \in Nat /\ IsFiniteSet(below \cup {s})
          /\ Cardinality(below \cup {s}) = Cardinality(below) + 1
      BY <1>1
    <2>3. Rank(S, s) = Cardinality(below)
      BY DEF Rank
    <2> HIDE DEF below
    <2>4. Cardinality(below \cup {s}) <= Cardinality(S) /\ Cardinality(S) \in Nat
      BY <2>1, FS_Subset, FS_CardinalityType
    <2> QED BY <2>2, <2>3, <2>4
  <1>3. ASSUME NEW s \in S, NEW t \in S, s < t PROVE Rank(S, s) < Rank(S, t)
    <2> DEFINE below == {r \in S : r < s}
               under == {r \in S : r < t}
    <2>1. (below \cup {s}) \in SUBSET under
      <3>1. \A r \in S : r < s => r < t
        BY <1>3
      <3> QED BY <1>3, <3>1
    <2>2. /\ Cardinality(below) \in Nat /\ IsFiniteSet(below \cup {s})
          /\ Cardinality(below \cup {s}) = Cardinality(below) + 1
          /\ IsFiniteSet(under) /\ Cardinality(under) \in Nat
      BY <1>1
    <2>3. Rank(S, s) = Cardinality(below) /\ Rank(S, t) = Cardinality(under)
      BY DEF Rank
    <2> HIDE DEF below, under
    <2>4. Cardinality(below \cup {s}) <= Cardinality(under)
      BY <2>1, <2>2, FS_Subset
    <2> QED BY <2>2, <2>3, <2>4
  <1> QED BY <1>2, <1>3

LEMMA RankReached ==
    ASSUME NEW S \in SUBSET Nat, IsFiniteSet(S), NEW k \in 1 .. Cardinality(S)
    PROVE  \E s \in S : Rank(S, s) = k - 1
  <1> DEFINE N == Cardinality(S)
             f == [s \in S |-> Rank(S, s) + 1]
  <1>1. N \in Nat
    BY FS_CardinalityType
  <1>2. IsFiniteSet(1 .. N) /\ Cardinality(1 .. N) = N
    <2>1. IsFiniteSet(1 .. N) /\ Cardinality(1 .. N) = IF 1 > N THEN 0 ELSE N - 1 + 1
      BY <1>1, FS_Interval
    <2> QED BY <1>1, <2>1
  <1>3. \A s \in S : Rank(S, s) \in Nat /\ Rank(S, s) < N
    BY RankRises
  <1>4. f \in [S -> 1 .. N]
    BY <1>1, <1>3
  <1>5. \A s, t \in S : f[s] = f[t] => s = t
    <2>1. \A s, t \in S : s < t => Rank(S, s) < Rank(S, t)
      BY RankRises
    <2>2. \A s, t \in S : s # t => s < t \/ t < s
      OBVIOUS
    <2> QED BY <1>3, <2>1, <2>2
  <1>6. f \in Injection(S, 1 .. N)
    BY <1>4, <1>5 DEF Injection, IsInjective
  <1>7. f \in Surjection(S, 1 .. N)
    <2> HIDE DEF f
    <2>1. Cardinality(S) = Cardinality(1 .. N)
      BY <1>2
    <2> QED BY <1>2, <1>6, <2>1, FS_Injection
  <1>8. PICK s \in S : f[s] = k
    BY <1>7 DEF Surjection
  <1> QED BY <1>3, <1>8

(* The ranges are in order, are runs of the ids, and every run is there.   *)
LEMMA RangesAreRuns ==
    ASSUME NEW m \in Nat, NEW ids \in SUBSET (0 .. m)
    PROVE  LET R == RangesOf(ids) IN
           /\ R \in Seq(IdRange)
           /\ Normal(R)
           /\ \A k \in 1 .. Len(R) : /\ R[k].start \in Starts(ids) /\ R[k].end \in ids
                                     /\ EndsRun(ids, R[k].start, R[k].end)
           /\ \A s \in Starts(ids) : \E k \in 1 .. Len(R) : R[k].start = s
  <1> DEFINE S == Starts(ids)
             R == RangesOf(ids)
             first(k) == CHOOSE s \in S : Rank(S, s) = k - 1
             last(s) == CHOOSE e \in ids : EndsRun(ids, s, e)
             N == Cardinality(S)
  <1>1. S \in SUBSET ids /\ ids \in SUBSET Nat
    BY DEF Starts
  <1>2. IsFiniteSet(S) /\ N \in Nat
    <2>1. IsFiniteSet(0 .. m)
      BY FS_Interval
    <2>2. S \in SUBSET (0 .. m)
      BY <1>1
    <2> HIDE DEF S
    <2>3. IsFiniteSet(S)
      BY <2>1, <2>2, FS_Subset
    <2> QED BY <2>3, FS_CardinalityType
  <1>3. R = [k \in 1 .. N |-> Interval(first(k), last(first(k)))]
    BY DEF RangesOf, Rank, EndsRun, Starts
  <1>4. \A k \in 1 .. N : first(k) \in S /\ Rank(S, first(k)) = k - 1
    <2> TAKE k \in 1 .. N
    <2>1. \E s \in S : Rank(S, s) = k - 1
      <3>1. S \in SUBSET Nat
        BY <1>1
      <3> HIDE DEF S
      <3> QED BY <1>2, <3>1, RankReached
    <2> HIDE DEF S
    <2> QED BY <2>1
  <1>5. \A s \in S : last(s) \in ids /\ EndsRun(ids, s, last(s))
    <2> TAKE s \in S
    <2>1. s \in ids
      BY <1>1
    <2>2. \E e \in ids : EndsRun(ids, s, e)
      BY <2>1, RunEnds
    <2> QED BY <2>2
  <1> HIDE DEF first, last, S, R
  <1>6. \A k \in 1 .. N : R[k] = [start |-> first(k), end |-> last(first(k))]
    BY <1>3 DEF Interval
  <1>7. \A k \in 1 .. N : /\ first(k) \in Nat /\ last(first(k)) \in Nat
                          /\ R[k].start = first(k) /\ R[k].end = last(first(k))
                          /\ R[k] \in IdRange
    <2> TAKE k \in 1 .. N
    <2>1. first(k) \in Nat /\ last(first(k)) \in Nat
      BY <1>1, <1>4, <1>5
    <2>2. R[k] = [start |-> first(k), end |-> last(first(k))]
      BY <1>6
    <2>3. R[k] \in IdRange
      BY <2>1, <2>2 DEF IdRange
    <2>4. R[k].start = first(k) /\ R[k].end = last(first(k))
      BY <2>2
    <2> QED BY <2>1, <2>3, <2>4
  <1>8. R \in Seq(IdRange) /\ Len(R) = N /\ DOMAIN R = 1 .. N
    <2>1. DOMAIN R = 1 .. N
      BY <1>3
    <2>2. R = [k \in 1 .. N |-> R[k]]
      BY <1>3
    <2>3. R \in [1 .. N -> IdRange]
      BY <1>7, <2>1, <2>2
    <2> QED BY <1>2, <2>1, <2>3
  <1>9. Normal(R)
    <2>1. ASSUME NEW k \in 1 .. N PROVE R[k].start <= R[k].end
      BY <1>4, <1>5, <1>7, <2>1 DEF EndsRun
    <2>2. ASSUME NEW k \in 1 .. N - 1 PROVE R[k].end + 1 < R[k + 1].start
      <3> DEFINE s == first(k)
                 t == first(k + 1)
                 e == last(s)
      <3>1. k \in 1 .. N /\ k + 1 \in 1 .. N /\ k \in Nat
        BY <1>2
      <3>2. s \in S /\ t \in S /\ Rank(S, s) = k - 1 /\ Rank(S, t) = k
        BY <1>4, <3>1
      <3>3. s \in Nat /\ t \in Nat /\ e \in Nat
        BY <1>7, <3>1
      <3>4. EndsRun(ids, s, e)
        BY <1>5, <3>2
      <3> HIDE DEF s, t, e
      <3>5. s < t
        <4>1. S \in SUBSET Nat
          BY <1>1
        <4>2. t < s => Rank(S, t) < Rank(S, s)
          BY <1>2, <3>2, <4>1, RankRises
        <4>3. ~(t < s) /\ s # t
          BY <3>1, <3>2, <4>2
        <4> QED BY <3>3, <4>3
      <3>6. t - 1 \notin ids
        BY <3>2 DEF S, Starts
      <3>7. ~(t <= e + 1)
        <4>1. SUFFICES ASSUME t <= e + 1 PROVE FALSE
          OBVIOUS
        <4>2. t - 1 \in s .. e
          BY <3>3, <3>5, <4>1
        <4> QED BY <3>4, <3>6, <4>2 DEF EndsRun
      <3> QED BY <1>7, <3>1, <3>3, <3>7 DEF s, t, e
    <2> QED BY <1>8, <2>1, <2>2 DEF Normal
  <1>10. \A s \in S : \E k \in 1 .. N : R[k].start = s
    <2> TAKE s \in S
    <2>1. S \in SUBSET Nat
      BY <1>1
    <2>2. Rank(S, s) \in Nat /\ Rank(S, s) < N
      BY <1>2, <2>1, RankRises
    <2> DEFINE k == Rank(S, s) + 1
               t == first(k)
    <2>3. k \in 1 .. N /\ k - 1 = Rank(S, s)
      BY <1>2, <2>2
    <2>4. t \in S /\ Rank(S, t) = Rank(S, s)
      BY <1>4, <2>3
    <2>5. t = s
      <3>1. s \in Nat /\ t \in Nat /\ (s < t => Rank(S, s) < Rank(S, t))
            /\ (t < s => Rank(S, t) < Rank(S, s))
        BY <1>2, <2>1, <2>4, RankRises
      <3> QED BY <2>2, <2>4, <3>1
    <2> QED BY <1>7, <2>3, <2>5
  <1>11. \A k \in 1 .. N : /\ R[k].start \in S /\ R[k].end \in ids
                           /\ EndsRun(ids, R[k].start, R[k].end)
    BY <1>4, <1>5, <1>7
  <1> QED BY <1>8, <1>9, <1>10, <1>11 DEF S, R

(* An id of X at which Y goes on living: two values with such lives cannot *)
(* share a slot.                                                           *)
Inside(X, Y) == \E s \in X : s - 1 \in Y /\ s \in Y /\ s + 1 \in Y

(* A single id of X with which a range of Y starts.                        *)
PointMeets(X, Y) == \E s \in X \cap Y : s - 1 \notin X /\ s + 1 \notin X /\ s - 1 \notin Y

LEMMA RunAround ==
    ASSUME NEW m \in Nat, NEW ids \in SUBSET (0 .. m), NEW r \in Nat, NEW s \in Nat,
           r <= s, r .. s \subseteq ids
    PROVE  \E k \in 1 .. Len(RangesOf(ids)) :
              RangesOf(ids)[k].start <= r /\ s <= RangesOf(ids)[k].end
  <1> DEFINE R == RangesOf(ids)
  <1>1. r \in ids /\ ids \in SUBSET Nat
    BY SMT
  <1>2. PICK t \in Starts(ids) : t <= r /\ t .. r \subseteq ids
    BY <1>1, RunBegins
  <1>3. PICK k \in 1 .. Len(R) : R[k].start = t
    BY <1>2, RangesAreRuns
  <1>4. R[k].end \in ids /\ EndsRun(ids, R[k].start, R[k].end)
    BY RangesAreRuns
  <1> HIDE DEF R
  <1>5. t \in Nat /\ R[k].end \in Nat
    BY <1>1, <1>2, <1>4 DEF Starts
  <1>6. s <= R[k].end
    <2>1. SUFFICES ASSUME R[k].end < s PROVE FALSE
      BY <1>5
    <2>2. R[k].end + 1 \in t .. s
      BY <1>3, <1>4, <1>5, <2>1 DEF EndsRun
    <2>3. t .. s \subseteq ids
      BY <1>2, <1>5
    <2> QED BY <1>4, <2>2, <2>3 DEF EndsRun
  <1> QED BY <1>2, <1>3, <1>6 DEF R

(* What ir_values_overlap lets share a slot is never inside one another.   *)
LEMMA NoOverlapApart ==
    ASSUME NEW m \in Nat, NEW X \in SUBSET (0 .. m), NEW Y \in SUBSET (0 .. m),
           ~Overlap(RangesOf(X), RangesOf(Y)), ~PointMeets(X, Y)
    PROVE  ~Inside(X, Y) /\ ~Inside(Y, X)
  <1> DEFINE A == RangesOf(X)
             B == RangesOf(Y)
  <1>1. A \in Seq(IdRange) /\ B \in Seq(IdRange) /\ Normal(A) /\ Normal(B)
    BY RangesAreRuns
  <1>2. /\ \A k \in 1 .. Len(A) : /\ A[k].start \in Starts(X) /\ A[k].end \in X
                                  /\ EndsRun(X, A[k].start, A[k].end)
        /\ \A k \in 1 .. Len(B) : /\ B[k].start \in Starts(Y) /\ B[k].end \in Y
                                  /\ EndsRun(Y, B[k].start, B[k].end)
    BY RangesAreRuns
  <1> HIDE DEF A, B
  <1>3. ~StartsWithPoint(A, B)
    <2>1. SUFFICES ASSUME NEW k \in DOMAIN A, NEW l \in DOMAIN B,
                          A[k].start = A[k].end, B[l].start = A[k].start
                   PROVE  FALSE
      BY DEF StartsWithPoint
    <2>2. k \in 1 .. Len(A) /\ l \in 1 .. Len(B)
      BY <1>1
    <2>3. A[k].start \in X /\ A[k].start - 1 \notin X /\ A[k].start + 1 \notin X
      BY <1>2, <2>1, <2>2 DEF Starts, EndsRun
    <2>4. A[k].start \in Y /\ A[k].start - 1 \notin Y
      BY <1>2, <2>1, <2>2 DEF Starts
    <2> QED BY <2>3, <2>4 DEF PointMeets
  <1>4. ~ClashFrom(A, B, 1, 1)
    BY <1>1, <1>3, OverlapFinds DEF A, B
  <1>5. ASSUME NEW s \in Nat, s - 1 \in Nat,
               \/ s \in X /\ s - 1 \in Y /\ s \in Y /\ s + 1 \in Y
               \/ s \in Y /\ s - 1 \in X /\ s \in X /\ s + 1 \in X
        PROVE  FALSE
    <2>1. PICK a \in Nat, c \in Nat, b \in Nat, d \in Nat :
              /\ a <= c /\ a .. c \subseteq X /\ b <= d /\ b .. d \subseteq Y
              /\ a < d /\ b < c
      <3>1. CASE s \in X /\ s - 1 \in Y /\ s \in Y /\ s + 1 \in Y
        <4>1. s .. s \subseteq X /\ (s - 1) .. (s + 1) \subseteq Y
          BY <3>1
        <4>2. s <= s /\ s - 1 <= s + 1 /\ s < s + 1 /\ s - 1 < s /\ s + 1 \in Nat
          OBVIOUS
        <4> QED BY <1>5, <4>1, <4>2
      <3>2. CASE s \in Y /\ s - 1 \in X /\ s \in X /\ s + 1 \in X
        <4>1. s .. s \subseteq Y /\ (s - 1) .. (s + 1) \subseteq X
          BY <3>2
        <4>2. s <= s /\ s - 1 <= s + 1 /\ s < s + 1 /\ s - 1 < s /\ s + 1 \in Nat
          OBVIOUS
        <4> QED BY <1>5, <4>1, <4>2
      <3> QED BY <1>5, <3>1, <3>2
    <2>2. PICK k \in 1 .. Len(A) : A[k].start <= a /\ c <= A[k].end
      BY <2>1, RunAround DEF A
    <2>3. PICK l \in 1 .. Len(B) : B[l].start <= b /\ d <= B[l].end
      BY <2>1, RunAround DEF B
    <2>4. /\ A[k].start \in Nat /\ A[k].end \in Nat
          /\ B[l].start \in Nat /\ B[l].end \in Nat
      BY <1>1, SpanElements
    <2>5. Clash(A[k], B[l])
      <3>1. A[k].start < B[l].end
        BY <2>1, <2>2, <2>3, <2>4
      <3>2. B[l].start < A[k].end
        BY <2>1, <2>2, <2>3, <2>4
      <3> QED BY <3>1, <3>2 DEF Clash
    <2> QED BY <1>4, <2>5 DEF ClashFrom
  <1>6. \A s \in X \cup Y : s \in Nat
    OBVIOUS
  <1> QED BY <1>5, <1>6 DEF Inside
=============================================================================
