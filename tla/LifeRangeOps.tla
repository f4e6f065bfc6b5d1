---------------------------- MODULE LifeRangeOps ----------------------------
(***************************************************************************)
(* What the compiler's life ranges are (ir.cpp): a vector of inclusive     *)
(* ranges of instruction ids, in order and apart.  setAlive adds one id,   *)
(* ir_values_overlap asks whether two values can share a slot.             *)
(***************************************************************************)
EXTENDS Integers, FiniteSets, Sequences, SequencesExt

Interval(s, e) == [start |-> s, end |-> e]
Ids(life) == UNION {life[k].start .. life[k].end : k \in DOMAIN life}

(* What lives, insertLife and the overlap test rely on: ranges in order,   *)
(* and no two that touch.                                                  *)
Normal(life) == /\ \A k \in DOMAIN life : life[k].start <= life[k].end
                /\ \A k \in 1 .. Len(life) - 1 : life[k].end + 1 < life[k + 1].start

(* The first range that starts after s: everything before it starts at s   *)
(* or earlier.                                                             *)
FirstAfter(life, s) ==
    CHOOSE k \in 1 .. Len(life) + 1 :
       /\ \A j \in 1 .. k - 1 : life[j].start <= s
       /\ k <= Len(life) => life[k].start > s

(* The range before it, and it, may touch s or contain it.                 *)
TouchesBefore(life, k, s) == k > 1 /\ life[k - 1].end + 1 = s
TouchesAfter(life, k, s)  == k <= Len(life) /\ life[k].start - 1 = s
Contained(life, k, s)     == k > 1 /\ life[k - 1].end >= s

(* ir_value::setAlive                                                      *)
SetAlive(life, s) ==
    LET k == FirstAfter(life, s) IN
    CASE Contained(life, k, s) -> life
      [] TouchesBefore(life, k, s) /\ TouchesAfter(life, k, s) ->
            RemoveAt([life EXCEPT ![k - 1].end = life[k].end], k)
      [] TouchesBefore(life, k, s) /\ ~TouchesAfter(life, k, s) ->
            [life EXCEPT ![k - 1].end = s]
      [] TouchesAfter(life, k, s) /\ ~TouchesBefore(life, k, s) ->
            [life EXCEPT ![k].start = s]
      [] OTHER -> InsertAt(life, k, Interval(s, s))

(* ir_values_overlap: both vectors are walked once, the one whose range    *)
(* starts earlier is moved forward.  Two ranges that only share an end     *)
(* point do not clash: one value is read there, the other written.         *)
Clash(x, y) == x.start < y.end /\ y.start < x.end

(* Mutant: both vectors are moved forward together.                        *)
OverlapInStep(a, b) ==
    LET walk[c \in (1 .. Len(a) + 1) \X (1 .. Len(b) + 1)] ==
           LET la == c[1]
               lb == c[2]
           IN IF la > Len(a) \/ lb > Len(b) THEN FALSE
              ELSE Clash(a[la], b[lb]) \/ walk[<<la + 1, lb + 1>>]
    IN walk[<<1, 1>>]

Overlap(a, b) ==
    LET walk[c \in (1 .. Len(a) + 1) \X (1 .. Len(b) + 1)] ==
           LET la == c[1]
               lb == c[2]
           IN IF la > Len(a) \/ lb > Len(b) THEN FALSE
              ELSE IF Clash(a[la], b[lb]) THEN TRUE
              ELSE IF a[la].start < b[lb].start THEN walk[<<la + 1, lb>>]
              ELSE walk[<<la, lb + 1>>]
    IN walk[<<1, 1>>]

(* The ranges of a set of ids: the only normal life with these ids.        *)
RangesOf(ids) ==
    LET starts == {s \in ids : s - 1 \notin ids}
        start(k) == CHOOSE s \in starts : Cardinality({r \in starts : r < s}) = k - 1
        end(s) == CHOOSE e \in ids : e >= s /\ s .. e \subseteq ids /\ e + 1 \notin ids
    IN [k \in 1 .. Cardinality(starts) |-> Interval(start(k), end(start(k)))]
=============================================================================
