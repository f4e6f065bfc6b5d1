----------------------------- MODULE LifeRanges -----------------------------
(***************************************************************************)
(* Life ranges of the compiler's values (ir.cpp): when is a value needed,  *)
(* as a vector of inclusive ranges of instruction ids.  setAlive adds one  *)
(* id, mergeLife adds another value's ranges (a slot takes a value in).    *)
(*                                                                         *)
(* The inner loop of mergeLife is modelled one comparison at a time:       *)
(* `merge` says where in the loop body it is.  Indices start at 1.         *)
(***************************************************************************)
EXTENDS LifeRangeOps

CONSTANTS MaxId   \* bound of the model: the largest instruction id

VARIABLES mine,   \* this->m_life
          other,  \* other->m_life
          oi, myi, \* mergeLife's cursors into other and mine
          merge,  \* "idle", or where mergeLife is
          want    \* history: the ids mine should end up with

rangesVars == <<mine, other, oi, myi, merge, want>>

ASSUME MaxIdAssumption == MaxId \in Nat

Id == 0 .. MaxId
LifeRange == [start : Id, end : Id]
Merging == merge # "idle"
-----------------------------------------------------------------------------
RangesInit == /\ mine = <<>> /\ other = <<>>
              /\ oi = 1 /\ myi = 1
              /\ merge = "idle"
              /\ want = {}

SetMineAlive(s) ==
    /\ ~Merging
    /\ mine' = SetAlive(mine, s)
    /\ want' = want \cup {s}
    /\ UNCHANGED <<other, oi, myi, merge>>

SetOtherAlive(s) ==
    /\ ~Merging
    /\ other' = SetAlive(other, s)
    /\ UNCHANGED <<mine, oi, myi, merge, want>>

(* mergeLife starts: with nothing to merge, or nothing to merge it with,   *)
(* it is done.                                                             *)
MergeStart ==
    /\ ~Merging
    /\ want' = want \cup Ids(other)
    /\ mine' = IF mine = <<>> THEN other ELSE mine
    /\ merge' = IF mine = <<>> \/ other = <<>> THEN "idle" ELSE "compare"
    /\ oi' = 1 /\ myi' = 1
    /\ UNCHANGED other

(* Mutant: the loop runs once more after the last range.                   *)
NextOtherLate(m) ==
    IF oi > Len(other)
    THEN merge' = "idle" /\ oi' = 1 /\ myi' = 1
    ELSE merge' = "compare" /\ oi' = oi + 1 /\ myi' = m

(* The next range of other, from entry m of mine on, or the end of the     *)
(* loop, where the cursors are gone.                                       *)
NextOther(m) ==
    IF oi = Len(other)
    THEN merge' = "idle" /\ oi' = 1 /\ myi' = 1
    ELSE merge' = "compare" /\ oi' = oi + 1 /\ myi' = m

(* "adding an interval before entry"                                       *)
Before == other[oi].end + 1 < mine[myi].start
AddBefore ==
    /\ merge = "compare" /\ Before
    /\ mine' = InsertAt(mine, myi, other[oi])
    /\ NextOther(myi + 1)
    /\ UNCHANGED <<other, want>>

(* Mutant: a range that only touches the entry does not widen it.          *)
WidenedTight(entry, o) ==
    LET started == IF o.start < entry.start /\ o.end >= entry.start
                   THEN [entry EXCEPT !.start = o.start] ELSE entry
    IN IF o.end > started.end /\ o.start <= started.end
       THEN [started EXCEPT !.end = o.end] ELSE started

(* "starts earlier and overlaps", "ends later and overlaps"                *)
Widened(entry, o) ==
    LET started == IF o.start < entry.start /\ o.end + 1 >= entry.start
                   THEN [entry EXCEPT !.start = o.start] ELSE entry
    IN IF o.end > started.end /\ o.start <= started.end + 1
       THEN [started EXCEPT !.end = o.end] ELSE started

Widen ==
    /\ merge = "compare" /\ ~Before
    /\ mine' = [mine EXCEPT ![myi] = Widened(mine[myi], other[oi])]
    /\ merge' = "absorb"
    /\ UNCHANGED <<other, oi, myi, want>>

(* "see if our change combines it with the next ranges"                    *)
Combines == myi < Len(mine) /\ mine[myi].end + 1 >= mine[myi + 1].start

(* Mutant: the absorbed range's end is taken even where it is earlier.     *)
LongerLast(x, y) == y.end

Longer(x, y) == IF x.end < y.end THEN y.end ELSE x.end

(* Mutant: the absorbed range is not erased.                               *)
AbsorbKeeping ==
    /\ merge = "absorb" /\ Combines
    /\ mine' = [mine EXCEPT ![myi].end = Longer(mine[myi], mine[myi + 1])]
    /\ UNCHANGED <<other, oi, myi, merge, want>>

Absorb ==
    /\ merge = "absorb" /\ Combines
    /\ mine' = RemoveAt([mine EXCEPT ![myi].end =
                            Longer(mine[myi], mine[myi + 1])], myi + 1)
    /\ UNCHANGED <<other, oi, myi, merge, want>>

(* "see if we're after the entry": go on with the next entry, append at    *)
(* the end, or be done with this range.                                    *)
Proceed ==
    /\ merge = "absorb" /\ ~Combines
    /\ IF other[oi].start > mine[myi].end
       THEN IF myi = Len(mine)
            THEN mine' = Append(mine, other[oi]) /\ NextOther(myi + 1)
            ELSE merge' = "compare" /\ myi' = myi + 1 /\ UNCHANGED <<mine, oi>>
       ELSE NextOther(myi) /\ UNCHANGED mine
    /\ UNCHANGED <<other, want>>

MergeStep == AddBefore \/ Widen \/ Absorb \/ Proceed

RangesNext == \/ \E s \in Id : SetMineAlive(s) \/ SetOtherAlive(s)
              \/ MergeStart
              \/ MergeStep

RangesSpec == RangesInit /\ [][RangesNext]_rangesVars

(* mergeLife runs to its end once it is called.                            *)
RangesFairSpec == RangesSpec /\ WF_rangesVars(MergeStep)
-----------------------------------------------------------------------------
(* The type invariant.                                                     *)
RangesTypeOK == /\ mine \in Seq(LifeRange) /\ other \in Seq(LifeRange)
                /\ oi \in Nat \ {0} /\ myi \in Nat \ {0}
                /\ merge \in {"idle", "compare", "absorb"}
                /\ want \subseteq Id
                /\ Merging => oi <= Len(other) /\ myi <= Len(mine)

(* Both operations keep the ranges in order and apart, whatever was added  *)
(* in whatever order.                                                      *)
StaysNormal == /\ Normal(other)
               /\ ~Merging => Normal(mine)

(* No id is lost and none is invented: after any setAlive and mergeLife a  *)
(* value is alive exactly where it was set alive, itself or through what   *)
(* it was merged with; half way through only what is still to be merged is *)
(* missing.                                                                *)
Pending == IF Merging THEN Ids(SubSeq(other, oi, Len(other))) ELSE {}
KeepsEveryId == Ids(mine) \cup Pending = want

(* mergeLife ends: a range that is moved past, inserted or absorbed is not *)
(* looked at for ever.                                                     *)
MergeEnds == Merging ~> ~Merging

(* ir_values_overlap finds a clash where there is one, looking at each     *)
(* range once - except in one case: a range of a that is a single id at    *)
(* which a range of b starts makes it drop that range of b.  A value that  *)
(* looks for a slot has no such range: it is alive at a single id only     *)
(* where it is written in vain, and then nothing else starts there.        *)
StartsWithPoint(a, b) ==
    \E k \in DOMAIN a, l \in DOMAIN b : a[k].start = a[k].end /\ b[l].start = a[k].start
OverlapExact ==
    ~Merging /\ ~StartsWithPoint(mine, other) =>
        (Overlap(mine, other) <=>
            \E k \in DOMAIN mine, l \in DOMAIN other : Clash(mine[k], other[l]))
=============================================================================
