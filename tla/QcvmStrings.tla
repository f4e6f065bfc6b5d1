----------------------------- MODULE QcvmStrings -----------------------------
(***************************************************************************)
(* The executor's temporary strings (exec.cpp).  The program's own strings *)
(* fill the start of prog->strings; prog_load adds an area behind them,    *)
(* and the builtins that return a string (ftos, vtos, etos, strcat) have   *)
(* prog_tempstring put it there.  A string is used by its offset.          *)
(***************************************************************************)
EXTENDS Integers, Sequences

CONSTANTS ProgStrings,  \* the program's string table, as loaded
          AreaSize,     \* 16*1024
          Text,         \* the strings builtins make: sequences of characters
          NUL,
          MaxAt         \* bound of the model on tempstring_at, never reset: once
                        \* past the end of the table its value makes no difference

VARIABLES strings,       \* prog->strings; offset o is strings[o + 1]
          tempstring_at, \* prog->tempstring_at
          last,          \* history: the last temporary string returned
          previous       \* history: the one before it

stringsVars == <<strings, tempstring_at, last, previous>>

Char == UNION {{t[i] : i \in DOMAIN t} : t \in Text}
StringsAssumption ==
    /\ AreaSize \in Nat \ {0} /\ MaxAt \in Nat /\ Len(ProgStrings) <= MaxAt
    /\ ProgStrings \in Seq({ProgStrings[i] : i \in DOMAIN ProgStrings})
    /\ \A t \in Text : t \in Seq(Char \ {NUL})
ASSUME StringsAssumption

tempstring_start == Len(ProgStrings)
None == [at |-> 0, text |-> <<>>]

(* Mutant: the string is copied without its terminator.                    *)
PutUnterminated(mem, at, text) ==
    [k \in DOMAIN mem |-> IF k - at \in DOMAIN text THEN text[k - at] ELSE mem[k]]

(* The text and its terminator, put into mem at an offset: memcpy.         *)
Put(mem, at, text) ==
    [k \in DOMAIN mem |-> IF k - at \in DOMAIN text THEN text[k - at]
                          ELSE IF k = at + Len(text) + 1 THEN NUL
                          ELSE mem[k]]
Grow(mem, n) == mem \o [k \in 1 .. n |-> NUL]

(* prog_load, once the program's strings are read                          *)
StringsInit == /\ strings = ProgStrings \o [k \in 1 .. AreaSize |-> NUL]
               /\ tempstring_at = tempstring_start
               /\ last = None
               /\ previous = None

(* Mutant: it starts over at the head of the string table.                 *)
PlaceAtZero(len) == IF tempstring_at + len >= Len(strings) THEN 0 ELSE tempstring_at

(* "when we reach the end we start over"                                   *)
Place(len) == IF tempstring_at + len >= Len(strings) THEN tempstring_start
                                                    ELSE tempstring_at

(* Mutant: a string that fits but for its terminator is taken to fit.      *)
FitsTight(at, len) == at + len <= Len(strings)

Fits(at, len) == at + len < Len(strings)

Advance(at) == IF at > MaxAt THEN MaxAt ELSE at

(* prog_tempstring: in a place where it fits, or in one made to fit; only  *)
(* then does tempstring_at not move.                                       *)
TempString(text) ==
    LET at == Place(Len(text)) IN
    /\ IF Fits(at, Len(text))
       THEN /\ strings' = Put(strings, at, text)
            /\ tempstring_at' = Advance(tempstring_at + Len(text) + 1)
       ELSE /\ strings' = Put(Grow(strings, Len(text) + 1), at, text)
            /\ UNCHANGED tempstring_at
    /\ last' = [at |-> at, text |-> text]
    /\ previous' = last

StringsNext == \E text \in Text : TempString(text)

StringsSpec == StringsInit /\ [][StringsNext]_stringsVars

(* prog_getstring and the C string functions: up to the first NUL.         *)
TextAt(at) ==
    LET ends == {n \in 0 .. Len(strings) - at - 1 : strings[at + n + 1] = NUL}
        len == CHOOSE n \in ends : \A m \in ends : n <= m
    IN SubSeq(strings, at + 1, at + len)
-----------------------------------------------------------------------------
(* The type invariant.                                                     *)
StringsTypeOK == /\ strings \in Seq(Char \cup {NUL} \cup {ProgStrings[i] : i \in DOMAIN ProgStrings})
                 /\ tempstring_at \in tempstring_start .. MaxAt

(* A string read at any offset of the table ends inside it, after any      *)
(* number of rounds and growths: prog_getstring checks the offset only.    *)
AlwaysTerminated == strings[Len(strings)] = NUL

(* The program's own strings are never written, however often the area is  *)
(* started over or grown.                                                  *)
ProgramStringsKept == SubSeq(strings, 1, tempstring_start) = ProgStrings

(* A builtin's result reads back as what the builtin made, even where the  *)
(* table was too small for it.                                             *)
LastReadsBack == last # None => TextAt(last.at) = last.text

(* "when we reach the end we start over": the area is used from its start  *)
(* on again, so the string before the last survives if the area is large   *)
(* enough.  The code disagrees: tempstring_at is not set back, so once the *)
(* end was reached every string is put at the start, on top of the one     *)
(* before it.                                                              *)
RoomForThree == \A t \in Text : 3 * (Len(t) + 1) <= AreaSize
PreviousSurvives ==
    RoomForThree /\ previous # None => TextAt(previous.at) = previous.text
=============================================================================
