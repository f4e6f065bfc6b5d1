-------------------------- MODULE CodeWriterProofs --------------------------
(***************************************************************************)
(* Proofs about the file that is written.  First its string table, for any *)
(* texts in any order, with and without -Ooverlap-strings.  Then           *)
(* ir_builder::generate, for any program and flags: LayoutInv says where   *)
(* everything is in the file.  Every step keeps it (LayoutStep), and in the*)
(* end it says that nothing shares a word it must not: WordsApart.         *)
(***************************************************************************)
EXTENDS CodeWriter, SequenceTheorems, FiniteSetTheorems, WellFoundedInduction, TLAPS

Node == [text : Texts \ {<<>>}, at : Nat \ {0}]
Tables == [chars : Seq(Nat), cache : Seq(Node), empty : Nat, at : Nat]

(* What is where it is said to be.                                         *)
Found(cs) == {n \in Node : ReadsAs(cs, n.at, n.text)}

(* What every call of code_genstring relies on and leaves behind: what is  *)
(* in the buckets, and the empty text, are where the table says.           *)
TableOK(t) ==
    /\ t \in Tables
    /\ t.chars # <<>>
    /\ t.cache \in Seq(Found(t.chars))
    /\ t.empty # 0 => ReadsAs(t.chars, t.empty, <<>>)

(* All that could be read before can still be read.                        *)
Keeps(cs, more) ==
    \A at \in Nat, text \in Texts : ReadsAs(cs, at, text) => ReadsAs(more, at, text)
-----------------------------------------------------------------------------
(* ReadsAs, character by character.                                        *)
LEMMA ReadsByCharacter ==
    ASSUME NEW cs \in Seq(Nat), NEW at \in Nat, NEW text \in Texts
    PROVE  ReadsAs(cs, at, text) <=>
               /\ at + Len(text) + 1 <= Len(cs)
               /\ \A i \in 1 .. Len(text) : cs[at + i] = text[i]
               /\ cs[at + Len(text) + 1] = 0
  <1>1. Len(text) \in Nat /\ Len(cs) \in Nat /\ DOMAIN cs = 1 .. Len(cs)
    BY LenProperties DEF Texts
  <1>2. at + Len(text) + 1 \in DOMAIN cs <=> at + Len(text) + 1 <= Len(cs)
    BY <1>1
  <1>3. ASSUME at + Len(text) + 1 <= Len(cs)
        PROVE  SubSeq(cs, at + 1, at + Len(text)) = text
                 <=> \A i \in 1 .. Len(text) : cs[at + i] = text[i]
    <2> DEFINE part == SubSeq(cs, at + 1, at + Len(text))
    <2>1. \A i \in at + 1 .. at + Len(text) : cs[i] \in Nat
      BY <1>1, <1>3
    <2>2. /\ part \in Seq(Nat) /\ Len(part) = Len(text)
          /\ \A i \in 1 .. Len(text) : part[i] = cs[at + i]
      BY <2>1, <1>1, SubSeqProperties
    <2>3. text \in Seq(Nat)
      BY DEF Texts
    <2> HIDE DEF part
    <2>4. part = text <=> \A i \in 1 .. Len(text) : part[i] = text[i]
      BY <2>2, <2>3, <1>1, SeqEqual
    <2> QED BY <2>2, <2>4 DEF part
  <1> QED BY <1>2, <1>3 DEF ReadsAs

(* Appending characters takes nothing away.                                *)
LEMMA AppendingKeeps ==
    ASSUME NEW cs \in Seq(Nat), NEW more \in Seq(Nat)
    PROVE  Keeps(cs, cs \o more)
  <1> SUFFICES ASSUME NEW at \in Nat, NEW text \in Texts, ReadsAs(cs, at, text)
               PROVE  ReadsAs(cs \o more, at, text)
    BY DEF Keeps
  <1>1. /\ cs \o more \in Seq(Nat) /\ Len(cs \o more) = Len(cs) + Len(more)
        /\ \A i \in 1 .. Len(cs) : (cs \o more)[i] = cs[i]
    BY ConcatProperties, LenProperties
  <1>2. Len(text) \in Nat /\ Len(cs) \in Nat /\ Len(more) \in Nat
    BY LenProperties DEF Texts
  <1>3. /\ at + Len(text) + 1 <= Len(cs)
        /\ \A i \in 1 .. Len(text) : cs[at + i] = text[i]
        /\ cs[at + Len(text) + 1] = 0
    BY ReadsByCharacter
  <1>4. \A i \in 1 .. Len(text) : (cs \o more)[at + i] = text[i]
    BY <1>1, <1>2, <1>3
  <1>5. (cs \o more)[at + Len(text) + 1] = 0
    BY <1>1, <1>2, <1>3
  <1>6. at + Len(text) + 1 <= Len(cs \o more)
    BY <1>1, <1>2, <1>3
  <1> QED BY <1>1, <1>4, <1>5, <1>6, ReadsByCharacter

(* What code_genstring appends is a text that reads back.                  *)
LEMMA AppendedReads ==
    ASSUME NEW cs \in Seq(Nat), NEW text \in Texts
    PROVE  /\ cs \o text \o <<0>> \in Seq(Nat)
           /\ ReadsAs(cs \o text \o <<0>>, Len(cs), text)
           /\ Keeps(cs, cs \o text \o <<0>>)
  <1>1. text \in Seq(Nat) /\ <<0>> \in Seq(Nat) /\ Len(<<0>>) = 1 /\ <<0>>[1] = 0
    BY DEF Texts
  <1>2. Len(text) \in Nat /\ Len(cs) \in Nat
    BY <1>1, LenProperties
  <1> DEFINE tail == text \o <<0>>
  <1>3. /\ tail \in Seq(Nat) /\ Len(tail) = Len(text) + 1
        /\ \A i \in 1 .. Len(text) : tail[i] = text[i]
        /\ tail[Len(text) + 1] = 0
    BY <1>1, <1>2, ConcatProperties
  <1>4. cs \o text \o <<0>> = cs \o tail
    BY <1>1, ConcatAssociative
  <1> HIDE DEF tail
  <1>5. /\ cs \o tail \in Seq(Nat) /\ Len(cs \o tail) = Len(cs) + Len(tail)
        /\ \A i \in 1 .. Len(cs) + Len(tail) :
              (cs \o tail)[i] = IF i <= Len(cs) THEN cs[i] ELSE tail[i - Len(cs)]
    BY <1>3, ConcatProperties
  <1>6. ASSUME NEW i \in 1 .. Len(text) + 1
        PROVE  (cs \o tail)[Len(cs) + i] = tail[i]
    <2>1. Len(cs) + i \in 1 .. Len(cs) + Len(tail) /\ ~(Len(cs) + i <= Len(cs))
      BY <1>2, <1>3
    <2>2. Len(cs) + i - Len(cs) = i
      BY <1>2
    <2> QED BY <1>5, <2>1, <2>2
  <1>7. ReadsAs(cs \o tail, Len(cs), text)
    <2>1. \A i \in 1 .. Len(text) : (cs \o tail)[Len(cs) + i] = text[i]
      BY <1>2, <1>3, <1>6
    <2>2. (cs \o tail)[Len(cs) + Len(text) + 1] = 0
      <3>1. Len(text) + 1 \in 1 .. Len(text) + 1 /\ Len(cs) + (Len(text) + 1) = Len(cs) + Len(text) + 1
        BY <1>2
      <3> QED BY <1>3, <1>6, <3>1
    <2>3. Len(cs) + Len(text) + 1 <= Len(cs \o tail)
      BY <1>2, <1>3, <1>5
    <2> HIDE DEF tail
    <2> QED BY <1>2, <1>5, <2>1, <2>2, <2>3, ReadsByCharacter
  <1> QED BY <1>3, <1>4, <1>5, <1>7, AppendingKeeps

(* A text that ends another one is read where that one is, further on.     *)
LEMMA EndReads ==
    ASSUME NEW cs \in Seq(Nat), NEW at \in Nat, NEW text \in Texts, NEW key \in Texts,
           ReadsAs(cs, at, text), EndsWith(text, key)
    PROVE  at + Len(text) - Len(key) \in Nat /\ ReadsAs(cs, at + Len(text) - Len(key), key)
  <1> DEFINE skip == Len(text) - Len(key)
  <1>1. Len(text) \in Nat /\ Len(key) \in Nat /\ Len(key) <= Len(text)
    BY LenProperties DEF Texts, EndsWith
  <1>2. skip \in Nat /\ skip + Len(key) = Len(text)
    BY <1>1
  <1>3. \A i \in 1 .. Len(key) : key[i] = text[skip + i]
    <2>1. SubSeq(text, skip + 1, Len(text)) = key
      BY DEF EndsWith
    <2>2. \A i \in skip + 1 .. Len(text) : text[i] \in Nat
      BY <1>1, <1>2, LenProperties DEF Texts
    <2>3. \A i \in 1 .. Len(key) : SubSeq(text, skip + 1, Len(text))[i] = text[skip + i]
      BY <2>2, <1>1, <1>2, SubSeqProperties
    <2> QED BY <2>1, <2>3
  <1>4. /\ at + Len(text) + 1 <= Len(cs)
        /\ \A i \in 1 .. Len(text) : cs[at + i] = text[i]
        /\ cs[at + Len(text) + 1] = 0
    BY ReadsByCharacter
  <1> HIDE DEF skip
  <1>5. ASSUME NEW i \in 1 .. Len(key) PROVE cs[at + skip + i] = key[i]
    <2>1. skip + i \in 1 .. Len(text) /\ at + (skip + i) = at + skip + i
      BY <1>1, <1>2
    <2>2. cs[at + (skip + i)] = text[skip + i]
      BY <1>4, <2>1
    <2> QED BY <1>3, <2>1, <2>2
  <1>6. at + skip \in Nat /\ at + skip + Len(key) + 1 = at + Len(text) + 1
    BY <1>1, <1>2
  <1>7. ReadsAs(cs, at + skip, key)
    BY <1>4, <1>5, <1>6, ReadsByCharacter
  <1> QED BY <1>1, <1>6, <1>7 DEF skip

(* The walk along a bucket meets one of its hits first.                    *)
LEMMA FirstOf ==
    ASSUME NEW S \in SUBSET Nat, S # {}
    PROVE  \E k \in S : \A j \in S : k <= j
  <1>1. PICK k \in S : \A j \in S : ~(<<j, k>> \in OpToRel(<, Nat))
    BY NatLessThanWellFounded, WFMin
  <1>2. \A j \in S : ~(j < k)
    BY <1>1 DEF OpToRel
  <1> QED BY <1>2

(* Whatever util_htgeth or code_util_str_htgeth answers is the text.       *)
LEMMA LookupReads ==
    ASSUME NEW cs \in Seq(Nat), NEW cache \in Seq(Found(cs)), NEW key \in Texts,
           NEW overlap \in BOOLEAN
    PROVE  /\ Lookup(cache, key, overlap) \in Nat
           /\ Lookup(cache, key, overlap) # 0 => ReadsAs(cs, Lookup(cache, key, overlap), key)
  <1> DEFINE hits == IF overlap THEN Reached(cache, key) ELSE Stored(cache, key)
             first == CHOOSE k \in hits : \A j \in hits : k <= j
  <1>1. CASE hits = {}
    BY <1>1 DEF Lookup
  <1>2. CASE hits # {}
    <2>1. DOMAIN cache = 1 .. Len(cache) /\ Len(cache) \in Nat
      BY LenProperties
    <2>2. hits \in SUBSET DOMAIN cache
      BY DEF Reached, Ending, Stored
    <2>3. \E k \in hits : \A j \in hits : k <= j
      <3>1. hits \in SUBSET Nat
        BY <2>1, <2>2
      <3> HIDE DEF hits
      <3> QED BY <1>2, <3>1, FirstOf
    <2>4. first \in hits
      BY <2>3
    <2>5. cache[first] \in Found(cs)
      BY <2>1, <2>2, <2>4
    <2>6. /\ cache[first].text \in Texts /\ cache[first].at \in Nat
          /\ ReadsAs(cs, cache[first].at, cache[first].text)
      BY <2>5 DEF Found, Node
    <2>7. EndsWith(cache[first].text, key)
      <3>1. CASE overlap
        BY <2>4, <3>1 DEF Reached, Ending
      <3>2. CASE ~overlap
        <4>1. cache[first].text = key
          BY <2>4, <3>2 DEF Stored
        <4>2. Len(key) \in Nat /\ SubSeq(key, 1, Len(key)) = key
          BY LenProperties, SubSeqFull DEF Texts
        <4>3. Len(key) <= Len(key) /\ Len(key) - Len(key) + 1 = 1
          BY <4>2
        <4> QED BY <4>1, <4>2, <4>3 DEF EndsWith
      <3> QED BY <3>1, <3>2
    <2>8. Lookup(cache, key, overlap) = cache[first].at + Len(cache[first].text) - Len(key)
      BY <1>2 DEF Lookup
    <2> HIDE DEF first
    <2> QED BY <2>6, <2>7, <2>8, EndReads
  <1> QED BY <1>1, <1>2

(* util_htseth puts one node more into the bucket and changes no other.    *)
LEMMA InsertAdds ==
    ASSUME NEW S, NEW cache \in Seq(S), NEW node \in S
    PROVE  Insert(cache, node) \in Seq(S)
  <1> DEFINE smaller == {k \in DOMAIN cache : StrLess(cache[k].text, node.text)}
             at == Cardinality(smaller) + 1
  <1>1. DOMAIN cache = 1 .. Len(cache) /\ Len(cache) \in Nat /\ \A i \in 1 .. Len(cache) : cache[i] \in S
    BY LenProperties
  <1>2. Cardinality(smaller) \in Nat /\ Cardinality(smaller) <= Len(cache)
    <2>1. IsFiniteSet(1 .. Len(cache)) /\ Cardinality(1 .. Len(cache)) = Len(cache)
      <3>1. 1 \in Int /\ Len(cache) \in Int
        BY <1>1
      <3>2. /\ IsFiniteSet(1 .. Len(cache))
            /\ Cardinality(1 .. Len(cache)) = IF 1 > Len(cache) THEN 0 ELSE Len(cache) - 1 + 1
        BY <3>1, FS_Interval
      <3> QED BY <1>1, <3>2
    <2>2. smaller \in SUBSET (1 .. Len(cache))
      BY <1>1
    <2> HIDE DEF smaller
    <2>3. IsFiniteSet(smaller) /\ Cardinality(smaller) <= Len(cache)
      BY <2>1, <2>2, FS_Subset
    <2> QED BY <2>3, FS_CardinalityType
  <1>3. at \in Nat /\ at >= 1 /\ at - 1 <= Len(cache)
    BY <1>2
  <1>4. Insert(cache, node) = SubSeq(cache, 1, at - 1) \o <<node>> \o SubSeq(cache, at, Len(cache))
    BY DEF Insert, InsertAt
  <1> HIDE DEF at
  <1>5. SubSeq(cache, 1, at - 1) \in Seq(S)
    BY <1>1, <1>3, SubSeqProperties
  <1>6. SubSeq(cache, at, Len(cache)) \in Seq(S)
    BY <1>1, <1>3, SubSeqProperties
  <1>7. <<node>> \in Seq(S)
    OBVIOUS
  <1> QED BY <1>4, <1>5, <1>6, <1>7, ConcatProperties

(* A bucket stays right when characters are appended.                      *)
LEMMA KeepsFound ==
    ASSUME NEW cs, NEW more, Keeps(cs, more)
    PROVE  Seq(Found(cs)) \subseteq Seq(Found(more))
  <1>1. Found(cs) \subseteq Found(more)
    BY DEF Found, Node, Keeps
  <1> QED BY <1>1, SeqMonotonic
-----------------------------------------------------------------------------
(* code_t's empty table is right.                                          *)
THEOREM EmptyTableOK == TableOK(EmptyTable)
  BY DEF TableOK, EmptyTable, Tables

(* An empty text gets a terminator of its own.                             *)
LEMMA EmptyReads ==
    ASSUME NEW t, TableOK(t)
    PROVE  LET u == GenEmpty(t)
           IN TableOK(u) /\ ReadsAs(u.chars, u.at, <<>>) /\ Keeps(t.chars, u.chars)
  <1> DEFINE u == GenEmpty(t)
  <1>1. t \in Tables /\ t.chars \in Seq(Nat) /\ t.chars # <<>> /\ t.cache \in Seq(Found(t.chars))
    BY DEF TableOK, Tables
  <1>2. <<>> \in Texts /\ Len(t.chars) \in Nat
    BY <1>1, LenProperties DEF Texts
  <1>3. CASE t.empty # 0
    <2>1. u = [t EXCEPT !.at = t.empty]
      BY <1>3 DEF GenEmpty
    <2>2. u \in Tables /\ u.chars = t.chars /\ u.cache = t.cache /\ u.empty = t.empty /\ u.at = t.empty
      BY <1>1, <2>1 DEF Tables
    <2> HIDE DEF u
    <2> QED BY <1>3, <2>2 DEF TableOK, Keeps, u
  <1>4. CASE t.empty = 0
    <2>1. u = [t EXCEPT !.at = Len(t.chars), !.empty = Len(t.chars), !.chars = Append(@, 0)]
      BY <1>4 DEF GenEmpty
    <2>2. Append(t.chars, 0) = t.chars \o <<>> \o <<0>>
      <3>1. t.chars \o <<>> = t.chars
        BY <1>1, ConcatEmptySeq
      <3>2. Append(t.chars, 0) = t.chars \o <<0>>
        BY <1>1, AppendIsConcat
      <3> QED BY <3>1, <3>2
    <2>3. /\ Append(t.chars, 0) \in Seq(Nat)
          /\ ReadsAs(Append(t.chars, 0), Len(t.chars), <<>>)
          /\ Keeps(t.chars, Append(t.chars, 0))
      BY <1>1, <1>2, <2>2, AppendedReads
    <2>4. /\ u \in Tables /\ u.chars = Append(t.chars, 0) /\ u.cache = t.cache
          /\ u.empty = Len(t.chars) /\ u.at = Len(t.chars)
      BY <1>1, <1>2, <2>1, <2>3 DEF Tables
    <2>5. u.cache \in Seq(Found(u.chars))
      BY <1>1, <2>3, <2>4, KeepsFound
    <2>6. u.chars # <<>>
      <3>1. t.chars \in Seq(Nat) /\ 0 \in Nat
        BY <1>1
      <3>2. Append(t.chars, 0) # <<>>
        BY <3>1, AppendProperties
      <3> QED BY <2>4, <3>2
    <2> HIDE DEF u
    <2>7. TableOK(u)
      BY <2>3, <2>4, <2>5, <2>6 DEF TableOK
    <2> QED BY <2>3, <2>4, <2>7 DEF u
  <1> QED BY <1>3, <1>4

(* A text is found, or appended and remembered.                            *)
LEMMA TextReads ==
    ASSUME NEW t, TableOK(t), NEW text \in Texts \ {<<>>}, NEW overlap \in BOOLEAN
    PROVE  LET u == GenText(t, text, overlap)
           IN TableOK(u) /\ ReadsAs(u.chars, u.at, text) /\ Keeps(t.chars, u.chars)
  <1> DEFINE u == GenText(t, text, overlap)
             existing == Lookup(t.cache, text, overlap)
             more == t.chars \o text \o <<0>>
             node == [text |-> text, at |-> Len(t.chars)]
  <1>1. t \in Tables /\ t.chars \in Seq(Nat) /\ t.chars # <<>> /\ t.cache \in Seq(Found(t.chars))
    BY DEF TableOK, Tables
  <1>2. Len(t.chars) \in Nat \ {0}
    BY <1>1, LenProperties, EmptySeq
  <1>3. existing \in Nat /\ (existing # 0 => ReadsAs(t.chars, existing, text))
    BY <1>1, LookupReads
  <1>4. /\ more \in Seq(Nat) /\ ReadsAs(more, Len(t.chars), text) /\ Keeps(t.chars, more)
    BY <1>1, AppendedReads
  <1>5. CASE existing # 0
    <2>1. u = [t EXCEPT !.at = existing]
      BY <1>5 DEF GenText
    <2> HIDE DEF existing
    <2>2. u \in Tables /\ u.chars = t.chars /\ u.cache = t.cache /\ u.empty = t.empty /\ u.at = existing
      BY <1>1, <1>3, <2>1 DEF Tables
    <2> HIDE DEF u
    <2> QED BY <1>3, <1>5, <2>2 DEF TableOK, Keeps, u
  <1>6. CASE existing = 0
    <2>1. u = [t EXCEPT !.at = Len(t.chars), !.chars = more, !.cache = Insert(t.cache, node)]
      BY <1>6 DEF GenText
    <2>2. node \in Found(more)
      BY <1>2, <1>4 DEF Found, Node
    <2>3. t.cache \in Seq(Found(more))
      BY <1>1, <1>4, KeepsFound
    <2> HIDE DEF more, node
    <2>4. Insert(t.cache, node) \in Seq(Found(more))
      BY <2>2, <2>3, InsertAdds
    <2>5. Seq(Found(more)) \subseteq Seq(Node)
      <3>1. Found(more) \subseteq Node
        BY DEF Found
      <3> QED BY <3>1, SeqMonotonic
    <2>6. /\ u \in Tables /\ u.chars = more /\ u.cache = Insert(t.cache, node)
          /\ u.empty = t.empty /\ u.at = Len(t.chars)
      BY <1>1, <1>2, <1>4, <2>1, <2>4, <2>5 DEF Tables
    <2>7. more # <<>>
      BY <1>2, <1>4 DEF ReadsAs
    <2>8. u.empty # 0 => ReadsAs(more, u.empty, <<>>)
      <3>1. t.empty # 0 => ReadsAs(t.chars, t.empty, <<>>)
        BY DEF TableOK
      <3>2. t.empty \in Nat /\ <<>> \in Texts
        BY <1>1 DEF Tables, Texts
      <3>3. ReadsAs(t.chars, t.empty, <<>>) => ReadsAs(more, t.empty, <<>>)
        BY <1>4, <3>2 DEF Keeps
      <3> QED BY <2>6, <3>1, <3>3
    <2> HIDE DEF u
    <2>9. TableOK(u)
      BY <2>4, <2>6, <2>7, <2>8 DEF TableOK
    <2> QED BY <1>4, <2>6, <2>9 DEF u
  <1> QED BY <1>5, <1>6

(* What code_genstring answers reads back as the text, in a table where    *)
(* all texts before it, shared or not, still do.                           *)
THEOREM StringsReadBack ==
    ASSUME NEW t, TableOK(t), NEW text \in Texts, NEW overlap \in BOOLEAN
    PROVE  LET u == GenString(t, text, overlap)
           IN TableOK(u) /\ ReadsAs(u.chars, u.at, text) /\ Keeps(t.chars, u.chars)
  <1>1. CASE text = <<>>
    BY <1>1, EmptyReads DEF GenString
  <1>2. CASE text # <<>>
    BY <1>2, TextReads DEF GenString
  <1> QED BY <1>1, <1>2
-----------------------------------------------------------------------------
(***************************************************************************)
(* Where generate() is: the values, the fields and the functions it has    *)
(* dealt with, and whether the areas are there.                            *)
(***************************************************************************)
CodeStages == {"code", "copy", "compute", "store", "done", "failed"}
ValuesDone == CASE stage = "globals" -> 1 .. item - 1
                [] stage \in {"fields"} \cup CodeStages -> DOMAIN builder.values
                [] OTHER -> {}
FieldsDone == CASE stage = "fields" -> 1 .. item - 1
                [] stage \in CodeStages -> DOMAIN program.fields
                [] OTHER -> {}
AreasDone == stage \in CodeStages
AreaPlaces == {Nil, VinstrTemp(1), VinstrTemp(2)}
AreaPlacesDone == IF AreasDone THEN AreaPlaces ELSE {}
CodeDone == CASE stage = "code" -> 1 .. item - 1
              [] stage \in {"copy", "compute", "store"} -> 1 .. item
              [] stage \in {"done", "failed"} -> DOMAIN builder.values
              [] OTHER -> {}

IsSeq(s) == s \in Seq(ToSet(s))
IsMap(f, S, T) == f \in [DOMAIN f -> T] /\ DOMAIN f \subseteq S
Names == [name : Nat, offset : Nat]
Headers == [name : Nat, file : Nat, argsize : Seq(Nat), firstlocal : Nat, locals : Nat,
            entry : Int, of : Nat]
BuilderFields == {"values", "constfloats", "reusable", "addr", "strings", "name", "immediate",
     "filenames", "globals", "defs", "fields", "entfields", "fieldaddr", "functions", "def",
     "statements", "extparams", "maxlocals", "maxtemps", "firsttemp", "firstlocal"}
PlaceNames == {Value(k) : k \in Nat} \cup {FieldGlobal(k) : k \in Nat} \cup {Nil}
              \cup {Local(k, j) : k, j \in Nat} \cup {Temp(k, j) : k, j \in Nat}
              \cup {VinstrTemp(j) : j \in Nat} \cup {ExtParam(j) : j \in Nat}

(* Of a vector that is split, the components are float constants.          *)
PartOK(vals, v, j) == /\ v.parts[j] \in DOMAIN vals
                      /\ LET x == vals[v.parts[j]]
                         IN /\ x.type = "float" /\ x.users \in {"calls", "any"}
                            /\ HasValue(x) /\ x.value = v.value[j]
ValuesOK(p, vals) ==
    /\ IsSeq(vals)
    /\ \A k \in DOMAIN vals : /\ IsValue(p, vals[k])
                              /\ vals[k].parts \in Seq(Nat) /\ Len(vals[k].parts) <= 3
                              /\ IsSplit(vals[k]) => Splittable(vals[k])
                              /\ \A j \in DOMAIN vals[k].parts : PartOK(vals, vals[k], j)
FloatsOK(b) == \A k \in b.constfloats :
                  k \in DOMAIN b.values /\ b.values[k].type = "float" /\ HasValue(b.values[k])

Typed(p, b) ==
    /\ DOMAIN b = BuilderFields
    /\ ValuesOK(p, b.values)
    /\ IsMap(b.addr, PlaceNames, Nat) /\ IsMap(b.reusable, Int, Nat) /\ IsMap(b.def, Nat, Nat)
    /\ TableOK(b.strings) /\ b.name \in Nat /\ b.immediate \in Nat
    /\ b.filenames \in Seq(Texts)
    /\ b.globals \in Seq(Int)
    /\ b.defs \in Seq(Names) /\ b.fields \in Seq(Names)
    /\ IsSeq(b.statements)
    /\ b.entfields \in Nat /\ b.fieldaddr \in Seq(Nat)
    /\ b.functions \in Seq(Headers)
    /\ b.extparams \in Nat /\ b.maxlocals \in Nat /\ b.maxtemps \in Nat
    /\ b.firsttemp \in Nat /\ b.firstlocal \in Nat
-----------------------------------------------------------------------------
(* Names in use: only of what was dealt with.                              *)
FunctionIn(p, b, k) == p.functions[b.values[k].value]
HasCodeIn(p, b, k) == /\ k \in DOMAIN b.values /\ HasFunction(b.values[k])
                      /\ FunctionIn(p, b, k).builtin = 0 /\ k \in DOMAIN b.def
KnownPlaces(p, b, vd, fd, xd, cd) ==
    \A v \in DOMAIN b.addr :
      \/ \E k \in vd : v = Value(k)
      \/ \E j \in fd : v = FieldGlobal(j)
      \/ v \in xd
      \/ \E j \in 1 .. b.extparams : v = ExtParam(j)
      \/ \E k \in cd : HasCodeIn(p, b, k) /\ \E j \in DOMAIN FunctionIn(p, b, k).locals : v = Local(k, j)
      \/ \E k \in cd : HasCodeIn(p, b, k) /\ \E j \in DOMAIN FunctionIn(p, b, k).temps : v = Temp(k, j)

PlacesIn(b) == {v \in DOMAIN b.addr : /\ v[1] \notin {"local", "temp"}
                                      /\ v[1] = "value" => ~Wordless(b.values[v[2]])}
TypeIn(p, b, v) == IF v[1] = "value" THEN b.values[v[2]].type
                   ELSE IF v[1] = "field" /\ p.fields[v[2]].type # "vector" THEN "float"
                   ELSE "vector"
WordsIn(p, b, v) == Span(b.addr[v], SizeOf(TypeIn(p, b, v)))
SameConstantIn(b, v, w) ==
    /\ v[1] = "value" /\ w[1] = "value"
    /\ b.values[v[2]].const /\ b.values[w[2]].const
    /\ b.values[v[2]].value = b.values[w[2]].value
Apart(p, b) ==
    /\ ReservedWords <= Len(b.globals)
    /\ \A v \in PlacesIn(b) : WordsIn(p, b, v) \subseteq ReservedWords .. Len(b.globals) - 1
    /\ \A v, w \in PlacesIn(b) :
          v = w \/ WordsIn(p, b, v) \cap WordsIn(p, b, w) = {} \/ SameConstantIn(b, v, w)
ReusableOK(b) ==
    \A x \in DOMAIN b.reusable :
      LET k == b.reusable[x]
      IN /\ Value(k) \in PlacesIn(b) /\ b.values[k].type \in {"float", "entity"}
         /\ b.values[k].const /\ b.values[k].value = x
AreaWords(b) == b.firsttemp .. b.firstlocal + b.maxlocals - 1
AreaOK(p, b) ==
    /\ ReservedWords <= b.firsttemp /\ b.firstlocal = b.firsttemp + b.maxtemps
    /\ b.firstlocal + b.maxlocals <= Len(b.globals)
    /\ \A v \in PlacesIn(b) : WordsIn(p, b, v) \cap AreaWords(b) = {}
HeadersOK(p, b, vd) ==
    /\ 1 <= Len(b.functions)
    /\ DOMAIN b.def \subseteq vd
    /\ \A k \in DOMAIN b.def :
         /\ HasFunction(b.values[k])
         /\ b.def[k] \in 2 .. Len(b.functions)
         /\ b.functions[b.def[k]].of = k
         /\ b.functions[b.def[k]].locals = FunctionIn(p, b, k).allocated
RoomOK(p, b, vd) ==
    \A k \in vd : HasFunction(b.values[k]) =>
        /\ FunctionIn(p, b, k).globaltemps <= b.maxtemps
        /\ ~FunctionIn(p, b, k).nooverlap => FunctionIn(p, b, k).allocated <= b.maxlocals

Laid(p, b, cd) == {k \in cd : HasCodeIn(p, b, k)}
OverlapsIn(p, fs, b, k) == ~FunctionIn(p, b, k).nooverlap /\ "overlap_locals" \in fs
FirstIn(b, k) == b.functions[b.def[k]].firstlocal
AreaIn(p, b, k) == Span(FirstIn(b, k), FunctionIn(p, b, k).allocated)
LaidOK(p, fs, b, cd) ==
    \A k \in Laid(p, b, cd) :
      IF OverlapsIn(p, fs, b, k) THEN FirstIn(b, k) = b.firstlocal
      ELSE /\ b.firstlocal + b.maxlocals <= FirstIn(b, k)
           /\ FirstIn(b, k) + FunctionIn(p, b, k).allocated <= Len(b.globals)
           /\ \A v \in PlacesIn(b) : WordsIn(p, b, v) \cap AreaIn(p, b, k) = {}
           /\ \A m \in Laid(p, b, cd) :
                 k = m \/ OverlapsIn(p, fs, b, m) \/ AreaIn(p, b, k) \cap AreaIn(p, b, m) = {}
SlotWord(fs, b, k, slot) ==
    (IF ToGlobalTemps(slot, fs) THEN b.firsttemp ELSE FirstIn(b, k)) + slot.local
SlotsOK(p, fs, b) ==
    \A v \in DOMAIN b.addr :
      /\ v[1] = "local" =>
            b.addr[v] = SlotWord(fs, b, v[2], FunctionIn(p, b, v[2]).locals[v[3]])
      /\ v[1] = "temp" =>
            b.addr[v] = SlotWord(fs, b, v[2], FunctionIn(p, b, v[2]).temps[v[3]])

Placed(p, fs, b, cd) ==
    /\ Apart(p, b)
    /\ ReusableOK(b)
    /\ LaidOK(p, fs, b, cd)
    /\ SlotsOK(p, fs, b)

FileInv(p, fs, b, vd, fd, xd, cd) ==
    /\ Typed(p, b) /\ FloatsOK(b)
    /\ KnownPlaces(p, b, vd, fd, xd, cd)
    /\ Placed(p, fs, b, cd)
    /\ HeadersOK(p, b, vd)

StageOK ==
    /\ \E c \in Compilations : program = c.program /\ flags = c.flags
    /\ stage \in {"collect", "split", "prepare", "globals", "fields"} \cup CodeStages
    /\ item \in 1 .. Items + 1
    /\ nthcall \in Nat /\ nthparm \in Nat
    /\ stage \in {"copy", "compute", "store"} => item <= Items /\ HasCodeIn(program, builder, item)
    /\ stage \in {"collect", "split", "prepare"} => builder.addr = <<>> /\ builder.reusable = <<>>
    /\ Len(program.values) <= Len(builder.values)
    /\ Len(builder.fieldaddr) = CASE stage \in {"collect", "split"} -> 0
                                  [] stage = "prepare" -> item - 1
                                  [] OTHER -> Len(program.fields)
    /\ \A k \in DOMAIN builder.values :
          IF IsSplit(builder.values[k])
          THEN Len(builder.values[k].parts) = 3 /\ (stage = "split" => k < item) /\ stage # "collect"
          ELSE TRUE
    /\ stage = "collect" => builder.constfloats = {}
LayoutInv ==
    /\ StageOK
    /\ FileInv(program, flags, builder, ValuesDone, FieldsDone, AreaPlacesDone, CodeDone)
    /\ AreasDone => AreaOK(program, builder)
    /\ RoomOK(program, builder, ValuesDone)
-----------------------------------------------------------------------------
(* The texts, defs and fields of the file, and where words are.            *)
HasDefIn(b, at, text) ==
    \E d \in ToSet(b.defs) : d.offset = at /\ ReadsAs(b.strings.chars, d.name, text)
HasFieldIn(b, at, text) ==
    \E f \in ToSet(b.fields) : f.offset = at /\ ReadsAs(b.strings.chars, f.name, text)
HasDefsIn(b, at, text, type) ==
    /\ HasDefIn(b, at, text)
    /\ SizeOf(type) = 3 /\ ~Flag("single_vector_defs") =>
          \A j \in 1 .. 3 : HasDefIn(b, at + j - 1, Component(text, j))
FieldText(field) == IF Flag("gmqcc") THEN <<DOT>> \o field.name ELSE field.name

StartsAt(b, at, words) == \A j \in DOMAIN words : b.globals[at + j] = words[j]
-----------------------------------------------------------------------------
SameLayout(b, c) ==
    /\ c.values = b.values /\ c.constfloats = b.constfloats /\ c.reusable = b.reusable
    /\ c.addr = b.addr /\ c.globals = b.globals /\ c.entfields = b.entfields
    /\ c.fieldaddr = b.fieldaddr /\ c.functions = b.functions /\ c.def = b.def
    /\ c.extparams = b.extparams /\ c.maxlocals = b.maxlocals /\ c.maxtemps = b.maxtemps
    /\ c.firsttemp = b.firsttemp /\ c.firstlocal = b.firstlocal

(* What a step that only names things leaves: all that there is, with more *)
(* texts, defs and fields.                                                 *)
NamesKept(b, c) ==
    /\ SameLayout(b, c) /\ c.statements = b.statements
    /\ Keeps(b.strings.chars, c.strings.chars)
    /\ ToSet(b.defs) \subseteq ToSet(c.defs)
    /\ ToSet(b.fields) \subseteq ToSet(c.fields)

NameReads(b, text) == ReadsAs(b.strings.chars, b.name, text)

LEMMA NamesKeptTransitive ==
    ASSUME NEW b, NEW c, NEW d, NamesKept(b, c), NamesKept(c, d)
    PROVE  NamesKept(b, d)
  BY DEF NamesKept, SameLayout, Keeps

LEMMA NamesKeptReflexive ==
    ASSUME NEW b
    PROVE  NamesKept(b, b)
  BY DEF NamesKept, SameLayout, Keeps

LEMMA AppendAdds ==
    ASSUME NEW S, NEW s \in Seq(S), NEW x \in S
    PROVE  /\ Append(s, x) \in Seq(S) /\ Len(Append(s, x)) = Len(s) + 1
           /\ \A i \in DOMAIN s : i \in DOMAIN Append(s, x) /\ Append(s, x)[i] = s[i]
           /\ Append(s, x)[Len(s) + 1] = x
           /\ ToSet(Append(s, x)) = ToSet(s) \cup {x}
  <1>1. /\ Append(s, x) \in Seq(S) /\ Len(Append(s, x)) = Len(s) + 1
        /\ Append(s, x)[Len(s) + 1] = x
        /\ \A i \in 1 .. Len(s) : Append(s, x)[i] = s[i]
    BY AppendProperties
  <1>2. Len(s) \in Nat /\ DOMAIN s = 1 .. Len(s) /\ DOMAIN Append(s, x) = 1 .. Len(s) + 1
    BY <1>1, LenProperties
  <1>3. \A i \in DOMAIN s : i \in DOMAIN Append(s, x) /\ Append(s, x)[i] = s[i]
    BY <1>1, <1>2
  <1>4. ToSet(Append(s, x)) \subseteq ToSet(s) \cup {x}
    <2> SUFFICES ASSUME NEW i \in 1 .. Len(s) + 1
                 PROVE  Append(s, x)[i] \in ToSet(s) \cup {x}
      BY <1>2 DEF ToSet
    <2>1. i \in 1 .. Len(s) \/ i = Len(s) + 1
      BY <1>2
    <2> QED BY <2>1, <1>1, <1>2 DEF ToSet
  <1>5. ToSet(s) \cup {x} \subseteq ToSet(Append(s, x))
    <2>1. Len(s) + 1 \in DOMAIN Append(s, x)
      BY <1>2
    <2> QED BY <2>1, <1>1, <1>3 DEF ToSet
  <1> QED BY <1>1, <1>3, <1>4, <1>5

(* code_genstring: the text is there, and so is all that was there.        *)
LEMMA GenNameNames ==
    ASSUME NEW p, NEW b, Typed(p, b), NEW text \in Texts
    PROVE  LET g == GenName(b, text)
           IN /\ Typed(p, g) /\ NamesKept(b, g) /\ NameReads(g, text)
              /\ g.defs = b.defs /\ g.fields = b.fields /\ g.filenames = b.filenames
              /\ g.immediate = b.immediate
  <1> DEFINE table == GenString(b.strings, text, Flag("overlap_strings"))
             g == GenName(b, text)
  <1>1. TableOK(table) /\ ReadsAs(table.chars, table.at, text) /\ Keeps(b.strings.chars, table.chars)
    <2>1. TableOK(b.strings) /\ Flag("overlap_strings") \in BOOLEAN
      BY DEF Typed, Flag
    <2> QED BY <2>1, StringsReadBack
  <1>2. table.at \in Nat
    BY <1>1 DEF TableOK, Tables
  <1>3. /\ SameLayout(b, g) /\ DOMAIN g = DOMAIN b /\ g.statements = b.statements
        /\ g.defs = b.defs /\ g.fields = b.fields /\ g.filenames = b.filenames
        /\ g.immediate = b.immediate /\ g.strings = table /\ g.name = table.at
    <2> HIDE DEF table
    <2>1. g = [b EXCEPT !.strings = table, !.name = table.at]
      BY DEF GenName, table
    <2>2. DOMAIN b = BuilderFields
      BY DEF Typed
    <2> HIDE DEF g
    <2> QED BY <2>1, <2>2 DEF BuilderFields, SameLayout
  <1> HIDE DEF g, table
  <1>4. Typed(p, g)
    BY <1>1, <1>2, <1>3 DEF Typed, SameLayout
  <1>5. NamesKept(b, g) /\ NameReads(g, text)
    BY <1>1, <1>3 DEF NamesKept, NameReads
  <1> QED BY <1>3, <1>4, <1>5 DEF g

LEMMA PushDefNames ==
    ASSUME NEW p, NEW b, Typed(p, b), NEW at \in Nat
    PROVE  LET g == PushDef(b, at)
           IN /\ Typed(p, g) /\ NamesKept(b, g)
              /\ [name |-> b.name, offset |-> at] \in ToSet(g.defs)
              /\ g.strings = b.strings /\ g.name = b.name /\ g.filenames = b.filenames
              /\ g.immediate = b.immediate
  <1> DEFINE d == [name |-> b.name, offset |-> at]
             g == PushDef(b, at)
  <1>1. /\ SameLayout(b, g) /\ DOMAIN g = DOMAIN b /\ g.statements = b.statements
        /\ g.defs = Append(b.defs, d) /\ g.fields = b.fields /\ g.filenames = b.filenames
        /\ g.immediate = b.immediate /\ g.strings = b.strings /\ g.name = b.name
    <2>1. DOMAIN b = BuilderFields
      BY DEF Typed
    <2> QED BY <2>1 DEF BuilderFields, SameLayout, PushDef
  <1> HIDE DEF g
  <1>2. d \in Names /\ b.defs \in Seq(Names)
    BY DEF Typed, Names
  <1> HIDE DEF d
  <1>3. Append(b.defs, d) \in Seq(Names) /\ ToSet(Append(b.defs, d)) = ToSet(b.defs) \cup {d}
    BY <1>2, AppendAdds
  <1>4. Typed(p, g)
    BY <1>1, <1>3 DEF Typed, SameLayout
  <1>5. NamesKept(b, g) /\ d \in ToSet(g.defs)
    BY <1>1, <1>3 DEF NamesKept, Keeps
  <1> QED BY <1>1, <1>4, <1>5 DEF g, d

LEMMA PushFieldNames ==
    ASSUME NEW p, NEW b, Typed(p, b), NEW name \in Nat, NEW at \in Nat
    PROVE  LET g == PushField(b, name, at)
           IN /\ Typed(p, g) /\ NamesKept(b, g)
              /\ [name |-> name, offset |-> at] \in ToSet(g.fields)
              /\ g.strings = b.strings /\ g.name = b.name
              /\ g.filenames = b.filenames /\ g.immediate = b.immediate
  <1> DEFINE d == [name |-> name, offset |-> at]
             g == PushField(b, name, at)
  <1>1. /\ SameLayout(b, g) /\ DOMAIN g = DOMAIN b /\ g.statements = b.statements
        /\ g.fields = Append(b.fields, d) /\ g.defs = b.defs /\ g.filenames = b.filenames
        /\ g.immediate = b.immediate /\ g.strings = b.strings /\ g.name = b.name
    <2>1. DOMAIN b = BuilderFields
      BY DEF Typed
    <2> QED BY <2>1 DEF BuilderFields, SameLayout, PushField
  <1> HIDE DEF g
  <1>2. d \in Names /\ b.fields \in Seq(Names)
    BY DEF Typed, Names
  <1> HIDE DEF d
  <1>3. Append(b.fields, d) \in Seq(Names) /\ ToSet(Append(b.fields, d)) = ToSet(b.fields) \cup {d}
    BY <1>2, AppendAdds
  <1>4. Typed(p, g)
    BY <1>1, <1>3 DEF Typed, SameLayout
  <1>5. NamesKept(b, g) /\ d \in ToSet(g.fields)
    BY <1>1, <1>3 DEF NamesKept, Keeps
  <1> QED BY <1>1, <1>4, <1>5 DEF g, d
-----------------------------------------------------------------------------
LEMMA NamesNat ==
    ASSUME NEW p, NEW b, Typed(p, b)
    PROVE  \A d \in ToSet(b.defs) \cup ToSet(b.fields) : d.name \in Nat /\ d.offset \in Nat
  <1>1. b.defs \in Seq(Names) /\ b.fields \in Seq(Names)
    BY DEF Typed
  <1>2. \A i \in DOMAIN b.defs : b.defs[i] \in Names
    BY <1>1, LenProperties
  <1>3. \A i \in DOMAIN b.fields : b.fields[i] \in Names
    BY <1>1, LenProperties
  <1> QED BY <1>2, <1>3 DEF ToSet, Names

(* What is named stays named.                                              *)
LEMMA DefsKept ==
    ASSUME NEW p, NEW b, NEW c, Typed(p, b), NamesKept(b, c), NEW at, NEW text \in Texts
    PROVE  /\ HasDefIn(b, at, text) => HasDefIn(c, at, text)
           /\ HasFieldIn(b, at, text) => HasFieldIn(c, at, text)
  BY NamesNat DEF HasDefIn, HasFieldIn, NamesKept, Keeps

LEMMA SameNameReads ==
    ASSUME NEW b, NEW c, NEW text, NameReads(b, text), c.strings = b.strings, c.name = b.name
    PROVE  NameReads(c, text)
  BY DEF NameReads

LEMMA NameSet ==
    ASSUME NEW p, NEW b, Typed(p, b), NEW n \in Nat
    PROVE  LET g == [b EXCEPT !.name = n]
           IN /\ Typed(p, g) /\ NamesKept(b, g) /\ SameLayout(b, g)
              /\ g.filenames = b.filenames /\ g.strings = b.strings /\ g.name = n
              /\ g.defs = b.defs /\ g.fields = b.fields
  <1> DEFINE g == [b EXCEPT !.name = n]
  <1>1. DOMAIN b = BuilderFields
    BY DEF Typed
  <1>2. /\ SameLayout(b, g) /\ DOMAIN g = DOMAIN b /\ g.statements = b.statements
        /\ g.fields = b.fields /\ g.defs = b.defs /\ g.filenames = b.filenames
        /\ g.immediate = b.immediate /\ g.strings = b.strings /\ g.name = n
    BY <1>1 DEF BuilderFields, SameLayout
  <1> HIDE DEF g
  <1>3. Typed(p, g)
    BY <1>2 DEF Typed, SameLayout
  <1>4. NamesKept(b, g)
    BY <1>2 DEF NamesKept, Keeps
  <1> QED BY <1>2, <1>3, <1>4 DEF g

(* The name of a def: the value's, if it has a def and is no literal.      *)
LEMMA NamedNames ==
    ASSUME NEW p, NEW b, Typed(p, b), NEW v, v.name \in Texts
    PROVE  LET g == Named(b, v)
           IN /\ Typed(p, g) /\ NamesKept(b, g) /\ g.filenames = b.filenames
              /\ PushesDef(v) /\ ~IsLiteral(v) => NameReads(g, v.name)
  <1>1. ASSUME NEW n \in Nat
        PROVE  LET g == [b EXCEPT !.name = n]
               IN Typed(p, g) /\ NamesKept(b, g) /\ g.filenames = b.filenames
    BY NameSet
  <1>2. CASE ~PushesDef(v)
    BY <1>1, <1>2 DEF Named
  <1>3. CASE PushesDef(v) /\ IsLiteral(v)
    <2>1. CASE b.immediate # 0
      <3>1. b.immediate \in Nat
        BY DEF Typed
      <3> QED BY <1>1, <1>3, <2>1, <3>1 DEF Named, Immediate
    <2>2. CASE b.immediate = 0
      <3> DEFINE g == GenName(b, IMMEDIATE)
                 i == [g EXCEPT !.immediate = g.name]
      <3>1. IMMEDIATE \in Texts
        BY DEF IMMEDIATE, Texts
      <3>2. Typed(p, g) /\ NamesKept(b, g) /\ g.filenames = b.filenames
        BY <3>1, GenNameNames
      <3> HIDE DEF g
      <3>3. DOMAIN g = BuilderFields /\ g.name \in Nat
        BY <3>2 DEF Typed
      <3>4. /\ SameLayout(g, i) /\ DOMAIN i = DOMAIN g /\ i.statements = g.statements
            /\ i.fields = g.fields /\ i.defs = g.defs /\ i.filenames = g.filenames
            /\ i.immediate = g.name /\ i.strings = g.strings /\ i.name = g.name
        BY <3>3 DEF BuilderFields, SameLayout
      <3>5. Named(b, v) = i
        BY <1>3, <2>2 DEF Named, Immediate, g
      <3> HIDE DEF i
      <3>6. Typed(p, i)
        BY <3>2, <3>3, <3>4 DEF Typed, SameLayout
      <3>7. NamesKept(g, i)
        BY <3>4 DEF NamesKept, Keeps
      <3> QED BY <1>3, <3>2, <3>4, <3>5, <3>6, <3>7, NamesKeptTransitive
    <2> QED BY <2>1, <2>2
  <1>4. CASE PushesDef(v) /\ ~IsLiteral(v)
    <2>1. Named(b, v) = GenName(b, v.name)
      BY <1>4 DEF Named
    <2> QED BY <2>1, GenNameNames
  <1> QED BY <1>2, <1>3, <1>4

LEMMA ComponentText ==
    ASSUME NEW name \in Texts, NEW j \in 1 .. 3
    PROVE  Component(name, j) \in Texts
  <1>1. <<UNDERSCORE, LETTERX + j - 1>> \in Texts
    BY DEF Texts, UNDERSCORE, LETTERX
  <1> QED BY <1>1, ConcatProperties DEF Component, Texts

LEMMA DefOfPartNames ==
    ASSUME NEW p, NEW b, Typed(p, b), NEW name \in Texts, NEW at \in Nat, NEW j \in 1 .. 3
    PROVE  LET g == DefOfPart(b, name, at, j)
           IN Typed(p, g) /\ NamesKept(b, g) /\ HasDefIn(g, at + j - 1, Component(name, j))
  <1> DEFINE c == GenName(b, Component(name, j))
             g == DefOfPart(b, name, at, j)
  <1>1. Typed(p, c) /\ NamesKept(b, c) /\ NameReads(c, Component(name, j))
    BY ComponentText, GenNameNames
  <1> HIDE DEF c
  <1>2. at + j - 1 \in Nat
    OBVIOUS
  <1>3. /\ Typed(p, g) /\ NamesKept(c, g) /\ g.strings = c.strings
        /\ [name |-> c.name, offset |-> at + j - 1] \in ToSet(g.defs)
    BY <1>1, <1>2, PushDefNames DEF DefOfPart, c
  <1> HIDE DEF g
  <1>4. HasDefIn(g, at + j - 1, Component(name, j))
    BY <1>1, <1>3 DEF HasDefIn, NameReads
  <1> QED BY <1>1, <1>3, <1>4, NamesKeptTransitive DEF g

LEMMA VectorDefsNames ==
    ASSUME NEW p, NEW b, Typed(p, b), NEW name \in Texts, NEW at \in Nat
    PROVE  LET g == VectorDefs(b, name, at)
           IN /\ Typed(p, g) /\ NamesKept(b, g)
              /\ name[1] # HASH /\ ~Flag("single_vector_defs") =>
                    \A j \in 1 .. 3 : HasDefIn(g, at + j - 1, Component(name, j))
  <1>1. CASE name[1] = HASH \/ Flag("single_vector_defs")
    BY <1>1, NamesKeptReflexive DEF VectorDefs
  <1>2. CASE ~(name[1] = HASH \/ Flag("single_vector_defs"))
    <2> DEFINE x == DefOfPart(b, name, at, 1)
               y == DefOfPart(x, name, at, 2)
               z == DefOfPart(y, name, at, 3)
    <2>1. Typed(p, x) /\ NamesKept(b, x) /\ HasDefIn(x, at + 1 - 1, Component(name, 1))
      <3>1. 1 \in 1 .. 3
        OBVIOUS
      <3> QED BY <3>1, DefOfPartNames, Zenon
    <2> HIDE DEF x
    <2>2. Typed(p, y) /\ NamesKept(x, y) /\ HasDefIn(y, at + 2 - 1, Component(name, 2))
      <3>1. 2 \in 1 .. 3
        OBVIOUS
      <3> QED BY <2>1, <3>1, DefOfPartNames, Zenon
    <2> HIDE DEF y
    <2>3. Typed(p, z) /\ NamesKept(y, z) /\ HasDefIn(z, at + 3 - 1, Component(name, 3))
      <3>1. 3 \in 1 .. 3
        OBVIOUS
      <3> QED BY <2>2, <3>1, DefOfPartNames, Zenon
    <2> HIDE DEF z
    <2>4. NamesKept(x, z) /\ NamesKept(b, z)
      BY <2>1, <2>2, <2>3, NamesKeptTransitive
    <2>5. Component(name, 1) \in Texts /\ Component(name, 2) \in Texts
      BY ComponentText
    <2>6. HasDefIn(z, at + 1 - 1, Component(name, 1)) /\ HasDefIn(z, at + 2 - 1, Component(name, 2))
      <3>1. HasDefIn(z, at + 1 - 1, Component(name, 1))
        BY ONLY <2>1, <2>4, <2>5, DefsKept, Zenon
      <3>2. HasDefIn(z, at + 2 - 1, Component(name, 2))
        BY ONLY <2>2, <2>3, <2>5, DefsKept, Zenon
      <3> QED BY <3>1, <3>2
    <2>7. \A j \in 1 .. 3 : HasDefIn(z, at + j - 1, Component(name, j))
      <3> SUFFICES ASSUME NEW j \in 1 .. 3 PROVE HasDefIn(z, at + j - 1, Component(name, j))
        OBVIOUS
      <3>1. j = 1 \/ j = 2 \/ j = 3
        OBVIOUS
      <3> QED BY <2>3, <2>6, <3>1
    <2>8. VectorDefs(b, name, at) = z
      BY <1>2 DEF VectorDefs, x, y, z
    <2> QED BY <2>3, <2>4, <2>7, <2>8
  <1> QED BY <1>1, <1>2

LEMMA FieldOfPartNames ==
    ASSUME NEW p, NEW b, Typed(p, b), NEW name \in Texts, NEW at \in Nat, NEW j \in 1 .. 3
    PROVE  LET g == FieldOfPart(b, name, at, j) IN Typed(p, g) /\ NamesKept(b, g)
  <1> DEFINE c == GenName(b, Component(name, j))
             g == FieldOfPart(b, name, at, j)
  <1>1. Typed(p, c) /\ NamesKept(b, c)
    BY ComponentText, GenNameNames
  <1> HIDE DEF c
  <1>2. at + j - 1 \in Nat /\ c.name \in Nat
    <2>1. c.name \in Nat
      BY <1>1 DEF Typed
    <2>2. at + j - 1 \in Nat
      OBVIOUS
    <2> QED BY <2>1, <2>2
  <1>3. Typed(p, g) /\ NamesKept(c, g)
    BY <1>1, <1>2, PushFieldNames DEF FieldOfPart, c
  <1> QED BY <1>1, <1>3, NamesKeptTransitive

LEMMA VectorFieldsNames ==
    ASSUME NEW p, NEW b, Typed(p, b), NEW name \in Texts, NEW at \in Nat
    PROVE  LET g == VectorFields(b, name, at) IN Typed(p, g) /\ NamesKept(b, g)
  <1>1. CASE Flag("single_vector_defs")
    BY <1>1, NamesKeptReflexive DEF VectorFields
  <1>2. CASE ~Flag("single_vector_defs")
    <2> DEFINE x == FieldOfPart(b, name, at, 1)
               y == FieldOfPart(x, name, at, 2)
               z == FieldOfPart(y, name, at, 3)
    <2>1. Typed(p, x) /\ NamesKept(b, x)
      BY FieldOfPartNames
    <2> HIDE DEF x
    <2>2. Typed(p, y) /\ NamesKept(x, y)
      BY <2>1, FieldOfPartNames
    <2> HIDE DEF y
    <2>3. Typed(p, z) /\ NamesKept(y, z)
      BY <2>2, FieldOfPartNames
    <2> HIDE DEF z
    <2>4. NamesKept(b, z)
      BY <2>1, <2>2, <2>3, NamesKeptTransitive
    <2>5. VectorFields(b, name, at) = z
      BY <1>2 DEF VectorFields, x, y, z
    <2> QED BY <2>3, <2>4, <2>5
  <1> QED BY <1>1, <1>2

LEMMA WithDefsNames ==
    ASSUME NEW p, NEW b, Typed(p, b), NEW v, v.name \in Texts, NEW at \in Nat
    PROVE  LET g == WithDefs(b, v, at)
           IN /\ Typed(p, g) /\ NamesKept(b, g)
              /\ PushesDef(v) /\ ~IsLiteral(v) /\ NameReads(b, v.name) =>
                    HasDefsIn(g, at, v.name, v.type)
  <1>1. CASE ~PushesDef(v)
    BY <1>1, NamesKeptReflexive DEF WithDefs
  <1>2. CASE PushesDef(v)
    <2> DEFINE d == PushDef(b, at)
               z == VectorDefs(d, v.name, at)
    <2>1. /\ Typed(p, d) /\ NamesKept(b, d) /\ d.strings = b.strings
          /\ [name |-> b.name, offset |-> at] \in ToSet(d.defs)
      BY PushDefNames
    <2> HIDE DEF d
    <2>2. NameReads(b, v.name) => HasDefIn(d, at, v.name)
      BY <2>1 DEF HasDefIn, NameReads
    <2>3. /\ Typed(p, z) /\ NamesKept(d, z)
          /\ ~IsLiteral(v) /\ ~Flag("single_vector_defs") =>
                \A j \in 1 .. 3 : HasDefIn(z, at + j - 1, Component(v.name, j))
      BY <2>1, VectorDefsNames DEF IsLiteral
    <2> HIDE DEF z
    <2>4. NamesKept(b, z)
      BY <2>1, <2>3, NamesKeptTransitive
    <2>5. NameReads(b, v.name) => HasDefIn(z, at, v.name)
      BY <2>1, <2>2, <2>3, DefsKept
    <2>6. WithDefs(b, v, at) = IF SizeOf(v.type) = 3 THEN z ELSE d
      BY <1>2 DEF WithDefs, d, z
    <2> QED BY <2>1, <2>2, <2>3, <2>4, <2>5, <2>6 DEF HasDefsIn
  <1> QED BY <1>1, <1>2

(* ir_builder::filestring names the file, or says which one it is.         *)
LEMMA FileStringNames ==
    ASSUME NEW p, NEW b, Typed(p, b), NEW file \in Texts
    PROVE  LET g == FileString(b, file) IN Typed(p, g) /\ NamesKept(b, g)
  <1>0. b.filenames \in Seq(Texts) /\ DOMAIN b = BuilderFields
    BY DEF Typed
  <1>1. CASE file \in ToSet(b.filenames)
    <2> DEFINE n == (CHOOSE i \in DOMAIN b.filenames : b.filenames[i] = file) - 1
               g == [b EXCEPT !.name = n]
    <2>1. n \in Nat
      <3>1. \E i \in DOMAIN b.filenames : b.filenames[i] = file
        BY <1>1 DEF ToSet
      <3>2. DOMAIN b.filenames = 1 .. Len(b.filenames) /\ Len(b.filenames) \in Nat
        BY <1>0, LenProperties
      <3> QED BY <3>1, <3>2
    <2>2. FileString(b, file) = g
      BY <1>1 DEF FileString
    <2> HIDE DEF n
    <2>3. /\ SameLayout(b, g) /\ DOMAIN g = DOMAIN b /\ g.statements = b.statements
          /\ g.fields = b.fields /\ g.defs = b.defs /\ g.filenames = b.filenames
          /\ g.immediate = b.immediate /\ g.strings = b.strings /\ g.name = n
      BY <1>0 DEF BuilderFields, SameLayout
    <2> HIDE DEF g
    <2>4. Typed(p, g)
      BY <2>1, <2>3 DEF Typed, SameLayout
    <2>5. NamesKept(b, g)
      BY <2>3 DEF NamesKept, Keeps
    <2> QED BY <2>2, <2>4, <2>5
  <1>2. CASE file \notin ToSet(b.filenames)
    <2> DEFINE g == GenName(b, file)
               i == [g EXCEPT !.filenames = Append(@, file)]
    <2>1. Typed(p, g) /\ NamesKept(b, g) /\ g.filenames = b.filenames
      BY GenNameNames
    <2>2. FileString(b, file) = i
      BY <1>2 DEF FileString
    <2> HIDE DEF g
    <2>3. DOMAIN g = BuilderFields
      BY <2>1 DEF Typed
    <2>4. /\ SameLayout(g, i) /\ DOMAIN i = DOMAIN g /\ i.statements = g.statements
          /\ i.fields = g.fields /\ i.defs = g.defs /\ i.filenames = Append(g.filenames, file)
          /\ i.immediate = g.immediate /\ i.strings = g.strings /\ i.name = g.name
      BY <2>3 DEF BuilderFields, SameLayout
    <2> HIDE DEF i
    <2>5. i.filenames \in Seq(Texts)
      BY <1>0, <2>1, <2>4, AppendProperties
    <2>6. Typed(p, i)
      BY <2>1, <2>4, <2>5 DEF Typed, SameLayout
    <2>7. NamesKept(g, i)
      BY <2>4 DEF NamesKept, Keeps
    <2> QED BY <2>1, <2>2, <2>6, <2>7, NamesKeptTransitive
  <1> QED BY <1>1, <1>2
-----------------------------------------------------------------------------
(***************************************************************************)
(* Words for a new thing lie behind all there were.                        *)
(***************************************************************************)
SameButPlaces(b, c) ==
    /\ DOMAIN c = DOMAIN b
    /\ c.values = b.values /\ c.constfloats = b.constfloats /\ c.reusable = b.reusable
    /\ c.strings = b.strings /\ c.name = b.name /\ c.immediate = b.immediate
    /\ c.filenames = b.filenames /\ c.defs = b.defs /\ c.fields = b.fields
    /\ c.entfields = b.entfields /\ c.fieldaddr = b.fieldaddr /\ c.functions = b.functions
    /\ c.def = b.def /\ c.statements = b.statements /\ c.extparams = b.extparams
    /\ c.maxlocals = b.maxlocals /\ c.maxtemps = b.maxtemps
    /\ c.firsttemp = b.firsttemp /\ c.firstlocal = b.firstlocal

LEMMA WithMaps ==
    ASSUME NEW S, NEW T, NEW f, IsMap(f, S, T), NEW x \in S, NEW y \in T
    PROVE  /\ IsMap(With(f, x, y), S, T)
           /\ DOMAIN With(f, x, y) = DOMAIN f \cup {x}
           /\ With(f, x, y)[x] = y
           /\ \A z \in DOMAIN f : z # x => With(f, x, y)[z] = f[z]
  BY DEF IsMap, With

LEMMA ConcatIs ==
    ASSUME NEW S, NEW s \in Seq(S), NEW t \in Seq(S)
    PROVE  /\ s \o t \in Seq(S) /\ Len(s \o t) = Len(s) + Len(t)
           /\ \A i \in 1 .. Len(s) : (s \o t)[i] = s[i]
           /\ \A i \in 1 .. Len(t) : (s \o t)[Len(s) + i] = t[i]
  BY ConcatProperties, LenProperties

LEMMA PushWordsTyped ==
    ASSUME NEW p, NEW b, Typed(p, b), NEW v \in PlaceNames, NEW words \in Seq(Int)
    PROVE  LET c == PushWords(b, v, words)
           IN /\ Typed(p, c) /\ SameButPlaces(b, c)
              /\ c.addr = With(b.addr, v, Len(b.globals)) /\ c.globals = b.globals \o words
  <1> DEFINE c == PushWords(b, v, words)
  <1>1. /\ SameButPlaces(b, c)
        /\ c.addr = With(b.addr, v, Len(b.globals)) /\ c.globals = b.globals \o words
    <2>1. DOMAIN b = BuilderFields
      BY DEF Typed
    <2> QED BY <2>1 DEF BuilderFields, SameButPlaces, PushWords, setCodeAddress
  <1> HIDE DEF c
  <1>2. b.globals \in Seq(Int) /\ IsMap(b.addr, PlaceNames, Nat)
    BY DEF Typed
  <1>3. c.globals \in Seq(Int) /\ Len(b.globals) \in Nat
    BY <1>1, <1>2, ConcatProperties, LenProperties
  <1>4. IsMap(c.addr, PlaceNames, Nat)
    <2>1. IsMap(With(b.addr, v, Len(b.globals)), PlaceNames, Nat)
      BY <1>2, <1>3, WithMaps, Zenon
    <2> QED BY <2>1, <1>1
  <1>5. Typed(p, c)
    BY <1>1, <1>3, <1>4 DEF Typed, SameButPlaces
  <1> QED BY <1>1, <1>5 DEF c

(* What the numbers of the layout are.                                     *)
LEMMA LayoutNat ==
    ASSUME NEW p, NEW fs, NEW b, NEW vd, IsProgram(p, fs), Typed(p, b), HeadersOK(p, b, vd)
    PROVE  \A k \in DOMAIN b.def :
              /\ k \in Nat /\ b.def[k] \in Nat /\ b.def[k] - 1 \in Nat
              /\ b.def[k] \in DOMAIN b.functions
              /\ b.functions[b.def[k]] \in Headers
              /\ FirstIn(b, k) \in Nat
  <1>1. b.functions \in Seq(Headers) /\ IsMap(b.def, Nat, Nat)
    BY DEF Typed
  <1> SUFFICES ASSUME NEW k \in DOMAIN b.def
               PROVE  /\ k \in Nat /\ b.def[k] \in Nat /\ b.def[k] - 1 \in Nat
                      /\ b.def[k] \in DOMAIN b.functions
                      /\ b.functions[b.def[k]] \in Headers
                      /\ FirstIn(b, k) \in Nat
    OBVIOUS
  <1>2. b.def[k] \in 2 .. Len(b.functions) /\ Len(b.functions) \in Nat
    BY <1>1, LenProperties DEF HeadersOK
  <1>3. b.def[k] \in 1 .. Len(b.functions) /\ b.def[k] - 1 \in Nat /\ b.def[k] \in Nat
    BY <1>2
  <1>4. b.def[k] \in DOMAIN b.functions
    BY <1>1, <1>3, LenProperties
  <1>5. b.functions[b.def[k]] \in Headers
    BY <1>1, <1>3, ElementOfSeq
  <1> QED BY <1>1, <1>3, <1>4, <1>5 DEF IsMap, FirstIn, Headers

(* A function's value leads to a function.                                 *)
LEMMA FunctionsAre ==
    ASSUME NEW p, NEW fs, NEW b, IsProgram(p, fs), Typed(p, b),
           NEW k \in DOMAIN b.values, HasFunction(b.values[k])
    PROVE  /\ b.values[k].value \in DOMAIN p.functions
           /\ FunctionIn(p, b, k) = p.functions[b.values[k].value]
           /\ IsFunction(p, FunctionIn(p, b, k), fs)
           /\ FunctionIn(p, b, k).allocated \in Nat /\ FunctionIn(p, b, k).globaltemps \in Nat
  <1>1. IsValue(p, b.values[k])
    BY DEF Typed, ValuesOK
  <1>2. b.values[k].value \in DOMAIN p.functions
    BY <1>1 DEF IsValue, HasFunction, Starts
  <1>3. p.functions[b.values[k].value] \in ToSet(p.functions)
    BY <1>2 DEF ToSet
  <1>4. IsFunction(p, FunctionIn(p, b, k), fs)
    BY <1>3 DEF IsProgram, FunctionIn
  <1> QED BY <1>2, <1>4 DEF FunctionIn, IsFunction

LEMMA LaidNat ==
    ASSUME NEW p, NEW fs, NEW b, NEW vd, NEW cd,
           IsProgram(p, fs), Typed(p, b), HeadersOK(p, b, vd)
    PROVE  \A k \in Laid(p, b, cd) :
              FirstIn(b, k) \in Nat /\ FunctionIn(p, b, k).allocated \in Nat
  BY LayoutNat, FunctionsAre DEF Laid, HasCodeIn

LEMMA Sizes ==
    \A type : SizeOf(type) = 1 \/ SizeOf(type) = 3
  BY DEF SizeOf

(* The layout is the same if what it is made of is.                        *)
LEMMA PlacedKept ==
    ASSUME NEW p, NEW fs, NEW cd, NEW b, NEW c, SameLayout(b, c)
    PROVE  /\ Placed(p, fs, b, cd) => Placed(p, fs, c, cd)
           /\ AreaOK(p, b) => AreaOK(p, c)
           /\ FloatsOK(b) => FloatsOK(c)
           /\ \A vd : HeadersOK(p, b, vd) => HeadersOK(p, c, vd)
           /\ \A vd : RoomOK(p, b, vd) => RoomOK(p, c, vd)
           /\ \A vd, fd, xd : KnownPlaces(p, b, vd, fd, xd, cd) => KnownPlaces(p, c, vd, fd, xd, cd)
  <1>1. /\ PlacesIn(c) = PlacesIn(b)
        /\ \A v : WordsIn(p, c, v) = WordsIn(p, b, v)
        /\ \A v, w : SameConstantIn(c, v, w) <=> SameConstantIn(b, v, w)
        /\ \A k : FunctionIn(p, c, k) = FunctionIn(p, b, k)
        /\ \A k : HasCodeIn(p, c, k) <=> HasCodeIn(p, b, k)
    BY DEF SameLayout, PlacesIn, WordsIn, TypeIn, SameConstantIn, FunctionIn, HasCodeIn
  <1>2. /\ Laid(p, c, cd) = Laid(p, b, cd)
        /\ \A k : OverlapsIn(p, fs, c, k) <=> OverlapsIn(p, fs, b, k)
        /\ \A k : FirstIn(c, k) = FirstIn(b, k)
        /\ \A k : AreaIn(p, c, k) = AreaIn(p, b, k)
    BY <1>1 DEF SameLayout, Laid, OverlapsIn, FirstIn, AreaIn
  <1>3. \A k, slot : SlotWord(fs, c, k, slot) = SlotWord(fs, b, k, slot)
    BY <1>2 DEF SameLayout, SlotWord
  <1>4. Apart(p, b) => Apart(p, c)
    BY <1>1 DEF SameLayout, Apart
  <1>5. ReusableOK(b) => ReusableOK(c)
    BY <1>1 DEF SameLayout, ReusableOK
  <1>6. LaidOK(p, fs, b, cd) => LaidOK(p, fs, c, cd)
    BY <1>1, <1>2 DEF SameLayout, LaidOK
  <1>7. SlotsOK(p, fs, b) => SlotsOK(p, fs, c)
    BY <1>1, <1>3 DEF SameLayout, SlotsOK
  <1>8. AreaOK(p, b) => AreaOK(p, c)
    BY <1>1 DEF SameLayout, AreaOK, AreaWords
  <1>9. FloatsOK(b) => FloatsOK(c)
    BY DEF SameLayout, FloatsOK
  <1>10. ASSUME NEW vd, HeadersOK(p, b, vd) PROVE HeadersOK(p, c, vd)
    BY <1>1, <1>10 DEF SameLayout, HeadersOK
  <1>11. ASSUME NEW vd, RoomOK(p, b, vd) PROVE RoomOK(p, c, vd)
    BY <1>1, <1>11 DEF SameLayout, RoomOK
  <1>12. ASSUME NEW vd, NEW fd, NEW xd, KnownPlaces(p, b, vd, fd, xd, cd)
         PROVE  KnownPlaces(p, c, vd, fd, xd, cd)
    BY <1>1, <1>12 DEF SameLayout, KnownPlaces
  <1> QED BY <1>4, <1>5, <1>6, <1>7, <1>8, <1>9, <1>10, <1>11, <1>12 DEF Placed

(* A place: not the name of a local or a temporary.                        *)
PlaceOf(p, b, v, words) ==
    /\ v \in PlaceNames /\ v \notin DOMAIN b.addr /\ v[1] \notin {"local", "temp"}
    /\ words \in Seq(Int)
    /\ ~(v[1] = "value" /\ Wordless(b.values[v[2]])) => Len(words) = SizeOf(TypeIn(p, b, v))

LEMMA NewPlace ==
    ASSUME NEW p, NEW fs, NEW cd, NEW b, NEW v, NEW words,
           IsProgram(p, fs), Typed(p, b), NEW set, HeadersOK(p, b, set),
           PlaceOf(p, b, v, words), Placed(p, fs, b, cd)
    PROVE  LET c == PushWords(b, v, words)
           IN /\ Typed(p, c) /\ SameButPlaces(b, c)
              /\ c.addr = With(b.addr, v, Len(b.globals)) /\ c.globals = b.globals \o words
              /\ DOMAIN c.addr = DOMAIN b.addr \cup {v}
              /\ Placed(p, fs, c, cd)
              /\ AreaOK(p, b) => AreaOK(p, c)
              /\ \A vd : HeadersOK(p, b, vd) => HeadersOK(p, c, vd)
              /\ \A vd : RoomOK(p, b, vd) => RoomOK(p, c, vd)
  <1> DEFINE c == PushWords(b, v, words)
             L == Len(b.globals)
  <1>1. v \in PlaceNames /\ v \notin DOMAIN b.addr /\ v[1] \notin {"local", "temp"} /\ words \in Seq(Int)
    BY DEF PlaceOf
  <1>2. /\ Typed(p, c) /\ SameButPlaces(b, c)
        /\ c.addr = With(b.addr, v, L) /\ c.globals = b.globals \o words
    BY <1>1, PushWordsTyped
  <1> HIDE DEF c
  <1>3. b.globals \in Seq(Int) /\ IsMap(b.addr, PlaceNames, Nat)
    BY DEF Typed
  <1>4. L \in Nat /\ Len(c.globals) = L + Len(words) /\ Len(words) \in Nat
    BY <1>1, <1>2, <1>3, ConcatProperties, LenProperties
  <1> DEFINE G == Len(c.globals)
  <1> HIDE DEF L
  <1>5. /\ DOMAIN c.addr = DOMAIN b.addr \cup {v} /\ c.addr[v] = L
        /\ \A u \in DOMAIN b.addr : c.addr[u] = b.addr[u] /\ b.addr[u] \in Nat
    <2>1. /\ DOMAIN With(b.addr, v, L) = DOMAIN b.addr \cup {v}
          /\ With(b.addr, v, L)[v] = L
          /\ \A u \in DOMAIN b.addr : u # v => With(b.addr, v, L)[u] = b.addr[u]
      BY DEF With
    <2>2. \A u \in DOMAIN b.addr : b.addr[u] \in Nat /\ u # v
      BY <1>1, <1>3 DEF IsMap
    <2> QED BY <2>1, <2>2, <1>2
  <1>6. /\ c.values = b.values /\ c.def = b.def /\ c.functions = b.functions
        /\ c.reusable = b.reusable /\ c.firsttemp = b.firsttemp /\ c.firstlocal = b.firstlocal
        /\ c.maxlocals = b.maxlocals /\ c.maxtemps = b.maxtemps
    BY <1>2 DEF SameButPlaces
  <1>7. /\ PlacesIn(b) \subseteq PlacesIn(c) /\ PlacesIn(c) \subseteq PlacesIn(b) \cup {v}
        /\ \A u \in PlacesIn(b) : WordsIn(p, c, u) = WordsIn(p, b, u)
        /\ v \notin PlacesIn(b)
    BY <1>1, <1>5, <1>6 DEF PlacesIn, WordsIn, TypeIn
  <1>8. Apart(p, b) /\ ReusableOK(b) /\ LaidOK(p, fs, b, cd) /\ SlotsOK(p, fs, b)
    BY DEF Placed
  <1>9. ASSUME v \in PlacesIn(c) PROVE WordsIn(p, c, v) = L .. G - 1
    <2>1. Len(words) = SizeOf(TypeIn(p, b, v))
      BY <1>6, <1>9 DEF PlacesIn, PlaceOf
    <2>2. TypeIn(p, c, v) = TypeIn(p, b, v)
      BY <1>6 DEF TypeIn
    <2> QED BY <2>1, <2>2, <1>4, <1>5, Sizes DEF WordsIn, Span
  <1>10. \A u \in PlacesIn(b) : WordsIn(p, b, u) \subseteq ReservedWords .. L - 1
    BY <1>8 DEF Apart, L
  <1>11. ReservedWords <= L /\ ReservedWords \in Nat /\ G \in Nat /\ L <= G /\ L \in Nat
    BY <1>4, <1>8 DEF Apart, L, ReservedWords
  <1> HIDE DEF G
  <1>12. Apart(p, c)
    <2>1. \A u \in PlacesIn(c) : WordsIn(p, c, u) \subseteq ReservedWords .. G - 1
      BY <1>4, <1>7, <1>9, <1>10, <1>11
    <2>2. ASSUME NEW u \in PlacesIn(c), NEW w \in PlacesIn(c), u # w,
                 ~SameConstantIn(c, u, w)
          PROVE  WordsIn(p, c, u) \cap WordsIn(p, c, w) = {}
      <3>1. CASE u = v
        BY <2>2, <3>1, <1>4, <1>7, <1>9, <1>10, <1>11
      <3>2. CASE w = v
        BY <2>2, <3>2, <1>4, <1>7, <1>9, <1>10, <1>11
      <3>3. CASE u # v /\ w # v
        <4>1. u \in PlacesIn(b) /\ w \in PlacesIn(b)
          BY <3>3, <1>7
        <4>2. ~SameConstantIn(b, u, w)
          BY <2>2, <1>6 DEF SameConstantIn
        <4> QED BY <4>1, <4>2, <2>2, <1>7, <1>8 DEF Apart
      <3> QED BY <3>1, <3>2, <3>3
    <2>3. \A u, w \in PlacesIn(c) :
             u = w \/ WordsIn(p, c, u) \cap WordsIn(p, c, w) = {} \/ SameConstantIn(c, u, w)
      BY <2>2
    <2>4. ReservedWords <= G
      BY <1>11
    <2> QED BY <2>1, <2>3, <2>4 DEF Apart, G
  <1>13. ReusableOK(c)
    BY <1>6, <1>7, <1>8 DEF ReusableOK
  <1>14. /\ \A k : FunctionIn(p, c, k) = FunctionIn(p, b, k)
         /\ \A k : HasCodeIn(p, c, k) <=> HasCodeIn(p, b, k)
         /\ Laid(p, c, cd) = Laid(p, b, cd)
         /\ \A k : OverlapsIn(p, fs, c, k) <=> OverlapsIn(p, fs, b, k)
         /\ \A k : FirstIn(c, k) = FirstIn(b, k) /\ AreaIn(p, c, k) = AreaIn(p, b, k)
    BY <1>6 DEF FunctionIn, HasCodeIn, Laid, OverlapsIn, FirstIn, AreaIn
  <1>15. LaidOK(p, fs, c, cd)
    <2> SUFFICES ASSUME NEW k \in Laid(p, c, cd), ~OverlapsIn(p, fs, c, k)
                 PROVE  /\ c.firstlocal + c.maxlocals <= FirstIn(c, k)
                        /\ FirstIn(c, k) + FunctionIn(p, c, k).allocated <= Len(c.globals)
                        /\ \A u \in PlacesIn(c) : WordsIn(p, c, u) \cap AreaIn(p, c, k) = {}
                        /\ \A m \in Laid(p, c, cd) :
                              \/ k = m \/ OverlapsIn(p, fs, c, m)
                              \/ AreaIn(p, c, k) \cap AreaIn(p, c, m) = {}
      BY <1>6, <1>8, <1>14 DEF LaidOK
    <2>1. /\ b.firstlocal + b.maxlocals <= FirstIn(b, k)
          /\ FirstIn(b, k) + FunctionIn(p, b, k).allocated <= L
          /\ \A u \in PlacesIn(b) : WordsIn(p, b, u) \cap AreaIn(p, b, k) = {}
          /\ \A m \in Laid(p, b, cd) :
                \/ k = m \/ OverlapsIn(p, fs, b, m)
                \/ AreaIn(p, b, k) \cap AreaIn(p, b, m) = {}
      BY <1>8, <1>14 DEF LaidOK, L
    <2> DEFINE Z == FirstIn(b, k) + FunctionIn(p, b, k).allocated
    <2>2. FirstIn(b, k) \in Nat /\ FunctionIn(p, b, k).allocated \in Nat
      BY <1>14, LaidNat, Zenon
    <2>3. Z \in Nat /\ AreaIn(p, b, k) = FirstIn(b, k) .. Z - 1
      BY <2>2 DEF AreaIn, Span
    <2>4. Z <= L
      BY <2>1
    <2> HIDE DEF Z
    <2>5. \A u \in PlacesIn(c) : WordsIn(p, c, u) \cap AreaIn(p, b, k) = {}
      <3> SUFFICES ASSUME NEW u \in PlacesIn(c)
                   PROVE  WordsIn(p, c, u) \cap AreaIn(p, b, k) = {}
        OBVIOUS
      <3>1. CASE u \in PlacesIn(b)
        BY <2>1, <3>1, <1>7
      <3>2. CASE u = v
        BY <3>2, <2>2, <2>3, <2>4, <1>9, <1>11
      <3> QED BY <3>1, <3>2, <1>7
    <2>6. Z <= G
      BY <2>3, <2>4, <1>11
    <2> QED BY <2>1, <2>5, <2>6, <1>14, <1>6 DEF Z, G
  <1>16. SlotsOK(p, fs, c)
    <2> SUFFICES ASSUME NEW u \in DOMAIN c.addr, u[1] \in {"local", "temp"}
                 PROVE  /\ u[1] = "local" => c.addr[u] =
                              SlotWord(fs, c, u[2], FunctionIn(p, c, u[2]).locals[u[3]])
                        /\ u[1] = "temp" => c.addr[u] =
                              SlotWord(fs, c, u[2], FunctionIn(p, c, u[2]).temps[u[3]])
      BY DEF SlotsOK
    <2>1. u \in DOMAIN b.addr
      BY <1>1, <1>5
    <2> QED BY <2>1, <1>5, <1>6, <1>8, <1>14 DEF SlotsOK, SlotWord
  <1>17. ASSUME AreaOK(p, b) PROVE AreaOK(p, c)
    <2>1. /\ ReservedWords <= b.firsttemp /\ b.firstlocal = b.firsttemp + b.maxtemps
          /\ b.firstlocal + b.maxlocals <= L
          /\ \A u \in PlacesIn(b) : WordsIn(p, b, u) \cap AreaWords(b) = {}
      BY <1>17 DEF AreaOK, L
    <2>2. b.firstlocal \in Nat /\ b.maxlocals \in Nat /\ b.firsttemp \in Nat
      BY DEF Typed
    <2>3. b.firstlocal + b.maxlocals <= G
      BY <2>1, <2>2, <1>11
    <2>4. AreaWords(c) = AreaWords(b) /\ AreaWords(b) \subseteq 0 .. L - 1
      BY <2>1, <2>2, <1>6, <1>11 DEF AreaWords
    <2>5. ASSUME v \in PlacesIn(c) PROVE WordsIn(p, c, v) \cap AreaWords(b) = {}
      BY <2>4, <2>5, <1>9, <1>11
    <2>6. \A u \in PlacesIn(c) : WordsIn(p, c, u) \cap AreaWords(b) = {}
      BY <2>1, <2>5, <1>7
    <2> QED BY <2>1, <2>3, <2>4, <2>6, <1>6 DEF AreaOK, G
  <1>18. ASSUME NEW vd, HeadersOK(p, b, vd) PROVE HeadersOK(p, c, vd)
    BY <1>6, <1>14, <1>18 DEF HeadersOK
  <1>19. ASSUME NEW vd, RoomOK(p, b, vd) PROVE RoomOK(p, c, vd)
    BY <1>6, <1>14, <1>19 DEF RoomOK
  <1>20. Placed(p, fs, c, cd)
    BY <1>12, <1>13, <1>15, <1>16 DEF Placed
  <1> QED BY <1>2, <1>5, <1>17, <1>18, <1>19, <1>20 DEF c, L
-----------------------------------------------------------------------------
LEMMA NamedGrows ==
    ASSUME NEW p, NEW b, NEW vd, NEW fd, NEW xd, NEW cd, NEW wd, NEW gd, NEW xe, NEW dd,
           KnownPlaces(p, b, vd, fd, xd, cd),
           vd \subseteq wd, fd \subseteq gd, xd \subseteq xe, cd \subseteq dd
    PROVE  KnownPlaces(p, b, wd, gd, xe, dd)
  BY DEF KnownPlaces

LEMMA FileKept ==
    ASSUME NEW p, NEW fs, NEW b, NEW c, NEW vd, NEW fd, NEW xd, NEW cd,
           FileInv(p, fs, b, vd, fd, xd, cd), Typed(p, c), SameLayout(b, c)
    PROVE  /\ FileInv(p, fs, c, vd, fd, xd, cd)
           /\ AreaOK(p, b) => AreaOK(p, c)
           /\ \A rd : RoomOK(p, b, rd) => RoomOK(p, c, rd)
  <1>1. /\ Placed(p, fs, b, cd) => Placed(p, fs, c, cd)
        /\ FloatsOK(b) => FloatsOK(c)
        /\ HeadersOK(p, b, vd) => HeadersOK(p, c, vd)
        /\ KnownPlaces(p, b, vd, fd, xd, cd) => KnownPlaces(p, c, vd, fd, xd, cd)
    BY PlacedKept
  <1>2. /\ AreaOK(p, b) => AreaOK(p, c)
        /\ \A rd : RoomOK(p, b, rd) => RoomOK(p, c, rd)
    BY PlacedKept
  <1> QED BY <1>1, <1>2 DEF FileInv

LEMMA NewNamed ==
    ASSUME NEW p, NEW b, NEW c, NEW vd, NEW fd, NEW xd, NEW cd, NEW v,
           KnownPlaces(p, b, vd, fd, xd, cd), SameButPlaces(b, c),
           DOMAIN c.addr = DOMAIN b.addr \cup {v},
           \/ \E k \in vd : v = Value(k)
           \/ \E j \in fd : v = FieldGlobal(j)
           \/ v \in xd
           \/ \E j \in 1 .. b.extparams : v = ExtParam(j)
    PROVE  KnownPlaces(p, c, vd, fd, xd, cd)
  <1>1. \A k : FunctionIn(p, c, k) = FunctionIn(p, b, k) /\ (HasCodeIn(p, c, k) <=> HasCodeIn(p, b, k))
    BY DEF SameButPlaces, FunctionIn, HasCodeIn
  <1>2. c.extparams = b.extparams
    BY DEF SameButPlaces
  <1> QED BY <1>1, <1>2 DEF KnownPlaces

(* What has got words behind all there were.                               *)
PlacedBehind(b, c, v, words) ==
    /\ SameButPlaces(b, c)
    /\ c.addr = With(b.addr, v, Len(b.globals)) /\ c.globals = b.globals \o words
    /\ DOMAIN c.addr = DOMAIN b.addr \cup {v}
NamedBy(b, v, vd, fd, xd) ==
    \/ \E k \in vd : v = Value(k)
    \/ \E j \in fd : v = FieldGlobal(j)
    \/ v \in xd
    \/ \E j \in 1 .. b.extparams : v = ExtParam(j)
NameOf(b, v, vd, fd, wd, gd, xd) ==
    vd \subseteq wd /\ fd \subseteq gd /\ NamedBy(b, v, wd, gd, xd)
AreasKept(p, b, c) ==
    /\ AreaOK(p, b) => AreaOK(p, c)
    /\ \A rd : RoomOK(p, b, rd) => RoomOK(p, c, rd)

(* Words for something that is named.                                      *)
LEMMA FileNewPlace ==
    ASSUME NEW p, NEW fs, NEW b, NEW vd, NEW fd, NEW xd, NEW cd, NEW v, NEW words,
           IsProgram(p, fs), FileInv(p, fs, b, vd, fd, xd, cd), PlaceOf(p, b, v, words),
           NEW wd, NEW gd, NameOf(b, v, vd, fd, wd, gd, xd)
    PROVE  /\ FileInv(p, fs, PushWords(b, v, words), wd, gd, xd, cd)
           /\ PlacedBehind(b, PushWords(b, v, words), v, words)
           /\ AreasKept(p, b, PushWords(b, v, words))
  <1> DEFINE c == PushWords(b, v, words)
  <1>1. Typed(p, b) /\ HeadersOK(p, b, vd) /\ Placed(p, fs, b, cd) /\ KnownPlaces(p, b, vd, fd, xd, cd)
        /\ FloatsOK(b)
    BY DEF FileInv
  <1>2. /\ Typed(p, c) /\ SameButPlaces(b, c)
        /\ c.addr = With(b.addr, v, Len(b.globals)) /\ c.globals = b.globals \o words
        /\ DOMAIN c.addr = DOMAIN b.addr \cup {v}
        /\ Placed(p, fs, c, cd)
        /\ AreaOK(p, b) => AreaOK(p, c)
        /\ \A set : HeadersOK(p, b, set) => HeadersOK(p, c, set)
        /\ \A set : RoomOK(p, b, set) => RoomOK(p, c, set)
    BY <1>1, NewPlace, Zenon
  <1> HIDE DEF c
  <1>3. KnownPlaces(p, b, wd, gd, xd, cd)
    BY <1>1, NamedGrows DEF NameOf
  <1>4. KnownPlaces(p, c, wd, gd, xd, cd)
    BY <1>2, <1>3, NewNamed DEF NamedBy, NameOf
  <1>5. HeadersOK(p, c, vd)
    BY <1>1, <1>2
  <1>6. HeadersOK(p, c, wd)
    BY <1>5 DEF HeadersOK, NameOf
  <1>7. FloatsOK(c)
    BY <1>1, <1>2 DEF FloatsOK, SameButPlaces
  <1> QED BY <1>2, <1>4, <1>6, <1>7 DEF FileInv, c, PlacedBehind, AreasKept

MergedInto(b, c, k, r) ==
    /\ SameButPlaces(b, c) /\ c.globals = b.globals
    /\ c.addr = With(b.addr, Value(k), b.addr[Value(r)])

(* A merged constant lies where the one lies that it is equal to.          *)
LEMMA FileMerged ==
    ASSUME NEW p, NEW fs, NEW b, NEW vd, NEW wd, NEW k \in wd, vd \subseteq wd,
           FileInv(p, fs, b, vd, {}, {}, {}), k \in Nat, Value(k) \notin DOMAIN b.addr,
           b.values[k].type \in {"float", "entity"}, b.values[k].const,
           b.values[k].value \in DOMAIN b.reusable
    PROVE  LET c == setCodeAddress(b, Value(k), codeAddress(b, Value(b.reusable[b.values[k].value])))
           IN FileInv(p, fs, c, wd, {}, {}, {}) /\ MergedInto(b, c, k, b.reusable[b.values[k].value])
  <1> DEFINE r == b.reusable[b.values[k].value]
             v == Value(k)
             c == setCodeAddress(b, v, codeAddress(b, Value(r)))
  <1>1. Typed(p, b) /\ HeadersOK(p, b, vd) /\ Placed(p, fs, b, {}) /\ KnownPlaces(p, b, vd, {}, {}, {})
        /\ FloatsOK(b)
    BY DEF FileInv
  <1>2. ReusableOK(b) /\ Apart(p, b)
    BY <1>1 DEF Placed
  <1>3. /\ Value(r) \in PlacesIn(b) /\ b.values[r].type \in {"float", "entity"}
        /\ b.values[r].const /\ b.values[r].value = b.values[k].value
    BY <1>2 DEF ReusableOK
  <1> HIDE DEF r
  <1>4. Value(r) \in DOMAIN b.addr
    BY <1>3 DEF PlacesIn
  <1>5. SameButPlaces(b, c) /\ c.globals = b.globals /\ c.addr = With(b.addr, v, b.addr[Value(r)])
    <2>1. DOMAIN b = BuilderFields
      BY <1>1 DEF Typed
    <2> QED BY <1>4, <2>1 DEF BuilderFields, SameButPlaces, setCodeAddress, codeAddress
  <1> HIDE DEF c
  <1>6. IsMap(b.addr, PlaceNames, Nat) /\ v \in PlaceNames
    BY <1>1 DEF Typed, PlaceNames
  <1>7. b.addr[Value(r)] \in Nat
    BY <1>4, <1>6 DEF IsMap
  <1>8. /\ IsMap(c.addr, PlaceNames, Nat)
        /\ DOMAIN c.addr = DOMAIN b.addr \cup {v} /\ c.addr[v] = b.addr[Value(r)]
        /\ \A u \in DOMAIN b.addr : c.addr[u] = b.addr[u]
    <2>1. IsMap(With(b.addr, v, b.addr[Value(r)]), PlaceNames, Nat)
      BY <1>6, <1>7, WithMaps, Zenon
    <2>2. /\ DOMAIN c.addr = DOMAIN b.addr \cup {v} /\ c.addr[v] = b.addr[Value(r)]
          /\ \A u \in DOMAIN b.addr : u # v => c.addr[u] = b.addr[u]
      BY <1>5 DEF With
    <2> QED BY <2>1, <2>2, <1>5
  <1>9. Typed(p, c)
    BY <1>1, <1>5, <1>8 DEF Typed, SameButPlaces
  <1>10. /\ c.values = b.values /\ c.def = b.def /\ c.functions = b.functions
         /\ c.reusable = b.reusable
    BY <1>5 DEF SameButPlaces
  <1>11. /\ PlacesIn(b) \subseteq PlacesIn(c) /\ PlacesIn(c) \subseteq PlacesIn(b) \cup {v}
         /\ \A u \in PlacesIn(b) : WordsIn(p, c, u) = WordsIn(p, b, u)
         /\ v \notin PlacesIn(b)
    BY <1>8, <1>10 DEF PlacesIn, WordsIn, TypeIn
  <1>12. WordsIn(p, c, v) = WordsIn(p, b, Value(r))
    BY <1>3, <1>8, <1>10 DEF WordsIn, TypeIn, SizeOf, Value
  <1>13. \A u : SameConstantIn(b, Value(r), u) => SameConstantIn(c, v, u) /\ SameConstantIn(c, u, v)
    BY <1>3, <1>10 DEF SameConstantIn, Value
  <1>14. SameConstantIn(c, v, Value(r)) /\ SameConstantIn(c, Value(r), v)
    BY <1>3, <1>10 DEF SameConstantIn, Value
  <1>15. \A u \in PlacesIn(b) :
            \/ WordsIn(p, c, v) \cap WordsIn(p, c, u) = {}
            \/ SameConstantIn(c, v, u) /\ SameConstantIn(c, u, v)
    <2> SUFFICES ASSUME NEW u \in PlacesIn(b)
                 PROVE  \/ WordsIn(p, c, v) \cap WordsIn(p, c, u) = {}
                        \/ SameConstantIn(c, v, u) /\ SameConstantIn(c, u, v)
      OBVIOUS
    <2>1. \/ Value(r) = u \/ WordsIn(p, b, Value(r)) \cap WordsIn(p, b, u) = {}
          \/ SameConstantIn(b, Value(r), u)
      BY <1>2, <1>3 DEF Apart
    <2> QED BY <2>1, <1>11, <1>12, <1>13, <1>14
  <1>16. Apart(p, c)
    <2>1. \A u \in PlacesIn(c) : WordsIn(p, c, u) \subseteq ReservedWords .. Len(c.globals) - 1
      BY <1>2, <1>3, <1>5, <1>11, <1>12 DEF Apart
    <2>2. ASSUME NEW u \in PlacesIn(c), NEW w \in PlacesIn(c), u # w,
                 ~SameConstantIn(c, u, w)
          PROVE  WordsIn(p, c, u) \cap WordsIn(p, c, w) = {}
      <3>1. CASE u = v
        BY <2>2, <3>1, <1>11, <1>15
      <3>2. CASE w = v
        BY <2>2, <3>2, <1>11, <1>15
      <3>3. CASE u # v /\ w # v
        <4>1. u \in PlacesIn(b) /\ w \in PlacesIn(b)
          BY <3>3, <1>11
        <4>2. ~SameConstantIn(b, u, w)
          BY <2>2, <1>10 DEF SameConstantIn
        <4> QED BY <4>1, <4>2, <2>2, <1>11, <1>2 DEF Apart
      <3> QED BY <3>1, <3>2, <3>3
    <2>3. \A u, w \in PlacesIn(c) :
             u = w \/ WordsIn(p, c, u) \cap WordsIn(p, c, w) = {} \/ SameConstantIn(c, u, w)
      BY <2>2
    <2>4. ReservedWords <= Len(c.globals)
      BY <1>2, <1>5 DEF Apart
    <2> QED BY <2>1, <2>3, <2>4 DEF Apart
  <1>17. ReusableOK(c)
    BY <1>2, <1>10, <1>11 DEF ReusableOK
  <1>18. KnownPlaces(p, c, wd, {}, {}, {})
    <2>1. KnownPlaces(p, b, wd, {}, {}, {})
      BY <1>1 DEF KnownPlaces
    <2> QED BY <2>1, <1>5, <1>8, NewNamed
  <1>19. LaidOK(p, fs, c, {}) /\ SlotsOK(p, fs, c)
    <2>1. \A u \in DOMAIN c.addr : u[1] \in {"value", "extparam"}
      BY <1>18 DEF KnownPlaces, Value, ExtParam
    <2> QED BY <2>1 DEF LaidOK, Laid, SlotsOK
  <1>20. HeadersOK(p, c, wd)
    <2>1. \A m : FunctionIn(p, c, m) = FunctionIn(p, b, m)
      BY <1>10 DEF FunctionIn
    <2> QED BY <2>1, <1>1, <1>10, ZenonT(60) DEF HeadersOK
  <1>21. FloatsOK(c)
    BY <1>1, <1>5 DEF FloatsOK, SameButPlaces
  <1>22. FileInv(p, fs, c, wd, {}, {}, {})
    BY <1>9, <1>16, <1>17, <1>18, <1>19, <1>20, <1>21 DEF FileInv, Placed
  <1> QED BY <1>5, <1>22 DEF c, r, MergedInto
-----------------------------------------------------------------------------
(***************************************************************************)
(* A split vector: its components are among the values.                    *)
(***************************************************************************)
SameButValues(b, c) ==
    /\ DOMAIN c = DOMAIN b
    /\ c.reusable = b.reusable /\ c.addr = b.addr /\ c.globals = b.globals
    /\ c.strings = b.strings /\ c.name = b.name /\ c.immediate = b.immediate
    /\ c.filenames = b.filenames /\ c.defs = b.defs /\ c.fields = b.fields
    /\ c.entfields = b.entfields /\ c.fieldaddr = b.fieldaddr /\ c.functions = b.functions
    /\ c.def = b.def /\ c.statements = b.statements /\ c.extparams = b.extparams
    /\ c.maxlocals = b.maxlocals /\ c.maxtemps = b.maxtemps
    /\ c.firsttemp = b.firsttemp /\ c.firstlocal = b.firstlocal
ValuesKept(b, c) ==
    /\ DOMAIN b.values \subseteq DOMAIN c.values /\ Len(b.values) <= Len(c.values)
    /\ \A m \in DOMAIN c.values : IsSplit(c.values[m]) => m \in DOMAIN b.values
SplitOK(p, b) == DOMAIN b = BuilderFields /\ ValuesOK(p, b.values) /\ FloatsOK(b)

LEMMA SeqIs ==
    ASSUME NEW s, NEW n \in Nat, s = [i \in 1 .. n |-> s[i]]
    PROVE  IsSeq(s) /\ Len(s) = n
  <1>1. \A i \in 1 .. n : s[i] \in ToSet(s)
    BY DEF ToSet
  <1>2. s \in [1 .. n -> ToSet(s)]
    BY <1>1
  <1>3. s \in Seq(ToSet(s))
    BY <1>2, SeqDef
  <1> QED BY <1>2, <1>3, LenProperties DEF IsSeq

LEMMA IsSeqLen ==
    ASSUME NEW s, IsSeq(s)
    PROVE  Len(s) \in Nat /\ DOMAIN s = 1 .. Len(s) /\ s = [i \in 1 .. Len(s) |-> s[i]]
  BY LenProperties DEF IsSeq

LEMMA AppendIs ==
    ASSUME NEW s, IsSeq(s), NEW x
    PROVE  /\ IsSeq(Append(s, x)) /\ Len(Append(s, x)) = Len(s) + 1
           /\ DOMAIN Append(s, x) = 1 .. Len(s) + 1
           /\ Append(s, x)[Len(s) + 1] = x
           /\ \A i \in DOMAIN s : Append(s, x)[i] = s[i]
  <1> DEFINE S == ToSet(s) \cup {x}
             t == Append(s, x)
  <1>1. Len(s) \in Nat /\ DOMAIN s = 1 .. Len(s) /\ s \in Seq(ToSet(s))
    BY IsSeqLen DEF IsSeq
  <1>2. s \in Seq(S) /\ x \in S
    BY <1>1
  <1>3. /\ t \in Seq(S) /\ Len(t) = Len(s) + 1 /\ t[Len(s) + 1] = x
        /\ \A i \in 1 .. Len(s) : t[i] = s[i]
    BY <1>2, AppendProperties
  <1> HIDE DEF t
  <1>4. DOMAIN t = 1 .. Len(s) + 1 /\ t = [i \in 1 .. Len(s) + 1 |-> t[i]]
    BY <1>3, LenProperties
  <1>5. IsSeq(t)
    <2>1. Len(s) + 1 \in Nat
      BY <1>1
    <2> QED BY <2>1, <1>4, SeqIs, Zenon
  <1> QED BY <1>1, <1>3, <1>4, <1>5 DEF t

LEMMA LiteralFloatIs ==
    ASSUME NEW p, NEW x \in Int
    PROVE  IsValue(p, LiteralFloat(x)) /\ HasValue(LiteralFloat(x))
  <1>1. <<HASH>> \in Seq(Nat \ {0}) /\ IMMEDIATE \in Seq(Nat \ {0}) /\ Len(<<HASH>>) = 1
        /\ Len(IMMEDIATE) = 2
    BY DEF HASH, IMMEDIATE
  <1>2. LiteralFloat(x).name \in Texts \ {<<>>}
    <2>1. <<HASH>> \o IMMEDIATE \in Texts /\ Len(<<HASH>> \o IMMEDIATE) = 3
      <3> DEFINE h == <<HASH>>
                 i == IMMEDIATE
      <3>1. h \in Seq(Nat \ {0}) /\ i \in Seq(Nat \ {0}) /\ Len(h) = 1 /\ Len(i) = 2
        BY <1>1
      <3> HIDE DEF h, i
      <3>2. h \o i \in Seq(Nat \ {0}) /\ Len(h \o i) = 1 + 2
        <4>1. h \o i \in Seq(Nat \ {0}) /\ Len(h \o i) = Len(h) + Len(i)
          BY <3>1, ConcatProperties, Zenon
        <4> QED BY <4>1, <3>1
      <3> QED BY <3>2 DEF Texts, h, i
    <2>2. <<HASH>> \o IMMEDIATE # <<>>
      BY <2>1
    <2> QED BY <2>1, <2>2 DEF LiteralFloat
  <1>3. HasValue(LiteralFloat(x))
    BY WriterAssumption DEF HasValue, LiteralFloat
  <1> HIDE DEF HasValue
  <1> QED BY <1>2, <1>3 DEF LiteralFloat, IsValue, Starts, Types

LEMMA WithFloatAdds ==
    ASSUME NEW p, NEW b, SplitOK(p, b), NEW x \in Int
    PROVE  LET c == WithFloat(b, x)
           IN /\ SplitOK(p, c) /\ SameButValues(b, c) /\ ValuesKept(b, c)
              /\ \A m \in DOMAIN b.values : c.values[m] = b.values[m]
              /\ SameFloats(c, x) # {}
  <1> DEFINE c == WithFloat(b, x)
             n == Len(b.values)
             f == LiteralFloat(x)
  <1>1. CASE SameFloats(b, x) # {}
    <2>1. Len(b.values) \in Nat
      BY IsSeqLen DEF SplitOK, ValuesOK
    <2>2. c = b
      BY <1>1 DEF WithFloat
    <2> QED BY <1>1, <2>1, <2>2 DEF SameButValues, ValuesKept
  <1>2. CASE SameFloats(b, x) = {}
    <2>1. n \in Nat /\ DOMAIN b.values = 1 .. n /\ IsSeq(b.values)
      BY IsSeqLen DEF SplitOK, ValuesOK
    <2>2. DOMAIN b = BuilderFields
      BY DEF SplitOK
    <2>3. /\ SameButValues(b, c) /\ c.values = Append(b.values, f)
          /\ c.constfloats = b.constfloats \cup {n + 1}
      BY <1>2, <2>2 DEF WithFloat, SameButValues, BuilderFields
    <2> HIDE DEF c, f
    <2>4. /\ IsSeq(Append(b.values, f)) /\ Len(Append(b.values, f)) = n + 1
          /\ DOMAIN Append(b.values, f) = 1 .. n + 1 /\ Append(b.values, f)[n + 1] = f
          /\ \A m \in DOMAIN b.values : Append(b.values, f)[m] = b.values[m]
      BY <2>1, AppendIs
    <2> HIDE DEF n
    <2>5. /\ DOMAIN c.values = 1 .. n + 1 /\ c.values[n + 1] = f
          /\ \A m \in DOMAIN b.values : c.values[m] = b.values[m]
      BY <2>3, <2>4
    <2>6. IsSeq(c.values) /\ Len(c.values) = n + 1 /\ DOMAIN b.values \subseteq DOMAIN c.values
      BY <2>1, <2>3, <2>4
    <2>7. /\ IsValue(p, f) /\ HasValue(f) /\ f.parts = <<>> /\ f.type = "float" /\ f.value = x
      BY LiteralFloatIs DEF f, LiteralFloat
    <2>8. \A m \in DOMAIN c.values : m \in DOMAIN b.values \/ m = n + 1
      BY <2>1, <2>5
    <2>9. ValuesOK(p, c.values)
      <3> SUFFICES ASSUME NEW m \in DOMAIN c.values
                   PROVE  /\ IsValue(p, c.values[m])
                          /\ c.values[m].parts \in Seq(Nat) /\ Len(c.values[m].parts) <= 3
                          /\ IsSplit(c.values[m]) => Splittable(c.values[m])
                          /\ \A j \in DOMAIN c.values[m].parts : PartOK(c.values, c.values[m], j)
        BY <2>6 DEF ValuesOK
      <3>1. CASE m = n + 1
        BY <3>1, <2>5, <2>7 DEF IsSplit
      <3>2. CASE m \in DOMAIN b.values
        <4>1. /\ IsValue(p, b.values[m])
              /\ b.values[m].parts \in Seq(Nat) /\ Len(b.values[m].parts) <= 3
              /\ IsSplit(b.values[m]) => Splittable(b.values[m])
              /\ \A j \in DOMAIN b.values[m].parts : PartOK(b.values, b.values[m], j)
          BY <3>2 DEF SplitOK, ValuesOK
        <4>2. \A j \in DOMAIN b.values[m].parts : PartOK(c.values, b.values[m], j)
          BY <4>1, <2>5, <2>6 DEF PartOK
        <4> QED BY <4>1, <4>2, <3>2, <2>5
      <3> QED BY <3>1, <3>2, <2>8
    <2>10. FloatsOK(c)
      <3> SUFFICES ASSUME NEW m \in c.constfloats
                   PROVE  m \in DOMAIN c.values /\ c.values[m].type = "float" /\ HasValue(c.values[m])
        BY DEF FloatsOK
      <3>1. CASE m \in b.constfloats
        BY <3>1, <2>5, <2>6 DEF FloatsOK, SplitOK
      <3>2. CASE m = n + 1
        BY <3>2, <2>1, <2>5, <2>7
      <3> QED BY <3>1, <3>2, <2>3
    <2>11. n + 1 \in SameFloats(c, x)
      BY <2>3, <2>5, <2>7 DEF SameFloats
    <2>12. ValuesKept(b, c)
      BY <2>1, <2>5, <2>6, <2>7, <2>8 DEF ValuesKept, n, IsSplit
    <2> QED BY <2>2, <2>3, <2>5, <2>9, <2>10, <2>11, <2>12 DEF SplitOK, SameButValues, c
  <1> QED BY <1>1, <1>2

(* ir_builder_split_vector looks a component up, or adds it.               *)
PartAdded(p, b, c, k, j) ==
    /\ SplitOK(p, c) /\ SameButValues(b, c)
    /\ DOMAIN b.values \subseteq DOMAIN c.values /\ Len(b.values) <= Len(c.values)
    /\ Splittable(c.values[k]) /\ c.values[k].value = b.values[k].value
    /\ Len(c.values[k].parts) = j
    /\ \A m \in DOMAIN c.values \ {k} : IsSplit(c.values[m]) =>
          m \in DOMAIN b.values /\ IsSplit(b.values[m]) /\ c.values[m].parts = b.values[m].parts

LEMMA AddPartAdds ==
    ASSUME NEW p, NEW b, SplitOK(p, b), NEW k \in DOMAIN b.values, Splittable(b.values[k]),
           NEW j \in 1 .. 3, Len(b.values[k].parts) = j - 1, b.values[k].value[j] \in Int
    PROVE  PartAdded(p, b, AddPart(b, k, b.values[k].value[j]), k, j)
  <1> DEFINE x == b.values[k].value[j]
             w == WithFloat(b, x)
             same == SameFloats(w, x)
             part == CHOOSE r \in same : \A other \in same : r <= other
             c == AddPart(b, k, x)
             n == Len(w.values)
  <1>1. /\ SplitOK(p, w) /\ SameButValues(b, w) /\ ValuesKept(b, w)
        /\ \A m \in DOMAIN b.values : w.values[m] = b.values[m]
        /\ same # {}
    BY WithFloatAdds
  <1>2. c = [w EXCEPT !.values[k].parts = Append(@, part),
                      !.values[part].users = IF @ = "none" THEN "calls" ELSE @]
    BY DEF AddPart
  <1> HIDE DEF c, w, x
  <1>3. /\ n \in Nat /\ DOMAIN w.values = 1 .. n /\ w.values = [i \in 1 .. n |-> w.values[i]]
    BY <1>1, IsSeqLen DEF SplitOK, ValuesOK
  <1>4. same \in SUBSET Nat
    BY <1>1, <1>3 DEF SameFloats, SplitOK, FloatsOK
  <1>5. part \in same
    BY <1>1, <1>4, FirstOf
  <1> HIDE DEF part
  <1>6. /\ part \in DOMAIN w.values /\ w.values[part].type = "float" /\ HasValue(w.values[part])
        /\ w.values[part].value = x
    BY <1>1, <1>5 DEF SameFloats, SplitOK, FloatsOK
  <1>7. k \in DOMAIN w.values /\ w.values[k] = b.values[k] /\ k # part
    BY <1>1, <1>6 DEF ValuesKept, Splittable
  <1> HIDE DEF same, n
  <1> DEFINE P == [w.values[k] EXCEPT !.parts = Append(@, part)]
             Q == [w.values[part] EXCEPT !.users = IF @ = "none" THEN "calls" ELSE @]
  <1>8. /\ SameButValues(w, c) /\ c.constfloats = w.constfloats
        /\ c.values = [i \in DOMAIN w.values |-> IF i = part THEN Q ELSE IF i = k THEN P ELSE w.values[i]]
    <2>1. DOMAIN w = BuilderFields
      BY <1>1 DEF SplitOK
    <2>2. SameButValues(w, c) /\ c.constfloats = w.constfloats
      BY <2>1, <1>2 DEF SameButValues, BuilderFields
    <2>3. c.values = [[w.values EXCEPT ![k].parts = Append(@, part)]
                        EXCEPT ![part].users = IF @ = "none" THEN "calls" ELSE @]
      BY <2>1, <1>2 DEF BuilderFields
    <2>4. c.values = [i \in DOMAIN w.values |-> IF i = part THEN Q ELSE IF i = k THEN P ELSE w.values[i]]
      BY <2>3, <1>6, <1>7
    <2> QED BY <2>2, <2>4
  <1>9. \A i \in DOMAIN w.values :
           /\ IsValue(p, w.values[i]) /\ w.values[i].parts \in Seq(Nat)
           /\ Len(w.values[i].parts) <= 3
           /\ IsSplit(w.values[i]) => Splittable(w.values[i])
           /\ \A h \in DOMAIN w.values[i].parts : PartOK(w.values, w.values[i], h)
    BY <1>1 DEF SplitOK, ValuesOK
  <1>10. /\ IsValue(p, Q) /\ Q.parts = w.values[part].parts /\ Q.type = "float"
         /\ Q.value = x /\ HasValue(Q) /\ Q.users \in {"calls", "any"}
    <2>1. IsValue(p, w.values[part])
      BY <1>6, <1>9
    <2>2. w.values[part].users \in {"none", "calls", "any"}
      BY <2>1, <1>6 DEF IsValue
    <2> QED BY <2>1, <2>2, <1>6 DEF IsValue, HasValue, IsLiteral, Starts
  <1>11. /\ IsValue(p, P) /\ P.parts = Append(w.values[k].parts, part) /\ P.value = b.values[k].value
         /\ Splittable(P)
    <2>1. IsValue(p, w.values[k]) /\ Splittable(w.values[k])
      BY <1>7, <1>9
    <2> QED BY <2>1, <1>7 DEF IsValue, HasValue, IsLiteral, Starts, Splittable
  <1> HIDE DEF P, Q
  <1>12. /\ DOMAIN c.values = 1 .. n /\ c.values[part] = Q /\ c.values[k] = P
         /\ \A i \in DOMAIN w.values \ {part, k} : c.values[i] = w.values[i]
         /\ c.values = [i \in 1 .. n |-> c.values[i]]
    BY <1>3, <1>6, <1>7, <1>8
  <1>13. IsSeq(c.values) /\ Len(c.values) = n
    BY <1>3, <1>12, SeqIs
  <1>14. part \in Nat /\ w.values[k].parts \in Seq(Nat) /\ Len(w.values[k].parts) = j - 1
    BY <1>3, <1>6, <1>7, <1>9
  <1>15. /\ P.parts \in Seq(Nat) /\ Len(P.parts) = j /\ P.parts[j] = part
         /\ DOMAIN P.parts = 1 .. j
         /\ \A h \in DOMAIN P.parts : h # j => h \in DOMAIN w.values[k].parts /\ P.parts[h] = w.values[k].parts[h]
    <2>1. DOMAIN w.values[k].parts = 1 .. j - 1
      BY <1>14, LenProperties
    <2>2. /\ P.parts \in Seq(Nat) /\ Len(P.parts) = j - 1 + 1 /\ P.parts[j - 1 + 1] = part
          /\ \A h \in 1 .. j - 1 : P.parts[h] = w.values[k].parts[h]
      BY <1>11, <1>14, AppendProperties
    <2>3. DOMAIN P.parts = 1 .. Len(P.parts)
      BY <2>2, LenProperties
    <2>4. Len(P.parts) = j /\ DOMAIN P.parts = 1 .. j /\ P.parts[j] = part
      BY <2>2, <2>3
    <2>5. \A h \in 1 .. j : h = j \/ h \in 1 .. j - 1
      OBVIOUS
    <2>6. ASSUME NEW h \in 1 .. j, h # j
          PROVE  h \in DOMAIN w.values[k].parts /\ P.parts[h] = w.values[k].parts[h]
      <3>1. h \in 1 .. j - 1
        BY <2>5, <2>6
      <3> QED BY <3>1, <2>1, <2>2
    <2>7. \A h \in DOMAIN P.parts : h # j => h \in DOMAIN w.values[k].parts /\ P.parts[h] = w.values[k].parts[h]
      BY <2>4, <2>6, Zenon
    <2> QED BY <2>2, <2>4, <2>7
  <1>16. ASSUME NEW v, NEW h, PartOK(w.values, v, h) PROVE PartOK(c.values, v, h)
    <2> DEFINE q == v.parts[h]
    <2>1. q \in DOMAIN w.values /\ w.values[q].type = "float" /\ w.values[q].users \in {"calls", "any"}
          /\ HasValue(w.values[q]) /\ w.values[q].value = v.value[h]
      BY <1>16 DEF PartOK
    <2>2. q # k
      BY <2>1, <1>7 DEF Splittable
    <2>3. CASE q = part
      BY <2>1, <2>3, <1>3, <1>6, <1>10, <1>12 DEF PartOK
    <2>4. CASE q # part
      BY <2>1, <2>2, <2>4, <1>3, <1>12 DEF PartOK
    <2> QED BY <2>3, <2>4
  <1>17. \A h \in DOMAIN P.parts : PartOK(c.values, P, h)
    <2> SUFFICES ASSUME NEW h \in DOMAIN P.parts PROVE PartOK(c.values, P, h)
      OBVIOUS
    <2>1. CASE h = j
      BY <2>1, <1>3, <1>6, <1>10, <1>11, <1>12, <1>15 DEF PartOK, x
    <2>2. CASE h # j
      <3>1. h \in DOMAIN w.values[k].parts /\ P.parts[h] = w.values[k].parts[h]
        BY <2>2, <1>15
      <3>2. PartOK(c.values, w.values[k], h)
        BY <3>1, <1>7, <1>9, <1>16
      <3> QED BY <3>1, <3>2, <1>7, <1>11 DEF PartOK
    <2> QED BY <2>1, <2>2
  <1>18. ValuesOK(p, c.values)
    <2> SUFFICES ASSUME NEW m \in DOMAIN c.values
                 PROVE  /\ IsValue(p, c.values[m])
                        /\ c.values[m].parts \in Seq(Nat) /\ Len(c.values[m].parts) <= 3
                        /\ IsSplit(c.values[m]) => Splittable(c.values[m])
                        /\ \A h \in DOMAIN c.values[m].parts : PartOK(c.values, c.values[m], h)
      BY <1>13 DEF ValuesOK
    <2>1. CASE m = k
      <3>1. c.values[m] = P
        BY <2>1, <1>12
      <3>2. Len(P.parts) <= 3
        BY <1>15
      <3> QED BY <3>1, <3>2, <1>11, <1>15, <1>17
    <2>2. CASE m = part
      <3>1. Q.parts = <<>>
        <4>1. ~Splittable(w.values[part])
          BY <1>6 DEF Splittable
        <4> QED BY <4>1, <1>6, <1>9, <1>10 DEF IsSplit
      <3>2. c.values[m] = Q
        BY <2>2, <1>12
      <3>3. Q.parts \in Seq(Nat) /\ Len(Q.parts) <= 3 /\ DOMAIN Q.parts = {}
        BY <3>1
      <3> QED BY <3>1, <3>2, <3>3, <1>10 DEF IsSplit
    <2>3. CASE m \notin {k, part}
      <3>1. m \in DOMAIN w.values /\ c.values[m] = w.values[m]
        BY <2>3, <1>3, <1>12
      <3> QED BY <3>1, <1>9, <1>16
    <2> QED BY <2>1, <2>2, <2>3
  <1>19. FloatsOK(c)
    <2> SUFFICES ASSUME NEW m \in c.constfloats
                 PROVE  m \in DOMAIN c.values /\ c.values[m].type = "float" /\ HasValue(c.values[m])
      BY DEF FloatsOK
    <2>1. m \in DOMAIN w.values /\ w.values[m].type = "float" /\ HasValue(w.values[m])
      BY <1>1, <1>8 DEF SplitOK, FloatsOK
    <2>2. m # k
      BY <2>1, <1>7 DEF Splittable
    <2> QED BY <2>1, <2>2, <1>3, <1>10, <1>12
  <1>20. SplitOK(p, c) /\ SameButValues(b, c)
    BY <1>1, <1>8, <1>18, <1>19 DEF SplitOK, SameButValues
  <1>21. DOMAIN b.values \subseteq DOMAIN c.values /\ Len(b.values) <= Len(c.values)
    BY <1>1, <1>3, <1>12, <1>13 DEF ValuesKept, n
  <1>22. ASSUME NEW m \in DOMAIN c.values \ {k}, IsSplit(c.values[m])
         PROVE  /\ m \in DOMAIN b.values /\ IsSplit(b.values[m])
                /\ c.values[m].parts = b.values[m].parts
    <2>1. m \in DOMAIN w.values
      BY <1>3, <1>12
    <2>2. IsSplit(w.values[m]) /\ c.values[m].parts = w.values[m].parts
      BY <1>22, <2>1, <1>10, <1>12 DEF IsSplit
    <2> QED BY <2>1, <2>2, <1>1 DEF ValuesKept
  <1>23. Splittable(c.values[k]) /\ c.values[k].value = b.values[k].value /\ Len(c.values[k].parts) = j
    BY <1>11, <1>12, <1>15
  <1> QED BY <1>20, <1>21, <1>22, <1>23 DEF c, x, PartAdded
-----------------------------------------------------------------------------
(***************************************************************************)
(* The steps of the loop over the values.                                  *)
(***************************************************************************)
Kept(b, c) == /\ c.values = b.values /\ c.fieldaddr = b.fieldaddr /\ c.constfloats = b.constfloats
              /\ DOMAIN b.def \subseteq DOMAIN c.def
RoomSame(b, c) == c.values = b.values /\ c.maxtemps = b.maxtemps /\ c.maxlocals = b.maxlocals

LEMMA RoomKept ==
    ASSUME NEW p, NEW b, NEW c, NEW rd, RoomSame(b, c), RoomOK(p, b, rd)
    PROVE  RoomOK(p, c, rd)
  BY DEF RoomOK, RoomSame, FunctionIn

LEMMA ZerosAre ==
    ASSUME NEW k \in Nat
    PROVE  Zeros(k) \in Seq(Int) /\ Len(Zeros(k)) = k /\ \A j \in 1 .. k : Zeros(k)[j] = 0
  <1>1. Larger(k, 0) = k
    BY DEF Larger
  <1>2. Zeros(k) = [j \in 1 .. k |-> 0]
    BY <1>1 DEF Zeros
  <1> QED BY <1>2

LEMMA FromAre ==
    ASSUME NEW x \in Int, NEW k \in Nat
    PROVE  From(x, k) \in Seq(Int) /\ Len(From(x, k)) = k /\ \A j \in 1 .. k : From(x, k)[j] = x + j - 1
  <1>1. Larger(k, 0) = k
    BY DEF Larger
  <1>2. From(x, k) = [j \in 1 .. k |-> x + j - 1]
    BY <1>1 DEF From
  <1> QED BY <1>2

LEMMA MapIsSeq ==
    ASSUME NEW S, NEW n \in Nat, NEW s \in [1 .. n -> S]
    PROVE  s \in Seq(S) /\ Len(s) = n
  <1>1. s \in Seq(S)
    BY SeqDef
  <1> QED BY <1>1, LenProperties

LEMMA StartWordsAre ==
    ASSUME NEW p, NEW fs, NEW b, IsProgram(p, fs), Typed(p, b), Len(b.fieldaddr) = Len(p.fields),
           NEW k \in DOMAIN b.values, ~HasFunction(b.values[k]),
           b.values[k].type = "string" => ~HasValue(b.values[k])
    PROVE  /\ StartWords(b, b.values[k]) \in Seq(Int)
           /\ Len(StartWords(b, b.values[k])) = SizeOf(b.values[k].type)
  <1> DEFINE v == b.values[k]
  <1>1. IsValue(p, v)
    BY DEF Typed, ValuesOK
  <1>2. SizeOf(v.type) \in Nat
    BY DEF SizeOf
  <1> HIDE DEF v
  <1>3. CASE ~HasValue(v)
    <2>1. Zeros(SizeOf(v.type)) \in Seq(Int) /\ Len(Zeros(SizeOf(v.type))) = SizeOf(v.type)
      BY <1>2, ZerosAre, Zenon
    <2>2. StartWords(b, v) = Zeros(SizeOf(v.type))
      BY <1>3, Zenon DEF StartWords
    <2> QED BY <2>1, <2>2 DEF v
  <1>4. CASE HasValue(v) /\ v.type = "vector"
    <2>1. v.value \in [1 .. 3 -> Int]
      BY <1>1, <1>4 DEF IsValue, Starts
    <2>2. StartWords(b, v) = v.value
      BY <1>4 DEF StartWords
    <2>3. v.value \in Seq(Int) /\ Len(v.value) = 3
      <3>1. 3 \in Nat
        OBVIOUS
      <3> QED BY <2>1, <3>1, MapIsSeq, Zenon
    <2>4. SizeOf(v.type) = 3
      BY <1>4 DEF SizeOf
    <2> QED BY <2>2, <2>3, <2>4 DEF v
  <1>5. CASE HasValue(v) /\ v.type \in {"field", "vfield"}
    <2>1. v.value \in DOMAIN p.fields
      BY <1>1, <1>5 DEF IsValue, Starts
    <2>2. b.fieldaddr \in Seq(Nat) /\ IsSeq(p.fields)
      <3>1. PICK S : p.fields \in Seq(S)
        BY DEF IsProgram
      <3>2. Len(p.fields) \in Nat /\ p.fields = [i \in 1 .. Len(p.fields) |-> p.fields[i]]
        BY <3>1, LenProperties
      <3> QED BY <3>2, SeqIs DEF Typed
    <2>3. v.value \in 1 .. Len(b.fieldaddr)
      BY <2>1, <2>2, IsSeqLen
    <2>4. b.fieldaddr[v.value] \in Int
      BY <2>2, <2>3, ElementOfSeq
    <2>5. StartWords(b, v) = From(b.fieldaddr[v.value], SizeOf(v.type))
      BY <1>5 DEF StartWords
    <2>6. /\ From(b.fieldaddr[v.value], SizeOf(v.type)) \in Seq(Int)
          /\ Len(From(b.fieldaddr[v.value], SizeOf(v.type))) = SizeOf(v.type)
      BY <2>4, <1>2, FromAre, Zenon
    <2> QED BY <2>5, <2>6 DEF v
  <1>6. CASE HasValue(v) /\ v.type \notin {"vector", "field", "vfield"}
    <2>1. v.type \in {"void", "float", "entity"}
      BY <1>1, <1>6 DEF IsValue, HasFunction, Types, v
    <2>2. v.value \in Int
      BY <1>1, <1>6, <2>1 DEF IsValue, Starts
    <2>3. StartWords(b, v) = <<v.value>>
      BY <1>6 DEF StartWords
    <2>4. SizeOf(v.type) = 1
      BY <2>1 DEF SizeOf
    <2>5. <<v.value>> \in Seq(Int) /\ Len(<<v.value>>) = 1
      BY <2>2
    <2> QED BY <2>3, <2>4, <2>5 DEF v
  <1> QED BY <1>3, <1>4, <1>5, <1>6 DEF v

(* The areas: only their size.                                             *)
LEMMA CountAreasRoom ==
    ASSUME NEW fs, NEW b, NEW vd, NEW k \in DOMAIN b.values,
           IsProgram(program, fs), FileInv(program, fs, b, vd, {}, {}, {}),
           NEW rd, RoomOK(program, b, rd), rd \subseteq DOMAIN b.values
    PROVE  LET c == CountAreas(b, b.values[k])
           IN /\ FileInv(program, fs, c, vd, {}, {}, {}) /\ Kept(b, c)
              /\ RoomOK(program, c, rd \cup {k})
              /\ c.addr = b.addr /\ c.globals = b.globals
  <1> DEFINE v == b.values[k]
             f == program.functions[v.value]
             c == CountAreas(b, v)
  <1>1. Typed(program, b)
    BY DEF FileInv
  <1>2. CASE ~HasFunction(v)
    BY <1>2 DEF CountAreas, RoomOK, Kept
  <1>3. CASE HasFunction(v)
    <2>1. /\ f.allocated \in Nat /\ f.globaltemps \in Nat /\ FunctionIn(program, b, k) = f
          /\ f.nooverlap \in BOOLEAN
      <3>1. /\ FunctionIn(program, b, k) = f /\ IsFunction(program, f, fs)
        BY <1>1, <1>3, FunctionsAre
      <3> QED BY <3>1 DEF IsFunction
    <2>2. b.maxlocals \in Nat /\ b.maxtemps \in Nat /\ DOMAIN b = BuilderFields
      BY <1>1 DEF Typed
    <2> HIDE DEF f
    <2> DEFINE t == Larger(b.maxtemps, f.globaltemps)
               l == IF f.nooverlap THEN b.maxlocals ELSE Larger(b.maxlocals, f.allocated)
    <2>3. c = [b EXCEPT !.maxtemps = t, !.maxlocals = l]
      BY <1>3 DEF CountAreas, f
    <2>4. t \in Nat /\ b.maxtemps <= t /\ f.globaltemps <= t
      BY <2>1, <2>2 DEF Larger
    <2>5. l \in Nat /\ b.maxlocals <= l /\ (~f.nooverlap => f.allocated <= l)
      BY <2>1, <2>2 DEF Larger
    <2> HIDE DEF t, l, c
    <2>6. /\ DOMAIN c = DOMAIN b /\ SameButPlaces([b EXCEPT !.maxtemps = t, !.maxlocals = l], c)
          /\ c.values = b.values /\ c.constfloats = b.constfloats /\ c.reusable = b.reusable
          /\ c.addr = b.addr /\ c.globals = b.globals /\ c.functions = b.functions
          /\ c.def = b.def /\ c.fieldaddr = b.fieldaddr /\ c.strings = b.strings
          /\ c.name = b.name /\ c.immediate = b.immediate /\ c.filenames = b.filenames
          /\ c.defs = b.defs /\ c.fields = b.fields /\ c.entfields = b.entfields
          /\ c.statements = b.statements /\ c.extparams = b.extparams
          /\ c.firsttemp = b.firsttemp /\ c.firstlocal = b.firstlocal
          /\ c.maxtemps = t /\ c.maxlocals = l
      BY <2>2, <2>3 DEF BuilderFields, SameButPlaces
    <2>7. Typed(program, c)
      BY <1>1, <2>4, <2>5, <2>6 DEF Typed
    <2>8. /\ PlacesIn(c) = PlacesIn(b)
          /\ \A u : WordsIn(program, c, u) = WordsIn(program, b, u)
          /\ \A u, w : SameConstantIn(c, u, w) <=> SameConstantIn(b, u, w)
          /\ \A m : FunctionIn(program, c, m) = FunctionIn(program, b, m)
          /\ \A m : HasCodeIn(program, c, m) <=> HasCodeIn(program, b, m)
          /\ \A m, slot : SlotWord(fs, c, m, slot) = SlotWord(fs, b, m, slot)
      BY <2>6 DEF PlacesIn, WordsIn, TypeIn, SameConstantIn, FunctionIn, HasCodeIn, SlotWord, FirstIn
    <2>9. /\ FloatsOK(b) /\ KnownPlaces(program, b, vd, {}, {}, {}) /\ Apart(program, b)
          /\ ReusableOK(b) /\ SlotsOK(program, fs, b) /\ HeadersOK(program, b, vd)
      BY DEF FileInv, Placed
    <2>10. FloatsOK(c) /\ ReusableOK(c) /\ Apart(program, c)
      BY <2>6, <2>8, <2>9 DEF FloatsOK, ReusableOK, Apart
    <2>11. KnownPlaces(program, c, vd, {}, {}, {})
      BY <2>6, <2>8, <2>9 DEF KnownPlaces
    <2>12. SlotsOK(program, fs, c) /\ HeadersOK(program, c, vd)
      BY <2>6, <2>8, <2>9 DEF SlotsOK, HeadersOK
    <2>13. LaidOK(program, fs, c, {})
      BY DEF LaidOK, Laid
    <2>14. RoomOK(program, c, rd \cup {k})
      <3> SUFFICES ASSUME NEW m \in rd \cup {k}, HasFunction(c.values[m])
                   PROVE  /\ FunctionIn(program, c, m).globaltemps <= c.maxtemps
                          /\ ~FunctionIn(program, c, m).nooverlap =>
                                FunctionIn(program, c, m).allocated <= c.maxlocals
        BY DEF RoomOK
      <3>1. CASE m = k
        BY <3>1, <2>1, <2>4, <2>5, <2>6, <2>8
      <3>2. CASE m \in rd
        <4>1. /\ FunctionIn(program, b, m).globaltemps <= b.maxtemps
              /\ ~FunctionIn(program, b, m).nooverlap =>
                    FunctionIn(program, b, m).allocated <= b.maxlocals
          BY <3>2, <2>6 DEF RoomOK
        <4>2. FunctionIn(program, b, m).globaltemps \in Nat /\ FunctionIn(program, b, m).allocated \in Nat
          BY <3>2, <1>1, <2>6, FunctionsAre
        <4> QED BY <4>1, <4>2, <2>2, <2>4, <2>5, <2>6, <2>8
      <3> QED BY <3>1, <3>2
    <2>15. Kept(b, c)
      BY <2>6 DEF Kept
    <2> QED BY <2>6, <2>7, <2>10, <2>11, <2>12, <2>13, <2>14, <2>15 DEF FileInv, Placed, c
  <1> QED BY <1>2, <1>3

(* A constant that others may be merged with.                              *)
LEMMA Remembered ==
    ASSUME NEW p, NEW fs, NEW b, NEW vd, FileInv(p, fs, b, vd, {}, {}, {}),
           NEW k \in DOMAIN b.values, k \in Nat, Value(k) \in PlacesIn(b)
    PROVE  LET c == Remember(b, k, b.values[k])
           IN /\ FileInv(p, fs, c, vd, {}, {}, {}) /\ Kept(b, c) /\ RoomSame(b, c)
              /\ c.addr = b.addr /\ c.globals = b.globals /\ c.strings = b.strings /\ c.name = b.name
  <1> DEFINE v == b.values[k]
             c == Remember(b, k, v)
  <1>1. Typed(p, b)
    BY DEF FileInv
  <1>2. CASE ~(Mergeable(v) /\ v.value \notin DOMAIN b.reusable)
    BY <1>2 DEF Remember, Kept, RoomSame
  <1>3. CASE Mergeable(v) /\ v.value \notin DOMAIN b.reusable
    <2>1. DOMAIN b = BuilderFields
      BY <1>1 DEF Typed
    <2>2. c = [b EXCEPT !.reusable = With(@, v.value, k)]
      BY <1>3 DEF Remember
    <2> HIDE DEF c
    <2>3. /\ DOMAIN c = DOMAIN b
          /\ c.values = b.values /\ c.constfloats = b.constfloats
          /\ c.addr = b.addr /\ c.globals = b.globals /\ c.functions = b.functions
          /\ c.def = b.def /\ c.fieldaddr = b.fieldaddr /\ c.strings = b.strings
          /\ c.name = b.name /\ c.immediate = b.immediate /\ c.filenames = b.filenames
          /\ c.defs = b.defs /\ c.fields = b.fields /\ c.entfields = b.entfields
          /\ c.statements = b.statements /\ c.extparams = b.extparams
          /\ c.firsttemp = b.firsttemp /\ c.firstlocal = b.firstlocal
          /\ c.maxtemps = b.maxtemps /\ c.maxlocals = b.maxlocals
          /\ c.reusable = With(b.reusable, v.value, k)
      BY <2>1, <2>2 DEF BuilderFields
    <2>4. v.type \in {"float", "entity"} /\ HasValue(v) /\ v.const
      BY <1>3 DEF Mergeable
    <2>5. v.value \in Int
      <3>1. IsValue(p, v)
        BY <1>1 DEF Typed, ValuesOK
      <3> QED BY <3>1, <2>4 DEF IsValue, Starts
    <2>6. IsMap(b.reusable, Int, Nat)
      BY <1>1 DEF Typed
    <2>7. IsMap(c.reusable, Int, Nat)
      <3>1. IsMap(With(b.reusable, v.value, k), Int, Nat)
        BY <2>5, <2>6, WithMaps, Zenon
      <3> QED BY <3>1, <2>3
    <2>8. Typed(p, c)
      BY <1>1, <2>3, <2>7 DEF Typed
    <2>9. /\ PlacesIn(c) = PlacesIn(b)
          /\ \A u : WordsIn(p, c, u) = WordsIn(p, b, u)
          /\ \A u, w : SameConstantIn(c, u, w) <=> SameConstantIn(b, u, w)
          /\ \A m : FunctionIn(p, c, m) = FunctionIn(p, b, m)
          /\ \A m : HasCodeIn(p, c, m) <=> HasCodeIn(p, b, m)
          /\ \A m, slot : SlotWord(fs, c, m, slot) = SlotWord(fs, b, m, slot)
      BY <2>3 DEF PlacesIn, WordsIn, TypeIn, SameConstantIn, FunctionIn, HasCodeIn, SlotWord, FirstIn
    <2>10. /\ FloatsOK(b) /\ KnownPlaces(p, b, vd, {}, {}, {}) /\ Apart(p, b)
           /\ ReusableOK(b) /\ SlotsOK(p, fs, b) /\ HeadersOK(p, b, vd)
      BY DEF FileInv, Placed
    <2>11. FloatsOK(c) /\ Apart(p, c)
      BY <2>3, <2>9, <2>10 DEF FloatsOK, Apart
    <2>12. KnownPlaces(p, c, vd, {}, {}, {})
      BY <2>3, <2>9, <2>10 DEF KnownPlaces
    <2>13. SlotsOK(p, fs, c) /\ HeadersOK(p, c, vd)
      BY <2>3, <2>9, <2>10 DEF SlotsOK, HeadersOK
    <2>14. LaidOK(p, fs, c, {})
      BY DEF LaidOK, Laid
    <2>15. ReusableOK(c)
      <3> SUFFICES ASSUME NEW x \in DOMAIN c.reusable
                   PROVE  LET m == c.reusable[x]
                          IN /\ Value(m) \in PlacesIn(b) /\ b.values[m].type \in {"float", "entity"}
                             /\ b.values[m].const /\ b.values[m].value = x
        BY <2>3, <2>9 DEF ReusableOK
      <3>1. CASE x = v.value
        BY <3>1, <2>3, <2>4 DEF With
      <3>2. CASE x # v.value
        <4>1. x \in DOMAIN b.reusable /\ c.reusable[x] = b.reusable[x]
          BY <3>2, <2>3 DEF With
        <4> QED BY <4>1, <2>10 DEF ReusableOK
      <3> QED BY <3>1, <3>2
    <2>16. Kept(b, c) /\ RoomSame(b, c)
      BY <2>3 DEF Kept, RoomSame
    <2> QED BY <2>3, <2>8, <2>11, <2>12, <2>13, <2>14, <2>15, <2>16 DEF FileInv, Placed, c
  <1> QED BY <1>2, <1>3
-----------------------------------------------------------------------------
(* Nothing that was there is changed, things are added to it.              *)
TextsKept(b, c) ==
    /\ Keeps(b.strings.chars, c.strings.chars)
    /\ ToSet(b.defs) \subseteq ToSet(c.defs)
    /\ ToSet(b.fields) \subseteq ToSet(c.fields)
SameFunctions(b, c) ==
    /\ c.functions = b.functions /\ c.def = b.def /\ c.statements = b.statements
SameRest(b, c) == 
    /\ c.values = b.values /\ c.fieldaddr = b.fieldaddr /\ c.constfloats = b.constfloats
    /\ c.maxtemps = b.maxtemps /\ c.maxlocals = b.maxlocals /\ c.extparams = b.extparams

LEMMA NamesKeptAre ==
    ASSUME NEW b, NEW c, NamesKept(b, c)
    PROVE  /\ TextsKept(b, c) /\ SameFunctions(b, c) /\ SameRest(b, c)
           /\ c.addr = b.addr /\ c.globals = b.globals /\ SameLayout(b, c)
  BY DEF NamesKept, SameLayout, TextsKept, SameFunctions, SameRest

LEMMA SameButPlacesAre ==
    ASSUME NEW b, NEW c, SameButPlaces(b, c)
    PROVE  TextsKept(b, c) /\ SameFunctions(b, c) /\ SameRest(b, c)
  BY DEF SameButPlaces, TextsKept, SameFunctions, SameRest, Keeps

LEMMA KeptTransitive ==
    ASSUME NEW b, NEW c, NEW d
    PROVE  /\ TextsKept(b, c) /\ TextsKept(c, d) => TextsKept(b, d)
           /\ SameFunctions(b, c) /\ SameFunctions(c, d) => SameFunctions(b, d)
           /\ SameRest(b, c) /\ SameRest(c, d) => SameRest(b, d)
  BY DEF TextsKept, SameFunctions, SameRest, Keeps

LEMMA RoomMore ==
    ASSUME NEW p, NEW b, NEW c, NEW n \in Nat, RoomOK(p, b, 1 .. n - 1), SameRest(b, c),
           ~HasFunction(b.values[n])
    PROVE  RoomOK(p, c, 1 .. n)
  <1>1. \A k \in 1 .. n : k \in 1 .. n - 1 \/ k = n
    OBVIOUS
  <1> QED BY <1>1 DEF RoomOK, SameRest, FunctionIn

(* Where the loop over the values is.                                      *)
LEMMA ProgramIs ==
    ASSUME StageOK
    PROVE  IsProgram(program, flags)
  BY WriterAssumption DEF StageOK

LEMMA GlobalStart ==
    ASSUME LayoutInv, AtGlobal
    PROVE  /\ IsProgram(program, flags)
           /\ FileInv(program, flags, builder, 1 .. item - 1, {}, {}, {})
           /\ RoomOK(program, builder, 1 .. item - 1)
           /\ Typed(program, builder) /\ IsValue(program, This)
           /\ item \in Nat /\ item \in DOMAIN builder.values
           /\ DOMAIN builder.values = 1 .. Len(builder.values) /\ Len(builder.values) \in Nat
           /\ Value(item) \in PlaceNames /\ Value(item) \notin DOMAIN builder.addr
           /\ Len(builder.fieldaddr) = Len(program.fields)
           /\ This.name \in Texts /\ Len(builder.globals) \in Nat
           /\ 1 .. item - 1 \subseteq 1 .. item /\ item \in 1 .. item
  <1>1. stage = "globals" /\ item <= Len(builder.values)
    BY DEF AtGlobal, Items
  <1>2. /\ FileInv(program, flags, builder, 1 .. item - 1, {}, {}, {})
        /\ RoomOK(program, builder, 1 .. item - 1)
    <2>1. ValuesDone = 1 .. item - 1 /\ FieldsDone = {} /\ AreaPlacesDone = {} /\ CodeDone = {}
      BY <1>1 DEF ValuesDone, FieldsDone, AreasDone, AreaPlacesDone, CodeDone, CodeStages
    <2> QED BY <2>1 DEF LayoutInv
  <1>3. Typed(program, builder)
    BY <1>2 DEF FileInv
  <1>4. DOMAIN builder.values = 1 .. Len(builder.values) /\ Len(builder.values) \in Nat
    BY <1>3, IsSeqLen DEF Typed, ValuesOK
  <1>5. item \in 1 .. Len(builder.values) + 1
    BY <1>1 DEF LayoutInv, StageOK, Items
  <1>6. item \in Nat /\ item \in DOMAIN builder.values
    BY <1>1, <1>4, <1>5
  <1>7. Value(item) \in PlaceNames
    BY <1>6 DEF PlaceNames
  <1>8. Value(item) \notin DOMAIN builder.addr
    <2>1. \A v \in DOMAIN builder.addr : \/ \E k \in 1 .. item - 1 : v = Value(k)
                                         \/ \E j : v = ExtParam(j)
      BY <1>2 DEF FileInv, KnownPlaces
    <2>2. \A k \in 1 .. item - 1 : k # item
      BY <1>6
    <2> QED BY <2>1, <2>2 DEF Value, ExtParam
  <1>9. IsProgram(program, flags)
    BY ProgramIs DEF LayoutInv
  <1>10. Len(builder.fieldaddr) = Len(program.fields)
    BY <1>1 DEF LayoutInv, StageOK
  <1>11. IsValue(program, This)
    BY <1>3, <1>6 DEF Typed, ValuesOK, This
  <1>12. This.name \in Texts
    BY <1>11 DEF IsValue
  <1>13. Len(builder.globals) \in Nat
    BY <1>3, LenProperties DEF Typed
  <1>14. 1 .. item - 1 \subseteq 1 .. item /\ item \in 1 .. item
    BY <1>5
  <1> QED BY <1>2, <1>3, <1>4, <1>6, <1>7, <1>8, <1>9, <1>10, <1>11, <1>12, <1>13, <1>14

LEMMA GlobalStep ==
    ASSUME LayoutInv, AtGlobal, UNCHANGED <<program, flags, stage, nthcall, nthparm>>,
           item' = item + 1, FileInv(program, flags, builder', 1 .. item, {}, {}, {}),
           RoomOK(program, builder', 1 .. item), Kept(builder, builder')
    PROVE  LayoutInv'
  <1>1. stage = "globals" /\ stage' = "globals" /\ item <= Len(builder.values)
    BY DEF AtGlobal, Items
  <1>2. item \in Nat /\ Len(builder.values) \in Nat
    BY GlobalStart
  <1>3. /\ ValuesDone' = 1 .. item /\ FieldsDone' = {} /\ AreasDone' = FALSE /\ AreaPlacesDone' = {} /\ CodeDone' = {}
    BY <1>1, <1>2, SMTT(30) DEF ValuesDone, FieldsDone, AreasDone, AreaPlacesDone, CodeDone, CodeStages
  <1>4. /\ FileInv(program', flags', builder', ValuesDone', FieldsDone', AreaPlacesDone', CodeDone')
        /\ RoomOK(program', builder', ValuesDone')
    BY <1>3
  <1>5. StageOK'
    <2>1. StageOK
      BY DEF LayoutInv
    <2>2. /\ builder'.values = builder.values /\ builder'.fieldaddr = builder.fieldaddr
          /\ builder'.constfloats = builder.constfloats
      BY DEF Kept
    <2>3. item' \in 1 .. Items' + 1
      BY <1>1, <1>2, <2>1, <2>2 DEF StageOK, Items
    <2>4. \E c \in Compilations : program' = c.program /\ flags' = c.flags
      BY <2>1 DEF StageOK
    <2>5. \A k \in DOMAIN builder.values :
             IsSplit(builder.values[k]) => Len(builder.values[k].parts) = 3
      BY <2>1 DEF StageOK
    <2>6. /\ Len(program.values) <= Len(builder.values) /\ nthcall \in Nat /\ nthparm \in Nat
          /\ Len(builder.fieldaddr) = Len(program.fields)
      BY <1>1, <2>1 DEF StageOK
    <2> QED BY <1>1, <2>2, <2>3, <2>4, <2>5, <2>6 DEF StageOK
  <1> QED BY <1>3, <1>4, <1>5 DEF LayoutInv
-----------------------------------------------------------------------------
(* The value that was come to has its words, behind all there were.        *)
Placing(c, words) ==
    /\ FileInv(program, flags, c, 1 .. item, {}, {}, {})
    /\ TextsKept(builder, c)
    /\ c.values = builder.values /\ c.fieldaddr = builder.fieldaddr
    /\ c.constfloats = builder.constfloats
    /\ c.addr = With(builder.addr, Value(item), Len(builder.globals))
    /\ c.globals = builder.globals \o words

LEMMA PlacingKept ==
    ASSUME NEW b, NEW c, NEW words, Placing(b, words), Typed(program, c), NamesKept(b, c)
    PROVE  Placing(c, words) /\ SameFunctions(b, c) /\ SameRest(b, c)
  <1>1. /\ TextsKept(b, c) /\ SameFunctions(b, c) /\ SameRest(b, c)
        /\ c.addr = b.addr /\ c.globals = b.globals /\ SameLayout(b, c)
    BY NamesKeptAre
  <1>2. FileInv(program, flags, c, 1 .. item, {}, {}, {})
    BY <1>1, FileKept DEF Placing
  <1>3. TextsKept(builder, c)
    BY <1>1, KeptTransitive DEF Placing
  <1> QED BY <1>1, <1>2, <1>3 DEF Placing, SameRest

LEMMA PlaceAfterNames ==
    ASSUME LayoutInv, AtGlobal, NEW b, Typed(program, b), NamesKept(builder, b),
           NEW words \in Seq(Int), Wordless(This) \/ Len(words) = SizeOf(This.type)
    PROVE  LET c == PushWords(b, Value(item), words)
           IN /\ Placing(c, words) /\ SameButPlaces(b, c)
              /\ SameFunctions(builder, c) /\ SameRest(builder, c)
              /\ c.strings = b.strings /\ c.name = b.name
  <1> DEFINE c == PushWords(b, Value(item), words)
             v == Value(item)
  <1>1. /\ TextsKept(builder, b) /\ SameFunctions(builder, b) /\ SameRest(builder, b)
        /\ b.addr = builder.addr /\ b.globals = builder.globals /\ SameLayout(builder, b)
    BY NamesKeptAre
  <1>2. FileInv(program, flags, b, 1 .. item - 1, {}, {}, {})
    <2>1. FileInv(program, flags, builder, 1 .. item - 1, {}, {}, {})
      BY GlobalStart
    <2> QED BY <1>1, <2>1, FileKept, ZenonT(60)
  <1>3. PlaceOf(program, b, v, words)
    <2>1. v[1] = "value" /\ v[2] = item
      BY DEF Value
    <2>2. v \in PlaceNames /\ v \notin DOMAIN b.addr
      BY <1>1, GlobalStart
    <2>3. b.values[item] = This
      BY <1>1 DEF SameRest, This
    <2>4. TypeIn(program, b, v) = This.type
      BY <2>1, <2>3 DEF TypeIn
    <2> HIDE DEF v
    <2> QED BY <2>1, <2>2, <2>3, <2>4 DEF PlaceOf
  <1>4. /\ FileInv(program, flags, c, 1 .. item, {}, {}, {})
        /\ PlacedBehind(b, c, v, words)
    <2>1. IsProgram(program, flags)
      BY GlobalStart
    <2>2. NameOf(b, v, 1 .. item - 1, {}, 1 .. item, {}, {})
      BY GlobalStart DEF NamedBy, NameOf
    <2> QED BY <1>2, <1>3, <2>1, <2>2, FileNewPlace, Zenon
  <1> HIDE DEF c
  <1>5. TextsKept(b, c) /\ SameFunctions(b, c) /\ SameRest(b, c)
    BY <1>4, SameButPlacesAre DEF PlacedBehind
  <1>6. TextsKept(builder, c) /\ SameFunctions(builder, c) /\ SameRest(builder, c)
    BY <1>1, <1>5, KeptTransitive
  <1>7. Placing(c, words)
    BY <1>1, <1>4, <1>6 DEF Placing, SameRest, PlacedBehind
  <1>8. c.strings = b.strings /\ c.name = b.name
    BY <1>4 DEF SameButPlaces, PlacedBehind
  <1> QED BY <1>4, <1>6, <1>7, <1>8 DEF c, PlacedBehind

LEMMA SkipGlobalKeeps ==
    ASSUME LayoutInv, SkipGlobal
    PROVE  LayoutInv'
  <1>1. AtGlobal /\ NextItem(CountAreas(builder, This))
    BY DEF SkipGlobal
  <1> DEFINE c == CountAreas(builder, builder.values[item])
  <1>2. /\ IsProgram(program, flags)
        /\ FileInv(program, flags, builder, 1 .. item - 1, {}, {}, {})
        /\ RoomOK(program, builder, 1 .. item - 1) /\ item \in DOMAIN builder.values
        /\ 1 .. item - 1 \subseteq DOMAIN builder.values
    <2>1. DOMAIN builder.values = 1 .. Len(builder.values) /\ item \in DOMAIN builder.values
          /\ Len(builder.values) \in Nat
      BY <1>1, GlobalStart
    <2>2. 1 .. item - 1 \subseteq DOMAIN builder.values
      BY <2>1
    <2> QED BY <1>1, <2>2, GlobalStart
  <1>3. /\ FileInv(program, flags, c, 1 .. item - 1, {}, {}, {}) /\ Kept(builder, c)
        /\ RoomOK(program, c, (1 .. item - 1) \cup {item})
    BY <1>2, CountAreasRoom, Zenon
  <1>4. builder' = c
    BY <1>1 DEF NextItem, This
  <1> HIDE DEF c
  <1>5. (1 .. item - 1) \cup {item} = 1 .. item /\ 1 .. item - 1 \subseteq 1 .. item
    BY <1>1, GlobalStart
  <1>6. FileInv(program, flags, c, 1 .. item, {}, {}, {})
    BY <1>3, <1>5 DEF FileInv, KnownPlaces, HeadersOK
  <1> QED BY <1>1, <1>3, <1>4, <1>5, <1>6, GlobalStep DEF NextItem

LEMMA GenerateWordlessDoes ==
    ASSUME LayoutInv, GenerateWordless
    PROVE  Placing(builder', <<>>) /\ SameFunctions(builder, builder') /\ SameRest(builder, builder')
  <1>1. AtGlobal /\ Wordless(This)
    BY DEF GenerateWordless
  <1>2. Typed(program, builder) /\ This.name \in Texts
    BY <1>1, GlobalStart
  <1>3. Typed(program, Named(builder, This)) /\ NamesKept(builder, Named(builder, This))
    BY <1>2, NamedNames
  <1>4. <<>> \in Seq(Int)
    OBVIOUS
  <1>5. builder' = PushWords(Named(builder, This), Value(item), <<>>)
    BY DEF GenerateWordless, NextItem
  <1> QED BY <1>1, <1>3, <1>4, <1>5, PlaceAfterNames

LEMMA GenerateMergedDoes ==
    ASSUME LayoutInv, GenerateMerged
    PROVE  /\ FileInv(program, flags, builder', 1 .. item, {}, {}, {})
           /\ MergedInto(builder, builder', item, builder.reusable[This.value])
  <1>1. AtGlobal /\ Merged(builder, This)
    BY DEF GenerateMerged
  <1>2. /\ This.type \in {"float", "entity"} /\ This.const /\ This.value \in DOMAIN builder.reusable
    BY <1>1 DEF Merged, Mergeable
  <1>3. /\ item \in 1 .. item /\ 1 .. item - 1 \subseteq 1 .. item /\ item \in Nat
        /\ FileInv(program, flags, builder, 1 .. item - 1, {}, {}, {})
        /\ Value(item) \notin DOMAIN builder.addr
    BY <1>1, GlobalStart
  <1>4. builder' = setCodeAddress(builder, Value(item),
                         codeAddress(builder, Value(builder.reusable[builder.values[item].value])))
    BY DEF GenerateMerged, NextItem, This
  <1> DEFINE x == builder.values[item]
             c == setCodeAddress(builder, Value(item), codeAddress(builder, Value(builder.reusable[x.value])))
  <1>5. x.type \in {"float", "entity"} /\ x.const /\ x.value \in DOMAIN builder.reusable
    BY <1>2 DEF This
  <1>6. /\ FileInv(program, flags, c, 1 .. item, {}, {}, {})
        /\ MergedInto(builder, c, item, builder.reusable[x.value])
    BY <1>3, <1>5, FileMerged, Zenon
  <1>7. builder' = c /\ x = This
    BY <1>4 DEF This
  <1> QED BY <1>6, <1>7

LEMMA GenerateStringDoes ==
    ASSUME LayoutInv, GenerateString
    PROVE  \E at \in Nat :
              /\ Placing(builder', <<at>>)
              /\ SameFunctions(builder, builder') /\ SameRest(builder, builder')
              /\ ReadsAs(builder'.strings.chars, at, This.value)
              /\ PushesDef(This) /\ ~IsLiteral(This) =>
                    HasDefsIn(builder', Len(builder.globals), This.name, This.type)
  <1> DEFINE named == Named(builder, This)
             load  == GenName(named, This.value)
             b     == PushWords(load, Value(item), <<load.name>>)
             n     == [b EXCEPT !.name = named.name]
             c     == WithDefs(n, This, Len(builder.globals))
  <1>1. AtGlobal /\ This.type = "string" /\ HasValue(This)
    BY DEF GenerateString
  <1>2. Typed(program, builder) /\ This.name \in Texts /\ Len(builder.globals) \in Nat
        /\ IsValue(program, This)
    BY <1>1, GlobalStart
  <1>3. This.value \in Texts
    BY <1>1, <1>2 DEF IsValue, Starts
  <1>4. /\ Typed(program, named) /\ NamesKept(builder, named)
        /\ PushesDef(This) /\ ~IsLiteral(This) => NameReads(named, This.name)
    BY <1>2, NamedNames
  <1>5. named.name \in Nat
    BY <1>4 DEF Typed
  <1> HIDE DEF named
  <1>6. /\ Typed(program, load) /\ NamesKept(named, load) /\ NameReads(load, This.value)
    BY <1>3, <1>4, GenNameNames
  <1>7. NamesKept(builder, load) /\ load.name \in Nat
    BY <1>4, <1>6, NamesKeptTransitive DEF Typed
  <1> HIDE DEF load
  <1>8. <<load.name>> \in Seq(Int) /\ Len(<<load.name>>) = SizeOf(This.type)
    <2>1. SizeOf(This.type) = 1
      BY <1>1 DEF SizeOf
    <2> QED BY <1>7, <2>1
  <1>9. /\ Placing(b, <<load.name>>)
        /\ SameFunctions(builder, b) /\ SameRest(builder, b)
        /\ b.strings = load.strings /\ b.name = load.name
    BY <1>1, <1>6, <1>7, <1>8, PlaceAfterNames
  <1>10. Typed(program, b)
    BY <1>9 DEF Placing, FileInv
  <1> HIDE DEF b
  <1>11. /\ Typed(program, n) /\ NamesKept(b, n) /\ n.strings = b.strings /\ n.name = named.name
    BY <1>5, <1>10, NameSet
  <1> HIDE DEF n
  <1>12. PushesDef(This) /\ ~IsLiteral(This) => NameReads(n, This.name)
    <2>1. NameReads(named, This.name) => ReadsAs(load.strings.chars, named.name, This.name)
      BY <1>2, <1>5, <1>6 DEF NameReads, NamesKept, Keeps
    <2> QED BY <2>1, <1>4, <1>9, <1>11 DEF NameReads
  <1>13. /\ Typed(program, c) /\ NamesKept(n, c)
         /\ PushesDef(This) /\ ~IsLiteral(This) =>
               HasDefsIn(c, Len(builder.globals), This.name, This.type)
    BY <1>2, <1>11, <1>12, WithDefsNames
  <1> HIDE DEF c
  <1>14. NamesKept(b, c)
    BY <1>11, <1>13, NamesKeptTransitive
  <1>15. Placing(c, <<load.name>>) /\ SameFunctions(b, c) /\ SameRest(b, c)
    BY <1>9, <1>13, <1>14, PlacingKept
  <1>16. SameFunctions(builder, c) /\ SameRest(builder, c)
    BY <1>9, <1>15, KeptTransitive
  <1>17. ReadsAs(c.strings.chars, load.name, This.value)
    <2>1. ReadsAs(b.strings.chars, load.name, This.value)
      BY <1>6, <1>9 DEF NameReads
    <2>2. Keeps(b.strings.chars, c.strings.chars)
      BY <1>14 DEF NamesKept
    <2> QED BY <1>3, <1>7, <2>1, <2>2 DEF Keeps
  <1>18. builder' = c
    BY DEF GenerateString, NextItem, c, n, b, load, named
  <1> QED BY <1>7, <1>13, <1>15, <1>16, <1>17, <1>18

LEMMA GenerateWordsDoes ==
    ASSUME LayoutInv, GenerateWords
    PROVE  /\ Placing(builder', StartWords(builder, This))
           /\ Len(StartWords(builder, This)) = SizeOf(This.type)
           /\ StartWords(builder, This) \in Seq(Int)
           /\ SameFunctions(builder, builder') /\ SameRest(builder, builder')
           /\ PushesDef(This) /\ ~IsLiteral(This) =>
                 HasDefsIn(builder', Len(builder.globals), This.name, This.type)
  <1> DEFINE words == StartWords(builder, This)
             named == Named(builder, This)
             b     == PushWords(named, Value(item), words)
             r     == Remember(b, item, This)
             c     == WithDefs(r, This, Len(builder.globals))
  <1>1. AtGlobal /\ ~HasFunction(This) /\ (This.type = "string" => ~HasValue(This)) /\ ~Wordless(This)
    BY DEF GenerateWords
  <1>2. Typed(program, builder) /\ This.name \in Texts /\ Len(builder.globals) \in Nat
        /\ IsProgram(program, flags) /\ item \in DOMAIN builder.values /\ item \in Nat
        /\ Len(builder.fieldaddr) = Len(program.fields)
    BY <1>1, GlobalStart
  <1>3. words \in Seq(Int) /\ Len(words) = SizeOf(This.type)
    BY <1>1, <1>2, StartWordsAre DEF This
  <1> HIDE DEF words
  <1>4. /\ Typed(program, named) /\ NamesKept(builder, named)
        /\ PushesDef(This) /\ ~IsLiteral(This) => NameReads(named, This.name)
    BY <1>2, NamedNames
  <1> HIDE DEF named
  <1>5. /\ Placing(b, words) /\ SameFunctions(builder, b) /\ SameRest(builder, b)
        /\ b.strings = named.strings /\ b.name = named.name
    BY <1>1, <1>3, <1>4, PlaceAfterNames
  <1> HIDE DEF b
  <1>6. /\ FileInv(program, flags, b, 1 .. item, {}, {}, {}) /\ b.values = builder.values
        /\ b.addr = With(builder.addr, Value(item), Len(builder.globals))
    BY <1>5 DEF Placing
  <1>7. Value(item) \in PlacesIn(b)
    <2>1. Value(item) \in DOMAIN b.addr
      BY <1>6 DEF With
    <2> QED BY <2>1, <1>1, <1>6 DEF PlacesIn, Value, This
  <1>8. b.values[item] = This /\ item \in DOMAIN b.values
    BY <1>2, <1>6 DEF This
  <1>9. /\ FileInv(program, flags, r, 1 .. item, {}, {}, {}) /\ Kept(b, r) /\ RoomSame(b, r)
        /\ r.addr = b.addr /\ r.globals = b.globals /\ r.strings = b.strings /\ r.name = b.name
    <2> DEFINE q == Remember(b, item, b.values[item])
    <2>1. /\ FileInv(program, flags, q, 1 .. item, {}, {}, {}) /\ Kept(b, q) /\ RoomSame(b, q)
          /\ q.addr = b.addr /\ q.globals = b.globals /\ q.strings = b.strings /\ q.name = b.name
      BY <1>2, <1>6, <1>7, <1>8, Remembered, Zenon
    <2>2. q = r
      BY <1>8
    <2> QED BY <2>1, <2>2
  <1>10. /\ SameFunctions(b, r) /\ SameRest(b, r) /\ TextsKept(b, r)
    <2>1. DOMAIN b = BuilderFields
      BY <1>6 DEF FileInv, Typed
    <2>2. \/ r = b \/ r = [b EXCEPT !.reusable = With(@, This.value, item)]
      BY DEF Remember
    <2> HIDE DEF r
    <2> QED BY <2>1, <2>2 DEF BuilderFields, SameFunctions, SameRest, TextsKept, Keeps
  <1> HIDE DEF r
  <1>11. Placing(r, words)
    <2>1. TextsKept(builder, r)
      BY <1>5, <1>10, KeptTransitive DEF Placing
    <2> QED BY <2>1, <1>5, <1>9, <1>10 DEF Placing, SameRest
  <1>12. Typed(program, r)
    BY <1>9 DEF FileInv
  <1>13. /\ Typed(program, c) /\ NamesKept(r, c)
         /\ PushesDef(This) /\ ~IsLiteral(This) =>
               HasDefsIn(c, Len(builder.globals), This.name, This.type)
    <2>1. PushesDef(This) /\ ~IsLiteral(This) => NameReads(r, This.name)
      BY <1>4, <1>5, <1>9 DEF NameReads
    <2> QED BY <1>2, <1>12, <2>1, WithDefsNames
  <1> HIDE DEF c
  <1>14. Placing(c, words) /\ SameFunctions(r, c) /\ SameRest(r, c)
    BY <1>11, <1>13, PlacingKept
  <1>15. SameFunctions(builder, c) /\ SameRest(builder, c)
    BY <1>5, <1>10, <1>14, KeptTransitive
  <1>16. builder' = c
    BY DEF GenerateWords, NextItem, c, r, b, named, words
  <1> QED BY <1>3, <1>13, <1>14, <1>15, <1>16 DEF words
-----------------------------------------------------------------------------
(* A function has its header, and its value's word leads to that.          *)
HasHeader(b, c, h, name) ==
    /\ c.functions = Append(b.functions, h)
    /\ c.def = With(b.def, item, Len(b.functions) + 1)
    /\ c.statements = b.statements /\ c.addr = b.addr /\ c.globals = b.globals
    /\ c.strings = b.strings /\ c.name = name /\ c.defs = b.defs /\ c.fields = b.fields
    /\ c.values = b.values /\ c.fieldaddr = b.fieldaddr /\ c.constfloats = b.constfloats
    /\ c.maxtemps = b.maxtemps /\ c.maxlocals = b.maxlocals /\ c.extparams = b.extparams

LEMMA HeaderAdded ==
    ASSUME NEW b, IsProgram(program, flags), item \in Nat,
           FileInv(program, flags, b, 1 .. item, {}, {}, {}),
           item \in DOMAIN b.values, HasFunction(b.values[item]), item \notin DOMAIN b.def,
           NEW h \in Headers, h.of = item, h.locals = FunctionIn(program, b, item).allocated,
           NEW name \in Nat
    PROVE  LET c == [b EXCEPT !.functions = Append(@, h),
                              !.def = With(@, item, Len(b.functions) + 1), !.name = name]
           IN /\ FileInv(program, flags, c, 1 .. item, {}, {}, {})
              /\ HasHeader(b, c, h, name)
  <1> DEFINE c == [b EXCEPT !.functions = Append(@, h),
                            !.def = With(@, item, Len(b.functions) + 1), !.name = name]
             n == Len(b.functions) + 1
  <1>1. /\ Typed(program, b) /\ FloatsOK(b) /\ KnownPlaces(program, b, 1 .. item, {}, {}, {})
        /\ Apart(program, b) /\ ReusableOK(b) /\ SlotsOK(program, flags, b)
        /\ HeadersOK(program, b, 1 .. item)
    BY DEF FileInv, Placed
  <1>2. /\ DOMAIN c = DOMAIN b /\ DOMAIN b = BuilderFields
        /\ c.functions = Append(b.functions, h) /\ c.def = With(b.def, item, n)
        /\ c.values = b.values /\ c.constfloats = b.constfloats
        /\ c.addr = b.addr /\ c.globals = b.globals /\ c.reusable = b.reusable
        /\ c.fieldaddr = b.fieldaddr /\ c.strings = b.strings
        /\ c.name = name /\ c.immediate = b.immediate /\ c.filenames = b.filenames
        /\ c.defs = b.defs /\ c.fields = b.fields /\ c.entfields = b.entfields
        /\ c.statements = b.statements /\ c.extparams = b.extparams
        /\ c.firsttemp = b.firsttemp /\ c.firstlocal = b.firstlocal
        /\ c.maxtemps = b.maxtemps /\ c.maxlocals = b.maxlocals
    BY <1>1 DEF Typed, BuilderFields
  <1> HIDE DEF c
  <1>3. b.functions \in Seq(Headers) /\ IsMap(b.def, Nat, Nat)
    BY <1>1 DEF Typed
  <1>4. /\ c.functions \in Seq(Headers) /\ Len(c.functions) = n
        /\ \A i \in DOMAIN b.functions : c.functions[i] = b.functions[i]
        /\ c.functions[n] = h /\ n \in Nat
        /\ DOMAIN b.functions = 1 .. Len(b.functions) /\ Len(b.functions) \in Nat
    BY <1>2, <1>3, AppendAdds, LenProperties
  <1>5. /\ IsMap(c.def, Nat, Nat) /\ DOMAIN c.def = DOMAIN b.def \cup {item} /\ c.def[item] = n
        /\ \A k \in DOMAIN b.def : c.def[k] = b.def[k]
    <2>1. n \in Nat
      BY <1>4
    <2> HIDE DEF n
    <2>2. IsMap(With(b.def, item, n), Nat, Nat)
      BY <1>3, <2>1, WithMaps, Zenon
    <2>3. /\ DOMAIN c.def = DOMAIN b.def \cup {item} /\ c.def[item] = n
          /\ \A k \in DOMAIN b.def : c.def[k] = b.def[k]
      BY <1>2 DEF With
    <2> QED BY <2>2, <2>3, <1>2
  <1>6. Typed(program, c)
    BY <1>1, <1>2, <1>4, <1>5 DEF Typed
  <1>7. /\ PlacesIn(c) = PlacesIn(b)
        /\ \A u : WordsIn(program, c, u) = WordsIn(program, b, u)
        /\ \A u, w : SameConstantIn(c, u, w) <=> SameConstantIn(b, u, w)
        /\ \A m : FunctionIn(program, c, m) = FunctionIn(program, b, m)
    BY <1>2 DEF PlacesIn, WordsIn, TypeIn, SameConstantIn, FunctionIn
  <1>8. FloatsOK(c) /\ Apart(program, c) /\ ReusableOK(c)
    BY <1>1, <1>2, <1>7 DEF FloatsOK, Apart, ReusableOK
  <1>9. KnownPlaces(program, c, 1 .. item, {}, {}, {})
    BY <1>1, <1>2 DEF KnownPlaces
  <1>10. LaidOK(program, flags, c, {}) /\ SlotsOK(program, flags, c)
    <2>1. \A u \in DOMAIN c.addr : u[1] \in {"value", "extparam"}
      BY <1>9 DEF KnownPlaces, Value, ExtParam
    <2> QED BY <2>1 DEF LaidOK, Laid, SlotsOK
  <1>11. HeadersOK(program, c, 1 .. item)
    <2>1. 1 <= Len(b.functions) /\ item \in 1 .. item
      <3>1. DOMAIN b.values = 1 .. Len(b.values)
        BY <1>1, IsSeqLen DEF Typed, ValuesOK
      <3> QED BY <3>1, <1>1 DEF HeadersOK
    <2>2. 1 <= Len(c.functions) /\ DOMAIN c.def \subseteq 1 .. item
      BY <1>1, <1>4, <1>5, <2>1 DEF HeadersOK
    <2> SUFFICES ASSUME NEW k \in DOMAIN c.def
                 PROVE  /\ HasFunction(c.values[k])
                        /\ c.def[k] \in 2 .. Len(c.functions)
                        /\ c.functions[c.def[k]].of = k
                        /\ c.functions[c.def[k]].locals = FunctionIn(program, c, k).allocated
      BY <2>2 DEF HeadersOK
    <2>3. CASE k = item
      BY <2>1, <2>3, <1>2, <1>4, <1>5, <1>7
    <2>4. CASE k # item
      <3>1. /\ k \in DOMAIN b.def /\ HasFunction(b.values[k]) /\ b.def[k] \in 2 .. Len(b.functions)
            /\ b.functions[b.def[k]].of = k
            /\ b.functions[b.def[k]].locals = FunctionIn(program, b, k).allocated
        BY <2>4, <1>1, <1>5 DEF HeadersOK
      <3>2. b.def[k] \in DOMAIN b.functions /\ b.def[k] \in 2 .. Len(c.functions)
        BY <3>1, <1>4
      <3> QED BY <3>1, <3>2, <1>2, <1>4, <1>5, <1>7
    <2> QED BY <2>3, <2>4
  <1>12. FileInv(program, flags, c, 1 .. item, {}, {}, {})
    BY <1>6, <1>8, <1>9, <1>10, <1>11 DEF FileInv, Placed
  <1> QED BY <1>2, <1>12 DEF c, HasHeader

LEMMA CountAreasRest ==
    ASSUME NEW b, DOMAIN b = BuilderFields, NEW v
    PROVE  LET c == CountAreas(b, v)
           IN /\ SameFunctions(b, c) /\ TextsKept(b, c) /\ c.strings = b.strings
              /\ c.values = b.values /\ c.fieldaddr = b.fieldaddr /\ c.constfloats = b.constfloats
              /\ c.extparams = b.extparams /\ c.addr = b.addr /\ c.globals = b.globals
              /\ c.defs = b.defs
  <1> DEFINE c == CountAreas(b, v)
  <1>1. PICK t, l : c = b \/ c = [b EXCEPT !.maxtemps = t, !.maxlocals = l]
    BY DEF CountAreas
  <1> HIDE DEF c
  <1>2. /\ SameFunctions(b, c) /\ TextsKept(b, c) /\ c.strings = b.strings
        /\ c.values = b.values /\ c.fieldaddr = b.fieldaddr /\ c.constfloats = b.constfloats
        /\ c.extparams = b.extparams /\ c.addr = b.addr /\ c.globals = b.globals
        /\ c.defs = b.defs
    BY <1>1 DEF BuilderFields, SameFunctions, TextsKept, Keeps
  <1> QED BY <1>2 DEF c

(* What generateGlobalFunction leaves behind.                              *)
FunctionPlaced(c, h) ==
    /\ FileInv(program, flags, c, 1 .. item, {}, {}, {})
    /\ TextsKept(builder, c)
    /\ c.values = builder.values /\ c.fieldaddr = builder.fieldaddr
    /\ c.constfloats = builder.constfloats /\ c.extparams = builder.extparams
    /\ c.addr = With(builder.addr, Value(item), Len(builder.globals))
    /\ c.globals = builder.globals \o <<Len(builder.functions)>>
    /\ c.functions = Append(builder.functions, h)
    /\ c.def = With(builder.def, item, Len(builder.functions) + 1)
    /\ c.statements = builder.statements

LEMMA FunctionPlacedKept ==
    ASSUME NEW b, NEW c, NEW h, FunctionPlaced(b, h), Typed(program, c), NamesKept(b, c)
    PROVE  FunctionPlaced(c, h)
  <1>1. /\ TextsKept(b, c) /\ SameFunctions(b, c) /\ SameRest(b, c)
        /\ c.addr = b.addr /\ c.globals = b.globals /\ SameLayout(b, c)
    BY NamesKeptAre
  <1>2. FileInv(program, flags, c, 1 .. item, {}, {}, {})
    BY <1>1, FileKept DEF FunctionPlaced
  <1>3. TextsKept(builder, c)
    BY <1>1, KeptTransitive DEF FunctionPlaced
  <1> QED BY <1>1, <1>2, <1>3 DEF FunctionPlaced, SameRest, SameFunctions

LEMMA HeaderIs ==
    ASSUME NEW b, NEW name \in Nat, NEW f, IsFunction(program, f, flags),
           b.name \in Nat, IsSeq(b.statements), item \in Nat
    PROVE  FunctionHeader(b, f, name) \in Headers
  <1>1. Len(b.statements) \in Nat /\ f.allocated \in Nat /\ f.builtin \in Nat /\ f.params \in Seq(Types)
    BY IsSeqLen DEF IsFunction
  <1>2. (IF f.builtin # 0 THEN -f.builtin ELSE Len(b.statements)) \in Int
    BY <1>1
  <1> DEFINE m == IF Len(f.params) > 8 THEN 8 ELSE Len(f.params)
             a == [j \in DOMAIN EightOf(f.params) |-> SizeOf(f.params[j])]
  <1>3. Len(f.params) \in Nat /\ m \in 0 .. Len(f.params) /\ m \in Nat /\ 1 \in 1 .. Len(f.params) + 1
    BY <1>1, LenProperties
  <1> HIDE DEF m
  <1>4. DOMAIN EightOf(f.params) = 1 .. m
    <2>1. SubSeq(f.params, 1, m) \in Seq(Types) /\ Len(SubSeq(f.params, 1, m)) = m
      <3>1. 1 <= m + 1 /\ \A i \in 1 .. m : i \in 1 .. Len(f.params)
        BY <1>3
      <3> QED BY <1>1, <1>3, <3>1, SubSeqProperties
    <2> QED BY <2>1, LenProperties DEF EightOf, m
  <1>5. a \in [1 .. m -> Nat]
    BY <1>4, Sizes
  <1> HIDE DEF a
  <1>6. a \in Seq(Nat)
    BY <1>3, <1>5, MapIsSeq, Zenon
  <1> QED BY <1>1, <1>2, <1>6 DEF FunctionHeader, Headers, a
-----------------------------------------------------------------------------
LEMMA GenerateFunctionDoes ==
    ASSUME LayoutInv, GenerateFunction
    PROVE  \E h \in Headers :
              /\ FunctionPlaced(builder', h)
              /\ RoomOK(program, builder', 1 .. item)
              /\ h.of = item
              /\ FunctionOf(item).builtin # 0 => h.entry = -FunctionOf(item).builtin
              /\ PushesDef(This) /\ ~IsLiteral(This) =>
                    /\ ReadsAs(builder'.strings.chars, h.name, This.name)
                    /\ HasDefsIn(builder', Len(builder.globals), This.name, This.type)
  <1> DEFINE f     == FunctionOf(item)
             named == Named(builder, This)
             w     == PushWords(named, Value(item), <<Len(builder.functions)>>)
             b     == FileString(w, f.file)
             h     == FunctionHeader(b, f, named.name)
             g     == [b EXCEPT !.functions = Append(@, h),
                                !.def = With(@, item, Len(b.functions) + 1),
                                !.name = named.name]
             d     == WithDefs(g, This, Len(builder.globals))
             c     == CountAreas(d, This)
  <1>1. AtGlobal /\ HasFunction(This)
    BY DEF GenerateFunction
  <1>2. /\ Typed(program, builder) /\ This.name \in Texts /\ Len(builder.globals) \in Nat
        /\ IsProgram(program, flags) /\ item \in Nat /\ item \in DOMAIN builder.values
        /\ FileInv(program, flags, builder, 1 .. item - 1, {}, {}, {})
        /\ RoomOK(program, builder, 1 .. item - 1)
        /\ DOMAIN builder.values = 1 .. Len(builder.values) /\ Len(builder.values) \in Nat
    BY <1>1, GlobalStart
  <1>3. FunctionIn(program, builder, item) = f /\ IsFunction(program, f, flags)
    <2>1. HasFunction(builder.values[item])
      BY <1>1 DEF This
    <2> QED BY <2>1, <1>2, FunctionsAre DEF FunctionOf, FunctionIn
  <1>4. f.file \in Texts
    BY <1>3 DEF IsFunction
  <1> HIDE DEF f
  <1>5. item \notin DOMAIN builder.def
    BY <1>2 DEF FileInv, HeadersOK
  <1>6. /\ Typed(program, named) /\ NamesKept(builder, named)
        /\ PushesDef(This) /\ ~IsLiteral(This) => NameReads(named, This.name)
    BY <1>2, NamedNames
  <1>7. named.name \in Nat
    BY <1>6 DEF Typed
  <1> HIDE DEF named
  <1>8. <<Len(builder.functions)>> \in Seq(Int) /\ Len(<<Len(builder.functions)>>) = SizeOf(This.type)
    <2>1. SizeOf(This.type) = 1
      BY <1>1 DEF SizeOf, HasFunction
    <2>2. Len(builder.functions) \in Nat
      BY <1>2, LenProperties DEF Typed
    <2> QED BY <2>1, <2>2
  <1>9. /\ Placing(w, <<Len(builder.functions)>>)
        /\ SameFunctions(builder, w) /\ SameRest(builder, w)
        /\ w.strings = named.strings /\ w.name = named.name
    BY <1>1, <1>6, <1>8, PlaceAfterNames
  <1>10. Typed(program, w)
    BY <1>9 DEF Placing, FileInv
  <1> HIDE DEF w
  <1>11. Typed(program, b) /\ NamesKept(w, b)
    BY <1>4, <1>10, FileStringNames
  <1> HIDE DEF b
  <1>12. Placing(b, <<Len(builder.functions)>>) /\ SameFunctions(w, b) /\ SameRest(w, b)
    BY <1>9, <1>11, PlacingKept
  <1>13. SameFunctions(builder, b) /\ SameRest(builder, b)
    BY <1>9, <1>12, KeptTransitive
  <1>14. h \in Headers
    <2>1. b.name \in Nat /\ IsSeq(b.statements)
      BY <1>11 DEF Typed
    <2> QED BY <2>1, <1>2, <1>3, <1>7, HeaderIs
  <1>15. /\ h.of = item /\ h.locals = f.allocated /\ h.name = named.name
         /\ f.builtin # 0 => h.entry = -f.builtin
    BY DEF FunctionHeader
  <1> HIDE DEF h
  <1>16. /\ FileInv(program, flags, b, 1 .. item, {}, {}, {}) /\ item \in DOMAIN b.values
         /\ HasFunction(b.values[item]) /\ item \notin DOMAIN b.def
         /\ FunctionIn(program, b, item) = f
    BY <1>1, <1>2, <1>3, <1>5, <1>12, <1>13 DEF Placing, SameRest, SameFunctions, This, FunctionIn
  <1>31. /\ FileInv(program, flags, g, 1 .. item, {}, {}, {})
         /\ HasHeader(b, g, h, named.name)
    <2>1. h.locals = FunctionIn(program, b, item).allocated /\ h.of = item
      BY <1>15, <1>16
    <2> QED BY <2>1, <1>2, <1>7, <1>14, <1>16, HeaderAdded, Zenon
  <1>17. /\ FileInv(program, flags, g, 1 .. item, {}, {}, {})
         /\ g.functions = Append(b.functions, h)
         /\ g.def = With(b.def, item, Len(b.functions) + 1)
         /\ g.statements = b.statements /\ g.addr = b.addr /\ g.globals = b.globals
         /\ g.strings = b.strings /\ g.name = named.name /\ g.defs = b.defs /\ g.fields = b.fields
         /\ g.values = b.values /\ g.fieldaddr = b.fieldaddr /\ g.constfloats = b.constfloats
         /\ g.maxtemps = b.maxtemps /\ g.maxlocals = b.maxlocals /\ g.extparams = b.extparams
    BY <1>31 DEF HasHeader
  <1> HIDE DEF g
  <1>18. FunctionPlaced(g, h)
    <2>1. TextsKept(builder, g)
      BY <1>12, <1>17 DEF Placing, TextsKept
    <2> QED BY <2>1, <1>12, <1>13, <1>17 DEF FunctionPlaced, Placing, SameFunctions, SameRest
  <1>19. PushesDef(This) /\ ~IsLiteral(This) => NameReads(g, This.name)
    <2>1. Keeps(named.strings.chars, b.strings.chars)
      BY <1>9, <1>11 DEF NamesKept
    <2> QED BY <2>1, <1>2, <1>6, <1>7, <1>17 DEF NameReads, Keeps
  <1>20. /\ Typed(program, d) /\ NamesKept(g, d)
         /\ PushesDef(This) /\ ~IsLiteral(This) =>
               HasDefsIn(d, Len(builder.globals), This.name, This.type)
    <2>1. Typed(program, g)
      BY <1>17 DEF FileInv
    <2> QED BY <2>1, <1>2, <1>19, WithDefsNames
  <1> HIDE DEF d
  <1>21. FunctionPlaced(d, h)
    BY <1>18, <1>20, FunctionPlacedKept
  <1>22. /\ d.values = builder.values /\ RoomOK(program, d, 1 .. item - 1) /\ Keeps(g.strings.chars, d.strings.chars)
    <2>1. RoomSame(builder, d)
      BY <1>13, <1>17, <1>20 DEF SameRest, RoomSame, NamesKept, SameLayout
    <2>2. RoomOK(program, d, 1 .. item - 1)
      BY <2>1, <1>2, RoomKept
    <2> QED BY <2>1, <2>2, <1>20 DEF RoomSame, NamesKept
  <1>23. FileInv(program, flags, d, 1 .. item, {}, {}, {}) /\ DOMAIN d = BuilderFields
    BY <1>20, <1>21 DEF FunctionPlaced, Typed
  <1>24. c = CountAreas(d, d.values[item])
    BY <1>22 DEF This
  <1> HIDE DEF c
  <1>25. /\ FileInv(program, flags, c, 1 .. item, {}, {}, {}) /\ Kept(d, c)
         /\ RoomOK(program, c, (1 .. item - 1) \cup {item})
    <2> DEFINE e == CountAreas(d, d.values[item])
    <2>1. item \in DOMAIN d.values /\ 1 .. item - 1 \subseteq DOMAIN d.values
      BY <1>2, <1>22
    <2>2. /\ FileInv(program, flags, e, 1 .. item, {}, {}, {}) /\ Kept(d, e)
          /\ RoomOK(program, e, (1 .. item - 1) \cup {item})
      BY <2>1, <1>2, <1>22, <1>23, CountAreasRoom, Zenon
    <2> QED BY <2>2, <1>24
  <1>26. /\ SameFunctions(d, c) /\ TextsKept(d, c) /\ c.strings = d.strings
         /\ c.values = d.values /\ c.fieldaddr = d.fieldaddr /\ c.constfloats = d.constfloats
         /\ c.extparams = d.extparams /\ c.addr = d.addr /\ c.globals = d.globals
         /\ c.defs = d.defs
    BY <1>23, <1>24, CountAreasRest
  <1>27. FunctionPlaced(c, h)
    <2>1. TextsKept(builder, c)
      BY <1>21, <1>26, KeptTransitive DEF FunctionPlaced
    <2> QED BY <2>1, <1>21, <1>25, <1>26 DEF FunctionPlaced, SameFunctions
  <1>28. RoomOK(program, c, 1 .. item)
    <2>1. (1 .. item - 1) \cup {item} = 1 .. item
      BY <1>2
    <2> QED BY <2>1, <1>25
  <1>29. PushesDef(This) /\ ~IsLiteral(This) =>
            /\ ReadsAs(c.strings.chars, h.name, This.name)
            /\ HasDefsIn(c, Len(builder.globals), This.name, This.type)
    <2>1. ASSUME PushesDef(This), ~IsLiteral(This)
          PROVE  ReadsAs(c.strings.chars, h.name, This.name)
      <3>1. ReadsAs(g.strings.chars, named.name, This.name)
        BY <2>1, <1>17, <1>19 DEF NameReads
      <3> QED BY <3>1, <1>2, <1>7, <1>15, <1>22, <1>26 DEF Keeps
    <2>2. ASSUME PushesDef(This), ~IsLiteral(This)
          PROVE  HasDefsIn(c, Len(builder.globals), This.name, This.type)
      BY <2>2, <1>20, <1>26 DEF HasDefsIn, HasDefIn
    <2> QED BY <2>1, <2>2
  <1>30. builder' = c
    <2>1. Len(b.functions) = Len(builder.functions)
      BY <1>13 DEF SameFunctions
    <2>2. builder' = CountAreas(WithDefs([b EXCEPT !.functions = Append(@, h),
                                 !.def = With(@, item, Len(builder.functions) + 1),
                                 !.name = named.name], This, Len(builder.globals)), This)
      BY DEF GenerateFunction, NextItem, h, b, w, named, f
    <2> QED BY <2>1, <2>2 DEF c, d, g
  <1> QED BY <1>14, <1>15, <1>27, <1>28, <1>29, <1>30 DEF f

(* The loop over the values keeps the layout.                              *)
PlacedGlobal ==
    /\ FileInv(program, flags, builder', 1 .. item, {}, {}, {})
    /\ RoomOK(program, builder', 1 .. item) /\ Kept(builder, builder')

LEMMA PlacedMore ==
    ASSUME LayoutInv, AtGlobal, NEW words, Placing(builder', words), ~HasFunction(This),
           SameFunctions(builder, builder'), SameRest(builder, builder')
    PROVE  PlacedGlobal
  <1>1. RoomOK(program, builder, 1 .. item - 1) /\ item \in Nat
    BY GlobalStart
  <1>2. RoomOK(program, builder', 1 .. item)
    BY <1>1, RoomMore DEF This
  <1>3. Kept(builder, builder')
    BY DEF SameFunctions, SameRest, Kept
  <1> QED BY <1>2, <1>3 DEF PlacedGlobal, Placing

LEMMA GlobalKeeps ==
    ASSUME LayoutInv,
           \/ GenerateWordless \/ GenerateMerged \/ GenerateString \/ GenerateWords \/ GenerateFunction
    PROVE  LayoutInv'
  <1>1. AtGlobal /\ UNCHANGED <<program, flags, stage, nthcall, nthparm>> /\ item' = item + 1
    BY DEF GenerateWordless, GenerateMerged, GenerateString, GenerateWords, GenerateFunction, NextItem
  <1> SUFFICES PlacedGlobal
    BY <1>1, GlobalStep DEF PlacedGlobal
  <1>2. CASE GenerateWordless
    <2>1. Placing(builder', <<>>) /\ SameFunctions(builder, builder') /\ SameRest(builder, builder')
      BY <1>2, GenerateWordlessDoes
    <2>2. ~HasFunction(This)
      BY <1>2 DEF GenerateWordless, Wordless, HasFunction
    <2> QED BY <1>1, <2>1, <2>2, PlacedMore
  <1>3. CASE GenerateMerged
    <2>1. /\ FileInv(program, flags, builder', 1 .. item, {}, {}, {})
          /\ MergedInto(builder, builder', item, builder.reusable[This.value])
      BY <1>3, GenerateMergedDoes
    <2>2. ~HasFunction(This)
      BY <1>3 DEF GenerateMerged, Merged, Mergeable, HasFunction
    <2>3. SameFunctions(builder, builder') /\ SameRest(builder, builder')
      BY <2>1, SameButPlacesAre DEF MergedInto
    <2>4. RoomOK(program, builder, 1 .. item - 1) /\ item \in Nat
      BY <1>1, GlobalStart
    <2>5. RoomOK(program, builder', 1 .. item)
      BY <2>2, <2>3, <2>4, RoomMore DEF This
    <2> QED BY <2>1, <2>3, <2>5 DEF PlacedGlobal, SameFunctions, SameRest, Kept
  <1>4. CASE GenerateString
    <2>1. PICK at \in Nat : /\ Placing(builder', <<at>>)
                            /\ SameFunctions(builder, builder') /\ SameRest(builder, builder')
      BY <1>4, GenerateStringDoes
    <2>2. ~HasFunction(This)
      BY <1>4 DEF GenerateString, HasFunction
    <2> QED BY <1>1, <2>1, <2>2, PlacedMore
  <1>5. CASE GenerateWords
    <2>1. /\ Placing(builder', StartWords(builder, This))
          /\ SameFunctions(builder, builder') /\ SameRest(builder, builder')
      BY <1>5, GenerateWordsDoes
    <2>2. ~HasFunction(This)
      BY <1>5 DEF GenerateWords
    <2> QED BY <1>1, <2>1, <2>2, PlacedMore
  <1>6. CASE GenerateFunction
    <2>1. PICK h \in Headers : FunctionPlaced(builder', h) /\ RoomOK(program, builder', 1 .. item)
      BY <1>6, GenerateFunctionDoes
    <2>2. Kept(builder, builder')
      BY <2>1 DEF FunctionPlaced, Kept, With
    <2> QED BY <2>1, <2>2 DEF PlacedGlobal, FunctionPlaced
  <1> QED BY <1>2, <1>3, <1>4, <1>5, <1>6
-----------------------------------------------------------------------------
(***************************************************************************)
(* Before anything has words.                                              *)
(***************************************************************************)
Early(p, b) ==
    /\ Typed(p, b) /\ FloatsOK(b) /\ b.addr = <<>> /\ b.reusable = <<>> /\ DOMAIN b.def = {}
    /\ ReservedWords <= Len(b.globals) /\ 1 <= Len(b.functions)
EarlyStage == stage \in {"collect", "split", "prepare"}

LEMMA EarlyFile ==
    ASSUME NEW p, NEW fs, NEW b, Early(p, b)
    PROVE  FileInv(p, fs, b, {}, {}, {}, {}) /\ RoomOK(p, b, {})
  <1>1. DOMAIN b.addr = {} /\ DOMAIN b.reusable = {}
    BY DEF Early
  <1>2. PlacesIn(b) = {}
    BY <1>1 DEF PlacesIn
  <1>3. Apart(p, b) /\ ReusableOK(b) /\ LaidOK(p, fs, b, {}) /\ SlotsOK(p, fs, b)
    BY <1>1, <1>2 DEF Early, Apart, ReusableOK, LaidOK, Laid, SlotsOK
  <1>4. KnownPlaces(p, b, {}, {}, {}, {}) /\ HeadersOK(p, b, {}) /\ RoomOK(p, b, {})
    BY <1>1 DEF Early, KnownPlaces, HeadersOK, RoomOK
  <1> QED BY <1>3, <1>4 DEF Early, FileInv, Placed

LEMMA EarlyStart ==
    ASSUME LayoutInv, EarlyStage
    PROVE  /\ Early(program, builder) /\ StageOK /\ IsProgram(program, flags)
           /\ DOMAIN builder.values = 1 .. Len(builder.values) /\ Len(builder.values) \in Nat
           /\ item \in Nat /\ item >= 1
  <1>1. ValuesDone = {} /\ FieldsDone = {} /\ AreaPlacesDone = {} /\ CodeDone = {}
    BY DEF EarlyStage, ValuesDone, FieldsDone, AreaPlacesDone, AreasDone, CodeDone, CodeStages
  <1>2. FileInv(program, flags, builder, {}, {}, {}, {}) /\ StageOK
    BY <1>1 DEF LayoutInv
  <1>3. Early(program, builder)
    BY <1>2 DEF EarlyStage, StageOK, FileInv, Placed, Apart, HeadersOK, Early
  <1>4. DOMAIN builder.values = 1 .. Len(builder.values) /\ Len(builder.values) \in Nat
    BY <1>3, IsSeqLen DEF Early, Typed, ValuesOK
  <1>5. IsProgram(program, flags)
    BY <1>2, ProgramIs
  <1>6. item \in Nat /\ item >= 1
    BY <1>2 DEF StageOK
  <1> QED BY <1>2, <1>3, <1>4, <1>5, <1>6

LEMMA EarlyStep ==
    ASSUME EarlyStage', Early(program', builder'), StageOK'
    PROVE  LayoutInv'
  <1>1. ValuesDone' = {} /\ FieldsDone' = {} /\ AreaPlacesDone' = {} /\ CodeDone' = {} /\ AreasDone' = FALSE
    BY DEF EarlyStage, ValuesDone, FieldsDone, AreaPlacesDone, AreasDone, CodeDone, CodeStages
  <1>2. FileInv(program', flags', builder', {}, {}, {}, {}) /\ RoomOK(program', builder', {})
    BY EarlyFile, Zenon
  <1> QED BY <1>1, <1>2 DEF LayoutInv

LEMMA ProgramSeqs ==
    ASSUME NEW p, NEW fs, IsProgram(p, fs)
    PROVE  /\ IsSeq(p.values) /\ IsSeq(p.fields)
           /\ Len(p.values) \in Nat /\ DOMAIN p.values = 1 .. Len(p.values)
           /\ Len(p.fields) \in Nat /\ DOMAIN p.fields = 1 .. Len(p.fields)
           /\ \A k \in DOMAIN p.values : IsValue(p, p.values[k]) /\ p.values[k].parts = <<>>
           /\ \A j \in DOMAIN p.fields : /\ p.fields[j].name \in Texts
                                         /\ p.fields[j].type \in Types \ {"vfield", "nil"}
  <1>1. p.values \in Seq(ToSet(p.values))
    BY DEF IsProgram
  <1>2. PICK S : p.fields \in Seq(S) /\ S = [name : Texts \ {<<>>}, type : Types \ {"vfield", "nil"}]
    BY DEF IsProgram
  <1>3. IsSeq(p.values)
    BY <1>1 DEF IsSeq
  <1>4. Len(p.fields) \in Nat /\ DOMAIN p.fields = 1 .. Len(p.fields)
        /\ p.fields = [i \in 1 .. Len(p.fields) |-> p.fields[i]]
        /\ \A j \in 1 .. Len(p.fields) : p.fields[j] \in S
    BY <1>2, LenProperties
  <1>5. IsSeq(p.fields)
    BY <1>4, SeqIs, Zenon
  <1>6. \A k \in DOMAIN p.values : IsValue(p, p.values[k]) /\ p.values[k].parts = <<>>
    BY DEF IsProgram, ToSet
  <1> QED BY <1>2, <1>3, <1>4, <1>5, <1>6, IsSeqLen

LEMMA LayoutInit ==
    ASSUME WriterInit
    PROVE  LayoutInv
  <1>1. PICK c \in Compilations : program = c.program /\ flags = c.flags
    BY DEF WriterInit
  <1>2. IsProgram(program, flags)
    BY <1>1, WriterAssumption
  <1>3. builder = NewBuilder(program) /\ stage = "collect" /\ item = 1 /\ nthcall = 0 /\ nthparm = 0
    BY DEF WriterInit
  <1>4. ValuesOK(program, builder.values)
    <2>1. builder.values = program.values
      BY <1>3 DEF NewBuilder
    <2>2. <<>> \in Seq(Nat) /\ Len(<<>>) <= 3 /\ DOMAIN <<>> = {}
      OBVIOUS
    <2>3. /\ IsSeq(program.values)
          /\ \A k \in DOMAIN program.values :
                IsValue(program, program.values[k]) /\ program.values[k].parts = <<>>
      BY <1>2, ProgramSeqs, Zenon
    <2> QED BY <2>1, <2>2, <2>3 DEF ValuesOK, IsSplit
  <1>5. builder.globals \in Seq(Int) /\ Len(builder.globals) = ReservedWords
    <2>1. builder.globals = Zeros(28) /\ 28 \in Nat
      BY <1>3 DEF NewBuilder, ReservedWords
    <2>2. Zeros(28) \in Seq(Int) /\ Len(Zeros(28)) = 28
      BY <2>1, ZerosAre, Zenon
    <2> QED BY <2>1, <2>2 DEF ReservedWords
  <1>6. Typed(program, builder)
    <2>1. DOMAIN builder = BuilderFields
      BY <1>3 DEF NewBuilder, BuilderFields
    <2>2. /\ IsMap(builder.addr, PlaceNames, Nat) /\ IsMap(builder.reusable, Int, Nat)
          /\ IsMap(builder.def, Nat, Nat)
      BY <1>3 DEF NewBuilder, IsMap
    <2>3. builder.strings = EmptyTable /\ builder.name = 0 /\ builder.immediate = 0 /\ TableOK(EmptyTable)
      BY <1>3, EmptyTableOK DEF NewBuilder
    <2>4. builder.filenames \in Seq(Texts) /\ builder.fieldaddr \in Seq(Nat)
      BY <1>3 DEF NewBuilder
    <2>5. builder.defs \in Seq(Names) /\ builder.fields \in Seq(Names)
      <3>1. builder.defs = <<[name |-> 0, offset |-> 0]>> /\ builder.fields = <<[name |-> 0, offset |-> 0]>>
        BY <1>3 DEF NewBuilder
      <3>2. [name |-> 0, offset |-> 0] \in Names
        BY DEF Names
      <3> QED BY <3>1, <3>2
    <2>6. IsSeq(builder.statements)
      <3> DEFINE s == builder.statements
      <3>1. s = <<Statement("DONE", 0, 0, 0, 0)>>
        BY <1>3 DEF NewBuilder
      <3>2. s \in Seq({Statement("DONE", 0, 0, 0, 0)}) /\ Len(s) = 1
        BY <3>1
      <3>3. s = [i \in 1 .. 1 |-> s[i]] /\ 1 \in Nat
        BY <3>2, LenProperties
      <3> HIDE DEF s
      <3>4. IsSeq(s)
        BY <3>3, SeqIs, Zenon
      <3> QED BY <3>4 DEF s
    <2>7. builder.functions \in Seq(Headers)
      <3>1. EmptyFunction \in Headers
        BY DEF EmptyFunction, Headers
      <3>2. builder.functions = <<EmptyFunction>>
        BY <1>3 DEF NewBuilder
      <3> QED BY <3>1, <3>2
    <2>8. /\ builder.entfields \in Nat /\ builder.extparams \in Nat /\ builder.maxlocals \in Nat
          /\ builder.maxtemps \in Nat /\ builder.firsttemp \in Nat /\ builder.firstlocal \in Nat
      BY <1>3 DEF NewBuilder
    <2> QED BY <1>4, <1>5, <2>1, <2>2, <2>3, <2>4, <2>5, <2>6, <2>7, <2>8 DEF Typed
  <1>7. Early(program, builder)
    <2>1. FloatsOK(builder) /\ builder.addr = <<>> /\ builder.reusable = <<>> /\ DOMAIN builder.def = {}
      BY <1>3 DEF NewBuilder, FloatsOK
    <2>2. Len(builder.functions) = 1
      BY <1>3 DEF NewBuilder
    <2> QED BY <1>5, <1>6, <2>1, <2>2 DEF Early, ReservedWords
  <1>8. StageOK
    <2>1. Len(builder.values) = Len(program.values) /\ Len(program.values) \in Nat
      BY <1>2, <1>3, ProgramSeqs DEF NewBuilder
    <2>2. \A k \in DOMAIN builder.values : ~IsSplit(builder.values[k])
      BY <1>2, <1>3, ProgramSeqs DEF NewBuilder, IsSplit
    <2>3. Len(builder.fieldaddr) = 0 /\ builder.constfloats = {}
      BY <1>3 DEF NewBuilder
    <2>4. item \in 1 .. Items + 1
      BY <1>3, <2>1 DEF Items
    <2> QED BY <1>1, <1>3, <1>7, <2>1, <2>2, <2>3, <2>4 DEF StageOK, Early
  <1>9. FileInv(program, flags, builder, {}, {}, {}, {}) /\ RoomOK(program, builder, {})
    BY <1>7, EarlyFile, Zenon
  <1>10. ValuesDone = {} /\ FieldsDone = {} /\ AreaPlacesDone = {} /\ CodeDone = {} /\ AreasDone = FALSE
    BY <1>3 DEF ValuesDone, FieldsDone, AreaPlacesDone, AreasDone, CodeDone, CodeStages
  <1> QED BY <1>8, <1>9, <1>10 DEF LayoutInv
-----------------------------------------------------------------------------
LEMMA CollectKeeps ==
    ASSUME LayoutInv, CollectReusables
    PROVE  LayoutInv'
  <1>1. stage = "collect" /\ EarlyStage
    BY DEF CollectReusables, EarlyStage
  <1>2. /\ Early(program, builder) /\ StageOK /\ IsProgram(program, flags)
        /\ DOMAIN builder.values = 1 .. Len(builder.values) /\ Len(builder.values) \in Nat
    BY <1>1, EarlyStart
  <1> DEFINE floats == ConstFloats(builder.values)
  <1>3. /\ stage' \in {"prepare", "split"} /\ item' = 1
        /\ UNCHANGED <<program, flags, nthcall, nthparm>>
        /\ builder' = builder \/ builder' = [builder EXCEPT !.constfloats = floats]
    BY DEF CollectReusables, EnterStage
  <1>4. \A k \in floats : k \in DOMAIN builder.values /\ builder.values[k].type = "float"
                          /\ HasValue(builder.values[k])
    BY DEF ConstFloats
  <1> HIDE DEF floats
  <1>5. DOMAIN builder = BuilderFields
    BY <1>2 DEF Early, Typed
  <1>6. /\ DOMAIN builder' = BuilderFields
        /\ \/ builder'.constfloats = builder.constfloats
           \/ builder'.constfloats = floats
        /\ SameButValues(builder, builder') /\ builder'.values = builder.values
    BY <1>3, <1>5 DEF BuilderFields, SameButValues
  <1>7. FloatsOK(builder')
    BY <1>2, <1>4, <1>6 DEF FloatsOK, Early
  <1>8. Early(program', builder')
    BY <1>2, <1>3, <1>6, <1>7 DEF Early, Typed, SameButValues
  <1>9. StageOK'
    <2>1. Len(program.fields) \in Nat /\ Len(program.values) \in Nat
      BY <1>2, ProgramSeqs
    <2>2. item' \in 1 .. Items' + 1
      BY <1>3, <2>1, SMTT(30) DEF Items
    <2>3. /\ \A k \in DOMAIN builder.values : ~IsSplit(builder.values[k])
          /\ Len(builder.fieldaddr) = 0 /\ Len(program.values) <= Len(builder.values)
          /\ nthcall \in Nat /\ nthparm \in Nat
      BY <1>1, <1>2 DEF StageOK
    <2>4. \E c \in Compilations : program' = c.program /\ flags' = c.flags
      BY <1>2, <1>3 DEF StageOK
    <2>5. builder'.addr = <<>> /\ builder'.reusable = <<>>
      BY <1>8 DEF Early
    <2>6. builder'.values = builder.values /\ builder'.fieldaddr = builder.fieldaddr
      BY <1>6 DEF SameButValues
    <2>7. stage' = "prepare" => item' - 1 = 0
      BY <1>3
    <2>8. stage' # "collect" /\ stage' \notin CodeStages
      BY <1>3 DEF CodeStages
    <2> QED BY <1>3, <2>2, <2>3, <2>4, <2>5, <2>6, <2>7, <2>8 DEF StageOK, CodeStages
  <1> QED BY <1>3, <1>8, <1>9, EarlyStep DEF EarlyStage

LEMMA SplitVectorDoes ==
    ASSUME LayoutInv, SplitVector
    PROVE  /\ SplitOK(program, builder') /\ SameButValues(builder, builder')
           /\ Len(builder.values) <= Len(builder'.values)
           /\ \A k \in DOMAIN builder'.values :
                 IsSplit(builder'.values[k]) => Len(builder'.values[k].parts) = 3 /\ k < item + 1
  <1>1. /\ stage = "split" /\ EarlyStage /\ item <= Len(program.values)
        /\ stage' = "split" /\ item' = item + 1 /\ UNCHANGED <<program, flags, nthcall, nthparm>>
    BY DEF SplitVector, EarlyStage, Items, NextItem
  <1>2. /\ Early(program, builder) /\ StageOK /\ IsProgram(program, flags)
        /\ DOMAIN builder.values = 1 .. Len(builder.values) /\ Len(builder.values) \in Nat
        /\ item \in Nat /\ item >= 1
    BY <1>1, EarlyStart
  <1>3. /\ Len(program.values) \in Nat /\ Len(program.values) <= Len(builder.values)
        /\ item \in DOMAIN builder.values
    <2>1. Len(program.values) \in Nat /\ Len(program.values) <= Len(builder.values)
      BY <1>2, ProgramSeqs DEF StageOK
    <2> QED BY <2>1, <1>1, <1>2
  <1> DEFINE v == builder.values[item]
             x == AddPart(builder, item, v.value[1])
             y == AddPart(x, item, v.value[2])
             z == AddPart(y, item, v.value[3])
  <1>4. builder' = IF ~Splittable(v) THEN builder ELSE z
    BY DEF SplitVector, NextItem
  <1>5. SplitOK(program, builder)
    BY <1>2 DEF SplitOK, Early, Typed
  <1>6. \A k \in DOMAIN builder.values :
           IsSplit(builder.values[k]) => Len(builder.values[k].parts) = 3 /\ k < item
    BY <1>1, <1>2 DEF StageOK
  <1>7. /\ SplitOK(program, builder') /\ SameButValues(builder, builder')
        /\ Len(builder.values) <= Len(builder'.values)
        /\ \A k \in DOMAIN builder'.values :
              IsSplit(builder'.values[k]) => Len(builder'.values[k].parts) = 3 /\ k < item + 1
    <2>1. CASE ~Splittable(v)
      <3>1. \A k \in DOMAIN builder.values : IsSplit(builder.values[k]) => k < item + 1
        BY <1>2, <1>6
      <3> QED BY <2>1, <3>1, <1>2, <1>4, <1>5, <1>6 DEF SameButValues
    <2>2. CASE Splittable(v)
      <3>1. v.value \in [1 .. 3 -> Int] /\ v.parts = <<>>
        <4>1. IsValue(program, v) /\ HasValue(v)
          BY <2>2, <1>2, <1>3 DEF Early, Typed, ValuesOK, Splittable, IsValue
        <4>2. ~IsSplit(v)
          BY <1>2, <1>3, <1>6
        <4> QED BY <2>2, <4>1, <4>2 DEF IsValue, Starts, Splittable, IsSplit
      <3>2. v.value[1] \in Int /\ v.value[2] \in Int /\ v.value[3] \in Int /\ Len(v.parts) = 1 - 1
            /\ 1 \in 1 .. 3 /\ 2 \in 1 .. 3 /\ 3 \in 1 .. 3
        BY <3>1
      <3>3. PartAdded(program, builder, x, item, 1)
        BY <1>3, <1>5, <2>2, <3>2, AddPartAdds
      <3> HIDE DEF x
      <3>4. /\ SplitOK(program, x) /\ item \in DOMAIN x.values /\ Splittable(x.values[item])
            /\ Len(x.values[item].parts) = 2 - 1 /\ x.values[item].value = v.value
        BY <3>3, <1>3 DEF PartAdded
      <3>5. PartAdded(program, x, y, item, 2)
        <4>1. PartAdded(program, x, AddPart(x, item, x.values[item].value[2]), item, 2)
          BY <3>2, <3>4, AddPartAdds
        <4> QED BY <4>1, <3>4
      <3> HIDE DEF y
      <3>6. /\ SplitOK(program, y) /\ item \in DOMAIN y.values /\ Splittable(y.values[item])
            /\ Len(y.values[item].parts) = 3 - 1 /\ y.values[item].value = v.value
        BY <3>4, <3>5 DEF PartAdded
      <3>7. PartAdded(program, y, z, item, 3)
        <4>1. PartAdded(program, y, AddPart(y, item, y.values[item].value[3]), item, 3)
          BY <3>2, <3>6, AddPartAdds
        <4> QED BY <4>1, <3>6
      <3> HIDE DEF z, v
      <3>8. SplitOK(program, z) /\ SameButValues(builder, z)
        BY <3>3, <3>5, <3>7 DEF PartAdded, SameButValues
      <3>9. Len(builder.values) <= Len(z.values)
        <4>1. Len(x.values) \in Nat /\ Len(y.values) \in Nat /\ Len(z.values) \in Nat
          BY <3>4, <3>6, <3>8, IsSeqLen DEF SplitOK, ValuesOK
        <4> QED BY <4>1, <1>2, <3>3, <3>5, <3>7 DEF PartAdded
      <3>10. ASSUME NEW k \in DOMAIN z.values, IsSplit(z.values[k])
             PROVE  Len(z.values[k].parts) = 3 /\ k < item + 1
        <4>1. CASE k = item
          BY <4>1, <3>7, <1>2 DEF PartAdded
        <4>2. CASE k # item
          <5>1. k \in DOMAIN y.values /\ IsSplit(y.values[k]) /\ z.values[k].parts = y.values[k].parts
            BY <3>7, <3>10, <4>2 DEF PartAdded
          <5>2. k \in DOMAIN x.values /\ IsSplit(x.values[k]) /\ y.values[k].parts = x.values[k].parts
            BY <3>5, <4>2, <5>1 DEF PartAdded
          <5>3. /\ k \in DOMAIN builder.values /\ IsSplit(builder.values[k])
                /\ x.values[k].parts = builder.values[k].parts
            BY <3>3, <4>2, <5>2 DEF PartAdded
          <5>4. k \in Nat
            BY <5>3, <1>2
          <5> QED BY <5>1, <5>2, <5>3, <5>4, <1>2, <1>6
        <4> QED BY <4>1, <4>2
      <3> QED BY <2>2, <3>8, <3>9, <3>10, <1>4
    <2> QED BY <2>1, <2>2
  <1> QED BY <1>7

LEMMA SplitKeeps ==
    ASSUME LayoutInv, SplitVector
    PROVE  LayoutInv'
  <1>1. /\ stage = "split" /\ EarlyStage /\ item <= Len(program.values)
        /\ stage' = "split" /\ item' = item + 1 /\ UNCHANGED <<program, flags, nthcall, nthparm>>
    BY DEF SplitVector, EarlyStage, Items, NextItem
  <1>2. /\ Early(program, builder) /\ StageOK /\ IsProgram(program, flags)
        /\ DOMAIN builder.values = 1 .. Len(builder.values) /\ Len(builder.values) \in Nat
        /\ item \in Nat /\ item >= 1
    BY <1>1, EarlyStart
  <1>3. Len(program.values) \in Nat /\ Len(program.values) <= Len(builder.values)
    BY <1>2, ProgramSeqs DEF StageOK
  <1>7. /\ SplitOK(program, builder') /\ SameButValues(builder, builder')
        /\ Len(builder.values) <= Len(builder'.values)
        /\ \A k \in DOMAIN builder'.values :
              IsSplit(builder'.values[k]) => Len(builder'.values[k].parts) = 3 /\ k < item + 1
    BY SplitVectorDoes
  <1>8. Early(program', builder')
    BY <1>1, <1>2, <1>7 DEF Early, Typed, SplitOK, SameButValues
  <1>9. StageOK'
    <2>1. item' \in 1 .. Items' + 1
      BY <1>1, <1>2, <1>3 DEF Items
    <2>2. /\ Len(builder.fieldaddr) = 0 /\ nthcall \in Nat /\ nthparm \in Nat
          /\ \E c \in Compilations : program = c.program /\ flags = c.flags
      BY <1>1, <1>2 DEF StageOK
    <2>3. builder'.addr = <<>> /\ builder'.reusable = <<>> /\ builder'.fieldaddr = builder.fieldaddr
      BY <1>7, <1>8 DEF Early, SameButValues
    <2>4. Len(program.values) <= Len(builder'.values)
      <3>1. Len(builder'.values) \in Nat
        BY <1>8, IsSeqLen DEF Early, Typed, ValuesOK
      <3> QED BY <3>1, <1>2, <1>3, <1>7
    <2> QED BY <1>1, <1>7, <2>1, <2>2, <2>3, <2>4 DEF StageOK, CodeStages
  <1> QED BY <1>1, <1>8, <1>9, EarlyStep DEF EarlyStage

LEMMA PrepareKeeps ==
    ASSUME LayoutInv, PrepareField
    PROVE  LayoutInv'
  <1>1. /\ stage = "prepare" /\ EarlyStage /\ item <= Len(program.fields)
        /\ stage' = "prepare" /\ item' = item + 1 /\ UNCHANGED <<program, flags, nthcall, nthparm>>
    BY DEF PrepareField, EarlyStage, Items, NextItem
  <1>2. /\ Early(program, builder) /\ StageOK /\ IsProgram(program, flags)
        /\ item \in Nat /\ item >= 1
    BY <1>1, EarlyStart
  <1> DEFINE size == SizeOf(program.fields[item].type)
  <1>3. size \in Nat
    BY DEF SizeOf
  <1>4. builder' = [builder EXCEPT !.fieldaddr = Append(@, builder.entfields),
                                   !.entfields = @ + size]
    BY DEF PrepareField, NextItem
  <1> HIDE DEF size
  <1>5. /\ DOMAIN builder = BuilderFields /\ builder.entfields \in Nat /\ builder.fieldaddr \in Seq(Nat)
    BY <1>2 DEF Early, Typed
  <1>6. /\ DOMAIN builder' = DOMAIN builder
        /\ builder'.values = builder.values /\ builder'.constfloats = builder.constfloats
        /\ builder'.reusable = builder.reusable /\ builder'.addr = builder.addr
        /\ builder'.globals = builder.globals
        /\ builder'.strings = builder.strings /\ builder'.name = builder.name
        /\ builder'.immediate = builder.immediate
        /\ builder'.filenames = builder.filenames /\ builder'.defs = builder.defs
        /\ builder'.fields = builder.fields /\ builder'.functions = builder.functions
        /\ builder'.def = builder.def /\ builder'.statements = builder.statements
        /\ builder'.extparams = builder.extparams
        /\ builder'.maxlocals = builder.maxlocals /\ builder'.maxtemps = builder.maxtemps
        /\ builder'.firsttemp = builder.firsttemp /\ builder'.firstlocal = builder.firstlocal
        /\ builder'.entfields = builder.entfields + size
        /\ builder'.fieldaddr = Append(builder.fieldaddr, builder.entfields)
    BY <1>4, <1>5 DEF BuilderFields
  <1>7. builder'.entfields \in Nat
    BY <1>3, <1>5, <1>6
  <1>8. builder'.fieldaddr \in Seq(Nat) /\ Len(builder'.fieldaddr) = Len(builder.fieldaddr) + 1
    BY <1>5, <1>6, AppendAdds
  <1>9. Typed(program, builder')
    BY <1>2, <1>6, <1>7, <1>8 DEF Typed, Early
  <1>10. Early(program', builder')
    <2>1. FloatsOK(builder')
      BY <1>2, <1>6 DEF Early, FloatsOK
    <2> QED BY <1>1, <1>2, <1>6, <1>9, <2>1 DEF Early
  <1>11. StageOK'
    <2>1. Len(program.fields) \in Nat
      BY <1>2, ProgramSeqs
    <2>2. item' \in 1 .. Items' + 1
      BY <1>1, <1>2, <2>1 DEF Items
    <2>3. /\ Len(builder.fieldaddr) = item - 1 /\ nthcall \in Nat /\ nthparm \in Nat
          /\ \E c \in Compilations : program = c.program /\ flags = c.flags
          /\ Len(program.values) <= Len(builder.values)
          /\ \A k \in DOMAIN builder.values :
                IsSplit(builder.values[k]) => Len(builder.values[k].parts) = 3
      BY <1>1, <1>2 DEF StageOK
    <2>4. Len(builder'.fieldaddr) = item' - 1
      BY <1>1, <1>2, <1>8, <2>3
    <2>5. builder'.addr = <<>> /\ builder'.reusable = <<>>
      BY <1>10 DEF Early
    <2> QED BY <1>1, <1>6, <2>2, <2>3, <2>4, <2>5 DEF StageOK, CodeStages
  <1> QED BY <1>1, <1>10, <1>11, EarlyStep DEF EarlyStage

LEMMA LoopDoes ==
    ASSUME LayoutInv, LoopDone
    PROVE  /\ UNCHANGED <<program, flags, nthcall, nthparm, builder>> /\ item' = 1 /\ item > Items
           /\ \/ stage = "split" /\ stage' = "prepare"
              \/ stage = "prepare" /\ stage' = "globals"
              \/ stage = "globals" /\ stage' = "fields"
           /\ ValuesDone' = ValuesDone /\ FieldsDone' = FieldsDone /\ CodeDone' = CodeDone
           /\ AreaPlacesDone' = AreaPlacesDone /\ AreasDone' = FALSE
  <1>1. /\ UNCHANGED <<program, flags, nthcall, nthparm, builder>> /\ item' = 1 /\ item > Items
        /\ \/ stage = "split" /\ stage' = "prepare"
           \/ stage = "prepare" /\ stage' = "globals"
           \/ stage = "globals" /\ stage' = "fields"
    BY DEF LoopDone, EnterStage
  <1>2. StageOK /\ item \in 1 .. Items + 1
    BY DEF LayoutInv, StageOK
  <1>3. IsProgram(program, flags)
    BY <1>2, ProgramIs
  <1>4. Len(program.fields) \in Nat /\ Len(program.values) \in Nat
    BY <1>3, ProgramSeqs
  <1>5. Len(builder.values) \in Nat /\ DOMAIN builder.values = 1 .. Len(builder.values)
    BY IsSeqLen DEF LayoutInv, FileInv, Typed, ValuesOK
  <1>6. stage = "globals" => item - 1 = Len(builder.values)
    BY <1>1, <1>2, <1>5 DEF Items
  <1>7. stage = "prepare" => Len(builder.fieldaddr) = Len(program.fields)
    BY <1>1, <1>2, <1>4 DEF Items, StageOK
  <1>8. /\ ValuesDone' = ValuesDone /\ FieldsDone' = FieldsDone /\ AreaPlacesDone' = AreaPlacesDone
        /\ CodeDone' = CodeDone /\ AreasDone' = FALSE
    <2>1. CASE stage = "globals" /\ stage' = "fields"
      <3>1. ValuesDone = 1 .. item - 1 /\ ValuesDone' = DOMAIN builder.values
        BY <2>1, <1>1, SMTT(30) DEF ValuesDone, CodeStages
      <3>2. 1 .. item' - 1 = {}
        BY <1>1
      <3> QED BY <2>1, <3>1, <3>2, <1>5, <1>6, SMTT(30) DEF FieldsDone, AreaPlacesDone, AreasDone, CodeDone, CodeStages
    <2>2. CASE stage = "prepare" /\ stage' = "globals"
      <3>1. 1 .. item' - 1 = {}
        BY <1>1
      <3> QED BY <2>2, <3>1, SMTT(30) DEF ValuesDone, FieldsDone, AreaPlacesDone, AreasDone, CodeDone, CodeStages
    <2>3. CASE stage = "split" /\ stage' = "prepare"
      BY <2>3, SMTT(30) DEF ValuesDone, FieldsDone, AreaPlacesDone, AreasDone, CodeDone, CodeStages
    <2> QED BY <1>1, <2>1, <2>2, <2>3
  <1> QED BY <1>1, <1>8

LEMMA LoopKeeps ==
    ASSUME LayoutInv, LoopDone
    PROVE  LayoutInv'
  <1>1. /\ UNCHANGED <<program, flags, nthcall, nthparm, builder>> /\ item' = 1 /\ item > Items
        /\ \/ stage = "split" /\ stage' = "prepare"
           \/ stage = "prepare" /\ stage' = "globals"
           \/ stage = "globals" /\ stage' = "fields"
    BY DEF LoopDone, EnterStage
  <1>2. StageOK /\ item \in 1 .. Items + 1
    BY DEF LayoutInv, StageOK
  <1>3. IsProgram(program, flags)
    BY <1>2, ProgramIs
  <1>4. Len(program.fields) \in Nat /\ Len(program.values) \in Nat
    BY <1>3, ProgramSeqs
  <1>5. Len(builder.values) \in Nat /\ DOMAIN builder.values = 1 .. Len(builder.values)
    BY IsSeqLen DEF LayoutInv, FileInv, Typed, ValuesOK
  <1>6. stage = "globals" => item - 1 = Len(builder.values)
    BY <1>1, <1>2, <1>5 DEF Items
  <1>7. stage = "prepare" => Len(builder.fieldaddr) = Len(program.fields)
    BY <1>1, <1>2, <1>4 DEF Items, StageOK
  <1>8. /\ ValuesDone' = ValuesDone /\ FieldsDone' = FieldsDone /\ AreaPlacesDone' = AreaPlacesDone
        /\ CodeDone' = CodeDone /\ AreasDone' = FALSE
    BY LoopDoes
  <1>9. StageOK'
    <2>1. item' \in 1 .. Items' + 1
      BY <1>1, <1>4, <1>5, SMTT(30) DEF Items
    <2>2. CASE stage = "split" /\ stage' = "prepare"
      BY <2>1, <2>2, <1>1, <1>2 DEF StageOK, CodeStages
    <2>3. CASE stage = "prepare" /\ stage' = "globals"
      BY <2>1, <2>3, <1>1, <1>2, <1>7 DEF StageOK, CodeStages
    <2>4. CASE stage = "globals" /\ stage' = "fields"
      BY <2>1, <2>4, <1>1, <1>2 DEF StageOK, CodeStages
    <2> QED BY <1>1, <2>2, <2>3, <2>4
  <1>10. /\ FileInv(program', flags', builder', ValuesDone', FieldsDone', AreaPlacesDone', CodeDone')
         /\ RoomOK(program', builder', ValuesDone')
    BY <1>1, <1>8 DEF LayoutInv
  <1> QED BY <1>8, <1>9, <1>10 DEF LayoutInv
-----------------------------------------------------------------------------
(***************************************************************************)
(* The loop over the fields, and the areas behind all that has a place.    *)
(***************************************************************************)
LEMMA FieldStart ==
    ASSUME LayoutInv, stage = "fields"
    PROVE  /\ IsProgram(program, flags) /\ StageOK
           /\ FileInv(program, flags, builder, DOMAIN builder.values, 1 .. item - 1, {}, {})
           /\ RoomOK(program, builder, DOMAIN builder.values)
           /\ Typed(program, builder) /\ Len(builder.globals) \in Nat
           /\ item \in Nat /\ item >= 1
           /\ Len(program.fields) \in Nat /\ DOMAIN program.fields = 1 .. Len(program.fields)
           /\ Len(builder.fieldaddr) = Len(program.fields) /\ builder.fieldaddr \in Seq(Nat)
           /\ \A j \in DOMAIN program.fields : /\ program.fields[j].name \in Texts
                                               /\ program.fields[j].type \in Types \ {"vfield", "nil"}
  <1>1. StageOK /\ IsProgram(program, flags)
    BY ProgramIs DEF LayoutInv
  <1>2. /\ FileInv(program, flags, builder, DOMAIN builder.values, 1 .. item - 1, {}, {})
        /\ RoomOK(program, builder, DOMAIN builder.values)
    <2>1. ValuesDone = DOMAIN builder.values /\ FieldsDone = 1 .. item - 1 /\ AreaPlacesDone = {}
          /\ CodeDone = {}
      BY DEF ValuesDone, FieldsDone, AreasDone, AreaPlacesDone, CodeDone, CodeStages
    <2> QED BY <2>1 DEF LayoutInv
  <1>3. Typed(program, builder)
    BY <1>2 DEF FileInv
  <1>4. Len(builder.globals) \in Nat /\ builder.fieldaddr \in Seq(Nat)
    BY <1>3, LenProperties DEF Typed
  <1>5. item \in Nat /\ item >= 1 /\ Len(builder.fieldaddr) = Len(program.fields)
    BY <1>1 DEF StageOK
  <1>6. /\ Len(program.fields) \in Nat /\ DOMAIN program.fields = 1 .. Len(program.fields)
        /\ \A j \in DOMAIN program.fields : /\ program.fields[j].name \in Texts
                                            /\ program.fields[j].type \in Types \ {"vfield", "nil"}
    BY <1>1, ProgramSeqs
  <1> QED BY <1>1, <1>2, <1>3, <1>4, <1>5, <1>6

(* A name behind a dot reads as itself.                                    *)
LEMMA TailReads ==
    ASSUME NEW cs, NEW n, cs \in Seq(Nat), NEW at \in Nat, NEW text \in Texts, NEW x \in Nat \ {0},
           ReadsAs(cs, at, <<x>> \o text)
    PROVE  ReadsAs(cs, at + 1, text)
  <1> DEFINE h == <<x>>
             t == h \o text
             L == Len(text)
  <1>1. h \in Seq(Nat \ {0}) /\ Len(h) = 1 /\ text \in Seq(Nat \ {0})
    BY DEF Texts
  <1> HIDE DEF h
  <1>2. Len(t) = Len(h) + L /\ \A i \in 1 .. L : t[Len(h) + i] = text[i]
    <2> DEFINE S == Nat \ {0}
    <2>1. h \in Seq(S) /\ text \in Seq(S)
      BY <1>1
    <2> HIDE DEF S
    <2>2. /\ Len(h \o text) = Len(h) + Len(text)
          /\ \A i \in 1 .. Len(text) : (h \o text)[Len(h) + i] = text[i]
      BY <2>1, ConcatIs
    <2> QED BY <2>2
  <1>3. L \in Nat /\ Len(t) = L + 1 /\ \A i \in 1 .. L : t[1 + i] = text[i]
    BY <1>1, <1>2, LenProperties
  <1>4. ReadsAs(cs, at, t)
    BY DEF h
  <1> HIDE DEF t, L
  <1>5. /\ at + (L + 1) + 1 \in DOMAIN cs /\ SubSeq(cs, at + 1, at + (L + 1)) = t
        /\ cs[at + (L + 1) + 1] = 0
    BY <1>3, <1>4 DEF ReadsAs
  <1>6. at + L + 2 \in 1 .. Len(cs) /\ Len(cs) \in Nat /\ DOMAIN cs = 1 .. Len(cs)
    BY <1>3, <1>5, LenProperties
  <1>7. \A i \in 1 .. L + 1 : SubSeq(cs, at + 1, at + (L + 1))[i] = cs[at + i]
    <2> DEFINE m == at + 1
               e == at + (L + 1)
    <2>1. m \in 1 .. Len(cs) + 1 /\ e \in m - 1 .. Len(cs)
      BY <1>3, <1>6
    <2>2. \A i \in 1 .. e - m + 1 : SubSeq(cs, m, e)[i] = cs[m + i - 1]
      BY <2>1, SubSeqProperties
    <2>3. e - m + 1 = L + 1 /\ \A i \in 1 .. L + 1 : m + i - 1 = at + i
      BY <1>3
    <2> QED BY <2>2, <2>3
  <1>8. \A i \in 1 .. L : cs[at + 1 + i] = text[i]
    <2> SUFFICES ASSUME NEW i \in 1 .. L PROVE cs[at + 1 + i] = text[i]
      OBVIOUS
    <2>1. 1 + i \in 1 .. L + 1 /\ at + (1 + i) = at + 1 + i
      BY <1>3
    <2>2. cs[at + (1 + i)] = t[1 + i]
      BY <2>1, <1>5, <1>7
    <2> QED BY <2>1, <2>2, <1>3
  <1> DEFINE s == SubSeq(cs, at + 1 + 1, at + 1 + L)
  <1>9. s = text
    <2> DEFINE m == at + 1 + 1
               e == at + 1 + L
    <2>1. m \in 1 .. Len(cs) + 1 /\ e \in m - 1 .. Len(cs)
      BY <1>3, <1>6
    <2>2. /\ SubSeq(cs, m, e) \in Seq(Nat) /\ Len(SubSeq(cs, m, e)) = e - m + 1
          /\ \A i \in 1 .. e - m + 1 : SubSeq(cs, m, e)[i] = cs[m + i - 1]
      BY <2>1, SubSeqProperties
    <2>3. e - m + 1 = L /\ \A i \in 1 .. L : m + i - 1 = at + 1 + i
      BY <1>3
    <2>4. s \in Seq(Nat) /\ Len(s) = L /\ \A i \in 1 .. L : s[i] = text[i]
      BY <2>2, <2>3, <1>8
    <2>5. text \in Seq(Nat) /\ Len(text) = L
      BY <1>1 DEF L
    <2> HIDE DEF s, L
    <2>6. Len(s) = Len(text) /\ \A i \in 1 .. Len(s) : s[i] = text[i]
      BY <2>4, <2>5
    <2> QED BY <2>4, <2>5, <2>6, SeqEqual, Zenon
  <1>10. at + 1 + L + 1 \in DOMAIN cs /\ cs[at + 1 + L + 1] = 0
    <2>1. at + 1 + L + 1 = at + (L + 1) + 1
      BY <1>3
    <2> QED BY <2>1, <1>5
  <1> QED BY <1>9, <1>10 DEF ReadsAs, L

LEMMA FieldNamedNames ==
    ASSUME NEW p, NEW b, Typed(p, b), NEW field, field.name \in Texts
    PROVE  LET g == FieldNamed(b, field)
           IN /\ Typed(p, g) /\ NamesKept(b, g) /\ NameReads(g, FieldText(field))
              /\ FieldText(field) \in Texts /\ FieldName(g) \in Nat
              /\ ReadsAs(g.strings.chars, FieldName(g), field.name)
  <1>1. FieldText(field) \in Texts
    <2>1. <<DOT>> \in Texts
      BY DEF Texts, DOT
    <2>2. <<DOT>> \o field.name \in Texts
      BY <2>1, ConcatProperties DEF Texts
    <2> QED BY <2>2 DEF FieldText
  <1> DEFINE g == FieldNamed(b, field)
  <1>2. g = GenName(b, FieldText(field))
    BY DEF FieldNamed, FieldText
  <1> HIDE DEF g
  <1>3. Typed(p, g) /\ NamesKept(b, g) /\ NameReads(g, FieldText(field))
    BY <1>1, <1>2, GenNameNames
  <1>4. g.name \in Nat /\ g.strings.chars \in Seq(Nat)
    BY <1>3 DEF Typed, TableOK, Tables
  <1>5. FieldName(g) \in Nat
    BY <1>4 DEF FieldName
  <1>6. ReadsAs(g.strings.chars, FieldName(g), field.name)
    <2>1. CASE Flag("gmqcc")
      <3>1. ReadsAs(g.strings.chars, g.name, <<DOT>> \o field.name)
        BY <1>3, <2>1 DEF NameReads, FieldText
      <3>2. DOT \in Nat \ {0}
        BY DEF DOT
      <3>3. ReadsAs(g.strings.chars, g.name + 1, field.name)
        BY <1>4, <3>1, <3>2, TailReads
      <3> QED BY <2>1, <3>3 DEF FieldName
    <2>2. CASE ~Flag("gmqcc")
      BY <2>2, <1>3 DEF NameReads, FieldText, FieldName
    <2> QED BY <2>1, <2>2
  <1> QED BY <1>1, <1>3, <1>5, <1>6 DEF g
-----------------------------------------------------------------------------
(* A field has its words, and what names it.                               *)
GenFieldStep ==
    LET field == program.fields[item]
    IN /\ FileInv(program, flags, builder', DOMAIN builder.values, 1 .. item, {}, {})
       /\ RoomOK(program, builder', DOMAIN builder.values)
       /\ TextsKept(builder, builder') /\ SameFunctions(builder, builder') /\ SameRest(builder, builder')
       /\ builder'.addr = With(builder.addr, FieldGlobal(item), Len(builder.globals))
       /\ builder'.globals = builder.globals \o From(builder.fieldaddr[item], SizeOf(field.type))
       /\ HasDefIn(builder', Len(builder.globals), FieldText(field))
       /\ HasFieldIn(builder', builder.fieldaddr[item], field.name)

LEMMA GenFieldDoes ==
    ASSUME LayoutInv, GenField
    PROVE  GenFieldStep
  <1> DEFINE field == program.fields[item]
             at    == Len(builder.globals)
             ofs   == builder.fieldaddr[item]
             words == From(ofs, SizeOf(field.type))
             named == FieldNamed(builder, field)
             d     == PushDef(named, at)
             b     == PushField(d, FieldName(named), ofs)
             v     == FieldGlobal(item)
             w     == PushWords(b, v, words)
             x     == VectorDefs(w, field.name, at)
             y     == VectorFields(x, field.name, ofs)
  <1>1. stage = "fields" /\ item <= Len(program.fields)
    BY DEF GenField, Items
  <1>2. /\ IsProgram(program, flags)
        /\ FileInv(program, flags, builder, DOMAIN builder.values, 1 .. item - 1, {}, {})
        /\ RoomOK(program, builder, DOMAIN builder.values)
        /\ Typed(program, builder) /\ at \in Nat /\ item \in Nat /\ item >= 1
        /\ Len(program.fields) \in Nat /\ DOMAIN program.fields = 1 .. Len(program.fields)
        /\ Len(builder.fieldaddr) = Len(program.fields) /\ builder.fieldaddr \in Seq(Nat)
        /\ \A j \in DOMAIN program.fields : /\ program.fields[j].name \in Texts
                                            /\ program.fields[j].type \in Types \ {"vfield", "nil"}
    BY <1>1, FieldStart
  <1>3. /\ field.name \in Texts /\ field.type \in Types \ {"vfield", "nil"} /\ ofs \in Nat
        /\ item \in 1 .. item
    <2>1. item \in 1 .. Len(program.fields) /\ item \in 1 .. Len(builder.fieldaddr)
      BY <1>1, <1>2
    <2> QED BY <2>1, <1>2, ElementOfSeq
  <1>4. words \in Seq(Int) /\ Len(words) = SizeOf(field.type)
    <2>1. SizeOf(field.type) \in Nat /\ ofs \in Int
      BY <1>3 DEF SizeOf
    <2> QED BY <2>1, FromAre, Zenon
  <1> HIDE DEF words
  <1>5. /\ Typed(program, named) /\ NamesKept(builder, named) /\ NameReads(named, FieldText(field))
        /\ FieldText(field) \in Texts /\ FieldName(named) \in Nat
        /\ ReadsAs(named.strings.chars, FieldName(named), field.name)
    BY <1>2, <1>3, FieldNamedNames
  <1> HIDE DEF named, at, ofs
  <1>6. /\ Typed(program, d) /\ NamesKept(named, d) /\ d.strings = named.strings
        /\ HasDefIn(d, at, FieldText(field))
    <2>1. /\ Typed(program, d) /\ NamesKept(named, d) /\ d.strings = named.strings
          /\ [name |-> named.name, offset |-> at] \in ToSet(d.defs)
      BY <1>2, <1>5, PushDefNames
    <2> HIDE DEF d
    <2> QED BY <2>1, <1>5 DEF HasDefIn, NameReads
  <1> HIDE DEF d
  <1>7. /\ Typed(program, b) /\ NamesKept(d, b) /\ HasFieldIn(b, ofs, field.name)
    <2>1. /\ Typed(program, b) /\ NamesKept(d, b) /\ b.strings = d.strings
          /\ [name |-> FieldName(named), offset |-> ofs] \in ToSet(b.fields)
      BY <1>3, <1>5, <1>6, PushFieldNames
    <2> HIDE DEF b
    <2> QED BY <2>1, <1>5, <1>6 DEF HasFieldIn
  <1>8. HasDefIn(b, at, FieldText(field)) /\ NamesKept(builder, b)
    <2>1. NamesKept(builder, d)
      BY <1>5, <1>6, NamesKeptTransitive
    <2>2. NamesKept(builder, b)
      BY <1>7, <2>1, NamesKeptTransitive
    <2> QED BY <2>2, <1>5, <1>6, <1>7, DefsKept
  <1> HIDE DEF b
  <1>9. /\ TextsKept(builder, b) /\ SameFunctions(builder, b) /\ SameRest(builder, b)
        /\ b.addr = builder.addr /\ b.globals = builder.globals /\ SameLayout(builder, b)
    BY <1>8, NamesKeptAre
  <1>10. /\ FileInv(program, flags, b, DOMAIN builder.values, 1 .. item - 1, {}, {})
         /\ RoomOK(program, b, DOMAIN builder.values)
    BY <1>2, <1>7, <1>9, FileKept, ZenonT(60)
  <1>11. PlaceOf(program, b, v, words)
    <2>1. v[1] = "field" /\ v[2] = item
      BY DEF FieldGlobal
    <2>2. v \in PlaceNames
      BY <1>2 DEF PlaceNames
    <2>3. v \notin DOMAIN b.addr
      <3>1. \A u \in DOMAIN builder.addr : \/ \E k : u = Value(k)
                                           \/ \E j \in 1 .. item - 1 : u = FieldGlobal(j)
                                           \/ \E j : u = ExtParam(j)
        BY <1>2 DEF FileInv, KnownPlaces
      <3>2. \A j \in 1 .. item - 1 : j # item
        BY <1>2
      <3> QED BY <3>1, <3>2, <1>9 DEF Value, ExtParam, FieldGlobal
    <2>4. SizeOf(TypeIn(program, b, v)) = SizeOf(field.type)
      BY <2>1, <1>3 DEF TypeIn, SizeOf, Types
    <2> QED BY <2>1, <2>2, <2>3, <2>4, <1>4 DEF PlaceOf
  <1>12. /\ FileInv(program, flags, w, DOMAIN builder.values, 1 .. item, {}, {})
         /\ PlacedBehind(b, w, v, words) /\ AreasKept(program, b, w)
    <2>1. NameOf(b, v, DOMAIN builder.values, 1 .. item - 1, DOMAIN builder.values, 1 .. item, {})
      <3>1. 1 .. item - 1 \subseteq 1 .. item
        BY <1>2
      <3> QED BY <3>1, <1>3 DEF NameOf, NamedBy
    <2> QED BY <2>1, <1>2, <1>10, <1>11, FileNewPlace, Zenon
  <1> HIDE DEF w, v
  <1>13. /\ TextsKept(b, w) /\ SameFunctions(b, w) /\ SameRest(b, w)
         /\ w.strings = b.strings /\ w.defs = b.defs /\ w.fields = b.fields
    BY <1>12, SameButPlacesAre DEF PlacedBehind, SameButPlaces
  <1>14. RoomOK(program, w, DOMAIN builder.values)
    BY <1>10, <1>12 DEF AreasKept
  <1>15. HasDefIn(w, at, FieldText(field)) /\ HasFieldIn(w, ofs, field.name)
    BY <1>7, <1>8, <1>13 DEF HasDefIn, HasFieldIn
  <1>16. Typed(program, w)
    BY <1>12 DEF FileInv
  <1>17. /\ Typed(program, builder') /\ NamesKept(w, builder')
    <2>1. builder' = IF field.type # "vector" THEN w ELSE y
      BY DEF GenField, NextItem, y, x, w, b, d, named, words, at, ofs, v
    <2>2. CASE field.type # "vector"
      BY <2>1, <2>2, <1>16, NamesKeptReflexive
    <2>3. CASE field.type = "vector"
      <3>1. Typed(program, x) /\ NamesKept(w, x)
        BY <1>2, <1>3, <1>16, VectorDefsNames
      <3> HIDE DEF x
      <3>2. Typed(program, y) /\ NamesKept(x, y)
        BY <1>3, <3>1, VectorFieldsNames
      <3> HIDE DEF y
      <3> QED BY <2>1, <2>3, <3>1, <3>2, NamesKeptTransitive
    <2> QED BY <2>2, <2>3
  <1>18. /\ TextsKept(w, builder') /\ SameFunctions(w, builder') /\ SameRest(w, builder')
         /\ builder'.addr = w.addr /\ builder'.globals = w.globals /\ SameLayout(w, builder')
    BY <1>17, NamesKeptAre
  <1>19. /\ FileInv(program, flags, builder', DOMAIN builder.values, 1 .. item, {}, {})
         /\ RoomOK(program, builder', DOMAIN builder.values)
    BY <1>12, <1>14, <1>17, <1>18, FileKept, Zenon
  <1>20. HasDefIn(builder', at, FieldText(field)) /\ HasFieldIn(builder', ofs, field.name)
    BY <1>3, <1>5, <1>15, <1>16, <1>17, DefsKept
  <1>21. TextsKept(builder, w) /\ SameFunctions(builder, w) /\ SameRest(builder, w)
    BY <1>9, <1>13, KeptTransitive
  <1>22. TextsKept(builder, builder') /\ SameFunctions(builder, builder') /\ SameRest(builder, builder')
    BY <1>18, <1>21, KeptTransitive
  <1>23. builder'.addr = With(builder.addr, v, at) /\ builder'.globals = builder.globals \o words
    BY <1>9, <1>12, <1>18 DEF PlacedBehind, at
  <1> QED BY <1>19, <1>20, <1>22, <1>23 DEF GenFieldStep, words, at, ofs, v

LEMMA FieldKeeps ==
    ASSUME LayoutInv, GenField
    PROVE  LayoutInv'
  <1>1. /\ stage = "fields" /\ item <= Len(program.fields) /\ stage' = "fields" /\ item' = item + 1
        /\ UNCHANGED <<program, flags, nthcall, nthparm>>
    BY DEF GenField, NextItem, Items
  <1>2. StageOK /\ item \in Nat /\ item >= 1 /\ Len(program.fields) \in Nat
    BY <1>1, FieldStart
  <1>3. GenFieldStep
    BY GenFieldDoes
  <1>4. builder'.values = builder.values /\ builder'.fieldaddr = builder.fieldaddr
    BY <1>3 DEF GenFieldStep, SameRest
  <1>5. /\ ValuesDone' = DOMAIN builder.values /\ FieldsDone' = 1 .. item /\ AreaPlacesDone' = {}
        /\ CodeDone' = {} /\ AreasDone' = FALSE
    BY <1>1, <1>2, <1>4, SMTT(30)
       DEF ValuesDone, FieldsDone, AreasDone, AreaPlacesDone, CodeDone, CodeStages
  <1>6. StageOK'
    <2>1. item' \in 1 .. Items' + 1
      BY <1>1, <1>2 DEF Items
    <2> QED BY <2>1, <1>1, <1>2, <1>4 DEF StageOK, CodeStages
  <1> QED BY <1>1, <1>3, <1>5, <1>6 DEF LayoutInv, GenFieldStep
-----------------------------------------------------------------------------
(***************************************************************************)
(* nil, the temporaries of the virtual instructions, and the two areas.    *)
(***************************************************************************)
(* What has words keeps them, and what they start with.                    *)
WordsKept(b, c) ==
    /\ \A v \in DOMAIN b.addr : v \in DOMAIN c.addr /\ c.addr[v] = b.addr[v]
    /\ Len(b.globals) <= Len(c.globals)
    /\ \A i \in 1 .. Len(b.globals) : c.globals[i] = b.globals[i]

LEMMA WordsKeptTransitive ==
    ASSUME NEW b, NEW c, NEW d, WordsKept(b, c), WordsKept(c, d),
           Len(b.globals) \in Nat, Len(c.globals) \in Nat, Len(d.globals) \in Nat
    PROVE  WordsKept(b, d)
  BY DEF WordsKept

LEMMA WordsKeptConcat ==
    ASSUME NEW b, NEW c, b.globals \in Seq(Int), NEW words \in Seq(Int),
           c.globals = b.globals \o words,
           \A v \in DOMAIN b.addr : v \in DOMAIN c.addr /\ c.addr[v] = b.addr[v]
    PROVE  WordsKept(b, c)
  <1>1. /\ Len(c.globals) = Len(b.globals) + Len(words)
        /\ \A i \in 1 .. Len(b.globals) : c.globals[i] = b.globals[i]
    BY ConcatIs
  <1>2. Len(b.globals) \in Nat /\ Len(words) \in Nat
    BY LenProperties
  <1> QED BY <1>1, <1>2 DEF WordsKept

LEMMA HasWordsKept ==
    ASSUME NEW b, NEW c, NEW v, NEW words \in Seq(Int), PlacedBehind(b, c, v, words),
           b.globals \in Seq(Int), v \notin DOMAIN b.addr
    PROVE  WordsKept(b, c)
  <1>1. \A u \in DOMAIN b.addr : u \in DOMAIN c.addr /\ c.addr[u] = b.addr[u]
    BY DEF PlacedBehind, With
  <1>2. c.globals = b.globals \o words
    BY DEF PlacedBehind
  <1> QED BY <1>1, <1>2, WordsKeptConcat

(* One of the places that the builder itself has.                          *)
NewAreaPlace(p, fs, b, c, v, vd, fd) ==
    /\ FileInv(p, fs, c, vd, fd, AreaPlaces, {})
    /\ RoomOK(p, c, vd) /\ SameButPlaces(b, c) /\ WordsKept(b, c)
    /\ DOMAIN c.addr = DOMAIN b.addr \cup {v} /\ Len(c.globals) = Len(b.globals) + 3

LEMMA AreaPlaceAdded ==
    ASSUME NEW p, NEW fs, NEW b, NEW vd, NEW fd, IsProgram(p, fs),
           FileInv(p, fs, b, vd, fd, AreaPlaces, {}), RoomOK(p, b, vd),
           NEW v \in AreaPlaces, v \notin DOMAIN b.addr
    PROVE  NewAreaPlace(p, fs, b, PushWords(b, v, Zeros(3)), v, vd, fd)
  <1> DEFINE words == Zeros(3)
             c == PushWords(b, v, words)
  <1>1. words \in Seq(Int) /\ Len(words) = 3
    <2>1. 3 \in Nat
      OBVIOUS
    <2> QED BY <2>1, ZerosAre, Zenon
  <1> HIDE DEF words
  <1>2. PlaceOf(p, b, v, words)
    <2>1. v[1] \in {"nil", "vinstr"} /\ v \in PlaceNames
      BY DEF AreaPlaces, Nil, VinstrTemp, PlaceNames
    <2>2. SizeOf(TypeIn(p, b, v)) = 3
      BY <2>1 DEF TypeIn, SizeOf
    <2> QED BY <1>1, <2>1, <2>2 DEF PlaceOf
  <1>3. NameOf(b, v, vd, fd, vd, fd, AreaPlaces)
    BY DEF NameOf, NamedBy
  <1>4. FileInv(p, fs, c, vd, fd, AreaPlaces, {}) /\ PlacedBehind(b, c, v, words) /\ AreasKept(p, b, c)
    BY <1>2, <1>3, FileNewPlace, Zenon
  <1> HIDE DEF c
  <1>5. b.globals \in Seq(Int)
    BY DEF FileInv, Typed
  <1>6. WordsKept(b, c)
    BY <1>1, <1>4, <1>5, HasWordsKept
  <1>7. Len(c.globals) = Len(b.globals) + 3
    <2>1. c.globals = b.globals \o words
      BY <1>4 DEF PlacedBehind
    <2>2. Len(b.globals \o words) = Len(b.globals) + Len(words)
      BY <1>1, <1>5, ConcatProperties
    <2> QED BY <2>1, <2>2, <1>1
  <1> QED BY <1>4, <1>6, <1>7 DEF NewAreaPlace, AreasKept, PlacedBehind, c, words

(* The areas lie behind all that has a place.                              *)
AreasAddedTo(p, fs, b, c, vd, fd) ==
    /\ FileInv(p, fs, c, vd, fd, AreaPlaces, {})
    /\ RoomOK(p, c, vd) /\ AreaOK(p, c) /\ WordsKept(b, c)
    /\ TextsKept(b, c) /\ SameFunctions(b, c) /\ SameRest(b, c) /\ c.addr = b.addr

LEMMA AreasAdded ==
    ASSUME NEW p, NEW fs, NEW b, NEW vd, NEW fd,
           FileInv(p, fs, b, vd, fd, AreaPlaces, {}), RoomOK(p, b, vd)
    PROVE  AreasAddedTo(p, fs, b,
                        [b EXCEPT !.firsttemp = Len(b.globals),
                                  !.firstlocal = Len(b.globals) + b.maxtemps,
                                  !.globals = @ \o Zeros(b.maxtemps + b.maxlocals)], vd, fd)
  <1> DEFINE L == Len(b.globals)
             words == Zeros(b.maxtemps + b.maxlocals)
             c == [b EXCEPT !.firsttemp = L, !.firstlocal = L + b.maxtemps,
                            !.globals = @ \o words]
  <1>1. /\ Typed(p, b) /\ FloatsOK(b) /\ KnownPlaces(p, b, vd, fd, AreaPlaces, {})
        /\ Apart(p, b) /\ ReusableOK(b) /\ SlotsOK(p, fs, b) /\ HeadersOK(p, b, vd)
    BY DEF FileInv, Placed
  <1>2. DOMAIN b = BuilderFields /\ b.maxtemps \in Nat /\ b.maxlocals \in Nat /\ b.globals \in Seq(Int)
    BY <1>1 DEF Typed
  <1>3. L \in Nat /\ b.maxtemps + b.maxlocals \in Nat
    BY <1>2, LenProperties
  <1>4. words \in Seq(Int) /\ Len(words) = b.maxtemps + b.maxlocals
    <2> DEFINE n == b.maxtemps + b.maxlocals
    <2>1. n \in Nat
      BY <1>3
    <2> HIDE DEF n
    <2>2. Zeros(n) \in Seq(Int) /\ Len(Zeros(n)) = n
      BY <2>1, ZerosAre, Zenon
    <2> QED BY <2>2 DEF n
  <1> HIDE DEF words
  <1>5. /\ DOMAIN c = DOMAIN b /\ c.values = b.values /\ c.constfloats = b.constfloats
        /\ c.addr = b.addr /\ c.reusable = b.reusable /\ c.functions = b.functions
        /\ c.def = b.def /\ c.fieldaddr = b.fieldaddr /\ c.strings = b.strings
        /\ c.name = b.name /\ c.immediate = b.immediate /\ c.filenames = b.filenames
        /\ c.defs = b.defs /\ c.fields = b.fields /\ c.entfields = b.entfields
        /\ c.statements = b.statements /\ c.extparams = b.extparams
        /\ c.maxtemps = b.maxtemps /\ c.maxlocals = b.maxlocals
        /\ c.firsttemp = L /\ c.firstlocal = L + b.maxtemps
        /\ c.globals = b.globals \o words
    BY <1>2 DEF BuilderFields
  <1> HIDE DEF c
  <1>6. c.globals \in Seq(Int) /\ Len(c.globals) = L + Len(words)
    <2>1. b.globals \o words \in Seq(Int) /\ Len(b.globals \o words) = Len(b.globals) + Len(words)
      BY <1>2, <1>4, ConcatIs
    <2> QED BY <2>1, <1>5
  <1>7. Len(c.globals) = L + (b.maxtemps + b.maxlocals)
    BY <1>4, <1>6
  <1> DEFINE G == Len(c.globals)
  <1> HIDE DEF L
  <1>8. c.firsttemp \in Nat /\ c.firstlocal \in Nat
    BY <1>2, <1>3, <1>5
  <1>9. Typed(p, c)
    BY <1>1, <1>5, <1>6, <1>8 DEF Typed
  <1>10. /\ PlacesIn(c) = PlacesIn(b)
         /\ \A u : WordsIn(p, c, u) = WordsIn(p, b, u)
         /\ \A u, w : SameConstantIn(c, u, w) <=> SameConstantIn(b, u, w)
         /\ \A m : FunctionIn(p, c, m) = FunctionIn(p, b, m)
    BY <1>5 DEF PlacesIn, WordsIn, TypeIn, SameConstantIn, FunctionIn
  <1>11. \A u \in PlacesIn(c) : WordsIn(p, c, u) \subseteq ReservedWords .. L - 1
    BY <1>1, <1>10 DEF Apart, L
  <1>12. ReservedWords <= L /\ L <= G
    BY <1>1, <1>2, <1>3, <1>7 DEF Apart, L
  <1>13. ReservedWords <= G /\ ReservedWords .. L - 1 \subseteq ReservedWords .. G - 1
    BY <1>2, <1>3, <1>7, <1>12 DEF ReservedWords
  <1> HIDE DEF G
  <1>14. Apart(p, c)
    <2>1. \A u \in PlacesIn(c) : WordsIn(p, c, u) \subseteq ReservedWords .. G - 1
      BY <1>11, <1>13
    <2>2. \A v, w \in PlacesIn(c) :
            v = w \/ WordsIn(p, c, v) \cap WordsIn(p, c, w) = {} \/ SameConstantIn(c, v, w)
      BY <1>1, <1>10 DEF Apart
    <2> QED BY <1>13, <2>1, <2>2 DEF Apart, G
  <1>15. FloatsOK(c) /\ ReusableOK(c) /\ HeadersOK(p, c, vd) /\ RoomOK(p, c, vd)
    BY <1>1, <1>5, <1>10 DEF FloatsOK, ReusableOK, HeadersOK, RoomOK
  <1>16. KnownPlaces(p, c, vd, fd, AreaPlaces, {})
    BY <1>1, <1>5 DEF KnownPlaces
  <1>17. LaidOK(p, fs, c, {}) /\ SlotsOK(p, fs, c)
    <2>1. \A u \in DOMAIN c.addr : u[1] \notin {"local", "temp"}
      BY <1>16 DEF KnownPlaces, Value, ExtParam, FieldGlobal, AreaPlaces, Nil, VinstrTemp
    <2> QED BY <2>1 DEF LaidOK, Laid, SlotsOK
  <1>18. FileInv(p, fs, c, vd, fd, AreaPlaces, {})
    BY <1>9, <1>14, <1>15, <1>16, <1>17 DEF FileInv, Placed
  <1>19. AreaOK(p, c)
    <2>1. AreaWords(c) = L .. G - 1
      <3>1. G = L + (b.maxtemps + b.maxlocals)
        BY <1>7 DEF G
      <3>2. L + b.maxtemps + b.maxlocals - 1 = G - 1
        <4>1. G \in Nat
          BY <1>6, LenProperties DEF G
        <4> QED BY <4>1, <1>2, <1>3, <3>1, SMTT(30)
      <3>3. AreaWords(c) = L .. L + b.maxtemps + b.maxlocals - 1
        BY <1>5 DEF AreaWords
      <3> QED BY <3>2, <3>3
    <2>2. \A u \in PlacesIn(c) : WordsIn(p, c, u) \cap AreaWords(c) = {}
      BY <1>3, <1>11, <2>1 DEF ReservedWords
    <2>3. c.firstlocal + c.maxlocals <= Len(c.globals)
      BY <1>2, <1>3, <1>5, <1>7
    <2> QED BY <1>5, <1>12, <2>2, <2>3 DEF AreaOK
  <1>20. WordsKept(b, c)
    BY <1>2, <1>4, <1>5, WordsKeptConcat
  <1>21. TextsKept(b, c) /\ SameFunctions(b, c) /\ SameRest(b, c)
    BY <1>5 DEF TextsKept, SameFunctions, SameRest, Keeps
  <1> QED BY <1>5, <1>15, <1>18, <1>19, <1>20, <1>21 DEF AreasAddedTo, c, L, words

LEMMA AreasDoes ==
    ASSUME LayoutInv, Areas
    PROVE  /\ FileInv(program, flags, builder', DOMAIN builder.values, DOMAIN program.fields,
                      AreaPlaces, {})
           /\ RoomOK(program, builder', DOMAIN builder.values) /\ AreaOK(program, builder')
           /\ WordsKept(builder, builder') /\ TextsKept(builder, builder')
           /\ SameFunctions(builder, builder') /\ SameRest(builder, builder')
           /\ DOMAIN builder'.addr = DOMAIN builder.addr \cup AreaPlaces
           /\ Len(builder.globals) < Len(builder'.globals)
  <1> DEFINE x == PushWords(builder, Nil, Zeros(3))
             y == PushWords(x, VinstrTemp(1), Zeros(3))
             z == PushWords(y, VinstrTemp(2), Zeros(3))
             c == [z EXCEPT !.firsttemp = Len(z.globals),
                            !.firstlocal = Len(z.globals) + z.maxtemps,
                            !.globals = @ \o Zeros(z.maxtemps + z.maxlocals)]
             vd == DOMAIN builder.values
             fd == DOMAIN program.fields
  <1>1. stage = "fields" /\ item > Len(program.fields)
    BY DEF Areas, Items
  <1>2. /\ IsProgram(program, flags) /\ StageOK
        /\ FileInv(program, flags, builder, DOMAIN builder.values, 1 .. item - 1, {}, {})
        /\ RoomOK(program, builder, DOMAIN builder.values)
        /\ item \in Nat
        /\ Len(program.fields) \in Nat /\ DOMAIN program.fields = 1 .. Len(program.fields)
    BY <1>1, FieldStart
  <1>3. 1 .. item - 1 = fd
    <2>1. item \in 1 .. Len(program.fields) + 1
      BY <1>1, <1>2 DEF StageOK, Items
    <2> QED BY <2>1, <1>1, <1>2
  <1>4. FileInv(program, flags, builder, vd, fd, AreaPlaces, {})
    <2>1. KnownPlaces(program, builder, vd, fd, {}, {})
      BY <1>2, <1>3 DEF FileInv
    <2>2. KnownPlaces(program, builder, vd, fd, AreaPlaces, {})
      BY <2>1 DEF KnownPlaces
    <2> QED BY <1>2, <2>2 DEF FileInv
  <1>5. \A v \in AreaPlaces : v \notin DOMAIN builder.addr
    <2>1. KnownPlaces(program, builder, vd, fd, {}, {})
      BY <1>2, <1>3 DEF FileInv
    <2> QED BY <2>1 DEF KnownPlaces, Value, ExtParam, FieldGlobal, AreaPlaces, Nil, VinstrTemp
  <1>6. /\ Nil \in AreaPlaces /\ VinstrTemp(1) \in AreaPlaces /\ VinstrTemp(2) \in AreaPlaces
        /\ Nil # VinstrTemp(1) /\ Nil # VinstrTemp(2) /\ VinstrTemp(1) # VinstrTemp(2)
    BY DEF AreaPlaces, Nil, VinstrTemp
  <1> HIDE DEF vd, fd
  <1>7. NewAreaPlace(program, flags, builder, x, Nil, vd, fd)
    <2>1. RoomOK(program, builder, vd) /\ Nil \notin DOMAIN builder.addr
      BY <1>2, <1>5, <1>6 DEF vd
    <2> QED BY <2>1, <1>2, <1>4, <1>6, AreaPlaceAdded, Zenon
  <1> HIDE DEF x
  <1>8. NewAreaPlace(program, flags, x, y, VinstrTemp(1), vd, fd)
    <2>1. /\ RoomOK(program, x, vd) /\ VinstrTemp(1) \notin DOMAIN x.addr
          /\ FileInv(program, flags, x, vd, fd, AreaPlaces, {})
      BY <1>5, <1>6, <1>7 DEF NewAreaPlace
    <2> QED BY <2>1, <1>2, <1>6, AreaPlaceAdded, Zenon
  <1> HIDE DEF y
  <1>9. NewAreaPlace(program, flags, y, z, VinstrTemp(2), vd, fd)
    <2>1. /\ RoomOK(program, y, vd) /\ VinstrTemp(2) \notin DOMAIN y.addr
          /\ FileInv(program, flags, y, vd, fd, AreaPlaces, {})
      BY <1>5, <1>6, <1>7, <1>8 DEF NewAreaPlace
    <2> QED BY <2>1, <1>2, <1>6, AreaPlaceAdded, Zenon
  <1> HIDE DEF z
  <1>10. FileInv(program, flags, z, vd, fd, AreaPlaces, {}) /\ RoomOK(program, z, vd)
    BY <1>9 DEF NewAreaPlace
  <1>11. AreasAddedTo(program, flags, z, c, vd, fd)
    BY <1>10, AreasAdded
  <1>12. builder' = c
    <2>1. z.maxtemps = builder.maxtemps /\ z.maxlocals = builder.maxlocals
      BY <1>7, <1>8, <1>9 DEF NewAreaPlace, SameButPlaces
    <2>2. builder' = [z EXCEPT !.firsttemp = Len(z.globals),
                               !.firstlocal = Len(z.globals) + builder.maxtemps,
                               !.globals = @ \o Zeros(builder.maxtemps + builder.maxlocals)]
      BY DEF Areas, EnterStage, z, y, x, IR_MAX_VINSTR_TEMPS
    <2> QED BY <2>1, <2>2
  <1> HIDE DEF c
  <1>13. /\ WordsKept(builder, x) /\ WordsKept(x, y) /\ WordsKept(y, z) /\ WordsKept(z, c)
    BY <1>7, <1>8, <1>9, <1>11 DEF NewAreaPlace, AreasAddedTo
  <1>14. /\ Len(builder.globals) \in Nat /\ Len(x.globals) \in Nat /\ Len(y.globals) \in Nat
         /\ Len(z.globals) \in Nat /\ Len(c.globals) \in Nat
    <2>1. /\ builder.globals \in Seq(Int) /\ x.globals \in Seq(Int) /\ y.globals \in Seq(Int)
          /\ z.globals \in Seq(Int) /\ c.globals \in Seq(Int)
      BY <1>4, <1>7, <1>8, <1>9, <1>11 DEF NewAreaPlace, AreasAddedTo, FileInv, Typed
    <2> QED BY <2>1, LenProperties
  <1>15. WordsKept(builder, c)
    <2>1. WordsKept(builder, y)
      BY <1>13, <1>14, WordsKeptTransitive
    <2>2. WordsKept(builder, z)
      BY <2>1, <1>13, <1>14, WordsKeptTransitive
    <2> QED BY <2>2, <1>13, <1>14, WordsKeptTransitive
  <1>16. TextsKept(builder, c) /\ SameFunctions(builder, c) /\ SameRest(builder, c)
    <2>1. TextsKept(builder, z) /\ SameFunctions(builder, z) /\ SameRest(builder, z)
      <3>1. SameButPlaces(builder, z)
        BY <1>7, <1>8, <1>9 DEF NewAreaPlace, SameButPlaces
      <3> QED BY <3>1, SameButPlacesAre
    <2> QED BY <2>1, <1>11, KeptTransitive DEF AreasAddedTo
  <1>17. DOMAIN c.addr = DOMAIN builder.addr \cup AreaPlaces
    BY <1>7, <1>8, <1>9, <1>11 DEF NewAreaPlace, AreasAddedTo, AreaPlaces
  <1>18. Len(builder.globals) < Len(c.globals)
    <2>1. /\ Len(x.globals) = Len(builder.globals) + 3 /\ Len(y.globals) = Len(x.globals) + 3
          /\ Len(z.globals) = Len(y.globals) + 3 /\ Len(z.globals) <= Len(c.globals)
      BY <1>7, <1>8, <1>9, <1>13 DEF NewAreaPlace, WordsKept
    <2> QED BY <2>1, <1>14
  <1> QED BY <1>11, <1>12, <1>15, <1>16, <1>17, <1>18 DEF AreasAddedTo, vd, fd

LEMMA AreasKeeps ==
    ASSUME LayoutInv, Areas
    PROVE  LayoutInv'
  <1>1. /\ stage = "fields" /\ stage' = "code" /\ item' = 1
        /\ UNCHANGED <<program, flags, nthcall, nthparm>>
    BY DEF Areas, EnterStage
  <1>2. StageOK
    BY DEF LayoutInv
  <1>3. /\ builder'.values = builder.values /\ builder'.fieldaddr = builder.fieldaddr
        /\ FileInv(program, flags, builder', DOMAIN builder.values, DOMAIN program.fields, AreaPlaces, {})
        /\ RoomOK(program, builder', DOMAIN builder.values) /\ AreaOK(program, builder')
    BY AreasDoes DEF SameRest
  <1>4. /\ ValuesDone' = DOMAIN builder.values /\ FieldsDone' = DOMAIN program.fields
        /\ AreaPlacesDone' = AreaPlaces
    BY <1>1, <1>3, SMTT(30) DEF ValuesDone, FieldsDone, AreasDone, AreaPlacesDone, CodeStages
  <1>5. CodeDone' = {}
    <2>1. 1 .. item' - 1 = {}
      BY <1>1
    <2> QED BY <2>1, <1>1, SMTT(30) DEF CodeDone
  <1>6. StageOK'
    <2>1. item' \in 1 .. Items' + 1
      <3>1. Len(builder.values) \in Nat
        BY <1>1, FieldStart, IsSeqLen DEF Typed, ValuesOK
      <3> QED BY <3>1, <1>1, <1>3 DEF Items
    <2> QED BY <2>1, <1>1, <1>2, <1>3 DEF StageOK, CodeStages
  <1> QED BY <1>1, <1>3, <1>4, <1>5, <1>6 DEF LayoutInv
-----------------------------------------------------------------------------
(***************************************************************************)
(* The loop over the code of the functions.                                *)
(***************************************************************************)
InCode == {"code", "copy", "compute", "store"}
InBody == {"copy", "compute", "store"}
CodeFile(b, cd) ==
    /\ FileInv(program, flags, b, DOMAIN b.values, DOMAIN program.fields, AreaPlaces, cd)
    /\ AreaOK(program, b) /\ RoomOK(program, b, DOMAIN b.values)

LEMMA CodeStart ==
    ASSUME LayoutInv, stage \in InCode
    PROVE  /\ IsProgram(program, flags) /\ StageOK /\ CodeFile(builder, CodeDone)
           /\ Typed(program, builder) /\ item \in Nat /\ item >= 1
           /\ DOMAIN builder.values = 1 .. Len(builder.values) /\ Len(builder.values) \in Nat
           /\ item <= Len(builder.values) + 1
  <1>1. StageOK /\ IsProgram(program, flags)
    BY ProgramIs DEF LayoutInv
  <1>2. /\ ValuesDone = DOMAIN builder.values /\ FieldsDone = DOMAIN program.fields
        /\ AreaPlacesDone = AreaPlaces /\ AreasDone
    BY SMTT(30) DEF ValuesDone, FieldsDone, AreasDone, AreaPlacesDone, CodeStages, InCode
  <1>3. CodeFile(builder, CodeDone)
    BY <1>2 DEF LayoutInv, CodeFile
  <1>4. Typed(program, builder)
    BY <1>3 DEF CodeFile, FileInv
  <1>5. DOMAIN builder.values = 1 .. Len(builder.values) /\ Len(builder.values) \in Nat
    BY <1>4, IsSeqLen DEF Typed, ValuesOK
  <1>6. item \in 1 .. Len(builder.values) + 1
    BY <1>1, SMTT(30) DEF StageOK, Items, InCode
  <1> QED BY <1>1, <1>3, <1>4, <1>5, <1>6

LEMMA CodeStep ==
    ASSUME UNCHANGED <<program, flags>>, stage' \in CodeStages, StageOK', CodeFile(builder', CodeDone')
    PROVE  LayoutInv'
  <1>1. /\ ValuesDone' = DOMAIN builder'.values /\ FieldsDone' = DOMAIN program.fields
        /\ AreaPlacesDone' = AreaPlaces
    BY SMTT(30) DEF ValuesDone, FieldsDone, AreasDone, AreaPlacesDone, CodeStages
  <1> QED BY <1>1 DEF LayoutInv, CodeFile

LEMMA CodeKept ==
    ASSUME NEW b, NEW c, NEW cd, CodeFile(b, cd), Typed(program, c), SameLayout(b, c)
    PROVE  CodeFile(c, cd)
  <1>1. /\ FileInv(program, flags, c, DOMAIN b.values, DOMAIN program.fields, AreaPlaces, cd)
        /\ AreaOK(program, c) /\ RoomOK(program, c, DOMAIN b.values)
    BY FileKept DEF CodeFile
  <1>2. c.values = b.values
    BY DEF SameLayout
  <1> QED BY <1>1, <1>2 DEF CodeFile

(* The stages of a function's code keep where generate() is.               *)
LEMMA TurnStage ==
    ASSUME LayoutInv, stage \in InCode, UNCHANGED <<program, flags, item>>,
           item <= Len(builder.values), HasCodeIn(program, builder', item),
           builder'.values = builder.values, builder'.fieldaddr = builder.fieldaddr,
           stage' \in {"copy", "compute", "store"}, nthcall' \in Nat, nthparm' \in Nat
    PROVE  StageOK' /\ CodeDone' = 1 .. item
  <1>1. StageOK /\ item \in Nat /\ item >= 1 /\ Len(builder.values) \in Nat
    BY CodeStart
  <1>2. Items' = Len(builder.values)
    BY SMTT(30) DEF Items
  <1>3. item' \in 1 .. Items' + 1
    BY <1>1, <1>2
  <1>4. CodeDone' = 1 .. item
    BY SMTT(30) DEF CodeDone
  <1>5. /\ \E c \in Compilations : program' = c.program /\ flags' = c.flags
        /\ Len(program.values) <= Len(builder.values)
        /\ Len(builder.fieldaddr) = Len(program.fields)
        /\ \A k \in DOMAIN builder.values :
              IsSplit(builder.values[k]) => Len(builder.values[k].parts) = 3
    BY <1>1 DEF StageOK, InCode
  <1> QED BY <1>2, <1>3, <1>4, <1>5 DEF StageOK, CodeStages

(* A statement of a function's code.                                       *)
StatementPushed(b, c) ==
    /\ SameLayout(b, c) /\ TextsKept(b, c) /\ SameRest(b, c) /\ IsSeq(c.statements)
    /\ c.functions = b.functions /\ c.def = b.def /\ c.addr = b.addr /\ c.globals = b.globals

LEMMA PushStatementIs ==
    ASSUME NEW p, NEW b, Typed(p, b), NEW st
    PROVE  LET c == PushStatement(b, st)
           IN Typed(p, c) /\ StatementPushed(b, c) /\ c.statements = Append(b.statements, st)
  <1> DEFINE c == PushStatement(b, st)
  <1>1. DOMAIN b = BuilderFields /\ IsSeq(b.statements)
    BY DEF Typed
  <1>2. /\ DOMAIN c = DOMAIN b /\ c.values = b.values /\ c.constfloats = b.constfloats
        /\ c.addr = b.addr /\ c.reusable = b.reusable /\ c.functions = b.functions
        /\ c.def = b.def /\ c.fieldaddr = b.fieldaddr /\ c.strings = b.strings
        /\ c.name = b.name /\ c.immediate = b.immediate /\ c.filenames = b.filenames
        /\ c.defs = b.defs /\ c.fields = b.fields /\ c.entfields = b.entfields
        /\ c.statements = Append(b.statements, st) /\ c.extparams = b.extparams
        /\ c.maxtemps = b.maxtemps /\ c.maxlocals = b.maxlocals
        /\ c.firsttemp = b.firsttemp /\ c.firstlocal = b.firstlocal
        /\ c.globals = b.globals
    BY <1>1 DEF BuilderFields, PushStatement
  <1> HIDE DEF c
  <1>3. IsSeq(c.statements)
    BY <1>1, <1>2, AppendIs
  <1>4. Typed(p, c)
    BY <1>2, <1>3 DEF Typed
  <1>5. StatementPushed(b, c)
    BY <1>2, <1>3 DEF StatementPushed, SameLayout, TextsKept, SameRest, Keeps
  <1> QED BY <1>2, <1>4, <1>5 DEF c

(* What a step in the code of a function leaves: parameters behind the     *)
(* eighth may be added, the functions' headers are as they were.           *)
CodeAdds(b, c) ==
    /\ WordsKept(b, c) /\ TextsKept(b, c) /\ c.values = b.values /\ c.fieldaddr = b.fieldaddr
    /\ c.functions = b.functions /\ c.def = b.def
    /\ \A v \in DOMAIN c.addr : v \in DOMAIN b.addr \/ v[1] = "extparam"

LEMMA CodeAddsTransitive ==
    ASSUME NEW b, NEW c, NEW d, CodeAdds(b, c), CodeAdds(c, d),
           Len(b.globals) \in Nat, Len(c.globals) \in Nat, Len(d.globals) \in Nat
    PROVE  CodeAdds(b, d)
  BY WordsKeptTransitive, KeptTransitive DEF CodeAdds

LEMMA PushedAdds ==
    ASSUME NEW b, NEW cd, CodeFile(b, cd), NEW st
    PROVE  LET c == PushStatement(b, st)
           IN CodeFile(c, cd) /\ CodeAdds(b, c) /\ c.statements = Append(b.statements, st)
  <1> DEFINE c == PushStatement(b, st)
  <1>1. Typed(program, b)
    BY DEF CodeFile, FileInv
  <1>2. Typed(program, c) /\ StatementPushed(b, c) /\ c.statements = Append(b.statements, st)
    BY <1>1, PushStatementIs
  <1> HIDE DEF c
  <1>3. CodeFile(c, cd)
    BY <1>2, CodeKept DEF StatementPushed
  <1>4. Len(b.globals) \in Nat
    BY <1>1, LenProperties DEF Typed
  <1>5. CodeAdds(b, c)
    BY <1>2, <1>4 DEF StatementPushed, CodeAdds, SameRest, WordsKept
  <1> QED BY <1>2, <1>3, <1>5 DEF c

(* ir_builder::generateExtparam                                            *)
LEMMA ExtparamAdds ==
    ASSUME NEW b, NEW cd, IsProgram(program, flags), CodeFile(b, cd)
    PROVE  LET c == GenerateExtparam(b)
           IN /\ CodeFile(c, cd) /\ CodeAdds(b, c) /\ c.statements = b.statements
              /\ c.extparams = b.extparams + 1
              /\ DOMAIN c.addr = DOMAIN b.addr \cup {ExtParam(b.extparams + 1)}
  <1> DEFINE n     == b.extparams + 1
             named == GenName(b, EXTPARM \o <<n>>)
             d     == PushDef(named, Len(b.globals))
             v     == ExtParam(n)
             words == Zeros(3)
             e     == PushWords(d, v, words)
             c     == [e EXCEPT !.extparams = @ + 1]
             vd    == DOMAIN b.values
             fd    == DOMAIN program.fields
             xd    == AreaPlaces \cup {v}
  <1>1. /\ Typed(program, b) /\ b.extparams \in Nat /\ n \in Nat \ {0} /\ Len(b.globals) \in Nat
        /\ b.globals \in Seq(Int)
    <2>1. Typed(program, b)
      BY DEF CodeFile, FileInv
    <2>2. b.extparams \in Nat /\ b.globals \in Seq(Int)
      BY <2>1 DEF Typed
    <2> QED BY <2>1, <2>2, LenProperties
  <1>2. EXTPARM \o <<n>> \in Texts
    <2> HIDE DEF n
    <2>1. EXTPARM \in Seq(Nat \ {0}) /\ <<n>> \in Seq(Nat \ {0})
      BY <1>1 DEF EXTPARM
    <2> QED BY <2>1, ConcatProperties DEF Texts
  <1>3. Typed(program, named) /\ NamesKept(b, named)
    BY <1>1, <1>2, GenNameNames
  <1> HIDE DEF named
  <1>4. Typed(program, d) /\ NamesKept(named, d)
    BY <1>1, <1>3, PushDefNames
  <1> HIDE DEF d
  <1>5. /\ TextsKept(b, d) /\ SameFunctions(b, d) /\ SameRest(b, d)
        /\ d.addr = b.addr /\ d.globals = b.globals /\ SameLayout(b, d)
    BY <1>3, <1>4, NamesKeptTransitive, NamesKeptAre
  <1>6. CodeFile(d, cd)
    BY <1>4, <1>5, CodeKept
  <1>7. v \notin DOMAIN d.addr
    <2>1. \A u \in DOMAIN b.addr :
             \/ u[1] \in {"value", "field", "local", "temp"} \/ u \in AreaPlaces
             \/ \E j \in 1 .. b.extparams : u = ExtParam(j)
      BY DEF CodeFile, FileInv, KnownPlaces, Value, FieldGlobal, Local, Temp
    <2>2. \A j \in 1 .. b.extparams : j # n
      BY <1>1
    <2>3. v \notin AreaPlaces /\ v[1] = "extparam"
      BY DEF AreaPlaces, ExtParam, Nil, VinstrTemp
    <2> QED BY <2>1, <2>2, <2>3, <1>5 DEF ExtParam
  <1>8. words \in Seq(Int) /\ Len(words) = 3
    <2>1. 3 \in Nat
      OBVIOUS
    <2> QED BY <2>1, ZerosAre, Zenon
  <1> HIDE DEF words
  <1>9. PlaceOf(program, d, v, words)
    <2>1. v[1] = "extparam" /\ v \in PlaceNames
      BY <1>1 DEF ExtParam, PlaceNames
    <2>2. SizeOf(TypeIn(program, d, v)) = 3
      BY <2>1 DEF TypeIn, SizeOf
    <2> QED BY <1>7, <1>8, <2>1, <2>2 DEF PlaceOf
  <1>10. FileInv(program, flags, d, vd, fd, xd, cd)
    <2>1. FileInv(program, flags, d, vd, fd, AreaPlaces, cd)
      BY <1>5, <1>6 DEF CodeFile, SameRest
    <2>2. KnownPlaces(program, d, vd, fd, AreaPlaces, cd)
      BY <2>1 DEF FileInv
    <2>3. KnownPlaces(program, d, vd, fd, xd, cd)
      BY <2>2 DEF KnownPlaces
    <2> QED BY <2>1, <2>3 DEF FileInv
  <1> HIDE DEF vd, fd, xd
  <1>11. NameOf(d, v, vd, fd, vd, fd, xd)
    BY DEF NameOf, NamedBy, xd
  <1>12. FileInv(program, flags, e, vd, fd, xd, cd) /\ PlacedBehind(d, e, v, words) /\ AreasKept(program, d, e)
    BY <1>9, <1>10, <1>11, FileNewPlace, Zenon
  <1> HIDE DEF e
  <1>13. /\ SameButPlaces(d, e) /\ DOMAIN e.addr = DOMAIN b.addr \cup {v}
         /\ e.extparams = b.extparams /\ WordsKept(d, e)
    <2>1. WordsKept(d, e)
      BY <1>1, <1>5, <1>7, <1>8, <1>12, HasWordsKept
    <2> QED BY <2>1, <1>5, <1>12 DEF PlacedBehind, SameButPlaces, SameRest
  <1>14. AreaOK(program, e) /\ RoomOK(program, e, vd)
    BY <1>5, <1>6, <1>12 DEF CodeFile, AreasKept, vd, SameRest
  <1>15. /\ Typed(program, e) /\ FloatsOK(e) /\ KnownPlaces(program, e, vd, fd, xd, cd)
         /\ Placed(program, flags, e, cd) /\ HeadersOK(program, e, vd)
    BY <1>12 DEF FileInv
  <1>16. /\ DOMAIN c = DOMAIN e /\ c.values = e.values /\ c.constfloats = e.constfloats
         /\ c.addr = e.addr /\ c.reusable = e.reusable /\ c.functions = e.functions
         /\ c.def = e.def /\ c.fieldaddr = e.fieldaddr /\ c.strings = e.strings
         /\ c.name = e.name /\ c.immediate = e.immediate /\ c.filenames = e.filenames
         /\ c.defs = e.defs /\ c.fields = e.fields /\ c.entfields = e.entfields
         /\ c.statements = e.statements /\ c.extparams = n
         /\ c.maxtemps = e.maxtemps /\ c.maxlocals = e.maxlocals
         /\ c.firsttemp = e.firsttemp /\ c.firstlocal = e.firstlocal
         /\ c.globals = e.globals
    BY <1>13, <1>15 DEF Typed, BuilderFields
  <1> HIDE DEF c
  <1>17. Typed(program, c)
    BY <1>1, <1>15, <1>16 DEF Typed
  <1>18. /\ PlacesIn(c) = PlacesIn(e)
         /\ \A u : WordsIn(program, c, u) = WordsIn(program, e, u)
         /\ \A u, w : SameConstantIn(c, u, w) <=> SameConstantIn(e, u, w)
         /\ \A k : FunctionIn(program, c, k) = FunctionIn(program, e, k)
         /\ \A k : HasCodeIn(program, c, k) <=> HasCodeIn(program, e, k)
         /\ \A k, slot : SlotWord(flags, c, k, slot) = SlotWord(flags, e, k, slot)
    BY <1>16 DEF PlacesIn, WordsIn, TypeIn, SameConstantIn, FunctionIn, HasCodeIn, SlotWord, FirstIn
  <1>19. /\ Laid(program, c, cd) = Laid(program, e, cd)
         /\ \A k : OverlapsIn(program, flags, c, k) <=> OverlapsIn(program, flags, e, k)
         /\ \A k : FirstIn(c, k) = FirstIn(e, k) /\ AreaIn(program, c, k) = AreaIn(program, e, k)
    BY <1>16, <1>18 DEF Laid, OverlapsIn, FirstIn, AreaIn
  <1>20. Placed(program, flags, c, cd)
    <2>1. Apart(program, c) /\ ReusableOK(c) /\ SlotsOK(program, flags, c)
      BY <1>15, <1>16, <1>18 DEF Placed, Apart, ReusableOK, SlotsOK
    <2>2. LaidOK(program, flags, c, cd)
      BY <1>15, <1>16, <1>18, <1>19 DEF Placed, LaidOK
    <2> QED BY <2>1, <2>2 DEF Placed
  <1>21. FloatsOK(c) /\ HeadersOK(program, c, vd) /\ AreaOK(program, c) /\ RoomOK(program, c, vd)
    BY <1>14, <1>15, <1>16, <1>18 DEF FloatsOK, HeadersOK, AreaOK, AreaWords, RoomOK
  <1>22. KnownPlaces(program, c, vd, fd, AreaPlaces, cd)
    <2>1. n \in 1 .. n /\ 1 .. b.extparams \subseteq 1 .. n
      BY <1>1
    <2> QED BY <2>1, <1>13, <1>15, <1>16, <1>18 DEF KnownPlaces, xd
  <1>23. c.values = b.values
    BY <1>5, <1>13, <1>16 DEF SameRest, SameButPlaces
  <1>24. CodeFile(c, cd)
    BY <1>17, <1>20, <1>21, <1>22, <1>23 DEF CodeFile, FileInv, vd, fd
  <1>25. CodeAdds(b, c)
    <2>1. WordsKept(b, c)
      BY <1>5, <1>13, <1>16 DEF WordsKept
    <2>2. TextsKept(b, c)
      BY <1>5, <1>13, <1>16 DEF TextsKept, SameButPlaces
    <2>3. \A u \in DOMAIN c.addr : u \in DOMAIN b.addr \/ u[1] = "extparam"
      BY <1>13, <1>16 DEF v, ExtParam
    <2> QED BY <2>1, <2>2, <2>3, <1>5, <1>13, <1>16, <1>23 DEF CodeAdds, SameRest, SameFunctions, SameButPlaces
  <1>26. c.statements = b.statements
    BY <1>5, <1>13, <1>16 DEF SameFunctions, SameButPlaces
  <1>27. GenerateExtparam(b) = c
    BY DEF GenerateExtparam, c, e, d, named, v, n, words
  <1> QED BY <1>13, <1>16, <1>24, <1>25, <1>26, <1>27
-----------------------------------------------------------------------------
(***************************************************************************)
(* The steps within the code of a function.                                *)
(***************************************************************************)
(* More statements, all of one function.                                   *)
StatementsAdded(b, c, k) ==
    /\ Len(b.statements) <= Len(c.statements)
    /\ \A i \in 1 .. Len(b.statements) : c.statements[i] = b.statements[i]
    /\ \A i \in Len(b.statements) + 1 .. Len(c.statements) : c.statements[i].of = k

LEMMA StatementsAre ==
    ASSUME NEW p, NEW b, Typed(p, b)
    PROVE  Len(b.statements) \in Nat /\ DOMAIN b.statements = 1 .. Len(b.statements)
  BY LenProperties DEF Typed, IsSeq

LEMMA SameStatements ==
    ASSUME NEW p, NEW b, Typed(p, b), NEW c, c.statements = b.statements, NEW k
    PROVE  StatementsAdded(b, c, k)
  <1>1. Len(b.statements) \in Nat
    BY StatementsAre
  <1> QED BY <1>1 DEF StatementsAdded

LEMMA StatementAdded ==
    ASSUME NEW p, NEW b, NEW c, NEW d, Typed(p, b), Typed(p, c), NEW k, StatementsAdded(b, c, k),
           NEW st, st.of = k, d.statements = Append(c.statements, st)
    PROVE  StatementsAdded(b, d, k)
  <1>1. Len(b.statements) \in Nat /\ Len(c.statements) \in Nat /\ IsSeq(c.statements)
    BY StatementsAre DEF Typed
  <1>2. DOMAIN c.statements = 1 .. Len(c.statements)
    BY <1>1, IsSeqLen
  <1>3. /\ Len(d.statements) = Len(c.statements) + 1
        /\ \A i \in 1 .. Len(c.statements) : d.statements[i] = c.statements[i]
        /\ d.statements[Len(c.statements) + 1] = st
    BY <1>1, <1>2, AppendIs
  <1> QED BY <1>1, <1>3 DEF StatementsAdded

LEMMA InsideCode ==
    ASSUME LayoutInv, stage \in InBody
    PROVE  /\ IsProgram(program, flags) /\ StageOK /\ CodeDone = 1 .. item
           /\ CodeFile(builder, 1 .. item) /\ Typed(program, builder)
           /\ item \in Nat /\ item \in DOMAIN builder.values /\ item <= Len(builder.values)
           /\ HasCodeIn(program, builder, item) /\ ThisFunction = FunctionIn(program, builder, item)
           /\ IsFunction(program, ThisFunction, flags)
           /\ nthcall \in Nat /\ nthparm \in Nat
  <1>1. stage \in InCode
    BY DEF InBody, InCode
  <1>2. /\ IsProgram(program, flags) /\ StageOK /\ CodeFile(builder, CodeDone)
        /\ Typed(program, builder) /\ item \in Nat /\ item >= 1
        /\ DOMAIN builder.values = 1 .. Len(builder.values) /\ Len(builder.values) \in Nat
    BY <1>1, CodeStart
  <1>3. CodeDone = 1 .. item
    BY SMTT(30) DEF CodeDone, InBody
  <1>4. Items = Len(builder.values)
    BY SMTT(30) DEF Items, InBody
  <1>5. item <= Items /\ HasCodeIn(program, builder, item) /\ nthcall \in Nat /\ nthparm \in Nat
    BY <1>2 DEF StageOK, InBody
  <1>6. item \in DOMAIN builder.values
    BY <1>2, <1>4, <1>5
  <1>7. ThisFunction = FunctionIn(program, builder, item)
    BY DEF ThisFunction, FunctionOf, FunctionIn
  <1>8. IsFunction(program, ThisFunction, flags)
    BY <1>2, <1>5, <1>6, <1>7, FunctionsAre DEF HasCodeIn
  <1> QED BY <1>2, <1>3, <1>4, <1>5, <1>6, <1>7, <1>8

LEMMA CodeAddsReflexive ==
    ASSUME NEW b, Typed(program, b)
    PROVE  CodeAdds(b, b)
  <1>1. Len(b.globals) \in Nat
    BY LenProperties DEF Typed
  <1> QED BY <1>1 DEF CodeAdds, WordsKept, TextsKept, Keeps

LEMMA CodeFileLen ==
    ASSUME NEW b, NEW cd, CodeFile(b, cd)
    PROVE  Typed(program, b) /\ Len(b.globals) \in Nat
  BY LenProperties DEF CodeFile, FileInv, Typed

LEMMA TurnKeeps ==
    ASSUME LayoutInv, stage \in InBody, NEW b, CodeFile(b, 1 .. item), CodeAdds(builder, b),
           NEW s \in InBody, NEW c \in Nat, NEW q \in Nat, Turn(s, c, q, b)
    PROVE  LayoutInv'
  <1>1. /\ builder' = b /\ stage' = s /\ nthcall' = c /\ nthparm' = q
        /\ UNCHANGED <<program, flags, item>>
    BY DEF Turn
  <1>2. HasCodeIn(program, builder, item) /\ item <= Len(builder.values)
    BY InsideCode
  <1>3. b.values = builder.values /\ b.fieldaddr = builder.fieldaddr /\ b.def = builder.def
    BY DEF CodeAdds
  <1>4. HasCodeIn(program, b, item)
    BY <1>2, <1>3 DEF HasCodeIn, FunctionIn
  <1>5. StageOK' /\ CodeDone' = 1 .. item
    BY <1>1, <1>2, <1>3, <1>4, TurnStage DEF InBody, InCode
  <1>6. stage' \in CodeStages
    BY <1>1 DEF CodeStages, InBody
  <1>7. CodeFile(builder', CodeDone')
    BY <1>1, <1>5
  <1> QED BY <1>1, <1>5, <1>6, <1>7, CodeStep

(* One more parameter behind the eighth, when there is need for it.        *)
LEMMA WithExtparamAdds ==
    ASSUME LayoutInv, stage \in InBody
    PROVE  /\ CodeFile(WithExtparam, 1 .. item) /\ CodeAdds(builder, WithExtparam)
           /\ WithExtparam.statements = builder.statements
           /\ DOMAIN builder.addr \subseteq DOMAIN WithExtparam.addr
           /\ StatementsAdded(builder, WithExtparam, item)
  <1>1. IsProgram(program, flags) /\ CodeFile(builder, 1 .. item) /\ Typed(program, builder)
    BY InsideCode
  <1>2. CodeAdds(builder, builder)
    BY <1>1, CodeAddsReflexive
  <1>3. /\ CodeFile(GenerateExtparam(builder), 1 .. item) /\ CodeAdds(builder, GenerateExtparam(builder))
        /\ GenerateExtparam(builder).statements = builder.statements
        /\ DOMAIN builder.addr \subseteq DOMAIN GenerateExtparam(builder).addr
    BY <1>1, ExtparamAdds
  <1>4. StatementsAdded(builder, GenerateExtparam(builder), item) /\ StatementsAdded(builder, builder, item)
    BY <1>1, <1>3, SameStatements
  <1> QED BY <1>1, <1>2, <1>3, <1>4 DEF WithExtparam

(* A statement of this function's, behind the others.                      *)
LEMMA PushAdds ==
    ASSUME LayoutInv, stage \in InBody, NEW b, CodeFile(b, 1 .. item), CodeAdds(builder, b),
           NEW op, NEW o1, NEW o2
    PROVE  LET c == Push(b, op, o1, o2)
           IN /\ CodeFile(c, 1 .. item) /\ CodeAdds(builder, c) /\ CodeAdds(b, c)
              /\ c.statements = Append(b.statements, Statement(op, o1, o2, item, nthcall))
              /\ StatementsAdded(builder, b, item) => StatementsAdded(builder, c, item)
  <1> DEFINE c == PushStatement(b, Statement(op, o1, o2, item, nthcall))
  <1>1. CodeFile(c, 1 .. item) /\ CodeAdds(b, c)
        /\ c.statements = Append(b.statements, Statement(op, o1, o2, item, nthcall))
    BY PushedAdds
  <1> HIDE DEF c
  <1>2. CodeFile(builder, 1 .. item)
    BY InsideCode
  <1>3. Len(builder.globals) \in Nat /\ Len(b.globals) \in Nat /\ Len(c.globals) \in Nat
    BY <1>1, <1>2, CodeFileLen
  <1>4. CodeAdds(builder, c)
    BY <1>1, <1>3, CodeAddsTransitive
  <1>5. Typed(program, builder) /\ Typed(program, b)
    BY <1>2, CodeFileLen
  <1>6. Statement(op, o1, o2, item, nthcall).of = item
    BY DEF Statement
  <1>7. StatementsAdded(builder, b, item) => StatementsAdded(builder, c, item)
    BY <1>1, <1>5, <1>6, StatementAdded
  <1> QED BY <1>1, <1>4, <1>7 DEF c, Push

(* What the steps within a function's code leave.                          *)
BodyAdds(b) == /\ CodeFile(b, 1 .. item) /\ CodeAdds(builder, b)
               /\ StatementsAdded(builder, b, item)

LEMMA BodyAddsNothing ==
    ASSUME LayoutInv, stage \in InBody
    PROVE  BodyAdds(builder)
  <1>1. CodeFile(builder, 1 .. item) /\ Typed(program, builder)
    BY InsideCode
  <1> QED BY <1>1, CodeAddsReflexive, SameStatements DEF BodyAdds

LEMMA CopyParameterDoes ==
    ASSUME LayoutInv, CopyParameter
    PROVE  stage \in InBody /\ BodyAdds(builder') /\ NextParm(builder')
  <1>1. stage \in InBody
    BY DEF CopyParameter, InBody
  <1>2. PICK op, o1, o2 : NextParm(Push(WithExtparam, op, o1, o2))
    BY DEF CopyParameter
  <1>3. /\ CodeFile(WithExtparam, 1 .. item) /\ CodeAdds(builder, WithExtparam)
        /\ StatementsAdded(builder, WithExtparam, item)
    BY <1>1, WithExtparamAdds
  <1> DEFINE c == Push(WithExtparam, op, o1, o2)
  <1>4. CodeFile(c, 1 .. item) /\ CodeAdds(builder, c) /\ StatementsAdded(builder, c, item)
    BY <1>1, <1>3, PushAdds
  <1>5. builder' = c /\ NextParm(c)
    BY <1>2 DEF NextParm, Turn
  <1> QED BY <1>1, <1>4, <1>5 DEF BodyAdds

LEMMA StoreArgumentDoes ==
    ASSUME LayoutInv, StoreArgument
    PROVE  stage \in InBody /\ BodyAdds(builder') /\ NextParm(builder')
  <1>1. stage \in InBody
    BY DEF StoreArgument, AtArgument, AtCall, InBody
  <1>2. PICK op, o1, o2 : NextParm(Push(WithExtparam, op, o1, o2))
    BY DEF StoreArgument
  <1>3. /\ CodeFile(WithExtparam, 1 .. item) /\ CodeAdds(builder, WithExtparam)
        /\ StatementsAdded(builder, WithExtparam, item)
    BY <1>1, WithExtparamAdds
  <1> DEFINE c == Push(WithExtparam, op, o1, o2)
  <1>4. CodeFile(c, 1 .. item) /\ CodeAdds(builder, c) /\ StatementsAdded(builder, c, item)
    BY <1>1, <1>3, PushAdds
  <1>5. builder' = c /\ NextParm(c)
    BY <1>2 DEF NextParm, Turn
  <1> QED BY <1>1, <1>4, <1>5 DEF BodyAdds

LEMMA StoreSplitVectorDoes ==
    ASSUME LayoutInv, StoreSplitVector
    PROVE  stage \in InBody /\ BodyAdds(builder') /\ NextParm(builder')
  <1> DEFINE x == StorePart(WithExtparam, 1)
             y == StorePart(x, 2)
             z == StorePart(y, 3)
  <1>1. stage \in InBody
    BY DEF StoreSplitVector, AtArgument, AtCall, InBody
  <1>2. /\ CodeFile(WithExtparam, 1 .. item) /\ CodeAdds(builder, WithExtparam)
        /\ StatementsAdded(builder, WithExtparam, item)
    BY <1>1, WithExtparamAdds
  <1>3. CodeFile(x, 1 .. item) /\ CodeAdds(builder, x) /\ StatementsAdded(builder, x, item)
    BY <1>1, <1>2, PushAdds DEF StorePart
  <1> HIDE DEF x
  <1>4. CodeFile(y, 1 .. item) /\ CodeAdds(builder, y) /\ StatementsAdded(builder, y, item)
    BY <1>1, <1>3, PushAdds DEF StorePart
  <1> HIDE DEF y
  <1>5. CodeFile(z, 1 .. item) /\ CodeAdds(builder, z) /\ StatementsAdded(builder, z, item)
    BY <1>1, <1>4, PushAdds DEF StorePart
  <1>6. NextParm(z)
    BY DEF StoreSplitVector, x, y
  <1> HIDE DEF z
  <1>7. builder' = z
    BY <1>6 DEF NextParm, Turn
  <1> QED BY <1>1, <1>5, <1>6, <1>7 DEF BodyAdds

LEMMA ComputeInPlaceDoes ==
    ASSUME LayoutInv, ComputeInPlace
    PROVE  stage \in InBody /\ BodyAdds(builder') /\ NextParm(builder')
  <1>1. stage \in InBody
    BY DEF ComputeInPlace, AtArgument, AtCall, InBody
  <1>2. BodyAdds(builder)
    BY <1>1, BodyAddsNothing
  <1> DEFINE c == Push(builder, "COMPUTE", nthparm, ParmWords(builder, nthparm))
  <1>3. BodyAdds(c)
    BY <1>1, <1>2, PushAdds DEF BodyAdds
  <1>4. NextParm(c) \/ NextParm(builder)
    BY DEF ComputeInPlace
  <1> HIDE DEF c
  <1>5. \/ builder' = c /\ NextParm(builder')
        \/ builder' = builder /\ NextParm(builder')
    BY <1>4 DEF NextParm, Turn
  <1> QED BY <1>1, <1>2, <1>3, <1>5

LEMMA PushCallDoes ==
    ASSUME LayoutInv, PushCall
    PROVE  stage \in InBody /\ BodyAdds(builder') /\ Turn("compute", nthcall + 1, 1, builder')
  <1>1. stage \in InBody
    BY DEF PushCall, AtCall, InBody
  <1>2. BodyAdds(builder)
    BY <1>1, BodyAddsNothing
  <1> DEFINE c == Push(builder, "CALL", codeAddress(builder, Value(ThisCall.callee)), 0)
  <1>3. BodyAdds(c)
    BY <1>1, <1>2, PushAdds DEF BodyAdds
  <1>4. Turn("compute", nthcall + 1, 1, c)
    BY DEF PushCall
  <1> HIDE DEF c
  <1>5. builder' = c
    BY <1>4 DEF Turn
  <1> QED BY <1>1, <1>3, <1>4, <1>5

LEMMA BodyKeeps ==
    ASSUME LayoutInv,
           CopyParameter \/ CopyDone \/ ComputeInPlace \/ ComputeDone \/ SkipStore
             \/ StoreArgument \/ StoreSplitVector \/ PushCall
    PROVE  /\ LayoutInv' /\ BodyAdds(builder') /\ stage \in InBody /\ stage' \in InBody
           /\ UNCHANGED <<program, flags, item>>
  <1>1. CASE CopyParameter \/ ComputeInPlace \/ StoreArgument \/ StoreSplitVector
    <2>1. stage \in InBody /\ BodyAdds(builder') /\ NextParm(builder')
      BY <1>1, CopyParameterDoes, ComputeInPlaceDoes, StoreArgumentDoes, StoreSplitVectorDoes
    <2>2. nthcall \in Nat /\ nthparm + 1 \in Nat
      BY <2>1, InsideCode
    <2>3. LayoutInv'
      BY <2>1, <2>2, TurnKeeps DEF NextParm, BodyAdds
    <2> QED BY <2>1, <2>3 DEF NextParm, Turn
  <1>2. CASE PushCall
    <2>1. stage \in InBody /\ BodyAdds(builder') /\ Turn("compute", nthcall + 1, 1, builder')
      BY <1>2, PushCallDoes
    <2>2. nthcall + 1 \in Nat /\ 1 \in Nat /\ "compute" \in InBody
      BY <2>1, InsideCode DEF InBody
    <2>3. LayoutInv'
      BY <2>1, <2>2, TurnKeeps DEF BodyAdds
    <2> QED BY <2>1, <2>2, <2>3 DEF Turn
  <1>3. CASE CopyDone \/ ComputeDone \/ SkipStore
    <2>1. stage \in InBody
      BY <1>3 DEF CopyDone, ComputeDone, SkipStore, AtArgument, AtCall, InBody
    <2>2. BodyAdds(builder)
      BY <2>1, BodyAddsNothing
    <2>3. nthcall \in Nat /\ 1 \in Nat /\ nthparm + 1 \in Nat
      BY <2>1, InsideCode
    <2>4. \/ Turn("compute", 1, 1, builder)
          \/ Turn("store", nthcall, 1, builder)
          \/ Turn("store", nthcall, nthparm + 1, builder)
      BY <1>3 DEF CopyDone, ComputeDone, SkipStore, NextParm, AtArgument, AtCall
    <2>5. "compute" \in InBody /\ "store" \in InBody
      BY DEF InBody
    <2>6. LayoutInv'
      BY <2>1, <2>2, <2>3, <2>4, <2>5, TurnKeeps DEF BodyAdds
    <2> QED BY <2>1, <2>2, <2>4, <2>5, <2>6 DEF Turn
  <1> QED BY <1>1, <1>2, <1>3
-----------------------------------------------------------------------------
(***************************************************************************)
(* From one function's code to the next one's, and the end.                *)
(***************************************************************************)
LEMMA BetweenStage ==
    ASSUME LayoutInv, stage \in InCode, UNCHANGED <<program, flags>>,
           builder'.values = builder.values, builder'.fieldaddr = builder.fieldaddr,
           stage' \in {"code", "done", "failed"}, item' \in 1 .. Len(builder.values) + 1,
           nthcall' \in Nat, nthparm' \in Nat
    PROVE  StageOK'
  <1>1. StageOK
    BY DEF LayoutInv
  <1>2. Items' = Len(builder.values)
    BY SMTT(30) DEF Items
  <1>3. /\ \E c \in Compilations : program' = c.program /\ flags' = c.flags
        /\ Len(program.values) <= Len(builder.values)
        /\ Len(builder.fieldaddr) = Len(program.fields)
        /\ \A k \in DOMAIN builder.values :
              IsSplit(builder.values[k]) => Len(builder.values[k].parts) = 3
    BY <1>1 DEF StageOK, InCode
  <1> QED BY <1>2, <1>3 DEF StageOK, CodeStages

LEMMA AtCodeIs ==
    ASSUME LayoutInv, AtCode
    PROVE  /\ IsProgram(program, flags) /\ StageOK /\ CodeFile(builder, 1 .. item - 1)
           /\ Typed(program, builder) /\ stage \in InCode
           /\ item \in Nat /\ item >= 1 /\ item \in DOMAIN builder.values
           /\ item <= Len(builder.values) /\ Len(builder.values) \in Nat
           /\ nthcall \in Nat /\ nthparm \in Nat
           /\ HasCode(This, item) <=> HasCodeIn(program, builder, item)
           /\ FunctionOf(item) = FunctionIn(program, builder, item)
  <1>1. stage = "code" /\ item <= Items
    BY DEF AtCode
  <1>2. stage \in InCode
    BY <1>1 DEF InCode
  <1>3. /\ IsProgram(program, flags) /\ StageOK /\ CodeFile(builder, CodeDone)
        /\ Typed(program, builder) /\ item \in Nat /\ item >= 1
        /\ DOMAIN builder.values = 1 .. Len(builder.values) /\ Len(builder.values) \in Nat
    BY <1>2, CodeStart
  <1>4. CodeDone = 1 .. item - 1
    BY <1>1 DEF CodeDone
  <1>5. Items = Len(builder.values)
    BY <1>1, SMTT(30) DEF Items
  <1>6. item \in DOMAIN builder.values /\ item <= Len(builder.values)
    BY <1>1, <1>3, <1>5
  <1>7. nthcall \in Nat /\ nthparm \in Nat
    BY <1>3 DEF StageOK
  <1>8. /\ HasCode(This, item) <=> HasCodeIn(program, builder, item)
        /\ FunctionOf(item) = FunctionIn(program, builder, item)
    BY <1>6 DEF HasCode, HasCodeIn, This, FunctionOf, FunctionIn
  <1> QED BY <1>2, <1>3, <1>4, <1>6, <1>7, <1>8

(* What has no code changes nothing.                                       *)
LEMMA CodeMore ==
    ASSUME NEW b, NEW n \in Nat, n >= 1, CodeFile(b, 1 .. n - 1), ~HasCodeIn(program, b, n)
    PROVE  CodeFile(b, 1 .. n)
  <1>1. 1 .. n = (1 .. n - 1) \cup {n}
    OBVIOUS
  <1>2. Laid(program, b, 1 .. n) = Laid(program, b, 1 .. n - 1)
    BY <1>1 DEF Laid
  <1>3. /\ KnownPlaces(program, b, DOMAIN b.values, DOMAIN program.fields, AreaPlaces, 1 .. n - 1)
        /\ Placed(program, flags, b, 1 .. n - 1)
    BY DEF CodeFile, FileInv
  <1>4. KnownPlaces(program, b, DOMAIN b.values, DOMAIN program.fields, AreaPlaces, 1 .. n)
    BY <1>1, <1>3, NamedGrows
  <1>5. Placed(program, flags, b, 1 .. n)
    BY <1>2, <1>3 DEF Placed, LaidOK
  <1> QED BY <1>4, <1>5 DEF CodeFile, FileInv

LEMMA NoCodeKeeps ==
    ASSUME LayoutInv, NoCode
    PROVE  LayoutInv'
  <1>1. AtCode /\ ~HasCode(This, item) /\ builder' = builder /\ item' = item + 1
        /\ UNCHANGED <<program, flags, stage, nthcall, nthparm>>
    BY DEF NoCode, NextItem
  <1>2. CodeFile(builder, 1 .. item)
    BY <1>1, AtCodeIs, CodeMore
  <1>3. item \in Nat /\ item' - 1 = item /\ item' \in 1 .. Len(builder.values) + 1
    BY <1>1, AtCodeIs
  <1>4. stage' = "code" /\ CodeDone' = 1 .. item
    <2>1. stage' = "code"
      BY <1>1 DEF AtCode
    <2>2. CodeDone' = 1 .. item' - 1
      BY <2>1, SMTT(30) DEF CodeDone
    <2> QED BY <2>1, <2>2, <1>3
  <1>5. StageOK'
    BY <1>1, <1>3, <1>4, AtCodeIs, BetweenStage
  <1>6. stage' \in CodeStages
    BY <1>4 DEF CodeStages
  <1>7. CodeFile(builder', CodeDone')
    BY <1>1, <1>2, <1>4
  <1> QED BY <1>1, <1>5, <1>6, <1>7, CodeStep

LEMMA EndCodeDoes ==
    ASSUME LayoutInv, EndCode
    PROVE  /\ stage = "compute" /\ BodyAdds(builder') /\ stage' = "code" /\ item' = item + 1
           /\ nthcall' = 0 /\ nthparm' = 0 /\ UNCHANGED <<program, flags>>
           /\ builder'.statements = Append(builder.statements, Statement("DONE", 0, 0, item, 0))
  <1> DEFINE c == PushStatement(builder, Statement("DONE", 0, 0, item, 0))
  <1>1. /\ stage = "compute" /\ builder' = c /\ stage' = "code" /\ item' = item + 1
        /\ nthcall' = 0 /\ nthparm' = 0 /\ UNCHANGED <<program, flags>>
    BY DEF EndCode
  <1>2. CodeFile(builder, 1 .. item)
    BY <1>1, InsideCode DEF InBody
  <1>3. CodeFile(c, 1 .. item) /\ CodeAdds(builder, c)
        /\ c.statements = Append(builder.statements, Statement("DONE", 0, 0, item, 0))
    BY <1>2, PushedAdds
  <1>4. Typed(program, builder) /\ StatementsAdded(builder, builder, item)
    BY <1>2, CodeFileLen, SameStatements
  <1>5. Statement("DONE", 0, 0, item, 0).of = item
    BY DEF Statement
  <1>6. StatementsAdded(builder, c, item)
    BY <1>3, <1>4, <1>5, StatementAdded
  <1> QED BY <1>1, <1>3, <1>6 DEF BodyAdds

LEMMA EndCodeKeeps ==
    ASSUME LayoutInv, EndCode
    PROVE  LayoutInv'
  <1>1. /\ stage = "compute" /\ BodyAdds(builder') /\ stage' = "code" /\ item' = item + 1
        /\ nthcall' = 0 /\ nthparm' = 0 /\ UNCHANGED <<program, flags>>
    BY EndCodeDoes
  <1>2. item \in Nat /\ item <= Len(builder.values) /\ item \in DOMAIN builder.values
        /\ Typed(program, builder)
    BY <1>1, InsideCode DEF InBody
  <1>3. Len(builder.values) \in Nat /\ item' - 1 = item /\ item' \in 1 .. Len(builder.values) + 1
    <2>1. Len(builder.values) \in Nat /\ DOMAIN builder.values = 1 .. Len(builder.values)
      BY <1>2, IsSeqLen DEF Typed, ValuesOK
    <2> QED BY <2>1, <1>1, <1>2
  <1>4. CodeDone' = 1 .. item
    <2>1. CodeDone' = 1 .. item' - 1
      BY <1>1, SMTT(30) DEF CodeDone
    <2> QED BY <2>1, <1>3
  <1>5. builder'.values = builder.values /\ builder'.fieldaddr = builder.fieldaddr
    BY <1>1 DEF BodyAdds, CodeAdds
  <1>6. StageOK'
    <2>1. nthcall' \in Nat /\ nthparm' \in Nat /\ stage \in InCode
      BY <1>1 DEF InCode
    <2> QED BY <1>1, <1>3, <1>5, <2>1, BetweenStage
  <1>7. stage' \in CodeStages /\ CodeFile(builder', CodeDone')
    BY <1>1, <1>4 DEF CodeStages, BodyAdds
  <1> QED BY <1>1, <1>6, <1>7, CodeStep

LEMMA FinishKeeps ==
    ASSUME LayoutInv, Finish
    PROVE  LayoutInv'
  <1>1. /\ stage = "code" /\ item > Items /\ builder' = builder /\ item' = 1
        /\ stage' \in {"done", "failed"} /\ UNCHANGED <<program, flags, nthcall, nthparm>>
    BY DEF Finish, EnterStage
  <1>2. stage \in InCode
    BY <1>1 DEF InCode
  <1>3. /\ StageOK /\ CodeFile(builder, CodeDone) /\ item \in Nat
        /\ DOMAIN builder.values = 1 .. Len(builder.values) /\ Len(builder.values) \in Nat
        /\ item <= Len(builder.values) + 1
    BY <1>2, CodeStart
  <1>4. CodeDone = DOMAIN builder.values
    <2>1. Items = Len(builder.values)
      BY <1>1, SMTT(30) DEF Items
    <2>2. item - 1 = Len(builder.values)
      BY <1>1, <1>3, <2>1
    <2>3. CodeDone = 1 .. item - 1
      BY <1>1 DEF CodeDone
    <2> QED BY <1>3, <2>2, <2>3
  <1>5. CodeDone' = DOMAIN builder.values
    BY <1>1, SMTT(30) DEF CodeDone
  <1>6. StageOK'
    <2>1. nthcall \in Nat /\ nthparm \in Nat /\ item' \in 1 .. Len(builder.values) + 1
      BY <1>1, <1>3 DEF StageOK
    <2> QED BY <1>1, <1>2, <2>1, BetweenStage
  <1>7. stage' \in CodeStages /\ CodeFile(builder', CodeDone')
    BY <1>1, <1>3, <1>4, <1>5 DEF CodeStages
  <1> QED BY <1>1, <1>6, <1>7, CodeStep

LEMMA RestKeeps ==
    ASSUME LayoutInv, UNCHANGED writerVars
    PROVE  LayoutInv'
  <1>1. UNCHANGED <<program, flags, builder, stage, item, nthcall, nthparm>>
    BY DEF writerVars
  <1>2. /\ ValuesDone' = ValuesDone /\ FieldsDone' = FieldsDone /\ AreaPlacesDone' = AreaPlacesDone
        /\ CodeDone' = CodeDone /\ AreasDone' = AreasDone
    BY <1>1, SMTT(30) DEF ValuesDone, FieldsDone, AreaPlacesDone, AreasDone, CodeDone
  <1>3. StageOK'
    <2>1. Items' = Items
      BY <1>1, SMTT(30) DEF Items
    <2> QED BY <1>1, <2>1 DEF LayoutInv, StageOK
  <1> QED BY <1>1, <1>2, <1>3 DEF LayoutInv
-----------------------------------------------------------------------------
(***************************************************************************)
(* generateFunctionLocals: an area of its own, or the one they have in     *)
(* common, and an address for every slot.                                  *)
(***************************************************************************)
FirstOfArea(b, k) == IF OverlapsIn(program, flags, b, k) THEN b.firstlocal ELSE Len(b.globals)
SlotNames(k, f) == {Local(k, j) : j \in DOMAIN f.locals} \cup {Temp(k, j) : j \in DOMAIN f.temps}
Open(b, k) ==
    FunctionLocals([b EXCEPT !.functions[b.def[k]].entry = Len(b.statements)], k,
                   FunctionIn(program, b, k))

(* What there is besides the functions and the words.                      *)
SameNames(b, c) ==
    /\ DOMAIN c = DOMAIN b
    /\ c.values = b.values /\ c.constfloats = b.constfloats /\ c.reusable = b.reusable
    /\ c.strings = b.strings /\ c.name = b.name /\ c.immediate = b.immediate
    /\ c.filenames = b.filenames /\ c.defs = b.defs /\ c.fields = b.fields
    /\ c.entfields = b.entfields /\ c.fieldaddr = b.fieldaddr
    /\ c.def = b.def /\ c.statements = b.statements /\ c.extparams = b.extparams
    /\ c.maxlocals = b.maxlocals /\ c.maxtemps = b.maxtemps
    /\ c.firsttemp = b.firsttemp /\ c.firstlocal = b.firstlocal
HeaderOpened(b, c, k) ==
    /\ c.functions \in Seq(Headers) /\ Len(c.functions) = Len(b.functions)
    /\ \A i \in 1 .. Len(b.functions) : i # b.def[k] => c.functions[i] = b.functions[i]
    /\ c.functions[b.def[k]] = [b.functions[b.def[k]] EXCEPT !.entry = Len(b.statements),
                                                            !.firstlocal = FirstOfArea(b, k)]
Opened(b, c, k) ==
    LET f == FunctionIn(program, b, k)
        first == FirstOfArea(b, k)
    IN /\ SameNames(b, c) /\ HeaderOpened(b, c, k)
       /\ c.globals = b.globals \o Zeros(first + f.allocated - Len(b.globals))
       /\ c.addr = Over(SlotAddresses(b, first, k, f), b.addr)

LEMMA ExceptTwice ==
    ASSUME NEW S, NEW s \in Seq(S), NEW n \in 1 .. Len(s), NEW x \in S, NEW y \in S, NEW t,
           t = [[s EXCEPT ![n] = x] EXCEPT ![n] = y]
    PROVE  /\ t \in Seq(S) /\ Len(t) = Len(s) /\ t[n] = y
           /\ \A i \in 1 .. Len(s) : i # n => t[i] = s[i]
  <1>1. Len(s) \in Nat /\ DOMAIN s = 1 .. Len(s) /\ \A i \in 1 .. Len(s) : s[i] \in S
    BY LenProperties
  <1>2. t \in [1 .. Len(s) -> S] /\ t[n] = y /\ \A i \in 1 .. Len(s) : i # n => t[i] = s[i]
    BY <1>1
  <1> QED BY <1>1, <1>2, MapIsSeq

LEMMA HeaderSet ==
    ASSUME NEW h \in Headers
    PROVE  /\ \A x \in Int : [h EXCEPT !.entry = x] \in Headers
           /\ \A x \in Nat : [h EXCEPT !.firstlocal = x] \in Headers
  BY DEF Headers

LEMMA OpenIs ==
    ASSUME IsProgram(program, flags), NEW b, Typed(program, b), HeadersOK(program, b, DOMAIN b.values),
           NEW k \in DOMAIN b.values, HasCodeIn(program, b, k)
    PROVE  Opened(b, Open(b, k), k)
  <1> DEFINE n     == b.def[k]
             len   == Len(b.statements)
             f     == FunctionIn(program, b, k)
             e     == [b EXCEPT !.functions[n].entry = len]
             first == FirstOfArea(b, k)
             c     == FunctionLocals(e, k, f)
             h     == b.functions[n]
  <1>1. /\ DOMAIN b = BuilderFields /\ b.functions \in Seq(Headers) /\ IsSeq(b.statements)
        /\ b.globals \in Seq(Int) /\ b.firstlocal \in Nat
    BY DEF Typed
  <1>2. len \in Nat /\ Len(b.globals) \in Nat /\ Len(b.functions) \in Nat
        /\ DOMAIN b.functions = 1 .. Len(b.functions)
    BY <1>1, IsSeqLen, LenProperties
  <1>3. first \in Nat
    BY <1>1, <1>2 DEF FirstOfArea
  <1>4. n \in 1 .. Len(b.functions) /\ h \in Headers
    <2>1. k \in DOMAIN b.def
      BY DEF HasCodeIn
    <2>2. n \in 2 .. Len(b.functions)
      BY <2>1 DEF HeadersOK
    <2>3. n \in 1 .. Len(b.functions)
      BY <2>2, <1>2
    <2> QED BY <2>3, <1>1, <1>2
  <1> HIDE DEF n, len, first, f
  <1>5. /\ DOMAIN e = DOMAIN b /\ e.functions = [b.functions EXCEPT ![n].entry = len]
        /\ e.globals = b.globals /\ e.addr = b.addr /\ e.firstlocal = b.firstlocal
        /\ SameNames(b, e)
    BY <1>1 DEF BuilderFields, SameNames
  <1>6. e.def[k] = n
    BY <1>5 DEF SameNames, n
  <1> HIDE DEF e
  <1>7. FirstLocalOf(e, f) = first
    BY <1>5 DEF FirstLocalOf, FirstOfArea, OverlapsIn, Flag, first, f
  <1>8. SlotAddresses(e, first, k, f) = SlotAddresses(b, first, k, f)
    BY <1>5 DEF SlotAddresses, SlotAddress, SameNames
  <1>9. c = [e EXCEPT !.functions[n].firstlocal = first,
                      !.globals = @ \o Zeros(first + f.allocated - Len(@)),
                      !.addr = Over(SlotAddresses(b, first, k, f), @)]
    BY <1>6, <1>7, <1>8 DEF FunctionLocals
  <1> HIDE DEF c
  <1>10. /\ DOMAIN c = DOMAIN e /\ c.functions = [e.functions EXCEPT ![n].firstlocal = first]
         /\ c.globals = b.globals \o Zeros(first + f.allocated - Len(b.globals))
         /\ c.addr = Over(SlotAddresses(b, first, k, f), b.addr)
         /\ SameNames(e, c)
    BY <1>1, <1>5, <1>9 DEF BuilderFields, SameNames
  <1>11. SameNames(b, c)
    BY <1>5, <1>10 DEF SameNames
  <1>12. HeaderOpened(b, c, k)
    <2> DEFINE x == [h EXCEPT !.entry = len]
               y == [x EXCEPT !.firstlocal = first]
    <2>1. x \in Headers /\ y \in Headers
      <3>1. x \in Headers
        <4>1. len \in Int
          BY <1>2
        <4> QED BY <4>1, <1>4, HeaderSet
      <3> HIDE DEF x
      <3> QED BY <3>1, <1>3, HeaderSet
    <2>2. e.functions = [b.functions EXCEPT ![n] = x]
      BY <1>4, <1>5
    <2>3. e.functions[n] = x
      BY <2>2, <1>2, <1>4
    <2>4. c.functions = [e.functions EXCEPT ![n] = y]
      BY <2>3, <1>10
    <2>5. y = [h EXCEPT !.entry = len, !.firstlocal = first]
      BY <1>4 DEF Headers
    <2> HIDE DEF x, y
    <2>6. /\ c.functions \in Seq(Headers) /\ Len(c.functions) = Len(b.functions) /\ c.functions[n] = y
          /\ \A i \in 1 .. Len(b.functions) : i # n => c.functions[i] = b.functions[i]
      BY <1>1, <1>4, <2>1, <2>2, <2>4, ExceptTwice, SMTT(30)
    <2> QED BY <2>5, <2>6 DEF HeaderOpened, n, len, first
  <1>13. Opened(b, c, k)
    BY <1>10, <1>11, <1>12 DEF Opened, first, f
  <1>14. Open(b, k) = c
    BY DEF Open, c, e, n, len, f
  <1> QED BY <1>13, <1>14
-----------------------------------------------------------------------------
(* The words of a slot.                                                    *)
LEMMA OpenedAddr ==
    ASSUME NEW b, NEW c, NEW k, Opened(b, c, k),
           \A v \in DOMAIN b.addr : v \notin SlotNames(k, FunctionIn(program, b, k))
    PROVE  /\ DOMAIN c.addr = DOMAIN b.addr \cup SlotNames(k, FunctionIn(program, b, k))
           /\ \A v \in DOMAIN b.addr : c.addr[v] = b.addr[v]
           /\ \A j \in DOMAIN FunctionIn(program, b, k).locals :
                 c.addr[Local(k, j)] = SlotAddress(b, FirstOfArea(b, k), FunctionIn(program, b, k).locals[j])
           /\ \A j \in DOMAIN FunctionIn(program, b, k).temps :
                 c.addr[Temp(k, j)] = SlotAddress(b, FirstOfArea(b, k), FunctionIn(program, b, k).temps[j])
  <1> DEFINE f == FunctionIn(program, b, k)
             first == FirstOfArea(b, k)
             new == SlotAddresses(b, first, k, f)
  <1>1. c.addr = Over(new, b.addr)
    BY DEF Opened
  <1>2. DOMAIN new = SlotNames(k, f)
    BY DEF SlotAddresses, SlotNames
  <1>3. /\ \A j \in DOMAIN f.locals : new[Local(k, j)] = SlotAddress(b, first, f.locals[j])
        /\ \A j \in DOMAIN f.temps : new[Temp(k, j)] = SlotAddress(b, first, f.temps[j])
    <2> HIDE DEF f, first
    <2>1. ASSUME NEW j \in DOMAIN f.locals PROVE new[Local(k, j)] = SlotAddress(b, first, f.locals[j])
      <3>1. Local(k, j)[1] = "local" /\ Local(k, j)[3] = j
        BY DEF Local
      <3> QED BY <2>1, <3>1 DEF SlotAddresses
    <2>2. ASSUME NEW j \in DOMAIN f.temps PROVE new[Temp(k, j)] = SlotAddress(b, first, f.temps[j])
      <3>1. Temp(k, j)[1] # "local" /\ Temp(k, j)[3] = j
        BY DEF Temp
      <3> QED BY <2>2, <3>1 DEF SlotAddresses
    <2> QED BY <2>1, <2>2
  <1> HIDE DEF new, first, f
  <1>4. /\ DOMAIN c.addr = DOMAIN new \cup DOMAIN b.addr
        /\ \A v \in DOMAIN new : c.addr[v] = new[v]
        /\ \A v \in DOMAIN b.addr : v \notin DOMAIN new => c.addr[v] = b.addr[v]
    BY <1>1 DEF Over
  <1>5. \A v \in DOMAIN b.addr : v \notin DOMAIN new
    BY <1>2 DEF f
  <1>6. /\ \A j \in DOMAIN f.locals : Local(k, j) \in DOMAIN new
        /\ \A j \in DOMAIN f.temps : Temp(k, j) \in DOMAIN new
    BY <1>2 DEF SlotNames
  <1>7. DOMAIN c.addr = DOMAIN b.addr \cup SlotNames(k, f)
    BY <1>2, <1>4
  <1>8. /\ \A j \in DOMAIN f.locals : c.addr[Local(k, j)] = SlotAddress(b, first, f.locals[j])
        /\ \A j \in DOMAIN f.temps : c.addr[Temp(k, j)] = SlotAddress(b, first, f.temps[j])
    BY <1>3, <1>4, <1>6
  <1> QED BY <1>4, <1>5, <1>7, <1>8 DEF f, first

(* How long the file becomes.                                              *)
LEMMA OpenedRoom ==
    ASSUME IsProgram(program, flags), NEW b, NEW c, NEW k \in DOMAIN b.values, NEW cd,
           CodeFile(b, cd), HasCodeIn(program, b, k), Opened(b, c, k)
    PROVE  LET alloc == FunctionIn(program, b, k).allocated
               first == FirstOfArea(b, k)
           IN /\ first \in Nat /\ alloc \in Nat /\ b.globals \in Seq(Int) /\ c.globals \in Seq(Int)
              /\ Len(b.globals) \in Nat /\ Len(c.globals) \in Nat
              /\ Len(b.globals) <= Len(c.globals) /\ first + alloc <= Len(c.globals)
              /\ b.firstlocal <= first
              /\ OverlapsIn(program, flags, b, k) => first + alloc <= b.firstlocal + b.maxlocals
              /\ ~OverlapsIn(program, flags, b, k) => b.firstlocal + b.maxlocals <= first
              /\ \A i \in 1 .. Len(b.globals) : c.globals[i] = b.globals[i]
  <1> DEFINE alloc == FunctionIn(program, b, k).allocated
             first == FirstOfArea(b, k)
             more  == first + alloc - Len(b.globals)
  <1>1. Typed(program, b) /\ RoomOK(program, b, DOMAIN b.values) /\ AreaOK(program, b)
    BY DEF CodeFile, FileInv
  <1>2. /\ b.globals \in Seq(Int) /\ Len(b.globals) \in Nat /\ b.firstlocal \in Nat
        /\ b.maxlocals \in Nat
    BY <1>1, LenProperties DEF Typed
  <1>3. alloc \in Nat
    BY <1>1, FunctionsAre DEF HasCodeIn
  <1>4. b.firstlocal + b.maxlocals <= Len(b.globals)
    BY <1>1 DEF AreaOK
  <1>5. OverlapsIn(program, flags, b, k) => first = b.firstlocal /\ alloc <= b.maxlocals
    BY <1>1 DEF FirstOfArea, RoomOK, OverlapsIn, HasCodeIn
  <1>6. ~OverlapsIn(program, flags, b, k) => first = Len(b.globals)
    BY DEF FirstOfArea
  <1> HIDE DEF first, alloc
  <1>7. first \in Nat /\ more \in Int
    BY <1>2, <1>3, <1>5, <1>6
  <1>8. Zeros(more) \in Seq(Int) /\ Len(Zeros(more)) = Larger(more, 0) /\ Larger(more, 0) \in Nat
    <2> DEFINE n == Larger(more, 0)
    <2>1. n \in Nat
      BY <1>7 DEF Larger
    <2>2. Zeros(more) = [j \in 1 .. n |-> 0]
      BY DEF Zeros
    <2> HIDE DEF n
    <2>3. Zeros(more) \in [1 .. n -> Int]
      BY <2>2
    <2> QED BY <2>1, <2>3, MapIsSeq DEF n
  <1>9. c.globals = b.globals \o Zeros(more)
    BY DEF Opened, first, alloc
  <1>10. Larger(more, 0) >= more /\ Larger(more, 0) >= 0
    BY <1>7 DEF Larger
  <1> DEFINE words == Zeros(more)
  <1> HIDE DEF words
  <1>11. /\ c.globals \in Seq(Int) /\ Len(c.globals) = Len(b.globals) + Len(words)
         /\ \A i \in 1 .. Len(b.globals) : c.globals[i] = b.globals[i]
    <2>1. words \in Seq(Int) /\ c.globals = b.globals \o words
      BY <1>8, <1>9 DEF words
    <2>2. /\ b.globals \o words \in Seq(Int) /\ Len(b.globals \o words) = Len(b.globals) + Len(words)
          /\ \A i \in 1 .. Len(b.globals) : (b.globals \o words)[i] = b.globals[i]
      BY <1>2, <2>1, ConcatIs
    <2> QED BY <2>1, <2>2
  <1>12. Len(c.globals) = Len(b.globals) + Larger(more, 0)
    BY <1>8, <1>11 DEF words
  <1>13. /\ Len(c.globals) \in Nat /\ Len(b.globals) <= Len(c.globals) /\ first + alloc <= Len(c.globals)
    <2> DEFINE n == Larger(more, 0)
    <2>1. n \in Nat /\ n >= more /\ n >= 0 /\ Len(c.globals) = Len(b.globals) + n
      BY <1>8, <1>10, <1>12
    <2> HIDE DEF n
    <2> QED BY <2>1, <1>2, <1>3, <1>7
  <1>14. /\ b.firstlocal <= first
         /\ OverlapsIn(program, flags, b, k) => first + alloc <= b.firstlocal + b.maxlocals
         /\ ~OverlapsIn(program, flags, b, k) => b.firstlocal + b.maxlocals <= first
    BY <1>2, <1>3, <1>4, <1>5, <1>6, <1>7
  <1> QED BY <1>2, <1>3, <1>7, <1>11, <1>13, <1>14 DEF first, alloc

(* The names of its slots are new.                                         *)
LEMMA SlotsAreNew ==
    ASSUME NEW b, NEW k \in Nat, CodeFile(b, 1 .. k - 1), NEW f
    PROVE  /\ \A v \in DOMAIN b.addr : v \notin SlotNames(k, f)
           /\ \A v \in DOMAIN b.addr : v[1] \in {"local", "temp"} =>
                 /\ v[2] \in 1 .. k - 1 /\ HasCodeIn(program, b, v[2])
                 /\ v[1] = "local" => v[3] \in DOMAIN FunctionIn(program, b, v[2]).locals
                 /\ v[1] = "temp" => v[3] \in DOMAIN FunctionIn(program, b, v[2]).temps
  <1>1. KnownPlaces(program, b, DOMAIN b.values, DOMAIN program.fields, AreaPlaces, 1 .. k - 1)
    BY DEF CodeFile, FileInv
  <1>2. ASSUME NEW v \in DOMAIN b.addr, v[1] \in {"local", "temp"}
        PROVE  /\ v[2] \in 1 .. k - 1 /\ HasCodeIn(program, b, v[2])
               /\ v[1] = "local" => v[3] \in DOMAIN FunctionIn(program, b, v[2]).locals
               /\ v[1] = "temp" => v[3] \in DOMAIN FunctionIn(program, b, v[2]).temps
    <2>1. \/ \E m \in 1 .. k - 1 : /\ HasCodeIn(program, b, m)
                                   /\ \E j \in DOMAIN FunctionIn(program, b, m).locals : v = Local(m, j)
          \/ \E m \in 1 .. k - 1 : /\ HasCodeIn(program, b, m)
                                   /\ \E j \in DOMAIN FunctionIn(program, b, m).temps : v = Temp(m, j)
      BY <1>1, <1>2 DEF KnownPlaces, Value, FieldGlobal, AreaPlaces, Nil, VinstrTemp, ExtParam
    <2> QED BY <2>1 DEF Local, Temp
  <1>3. ASSUME NEW v \in DOMAIN b.addr, v \in SlotNames(k, f) PROVE FALSE
    <2>1. v[1] \in {"local", "temp"} /\ v[2] = k
      BY <1>3 DEF SlotNames, Local, Temp
    <2>2. k \in 1 .. k - 1
      BY <1>2, <2>1
    <2> QED BY <2>2
  <1> QED BY <1>2, <1>3
-----------------------------------------------------------------------------
(* What generateFunctionLocals leaves of what there was.                   *)
Opens(b, c, k) ==
    /\ SameNames(b, c) /\ HeaderOpened(b, c, k) /\ WordsKept(b, c)
    /\ DOMAIN c.addr = DOMAIN b.addr \cup SlotNames(k, FunctionIn(program, b, k))

LEMMA OpenedKeeps ==
    ASSUME IsProgram(program, flags), NEW b, NEW c, NEW k \in DOMAIN b.values,
           CodeFile(b, 1 .. k - 1), HasCodeIn(program, b, k), Opened(b, c, k)
    PROVE  CodeFile(c, 1 .. k) /\ Opens(b, c, k)
  <1> DEFINE f     == FunctionIn(program, b, k)
             first == FirstOfArea(b, k)
             vd    == DOMAIN b.values
             cd    == 1 .. k - 1
  <1>1. /\ Typed(program, b) /\ FloatsOK(b)
        /\ KnownPlaces(program, b, vd, DOMAIN program.fields, AreaPlaces, cd)
        /\ Apart(program, b) /\ ReusableOK(b) /\ LaidOK(program, flags, b, cd)
        /\ SlotsOK(program, flags, b) /\ HeadersOK(program, b, vd)
        /\ AreaOK(program, b) /\ RoomOK(program, b, vd)
    BY DEF CodeFile, FileInv, Placed
  <1>2. k \in Nat /\ k >= 1 /\ 1 .. k = cd \cup {k} /\ k \notin cd
    <2>1. DOMAIN b.values = 1 .. Len(b.values)
      BY <1>1, IsSeqLen DEF Typed, ValuesOK
    <2> QED BY <2>1
  <1>3. /\ SameNames(b, c) /\ HeaderOpened(b, c, k)
    BY DEF Opened
  <1>4. /\ c.values = b.values /\ c.def = b.def /\ c.firstlocal = b.firstlocal
        /\ c.firsttemp = b.firsttemp /\ c.maxlocals = b.maxlocals /\ c.maxtemps = b.maxtemps
        /\ c.extparams = b.extparams
    BY <1>3 DEF SameNames
  <1>5. /\ first \in Nat /\ f.allocated \in Nat /\ b.globals \in Seq(Int) /\ c.globals \in Seq(Int)
        /\ Len(b.globals) \in Nat /\ Len(c.globals) \in Nat
        /\ Len(b.globals) <= Len(c.globals) /\ first + f.allocated <= Len(c.globals)
        /\ b.firstlocal <= first
        /\ OverlapsIn(program, flags, b, k) => first + f.allocated <= b.firstlocal + b.maxlocals
        /\ ~OverlapsIn(program, flags, b, k) => b.firstlocal + b.maxlocals <= first
        /\ \A i \in 1 .. Len(b.globals) : c.globals[i] = b.globals[i]
    BY OpenedRoom
  <1>6. /\ \A v \in DOMAIN b.addr : v \notin SlotNames(k, f)
        /\ \A v \in DOMAIN b.addr : v[1] \in {"local", "temp"} =>
              /\ v[2] \in cd /\ HasCodeIn(program, b, v[2])
    BY <1>2, SlotsAreNew
  <1>7. /\ DOMAIN c.addr = DOMAIN b.addr \cup SlotNames(k, f)
        /\ \A v \in DOMAIN b.addr : c.addr[v] = b.addr[v]
        /\ \A j \in DOMAIN f.locals : c.addr[Local(k, j)] = SlotAddress(b, first, f.locals[j])
        /\ \A j \in DOMAIN f.temps : c.addr[Temp(k, j)] = SlotAddress(b, first, f.temps[j])
    BY <1>6, OpenedAddr
  <1>8. IsFunction(program, f, flags)
    BY <1>1, FunctionsAre DEF HasCodeIn
  <1>9. /\ f.locals \in Seq(SlotRecords) /\ f.temps \in Seq(SlotRecords)
        /\ \A j \in DOMAIN f.locals : j \in Nat /\ f.locals[j] \in SlotRecords
        /\ \A j \in DOMAIN f.temps : j \in Nat /\ f.temps[j] \in SlotRecords
    <2>1. f.locals \in Seq(SlotRecords) /\ f.temps \in Seq(SlotRecords)
      BY <1>8 DEF IsFunction
    <2> HIDE DEF f
    <2> QED BY <2>1, LenProperties
  <1>10. /\ \A m : FunctionIn(program, c, m) = FunctionIn(program, b, m)
         /\ \A m : HasCodeIn(program, c, m) <=> HasCodeIn(program, b, m)
         /\ \A m : OverlapsIn(program, flags, c, m) <=> OverlapsIn(program, flags, b, m)
    BY <1>4 DEF FunctionIn, HasCodeIn, OverlapsIn
  <1> HIDE DEF f, first, vd, cd
  (* The headers. *)
  <1>11. /\ FirstIn(c, k) = first
         /\ \A m \in DOMAIN b.def : m # k => FirstIn(c, m) = FirstIn(b, m)
         /\ HeadersOK(program, c, vd)
    <2>1. k \in DOMAIN b.def /\ b.def[k] \in 1 .. Len(b.functions)
          /\ b.functions[b.def[k]] \in Headers
      <3>1. k \in DOMAIN b.def
        BY DEF HasCodeIn
      <3>2. b.def[k] \in DOMAIN b.functions /\ b.functions[b.def[k]] \in Headers
        BY <1>1, <3>1, LayoutNat
      <3> QED BY <1>1, <3>1, <3>2, LenProperties DEF Typed
    <2>2. ASSUME NEW m \in DOMAIN b.def, m # k
          PROVE  c.functions[b.def[m]] = b.functions[b.def[m]]
      <3>1. b.def[m] \in DOMAIN b.functions
        BY <1>1, LayoutNat
      <3>2. b.def[m] # b.def[k]
        BY <1>1, <2>1, <2>2 DEF HeadersOK
      <3>3. b.def[m] \in 1 .. Len(b.functions)
        BY <1>1, <3>1, LenProperties DEF Typed
      <3> QED BY <1>3, <3>2, <3>3 DEF HeaderOpened
    <2>3. c.functions[b.def[k]] = [b.functions[b.def[k]] EXCEPT !.entry = Len(b.statements),
                                                               !.firstlocal = first]
      BY <1>3 DEF HeaderOpened, first
    <2>4. /\ c.functions[b.def[k]].firstlocal = first
          /\ c.functions[b.def[k]].of = b.functions[b.def[k]].of
          /\ c.functions[b.def[k]].locals = b.functions[b.def[k]].locals
      BY <2>1, <2>3 DEF Headers
    <2>5. FirstIn(c, k) = first /\ \A m \in DOMAIN b.def : m # k => FirstIn(c, m) = FirstIn(b, m)
      BY <1>4, <2>2, <2>4 DEF FirstIn
    <2>6. Len(c.functions) = Len(b.functions)
      BY <1>3 DEF HeaderOpened
    <2>7. HeadersOK(program, c, vd)
      <3> SUFFICES ASSUME NEW m \in DOMAIN c.def
                   PROVE  /\ HasFunction(c.values[m])
                          /\ c.def[m] \in 2 .. Len(c.functions)
                          /\ c.functions[c.def[m]].of = m
                          /\ c.functions[c.def[m]].locals = FunctionIn(program, c, m).allocated
        BY <1>1, <1>4, <2>6 DEF HeadersOK
      <3>1. /\ HasFunction(b.values[m]) /\ b.def[m] \in 2 .. Len(b.functions)
            /\ b.functions[b.def[m]].of = m
            /\ b.functions[b.def[m]].locals = FunctionIn(program, b, m).allocated
        BY <1>1, <1>4 DEF HeadersOK
      <3>2. CASE m = k
        BY <3>1, <3>2, <1>4, <1>10, <2>4, <2>6
      <3>3. CASE m # k
        BY <3>1, <3>3, <1>4, <1>10, <2>2, <2>6
      <3> QED BY <3>2, <3>3
    <2> QED BY <2>5, <2>7
  (* The places. *)
  <1>12. /\ PlacesIn(c) = PlacesIn(b)
         /\ \A v \in PlacesIn(b) : v \in DOMAIN b.addr /\ WordsIn(program, c, v) = WordsIn(program, b, v)
         /\ \A v, w : SameConstantIn(c, v, w) <=> SameConstantIn(b, v, w)
    <2>1. \A v \in SlotNames(k, f) : v[1] \in {"local", "temp"}
      BY DEF SlotNames, Local, Temp
    <2>2. PlacesIn(c) = PlacesIn(b)
      BY <2>1, <1>4, <1>7 DEF PlacesIn
    <2>3. \A v \in PlacesIn(b) : v \in DOMAIN b.addr
      BY DEF PlacesIn
    <2> QED BY <2>2, <2>3, <1>4, <1>7 DEF WordsIn, TypeIn, SameConstantIn
  <1>13. Apart(program, c)
    <2>1. \A v \in PlacesIn(b) : WordsIn(program, b, v) \subseteq ReservedWords .. Len(c.globals) - 1
      <3>1. ReservedWords .. Len(b.globals) - 1 \subseteq ReservedWords .. Len(c.globals) - 1
        BY <1>5 DEF ReservedWords
      <3> QED BY <3>1, <1>1 DEF Apart
    <2>2. ReservedWords <= Len(c.globals)
      BY <1>1, <1>5 DEF Apart, ReservedWords
    <2> QED BY <2>1, <2>2, <1>1, <1>12 DEF Apart
  <1>14. ReusableOK(c)
    BY <1>1, <1>4, <1>3, <1>12 DEF ReusableOK, SameNames
  <1>15. /\ Laid(program, c, 1 .. k) = Laid(program, b, cd) \cup {k}
         /\ \A m \in Laid(program, b, cd) :
               m \in DOMAIN b.def /\ m # k /\ FirstIn(c, m) = FirstIn(b, m) /\ FirstIn(b, m) \in Nat
               /\ AreaIn(program, c, m) = AreaIn(program, b, m)
               /\ FunctionIn(program, b, m).allocated \in Nat
    <2>1. Laid(program, c, 1 .. k) = Laid(program, b, cd) \cup {k}
      BY <1>2, <1>10 DEF Laid
    <2>2. \A m \in Laid(program, b, cd) : m \in DOMAIN b.def /\ m # k
      BY <1>2 DEF Laid, HasCodeIn
    <2>3. \A m \in Laid(program, b, cd) :
             FirstIn(b, m) \in Nat /\ FunctionIn(program, b, m).allocated \in Nat
      BY <1>1, LaidNat
    <2> QED BY <2>1, <2>2, <2>3, <1>10, <1>11 DEF AreaIn
  <1>16. AreaIn(program, c, k) = Span(first, f.allocated)
    BY <1>10, <1>11 DEF AreaIn, f
  <1>17. LaidOK(program, flags, c, 1 .. k)
    <2> SUFFICES ASSUME NEW m \in Laid(program, c, 1 .. k)
                 PROVE  IF OverlapsIn(program, flags, b, m) THEN FirstIn(c, m) = b.firstlocal
                        ELSE /\ b.firstlocal + b.maxlocals <= FirstIn(c, m)
                             /\ FirstIn(c, m) + FunctionIn(program, b, m).allocated <= Len(c.globals)
                             /\ \A v \in PlacesIn(b) :
                                   WordsIn(program, b, v) \cap AreaIn(program, c, m) = {}
                             /\ \A n \in Laid(program, c, 1 .. k) :
                                   m = n \/ OverlapsIn(program, flags, b, n)
                                     \/ AreaIn(program, c, m) \cap AreaIn(program, c, n) = {}
      BY <1>4, <1>10, <1>12 DEF LaidOK
    <2>1. ASSUME NEW n \in Laid(program, b, cd), ~OverlapsIn(program, flags, b, n),
                 ~OverlapsIn(program, flags, b, k)
          PROVE  AreaIn(program, b, n) \cap AreaIn(program, c, k) = {}
      <3>1. FirstIn(b, n) + FunctionIn(program, b, n).allocated <= Len(b.globals)
        BY <1>1, <2>1 DEF LaidOK
      <3>2. first = Len(b.globals)
        BY <2>1 DEF first, FirstOfArea
      <3>3. /\ AreaIn(program, b, n) = FirstIn(b, n) .. FirstIn(b, n) + FunctionIn(program, b, n).allocated - 1
            /\ AreaIn(program, c, k) = first .. first + f.allocated - 1
        BY <1>16 DEF AreaIn, Span
      <3> QED BY <3>1, <3>2, <3>3, <1>5, <1>15, SMTT(30)
    <2>2. CASE m = k
      <3>1. CASE OverlapsIn(program, flags, b, k)
        BY <2>2, <3>1, <1>11 DEF first, FirstOfArea
      <3>2. CASE ~OverlapsIn(program, flags, b, k)
        <4>1. \A v \in PlacesIn(b) : WordsIn(program, b, v) \cap AreaIn(program, c, k) = {}
          <5>1. AreaIn(program, c, k) = Len(b.globals) .. Len(b.globals) + f.allocated - 1
            BY <3>2, <1>16 DEF first, FirstOfArea, Span
          <5>2. \A v \in PlacesIn(b) : WordsIn(program, b, v) \subseteq ReservedWords .. Len(b.globals) - 1
            BY <1>1 DEF Apart
          <5> QED BY <5>1, <5>2, <1>5
        <4>2. \A n \in Laid(program, c, 1 .. k) :
                 m = n \/ OverlapsIn(program, flags, b, n)
                   \/ AreaIn(program, c, m) \cap AreaIn(program, c, n) = {}
          BY <2>1, <2>2, <3>2, <1>15
        <4> QED BY <2>2, <3>2, <4>1, <4>2, <1>5, <1>11 DEF f
      <3> QED BY <3>1, <3>2
    <2>3. CASE m # k
      <3>1. m \in Laid(program, b, cd)
        BY <2>3, <1>15
      <3>2. CASE OverlapsIn(program, flags, b, m)
        BY <3>1, <3>2, <1>1, <1>15 DEF LaidOK
      <3>3. CASE ~OverlapsIn(program, flags, b, m)
        <4>1. /\ b.firstlocal + b.maxlocals <= FirstIn(b, m)
              /\ FirstIn(b, m) + FunctionIn(program, b, m).allocated <= Len(b.globals)
              /\ \A v \in PlacesIn(b) : WordsIn(program, b, v) \cap AreaIn(program, b, m) = {}
              /\ \A n \in Laid(program, b, cd) :
                    m = n \/ OverlapsIn(program, flags, b, n)
                      \/ AreaIn(program, b, m) \cap AreaIn(program, b, n) = {}
          BY <3>1, <3>3, <1>1 DEF LaidOK
        <4>2. FirstIn(c, m) + FunctionIn(program, b, m).allocated <= Len(c.globals)
          BY <3>1, <4>1, <1>5, <1>15
        <4>3. \A n \in Laid(program, c, 1 .. k) :
                 m = n \/ OverlapsIn(program, flags, b, n)
                   \/ AreaIn(program, c, m) \cap AreaIn(program, c, n) = {}
          BY <2>1, <3>1, <3>3, <4>1, <1>15
        <4> QED BY <3>1, <3>3, <4>1, <4>2, <4>3, <1>15
      <3> QED BY <3>2, <3>3
    <2> QED BY <2>2, <2>3
  (* The slots. *)
  <1>18. \A slot : SlotAddress(b, first, slot) = SlotWord(flags, c, k, slot)
    BY <1>4, <1>11 DEF SlotAddress, SlotWord, ToGlobalTemps, Flag
  <1>19. SlotsOK(program, flags, c)
    <2>1. ASSUME NEW v \in DOMAIN b.addr
          PROVE  /\ v[1] = "local" =>
                       c.addr[v] = SlotWord(flags, c, v[2], FunctionIn(program, c, v[2]).locals[v[3]])
                 /\ v[1] = "temp" =>
                       c.addr[v] = SlotWord(flags, c, v[2], FunctionIn(program, c, v[2]).temps[v[3]])
      <3>1. v[1] \in {"local", "temp"} =>
               \A slot : SlotWord(flags, c, v[2], slot) = SlotWord(flags, b, v[2], slot)
        <4>1. v[1] \in {"local", "temp"} => v[2] \in DOMAIN b.def /\ v[2] # k
          BY <1>2, <1>6 DEF HasCodeIn
        <4> QED BY <4>1, <1>4, <1>11 DEF SlotWord
      <3> QED BY <3>1, <1>1, <1>7, <1>10 DEF SlotsOK
    <2>2. ASSUME NEW j \in DOMAIN f.locals
          PROVE  c.addr[Local(k, j)] = SlotWord(flags, c, k, FunctionIn(program, c, k).locals[j])
      BY <2>2, <1>7, <1>10, <1>18 DEF f
    <2>3. ASSUME NEW j \in DOMAIN f.temps
          PROVE  c.addr[Temp(k, j)] = SlotWord(flags, c, k, FunctionIn(program, c, k).temps[j])
      BY <2>3, <1>7, <1>10, <1>18 DEF f
    <2>4. ASSUME NEW v \in SlotNames(k, f)
          PROVE  /\ v[1] = "local" =>
                       c.addr[v] = SlotWord(flags, c, v[2], FunctionIn(program, c, v[2]).locals[v[3]])
                 /\ v[1] = "temp" =>
                       c.addr[v] = SlotWord(flags, c, v[2], FunctionIn(program, c, v[2]).temps[v[3]])
      <3>1. CASE \E j \in DOMAIN f.locals : v = Local(k, j)
        BY <3>1, <2>2 DEF Local
      <3>2. CASE \E j \in DOMAIN f.temps : v = Temp(k, j)
        BY <3>2, <2>3 DEF Temp
      <3> QED BY <3>1, <3>2 DEF SlotNames
    <2> QED BY <2>1, <2>4, <1>7 DEF SlotsOK
  <1>20. KnownPlaces(program, c, vd, DOMAIN program.fields, AreaPlaces, 1 .. k)
    <2>1. KnownPlaces(program, b, vd, DOMAIN program.fields, AreaPlaces, 1 .. k)
      <3>1. cd \subseteq 1 .. k
        BY <1>2
      <3> QED BY <3>1, <1>1, NamedGrows
    <2>2. k \in 1 .. k /\ HasCodeIn(program, c, k) /\ f = FunctionIn(program, c, k)
      BY <1>2, <1>10 DEF f
    <2> QED BY <2>1, <2>2, <1>4, <1>7, <1>10 DEF KnownPlaces, SlotNames
  <1>21. Typed(program, c)
    <2>1. IsMap(c.addr, PlaceNames, Nat)
      <3>1. IsMap(b.addr, PlaceNames, Nat) /\ b.firsttemp \in Nat
        BY <1>1 DEF Typed
      <3>2. \A slot \in SlotRecords : SlotAddress(b, first, slot) \in Nat
        BY <3>1, <1>5 DEF SlotAddress, SlotRecords
      <3>3. \A v \in SlotNames(k, f) : c.addr[v] \in Nat /\ v \in PlaceNames
        BY <3>2, <1>2, <1>7, <1>9 DEF SlotNames, PlaceNames
      <3>4. \A v \in DOMAIN c.addr : c.addr[v] \in Nat /\ v \in PlaceNames
        BY <3>1, <3>3, <1>7 DEF IsMap
      <3>5. c.addr = [v \in DOMAIN c.addr |-> c.addr[v]]
        BY DEF Opened, Over
      <3> QED BY <3>4, <3>5 DEF IsMap
    <2>2. c.functions \in Seq(Headers)
      BY <1>3 DEF HeaderOpened
    <2> QED BY <2>1, <2>2, <1>1, <1>3, <1>5 DEF Typed, SameNames
  <1>22. FloatsOK(c) /\ RoomOK(program, c, vd)
    BY <1>1, <1>3, <1>4, <1>10 DEF FloatsOK, RoomOK, SameNames
  <1>23. AreaOK(program, c)
    <2>1. c.firstlocal + c.maxlocals <= Len(c.globals)
      <3>1. b.firstlocal \in Nat /\ b.maxlocals \in Nat
        BY <1>1 DEF Typed
      <3> QED BY <3>1, <1>1, <1>4, <1>5 DEF AreaOK
    <2> QED BY <2>1, <1>1, <1>4, <1>12 DEF AreaOK, AreaWords
  <1>24. WordsKept(b, c)
    BY <1>5, <1>7 DEF WordsKept
  <1>25. CodeFile(c, 1 .. k)
    <2>1. DOMAIN c.values = vd
      BY <1>4 DEF vd
    <2> QED BY <2>1, <1>11, <1>13, <1>14, <1>17, <1>19, <1>20, <1>21, <1>22, <1>23
           DEF CodeFile, FileInv, Placed
  <1> QED BY <1>3, <1>7, <1>24, <1>25 DEF Opens, f
-----------------------------------------------------------------------------
LEMMA StartCodeDoes ==
    ASSUME LayoutInv, StartCode
    PROVE  /\ AtCode /\ HasCodeIn(program, builder, item)
           /\ CodeFile(builder', 1 .. item) /\ Opens(builder, builder', item)
           /\ stage' = "copy" /\ nthcall' = 0 /\ nthparm' = FirstCopied(ThisFunction)
           /\ FirstCopied(ThisFunction) \in Nat
           /\ UNCHANGED <<program, flags, item>>
  <1>1. AtCode /\ HasCode(This, item)
    BY DEF StartCode
  <1>2. /\ IsProgram(program, flags) /\ CodeFile(builder, 1 .. item - 1)
        /\ item \in DOMAIN builder.values /\ HasCodeIn(program, builder, item)
        /\ ThisFunction = FunctionIn(program, builder, item)
    BY <1>1, AtCodeIs DEF ThisFunction
  <1> DEFINE c == Open(builder, item)
  <1>3. /\ builder' = c /\ stage' = "copy" /\ nthcall' = 0 /\ nthparm' = FirstCopied(ThisFunction)
        /\ UNCHANGED <<program, flags, item>>
    BY <1>2 DEF StartCode, Turn, Open
  <1>4. Typed(program, builder) /\ HeadersOK(program, builder, DOMAIN builder.values)
    BY <1>2 DEF CodeFile, FileInv
  <1>5. Opened(builder, c, item)
    BY <1>2, <1>4, OpenIs
  <1> HIDE DEF c
  <1>6. CodeFile(c, 1 .. item) /\ Opens(builder, c, item)
    BY <1>2, <1>5, OpenedKeeps
  <1>7. FirstCopied(ThisFunction) \in Nat
    <2>1. IsFunction(program, ThisFunction, flags)
      BY <1>2, <1>4, FunctionsAre DEF HasCodeIn
    <2>2. Len(ThisFunction.params) \in Nat
      BY <2>1, LenProperties DEF IsFunction
    <2> QED BY <2>2 DEF FirstCopied
  <1> QED BY <1>1, <1>2, <1>3, <1>6, <1>7

LEMMA StartCodeKeeps ==
    ASSUME LayoutInv, StartCode
    PROVE  LayoutInv'
  <1>1. /\ AtCode /\ HasCodeIn(program, builder, item)
        /\ CodeFile(builder', 1 .. item) /\ SameNames(builder, builder')
        /\ stage' = "copy" /\ nthcall' \in Nat /\ nthparm' \in Nat
        /\ UNCHANGED <<program, flags, item>>
    BY StartCodeDoes DEF Opens
  <1>2. stage \in InCode /\ item <= Len(builder.values)
    BY <1>1, AtCodeIs
  <1>3. builder'.values = builder.values /\ builder'.fieldaddr = builder.fieldaddr
        /\ HasCodeIn(program, builder', item)
    BY <1>1 DEF SameNames, HasCodeIn, FunctionIn
  <1>4. StageOK' /\ CodeDone' = 1 .. item
    BY <1>1, <1>2, <1>3, TurnStage
  <1>5. stage' \in CodeStages /\ CodeFile(builder', CodeDone')
    BY <1>1, <1>4 DEF CodeStages
  <1> QED BY <1>1, <1>4, <1>5, CodeStep

(* The layout is kept by every step.                                       *)
LEMMA LayoutStep ==
    ASSUME LayoutInv, [WriterNext]_writerVars
    PROVE  LayoutInv'
  <1>1. CASE CollectReusables
    BY <1>1, CollectKeeps
  <1>2. CASE SplitVector
    BY <1>2, SplitKeeps
  <1>3. CASE PrepareField
    BY <1>3, PrepareKeeps
  <1>4. CASE LoopDone
    BY <1>4, LoopKeeps
  <1>5. CASE SkipGlobal
    BY <1>5, SkipGlobalKeeps
  <1>6. CASE GenerateWordless \/ GenerateMerged \/ GenerateString \/ GenerateWords \/ GenerateFunction
    BY <1>6, GlobalKeeps
  <1>7. CASE GenField
    BY <1>7, FieldKeeps
  <1>8. CASE Areas
    BY <1>8, AreasKeeps
  <1>9. CASE NoCode
    BY <1>9, NoCodeKeeps
  <1>10. CASE StartCode
    BY <1>10, StartCodeKeeps
  <1>11. CASE CopyParameter \/ CopyDone \/ ComputeInPlace \/ ComputeDone \/ SkipStore
                \/ StoreArgument \/ StoreSplitVector \/ PushCall
    BY <1>11, BodyKeeps
  <1>12. CASE EndCode
    BY <1>12, EndCodeKeeps
  <1>13. CASE Finish
    BY <1>13, FinishKeeps
  <1>14. CASE Ended \/ UNCHANGED writerVars
    BY <1>14, RestKeeps DEF Ended
  <1> QED BY <1>1, <1>2, <1>3, <1>4, <1>5, <1>6, <1>7, <1>8, <1>9, <1>10, <1>11, <1>12, <1>13,
             <1>14 DEF WriterNext

(* Where everything is in the file: LayoutInv, the inductive invariant,    *)
(* holds after every step of generate(), whatever the program and the      *)
(* flags.                                                                  *)
THEOREM LayoutKept == WriterSpec => []LayoutInv
  <1>1. WriterInit => LayoutInv
    BY LayoutInit
  <1>2. LayoutInv /\ [WriterNext]_writerVars => LayoutInv'
    BY LayoutStep
  <1> QED BY <1>1, <1>2, PTL DEF WriterSpec

(* WordsApart is what LayoutInv says in the end.                           *)
LEMMA DoneStart ==
    ASSUME LayoutInv, Done
    PROVE  /\ IsProgram(program, flags) /\ Typed(program, builder)
           /\ Apart(program, builder) /\ LaidOK(program, flags, builder, DOMAIN builder.values)
           /\ SlotsOK(program, flags, builder) /\ AreaOK(program, builder)
           /\ HeadersOK(program, builder, DOMAIN builder.values)
           /\ RoomOK(program, builder, DOMAIN builder.values)
           /\ KnownPlaces(program, builder, DOMAIN builder.values, DOMAIN program.fields, AreaPlaces,
                     DOMAIN builder.values)
  <1>1. ValuesDone = DOMAIN builder.values /\ FieldsDone = DOMAIN program.fields
        /\ CodeDone = DOMAIN builder.values /\ AreasDone /\ AreaPlacesDone = AreaPlaces
    BY SMTT(30) DEF Done, ValuesDone, FieldsDone, CodeDone, AreasDone, AreaPlacesDone, CodeStages
  <1>2. IsProgram(program, flags)
    BY ProgramIs DEF LayoutInv
  <1> QED BY <1>1, <1>2 DEF LayoutInv, FileInv, Placed

LEMMA LayoutApart == LayoutInv => WordsApart
  <1> SUFFICES ASSUME LayoutInv, Done PROVE WordsApart
    BY DEF WordsApart
  <1> DEFINE L == DOMAIN builder.values
  <1>1. /\ IsProgram(program, flags) /\ Typed(program, builder)
        /\ Apart(program, builder) /\ LaidOK(program, flags, builder, L)
        /\ SlotsOK(program, flags, builder) /\ AreaOK(program, builder)
        /\ HeadersOK(program, builder, L) /\ RoomOK(program, builder, L)
        /\ KnownPlaces(program, builder, L, DOMAIN program.fields, AreaPlaces, L)
    BY DoneStart
  <1>2. /\ Places = PlacesIn(builder)
        /\ \A v \in Places : PlaceWords(v) = WordsIn(program, builder, v)
        /\ \A v, w : SameConstantIn(builder, v, w) => SameConstant(v, w)
    <2>1. \A v \in DOMAIN builder.addr : v[1] = "value" => v = Value(v[2])
      BY <1>1 DEF KnownPlaces, Value, FieldGlobal, AreaPlaces, Nil, VinstrTemp, ExtParam, Local, Temp
    <2>2. Places = PlacesIn(builder)
      BY <2>1 DEF Places, PlacesIn, HasWords
    <2>3. \A v \in Places : v \in DOMAIN builder.addr
      BY DEF Places
    <2>4. \A v \in Places : PlaceWords(v) = WordsIn(program, builder, v)
      BY <2>3 DEF PlaceWords, WordsIn, TypeAt, TypeIn, codeAddress
    <2>5. \A v, w : SameConstantIn(builder, v, w) => SameConstant(v, w)
      BY DEF SameConstant, SameConstantIn
    <2> QED BY <2>2, <2>4, <2>5
  <1>3. \A k \in L : FunctionOf(k) = FunctionIn(program, builder, k)
    BY DEF FunctionOf, FunctionIn
  <1>4. Coded = Laid(program, builder, L)
    BY <1>3 DEF Coded, Functions, HasCode, Laid, HasCodeIn
  <1> HIDE DEF L
  <1>5. ASSUME NEW k \in Coded
        PROVE  /\ k \in L /\ HasCodeIn(program, builder, k) /\ FunctionOf(k) = FunctionIn(program, builder, k)
               /\ LocalArea(k) = AreaIn(program, builder, k)
               /\ FirstIn(builder, k) \in Nat /\ FunctionOf(k).allocated \in Nat
               /\ Overlaps(k) <=> OverlapsIn(program, flags, builder, k)
               /\ FunctionOf(k).globaltemps <= builder.maxtemps
               /\ Overlaps(k) => FunctionOf(k).allocated <= builder.maxlocals
    <2>1. k \in L /\ HasCodeIn(program, builder, k)
      BY <1>4 DEF Laid
    <2>2. FunctionOf(k) = FunctionIn(program, builder, k)
      BY <2>1, <1>3
    <2>3. k \in DOMAIN builder.def /\ HasFunction(builder.values[k])
      BY <2>1 DEF HasCodeIn
    <2>4. Header(k).locals = FunctionOf(k).allocated
      BY <2>2, <2>3, <1>1 DEF HeadersOK, Header
    <2>5. LocalArea(k) = AreaIn(program, builder, k)
      BY <2>2, <2>4 DEF LocalArea, AreaIn, FirstIn, Header
    <2>6. FirstIn(builder, k) \in Nat /\ FunctionOf(k).allocated \in Nat
      BY <1>1, <1>4, <2>2, LaidNat
    <2>7. Overlaps(k) <=> OverlapsIn(program, flags, builder, k)
      BY <2>2 DEF Overlaps, OverlapsIn, Flag
    <2>8. /\ FunctionOf(k).globaltemps <= builder.maxtemps
          /\ Overlaps(k) => FunctionOf(k).allocated <= builder.maxlocals
      BY <1>1, <2>1, <2>2, <2>3 DEF RoomOK, Overlaps
    <2> QED BY <2>1, <2>2, <2>5, <2>6, <2>7, <2>8
  <1>6. /\ builder.firsttemp \in Nat /\ builder.firstlocal \in Nat /\ builder.maxtemps \in Nat
        /\ builder.maxlocals \in Nat /\ Len(builder.globals) \in Nat
        /\ ReservedWords <= builder.firsttemp
        /\ builder.firstlocal = builder.firsttemp + builder.maxtemps
        /\ builder.firstlocal + builder.maxlocals <= Len(builder.globals)
        /\ TempArea = builder.firsttemp .. builder.firsttemp + builder.maxtemps - 1
        /\ AreaWords(builder) = builder.firsttemp .. builder.firstlocal + builder.maxlocals - 1
    BY <1>1, LenProperties DEF Typed, AreaOK, TempArea, Span, AreaWords
  (* Where the area of a function's locals is. *)
  <1>7. ASSUME NEW k \in Coded
        PROVE  /\ Overlaps(k) => /\ FirstIn(builder, k) = builder.firstlocal
                                 /\ LocalArea(k) \subseteq builder.firstlocal .. builder.firstlocal + builder.maxlocals - 1
               /\ ~Overlaps(k) => /\ builder.firstlocal + builder.maxlocals <= FirstIn(builder, k)
                                  /\ FirstIn(builder, k) + FunctionOf(k).allocated <= Len(builder.globals)
                                  /\ \A v \in Places : PlaceWords(v) \cap LocalArea(k) = {}
                                  /\ \A m \in Coded : k = m \/ Overlaps(m) \/ LocalArea(k) \cap LocalArea(m) = {}
    <2>1. LocalArea(k) = FirstIn(builder, k) .. FirstIn(builder, k) + FunctionOf(k).allocated - 1
      BY <1>5 DEF AreaIn, Span
    <2>2. CASE Overlaps(k)
      <3>1. FirstIn(builder, k) = builder.firstlocal
        BY <2>2, <1>1, <1>4, <1>5 DEF LaidOK
      <3>2. FunctionOf(k).allocated <= builder.maxlocals /\ FunctionOf(k).allocated \in Nat
        BY <2>2, <1>5
      <3> QED BY <2>1, <2>2, <3>1, <3>2, <1>6, SMTT(30)
    <2>3. CASE ~Overlaps(k)
      <3>1. ~OverlapsIn(program, flags, builder, k)
        BY <2>3, <1>5
      <3>2. /\ builder.firstlocal + builder.maxlocals <= FirstIn(builder, k)
            /\ FirstIn(builder, k) + FunctionIn(program, builder, k).allocated <= Len(builder.globals)
            /\ \A v \in PlacesIn(builder) :
                  WordsIn(program, builder, v) \cap AreaIn(program, builder, k) = {}
            /\ \A m \in Coded :
                  k = m \/ OverlapsIn(program, flags, builder, m)
                    \/ AreaIn(program, builder, k) \cap AreaIn(program, builder, m) = {}
        BY <3>1, <1>1, <1>4 DEF LaidOK
      <3>3. \A m \in Coded : k = m \/ Overlaps(m) \/ LocalArea(k) \cap LocalArea(m) = {}
        BY <3>2, <1>5
      <3> QED BY <2>3, <3>2, <3>3, <1>2, <1>5
    <2> QED BY <2>2, <2>3
  <1>8. ASSUME NEW k \in Coded
        PROVE  LocalArea(k) = FirstIn(builder, k) .. FirstIn(builder, k) + FunctionOf(k).allocated - 1
    BY <1>5 DEF AreaIn, Span
  (* The places. *)
  <1>9. \A v, w \in Places :
           v = w \/ PlaceWords(v) \cap PlaceWords(w) = {} \/ SameConstant(v, w)
    BY <1>1, <1>2 DEF Apart
  <1>10. \A v \in Places : PlaceWords(v) \subseteq ReservedWords .. Len(builder.globals) - 1
    BY <1>1, <1>2 DEF Apart
  <1>11. \A v \in Places : PlaceWords(v) \cap AreaWords(builder) = {}
    BY <1>1, <1>2 DEF AreaOK
  <1>12. ASSUME NEW k \in Coded, NEW v \in Places
         PROVE  PlaceWords(v) \cap (LocalArea(k) \cup TempArea) = {}
    <2>1. TempArea \subseteq AreaWords(builder)
      BY <1>6
    <2>2. Overlaps(k) => LocalArea(k) \subseteq AreaWords(builder)
      <3>1. builder.firstlocal .. builder.firstlocal + builder.maxlocals - 1 \subseteq AreaWords(builder)
        BY <1>6
      <3> QED BY <3>1, <1>7
    <2> QED BY <2>1, <2>2, <1>7, <1>11
  <1>13. ASSUME NEW k \in Coded
         PROVE  /\ LocalArea(k) \cap TempArea = {}
                /\ LocalArea(k) \subseteq ReservedWords .. Len(builder.globals) - 1
    <2>1. FirstIn(builder, k) \in Nat /\ FunctionOf(k).allocated \in Nat
      BY <1>5
    <2>2. builder.firstlocal <= FirstIn(builder, k)
      BY <2>1, <1>6, <1>7
    <2>3. FirstIn(builder, k) + FunctionOf(k).allocated <= Len(builder.globals)
      BY <2>1, <1>5, <1>6, <1>7
    <2>4. LocalArea(k) = FirstIn(builder, k) .. FirstIn(builder, k) + FunctionOf(k).allocated - 1
      BY <1>8
    <2> DEFINE at == FirstIn(builder, k)
               n  == FunctionOf(k).allocated
    <2>5. at \in Nat /\ n \in Nat /\ LocalArea(k) = at .. at + n - 1
          /\ builder.firstlocal <= at /\ at + n <= Len(builder.globals)
      BY <2>1, <2>2, <2>3, <2>4
    <2> HIDE DEF at, n
    <2>6. LocalArea(k) \cap TempArea = {}
      BY <2>5, <1>6
    <2>7. LocalArea(k) \subseteq ReservedWords .. Len(builder.globals) - 1
      BY <2>5, <1>6, SMTT(30) DEF ReservedWords
    <2> QED BY <2>6, <2>7
  <1>14. ASSUME NEW k \in Coded, NEW m \in Coded
         PROVE  k = m \/ (Overlaps(k) /\ Overlaps(m)) \/ LocalArea(k) \cap LocalArea(m) = {}
    <2>1. ASSUME NEW x \in Coded, NEW y \in Coded, Overlaps(x), ~Overlaps(y)
          PROVE  LocalArea(x) \cap LocalArea(y) = {}
      <3>1. LocalArea(x) \subseteq builder.firstlocal .. builder.firstlocal + builder.maxlocals - 1
        BY <2>1, <1>7
      <3>2. /\ builder.firstlocal + builder.maxlocals <= FirstIn(builder, y)
            /\ LocalArea(y) = FirstIn(builder, y) .. FirstIn(builder, y) + FunctionOf(y).allocated - 1
            /\ FirstIn(builder, y) \in Nat /\ FunctionOf(y).allocated \in Nat
        BY <2>1, <1>5, <1>7, <1>8
      <3> QED BY <3>1, <3>2, <1>6
    <2>2. CASE Overlaps(k) /\ ~Overlaps(m)
      BY <2>1, <2>2
    <2>3. CASE ~Overlaps(k) /\ Overlaps(m)
      BY <2>1, <2>3
    <2>4. CASE ~Overlaps(k) /\ ~Overlaps(m)
      BY <2>4, <1>7
    <2> QED BY <2>2, <2>3, <2>4
  (* The slots. *)
  <1>15. ASSUME NEW v \in FunctionWords
         PROVE  Span(codeAddress(builder, v), SizeOf(SlotOf(v).type))
                  \subseteq IF SlotOf(v).locked \/ ~Flag("global_temps")
                            THEN LocalArea(v[2]) ELSE TempArea
    <2>1. v \in DOMAIN builder.addr /\ v[1] \in {"local", "temp"}
      BY DEF FunctionWords
    <2> DEFINE k    == v[2]
               f    == FunctionIn(program, builder, k)
               slot == IF v[1] = "local" THEN f.locals[v[3]] ELSE f.temps[v[3]]
    <2>2. /\ k \in L /\ HasCodeIn(program, builder, k)
          /\ v[1] = "local" => v[3] \in DOMAIN f.locals
          /\ v[1] = "temp" => v[3] \in DOMAIN f.temps
      <3>1. \/ \E m \in L : /\ HasCodeIn(program, builder, m)
                            /\ \E j \in DOMAIN FunctionIn(program, builder, m).locals : v = Local(m, j)
            \/ \E m \in L : /\ HasCodeIn(program, builder, m)
                            /\ \E j \in DOMAIN FunctionIn(program, builder, m).temps : v = Temp(m, j)
        BY <1>1, <2>1 DEF KnownPlaces, Value, FieldGlobal, AreaPlaces, Nil, VinstrTemp, ExtParam
      <3> QED BY <3>1 DEF Local, Temp
    <2>3. k \in Coded
      BY <2>2, <1>4 DEF Laid
    <2>4. FunctionOf(k) = f /\ SlotOf(v) = slot
      BY <2>2, <1>3 DEF SlotOf
    <2>5. IsFunction(program, f, flags)
      BY <2>2, <1>1, FunctionsAre DEF HasCodeIn, L
    <2>6. slot \in ToSet(f.locals) \cup ToSet(f.temps) /\ slot \in SlotRecords
      <3>1. f.locals \in Seq(SlotRecords) /\ f.temps \in Seq(SlotRecords)
        BY <2>5 DEF IsFunction
      <3> HIDE DEF f
      <3>2. v[1] = "local" => slot \in ToSet(f.locals) /\ slot \in SlotRecords
        BY <2>2, <3>1, LenProperties DEF ToSet
      <3>3. v[1] = "temp" => slot \in ToSet(f.temps) /\ slot \in SlotRecords
        BY <2>2, <3>1, LenProperties DEF ToSet
      <3> QED BY <2>1, <3>2, <3>3
    <2>7. SlotFits(slot, f, flags)
      BY <2>5, <2>6 DEF IsFunction
    <2>8. codeAddress(builder, v) = SlotWord(flags, builder, k, slot)
      BY <1>1, <2>1 DEF SlotsOK, codeAddress
    <2> HIDE DEF slot, f, k
    <2>9. slot.local \in Nat /\ slot.locked \in BOOLEAN
      BY <2>6 DEF SlotRecords
    <2>10. FirstIn(builder, k) \in Nat /\ f.allocated \in Nat /\ f.globaltemps <= builder.maxtemps
           /\ f.globaltemps \in Nat /\ LocalArea(k) = FirstIn(builder, k) .. FirstIn(builder, k) + f.allocated - 1
      BY <2>3, <2>4, <2>5, <1>5, <1>8 DEF IsFunction
    <2>11. SizeOf(slot.type) = 1 \/ SizeOf(slot.type) = 3
      BY Sizes
    <2>12. CASE ToGlobalTemps(slot, flags)
      <3>1. codeAddress(builder, v) = builder.firsttemp + slot.local
            /\ slot.local + SizeOf(slot.type) <= f.globaltemps
        BY <2>7, <2>8, <2>12 DEF SlotWord, SlotFits
      <3>2. ~(slot.locked \/ ~Flag("global_temps"))
        BY <2>12 DEF ToGlobalTemps, Flag
      <3>3. Span(codeAddress(builder, v), SizeOf(slot.type)) \subseteq TempArea
        <4> DEFINE at == codeAddress(builder, v)
                   n  == SizeOf(slot.type)
        <4>1. /\ at = builder.firsttemp + slot.local /\ slot.local + n <= f.globaltemps
              /\ n \in Nat /\ slot.local \in Nat /\ f.globaltemps \in Nat
              /\ f.globaltemps <= builder.maxtemps
              /\ builder.firsttemp \in Nat /\ builder.maxtemps \in Nat
          BY <3>1, <2>9, <2>10, <2>11, <1>6, SMTT(30)
        <4> HIDE DEF at, n
        <4>2. at .. at + n - 1 \subseteq builder.firsttemp .. builder.firsttemp + builder.maxtemps - 1
          <5>1. at >= builder.firsttemp /\ at \in Nat
            BY <4>1
          <5>2. at + n <= builder.firsttemp + builder.maxtemps
            BY <4>1
          <5> QED BY <4>1, <5>1, <5>2
        <4> QED BY <4>2, <1>6 DEF Span, at, n
      <3> QED BY <3>2, <3>3, <2>4
    <2>13. CASE ~ToGlobalTemps(slot, flags)
      <3>1. codeAddress(builder, v) = FirstIn(builder, k) + slot.local
            /\ slot.local + SizeOf(slot.type) <= f.allocated
        BY <2>7, <2>8, <2>13 DEF SlotWord, SlotFits
      <3>2. slot.locked \/ ~Flag("global_temps")
        BY <2>13 DEF ToGlobalTemps, Flag
      <3>3. Span(codeAddress(builder, v), SizeOf(slot.type)) \subseteq LocalArea(k)
        BY <3>1, <2>9, <2>10, <2>11 DEF Span
      <3> QED BY <3>2, <3>3, <2>4 DEF k
    <2> QED BY <2>12, <2>13
  <1> QED BY <1>9, <1>10, <1>12, <1>13, <1>14, <1>15 DEF WordsApart

(* WordsApart: whatever the program and the flags, no two things that can  *)
(* disturb each other have a word of the file in common; the areas of      *)
(* locals and of temporaries hold the slots that lie in them and nothing   *)
(* else.                                                                   *)
THEOREM WordsStayApart == WriterSpec => []WordsApart
  BY LayoutKept, LayoutApart, PTL
=============================================================================
