---------------------------- MODULE ContentProofs ----------------------------
(***************************************************************************)
(* Proofs about what ir_builder::generate has put into the file, for any   *)
(* program and flags: the words, the defs and the headers say what they    *)
(* should (ConstInv, kept by every step: ConstStep), and the statements    *)
(* name words of the file (OperandsInv, OperandsStep).  With LayoutInv     *)
(* they say what the runs check: ConstantsHold and WriterTypeOK.           *)
(***************************************************************************)
EXTENDS CodeWriterProofs

(***************************************************************************)
(* What the words, the defs and the headers of the file say.               *)
(***************************************************************************)
ValueHeld(b, k) ==
    LET v  == b.values[k]
        at == b.addr[Value(k)]
    IN /\ HasValue(v) /\ v.type = "string" =>
             b.globals[at + 1] \in Nat /\ ReadsAs(b.strings.chars, b.globals[at + 1], v.value)
       /\ HasFunction(v) => k \in DOMAIN b.def /\ b.globals[at + 1] = b.def[k] - 1
       /\ HasValue(v) /\ v.type \notin {"string", "function"} => StartsAt(b, at, StartWords(b, v))
       /\ PushesDef(v) /\ ~IsLiteral(v) => HasDefsIn(b, at, v.name, v.type)
ValuesHeld(b) == \A k \in DOMAIN b.values : Value(k) \in PlacesIn(b) => ValueHeld(b, k)
AllPlaced(b, vd) == \A k \in vd : ~Skipped(b.values[k]) => Value(k) \in DOMAIN b.addr

FieldHeld(p, b, j) ==
    LET field == p.fields[j]
        at    == b.addr[FieldGlobal(j)]
    IN /\ FieldGlobal(j) \in DOMAIN b.addr
       /\ HasDefIn(b, at, FieldText(field)) /\ HasFieldIn(b, b.fieldaddr[j], field.name)
       /\ StartsAt(b, at, From(b.fieldaddr[j], SizeOf(field.type)))
FieldsHeld(p, b, fd) == \A j \in fd : FieldHeld(p, b, j)
FieldsApart(p, b) ==
    \A j \in DOMAIN b.fieldaddr : \A i \in 1 .. j - 1 :
      b.fieldaddr[i] + SizeOf(p.fields[i].type) <= b.fieldaddr[j]
FieldsFit(p, b) ==
    \A j \in DOMAIN b.fieldaddr : b.fieldaddr[j] + SizeOf(p.fields[j].type) <= b.entfields

HeaderHeld(p, b, k) ==
    LET v == b.values[k] header == b.functions[b.def[k]]
    IN /\ PushesDef(v) /\ ~IsLiteral(v) => ReadsAs(b.strings.chars, header.name, v.name)
       /\ FunctionIn(p, b, k).builtin # 0 => header.entry = -FunctionIn(p, b, k).builtin
HeadersHeld(p, b) == \A k \in DOMAIN b.def : HeaderHeld(p, b, k)

(* The code of a function is in one piece.                                 *)
CodeOf(b, k) == {i \in DOMAIN b.statements : b.statements[i].of = k}
EntryIn(b, k) == b.functions[b.def[k]].entry
CodeIs(b, k, upto) == /\ EntryIn(b, k) \in Nat /\ upto \in EntryIn(b, k) .. Len(b.statements)
                      /\ CodeOf(b, k) = EntryIn(b, k) + 1 .. upto
CodeHeld(p, b, cd) ==
    /\ \A k \in Laid(p, b, cd) : \E upto \in 0 .. Len(b.statements) : CodeIs(b, k, upto)
    /\ \A i \in DOMAIN b.statements : b.statements[i].of \in cd \cup {0}

ConstInv ==
    /\ ValuesHeld(builder) /\ AllPlaced(builder, ValuesDone)
    /\ FieldsHeld(program, builder, FieldsDone) /\ FieldsApart(program, builder)
    /\ stage = "prepare" => FieldsFit(program, builder)
    /\ HeadersHeld(program, builder) /\ CodeHeld(program, builder, CodeDone)
    /\ stage \in InBody => CodeIs(builder, item, Len(builder.statements))

(* What is addressed is in the file, so are the operands of the statements.*)
Within(x, b) == x \in Nat /\ x < Len(b.globals)
OperandsOK(b) ==
    \A i \in DOMAIN b.statements :
      LET st == b.statements[i]
      IN (st.op # "COMPUTE" => Within(st.o1, b)) /\ Within(st.o2, b)
Low(b) == \A v \in DOMAIN b.addr : b.addr[v] <= Len(b.globals)
Inside(b) == \A v \in DOMAIN b.addr : Within(b.addr[v], b)
OperandsInv ==
    /\ OperandsOK(builder) /\ Low(builder)
    /\ AreasDone => Inside(builder)
-----------------------------------------------------------------------------
(***************************************************************************)
(* What is in the file stays in it: words, texts, defs.                    *)
(***************************************************************************)
DefKept(b, c) == \A k \in DOMAIN b.def : k \in DOMAIN c.def /\ c.def[k] = b.def[k]
Grows(b, c) == /\ WordsKept(b, c) /\ TextsKept(b, c) /\ DefKept(b, c)
               /\ c.values = b.values /\ c.fieldaddr = b.fieldaddr

LEMMA TextsStay ==
    ASSUME NEW p, NEW b, NEW c, Typed(p, b), TextsKept(b, c), NEW at, NEW text \in Texts
    PROVE  /\ HasDefIn(b, at, text) => HasDefIn(c, at, text)
           /\ HasFieldIn(b, at, text) => HasFieldIn(c, at, text)
  BY NamesNat DEF HasDefIn, HasFieldIn, TextsKept, Keeps

LEMMA DefsStay ==
    ASSUME NEW p, NEW b, NEW c, Typed(p, b), TextsKept(b, c), NEW at, NEW text \in Texts, NEW type,
           HasDefsIn(b, at, text, type)
    PROVE  HasDefsIn(c, at, text, type)
  <1>1. HasDefIn(c, at, text)
    BY TextsStay DEF HasDefsIn
  <1>2. ASSUME SizeOf(type) = 3, ~Flag("single_vector_defs"), NEW j \in 1 .. 3
        PROVE  HasDefIn(c, at + j - 1, Component(text, j))
    <2>1. HasDefIn(b, at + j - 1, Component(text, j))
      BY <1>2 DEF HasDefsIn
    <2>2. Component(text, j) \in Texts
      BY ComponentText
    <2> QED BY <2>1, <2>2, TextsStay
  <1> QED BY <1>1, <1>2 DEF HasDefsIn

(* Words that are there stay.                                              *)
LEMMA WordsStay ==
    ASSUME NEW b, NEW c, WordsKept(b, c), NEW at \in Nat, NEW words \in Seq(Int),
           Len(b.globals) \in Nat, at + Len(words) <= Len(b.globals), StartsAt(b, at, words)
    PROVE  StartsAt(c, at, words)
  <1>1. Len(words) \in Nat /\ DOMAIN words = 1 .. Len(words)
    BY LenProperties
  <1> SUFFICES ASSUME NEW j \in 1 .. Len(words)
               PROVE  c.globals[at + j] = words[j]
    BY <1>1 DEF StartsAt
  <1>2. at + j \in 1 .. Len(b.globals)
    BY <1>1
  <1> QED BY <1>1, <1>2 DEF StartsAt, WordsKept

(* Where a place is.                                                       *)
LEMMA PlaceWithin ==
    ASSUME NEW p, NEW b, Typed(p, b), Apart(p, b), NEW v \in PlacesIn(b)
    PROVE  /\ v \in DOMAIN b.addr /\ b.addr[v] \in Nat /\ Len(b.globals) \in Nat
           /\ ReservedWords <= b.addr[v]
           /\ b.addr[v] + SizeOf(TypeIn(p, b, v)) <= Len(b.globals)
           /\ Within(b.addr[v], b)
  <1> DEFINE at == b.addr[v]
             n  == SizeOf(TypeIn(p, b, v))
             len == Len(b.globals)
  <1>1. v \in DOMAIN b.addr /\ at \in Nat /\ len \in Nat
    BY LenProperties DEF PlacesIn, Typed, IsMap
  <1>2. n = 1 \/ n = 3
    BY Sizes
  <1>3. at .. at + n - 1 \subseteq 28 .. len - 1
    BY DEF Apart, WordsIn, Span, ReservedWords
  <1> HIDE DEF at, n, len
  <1>4. 28 <= at /\ at + n <= len /\ at < len
    BY <1>1, <1>2, <1>3
  <1> QED BY <1>1, <1>4 DEF at, n, len, ReservedWords, Within

LEMMA ValueIs ==
    ASSUME NEW p, NEW b, Typed(p, b), NEW k \in DOMAIN b.values
    PROVE  /\ IsValue(p, b.values[k]) /\ b.values[k].name \in Texts
           /\ b.values[k].type \in Types \ {"nil"}
           /\ IsSplit(b.values[k]) => Splittable(b.values[k])
           /\ \A j \in DOMAIN b.values[k].parts : PartOK(b.values, b.values[k], j)
  BY DEF Typed, ValuesOK, IsValue

LEMMA ValueStays ==
    ASSUME NEW p, NEW fs, NEW b, NEW c, IsProgram(p, fs), Typed(p, b), Apart(p, b), Grows(b, c),
           Len(b.fieldaddr) = Len(p.fields),
           NEW k \in DOMAIN b.values, Value(k) \in PlacesIn(b), ValueHeld(b, k)
    PROVE  ValueHeld(c, k)
  <1> DEFINE v == b.values[k]
             at == b.addr[Value(k)]
  <1>1. /\ Value(k) \in DOMAIN b.addr /\ at \in Nat /\ Len(b.globals) \in Nat
        /\ at + SizeOf(v.type) <= Len(b.globals) /\ at + 1 \in 1 .. Len(b.globals)
    <2>1. TypeIn(p, b, Value(k)) = v.type
      BY DEF TypeIn, Value
    <2>2. SizeOf(v.type) = 1 \/ SizeOf(v.type) = 3
      BY Sizes
    <2> QED BY <2>1, <2>2, PlaceWithin
  <1>2. /\ c.addr[Value(k)] = at /\ c.globals[at + 1] = b.globals[at + 1]
        /\ c.values[k] = v
    BY <1>1 DEF Grows, WordsKept
  <1>3. v.name \in Texts /\ IsValue(p, v)
    BY ValueIs
  <1>4. HasValue(v) /\ v.type = "string" =>
           c.globals[at + 1] \in Nat /\ ReadsAs(c.strings.chars, c.globals[at + 1], v.value)
    <2> SUFFICES ASSUME HasValue(v), v.type = "string"
                 PROVE  c.globals[at + 1] \in Nat /\ ReadsAs(c.strings.chars, c.globals[at + 1], v.value)
      OBVIOUS
    <2>1. v.value \in Texts
      BY <1>3 DEF IsValue, Starts
    <2>2. b.globals[at + 1] \in Nat /\ ReadsAs(b.strings.chars, b.globals[at + 1], v.value)
      BY DEF ValueHeld
    <2> QED BY <1>2, <2>1, <2>2 DEF Grows, TextsKept, Keeps
  <1>5. HasFunction(v) => k \in DOMAIN c.def /\ c.globals[at + 1] = c.def[k] - 1
    BY <1>2 DEF ValueHeld, Grows, DefKept
  <1>6. HasValue(v) /\ v.type \notin {"string", "function"} => StartsAt(c, at, StartWords(c, v))
    <2> SUFFICES ASSUME HasValue(v), v.type \notin {"string", "function"}
                 PROVE  StartsAt(c, at, StartWords(c, v))
      OBVIOUS
    <2> DEFINE words == StartWords(b, v)
    <2>1. StartWords(c, v) = words
      BY DEF StartWords, Grows
    <2>2. words \in Seq(Int) /\ Len(words) = SizeOf(v.type)
      BY StartWordsAre DEF HasFunction
    <2>3. StartsAt(b, at, words)
      BY DEF ValueHeld
    <2> HIDE DEF words, v, at
    <2>4. at + Len(words) <= Len(b.globals)
      BY <1>1, <2>2
    <2>5. StartsAt(c, at, words)
      BY <1>1, <2>2, <2>3, <2>4, WordsStay DEF Grows
    <2> QED BY <2>1, <2>5
  <1>7. PushesDef(v) /\ ~IsLiteral(v) => HasDefsIn(c, at, v.name, v.type)
    <2> SUFFICES ASSUME PushesDef(v), ~IsLiteral(v)
                 PROVE  HasDefsIn(c, at, v.name, v.type)
      OBVIOUS
    <2>1. HasDefsIn(b, at, v.name, v.type)
      BY DEF ValueHeld
    <2> HIDE DEF v, at
    <2> QED BY <2>1, <1>3, DefsStay DEF Grows
  <1> HIDE DEF at, v
  <1> QED BY <1>2, <1>4, <1>5, <1>6, <1>7 DEF ValueHeld
-----------------------------------------------------------------------------
(***************************************************************************)
(* So do the words and the names of fields, headers, and the code.         *)
(***************************************************************************)
LEMMA FieldTexts ==
    ASSUME NEW field, field.name \in Texts
    PROVE  FieldText(field) \in Texts
  <1>1. <<DOT>> \in Texts
    BY DEF Texts, DOT
  <1>2. <<DOT>> \o field.name \in Texts
    BY <1>1, ConcatProperties DEF Texts
  <1> QED BY <1>2 DEF FieldText

LEMMA FieldStays ==
    ASSUME NEW p, NEW fs, NEW b, NEW c, IsProgram(p, fs), Typed(p, b), Apart(p, b), Grows(b, c),
           NEW j \in DOMAIN p.fields, j \in DOMAIN b.fieldaddr, FieldHeld(p, b, j)
    PROVE  FieldHeld(p, c, j)
  <1> DEFINE field == p.fields[j]
             at    == b.addr[FieldGlobal(j)]
             words == From(b.fieldaddr[j], SizeOf(field.type))
  <1>1. field.name \in Texts
    BY ProgramSeqs
  <1>2. FieldText(field) \in Texts
    BY <1>1, FieldTexts
  <1>3. FieldGlobal(j) \in DOMAIN b.addr
    BY DEF FieldHeld
  <1>4. FieldGlobal(j) \in PlacesIn(b) /\ SizeOf(TypeIn(p, b, FieldGlobal(j))) = SizeOf(field.type)
    <2>1. field.type \in Types \ {"vfield", "nil"}
      BY ProgramSeqs
    <2>2. FieldGlobal(j) \in PlacesIn(b)
      BY <1>3 DEF PlacesIn, FieldGlobal
    <2>3. SizeOf(TypeIn(p, b, FieldGlobal(j))) = SizeOf(field.type)
      BY <2>1 DEF TypeIn, FieldGlobal, SizeOf
    <2> QED BY <2>2, <2>3
  <1>5. /\ at \in Nat /\ Len(b.globals) \in Nat /\ at + SizeOf(field.type) <= Len(b.globals)
    BY <1>4, PlaceWithin
  <1>6. words \in Seq(Int) /\ Len(words) = SizeOf(field.type)
    <2>1. b.fieldaddr[j] \in Int
      BY DEF Typed
    <2>2. SizeOf(field.type) \in Nat
      BY Sizes
    <2> QED BY <2>1, <2>2, FromAre
  <1>7. /\ FieldGlobal(j) \in DOMAIN c.addr /\ c.addr[FieldGlobal(j)] = at
        /\ c.fieldaddr[j] = b.fieldaddr[j]
    BY <1>3 DEF Grows, WordsKept
  <1>8. HasDefIn(b, at, FieldText(field)) /\ HasFieldIn(b, b.fieldaddr[j], field.name)
        /\ StartsAt(b, at, words)
    BY DEF FieldHeld
  <1> HIDE DEF at, words, field
  <1>9. HasDefIn(c, at, FieldText(field)) /\ HasFieldIn(c, b.fieldaddr[j], field.name)
    BY <1>1, <1>2, <1>8, TextsStay DEF Grows
  <1>10. StartsAt(c, at, words)
    <2>1. at + Len(words) <= Len(b.globals)
      BY <1>5, <1>6
    <2> QED BY <2>1, <1>5, <1>6, <1>8, WordsStay DEF Grows
  <1> QED BY <1>7, <1>9, <1>10 DEF FieldHeld, at, words, field

(* A header that has its name still.                                       *)
HeaderStays(p, b, c, k) ==
    /\ k \in DOMAIN c.def /\ c.def[k] = b.def[k]
    /\ c.functions[b.def[k]].name = b.functions[b.def[k]].name
    /\ FunctionIn(p, b, k).builtin # 0 => c.functions[b.def[k]].entry = b.functions[b.def[k]].entry

LEMMA HeaderHeldStill ==
    ASSUME NEW p, NEW b, NEW c, NEW vd, Typed(p, b), HeadersOK(p, b, vd), vd \subseteq DOMAIN b.values,
           TextsKept(b, c), c.values = b.values, NEW k \in DOMAIN b.def,
           HeaderStays(p, b, c, k), HeaderHeld(p, b, k)
    PROVE  HeaderHeld(p, c, k)
  <1>1. k \in DOMAIN b.values /\ b.def[k] \in 1 .. Len(b.functions)
    BY LenProperties DEF HeadersOK, Typed
  <1>2. b.values[k].name \in Texts
    BY <1>1, ValueIs
  <1>3. b.functions[b.def[k]].name \in Nat
    <2>1. b.functions[b.def[k]] \in Headers
      BY <1>1, LenProperties DEF Typed
    <2> QED BY <2>1 DEF Headers
  <1>4. FunctionIn(p, c, k) = FunctionIn(p, b, k)
    BY DEF FunctionIn
  <1>5. PushesDef(b.values[k]) /\ ~IsLiteral(b.values[k]) =>
           ReadsAs(c.strings.chars, b.functions[b.def[k]].name, b.values[k].name)
    BY <1>2, <1>3 DEF HeaderHeld, TextsKept, Keeps
  <1> QED BY <1>4, <1>5 DEF HeaderHeld, HeaderStays

LEMMA HeadersStay ==
    ASSUME NEW p, NEW b, NEW c, NEW vd, Typed(p, b), HeadersOK(p, b, vd), vd \subseteq DOMAIN b.values,
           TextsKept(b, c), c.values = b.values, c.functions = b.functions, c.def = b.def,
           HeadersHeld(p, b)
    PROVE  HeadersHeld(p, c)
  <1> SUFFICES ASSUME NEW k \in DOMAIN b.def
               PROVE  HeaderHeld(p, c, k)
    BY DEF HeadersHeld
  <1>1. HeaderStays(p, b, c, k) /\ HeaderHeld(p, b, k)
    BY DEF HeaderStays, HeadersHeld
  <1> QED BY <1>1, HeaderHeldStill

(* The code of a function stays where it is.                               *)
LEMMA CodeStays ==
    ASSUME NEW p, NEW b, NEW c, Typed(p, b), Typed(p, c), NEW k, NEW m, k # m,
           StatementsAdded(b, c, m), EntryIn(c, k) = EntryIn(b, k), NEW upto, CodeIs(b, k, upto)
    PROVE  CodeIs(c, k, upto)
  <1>1. /\ Len(b.statements) \in Nat /\ DOMAIN b.statements = 1 .. Len(b.statements)
        /\ Len(c.statements) \in Nat /\ DOMAIN c.statements = 1 .. Len(c.statements)
    BY StatementsAre
  <1>2. CodeOf(c, k) = CodeOf(b, k)
    BY <1>1 DEF CodeOf, StatementsAdded
  <1>3. EntryIn(b, k) \in Nat /\ upto \in EntryIn(b, k) .. Len(c.statements)
    BY <1>1 DEF CodeIs, StatementsAdded
  <1> QED BY <1>2, <1>3 DEF CodeIs

(* More code of a function whose code is the last.                         *)
LEMMA CodeGrows ==
    ASSUME NEW p, NEW b, NEW c, Typed(p, b), Typed(p, c), NEW k,
           StatementsAdded(b, c, k), EntryIn(c, k) = EntryIn(b, k), CodeIs(b, k, Len(b.statements))
    PROVE  CodeIs(c, k, Len(c.statements))
  <1> DEFINE m == Len(b.statements)
             n == Len(c.statements)
             at == EntryIn(b, k)
  <1>1. /\ m \in Nat /\ DOMAIN b.statements = 1 .. m
        /\ n \in Nat /\ DOMAIN c.statements = 1 .. n
    BY StatementsAre
  <1>2. /\ m <= n /\ \A i \in 1 .. m : c.statements[i] = b.statements[i]
        /\ \A i \in m + 1 .. n : c.statements[i].of = k
    BY DEF StatementsAdded
  <1>3. at \in Nat /\ at <= m /\ CodeOf(b, k) = at + 1 .. m
    BY <1>1 DEF CodeIs
  <1> HIDE DEF m, n, at
  <1>4. ASSUME NEW i \in 1 .. n
        PROVE  c.statements[i].of = k <=> i \in at + 1 .. n
    <2>1. CASE i \in 1 .. m
      <3>1. c.statements[i].of = k <=> i \in CodeOf(b, k)
        BY <1>1, <1>2, <2>1 DEF CodeOf
      <3> QED BY <3>1, <1>1, <1>2, <1>3, <2>1
    <2>2. CASE i \in m + 1 .. n
      BY <1>1, <1>2, <1>3, <2>2
    <2> QED BY <2>1, <2>2, <1>1, <1>2
  <1>5. CodeOf(c, k) = {i \in 1 .. n : c.statements[i].of = k}
    BY <1>1 DEF CodeOf
  <1>6. CodeOf(c, k) = at + 1 .. n
    <2>1. at + 1 .. n \subseteq 1 .. n
      BY <1>1, <1>3
    <2> QED BY <2>1, <1>4, <1>5
  <1>7. n \in at .. n
    BY <1>1, <1>2, <1>3
  <1> QED BY <1>3, <1>6, <1>7 DEF CodeIs, m, n, at
(* ConstInv' is about the same program and flags.                          *)
LEMMA ConstNext ==
    ASSUME UNCHANGED <<program, flags>>,
           ValuesHeld(builder'), AllPlaced(builder', ValuesDone'),
           FieldsHeld(program, builder', FieldsDone'), FieldsApart(program, builder'),
           stage' = "prepare" => FieldsFit(program, builder'),
           HeadersHeld(program, builder'), CodeHeld(program, builder', CodeDone'),
           stage' \in InBody => CodeIs(builder', item', Len(builder'.statements))
    PROVE  ConstInv'
  <1>1. ValuesHeld(builder)'
    BY DEF ValuesHeld, ValueHeld, HasDefsIn, PushesDef, Flag
  <1>2. AllPlaced(builder, ValuesDone)'
    BY DEF AllPlaced
  <1>3. FieldsHeld(program, builder, FieldsDone)'
    BY DEF FieldsHeld, FieldHeld, FieldText, Flag
  <1>4. FieldsApart(program, builder)' /\ (stage = "prepare" => FieldsFit(program, builder))'
    BY DEF FieldsApart, FieldsFit
  <1>5. HeadersHeld(program, builder)'
    BY DEF HeadersHeld, HeaderHeld, PushesDef, Flag
  <1>6. CodeHeld(program, builder, CodeDone)'
    BY DEF CodeHeld
  <1>7. (stage \in InBody => CodeIs(builder, item, Len(builder.statements)))'
    BY DEF CodeIs, InBody
  <1> QED BY <1>1, <1>2, <1>3, <1>4, <1>5, <1>6, <1>7 DEF ConstInv
-----------------------------------------------------------------------------
(***************************************************************************)
(* The loop over the values: each that is placed starts with its value.    *)
(***************************************************************************)
LEMMA GlobalsStage ==
    ASSUME LayoutInv, ConstInv, AtGlobal
    PROVE  /\ ValuesDone = 1 .. item - 1 /\ FieldsDone = {} /\ CodeDone = {}
           /\ AllPlaced(builder, 1 .. item - 1)
           /\ \A i \in DOMAIN builder.statements : builder.statements[i].of = 0
           /\ Apart(program, builder) /\ HeadersOK(program, builder, 1 .. item - 1)
  <1>1. ValuesDone = 1 .. item - 1 /\ FieldsDone = {} /\ CodeDone = {}
    BY SMTT(30) DEF AtGlobal, ValuesDone, FieldsDone, CodeDone, CodeStages
  <1>2. CodeHeld(program, builder, {})
    BY <1>1 DEF ConstInv
  <1>3. \A i \in DOMAIN builder.statements : builder.statements[i].of = 0
    BY <1>2 DEF CodeHeld
  <1>4. FileInv(program, flags, builder, 1 .. item - 1, {}, {}, {})
    BY GlobalStart
  <1> QED BY <1>1, <1>3, <1>4 DEF ConstInv, FileInv, Placed

LEMMA GlobalConst ==
    ASSUME LayoutInv, ConstInv, AtGlobal, UNCHANGED <<program, flags, stage>>, item' = item + 1,
           Grows(builder, builder'), builder'.statements = builder.statements,
           DOMAIN builder.addr \subseteq DOMAIN builder'.addr,
           DOMAIN builder'.addr \subseteq DOMAIN builder.addr \cup {Value(item)},
           Skipped(This) \/ Value(item) \in DOMAIN builder'.addr,
           Value(item) \in PlacesIn(builder') => ValueHeld(builder', item),
           HeadersHeld(program, builder')
    PROVE  ConstInv'
  <1>1. /\ IsProgram(program, flags) /\ Typed(program, builder)
        /\ Len(builder.fieldaddr) = Len(program.fields) /\ item \in Nat
        /\ item \in DOMAIN builder.values
    BY GlobalStart
  <1>2. /\ AllPlaced(builder, 1 .. item - 1) /\ Apart(program, builder)
        /\ \A i \in DOMAIN builder.statements : builder.statements[i].of = 0
    BY GlobalsStage
  <1>3. builder'.values = builder.values /\ builder'.fieldaddr = builder.fieldaddr
    BY DEF Grows
  <1>4. ValuesDone' = 1 .. item /\ FieldsDone' = {} /\ CodeDone' = {}
    <2>1. stage' = "globals" /\ item' - 1 = item
      BY <1>1 DEF AtGlobal
    <2> QED BY <2>1, SMTT(30) DEF ValuesDone, FieldsDone, CodeDone, CodeStages
  <1>5. ValuesHeld(builder')
    <2> SUFFICES ASSUME NEW k \in DOMAIN builder.values, Value(k) \in PlacesIn(builder')
                 PROVE  ValueHeld(builder', k)
      BY <1>3 DEF ValuesHeld
    <2>1. CASE k = item
      BY <2>1
    <2>2. CASE k # item
      <3>1. Value(k) \in DOMAIN builder.addr
        BY <2>2 DEF PlacesIn, Value
      <3>2. Value(k) \in PlacesIn(builder)
        BY <3>1, <1>3 DEF PlacesIn
      <3>3. ValueHeld(builder, k)
        BY <3>2 DEF ConstInv, ValuesHeld
      <3> QED BY <3>2, <3>3, <1>1, <1>2, ValueStays
    <2> QED BY <2>1, <2>2
  <1>6. AllPlaced(builder', 1 .. item)
    <2> SUFFICES ASSUME NEW k \in 1 .. item, ~Skipped(builder.values[k])
                 PROVE  Value(k) \in DOMAIN builder'.addr
      BY <1>3 DEF AllPlaced
    <2>1. CASE k = item
      BY <2>1 DEF This
    <2>2. CASE k # item
      <3>1. k \in 1 .. item - 1
        BY <2>2, <1>1
      <3> QED BY <3>1, <1>2 DEF AllPlaced
    <2> QED BY <2>1, <2>2
  <1>7. FieldsApart(program, builder')
    BY <1>3 DEF ConstInv, FieldsApart
  <1>8. CodeHeld(program, builder', {})
    BY <1>2 DEF CodeHeld, Laid
  <1>9. FieldsHeld(program, builder', {})
    BY DEF FieldsHeld
  <1>10. stage' = "globals"
    BY DEF AtGlobal
  <1>11. stage' # "prepare" /\ stage' \notin InBody
    BY <1>10 DEF InBody
  <1> QED BY <1>4, <1>5, <1>6, <1>7, <1>8, <1>9, <1>11, ConstNext

(* What was pushed for a value is where its address is.                    *)
LEMMA PushedAt ==
    ASSUME LayoutInv, AtGlobal, NEW c, NEW words \in Seq(Int), TextsKept(builder, c),
           c.values = builder.values, c.fieldaddr = builder.fieldaddr, DefKept(builder, c),
           c.addr = With(builder.addr, Value(item), Len(builder.globals)),
           c.globals = builder.globals \o words
    PROVE  /\ Grows(builder, c)
           /\ DOMAIN c.addr = DOMAIN builder.addr \cup {Value(item)}
           /\ c.addr[Value(item)] = Len(builder.globals)
           /\ \A j \in 1 .. Len(words) : c.globals[Len(builder.globals) + j] = words[j]
           /\ StartsAt(c, Len(builder.globals), words)
  <1>1. Typed(program, builder) /\ Value(item) \notin DOMAIN builder.addr
    BY GlobalStart
  <1>2. builder.globals \in Seq(Int)
    BY <1>1 DEF Typed
  <1>3. /\ DOMAIN c.addr = DOMAIN builder.addr \cup {Value(item)}
        /\ c.addr[Value(item)] = Len(builder.globals)
        /\ \A v \in DOMAIN builder.addr : v # Value(item) => c.addr[v] = builder.addr[v]
    BY DEF With
  <1>4. WordsKept(builder, c)
    <2>1. \A v \in DOMAIN builder.addr : v \in DOMAIN c.addr /\ c.addr[v] = builder.addr[v]
      BY <1>1, <1>3
    <2> QED BY <2>1, <1>2, WordsKeptConcat
  <1>5. \A j \in 1 .. Len(words) : c.globals[Len(builder.globals) + j] = words[j]
    BY <1>2, ConcatIs
  <1>6. DOMAIN words = 1 .. Len(words)
    BY LenProperties
  <1> QED BY <1>3, <1>4, <1>5, <1>6 DEF Grows, StartsAt

LEMMA PlacingIs ==
    ASSUME LayoutInv, AtGlobal, NEW c, NEW words \in Seq(Int), Placing(c, words), SameFunctions(builder, c)
    PROVE  /\ Grows(builder, c)
           /\ DOMAIN c.addr = DOMAIN builder.addr \cup {Value(item)}
           /\ c.addr[Value(item)] = Len(builder.globals)
           /\ \A j \in 1 .. Len(words) : c.globals[Len(builder.globals) + j] = words[j]
           /\ StartsAt(c, Len(builder.globals), words)
  <1>1. /\ TextsKept(builder, c) /\ c.values = builder.values /\ c.fieldaddr = builder.fieldaddr
        /\ c.addr = With(builder.addr, Value(item), Len(builder.globals))
        /\ c.globals = builder.globals \o words
    BY DEF Placing
  <1>2. DefKept(builder, c)
    BY DEF DefKept, SameFunctions
  <1> QED BY <1>1, <1>2, PushedAt

LEMMA HeadersSame ==
    ASSUME LayoutInv, ConstInv, AtGlobal, NEW c, TextsKept(builder, c), c.values = builder.values,
           SameFunctions(builder, c)
    PROVE  HeadersHeld(program, c) /\ c.statements = builder.statements
  <1>1. /\ Typed(program, builder) /\ HeadersOK(program, builder, 1 .. item - 1)
        /\ item \in Nat /\ item \in DOMAIN builder.values
        /\ DOMAIN builder.values = 1 .. Len(builder.values) /\ Len(builder.values) \in Nat
    BY GlobalStart, GlobalsStage
  <1>2. 1 .. item - 1 \subseteq DOMAIN builder.values
    BY <1>1
  <1>3. HeadersHeld(program, builder)
    BY DEF ConstInv
  <1> QED BY <1>1, <1>2, <1>3, HeadersStay DEF SameFunctions

LEMMA SkipGlobalHolds ==
    ASSUME LayoutInv, ConstInv, SkipGlobal
    PROVE  ConstInv'
  <1>1. AtGlobal /\ Skipped(This)
    BY DEF SkipGlobal
  <1>2. /\ builder' = CountAreas(builder, This) /\ item' = item + 1
        /\ UNCHANGED <<program, flags, stage>>
    BY DEF SkipGlobal, NextItem
  <1>3. Typed(program, builder)
    BY <1>1, GlobalStart
  <1>4. DOMAIN builder = BuilderFields
    BY <1>3 DEF Typed
  <1>5. /\ SameFunctions(builder, builder') /\ TextsKept(builder, builder')
        /\ builder'.values = builder.values /\ builder'.fieldaddr = builder.fieldaddr
        /\ builder'.addr = builder.addr /\ builder'.globals = builder.globals
    BY <1>2, <1>4, CountAreasRest
  <1>6. Grows(builder, builder')
    <2>1. Len(builder.globals) \in Nat
      BY <1>3, LenProperties DEF Typed
    <2> QED BY <2>1, <1>5 DEF Grows, WordsKept, DefKept, SameFunctions
  <1>7. HeadersHeld(program, builder') /\ builder'.statements = builder.statements
    BY <1>1, <1>5, HeadersSame
  <1>8. Value(item) \notin PlacesIn(builder')
    BY <1>1, <1>5, GlobalStart DEF PlacesIn
  <1> QED BY <1>1, <1>2, <1>5, <1>6, <1>7, <1>8, GlobalConst

LEMMA GenerateWordlessHolds ==
    ASSUME LayoutInv, ConstInv, GenerateWordless
    PROVE  ConstInv'
  <1>1. AtGlobal /\ Wordless(This) /\ item' = item + 1 /\ UNCHANGED <<program, flags, stage>>
    BY DEF GenerateWordless, NextItem
  <1>2. Placing(builder', <<>>) /\ SameFunctions(builder, builder')
    BY GenerateWordlessDoes
  <1>3. <<>> \in Seq(Int)
    OBVIOUS
  <1>4. /\ Grows(builder, builder') /\ DOMAIN builder'.addr = DOMAIN builder.addr \cup {Value(item)}
    BY <1>1, <1>2, <1>3, PlacingIs
  <1>5. Value(item) \notin PlacesIn(builder')
    BY <1>1, <1>4 DEF PlacesIn, Value, Grows, This
  <1>6. HeadersHeld(program, builder') /\ builder'.statements = builder.statements
    BY <1>1, <1>2, <1>4, HeadersSame DEF Grows
  <1> QED BY <1>1, <1>4, <1>5, <1>6, GlobalConst

(* A merged constant is held where the one is that it is equal to.         *)
LEMMA GenerateMergedHolds ==
    ASSUME LayoutInv, ConstInv, GenerateMerged
    PROVE  ConstInv'
  <1> DEFINE r == builder.reusable[This.value]
  <1>1. AtGlobal /\ Merged(builder, This) /\ item' = item + 1 /\ UNCHANGED <<program, flags, stage>>
    BY DEF GenerateMerged, NextItem
  <1>2. MergedInto(builder, builder', item, r)
    BY GenerateMergedDoes
  <1>3. /\ This.type \in {"float", "entity"} /\ HasValue(This) /\ This.value \in DOMAIN builder.reusable
        /\ ~PushesDef(This)
    BY <1>1 DEF Merged, Mergeable
  <1>4. /\ Value(r) \in PlacesIn(builder) /\ builder.values[r].type \in {"float", "entity"}
        /\ builder.values[r].value = This.value
    <2>1. FileInv(program, flags, builder, 1 .. item - 1, {}, {}, {})
      BY <1>1, GlobalStart
    <2> QED BY <2>1, <1>3 DEF FileInv, Placed, ReusableOK
  <1>5. /\ Typed(program, builder) /\ Value(item) \notin DOMAIN builder.addr
        /\ KnownPlaces(program, builder, 1 .. item - 1, {}, {}, {})
        /\ item \in DOMAIN builder.values /\ item \in Nat
        /\ DOMAIN builder.values = 1 .. Len(builder.values) /\ Len(builder.values) \in Nat
    BY <1>1, GlobalStart DEF FileInv
  <1>6. r \in DOMAIN builder.values
    <2>1. Value(r) \in DOMAIN builder.addr
      BY <1>4 DEF PlacesIn
    <2>2. \E k \in 1 .. item - 1 : Value(r) = Value(k)
      BY <2>1, <1>5 DEF KnownPlaces, Value, ExtParam
    <2>3. r \in 1 .. item - 1
      BY <2>2 DEF Value
    <2> QED BY <2>3, <1>5
  <1>7. ValueHeld(builder, r)
    BY <1>4, <1>6 DEF ConstInv, ValuesHeld
  <1> HIDE DEF r
  <1>8. builder.globals[builder.addr[Value(r)] + 1] = This.value
    <2>1. HasValue(builder.values[r]) /\ builder.values[r].type \notin {"string", "function"}
      BY <1>3, <1>4 DEF HasValue
    <2>2. StartWords(builder, builder.values[r]) = <<This.value>>
      BY <2>1, <1>4 DEF StartWords
    <2>3. StartsAt(builder, builder.addr[Value(r)], <<This.value>>)
      BY <2>1, <2>2, <1>7 DEF ValueHeld
    <2> QED BY <2>3 DEF StartsAt
  <1>9. SameButPlaces(builder, builder') /\ builder'.globals = builder.globals
        /\ builder'.addr = With(builder.addr, Value(item), builder.addr[Value(r)])
    BY <1>2 DEF MergedInto
  <1>10. /\ TextsKept(builder, builder') /\ SameFunctions(builder, builder')
         /\ builder'.values = builder.values /\ builder'.fieldaddr = builder.fieldaddr
    BY <1>9, SameButPlacesAre DEF SameRest
  <1>11. /\ DOMAIN builder'.addr = DOMAIN builder.addr \cup {Value(item)}
         /\ builder'.addr[Value(item)] = builder.addr[Value(r)]
         /\ \A v \in DOMAIN builder.addr : builder'.addr[v] = builder.addr[v]
    BY <1>5, <1>9 DEF With
  <1>12. Grows(builder, builder')
    <2>1. Len(builder.globals) \in Nat
      BY <1>5, LenProperties DEF Typed
    <2> QED BY <2>1, <1>9, <1>10, <1>11 DEF Grows, WordsKept, DefKept, SameFunctions
  <1>13. HeadersHeld(program, builder') /\ builder'.statements = builder.statements
    BY <1>1, <1>10, HeadersSame
  <1>14. ValueHeld(builder', item)
    <2>1. builder'.values[item] = This
      BY <1>10 DEF This
    <2>2. ~HasFunction(This)
      BY <1>3 DEF HasFunction
    <2>3. StartWords(builder', This) = <<This.value>>
      BY <1>3 DEF StartWords
    <2>4. builder'.globals[builder'.addr[Value(item)] + 1] = This.value
      BY <1>8, <1>9, <1>11
    <2>5. StartsAt(builder', builder'.addr[Value(item)], <<This.value>>)
      BY <2>4 DEF StartsAt
    <2> QED BY <2>1, <2>2, <2>3, <2>5, <1>3 DEF ValueHeld
  <1>15. Value(item) \in DOMAIN builder'.addr
    BY <1>11
  <1> QED BY <1>1, <1>11, <1>12, <1>13, <1>14, <1>15, GlobalConst
-----------------------------------------------------------------------------
LEMMA GenerateStringHolds ==
    ASSUME LayoutInv, ConstInv, GenerateString
    PROVE  ConstInv'
  <1>1. /\ AtGlobal /\ This.type = "string" /\ HasValue(This) /\ item' = item + 1
        /\ UNCHANGED <<program, flags, stage>>
    BY DEF GenerateString, NextItem
  <1>2. PICK at \in Nat :
              /\ Placing(builder', <<at>>)
              /\ SameFunctions(builder, builder') /\ SameRest(builder, builder')
              /\ ReadsAs(builder'.strings.chars, at, This.value)
              /\ PushesDef(This) /\ ~IsLiteral(This) =>
                    HasDefsIn(builder', Len(builder.globals), This.name, This.type)
    BY GenerateStringDoes
  <1> DEFINE words == <<at>>
  <1>3. words \in Seq(Int) /\ Len(words) = 1 /\ words[1] = at
    OBVIOUS
  <1>8. Placing(builder', words)
    BY <1>2
  <1> HIDE DEF words
  <1>4. /\ Grows(builder, builder') /\ DOMAIN builder'.addr = DOMAIN builder.addr \cup {Value(item)}
        /\ builder'.addr[Value(item)] = Len(builder.globals)
        /\ builder'.globals[Len(builder.globals) + 1] = at
    <2>1. /\ Grows(builder, builder') /\ DOMAIN builder'.addr = DOMAIN builder.addr \cup {Value(item)}
          /\ builder'.addr[Value(item)] = Len(builder.globals)
          /\ \A j \in 1 .. Len(words) : builder'.globals[Len(builder.globals) + j] = words[j]
      BY <1>1, <1>2, <1>3, <1>8, PlacingIs
    <2> QED BY <2>1, <1>3
  <1>5. HeadersHeld(program, builder') /\ builder'.statements = builder.statements
    BY <1>1, <1>2, <1>4, HeadersSame DEF Grows
  <1>6. ValueHeld(builder', item)
    <2>1. builder'.values[item] = This
      BY <1>4 DEF This, Grows
    <2>2. ~HasFunction(This)
      BY <1>1 DEF HasFunction
    <2> QED BY <2>1, <2>2, <1>1, <1>2, <1>4 DEF ValueHeld
  <1>7. Value(item) \in DOMAIN builder'.addr
    BY <1>4
  <1> QED BY <1>1, <1>4, <1>5, <1>6, <1>7, GlobalConst

LEMMA GenerateWordsHolds ==
    ASSUME LayoutInv, ConstInv, GenerateWords
    PROVE  ConstInv'
  <1> DEFINE words == StartWords(builder, This)
  <1>1. /\ AtGlobal /\ (This.type = "string" => ~HasValue(This)) /\ ~HasFunction(This)
        /\ item' = item + 1 /\ UNCHANGED <<program, flags, stage>>
    BY DEF GenerateWords, NextItem
  <1>2. /\ Placing(builder', words) /\ words \in Seq(Int) /\ SameFunctions(builder, builder')
        /\ PushesDef(This) /\ ~IsLiteral(This) =>
              HasDefsIn(builder', Len(builder.globals), This.name, This.type)
    BY GenerateWordsDoes
  <1>3. StartWords(builder', This) = words
    BY <1>2 DEF StartWords, Placing
  <1> HIDE DEF words
  <1>4. /\ Grows(builder, builder') /\ DOMAIN builder'.addr = DOMAIN builder.addr \cup {Value(item)}
        /\ builder'.addr[Value(item)] = Len(builder.globals)
        /\ StartsAt(builder', Len(builder.globals), words)
    BY <1>1, <1>2, PlacingIs
  <1>5. HeadersHeld(program, builder') /\ builder'.statements = builder.statements
    BY <1>1, <1>2, <1>4, HeadersSame DEF Grows
  <1>6. ValueHeld(builder', item)
    <2>1. builder'.values[item] = This
      BY <1>4 DEF This, Grows
    <2> QED BY <2>1, <1>1, <1>2, <1>3, <1>4 DEF ValueHeld
  <1>7. Value(item) \in DOMAIN builder'.addr
    BY <1>4
  <1> QED BY <1>1, <1>4, <1>5, <1>6, <1>7, GlobalConst

LEMMA FunctionPlacedIs ==
    ASSUME LayoutInv, AtGlobal, NEW c, NEW h, FunctionPlaced(c, h)
    PROVE  /\ Grows(builder, c)
           /\ DOMAIN c.addr = DOMAIN builder.addr \cup {Value(item)}
           /\ c.addr[Value(item)] = Len(builder.globals)
           /\ c.globals[Len(builder.globals) + 1] = Len(builder.functions)
           /\ DOMAIN c.def = DOMAIN builder.def \cup {item}
           /\ c.def[item] = Len(builder.functions) + 1
           /\ Len(builder.functions) \in Nat
           /\ c.functions[Len(builder.functions) + 1] = h
           /\ \A k \in DOMAIN builder.def : /\ k # item /\ c.def[k] = builder.def[k]
                                            /\ c.functions[builder.def[k]] = builder.functions[builder.def[k]]
  <1>1. /\ Typed(program, builder) /\ HeadersOK(program, builder, 1 .. item - 1) /\ item \in Nat
    BY GlobalStart DEF FileInv
  <1>2. builder.functions \in Seq(Headers) /\ Len(builder.functions) \in Nat
    BY <1>1, LenProperties DEF Typed
  <1>3. IsSeq(builder.functions)
    <2>1. builder.functions \in [1 .. Len(builder.functions) -> Headers]
      BY <1>2, LenProperties
    <2> QED BY <2>1, <1>2, SeqIs
  <1>4. /\ c.functions[Len(builder.functions) + 1] = h
        /\ \A i \in 1 .. Len(builder.functions) : c.functions[i] = builder.functions[i]
    BY <1>3, IsSeqLen, AppendIs DEF FunctionPlaced
  <1>5. \A k \in DOMAIN builder.def : k # item /\ builder.def[k] \in 1 .. Len(builder.functions)
    BY <1>1, <1>2 DEF HeadersOK
  <1>6. /\ DOMAIN c.def = DOMAIN builder.def \cup {item}
        /\ c.def[item] = Len(builder.functions) + 1
        /\ \A k \in DOMAIN builder.def : c.def[k] = builder.def[k]
    BY <1>5 DEF FunctionPlaced, With
  <1>7. DefKept(builder, c)
    BY <1>6 DEF DefKept
  <1> DEFINE words == <<Len(builder.functions)>>
  <1>8. words \in Seq(Int) /\ Len(words) = 1 /\ words[1] = Len(builder.functions)
    BY <1>2
  <1>9. /\ TextsKept(builder, c) /\ c.values = builder.values /\ c.fieldaddr = builder.fieldaddr
        /\ c.addr = With(builder.addr, Value(item), Len(builder.globals))
        /\ c.globals = builder.globals \o words
    BY DEF FunctionPlaced
  <1> HIDE DEF words
  <1>10. /\ Grows(builder, c)
         /\ DOMAIN c.addr = DOMAIN builder.addr \cup {Value(item)}
         /\ c.addr[Value(item)] = Len(builder.globals)
         /\ \A j \in 1 .. Len(words) : c.globals[Len(builder.globals) + j] = words[j]
    BY <1>7, <1>8, <1>9, PushedAt
  <1>11. c.globals[Len(builder.globals) + 1] = Len(builder.functions)
    BY <1>8, <1>10
  <1> QED BY <1>2, <1>4, <1>5, <1>6, <1>10, <1>11

LEMMA GenerateFunctionHolds ==
    ASSUME LayoutInv, ConstInv, GenerateFunction
    PROVE  ConstInv'
  <1>1. /\ AtGlobal /\ HasFunction(This) /\ item' = item + 1 /\ UNCHANGED <<program, flags, stage>>
    BY DEF GenerateFunction, NextItem
  <1>2. PICK h \in Headers :
              /\ FunctionPlaced(builder', h)
              /\ FunctionOf(item).builtin # 0 => h.entry = -FunctionOf(item).builtin
              /\ PushesDef(This) /\ ~IsLiteral(This) =>
                    /\ ReadsAs(builder'.strings.chars, h.name, This.name)
                    /\ HasDefsIn(builder', Len(builder.globals), This.name, This.type)
    BY GenerateFunctionDoes
  <1>3. /\ Grows(builder, builder')
        /\ DOMAIN builder'.addr = DOMAIN builder.addr \cup {Value(item)}
        /\ builder'.addr[Value(item)] = Len(builder.globals)
        /\ builder'.globals[Len(builder.globals) + 1] = Len(builder.functions)
        /\ DOMAIN builder'.def = DOMAIN builder.def \cup {item}
        /\ builder'.def[item] = Len(builder.functions) + 1
        /\ Len(builder.functions) \in Nat
        /\ builder'.functions[Len(builder.functions) + 1] = h
        /\ \A k \in DOMAIN builder.def :
              /\ k # item /\ builder'.def[k] = builder.def[k]
              /\ builder'.functions[builder.def[k]] = builder.functions[builder.def[k]]
    BY <1>1, <1>2, FunctionPlacedIs
  <1>4. builder'.values = builder.values /\ builder'.values[item] = This
    BY <1>3 DEF Grows, This
  <1>5. builder'.statements = builder.statements
    BY <1>2 DEF FunctionPlaced
  <1>6. HeadersHeld(program, builder')
    <2>1. /\ Typed(program, builder) /\ HeadersOK(program, builder, 1 .. item - 1)
          /\ 1 .. item - 1 \subseteq DOMAIN builder.values
      <3>1. /\ item \in Nat /\ item \in DOMAIN builder.values
            /\ DOMAIN builder.values = 1 .. Len(builder.values) /\ Len(builder.values) \in Nat
        BY <1>1, GlobalStart
      <3>2. 1 .. item - 1 \subseteq DOMAIN builder.values
        BY <3>1
      <3> QED BY <1>1, <3>2, GlobalStart, GlobalsStage
    <2> SUFFICES ASSUME NEW k \in DOMAIN builder'.def
                 PROVE  HeaderHeld(program, builder', k)
      BY DEF HeadersHeld
    <2>2. CASE k = item
      <3>1. FunctionIn(program, builder', item) = FunctionOf(item)
        BY <1>4 DEF FunctionIn, FunctionOf
      <3>2. builder'.functions[builder'.def[item]] = h
        BY <1>3
      <3> QED BY <2>2, <3>1, <3>2, <1>2, <1>4 DEF HeaderHeld
    <2>3. CASE k # item
      <3>1. k \in DOMAIN builder.def
        BY <2>3, <1>3
      <3>2. HeaderStays(program, builder, builder', k)
        BY <3>1, <1>3 DEF HeaderStays
      <3>3. HeaderHeld(program, builder, k)
        BY <3>1 DEF ConstInv, HeadersHeld
      <3>4. TextsKept(builder, builder')
        BY <1>3 DEF Grows
      <3> QED BY <2>1, <3>1, <3>2, <3>3, <3>4, <1>4, HeaderHeldStill
    <2> QED BY <2>2, <2>3
  <1>7. ValueHeld(builder', item)
    <2>1. This.type = "function"
      BY <1>1 DEF HasFunction
    <2>2. builder'.def[item] - 1 = Len(builder.functions)
      BY <1>3
    <2> QED BY <2>1, <2>2, <1>2, <1>3, <1>4 DEF ValueHeld
  <1>8. Value(item) \in DOMAIN builder'.addr
    BY <1>3
  <1> QED BY <1>1, <1>3, <1>5, <1>6, <1>7, <1>8, GlobalConst
-----------------------------------------------------------------------------
(***************************************************************************)
(* Before anything has words, only the fields are laid out.                *)
(***************************************************************************)
NoCodeYet(b) == \A i \in DOMAIN b.statements : b.statements[i].of = 0

LEMMA EarlyHeld ==
    ASSUME NEW p, NEW b, b.addr = <<>>, DOMAIN b.def = {}, NoCodeYet(b)
    PROVE  /\ ValuesHeld(b) /\ AllPlaced(b, {}) /\ FieldsHeld(p, b, {}) /\ HeadersHeld(p, b)
           /\ CodeHeld(p, b, {})
  <1>1. PlacesIn(b) = {}
    BY DEF PlacesIn
  <1> QED BY <1>1 DEF ValuesHeld, AllPlaced, FieldsHeld, HeadersHeld, CodeHeld, Laid, NoCodeYet

LEMMA EarlyHas ==
    ASSUME LayoutInv, ConstInv, EarlyStage
    PROVE  /\ NoCodeYet(builder) /\ FieldsApart(program, builder)
           /\ builder.addr = <<>> /\ DOMAIN builder.def = {}
  <1>1. CodeDone = {}
    BY SMTT(30) DEF EarlyStage, CodeDone, CodeStages
  <1>2. Early(program, builder)
    BY EarlyStart
  <1> QED BY <1>1, <1>2 DEF ConstInv, CodeHeld, Early, NoCodeYet

LEMMA EarlyConst ==
    ASSUME UNCHANGED <<program, flags>>, stage' \in {"collect", "split", "prepare"},
           builder'.addr = <<>>, DOMAIN builder'.def = {}, NoCodeYet(builder'),
           FieldsApart(program, builder'), stage' = "prepare" => FieldsFit(program, builder')
    PROVE  ConstInv'
  <1>1. ValuesDone' = {} /\ FieldsDone' = {} /\ CodeDone' = {}
    BY SMTT(30) DEF ValuesDone, FieldsDone, CodeDone, CodeStages
  <1>2. /\ ValuesHeld(builder') /\ AllPlaced(builder', {}) /\ FieldsHeld(program, builder', {})
        /\ HeadersHeld(program, builder') /\ CodeHeld(program, builder', {})
    BY EarlyHeld
  <1>3. stage' \notin InBody
    BY DEF InBody
  <1> QED BY <1>1, <1>2, <1>3, ConstNext

LEMMA ConstInit ==
    ASSUME WriterInit
    PROVE  ConstInv
  <1>1. builder = NewBuilder(program) /\ stage = "collect"
    BY DEF WriterInit
  <1>2. /\ builder.addr = <<>> /\ DOMAIN builder.def = {} /\ DOMAIN builder.fieldaddr = {}
        /\ builder.statements = <<Statement("DONE", 0, 0, 0, 0)>>
    BY <1>1 DEF NewBuilder
  <1>3. NoCodeYet(builder)
    BY <1>2 DEF NoCodeYet, Statement
  <1>4. ValuesDone = {} /\ FieldsDone = {} /\ CodeDone = {}
    BY <1>1, SMTT(30) DEF ValuesDone, FieldsDone, CodeDone, CodeStages
  <1>5. /\ ValuesHeld(builder) /\ AllPlaced(builder, {}) /\ FieldsHeld(program, builder, {})
        /\ HeadersHeld(program, builder) /\ CodeHeld(program, builder, {})
    BY <1>2, <1>3, EarlyHeld
  <1>6. FieldsApart(program, builder) /\ stage # "prepare" /\ stage \notin InBody
    BY <1>1, <1>2 DEF FieldsApart, InBody
  <1> QED BY <1>4, <1>5, <1>6 DEF ConstInv

LEMMA NoFields ==
    ASSUME NEW p, NEW b, Typed(p, b), Len(b.fieldaddr) = 0
    PROVE  FieldsApart(p, b) /\ FieldsFit(p, b)
  <1>1. DOMAIN b.fieldaddr = {}
    BY LenProperties DEF Typed
  <1> QED BY <1>1 DEF FieldsApart, FieldsFit

LEMMA CollectHolds ==
    ASSUME LayoutInv, ConstInv, CollectReusables
    PROVE  ConstInv'
  <1>1. stage = "collect" /\ EarlyStage
    BY DEF CollectReusables, EarlyStage
  <1>2. Early(program, builder) /\ StageOK
    BY <1>1, EarlyStart
  <1>3. DOMAIN builder = BuilderFields
    BY <1>2 DEF Early, Typed
  <1>4. /\ stage' \in {"prepare", "split"} /\ UNCHANGED <<program, flags>>
        /\ builder' = builder \/ \E fl : builder' = [builder EXCEPT !.constfloats = fl]
    BY DEF CollectReusables, EnterStage
  <1>5. /\ builder'.addr = builder.addr /\ builder'.def = builder.def
        /\ builder'.fieldaddr = builder.fieldaddr /\ builder'.statements = builder.statements
    BY <1>3, <1>4 DEF BuilderFields
  <1>6. Len(builder.fieldaddr) = 0 /\ Typed(program, builder)
    BY <1>1, <1>2 DEF StageOK, Early
  <1>7. FieldsApart(program, builder') /\ FieldsFit(program, builder')
    <2>1. DOMAIN builder.fieldaddr = {}
      BY <1>6, LenProperties DEF Typed
    <2> QED BY <2>1, <1>5 DEF FieldsApart, FieldsFit
  <1>8. NoCodeYet(builder') /\ builder'.addr = <<>> /\ DOMAIN builder'.def = {}
    BY <1>1, <1>5, EarlyHas DEF NoCodeYet
  <1> QED BY <1>4, <1>7, <1>8, EarlyConst

LEMMA SplitHolds ==
    ASSUME LayoutInv, ConstInv, SplitVector
    PROVE  ConstInv'
  <1>1. stage = "split" /\ EarlyStage /\ stage' = "split" /\ UNCHANGED <<program, flags>>
    BY DEF SplitVector, EarlyStage, NextItem
  <1>2. Early(program, builder) /\ StageOK
    BY <1>1, EarlyStart
  <1>3. SameButValues(builder, builder')
    BY SplitVectorDoes
  <1>4. DOMAIN builder'.fieldaddr = {}
    <2>1. Len(builder.fieldaddr) = 0 /\ builder.fieldaddr \in Seq(Nat)
      BY <1>1, <1>2 DEF StageOK, Early, Typed
    <2> QED BY <2>1, <1>3, LenProperties DEF SameButValues
  <1>5. FieldsApart(program, builder')
    BY <1>4 DEF FieldsApart
  <1>6. NoCodeYet(builder') /\ builder'.addr = <<>> /\ DOMAIN builder'.def = {}
    BY <1>1, <1>3, EarlyHas DEF NoCodeYet, SameButValues
  <1> QED BY <1>1, <1>5, <1>6, EarlyConst

(* A field is laid out behind those that are.                              *)
LEMMA PrepareHolds ==
    ASSUME LayoutInv, ConstInv, PrepareField
    PROVE  ConstInv'
  <1>1. /\ stage = "prepare" /\ EarlyStage /\ stage' = "prepare" /\ UNCHANGED <<program, flags>>
    BY DEF PrepareField, EarlyStage, NextItem
  <1>2. Early(program, builder) /\ StageOK /\ item \in Nat /\ item >= 1
    BY <1>1, EarlyStart
  <1> DEFINE size == SizeOf(program.fields[item].type)
             ent  == builder.entfields
             old  == builder.fieldaddr
             new  == builder'.fieldaddr
  <1>3. DOMAIN builder = BuilderFields /\ ent \in Nat /\ old \in Seq(Nat) /\ Len(old) = item - 1
    BY <1>1, <1>2 DEF Early, Typed, StageOK
  <1>4. size \in Nat
    BY DEF SizeOf
  <1>5. /\ builder'.addr = builder.addr /\ builder'.def = builder.def
        /\ builder'.statements = builder.statements
        /\ builder'.entfields = ent + size /\ new = Append(old, ent)
    BY <1>3 DEF PrepareField, NextItem, BuilderFields
  <1> HIDE DEF size, ent, old, new
  <1>6. /\ DOMAIN old = 1 .. item - 1 /\ DOMAIN new = 1 .. item /\ new[item] = ent
        /\ \A j \in 1 .. item - 1 : new[j] = old[j] /\ old[j] \in Nat
    BY <1>2, <1>3, <1>5, AppendProperties, LenProperties, ElementOfSeq
  <1>7. \A j \in 1 .. item - 1 : old[j] + SizeOf(program.fields[j].type) <= ent
    <2>1. FieldsFit(program, builder)
      BY <1>1 DEF ConstInv
    <2> QED BY <2>1, <1>6 DEF FieldsFit, old, ent
  <1>8. \A j \in 1 .. item - 1 : \A i \in 1 .. j - 1 :
           old[i] + SizeOf(program.fields[i].type) <= old[j]
    <2>1. FieldsApart(program, builder)
      BY <1>1, EarlyHas
    <2> QED BY <2>1, <1>6 DEF FieldsApart, old
  <1>9. FieldsApart(program, builder')
    <2> SUFFICES ASSUME NEW j \in 1 .. item, NEW i \in 1 .. j - 1
                 PROVE  new[i] + SizeOf(program.fields[i].type) <= new[j]
      BY <1>6 DEF FieldsApart, new
    <2>1. i \in 1 .. item - 1
      BY <1>2
    <2>2. CASE j = item
      BY <2>1, <2>2, <1>6, <1>7
    <2>3. CASE j # item
      <3>1. j \in 1 .. item - 1
        BY <2>3, <1>2
      <3> QED BY <2>1, <3>1, <1>6, <1>8
    <2> QED BY <2>2, <2>3
  <1>10. FieldsFit(program, builder')
    <2> SUFFICES ASSUME NEW j \in 1 .. item
                 PROVE  new[j] + SizeOf(program.fields[j].type) <= ent + size
      BY <1>5, <1>6 DEF FieldsFit, new
    <2>1. CASE j = item
      BY <2>1, <1>3, <1>4, <1>6 DEF size
    <2>2. CASE j # item
      <3>1. j \in 1 .. item - 1
        BY <2>2, <1>2
      <3>2. SizeOf(program.fields[j].type) \in Nat
        BY DEF SizeOf
      <3> DEFINE s == SizeOf(program.fields[j].type)
      <3>3. s \in Nat /\ old[j] \in Nat /\ old[j] + s <= ent /\ new[j] = old[j]
        BY <3>1, <3>2, <1>6, <1>7
      <3> HIDE DEF s
      <3>4. new[j] + s <= ent + size
        BY <3>3, <1>3, <1>4 DEF ent
      <3> QED BY <3>4 DEF s
    <2> QED BY <2>1, <2>2
  <1>11. NoCodeYet(builder') /\ builder'.addr = <<>> /\ DOMAIN builder'.def = {}
    BY <1>1, <1>5, EarlyHas DEF NoCodeYet
  <1> QED BY <1>1, <1>9, <1>10, <1>11, EarlyConst
-----------------------------------------------------------------------------
LEMMA LoopHolds ==
    ASSUME LayoutInv, ConstInv, LoopDone
    PROVE  ConstInv'
  <1>1. /\ UNCHANGED <<program, flags, builder>>
        /\ \/ stage = "split" /\ stage' = "prepare"
           \/ stage = "prepare" /\ stage' = "globals"
           \/ stage = "globals" /\ stage' = "fields"
        /\ ValuesDone' = ValuesDone /\ FieldsDone' = FieldsDone /\ CodeDone' = CodeDone
    BY LoopDoes
  <1>2. stage' \notin InBody
    BY <1>1 DEF InBody
  <1>3. stage' = "prepare" => FieldsFit(program, builder)
    <2> SUFFICES ASSUME stage' = "prepare"
                 PROVE  FieldsFit(program, builder)
      OBVIOUS
    <2>1. stage = "split" /\ EarlyStage
      BY <1>1 DEF EarlyStage
    <2>2. Typed(program, builder) /\ Len(builder.fieldaddr) = 0
      BY <2>1, EarlyStart DEF Early, StageOK
    <2> QED BY <2>2, NoFields
  <1>4. /\ ValuesHeld(builder) /\ AllPlaced(builder, ValuesDone)
        /\ FieldsHeld(program, builder, FieldsDone) /\ FieldsApart(program, builder)
        /\ HeadersHeld(program, builder) /\ CodeHeld(program, builder, CodeDone)
    BY DEF ConstInv
  <1>5. builder' = builder
    BY <1>1
  <1>6. /\ ValuesHeld(builder') /\ AllPlaced(builder', ValuesDone')
        /\ FieldsHeld(program, builder', FieldsDone') /\ FieldsApart(program, builder')
        /\ stage' = "prepare" => FieldsFit(program, builder')
        /\ HeadersHeld(program, builder') /\ CodeHeld(program, builder', CodeDone')
    BY <1>1, <1>3, <1>4, <1>5, Zenon
  <1>7. UNCHANGED <<program, flags>>
    BY <1>1
  <1> QED BY <1>2, <1>6, <1>7, ConstNext

(***************************************************************************)
(* The loop over the fields.                                               *)
(***************************************************************************)
LEMMA FieldsStage ==
    ASSUME LayoutInv, ConstInv, stage = "fields"
    PROVE  /\ ValuesDone = DOMAIN builder.values /\ FieldsDone = 1 .. item - 1 /\ CodeDone = {}
           /\ AllPlaced(builder, DOMAIN builder.values) /\ FieldsHeld(program, builder, 1 .. item - 1)
           /\ NoCodeYet(builder)
           /\ Apart(program, builder) /\ HeadersOK(program, builder, DOMAIN builder.values)
  <1>1. ValuesDone = DOMAIN builder.values /\ FieldsDone = 1 .. item - 1 /\ CodeDone = {}
    BY SMTT(30) DEF ValuesDone, FieldsDone, CodeDone, CodeStages
  <1>2. CodeHeld(program, builder, {})
    BY <1>1 DEF ConstInv
  <1>3. NoCodeYet(builder)
    BY <1>2 DEF CodeHeld, NoCodeYet
  <1>4. FileInv(program, flags, builder, DOMAIN builder.values, 1 .. item - 1, {}, {})
    BY FieldStart
  <1> QED BY <1>1, <1>3, <1>4 DEF ConstInv, FileInv, Placed

(* What holds of the values, fields and headers when there are more words  *)
(* and names.                                                              *)
LEMMA ValuesStay ==
    ASSUME NEW p, NEW fs, NEW b, NEW c, NEW vd, IsProgram(p, fs), Typed(p, b), Apart(p, b),
           Grows(b, c), Len(b.fieldaddr) = Len(p.fields),
           \A k \in DOMAIN b.values : Value(k) \in DOMAIN c.addr => Value(k) \in DOMAIN b.addr,
           ValuesHeld(b), AllPlaced(b, vd)
    PROVE  ValuesHeld(c) /\ AllPlaced(c, vd)
  <1>1. c.values = b.values
    BY DEF Grows
  <1>2. ASSUME NEW k \in DOMAIN b.values, Value(k) \in PlacesIn(c)
        PROVE  ValueHeld(c, k)
    <2>1. Value(k) \in PlacesIn(b)
      BY <1>1, <1>2 DEF PlacesIn
    <2>2. ValueHeld(b, k)
      BY <2>1 DEF ValuesHeld
    <2> QED BY <2>1, <2>2, ValueStays
  <1>3. AllPlaced(c, vd)
    BY <1>1 DEF AllPlaced, Grows, WordsKept
  <1> QED BY <1>1, <1>2, <1>3 DEF ValuesHeld

LEMMA FieldsStay ==
    ASSUME NEW p, NEW fs, NEW b, NEW c, NEW fd, IsProgram(p, fs), Typed(p, b), Apart(p, b),
           Grows(b, c), Len(b.fieldaddr) = Len(p.fields), fd \subseteq DOMAIN p.fields,
           FieldsHeld(p, b, fd)
    PROVE  FieldsHeld(p, c, fd)
  <1> SUFFICES ASSUME NEW j \in fd
               PROVE  FieldHeld(p, c, j)
    BY DEF FieldsHeld
  <1>1. FieldHeld(p, b, j)
    BY DEF FieldsHeld
  <1>2. j \in DOMAIN p.fields /\ j \in DOMAIN b.fieldaddr
    <2>1. DOMAIN b.fieldaddr = 1 .. Len(b.fieldaddr)
      BY LenProperties DEF Typed
    <2>2. DOMAIN p.fields = 1 .. Len(p.fields)
      BY ProgramSeqs
    <2> QED BY <2>1, <2>2
  <1> QED BY <1>1, <1>2, FieldStays

(* From the fields to the code: only fields and areas are added.           *)
LEMMA FieldsConst ==
    ASSUME LayoutInv, ConstInv, stage = "fields", UNCHANGED <<program, flags>>,
           stage' \in {"fields", "code"}, ValuesDone' = DOMAIN builder.values, CodeDone' = {},
           Grows(builder, builder'), SameFunctions(builder, builder'),
           \A k \in DOMAIN builder.values : Value(k) \in DOMAIN builder'.addr =>
              Value(k) \in DOMAIN builder.addr,
           FieldsHeld(program, builder', FieldsDone')
    PROVE  ConstInv'
  <1>1. /\ IsProgram(program, flags) /\ Typed(program, builder)
        /\ Len(builder.fieldaddr) = Len(program.fields)
        /\ AllPlaced(builder, DOMAIN builder.values) /\ NoCodeYet(builder)
        /\ Apart(program, builder) /\ HeadersOK(program, builder, DOMAIN builder.values)
    BY FieldStart, FieldsStage
  <1>2. ValuesHeld(builder) /\ FieldsApart(program, builder) /\ HeadersHeld(program, builder)
    BY DEF ConstInv
  <1>3. ValuesHeld(builder') /\ AllPlaced(builder', DOMAIN builder.values)
    BY <1>1, <1>2, ValuesStay
  <1>4. FieldsApart(program, builder')
    BY <1>2 DEF FieldsApart, Grows
  <1>5. HeadersHeld(program, builder')
    BY <1>1, <1>2, HeadersStay DEF Grows, SameFunctions
  <1>6. CodeHeld(program, builder', {})
    BY <1>1 DEF CodeHeld, Laid, SameFunctions, NoCodeYet
  <1>7. stage' # "prepare" /\ stage' \notin InBody
    BY DEF InBody
  <1> QED BY <1>3, <1>4, <1>5, <1>6, <1>7, ConstNext

LEMMA GenFieldHolds ==
    ASSUME LayoutInv, ConstInv, GenField
    PROVE  ConstInv'
  <1> DEFINE field == program.fields[item]
             words == From(builder.fieldaddr[item], SizeOf(field.type))
             at == Len(builder.globals)
  <1>1. /\ stage = "fields" /\ stage' = "fields" /\ item <= Len(program.fields)
        /\ item' = item + 1 /\ UNCHANGED <<program, flags>>
    BY DEF GenField, NextItem, Items
  <1>2. /\ IsProgram(program, flags) /\ Typed(program, builder)
        /\ FileInv(program, flags, builder, DOMAIN builder.values, 1 .. item - 1, {}, {})
        /\ Len(builder.fieldaddr) = Len(program.fields) /\ builder.fieldaddr \in Seq(Nat)
        /\ item \in Nat /\ item >= 1 /\ Len(program.fields) \in Nat
        /\ DOMAIN program.fields = 1 .. Len(program.fields)
    BY <1>1, FieldStart
  <1>3. /\ FieldsHeld(program, builder, 1 .. item - 1) /\ Apart(program, builder)
    BY <1>1, FieldsStage
  <1>4. GenFieldStep
    BY GenFieldDoes
  <1>5. /\ TextsKept(builder, builder') /\ SameFunctions(builder, builder')
        /\ builder'.values = builder.values /\ builder'.fieldaddr = builder.fieldaddr
        /\ builder'.addr = With(builder.addr, FieldGlobal(item), at)
        /\ builder'.globals = builder.globals \o words
        /\ HasDefIn(builder', at, FieldText(field))
        /\ HasFieldIn(builder', builder.fieldaddr[item], field.name)
    BY <1>4 DEF GenFieldStep, SameRest
  <1>6. words \in Seq(Int) /\ Len(words) = SizeOf(field.type)
    <2>1. builder.fieldaddr[item] \in Int
      BY <1>1, <1>2, ElementOfSeq
    <2>2. SizeOf(field.type) \in Nat
      BY DEF SizeOf
    <2> QED BY <2>1, <2>2, FromAre
  <1>7. FieldGlobal(item) \notin DOMAIN builder.addr
    <2> SUFFICES ASSUME FieldGlobal(item) \in DOMAIN builder.addr
                 PROVE  FALSE
      OBVIOUS
    <2>1. KnownPlaces(program, builder, DOMAIN builder.values, 1 .. item - 1, {}, {})
      BY <1>2 DEF FileInv
    <2>2. \E j \in 1 .. item - 1 : FieldGlobal(item) = FieldGlobal(j)
      BY <2>1 DEF KnownPlaces, FieldGlobal, Value, ExtParam
    <2>3. item \in 1 .. item - 1
      BY <2>2 DEF FieldGlobal
    <2> QED BY <2>3, <1>2
  <1>8. /\ DOMAIN builder'.addr = DOMAIN builder.addr \cup {FieldGlobal(item)}
        /\ builder'.addr[FieldGlobal(item)] = at
        /\ \A v \in DOMAIN builder.addr : v \in DOMAIN builder'.addr /\ builder'.addr[v] = builder.addr[v]
    BY <1>5, <1>7 DEF With
  <1>9. builder.globals \in Seq(Int)
    BY <1>2 DEF Typed
  <1> HIDE DEF words
  <1>10. WordsKept(builder, builder')
    BY <1>5, <1>6, <1>8, <1>9, WordsKeptConcat, ZenonT(60)
  <1>11. Grows(builder, builder')
    BY <1>5, <1>10 DEF Grows, DefKept, SameFunctions
  <1>12. StartsAt(builder', at, words)
    <2>1. \A j \in 1 .. Len(words) : builder'.globals[at + j] = words[j]
      <3>1. \A j \in 1 .. Len(words) :
               (builder.globals \o words)[Len(builder.globals) + j] = words[j]
        BY <1>6, <1>9, ConcatIs
      <3> QED BY <3>1, <1>5
    <2>2. DOMAIN words = 1 .. Len(words)
      BY <1>6, LenProperties
    <2> QED BY <2>1, <2>2 DEF StartsAt
  <1>13. FieldHeld(program, builder', item)
    BY <1>5, <1>8, <1>12 DEF FieldHeld, words
  <1>14. FieldsHeld(program, builder', 1 .. item - 1)
    <2>1. 1 .. item - 1 \subseteq DOMAIN program.fields
      BY <1>1, <1>2
    <2> QED BY <2>1, <1>2, <1>3, <1>11, FieldsStay
  <1>15. FieldsHeld(program, builder', 1 .. item)
    <2> SUFFICES ASSUME NEW j \in 1 .. item
                 PROVE  FieldHeld(program, builder', j)
      BY DEF FieldsHeld
    <2>1. j = item \/ j \in 1 .. item - 1
      BY <1>2
    <2> QED BY <2>1, <1>13, <1>14 DEF FieldsHeld
  <1>16. ValuesDone' = DOMAIN builder.values /\ FieldsDone' = 1 .. item /\ CodeDone' = {}
    <2>1. item' - 1 = item
      BY <1>1, <1>2
    <2> QED BY <2>1, <1>1, <1>5, SMTT(30) DEF ValuesDone, FieldsDone, CodeDone, CodeStages
  <1>17. \A k \in DOMAIN builder.values : Value(k) \in DOMAIN builder'.addr =>
            Value(k) \in DOMAIN builder.addr
    BY <1>8 DEF Value, FieldGlobal
  <1>18. FieldsHeld(program, builder', FieldsDone')
    BY <1>15, <1>16
  <1>19. stage' \in {"fields", "code"}
    BY <1>1
  <1>20. ValuesDone' = DOMAIN builder.values /\ CodeDone' = {} /\ SameFunctions(builder, builder')
    BY <1>5, <1>16
  <1> QED BY <1>1, <1>11, <1>17, <1>18, <1>19, <1>20, FieldsConst
-----------------------------------------------------------------------------
LEMMA AreasHold ==
    ASSUME LayoutInv, ConstInv, Areas
    PROVE  ConstInv'
  <1>1. /\ stage = "fields" /\ stage' = "code" /\ item' = 1 /\ item > Len(program.fields)
        /\ UNCHANGED <<program, flags>>
    BY DEF Areas, EnterStage, Items
  <1>2. /\ IsProgram(program, flags) /\ StageOK /\ Typed(program, builder)
        /\ Len(builder.fieldaddr) = Len(program.fields) /\ item \in Nat
        /\ Len(program.fields) \in Nat /\ DOMAIN program.fields = 1 .. Len(program.fields)
    BY <1>1, FieldStart
  <1>3. 1 .. item - 1 = DOMAIN program.fields
    <2>1. item \in 1 .. Len(program.fields) + 1
      BY <1>1, <1>2 DEF StageOK, Items
    <2> QED BY <2>1, <1>1, <1>2
  <1>4. FieldsHeld(program, builder, DOMAIN program.fields) /\ Apart(program, builder)
    BY <1>1, <1>3, FieldsStage
  <1>5. /\ WordsKept(builder, builder') /\ TextsKept(builder, builder')
        /\ SameFunctions(builder, builder') /\ SameRest(builder, builder')
        /\ DOMAIN builder'.addr = DOMAIN builder.addr \cup AreaPlaces
    BY AreasDoes
  <1>6. Grows(builder, builder')
    BY <1>5 DEF Grows, DefKept, SameFunctions, SameRest
  <1>7. /\ ValuesDone' = DOMAIN builder.values /\ FieldsDone' = DOMAIN program.fields
    BY <1>1, <1>5, SMTT(30) DEF ValuesDone, FieldsDone, CodeStages, SameRest
  <1>8. CodeDone' = {}
    <2>1. 1 .. item' - 1 = {}
      BY <1>1
    <2> QED BY <2>1, <1>1, SMTT(30) DEF CodeDone
  <1>9. FieldsHeld(program, builder', FieldsDone')
    BY <1>2, <1>4, <1>6, <1>7, FieldsStay
  <1>10. \A k \in DOMAIN builder.values : Value(k) \in DOMAIN builder'.addr =>
            Value(k) \in DOMAIN builder.addr
    BY <1>5 DEF Value, AreaPlaces, Nil, VinstrTemp
  <1>11. stage' \in {"fields", "code"}
    BY <1>1
  <1> QED BY <1>1, <1>5, <1>6, <1>7, <1>8, <1>9, <1>10, <1>11, FieldsConst

(***************************************************************************)
(* The functions' code.                                                    *)
(***************************************************************************)
LEMMA CodeStage ==
    ASSUME LayoutInv, ConstInv, stage \in InCode
    PROVE  /\ IsProgram(program, flags) /\ Typed(program, builder) /\ Apart(program, builder)
           /\ HeadersOK(program, builder, DOMAIN builder.values)
           /\ Len(builder.fieldaddr) = Len(program.fields)
           /\ AllPlaced(builder, DOMAIN builder.values)
           /\ FieldsHeld(program, builder, DOMAIN program.fields)
           /\ CodeHeld(program, builder, CodeDone)
  <1>1. IsProgram(program, flags) /\ StageOK /\ CodeFile(builder, CodeDone) /\ Typed(program, builder)
    BY CodeStart
  <1>2. ValuesDone = DOMAIN builder.values /\ FieldsDone = DOMAIN program.fields
    BY SMTT(30) DEF ValuesDone, FieldsDone, CodeStages, InCode
  <1>3. Len(builder.fieldaddr) = Len(program.fields)
    BY <1>1 DEF StageOK, InCode
  <1>4. Apart(program, builder) /\ HeadersOK(program, builder, DOMAIN builder.values)
    BY <1>1 DEF CodeFile, FileInv, Placed
  <1> QED BY <1>1, <1>2, <1>3, <1>4 DEF ConstInv

LEMMA CodeConst ==
    ASSUME LayoutInv, ConstInv, stage \in InCode, UNCHANGED <<program, flags>>,
           stage' \in CodeStages, Grows(builder, builder'),
           \A k \in DOMAIN builder.values : Value(k) \in DOMAIN builder'.addr =>
              Value(k) \in DOMAIN builder.addr,
           HeadersHeld(program, builder'), CodeHeld(program, builder', CodeDone'),
           stage' \in InBody => CodeIs(builder', item', Len(builder'.statements))
    PROVE  ConstInv'
  <1>1. /\ IsProgram(program, flags) /\ Typed(program, builder) /\ Apart(program, builder)
        /\ Len(builder.fieldaddr) = Len(program.fields)
        /\ AllPlaced(builder, DOMAIN builder.values)
        /\ FieldsHeld(program, builder, DOMAIN program.fields)
    BY CodeStage
  <1>2. ValuesHeld(builder) /\ FieldsApart(program, builder)
    BY DEF ConstInv
  <1>3. ValuesDone' = DOMAIN builder.values /\ FieldsDone' = DOMAIN program.fields
    <2>1. builder'.values = builder.values
      BY DEF Grows
    <2> QED BY <2>1, SMTT(30) DEF ValuesDone, FieldsDone, CodeStages
  <1>4. ValuesHeld(builder') /\ AllPlaced(builder', DOMAIN builder.values)
    BY <1>1, <1>2, ValuesStay
  <1>5. FieldsHeld(program, builder', DOMAIN program.fields)
    BY <1>1, FieldsStay
  <1>6. FieldsApart(program, builder')
    BY <1>2 DEF FieldsApart, Grows
  <1>7. stage' # "prepare"
    BY DEF CodeStages
  <1> QED BY <1>3, <1>4, <1>5, <1>6, <1>7, ConstNext

(* Code of the function that the step is in.                               *)
LEMMA BodyHolds ==
    ASSUME LayoutInv, ConstInv, stage \in InBody, BodyAdds(builder')
    PROVE  /\ Grows(builder, builder') /\ HeadersHeld(program, builder')
           /\ \A k \in DOMAIN builder.values : Value(k) \in DOMAIN builder'.addr =>
                 Value(k) \in DOMAIN builder.addr
           /\ CodeIs(builder', item, Len(builder'.statements))
           /\ CodeHeld(program, builder', 1 .. item)
  <1>1. stage \in InCode
    BY DEF InBody, InCode
  <1>2. /\ Typed(program, builder) /\ HeadersOK(program, builder, DOMAIN builder.values)
        /\ CodeHeld(program, builder, 1 .. item)
    BY <1>1, CodeStage, InsideCode
  <1>3. /\ CodeFile(builder', 1 .. item) /\ CodeAdds(builder, builder')
        /\ StatementsAdded(builder, builder', item)
    BY DEF BodyAdds
  <1>4. Typed(program, builder')
    BY <1>3, CodeFileLen
  <1>5. Grows(builder, builder')
    BY <1>3 DEF CodeAdds, Grows, DefKept
  <1>6. HeadersHeld(program, builder')
    <2>1. HeadersHeld(program, builder)
      BY DEF ConstInv
    <2> QED BY <2>1, <1>2, <1>3, HeadersStay DEF CodeAdds
  <1>7. \A k \in DOMAIN builder.values : Value(k) \in DOMAIN builder'.addr =>
           Value(k) \in DOMAIN builder.addr
    BY <1>3 DEF CodeAdds, Value
  <1>8. \A k : EntryIn(builder', k) = EntryIn(builder, k)
    BY <1>3 DEF CodeAdds, EntryIn
  <1>9. CodeIs(builder', item, Len(builder'.statements))
    <2>1. CodeIs(builder, item, Len(builder.statements))
      BY DEF ConstInv
    <2> QED BY <2>1, <1>2, <1>3, <1>4, <1>8, CodeGrows
  <1>10. /\ Len(builder.statements) \in Nat /\ DOMAIN builder.statements = 1 .. Len(builder.statements)
         /\ Len(builder'.statements) \in Nat
         /\ DOMAIN builder'.statements = 1 .. Len(builder'.statements)
         /\ Len(builder.statements) <= Len(builder'.statements)
    BY <1>2, <1>3, <1>4, StatementsAre DEF StatementsAdded
  <1>11. ASSUME NEW k \in Laid(program, builder', 1 .. item)
         PROVE  \E upto \in 0 .. Len(builder'.statements) : CodeIs(builder', k, upto)
    <2>1. CASE k = item
      BY <2>1, <1>9, <1>10
    <2>2. CASE k # item
      <3>1. k \in Laid(program, builder, 1 .. item)
        BY <1>3 DEF CodeAdds, Laid, HasCodeIn, FunctionIn
      <3>2. PICK upto \in 0 .. Len(builder.statements) : CodeIs(builder, k, upto)
        BY <3>1, <1>2 DEF CodeHeld
      <3>3. CodeIs(builder', k, upto)
        BY <2>2, <3>2, <1>2, <1>3, <1>4, <1>8, CodeStays
      <3>4. upto \in 0 .. Len(builder'.statements)
        BY <1>10
      <3> QED BY <3>3, <3>4
    <2> QED BY <2>1, <2>2
  <1>12. \A i \in DOMAIN builder'.statements : builder'.statements[i].of \in 1 .. item \cup {0}
    <2> SUFFICES ASSUME NEW i \in 1 .. Len(builder'.statements)
                 PROVE  builder'.statements[i].of \in 1 .. item \cup {0}
      BY <1>10
    <2>1. CASE i \in 1 .. Len(builder.statements)
      <3>1. builder'.statements[i] = builder.statements[i]
        BY <2>1, <1>3 DEF StatementsAdded
      <3> QED BY <2>1, <3>1, <1>2, <1>10 DEF CodeHeld
    <2>2. CASE i \in Len(builder.statements) + 1 .. Len(builder'.statements)
      <3>1. builder'.statements[i].of = item
        BY <2>2, <1>3 DEF StatementsAdded
      <3>2. item \in 1 .. item
        BY InsideCode
      <3> QED BY <3>1, <3>2
    <2> QED BY <2>1, <2>2, <1>10
  <1>13. CodeHeld(program, builder', 1 .. item)
    BY <1>11, <1>12 DEF CodeHeld
  <1> QED BY <1>5, <1>6, <1>7, <1>9, <1>13

LEMMA BodyConst ==
    ASSUME LayoutInv, ConstInv,
           CopyParameter \/ CopyDone \/ ComputeInPlace \/ ComputeDone \/ SkipStore
             \/ StoreArgument \/ StoreSplitVector \/ PushCall
    PROVE  ConstInv'
  <1>1. /\ BodyAdds(builder') /\ stage \in InBody /\ stage' \in InBody
        /\ UNCHANGED <<program, flags, item>>
    BY BodyKeeps
  <1>2. /\ Grows(builder, builder') /\ HeadersHeld(program, builder')
        /\ \A k \in DOMAIN builder.values : Value(k) \in DOMAIN builder'.addr =>
              Value(k) \in DOMAIN builder.addr
        /\ CodeIs(builder', item, Len(builder'.statements))
        /\ CodeHeld(program, builder', 1 .. item)
    BY <1>1, BodyHolds
  <1>3. CodeDone' = 1 .. item
    BY <1>1, SMTT(30) DEF CodeDone, InBody
  <1>4. stage \in InCode /\ stage' \in CodeStages
    BY <1>1 DEF InBody, InCode, CodeStages
  <1> QED BY <1>1, <1>2, <1>3, <1>4, CodeConst
-----------------------------------------------------------------------------
LEMMA StartCodeHolds ==
    ASSUME LayoutInv, ConstInv, StartCode
    PROVE  ConstInv'
  <1> DEFINE b == builder
             c == builder'
             n == Len(builder.statements)
  <1>1. /\ AtCode /\ HasCodeIn(program, b, item) /\ Opens(b, c, item)
        /\ stage' = "copy" /\ UNCHANGED <<program, flags, item>>
    BY StartCodeDoes
  <1>2. stage \in InCode /\ stage = "code" /\ item \in Nat /\ item >= 1 /\ item \in DOMAIN b.values
    BY <1>1, AtCodeIs DEF AtCode
  <1>3. CodeDone = 1 .. item - 1 /\ CodeDone' = 1 .. item
    BY <1>1, <1>2, SMTT(30) DEF CodeDone
  <1>4. /\ Typed(program, b) /\ HeadersOK(program, b, DOMAIN b.values)
        /\ CodeHeld(program, b, 1 .. item - 1)
    BY <1>2, <1>3, CodeStage
  <1>5. SameNames(b, c) /\ HeaderOpened(b, c, item) /\ WordsKept(b, c)
        /\ DOMAIN c.addr = DOMAIN b.addr \cup SlotNames(item, FunctionIn(program, b, item))
    BY <1>1 DEF Opens
  <1>6. /\ c.values = b.values /\ c.fieldaddr = b.fieldaddr /\ c.def = b.def
        /\ c.statements = b.statements
    BY <1>5 DEF SameNames
  <1>7. TextsKept(b, c)
    BY <1>5 DEF SameNames, TextsKept, Keeps
  <1>8. Grows(b, c)
    BY <1>5, <1>6, <1>7 DEF Grows, DefKept
  <1>9. \A k \in DOMAIN b.values : Value(k) \in DOMAIN c.addr => Value(k) \in DOMAIN b.addr
    BY <1>5 DEF SlotNames, Value, Local, Temp
  <1>10. ASSUME NEW k \in DOMAIN b.def
         PROVE  /\ k # item => c.functions[b.def[k]] = b.functions[b.def[k]]
                /\ c.functions[b.def[k]].name = b.functions[b.def[k]].name
    <2>1. b.def[k] \in 1 .. Len(b.functions) /\ b.functions[b.def[k]].of = k
      BY <1>4, LenProperties DEF HeadersOK, Typed
    <2>2. CASE k = item
      <3>1. b.functions[b.def[k]] \in Headers
        BY <1>4, <2>1, LenProperties DEF Typed
      <3>2. c.functions[b.def[k]].name = b.functions[b.def[k]].name
        BY <2>2, <3>1, <1>5 DEF HeaderOpened, Headers
      <3> QED BY <2>2, <3>2
    <2>3. CASE k # item
      <3>1. item \in DOMAIN b.def
        BY <1>1 DEF HasCodeIn
      <3>2. b.functions[b.def[item]].of = item
        BY <3>1, <1>4 DEF HeadersOK
      <3>3. b.def[k] # b.def[item]
        BY <2>1, <2>3, <3>2
      <3> QED BY <2>1, <3>3, <1>5 DEF HeaderOpened
    <2> QED BY <2>2, <2>3
  <1>11. HeadersHeld(program, c)
    <2> SUFFICES ASSUME NEW k \in DOMAIN b.def
                 PROVE  HeaderHeld(program, c, k)
      BY <1>6 DEF HeadersHeld
    <2>1. HeaderHeld(program, b, k)
      BY DEF ConstInv, HeadersHeld
    <2>2. FunctionIn(program, b, k).builtin # 0 => k # item
      BY <1>1 DEF HasCodeIn
    <2>3. HeaderStays(program, b, c, k)
      BY <2>2, <1>6, <1>10 DEF HeaderStays
    <2> QED BY <2>1, <2>3, <1>4, <1>6, <1>7, HeaderHeldStill
  <1>12. n \in Nat /\ DOMAIN b.statements = 1 .. n
    BY <1>4, StatementsAre
  <1>13. \A k : CodeOf(c, k) = CodeOf(b, k)
    BY <1>6 DEF CodeOf
  <1>14. CodeIs(c, item, n)
    <2>1. EntryIn(c, item) = n
      <3>1. item \in DOMAIN b.def
        BY <1>1 DEF HasCodeIn
      <3>2. b.functions[b.def[item]] \in Headers
        <4>1. b.def[item] \in 1 .. Len(b.functions)
          BY <3>1, <1>4, LenProperties DEF HeadersOK, Typed
        <4> QED BY <4>1, <1>4, LenProperties DEF Typed
      <3> QED BY <3>2, <1>5, <1>6 DEF HeaderOpened, EntryIn, Headers
    <2>2. CodeOf(b, item) = {}
      <3>1. \A i \in DOMAIN b.statements : b.statements[i].of \in 1 .. item - 1 \cup {0}
        BY <1>4 DEF CodeHeld
      <3>2. item \notin 1 .. item - 1 \cup {0}
        BY <1>2
      <3> QED BY <3>1, <3>2 DEF CodeOf
    <2> HIDE DEF n
    <2>3. n + 1 .. n = {} /\ n \in n .. n
      BY <1>12
    <2>4. n = Len(c.statements)
      BY <1>6 DEF n
    <2> QED BY <2>1, <2>2, <2>3, <2>4, <1>12, <1>13 DEF CodeIs
  <1>15. CodeHeld(program, c, 1 .. item)
    <2>1. ASSUME NEW k \in Laid(program, c, 1 .. item)
          PROVE  \E upto \in 0 .. Len(c.statements) : CodeIs(c, k, upto)
      <3>1. CASE k = item
        BY <3>1, <1>6, <1>12, <1>14
      <3>2. CASE k # item
        <4>1. k \in 1 .. item - 1
          BY <3>2, <1>2 DEF Laid
        <4>2. k \in Laid(program, b, 1 .. item - 1) /\ k \in DOMAIN b.def
          BY <4>1, <1>6 DEF Laid, HasCodeIn, FunctionIn
        <4>3. PICK upto \in 0 .. Len(b.statements) : CodeIs(b, k, upto)
          BY <4>2, <1>4 DEF CodeHeld
        <4>4. EntryIn(c, k) = EntryIn(b, k)
          BY <3>2, <4>2, <1>6, <1>10 DEF EntryIn
        <4>5. CodeIs(c, k, upto)
          BY <4>3, <4>4, <1>6, <1>13 DEF CodeIs
        <4> QED BY <4>3, <4>5, <1>6
      <3> QED BY <3>1, <3>2
    <2>2. \A i \in DOMAIN c.statements : c.statements[i].of \in 1 .. item \cup {0}
      <3>1. 1 .. item - 1 \subseteq 1 .. item
        BY <1>2
      <3> QED BY <3>1, <1>4, <1>6 DEF CodeHeld
    <2> QED BY <2>1, <2>2 DEF CodeHeld
  <1>16. stage' \in CodeStages
    BY <1>1 DEF CodeStages
  <1>17. CodeHeld(program, c, CodeDone') /\ CodeIs(c, item', Len(c.statements))
    BY <1>1, <1>3, <1>6, <1>14, <1>15
  <1> QED BY <1>1, <1>2, <1>8, <1>9, <1>11, <1>16, <1>17, CodeConst

LEMMA EndCodeHolds ==
    ASSUME LayoutInv, ConstInv, EndCode
    PROVE  ConstInv'
  <1>1. /\ stage = "compute" /\ BodyAdds(builder') /\ stage' = "code" /\ item' = item + 1
        /\ UNCHANGED <<program, flags>>
    BY EndCodeDoes
  <1>2. stage \in InBody /\ stage \in InCode /\ stage' \in CodeStages /\ stage' \notin InBody
    BY <1>1 DEF InBody, InCode, CodeStages
  <1>3. /\ Grows(builder, builder') /\ HeadersHeld(program, builder')
        /\ \A k \in DOMAIN builder.values : Value(k) \in DOMAIN builder'.addr =>
              Value(k) \in DOMAIN builder.addr
        /\ CodeHeld(program, builder', 1 .. item)
    BY <1>1, <1>2, BodyHolds
  <1>4. CodeDone' = 1 .. item
    <2>1. item \in Nat
      BY <1>2, InsideCode
    <2>2. item' - 1 = item
      BY <2>1, <1>1
    <2> QED BY <2>2, <1>1, SMTT(30) DEF CodeDone
  <1> QED BY <1>1, <1>2, <1>3, <1>4, CodeConst

(* Steps that leave the file as it is.                                     *)
LEMMA SameFileHolds ==
    ASSUME LayoutInv, ConstInv, stage \in InCode, UNCHANGED <<program, flags, builder>>,
           stage' \in {"code", "done", "failed"}, CodeHeld(program, builder, CodeDone')
    PROVE  ConstInv'
  <1>1. Typed(program, builder)
    BY CodeStage
  <1>2. Len(builder.globals) \in Nat
    BY <1>1, LenProperties DEF Typed
  <1>3. Grows(builder, builder')
    BY <1>2 DEF Grows, WordsKept, TextsKept, Keeps, DefKept
  <1>4. builder' = builder
    OBVIOUS
  <1>5. HeadersHeld(program, builder') /\ CodeHeld(program, builder', CodeDone')
        /\ \A k \in DOMAIN builder.values : Value(k) \in DOMAIN builder'.addr =>
              Value(k) \in DOMAIN builder.addr
    BY <1>4, Zenon DEF ConstInv
  <1>6. stage' \in CodeStages /\ stage' \notin InBody /\ UNCHANGED <<program, flags>>
    BY DEF CodeStages, InBody
  <1> QED BY <1>3, <1>5, <1>6, CodeConst

LEMMA NoCodeHolds ==
    ASSUME LayoutInv, ConstInv, NoCode
    PROVE  ConstInv'
  <1>1. /\ AtCode /\ ~HasCode(This, item) /\ item' = item + 1
        /\ UNCHANGED <<program, flags, builder, stage>>
    BY DEF NoCode, NextItem
  <1>2. /\ stage = "code" /\ stage \in InCode /\ item \in Nat /\ item >= 1
        /\ ~HasCodeIn(program, builder, item)
    BY <1>1, AtCodeIs DEF AtCode
  <1>3. CodeDone = 1 .. item - 1 /\ CodeDone' = 1 .. item
    <2>1. item' - 1 = item
      BY <1>1, <1>2
    <2> QED BY <2>1, <1>1, <1>2, SMTT(30) DEF CodeDone
  <1>4. CodeHeld(program, builder, 1 .. item - 1)
    BY <1>2, <1>3, CodeStage
  <1>5. CodeHeld(program, builder, 1 .. item)
    <2>1. 1 .. item = 1 .. item - 1 \cup {item}
      BY <1>2
    <2>2. Laid(program, builder, 1 .. item) = Laid(program, builder, 1 .. item - 1)
      BY <2>1, <1>2 DEF Laid
    <2> QED BY <2>1, <2>2, <1>4 DEF CodeHeld
  <1>6. CodeHeld(program, builder, CodeDone') /\ stage' \in {"code", "done", "failed"}
    BY <1>1, <1>2, <1>3, <1>5
  <1> QED BY <1>1, <1>2, <1>6, SameFileHolds

LEMMA FinishHolds ==
    ASSUME LayoutInv, ConstInv, Finish
    PROVE  ConstInv'
  <1>1. /\ stage = "code" /\ item > Items /\ stage' \in {"done", "failed"}
        /\ UNCHANGED <<program, flags, builder>>
    BY DEF Finish, EnterStage
  <1>2. stage \in InCode
    BY <1>1 DEF InCode
  <1>3. /\ item \in Nat /\ DOMAIN builder.values = 1 .. Len(builder.values)
        /\ Len(builder.values) \in Nat /\ item <= Len(builder.values) + 1
    BY <1>2, CodeStart
  <1>4. CodeDone = DOMAIN builder.values
    <2>1. Items = Len(builder.values)
      BY <1>1, SMTT(30) DEF Items
    <2>2. item - 1 = Len(builder.values)
      BY <1>1, <1>3, <2>1
    <2>3. CodeDone = 1 .. item - 1
      BY <1>1 DEF CodeDone
    <2> QED BY <1>3, <2>2, <2>3
  <1>5. CodeDone' = DOMAIN builder.values
    BY <1>1, SMTT(30) DEF CodeDone
  <1>6. CodeHeld(program, builder, CodeDone')
    BY <1>2, <1>4, <1>5, CodeStage
  <1> QED BY <1>1, <1>2, <1>6, SameFileHolds

LEMMA RestHolds ==
    ASSUME ConstInv, UNCHANGED writerVars
    PROVE  ConstInv'
  <1>1. UNCHANGED <<program, flags, builder, stage, item, nthcall, nthparm>>
    BY DEF writerVars
  <1>2. ValuesDone' = ValuesDone /\ FieldsDone' = FieldsDone /\ CodeDone' = CodeDone
    BY <1>1, SMTT(30) DEF ValuesDone, FieldsDone, CodeDone
  <1>3. builder' = builder /\ stage' = stage /\ item' = item
    BY <1>1
  <1>4. /\ ValuesHeld(builder') /\ AllPlaced(builder', ValuesDone')
        /\ FieldsHeld(program, builder', FieldsDone') /\ FieldsApart(program, builder')
        /\ stage' = "prepare" => FieldsFit(program, builder')
        /\ HeadersHeld(program, builder') /\ CodeHeld(program, builder', CodeDone')
        /\ stage' \in InBody => CodeIs(builder', item', Len(builder'.statements))
    BY <1>2, <1>3, Zenon DEF ConstInv
  <1>5. UNCHANGED <<program, flags>>
    BY <1>1
  <1> QED BY <1>4, <1>5, ConstNext

LEMMA ConstStep ==
    ASSUME LayoutInv, ConstInv, [WriterNext]_writerVars
    PROVE  ConstInv'
  <1>1. CASE CollectReusables \/ SplitVector \/ PrepareField \/ LoopDone
    BY <1>1, CollectHolds, SplitHolds, PrepareHolds, LoopHolds
  <1>2. CASE SkipGlobal \/ GenerateWordless \/ GenerateMerged \/ GenerateString \/ GenerateWords
               \/ GenerateFunction
    BY <1>2, SkipGlobalHolds, GenerateWordlessHolds, GenerateMergedHolds, GenerateStringHolds,
       GenerateWordsHolds, GenerateFunctionHolds
  <1>3. CASE GenField \/ Areas
    BY <1>3, GenFieldHolds, AreasHold
  <1>4. CASE NoCode \/ StartCode \/ EndCode \/ Finish
    BY <1>4, NoCodeHolds, StartCodeHolds, EndCodeHolds, FinishHolds
  <1>5. CASE CopyParameter \/ CopyDone \/ ComputeInPlace \/ ComputeDone \/ SkipStore
               \/ StoreArgument \/ StoreSplitVector \/ PushCall
    BY <1>5, BodyConst
  <1>6. CASE Ended \/ UNCHANGED writerVars
    BY <1>6, RestHolds DEF Ended
  <1> QED BY <1>1, <1>2, <1>3, <1>4, <1>5, <1>6 DEF WriterNext

(* What is in the file: every value and field that was dealt with has its  *)
(* words, texts, defs and header, and keeps them.                          *)
THEOREM ConstKept == WriterSpec => [](LayoutInv /\ ConstInv)
  <1>1. WriterInit => LayoutInv /\ ConstInv
    BY LayoutInit, ConstInit
  <1>2. LayoutInv /\ ConstInv /\ [WriterNext]_writerVars => LayoutInv' /\ ConstInv'
    BY LayoutStep, ConstStep
  <1> QED BY <1>1, <1>2, PTL DEF WriterSpec
-----------------------------------------------------------------------------
(***************************************************************************)
(* ConstantsHold is what ConstInv says in the end.                         *)
(***************************************************************************)
LEMMA DoneConst ==
    ASSUME LayoutInv, ConstInv, Done
    PROVE  /\ ValuesHeld(builder) /\ AllPlaced(builder, DOMAIN builder.values)
           /\ FieldsHeld(program, builder, DOMAIN program.fields) /\ FieldsApart(program, builder)
           /\ HeadersHeld(program, builder) /\ CodeHeld(program, builder, DOMAIN builder.values)
           /\ Len(builder.fieldaddr) = Len(program.fields)
           /\ \A k \in DOMAIN builder.values :
                 IsSplit(builder.values[k]) => Len(builder.values[k].parts) = 3
  <1>1. ValuesDone = DOMAIN builder.values /\ FieldsDone = DOMAIN program.fields
        /\ CodeDone = DOMAIN builder.values
    BY SMTT(30) DEF Done, ValuesDone, FieldsDone, CodeDone, CodeStages
  <1>2. StageOK
    BY DEF LayoutInv
  <1>3. Len(builder.fieldaddr) = Len(program.fields)
    BY <1>2 DEF StageOK, Done
  <1>4. \A k \in DOMAIN builder.values : IsSplit(builder.values[k]) => Len(builder.values[k].parts) = 3
    BY <1>2 DEF StageOK
  <1> QED BY <1>1, <1>3, <1>4 DEF ConstInv

(* What is read has words of its own, or those of its equal.               *)
LEMMA ReadIsHeld ==
    ASSUME LayoutInv, ConstInv, Done, NEW k \in DOMAIN builder.values,
           ~IsSplit(builder.values[k]), builder.values[k].users # "none",
           ~Dropped(builder.values[k])
    PROVE  /\ Value(k) \in PlacesIn(builder) /\ ValueHeld(builder, k)
           /\ codeAddress(builder, Value(k)) = builder.addr[Value(k)]
           /\ builder.addr[Value(k)] \in Nat
  <1> DEFINE v == builder.values[k]
  <1>1. Typed(program, builder) /\ Apart(program, builder)
    BY DoneStart
  <1>2. IsValue(program, v)
    BY <1>1, ValueIs
  <1>3. ~Skipped(v) /\ ~Wordless(v)
    BY <1>2 DEF IsValue, Dropped, Skipped, Wordless, IsRead
  <1>4. Value(k) \in DOMAIN builder.addr
    BY <1>3, DoneConst DEF AllPlaced
  <1>5. Value(k) \in PlacesIn(builder)
    BY <1>3, <1>4 DEF PlacesIn, Value
  <1>6. ValueHeld(builder, k)
    BY <1>5, DoneConst DEF ValuesHeld
  <1>7. builder.addr[Value(k)] \in Nat
    BY <1>1, <1>5, PlaceWithin
  <1> QED BY <1>4, <1>5, <1>6, <1>7 DEF codeAddress

LEMMA WordsHeld ==
    ASSUME LayoutInv, ConstInv, Done, NEW k \in DOMAIN builder.values,
           ~IsSplit(builder.values[k]), builder.values[k].users # "none",
           ~Dropped(builder.values[k]), HasValue(builder.values[k]),
           builder.values[k].type \notin {"string", "function"}
    PROVE  \A j \in DOMAIN StartWords(builder, builder.values[k]) :
              j \in Int => WordAt(codeAddress(builder, Value(k)) + j - 1)
                             = StartWords(builder, builder.values[k])[j]
  <1> DEFINE words == StartWords(builder, builder.values[k])
             at == builder.addr[Value(k)]
  <1>1. at \in Nat /\ codeAddress(builder, Value(k)) = at /\ StartsAt(builder, at, words)
    BY ReadIsHeld DEF ValueHeld
  <1> HIDE DEF words, at
  <1> SUFFICES ASSUME NEW j \in DOMAIN words, j \in Int
               PROVE  WordAt(at + j - 1) = words[j]
    BY <1>1 DEF words
  <1>2. at + j - 1 + 1 = at + j
    BY <1>1
  <1> QED BY <1>1, <1>2 DEF StartsAt, WordAt

LEMMA FunctionHolds ==
    ASSUME LayoutInv, ConstInv, Done, NEW k \in DOMAIN builder.values,
           ~IsSplit(builder.values[k]), builder.values[k].users # "none",
           ~Dropped(builder.values[k]), HasFunction(builder.values[k])
    PROVE  HoldsValue(k, builder.values[k])
  <1> DEFINE v == builder.values[k]
             at == builder.addr[Value(k)]
             n == builder.def[k]
             header == builder.functions[n]
             code == CodeOf(builder, k)
  <1>1. at \in Nat /\ codeAddress(builder, Value(k)) = at
        /\ k \in DOMAIN builder.def /\ builder.globals[at + 1] = n - 1
    BY ReadIsHeld DEF ValueHeld
  <1>2. /\ IsProgram(program, flags) /\ Typed(program, builder)
        /\ HeadersOK(program, builder, DOMAIN builder.values)
    BY DoneStart
  <1>3. n \in Nat /\ header.of = k
    <2>1. n \in Nat
      BY <1>1, <1>2 DEF Typed, IsMap
    <2>2. header.of = k
      BY <1>1, <1>2 DEF HeadersOK
    <2> QED BY <2>1, <2>2
  <1>4. HeaderHeld(program, builder, k)
    BY <1>1, DoneConst DEF HeadersHeld
  <1>5. FunctionOf(k) = FunctionIn(program, builder, k)
    BY DEF FunctionOf, FunctionIn
  <1>6. FunctionOf(k).builtin = 0 => code = header.entry + 1 .. header.entry + Cardinality(code)
    <2> SUFFICES ASSUME FunctionOf(k).builtin = 0
                 PROVE  code = header.entry + 1 .. header.entry + Cardinality(code)
      OBVIOUS
    <2>1. k \in Laid(program, builder, DOMAIN builder.values)
      BY <1>1, <1>5 DEF Laid, HasCodeIn
    <2>2. PICK upto \in 0 .. Len(builder.statements) : CodeIs(builder, k, upto)
      BY <2>1, DoneConst DEF CodeHeld
    <2> DEFINE entry == header.entry
    <2>3. entry \in Nat /\ upto \in entry .. Len(builder.statements) /\ code = entry + 1 .. upto
      BY <2>2 DEF CodeIs, EntryIn
    <2>4. Len(builder.statements) \in Nat
      BY <1>2, StatementsAre
    <2> HIDE DEF entry, code
    <2>5. upto \in Nat /\ entry <= upto
      BY <2>3, <2>4
    <2>6. Cardinality(entry + 1 .. upto) = upto - entry
      <3>1. entry + 1 \in Int /\ upto \in Int
        BY <2>3, <2>5
      <3>2. Cardinality(entry + 1 .. upto) = IF entry + 1 > upto THEN 0 ELSE upto - (entry + 1) + 1
        BY <3>1, FS_Interval
      <3> QED BY <3>2, <2>3, <2>5
    <2>7. entry + (upto - entry) = upto
      BY <2>3, <2>5
    <2> QED BY <2>3, <2>6, <2>7 DEF entry
  <1>7. WordAt(at) + 1 = n
    BY <1>1, <1>3 DEF WordAt
  <1>8. PushesDef(v) /\ ~IsLiteral(v) => Reads(header.name, v.name)
    BY <1>4 DEF HeaderHeld, Reads
  <1>9. FunctionOf(k).builtin # 0 => header.entry = -FunctionOf(k).builtin
    BY <1>4, <1>5 DEF HeaderHeld
  <1>10. code = {i \in DOMAIN builder.statements : builder.statements[i].of = k}
    BY DEF CodeOf
  <1>11. v.type = "function"
    BY DEF HasFunction
  <1> DEFINE word == builder.functions[WordAt(codeAddress(builder, Value(k))) + 1]
  <1>12. word = header
    BY <1>1, <1>7
  <1> HIDE DEF n, at, header, code, word
  <1>13. /\ word.of = k
         /\ PushesDef(v) /\ ~IsLiteral(v) => Reads(word.name, v.name)
         /\ FunctionOf(k).builtin # 0 => word.entry = -FunctionOf(k).builtin
         /\ FunctionOf(k).builtin = 0 => code = word.entry + 1 .. word.entry + Cardinality(code)
    BY <1>3, <1>6, <1>8, <1>9, <1>12
  <1> QED BY <1>10, <1>11, <1>13 DEF HoldsValue, word

LEMMA ReadHolds ==
    ASSUME LayoutInv, ConstInv, Done, NEW k \in DOMAIN builder.values,
           builder.values[k].users # "none", ~Dropped(builder.values[k]),
           HasValue(builder.values[k])
    PROVE  HoldsValue(k, builder.values[k])
  <1> DEFINE v  == builder.values[k]
             at == codeAddress(builder, Value(k))
  <1>1. Typed(program, builder) /\ IsProgram(program, flags)
    BY DoneStart
  <1>2. /\ IsValue(program, v) /\ v.type \in Types \ {"nil"} /\ v.value \in Starts(program, v.type)
        /\ IsSplit(v) => Splittable(v)
        /\ \A j \in DOMAIN v.parts : PartOK(builder.values, v, j)
    BY <1>1, ValueIs DEF IsValue
  <1>3. CASE IsSplit(v)
    <2>1. v.type = "vector" /\ DOMAIN v.parts = 1 .. 3
      <3>1. v.type = "vector"
        BY <1>2, <1>3 DEF Splittable
      <3>2. v.parts \in Seq(Nat) /\ Len(v.parts) = 3
        BY <1>1, <1>3, DoneConst DEF Typed, ValuesOK
      <3> QED BY <3>1, <3>2, LenProperties
    <2>2. ASSUME NEW j \in 1 .. 3
          PROVE  WordAt(codeAddress(builder, Value(v.parts[j]))) = v.value[j]
      <3> DEFINE m == v.parts[j]
                 x == builder.values[m]
      <3>1. /\ m \in DOMAIN builder.values /\ x.type = "float" /\ x.users \in {"calls", "any"}
            /\ HasValue(x) /\ x.value = v.value[j]
        BY <1>2, <2>1 DEF PartOK
      <3>2. ~IsSplit(x) /\ x.users # "none" /\ ~Dropped(x) /\ x.type \notin {"string", "function"}
        BY <3>1, <1>1, ValueIs DEF Splittable, Dropped
      <3>3. StartWords(builder, x) = <<v.value[j]>>
        BY <3>1 DEF StartWords
      <3>4. codeAddress(builder, Value(m)) \in Nat
        BY <3>1, <3>2, ReadIsHeld
      <3> DEFINE words == StartWords(builder, x)
                 to    == codeAddress(builder, Value(m))
      <3>5. \A i \in DOMAIN words : i \in Int => WordAt(to + i - 1) = words[i]
        BY <3>1, <3>2, WordsHeld
      <3>6. 1 \in DOMAIN words /\ words[1] = v.value[j]
        BY <3>3
      <3> HIDE DEF words, to
      <3>7. WordAt(to + 1 - 1) = v.value[j]
        BY <3>5, <3>6
      <3>8. to + 1 - 1 = to
        BY <3>4 DEF to
      <3> QED BY <3>7, <3>8 DEF to
    <2> QED BY <2>1, <2>2, <1>3 DEF HoldsValue
  <1>4. CASE ~IsSplit(v) /\ v.type = "string"
    <2>1. /\ at = builder.addr[Value(k)] /\ at \in Nat
          /\ ReadsAs(builder.strings.chars, builder.globals[at + 1], v.value)
      BY <1>4, ReadIsHeld DEF ValueHeld
    <2> QED BY <2>1, <1>4 DEF HoldsValue, Reads, WordAt
  <1>5. CASE ~IsSplit(v) /\ v.type = "function"
    BY <1>5, FunctionHolds DEF HasFunction
  <1>6. CASE ~IsSplit(v) /\ v.type \notin {"string", "function"}
    <2> DEFINE words == StartWords(builder, v)
    <2>1. \A j \in DOMAIN words : j \in Int => WordAt(at + j - 1) = words[j]
      BY <1>6, WordsHeld
    <2>2. at \in Nat
      BY <1>6, ReadIsHeld
    <2>3. CASE v.type = "vector"
      <3>1. words = v.value /\ v.value \in [1 .. 3 -> Int]
        BY <2>3, <1>2 DEF StartWords, Starts
      <3>2. \A j \in 1 .. 3 : WordAt(at + j - 1) = v.value[j]
        BY <2>1, <3>1
      <3> QED BY <3>2, <2>3, <1>6 DEF HoldsValue
    <2>4. CASE v.type \in {"field", "vfield"}
      <3> DEFINE n == SizeOf(v.type)
                 ofs == builder.fieldaddr[v.value]
      <3>1. words = From(ofs, n)
        BY <2>4 DEF StartWords
      <3>2. ofs \in Int /\ n \in Nat
        <4>1. v.value \in DOMAIN program.fields
          BY <2>4, <1>2 DEF Starts
        <4>2. DOMAIN program.fields = DOMAIN builder.fieldaddr
          <5>1. DOMAIN builder.fieldaddr = 1 .. Len(builder.fieldaddr)
            BY <1>1, LenProperties DEF Typed
          <5>2. DOMAIN program.fields = 1 .. Len(program.fields)
            BY <1>1, ProgramSeqs
          <5> QED BY <5>1, <5>2, DoneConst
        <4>3. builder.fieldaddr \in Seq(Nat)
          BY <1>1 DEF Typed
        <4> QED BY <4>1, <4>2, <4>3, ElementOfSeq, LenProperties DEF SizeOf
      <3> HIDE DEF n, ofs
      <3>3. words \in Seq(Int) /\ Len(words) = n /\ \A j \in 1 .. n : words[j] = ofs + j - 1
        BY <3>1, <3>2, FromAre
      <3>4. DOMAIN words = 1 .. n
        BY <3>3, LenProperties
      <3> HIDE DEF words
      <3>5. \A j \in 1 .. n : WordAt(at + j - 1) = ofs + j - 1
        BY <2>1, <3>2, <3>3, <3>4
      <3> QED BY <3>5, <2>4 DEF HoldsValue, n, ofs
    <2>5. CASE v.type \notin {"vector", "field", "vfield"}
      <3>1. words = <<v.value>>
        BY <2>5 DEF StartWords
      <3>2. 1 \in DOMAIN words /\ words[1] = v.value
        BY <3>1
      <3> HIDE DEF words
      <3>3. at + 1 - 1 = at
        BY <2>2
      <3>4. WordAt(at + 1 - 1) = v.value
        BY <2>1, <3>2
      <3>5. WordAt(at) = v.value
        BY <3>3, <3>4
      <3> QED BY <3>5, <2>5, <1>6 DEF HoldsValue
    <2> QED BY <2>3, <2>4, <2>5
  <1> QED BY <1>3, <1>4, <1>5, <1>6

LEMMA FieldIsHeld ==
    ASSUME LayoutInv, ConstInv, Done, NEW j \in DOMAIN program.fields
    PROVE  FieldHolds(j)
  <1> DEFINE field == program.fields[j]
             at    == builder.addr[FieldGlobal(j)]
             ofs   == builder.fieldaddr[j]
             n     == SizeOf(field.type)
  <1>1. Typed(program, builder) /\ IsProgram(program, flags)
    BY DoneStart
  <1>2. FieldHeld(program, builder, j) /\ FieldsApart(program, builder)
        /\ Len(builder.fieldaddr) = Len(program.fields)
    BY DoneConst DEF FieldsHeld
  <1>3. /\ at = codeAddress(builder, FieldGlobal(j)) /\ at \in Nat
        /\ HasDefIn(builder, at, FieldText(field)) /\ HasFieldIn(builder, ofs, field.name)
        /\ StartsAt(builder, at, From(ofs, n))
    BY <1>1, <1>2 DEF FieldHeld, codeAddress, Typed, IsMap
  <1>4. /\ DOMAIN program.fields = 1 .. Len(program.fields) /\ Len(program.fields) \in Nat
        /\ DOMAIN builder.fieldaddr = DOMAIN program.fields
        /\ \A i \in DOMAIN program.fields : builder.fieldaddr[i] \in Nat
    <2>1. DOMAIN builder.fieldaddr = 1 .. Len(builder.fieldaddr) /\ builder.fieldaddr \in Seq(Nat)
      BY <1>1, LenProperties DEF Typed
    <2>2. DOMAIN program.fields = 1 .. Len(program.fields) /\ Len(program.fields) \in Nat
      BY <1>1, ProgramSeqs
    <2> QED BY <1>2, <2>1, <2>2, ElementOfSeq
  <1>5. n \in Nat /\ ofs \in Nat
    BY <1>4 DEF SizeOf
  <1>6. HasDef(codeAddress(builder, FieldGlobal(j)),
               IF Flag("gmqcc") THEN <<DOT>> \o field.name ELSE field.name)
    BY <1>3 DEF HasDef, HasDefIn, FieldText, Reads
  <1>7. \E f \in ToSet(builder.fields) : f.offset = ofs /\ Reads(f.name, field.name)
    BY <1>3 DEF HasFieldIn, Reads
  <1>8. {WordAt(at + i - 1) : i \in 1 .. n} = FieldWords(j)
    <2> DEFINE words == From(ofs, n)
    <2>0. \A x \in Int, m \in Nat : /\ From(x, m) \in Seq(Int) /\ Len(From(x, m)) = m
                                    /\ \A i \in 1 .. m : From(x, m)[i] = x + i - 1
      BY FromAre
    <2>1. words \in Seq(Int) /\ Len(words) = n /\ \A i \in 1 .. n : words[i] = ofs + i - 1
      <3>1. ofs \in Int /\ n \in Nat
        BY <1>5
      <3> HIDE DEF ofs, n
      <3> QED BY <3>1, <2>0
    <2>2. DOMAIN words = 1 .. n
      BY <2>1, LenProperties
    <2> HIDE DEF words, at, n, ofs
    <2>3. \A i \in 1 .. n : builder.globals[at + i] = ofs + i - 1
      BY <1>3, <2>1, <2>2 DEF StartsAt, words
    <2>4. \A i \in 1 .. n : at + i - 1 + 1 = at + i
      BY <1>3, <1>5
    <2>5. \A i \in 1 .. n : WordAt(at + i - 1) = ofs + i - 1
      BY <2>3, <2>4 DEF WordAt
    <2>6. {WordAt(at + i - 1) : i \in 1 .. n} = {ofs + i - 1 : i \in 1 .. n}
      BY <2>5
    <2>7. {ofs + i - 1 : i \in 1 .. n} = ofs .. ofs + n - 1
      <3>1. \A x \in ofs .. ofs + n - 1 : x - ofs + 1 \in 1 .. n /\ x = ofs + (x - ofs + 1) - 1
        BY <1>5
      <3>2. \A i \in 1 .. n : ofs + i - 1 \in ofs .. ofs + n - 1
        BY <1>5
      <3> QED BY <3>1, <3>2
    <2> QED BY <2>6, <2>7 DEF FieldWords, Span, ofs, n
  <1>9. ASSUME NEW x \in DOMAIN program.fields, NEW y \in DOMAIN program.fields, x < y
        PROVE  FieldWords(x) \cap FieldWords(y) = {}
    <2> DEFINE ax == builder.fieldaddr[x]
               ay == builder.fieldaddr[y]
               sx == SizeOf(program.fields[x].type)
               sy == SizeOf(program.fields[y].type)
    <2>1. x \in 1 .. y - 1
      BY <1>4, <1>9
    <2>2. ax + sx <= ay
      BY <2>1, <1>2, <1>4 DEF FieldsApart
    <2>3. ax \in Nat /\ ay \in Nat /\ sx \in Nat /\ sy \in Nat
      BY <1>4 DEF SizeOf
    <2> HIDE DEF ax, ay, sx, sy
    <2>4. (ax .. ax + sx - 1) \cap (ay .. ay + sy - 1) = {}
      BY <2>2, <2>3
    <2> QED BY <2>4 DEF FieldWords, Span, ax, ay, sx, sy
  <1>10. \A i \in DOMAIN program.fields : i = j \/ FieldWords(i) \cap FieldWords(j) = {}
    <2> SUFFICES ASSUME NEW i \in DOMAIN program.fields, i # j
                 PROVE  FieldWords(i) \cap FieldWords(j) = {}
      OBVIOUS
    <2>1. i < j \/ j < i
      BY <1>4
    <2>2. CASE i < j
      BY <2>2, <1>9
    <2>3. CASE j < i
      BY <2>3, <1>9
    <2> QED BY <2>1, <2>2, <2>3
  <1>11. {WordAt(codeAddress(builder, FieldGlobal(j)) + i - 1) : i \in 1 .. SizeOf(field.type)} = FieldWords(j)
    BY <1>3, <1>8
  <1> QED BY <1>6, <1>7, <1>10, <1>11 DEF FieldHolds

LEMMA ConstInvHolds == LayoutInv /\ ConstInv => ConstantsHold
  <1> SUFFICES ASSUME LayoutInv, ConstInv, Done
               PROVE  ConstantsHold
    BY DEF ConstantsHold
  <1>1. ASSUME NEW k \in DOMAIN builder.values, NamedInFile(k)
        PROVE  HasDefs(codeAddress(builder, Value(k)), builder.values[k].name, builder.values[k].type)
    <2>1. /\ Value(k) \in DOMAIN builder.addr /\ ~Wordless(builder.values[k])
          /\ PushesDef(builder.values[k]) /\ ~IsLiteral(builder.values[k])
      BY <1>1 DEF NamedInFile, HasWords
    <2>2. Value(k) \in PlacesIn(builder)
      BY <2>1 DEF PlacesIn, Value
    <2>3. ValueHeld(builder, k)
      BY <2>2, DoneConst DEF ValuesHeld
    <2>4. HasDefsIn(builder, builder.addr[Value(k)], builder.values[k].name, builder.values[k].type)
      BY <2>1, <2>3 DEF ValueHeld
    <2>5. codeAddress(builder, Value(k)) = builder.addr[Value(k)]
      BY <2>1 DEF codeAddress
    <2> QED BY <2>4, <2>5 DEF HasDefs, HasDefsIn, HasDef, HasDefIn, Reads
  <1> QED BY <1>1, ReadHolds, FieldIsHeld DEF ConstantsHold

(* ConstantsHold: in the file of any program, under any flags, whatever is *)
(* read of a constant is there, functions lead to their code, and defs and *)
(* fields have the names and the places of what they name.                 *)
THEOREM ConstantsAlwaysHold == WriterSpec => []ConstantsHold
  BY ConstKept, ConstInvHolds, PTL
-----------------------------------------------------------------------------
(***************************************************************************)
(* What has an address lies in the file, and what the statements name.     *)
(***************************************************************************)
LEMMA SlotWithin ==
    ASSUME NEW b, NEW cd, IsProgram(program, flags), CodeFile(b, cd), cd \subseteq DOMAIN b.values,
           NEW v \in DOMAIN b.addr, v[1] \in {"local", "temp"}
    PROVE  Within(b.addr[v], b)
  <1> DEFINE k    == v[2]
             f    == FunctionIn(program, b, k)
             slot == IF v[1] = "local" THEN f.locals[v[3]] ELSE f.temps[v[3]]
  <1>1. /\ Typed(program, b) /\ AreaOK(program, b) /\ RoomOK(program, b, DOMAIN b.values)
        /\ LaidOK(program, flags, b, cd) /\ SlotsOK(program, flags, b)
        /\ HeadersOK(program, b, DOMAIN b.values)
        /\ KnownPlaces(program, b, DOMAIN b.values, DOMAIN program.fields, AreaPlaces, cd)
    BY DEF CodeFile, FileInv, Placed
  <1>2. /\ k \in cd /\ HasCodeIn(program, b, k)
        /\ v[1] = "local" => v[3] \in DOMAIN f.locals
        /\ v[1] = "temp" => v[3] \in DOMAIN f.temps
    <2>1. \/ \E m \in cd : /\ HasCodeIn(program, b, m)
                           /\ \E j \in DOMAIN FunctionIn(program, b, m).locals : v = Local(m, j)
          \/ \E m \in cd : /\ HasCodeIn(program, b, m)
                           /\ \E j \in DOMAIN FunctionIn(program, b, m).temps : v = Temp(m, j)
      BY <1>1 DEF KnownPlaces, Value, FieldGlobal, AreaPlaces, Nil, VinstrTemp, ExtParam
    <2> QED BY <2>1 DEF Local, Temp
  <1>3. k \in Laid(program, b, cd) /\ k \in DOMAIN b.values /\ HasFunction(b.values[k])
    BY <1>2 DEF Laid, HasCodeIn
  <1>4. /\ IsFunction(program, f, flags) /\ f.allocated \in Nat /\ f.globaltemps \in Nat
    BY <1>1, <1>3, FunctionsAre
  <1>5. slot \in ToSet(f.locals) \cup ToSet(f.temps) /\ slot \in SlotRecords
    <2>1. f.locals \in Seq(SlotRecords) /\ f.temps \in Seq(SlotRecords)
      BY <1>4 DEF IsFunction
    <2> HIDE DEF f
    <2>2. v[1] = "local" => slot \in ToSet(f.locals) /\ slot \in SlotRecords
      BY <1>2, <2>1, LenProperties DEF ToSet
    <2>3. v[1] = "temp" => slot \in ToSet(f.temps) /\ slot \in SlotRecords
      BY <1>2, <2>1, LenProperties DEF ToSet
    <2> QED BY <2>2, <2>3
  <1>6. SlotFits(slot, f, flags)
    BY <1>4, <1>5 DEF IsFunction
  <1>7. b.addr[v] = SlotWord(flags, b, k, slot)
    BY <1>1 DEF SlotsOK
  <1>8. FirstIn(b, k) \in Nat
    BY <1>1, <1>3, LaidNat
  <1>9. FirstIn(b, k) + f.allocated <= Len(b.globals)
    <2>1. Len(b.globals) \in Nat /\ b.firstlocal \in Nat /\ b.maxlocals \in Nat
      BY <1>1, LenProperties DEF Typed
    <2>2. CASE OverlapsIn(program, flags, b, k)
      <3>1. FirstIn(b, k) = b.firstlocal
        BY <2>2, <1>1, <1>3 DEF LaidOK
      <3>2. f.allocated <= b.maxlocals
        BY <2>2, <1>1, <1>3 DEF RoomOK, OverlapsIn
      <3>3. b.firstlocal + b.maxlocals <= Len(b.globals)
        BY <1>1 DEF AreaOK
      <3> HIDE DEF f, k
      <3> QED BY <3>1, <3>2, <3>3, <2>1, <1>4
    <2>3. CASE ~OverlapsIn(program, flags, b, k)
      BY <2>3, <1>1, <1>3 DEF LaidOK
    <2> QED BY <2>2, <2>3
  <1>10. f.globaltemps <= b.maxtemps
    BY <1>1, <1>3 DEF RoomOK
  <1> HIDE DEF slot, f, k
  <1>11. slot.local \in Nat /\ (SizeOf(slot.type) = 1 \/ SizeOf(slot.type) = 3)
    BY <1>5, Sizes DEF SlotRecords
  <1>12. /\ Len(b.globals) \in Nat /\ b.firsttemp \in Nat /\ b.firstlocal \in Nat
         /\ b.maxlocals \in Nat /\ b.maxtemps \in Nat
    BY <1>1, LenProperties DEF Typed
  <1>13. b.firsttemp + b.maxtemps <= Len(b.globals)
    BY <1>1, <1>12 DEF AreaOK
  <1>14. CASE ToGlobalTemps(slot, flags)
    <2>1. slot.local + SizeOf(slot.type) <= f.globaltemps
      BY <1>6, <1>14 DEF SlotFits
    <2>2. b.addr[v] = b.firsttemp + slot.local
      BY <1>7, <1>14 DEF SlotWord
    <2>3. slot.local < f.globaltemps
      BY <2>1, <1>4, <1>11
    <2> QED BY <2>2, <2>3, <1>4, <1>10, <1>11, <1>12, <1>13 DEF Within
  <1>15. CASE ~ToGlobalTemps(slot, flags)
    <2>1. slot.local + SizeOf(slot.type) <= f.allocated
      BY <1>6, <1>15 DEF SlotFits
    <2>2. b.addr[v] = FirstIn(b, k) + slot.local
      BY <1>7, <1>15 DEF SlotWord
    <2>3. slot.local < f.allocated
      BY <2>1, <1>4, <1>11
    <2> QED BY <2>2, <2>3, <1>4, <1>8, <1>9, <1>11, <1>12 DEF Within
  <1> QED BY <1>14, <1>15

(* What had an address in the file still has.                              *)
LEMMA InsideStays ==
    ASSUME NEW b, NEW c, Len(b.globals) \in Nat, Len(c.globals) \in Nat, WordsKept(b, c),
           IsMap(b.addr, PlaceNames, Nat)
    PROVE  /\ Low(b) => \A v \in DOMAIN b.addr : c.addr[v] <= Len(c.globals)
           /\ Inside(b) => \A v \in DOMAIN b.addr : Within(c.addr[v], c)
           /\ \A x : Within(x, b) => Within(x, c)
  <1>1. \A v \in DOMAIN b.addr : c.addr[v] = b.addr[v] /\ b.addr[v] \in Nat
    BY DEF WordsKept, IsMap
  <1>2. Len(b.globals) <= Len(c.globals)
    BY DEF WordsKept
  <1> QED BY <1>1, <1>2 DEF Low, Inside, Within

LEMMA AddressWithin ==
    ASSUME NEW b, Inside(b), ReservedWords <= Len(b.globals), Len(b.globals) \in Nat
    PROVE  \A v : Within(codeAddress(b, v), b)
  BY DEF Inside, Within, codeAddress, ReservedWords

LEMMA ParmWordsWithin ==
    ASSUME NEW b, Typed(program, b), Apart(program, b), Inside(b), NEW q \in Nat, NEW j \in 1 .. 3
    PROVE  Within(ParmWords(b, q), b) /\ Within(ParmWords(b, q) + j - 1, b)
  <1>1. Len(b.globals) \in Nat /\ ReservedWords <= Len(b.globals)
    BY LenProperties DEF Typed, Apart
  <1>2. CASE q <= 8
    BY <1>1, <1>2 DEF ParmWords, FirstParm, ReservedWords, Within
  <1>3. CASE ~(q <= 8) /\ ExtParam(q - 8) \notin DOMAIN b.addr
    BY <1>1, <1>3 DEF ParmWords, codeAddress, ReservedWords, Within
  <1>4. CASE ~(q <= 8) /\ ExtParam(q - 8) \in DOMAIN b.addr
    <2> DEFINE v == ExtParam(q - 8)
    <2>1. v[1] = "extparam" /\ v \in DOMAIN b.addr
      BY <1>4 DEF ExtParam
    <2>2. ParmWords(b, q) = b.addr[v]
      BY <1>4 DEF ParmWords, codeAddress
    <2> HIDE DEF v
    <2>3. v \in PlacesIn(b) /\ SizeOf(TypeIn(program, b, v)) = 3
      BY <2>1 DEF PlacesIn, TypeIn, SizeOf
    <2>4. b.addr[v] \in Nat /\ b.addr[v] + 3 <= Len(b.globals)
      BY <2>3, PlaceWithin
    <2> QED BY <2>2, <2>4, <1>1 DEF Within
  <1> QED BY <1>2, <1>3, <1>4

(* Statements of the file as it was, and one more.                         *)
LEMMA OperandsStay ==
    ASSUME NEW b, NEW c, Len(b.globals) \in Nat, Len(c.globals) \in Nat,
           Len(b.globals) <= Len(c.globals), c.statements = b.statements, OperandsOK(b)
    PROVE  OperandsOK(c)
  BY DEF OperandsOK, Within

LEMMA OperandsMore ==
    ASSUME NEW b, NEW c, Typed(program, b), c.globals = b.globals,
           NEW st, c.statements = Append(b.statements, st),
           OperandsOK(b), st.op # "COMPUTE" => Within(st.o1, b), Within(st.o2, b)
    PROVE  OperandsOK(c)
  <1>1. /\ DOMAIN c.statements = 1 .. Len(b.statements) + 1
        /\ c.statements[Len(b.statements) + 1] = st
        /\ \A i \in DOMAIN b.statements : c.statements[i] = b.statements[i]
    <2>1. IsSeq(b.statements)
      BY DEF Typed
    <2> QED BY <2>1, AppendIs
  <1>2. Len(b.statements) \in Nat /\ DOMAIN b.statements = 1 .. Len(b.statements)
    BY StatementsAre
  <1>3. \A i \in DOMAIN c.statements : i \in DOMAIN b.statements \/ i = Len(b.statements) + 1
    BY <1>1, <1>2
  <1>4. \A x : Within(x, b) => Within(x, c)
    BY DEF Within
  <1>5. ASSUME NEW i \in DOMAIN c.statements
        PROVE  /\ c.statements[i].op # "COMPUTE" => Within(c.statements[i].o1, c)
               /\ Within(c.statements[i].o2, c)
    <2>1. CASE i \in DOMAIN b.statements
      <3>1. c.statements[i] = b.statements[i]
        BY <2>1, <1>1
      <3>2. /\ b.statements[i].op # "COMPUTE" => Within(b.statements[i].o1, b)
            /\ Within(b.statements[i].o2, b)
        BY <2>1 DEF OperandsOK
      <3> QED BY <3>1, <3>2, <1>4
    <2>2. CASE i = Len(b.statements) + 1
      BY <2>2, <1>1, <1>4
    <2> QED BY <2>1, <2>2, <1>3
  <1> QED BY <1>5 DEF OperandsOK
-----------------------------------------------------------------------------
(***************************************************************************)
(* The operands: a step that adds no statement.                            *)
(***************************************************************************)
LEMMA LayoutTyped ==
    ASSUME LayoutInv
    PROVE  /\ Typed(program, builder) /\ builder.globals \in Seq(Int) /\ Len(builder.globals) \in Nat
           /\ IsMap(builder.addr, PlaceNames, Nat)
  <1>1. Typed(program, builder)
    BY DEF LayoutInv, FileInv
  <1> QED BY <1>1, LenProperties DEF Typed

LEMMA OperandsNext ==
    ASSUME OperandsOK(builder'), Low(builder'), AreasDone' => Inside(builder')
    PROVE  OperandsInv'
  BY DEF OperandsInv, Low, Inside, OperandsOK, Within

LEMMA OperandsAre ==
    ASSUME OperandsInv
    PROVE  OperandsOK(builder) /\ Low(builder) /\ (AreasDone => Inside(builder))
  BY DEF OperandsInv, Low, Inside

LEMMA SameOperands ==
    ASSUME OperandsInv, AreasDone' => AreasDone, builder'.addr = builder.addr,
           builder'.globals = builder.globals, builder'.statements = builder.statements
    PROVE  OperandsInv'
  <1>1. OperandsOK(builder) /\ Low(builder) /\ (AreasDone => Inside(builder))
    BY OperandsAre
  <1>2. OperandsOK(builder') /\ Low(builder') /\ (AreasDone => Inside(builder'))
    BY <1>1 DEF OperandsOK, Low, Inside, Within
  <1> QED BY <1>2, OperandsNext

(* Before the areas are there a word is added behind the others.           *)
LEMMA PlacedOperands ==
    ASSUME LayoutInv, OperandsInv, ~AreasDone', NEW v, NEW words \in Seq(Int),
           builder'.addr = With(builder.addr, v, Len(builder.globals)),
           builder'.globals = builder.globals \o words, builder'.statements = builder.statements
    PROVE  OperandsInv'
  <1>1. /\ builder.globals \in Seq(Int) /\ Len(builder.globals) \in Nat
        /\ IsMap(builder.addr, PlaceNames, Nat) /\ OperandsOK(builder) /\ Low(builder)
    BY LayoutTyped, OperandsAre
  <1>2. Len(builder'.globals) \in Nat /\ Len(builder.globals) <= Len(builder'.globals)
    BY <1>1, ConcatIs, LenProperties
  <1>3. OperandsOK(builder')
    BY <1>1, <1>2, OperandsStay
  <1>4. \A u \in DOMAIN builder.addr : builder.addr[u] \in Nat
    BY <1>1 DEF IsMap
  <1>5. Low(builder')
    BY <1>1, <1>2, <1>4 DEF Low, With
  <1> QED BY <1>3, <1>5, OperandsNext

LEMMA EarlyOperands ==
    ASSUME LayoutInv, OperandsInv, CollectReusables \/ SplitVector \/ PrepareField \/ LoopDone
    PROVE  OperandsInv'
  <1>1. DOMAIN builder = BuilderFields
    BY LayoutTyped DEF Typed
  <1>2. CASE CollectReusables
    <2>1. /\ stage' \in {"prepare", "split"}
          /\ builder' = builder \/ \E fl : builder' = [builder EXCEPT !.constfloats = fl]
      BY <1>2 DEF CollectReusables, EnterStage
    <2>2. ~AreasDone'
      BY <2>1 DEF AreasDone, CodeStages
    <2>3. /\ builder'.addr = builder.addr /\ builder'.globals = builder.globals
          /\ builder'.statements = builder.statements
      BY <1>1, <2>1 DEF BuilderFields
    <2> QED BY <2>2, <2>3, SameOperands
  <1>3. CASE SplitVector
    <2>1. ~AreasDone'
      BY <1>3 DEF SplitVector, NextItem, AreasDone, CodeStages
    <2>2. /\ builder'.addr = builder.addr /\ builder'.globals = builder.globals
          /\ builder'.statements = builder.statements
      BY <1>3, SplitVectorDoes DEF SameButValues
    <2> QED BY <2>1, <2>2, SameOperands
  <1>4. CASE PrepareField
    <2>1. ~AreasDone'
      BY <1>4 DEF PrepareField, NextItem, AreasDone, CodeStages
    <2>2. /\ builder'.addr = builder.addr /\ builder'.globals = builder.globals
          /\ builder'.statements = builder.statements
      BY <1>1, <1>4 DEF PrepareField, NextItem, BuilderFields
    <2> QED BY <2>1, <2>2, SameOperands
  <1>5. CASE LoopDone
    <2>1. builder' = builder /\ ~AreasDone'
      BY <1>5, LoopDoes
    <2> QED BY <2>1, SameOperands
  <1> QED BY <1>2, <1>3, <1>4, <1>5

LEMMA GlobalOperands ==
    ASSUME LayoutInv, OperandsInv,
           \/ SkipGlobal \/ GenerateWordless \/ GenerateMerged \/ GenerateString
           \/ GenerateWords \/ GenerateFunction
    PROVE  OperandsInv'
  <1>1. AtGlobal /\ stage' = stage
    BY DEF SkipGlobal, GenerateWordless, GenerateMerged, GenerateString, GenerateWords,
           GenerateFunction, NextItem
  <1>2. ~AreasDone'
    BY <1>1 DEF AtGlobal, AreasDone, CodeStages
  <1>3. DOMAIN builder = BuilderFields /\ Len(builder.globals) \in Nat
        /\ IsMap(builder.addr, PlaceNames, Nat)
    BY LayoutTyped DEF Typed
  <1>4. CASE SkipGlobal
    <2>1. builder' = CountAreas(builder, This)
      BY <1>4 DEF SkipGlobal, NextItem
    <2>2. /\ builder'.addr = builder.addr /\ builder'.globals = builder.globals
          /\ builder'.statements = builder.statements
      BY <1>3, <2>1, CountAreasRest DEF SameFunctions
    <2> QED BY <1>2, <2>2, SameOperands
  <1>5. CASE GenerateWordless
    <2>1. <<>> \in Seq(Int)
      OBVIOUS
    <2>2. Placing(builder', <<>>) /\ SameFunctions(builder, builder')
      BY <1>5, GenerateWordlessDoes
    <2> QED BY <1>2, <2>1, <2>2, PlacedOperands DEF Placing, SameFunctions
  <1>6. CASE GenerateMerged
    <2> DEFINE r == builder.reusable[This.value]
    <2>1. MergedInto(builder, builder', item, r)
      BY <1>6, GenerateMergedDoes
    <2>2. Value(r) \in DOMAIN builder.addr
      <3>1. ReusableOK(builder)
        BY <1>1, GlobalStart DEF FileInv, Placed
      <3>2. This.value \in DOMAIN builder.reusable
        BY <1>6 DEF GenerateMerged, Merged
      <3> QED BY <3>1, <3>2 DEF ReusableOK, PlacesIn
    <2>3. /\ builder'.addr = With(builder.addr, Value(item), builder.addr[Value(r)])
          /\ builder'.globals = builder.globals /\ builder'.statements = builder.statements
      BY <2>1 DEF MergedInto, SameButPlaces
    <2> HIDE DEF r
    <2>4. OperandsOK(builder) /\ Low(builder)
      BY OperandsAre
    <2>5. OperandsOK(builder') /\ Low(builder')
      BY <2>2, <2>3, <2>4 DEF OperandsOK, Low, Within, With
    <2> QED BY <1>2, <2>5, OperandsNext
  <1>7. CASE GenerateString
    <2>1. PICK at \in Nat : Placing(builder', <<at>>) /\ SameFunctions(builder, builder')
      BY <1>7, GenerateStringDoes
    <2>2. <<at>> \in Seq(Int)
      OBVIOUS
    <2> QED BY <1>2, <2>1, <2>2, PlacedOperands DEF Placing, SameFunctions
  <1>8. CASE GenerateWords
    <2>1. /\ Placing(builder', StartWords(builder, This)) /\ SameFunctions(builder, builder')
          /\ StartWords(builder, This) \in Seq(Int)
      BY <1>8, GenerateWordsDoes
    <2> QED BY <1>2, <2>1, PlacedOperands DEF Placing, SameFunctions
  <1>9. CASE GenerateFunction
    <2>1. PICK h : FunctionPlaced(builder', h)
      BY <1>9, GenerateFunctionDoes
    <2>2. <<Len(builder.functions)>> \in Seq(Int)
      <3>1. Len(builder.functions) \in Nat
        BY LayoutTyped, LenProperties DEF Typed
      <3> QED BY <3>1
    <2> QED BY <1>2, <2>1, <2>2, PlacedOperands DEF FunctionPlaced
  <1> QED BY <1>4, <1>5, <1>6, <1>7, <1>8, <1>9

LEMMA GenFieldOperands ==
    ASSUME LayoutInv, OperandsInv, GenField
    PROVE  OperandsInv'
  <1> DEFINE words == From(builder.fieldaddr[item], SizeOf(program.fields[item].type))
  <1>1. stage = "fields" /\ stage' = "fields" /\ item <= Len(program.fields)
    BY DEF GenField, NextItem, Items
  <1>2. ~AreasDone'
    BY <1>1 DEF AreasDone, CodeStages
  <1>3. /\ Len(builder.fieldaddr) = Len(program.fields) /\ builder.fieldaddr \in Seq(Nat)
        /\ item \in Nat /\ item >= 1 /\ Len(program.fields) \in Nat
    BY <1>1, FieldStart
  <1>4. words \in Seq(Int)
    <2>1. builder.fieldaddr[item] \in Int
      BY <1>1, <1>3, ElementOfSeq
    <2>2. SizeOf(program.fields[item].type) \in Nat
      BY DEF SizeOf
    <2> QED BY <2>1, <2>2, FromAre
  <1>5. /\ builder'.addr = With(builder.addr, FieldGlobal(item), Len(builder.globals))
        /\ builder'.globals = builder.globals \o words /\ builder'.statements = builder.statements
    BY GenFieldDoes DEF GenFieldStep, SameFunctions
  <1> HIDE DEF words
  <1> QED BY <1>2, <1>4, <1>5, PlacedOperands

(* From here on there are words behind everything that has an address.     *)
LEMMA AreasOperands ==
    ASSUME LayoutInv, OperandsInv, Areas
    PROVE  OperandsInv'
  <1>1. stage' = "code"
    BY DEF Areas, EnterStage
  <1>2. /\ WordsKept(builder, builder') /\ SameFunctions(builder, builder')
        /\ DOMAIN builder'.addr = DOMAIN builder.addr \cup AreaPlaces
        /\ Len(builder.globals) < Len(builder'.globals)
        /\ FileInv(program, flags, builder', DOMAIN builder.values, DOMAIN program.fields,
                   AreaPlaces, {})
    BY AreasDoes
  <1>3. Typed(program, builder') /\ Apart(program, builder')
    BY <1>2 DEF FileInv, Placed
  <1>4. /\ Len(builder.globals) \in Nat /\ Len(builder'.globals) \in Nat
        /\ IsMap(builder.addr, PlaceNames, Nat)
    BY <1>3, LayoutTyped, LenProperties DEF Typed
  <1>5. OperandsOK(builder) /\ Low(builder)
    BY OperandsAre
  <1>6. OperandsOK(builder')
    BY <1>2, <1>4, <1>5, OperandsStay DEF SameFunctions
  <1>7. ASSUME NEW v \in DOMAIN builder'.addr
        PROVE  Within(builder'.addr[v], builder')
    <2>1. CASE v \in DOMAIN builder.addr
      <3>1. builder'.addr[v] = builder.addr[v] /\ builder.addr[v] \in Nat
        BY <2>1, <1>2, <1>4 DEF WordsKept, IsMap
      <3>2. builder.addr[v] <= Len(builder.globals)
        BY <2>1, <1>5 DEF Low
      <3> QED BY <3>1, <3>2, <1>2, <1>4 DEF Within
    <2>2. CASE v \in AreaPlaces
      <3>1. v[1] \notin {"local", "temp", "value"}
        BY <2>2 DEF AreaPlaces, Nil, VinstrTemp
      <3>2. v \in PlacesIn(builder')
        BY <3>1 DEF PlacesIn
      <3> QED BY <3>2, <1>3, PlaceWithin
    <2> QED BY <2>1, <2>2, <1>2
  <1>8. Inside(builder') /\ Low(builder')
    BY <1>4, <1>7 DEF Inside, Low, Within
  <1> QED BY <1>6, <1>8, OperandsNext
-----------------------------------------------------------------------------
(***************************************************************************)
(* The operands: in the functions' code.                                   *)
(***************************************************************************)
LEMMA CodeIsInside ==
    ASSUME LayoutInv, OperandsInv, stage \in InCode
    PROVE  Inside(builder) /\ OperandsOK(builder)
  <1>1. AreasDone
    BY DEF InCode, AreasDone, CodeStages
  <1> QED BY <1>1, OperandsAre

LEMMA BodyInside ==
    ASSUME LayoutInv, OperandsInv, stage \in InBody, NEW b, CodeFile(b, 1 .. item), CodeAdds(builder, b)
    PROVE  /\ Typed(program, b) /\ Apart(program, b) /\ Inside(b) /\ Low(b)
           /\ Len(b.globals) \in Nat /\ ReservedWords <= Len(b.globals)
           /\ \A x : Within(x, builder) => Within(x, b)
           /\ b.statements = builder.statements => OperandsOK(b)
  <1>1. Inside(builder) /\ OperandsOK(builder)
    BY CodeIsInside DEF InCode, InBody
  <1>2. Typed(program, b) /\ Apart(program, b)
    BY DEF CodeFile, FileInv, Placed
  <1>3. /\ Len(builder.globals) \in Nat /\ IsMap(builder.addr, PlaceNames, Nat)
        /\ Len(b.globals) \in Nat /\ ReservedWords <= Len(b.globals)
    BY <1>2, LayoutTyped, LenProperties DEF Typed, Apart
  <1>4. WordsKept(builder, b) /\ \A v \in DOMAIN b.addr : v \in DOMAIN builder.addr \/ v[1] = "extparam"
    BY DEF CodeAdds
  <1>5. /\ \A v \in DOMAIN builder.addr : Within(b.addr[v], b)
        /\ \A x : Within(x, builder) => Within(x, b)
    BY <1>1, <1>3, <1>4, InsideStays
  <1>6. \A v \in DOMAIN b.addr : v[1] = "extparam" => v \in PlacesIn(b)
    BY DEF PlacesIn
  <1>7. \A v \in DOMAIN b.addr : v[1] = "extparam" => Within(b.addr[v], b)
    BY <1>2, <1>6, PlaceWithin
  <1>8. Inside(b)
    BY <1>4, <1>5, <1>7 DEF Inside
  <1>9. Low(b)
    BY <1>3, <1>8 DEF Inside, Low, Within
  <1>10. b.statements = builder.statements => OperandsOK(b)
    BY <1>1, <1>3, <1>4, OperandsStay DEF WordsKept
  <1> QED BY <1>2, <1>3, <1>5, <1>8, <1>9, <1>10

(* One more statement, and what it names.                                  *)
LEMMA PushOperands ==
    ASSUME LayoutInv, stage \in InBody, NEW b, CodeFile(b, 1 .. item), CodeAdds(builder, b),
           NEW op, NEW o1, NEW o2, OperandsOK(b), op # "COMPUTE" => Within(o1, b), Within(o2, b)
    PROVE  LET c == Push(b, op, o1, o2)
           IN /\ OperandsOK(c) /\ CodeFile(c, 1 .. item) /\ CodeAdds(builder, c)
              /\ c.globals = b.globals /\ c.addr = b.addr /\ c.values = b.values
  <1> DEFINE st == Statement(op, o1, o2, item, nthcall)
             c  == Push(b, op, o1, o2)
  <1>1. CodeFile(c, 1 .. item) /\ CodeAdds(builder, c)
    BY PushAdds
  <1>2. Typed(program, b)
    BY CodeFileLen
  <1>3. c.statements = Append(b.statements, st) /\ StatementPushed(b, c)
    BY <1>2, PushStatementIs DEF Push
  <1>4. st.op = op /\ st.o1 = o1 /\ st.o2 = o2
    BY DEF Statement
  <1> HIDE DEF st, c
  <1>5. c.globals = b.globals /\ c.addr = b.addr /\ c.values = b.values
    BY <1>3 DEF StatementPushed, SameRest
  <1>6. OperandsOK(c)
    BY <1>2, <1>3, <1>4, <1>5, OperandsMore
  <1> QED BY <1>1, <1>5, <1>6 DEF c

LEMMA BodyOperandsNext ==
    ASSUME LayoutInv, OperandsInv, stage \in InBody, BodyAdds(builder'), OperandsOK(builder')
    PROVE  OperandsInv'
  <1>1. Inside(builder') /\ Low(builder')
    BY BodyInside DEF BodyAdds
  <1> QED BY <1>1, OperandsNext

LEMMA WithExtparamInside ==
    ASSUME LayoutInv, OperandsInv, stage \in InBody
    PROVE  LET e == WithExtparam
           IN /\ CodeFile(e, 1 .. item) /\ CodeAdds(builder, e) /\ OperandsOK(e)
              /\ Within(ParmWords(e, nthparm), e)
              /\ \A j \in 1 .. 3 : Within(ParmWords(e, nthparm) + j - 1, e)
              /\ \A v : Within(codeAddress(e, v), e) /\ Within(codeAddress(builder, v), e)
  <1> DEFINE e == WithExtparam
  <1>1. CodeFile(e, 1 .. item) /\ CodeAdds(builder, e) /\ e.statements = builder.statements
    BY WithExtparamAdds
  <1> HIDE DEF e
  <1>2. /\ Typed(program, e) /\ Apart(program, e) /\ Inside(e) /\ OperandsOK(e)
        /\ Len(e.globals) \in Nat /\ ReservedWords <= Len(e.globals)
        /\ \A x : Within(x, builder) => Within(x, e)
    BY <1>1, BodyInside
  <1>3. nthparm \in Nat /\ CodeFile(builder, 1 .. item) /\ CodeAdds(builder, builder)
    BY InsideCode, CodeAddsReflexive
  <1>4. Within(ParmWords(e, nthparm), e) /\ \A j \in 1 .. 3 : Within(ParmWords(e, nthparm) + j - 1, e)
    <2>1. 1 \in 1 .. 3
      OBVIOUS
    <2> QED BY <1>2, <1>3, <2>1, ParmWordsWithin
  <1>5. \A v : Within(codeAddress(e, v), e)
    BY <1>2, AddressWithin
  <1>6. \A v : Within(codeAddress(builder, v), builder)
    BY <1>3, BodyInside, AddressWithin
  <1> QED BY <1>1, <1>2, <1>4, <1>5, <1>6 DEF e

LEMMA CopyParameterOperands ==
    ASSUME LayoutInv, OperandsInv, CopyParameter
    PROVE  OperandsInv'
  <1> DEFINE e  == WithExtparam
             o1 == ParmWords(e, nthparm)
             o2 == codeAddress(builder, Local(item, nthparm))
  <1>1. stage \in InBody /\ BodyAdds(builder')
    BY CopyParameterDoes
  <1>2. PICK op : NextParm(Push(e, op, o1, o2))
    BY DEF CopyParameter
  <1>3. builder' = Push(e, op, o1, o2)
    BY <1>2 DEF NextParm, Turn
  <1>4. /\ CodeFile(e, 1 .. item) /\ CodeAdds(builder, e) /\ OperandsOK(e) /\ Within(o2, e)
        /\ Within(o1, e)
    BY <1>1, WithExtparamInside
  <1> HIDE DEF e, o1, o2
  <1>5. OperandsOK(builder')
    BY <1>1, <1>3, <1>4, PushOperands
  <1> QED BY <1>1, <1>5, BodyOperandsNext

LEMMA StoreArgumentOperands ==
    ASSUME LayoutInv, OperandsInv, StoreArgument
    PROVE  OperandsInv'
  <1> DEFINE e  == WithExtparam
             o1 == ArgAddress(e, item, nthparm, ThisArg, 1)
             o2 == ParmWords(e, nthparm)
  <1>1. stage \in InBody /\ BodyAdds(builder')
    BY StoreArgumentDoes
  <1>2. PICK op : NextParm(Push(e, op, o1, o2))
    BY DEF StoreArgument
  <1>3. builder' = Push(e, op, o1, o2)
    BY <1>2 DEF NextParm, Turn
  <1>4. /\ CodeFile(e, 1 .. item) /\ CodeAdds(builder, e) /\ OperandsOK(e) /\ Within(o2, e)
        /\ \A v : Within(codeAddress(e, v), e)
    BY <1>1, WithExtparamInside
  <1>5. \A at : Within(at, e) => Within(at + 1 - 1, e)
    BY DEF Within
  <1>6. Within(o1, e)
    BY <1>4, <1>5 DEF ArgAddress
  <1> HIDE DEF e, o1, o2
  <1>7. OperandsOK(builder')
    BY <1>1, <1>3, <1>4, <1>6, PushOperands
  <1> QED BY <1>1, <1>7, BodyOperandsNext

LEMMA StoreSplitVectorOperands ==
    ASSUME LayoutInv, OperandsInv, StoreSplitVector
    PROVE  OperandsInv'
  <1> DEFINE e == WithExtparam
             x == StorePart(e, 1)
             y == StorePart(x, 2)
             z == StorePart(y, 3)
             o(j) == ArgAddress(builder, item, nthparm, ThisArg, j)
             at(j) == ParmWords(e, nthparm) + j - 1
  <1>1. stage \in InBody /\ BodyAdds(builder')
    BY StoreSplitVectorDoes
  <1>2. NextParm(z)
    BY DEF StoreSplitVector
  <1>3. builder' = z
    BY <1>2 DEF NextParm, Turn
  <1>4. /\ CodeFile(e, 1 .. item) /\ CodeAdds(builder, e) /\ OperandsOK(e)
        /\ \A j \in 1 .. 3 : Within(at(j), e)
        /\ \A v : Within(codeAddress(builder, v), e)
    BY <1>1, WithExtparamInside
  <1>5. \A j \in 1 .. 3 : Within(o(j), e)
    <2>1. IsSplitArg(builder, ThisArg)
      BY DEF StoreSplitVector
    <2>2. ThisArg.place = "value"
      BY <2>1 DEF IsSplitArg
    <2>3. \A j : o(j) = codeAddress(builder, Value(builder.values[ThisArg.index].parts[j]))
      BY <2>1, <2>2 DEF ArgAddress, InPlace
    <2> QED BY <2>3, <1>4
  <1>6. \A b, j : StorePart(b, j) = Push(b, "STORE_F", o(j), ParmWords(b, nthparm) + j - 1)
    BY DEF StorePart
  <1>7. \A b : b.addr = e.addr => ParmWords(b, nthparm) = ParmWords(e, nthparm)
    BY DEF ParmWords, codeAddress
  <1>8. 1 \in 1 .. 3 /\ 2 \in 1 .. 3 /\ 3 \in 1 .. 3
    OBVIOUS
  <1>9. x = Push(e, "STORE_F", o(1), at(1))
    BY <1>6
  <1>10. y = Push(x, "STORE_F", o(2), ParmWords(x, nthparm) + 2 - 1)
    BY <1>6
  <1>11. z = Push(y, "STORE_F", o(3), ParmWords(y, nthparm) + 3 - 1)
    BY <1>6
  <1>12. at(2) = ParmWords(e, nthparm) + 2 - 1 /\ at(3) = ParmWords(e, nthparm) + 3 - 1
    OBVIOUS
  <1> DEFINE o1 == o(1) o2 == o(2) o3 == o(3) a1 == at(1) a2 == at(2) a3 == at(3)
  <1>13. Within(o1, e) /\ Within(o2, e) /\ Within(o3, e) /\ Within(a1, e) /\ Within(a2, e) /\ Within(a3, e)
    BY <1>4, <1>5, <1>8
  <1>14. x = Push(e, "STORE_F", o1, a1)
    BY <1>9
  <1>15. x.addr = e.addr => y = Push(x, "STORE_F", o2, a2)
    BY <1>7, <1>10, <1>12
  <1>16. y.addr = e.addr => z = Push(y, "STORE_F", o3, a3)
    BY <1>7, <1>11, <1>12
  <1> HIDE DEF e, x, y, z, o, at, o1, o2, o3, a1, a2, a3
  <1>17. /\ OperandsOK(x) /\ CodeFile(x, 1 .. item) /\ CodeAdds(builder, x)
         /\ x.globals = e.globals /\ x.addr = e.addr
    BY <1>1, <1>4, <1>13, <1>14, PushOperands
  <1>18. \A w : Within(w, e) => Within(w, x)
    BY <1>17 DEF Within
  <1>19. /\ OperandsOK(y) /\ CodeFile(y, 1 .. item) /\ CodeAdds(builder, y)
         /\ y.globals = x.globals /\ y.addr = x.addr
    <2>1. y = Push(x, "STORE_F", o2, a2) /\ Within(o2, x) /\ Within(a2, x)
      BY <1>13, <1>15, <1>17, <1>18
    <2> QED BY <2>1, <1>1, <1>17, PushOperands
  <1>20. OperandsOK(z)
    <2>1. z = Push(y, "STORE_F", o3, a3) /\ Within(o3, y) /\ Within(a3, y)
      BY <1>13, <1>16, <1>17, <1>18, <1>19 DEF Within
    <2> QED BY <2>1, <1>1, <1>19, PushOperands
  <1> QED BY <1>1, <1>3, <1>20, BodyOperandsNext

LEMMA ComputeInPlaceOperands ==
    ASSUME LayoutInv, OperandsInv, ComputeInPlace
    PROVE  OperandsInv'
  <1> DEFINE at == ParmWords(builder, nthparm)
             c  == Push(builder, "COMPUTE", nthparm, at)
  <1>1. stage \in InBody /\ BodyAdds(builder')
    BY ComputeInPlaceDoes
  <1>2. NextParm(c) \/ NextParm(builder)
    BY DEF ComputeInPlace
  <1>3. builder' = c \/ builder' = builder
    BY <1>2 DEF NextParm, Turn
  <1>4. nthparm \in Nat /\ CodeFile(builder, 1 .. item) /\ CodeAdds(builder, builder)
    BY <1>1, InsideCode, CodeAddsReflexive
  <1>5. Typed(program, builder) /\ Apart(program, builder) /\ Inside(builder) /\ OperandsOK(builder)
    BY <1>1, <1>4, BodyInside
  <1>6. Within(at, builder)
    <2>1. 1 \in 1 .. 3
      OBVIOUS
    <2> QED BY <1>4, <1>5, <2>1, ParmWordsWithin
  <1> HIDE DEF at
  <1>7. OperandsOK(c)
    BY <1>1, <1>4, <1>5, <1>6, PushOperands
  <1> HIDE DEF c
  <1> QED BY <1>1, <1>3, <1>5, <1>7, BodyOperandsNext

LEMMA PushCallOperands ==
    ASSUME LayoutInv, OperandsInv, PushCall
    PROVE  OperandsInv'
  <1> DEFINE at == codeAddress(builder, Value(ThisCall.callee))
             c  == Push(builder, "CALL", at, 0)
  <1>1. stage \in InBody /\ BodyAdds(builder')
    BY PushCallDoes
  <1>2. Turn("compute", nthcall + 1, 1, c)
    BY DEF PushCall
  <1>3. builder' = c
    BY <1>2 DEF Turn
  <1>4. CodeFile(builder, 1 .. item) /\ CodeAdds(builder, builder)
    BY <1>1, InsideCode, CodeAddsReflexive
  <1>5. /\ Inside(builder) /\ OperandsOK(builder) /\ Len(builder.globals) \in Nat
        /\ ReservedWords <= Len(builder.globals)
    BY <1>1, <1>4, BodyInside
  <1>6. Within(at, builder) /\ Within(0, builder)
    BY <1>5, AddressWithin DEF Within, ReservedWords
  <1> HIDE DEF at
  <1>7. OperandsOK(c)
    BY <1>1, <1>4, <1>5, <1>6, PushOperands
  <1> QED BY <1>1, <1>3, <1>7, BodyOperandsNext

LEMMA EndCodeOperands ==
    ASSUME LayoutInv, OperandsInv, EndCode
    PROVE  OperandsInv'
  <1> DEFINE st == Statement("DONE", 0, 0, item, 0)
             c  == PushStatement(builder, st)
  <1>1. /\ stage \in InBody /\ BodyAdds(builder')
    BY EndCodeDoes DEF InBody
  <1>2. builder' = c
    BY DEF EndCode
  <1>3. CodeFile(builder, 1 .. item) /\ CodeAdds(builder, builder) /\ Typed(program, builder)
    BY <1>1, InsideCode, CodeAddsReflexive
  <1>4. /\ OperandsOK(builder) /\ Len(builder.globals) \in Nat
        /\ ReservedWords <= Len(builder.globals)
    BY <1>1, <1>3, BodyInside
  <1>5. st.o1 = 0 /\ st.o2 = 0 /\ Within(0, builder)
    BY <1>4 DEF Statement, Within, ReservedWords
  <1> HIDE DEF st
  <1>6. c.globals = builder.globals /\ c.statements = Append(builder.statements, st)
    BY <1>3, PushStatementIs DEF StatementPushed
  <1> HIDE DEF c
  <1>7. OperandsOK(c)
    BY <1>3, <1>4, <1>5, <1>6, OperandsMore
  <1> QED BY <1>1, <1>2, <1>7, BodyOperandsNext

LEMMA StartCodeOperands ==
    ASSUME LayoutInv, OperandsInv, StartCode
    PROVE  OperandsInv'
  <1>1. /\ AtCode /\ HasCodeIn(program, builder, item)
        /\ CodeFile(builder', 1 .. item) /\ Opens(builder, builder', item)
    BY StartCodeDoes
  <1>2. /\ stage \in InCode /\ IsProgram(program, flags) /\ item \in DOMAIN builder.values
        /\ DOMAIN builder.values = 1 .. Len(builder.values) /\ Len(builder.values) \in Nat
        /\ item \in Nat
    BY <1>1, AtCodeIs, CodeStart
  <1>3. Inside(builder) /\ OperandsOK(builder)
    BY <1>2, CodeIsInside
  <1>4. /\ WordsKept(builder, builder') /\ builder'.statements = builder.statements
        /\ builder'.values = builder.values
        /\ DOMAIN builder'.addr = DOMAIN builder.addr \cup SlotNames(item, FunctionIn(program, builder, item))
    BY <1>1 DEF Opens, SameNames
  <1>5. /\ Len(builder.globals) \in Nat /\ IsMap(builder.addr, PlaceNames, Nat)
        /\ Len(builder'.globals) \in Nat
    BY <1>1, LayoutTyped, CodeFileLen
  <1>6. OperandsOK(builder')
    BY <1>3, <1>4, <1>5, OperandsStay DEF WordsKept
  <1>7. 1 .. item \subseteq DOMAIN builder'.values
    BY <1>2, <1>4
  <1>8. ASSUME NEW v \in DOMAIN builder'.addr
        PROVE  Within(builder'.addr[v], builder')
    <2>1. CASE v \in DOMAIN builder.addr
      BY <2>1, <1>3, <1>4, <1>5, InsideStays
    <2>2. CASE v \in SlotNames(item, FunctionIn(program, builder, item))
      <3>1. v[1] \in {"local", "temp"}
        BY <2>2 DEF SlotNames, Local, Temp
      <3> QED BY <3>1, <1>1, <1>2, <1>7, SlotWithin
    <2> QED BY <2>1, <2>2, <1>4
  <1>9. Inside(builder') /\ Low(builder')
    BY <1>5, <1>8 DEF Inside, Low, Within
  <1> QED BY <1>6, <1>9, OperandsNext

LEMMA OperandsStep ==
    ASSUME LayoutInv, OperandsInv, [WriterNext]_writerVars
    PROVE  OperandsInv'
  <1>1. CASE CollectReusables \/ SplitVector \/ PrepareField \/ LoopDone
    BY <1>1, EarlyOperands
  <1>2. CASE SkipGlobal \/ GenerateWordless \/ GenerateMerged \/ GenerateString \/ GenerateWords
               \/ GenerateFunction
    BY <1>2, GlobalOperands
  <1>3. CASE GenField \/ Areas
    BY <1>3, GenFieldOperands, AreasOperands
  <1>4. CASE StartCode \/ EndCode
    BY <1>4, StartCodeOperands, EndCodeOperands
  <1>5. CASE CopyParameter \/ ComputeInPlace \/ StoreArgument \/ StoreSplitVector \/ PushCall
    BY <1>5, CopyParameterOperands, ComputeInPlaceOperands, StoreArgumentOperands,
       StoreSplitVectorOperands, PushCallOperands
  <1>6. CASE NoCode \/ CopyDone \/ ComputeDone \/ SkipStore \/ Finish
    <2>1. builder' = builder
      BY <1>6 DEF NoCode, CopyDone, ComputeDone, SkipStore, Finish, NextItem, Turn, NextParm, EnterStage
    <2>2. AreasDone
      BY <1>6 DEF NoCode, AtCode, CopyDone, ComputeDone, SkipStore, AtArgument, AtCall, Finish,
                  AreasDone, CodeStages
    <2> QED BY <2>1, <2>2, SameOperands
  <1>7. CASE Ended \/ UNCHANGED writerVars
    <2>1. builder' = builder /\ stage' = stage
      BY <1>7 DEF Ended, writerVars
    <2>2. AreasDone' => AreasDone
      BY <2>1 DEF AreasDone
    <2> QED BY <2>1, <2>2, SameOperands
  <1> QED BY <1>1, <1>2, <1>3, <1>4, <1>5, <1>6, <1>7 DEF WriterNext

LEMMA OperandsInit ==
    ASSUME WriterInit
    PROVE  OperandsInv
  <1>1. /\ builder = NewBuilder(program) /\ stage = "collect"
    BY DEF WriterInit
  <1>2. /\ builder.addr = <<>> /\ builder.globals = Zeros(ReservedWords)
        /\ builder.statements = <<Statement("DONE", 0, 0, 0, 0)>>
    BY <1>1 DEF NewBuilder
  <1>3. Len(builder.globals) = 28
    <2>1. 28 \in Nat
      OBVIOUS
    <2> QED BY <1>2, <2>1, ZerosAre DEF ReservedWords
  <1>4. OperandsOK(builder)
    BY <1>2, <1>3 DEF OperandsOK, Within, Statement
  <1>5. DOMAIN builder.addr = {} /\ ~AreasDone
    BY <1>1, <1>2 DEF AreasDone, CodeStages
  <1>6. Low(builder)
    BY <1>5 DEF Low
  <1> QED BY <1>4, <1>5, <1>6 DEF OperandsInv

LEMMA TypesHold == LayoutInv /\ OperandsInv => WriterTypeOK
  <1> SUFFICES ASSUME LayoutInv, OperandsInv PROVE WriterTypeOK
    OBVIOUS
  <1>1. builder.globals \in Seq(Int)
    BY LayoutTyped
  <1>2. \A a \in DOMAIN builder.globals : builder.globals[a] \in Int
    BY <1>1
  <1>3. \A k \in DOMAIN builder.statements :
           LET st == builder.statements[k]
           IN (st.op # "COMPUTE" => st.o1 < Len(builder.globals)) /\ st.o2 < Len(builder.globals)
    BY OperandsAre DEF OperandsOK, Within
  <1>4. /\ stage \in {"collect", "split", "prepare", "globals", "fields"} \cup CodeStages
        /\ item \in 1 .. Items + 1
    BY DEF LayoutInv, StageOK
  <1> QED BY <1>2, <1>3, <1>4 DEF WriterTypeOK, CodeStages

(* WriterTypeOK: every operand of a statement is a word of the file.       *)
THEOREM OperandsStayInside == WriterSpec => []WriterTypeOK
  <1>1. WriterInit => LayoutInv /\ OperandsInv
    BY LayoutInit, OperandsInit
  <1>2. LayoutInv /\ OperandsInv /\ [WriterNext]_writerVars => LayoutInv' /\ OperandsInv'
    BY LayoutStep, OperandsStep
  <1> QED BY <1>1, <1>2, TypesHold, PTL DEF WriterSpec
=============================================================================
