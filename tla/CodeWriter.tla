----------------------------- MODULE CodeWriter -----------------------------
(***************************************************************************)
(* ir_builder::generate (ir.cpp) fills the sections of the file (code.cpp):*)
(* an address for every global, field and local, the words they start      *)
(* with, the functions, the statements that pass arguments, the names.     *)
(*                                                                         *)
(* A program is what the parser and ir_function_finalize leave: values and *)
(* fields in the order of their declaration, functions whose locals and    *)
(* temporaries have slots.  Of a function's code only the calls are looked *)
(* at; what computes an argument in its place is one statement, COMPUTE.   *)
(*                                                                         *)
(* A word is a number: a float, an offset into the string table, an index  *)
(* into the functions, a field.  Word a is globals[a + 1].                 *)
(***************************************************************************)
EXTENDS StringTable

CONSTANTS Compilations, \* [program |-> [values, fields, functions],
                        \*  flags |-> those and the optimizations that are on]
          GlobalLimit,  \* 65536
          NoValue

VARIABLES program, flags,
          builder, \* ir_builder and its code_t
          stage,   \* which loop of generate() this is
          item,    \* the value or field it has come to
          nthcall,    \* of a function's code, the call it has come to
          nthparm     \* and the parameter

writerVars == <<program, flags, builder, stage, item, nthcall, nthparm>>

FirstParm == 4 \* OFS_PARM0
ReservedWords == 28
IR_MAX_VINSTR_TEMPS == 2
SizeOf(type) == IF type \in {"vector", "vfield", "nil"} THEN 3 ELSE 1
Larger(x, y) == IF x < y THEN y ELSE x
With(f, x, y) == [z \in DOMAIN f \cup {x} |-> IF z = x THEN y ELSE f[z]]
Zeros(k) == [j \in 1 .. Larger(k, 0) |-> 0]
From(x, k) == [j \in 1 .. Larger(k, 0) |-> x + j - 1]
Flag(f) == f \in flags

(* A value: its name, type, value (NoValue without one; of a field its     *)
(* number, of a function its number), const (CV_CONST), users (what reads  *)
(* it: "none", "calls", "any", or of a vector only its components are:     *)
(* "parts", which are not among its m_reads), erasable, keepdef            *)
(* (IR_FLAG_INCLUDE_DEF), parts (m_members of a vector that was split).    *)
HASH == 35
DOT == 46
UNDERSCORE == 95
LETTERX == 120
IMMEDIATE == <<73, 77>>
IsLiteral(v) == v.name[1] = HASH
HasValue(v) == v.value # NoValue
IsRead(v) == v.users \in {"calls", "any"}
IsSplit(v) == v.parts # <<>>

(* "vfield" is what names a field that is a vector, "nil" only m_nil.      *)
Types == {"void", "float", "string", "entity", "vector", "field", "vfield", "function", "nil"}
Starts(p, type) == CASE type = "string" -> Texts
                     [] type = "vector" -> [1 .. 3 -> Int]
                     [] type \in {"field", "vfield"} -> DOMAIN p.fields
                     [] type = "function" -> DOMAIN p.functions
                     [] OTHER -> Int
IsValue(p, v) ==
    /\ DOMAIN v = {"name", "type", "value", "const", "users", "erasable", "keepdef", "parts"}
    /\ v.name \in Texts \ {<<>>} /\ v.type \in Types \ {"nil"}
    /\ v.const \in BOOLEAN /\ v.erasable \in BOOLEAN /\ v.keepdef \in BOOLEAN
    /\ HasValue(v) => v.value \in Starts(p, v.type)
    /\ IsLiteral(v) => HasValue(v)
    /\ v.users \in {"none", "calls", "any", "parts"}
    /\ v.users = "parts" => v.type = "vector"

(* gen_function_extparam_copy, gen_function_varargs_copy: the parameters   *)
(* behind the eighth, and further arguments wherever they are.             *)
(* Mutant: further arguments are copied from the first one behind eight.   *)
FirstCopiedBehindEight(f) == 9
FirstCopied(f) == IF Len(f.params) >= 8 THEN 9 ELSE Len(f.params) + 1
LastCopied(f) == IF Len(f.params) = 0 THEN 0 ELSE Len(f.params) + f.varargs

(* A function: locals are those with a slot, the parameters first, then    *)
(* the further arguments; allocated and globaltemps are how long the areas *)
(* are that the slots lie in.                                              *)
SlotRecords == [type : Types, local : Nat, locked : BOOLEAN]
ToGlobalTemps(slot, fs) == ~slot.locked /\ "global_temps" \in fs
SlotFits(slot, f, fs) ==
    slot.local + SizeOf(slot.type) <= IF ToGlobalTemps(slot, fs) THEN f.globaltemps ELSE f.allocated
Arguments(p, f) ==
    {arg \in [place : {"value", "local", "parm"}, index : Nat, type : Types] :
        /\ arg.place = "value" => /\ arg.index \in DOMAIN p.values
                                  /\ IsRead(p.values[arg.index])
                                  /\ SizeOf(arg.type) = SizeOf(p.values[arg.index].type)
        /\ arg.place = "local" => /\ arg.index \in DOMAIN f.locals
                                  /\ SizeOf(arg.type) = SizeOf(f.locals[arg.index].type)}
IsFunction(p, f, fs) ==
    /\ f.params \in Seq(Types) /\ f.varargs \in Nat
    /\ f.locals \in Seq(SlotRecords) /\ f.temps \in Seq(SlotRecords)
    /\ \A slot \in ToSet(f.locals) \cup ToSet(f.temps) : SlotFits(slot, f, fs)
    /\ f.allocated \in Nat /\ f.globaltemps \in Nat /\ f.builtin \in Nat
    /\ f.nooverlap \in BOOLEAN /\ f.file \in Texts
    /\ f.calls \in Seq([callee : DOMAIN p.values, args : Seq(Arguments(p, f))])
    /\ f.builtin = 0 => LastCopied(f) <= Len(f.locals)

(* What the parser and ir_function_finalize leave.                         *)
IsProgram(p, fs) ==
    /\ p.values \in Seq(ToSet(p.values))
    /\ \A v \in ToSet(p.values) : IsValue(p, v) /\ v.parts = <<>>
    /\ p.fields \in Seq([name : Texts \ {<<>>}, type : Types \ {"vfield", "nil"}])
    /\ p.functions \in Seq(ToSet(p.functions))
    /\ \A f \in ToSet(p.functions) : IsFunction(p, f, fs)
ASSUME WriterAssumption ==
    /\ NoValue \notin Int
    /\ \A c \in Compilations : IsProgram(c.program, c.flags)
-----------------------------------------------------------------------------
(* m_code.globaladdr is 0 until it is set.  What has an address: a value,  *)
(* a field's global, a function's local or temporary, nil, a temporary of  *)
(* the virtual instructions, a parameter behind the eighth.                *)
Value(k) == <<"value", k>>
FieldGlobal(k) == <<"field", k>>
Local(f, j) == <<"local", f, j>>
Temp(f, j) == <<"temp", f, j>>
Nil == <<"nil">>
VinstrTemp(j) == <<"vinstr", j>>
ExtParam(j) == <<"extparam", j>>

codeAddress(b, v) == IF v \in DOMAIN b.addr THEN b.addr[v] ELSE 0
setCodeAddress(b, v, at) == [b EXCEPT !.addr = With(@, v, at)]
PushWords(b, v, words) ==
    [setCodeAddress(b, v, Len(b.globals)) EXCEPT !.globals = @ \o words]
PushStatement(b, st) == [b EXCEPT !.statements = Append(@, st)]

(* code_genstring, and a def or a field of that name.                      *)
GenName(b, text) ==
    LET table == GenString(b.strings, text, Flag("overlap_strings"))
    IN [b EXCEPT !.strings = table, !.name = table.at]
PushDef(b, at) == [b EXCEPT !.defs = Append(@, [name |-> b.name, offset |-> at])]
PushField(b, name, at) == [b EXCEPT !.fields = Append(@, [name |-> name, offset |-> at])]

(* code_t::code_t: 28 words, an empty function, statement, def and field.  *)
Statement(op, o1, o2, of, call) == [op |-> op, o1 |-> o1, o2 |-> o2, of |-> of, call |-> call]
EmptyFunction == [name |-> 0, file |-> 0, argsize |-> <<>>, firstlocal |-> 0,
                  locals |-> 0, entry |-> 0, of |-> 0]
NewBuilder(p) ==
    [values |-> p.values, constfloats |-> {}, reusable |-> <<>>, addr |-> <<>>,
     strings |-> EmptyTable, name |-> 0, immediate |-> 0, filenames |-> <<>>,
     globals |-> Zeros(ReservedWords), defs |-> <<[name |-> 0, offset |-> 0]>>,
     fields |-> <<[name |-> 0, offset |-> 0]>>, entfields |-> 0, fieldaddr |-> <<>>,
     functions |-> <<EmptyFunction>>, def |-> <<>>,
     statements |-> <<Statement("DONE", 0, 0, 0, 0)>>,
     extparams |-> 0, maxlocals |-> 0, maxtemps |-> 0, firsttemp |-> 0, firstlocal |-> 0]

WriterInit == /\ \E c \in Compilations : program = c.program /\ flags = c.flags
              /\ builder = NewBuilder(program)
              /\ stage = "collect"
              /\ item = 1 /\ nthcall = 0 /\ nthparm = 0

(* The loop over the values or the fields, and what comes behind it.       *)
Items == CASE stage = "split" -> Len(program.values)
           [] stage \in {"prepare", "fields"} -> Len(program.fields)
           [] OTHER -> Len(builder.values)
NextItem(b) == /\ builder' = b
               /\ item' = item + 1
               /\ UNCHANGED <<program, flags, stage, nthcall, nthparm>>
EnterStage(s, b) == /\ builder' = b
                    /\ stage' = s
                    /\ item' = 1
                    /\ UNCHANGED <<program, flags, nthcall, nthparm>>
-----------------------------------------------------------------------------
HasFunction(v) == v.type = "function" /\ HasValue(v)
FunctionOf(k) == program.functions[builder.values[k].value]

(* ir_builder_collect_reusables: in the order of the values.              *)
ConstFloats(values) ==
    {k \in DOMAIN values : /\ values[k].type = "float" /\ HasValue(values[k])
                           /\ values[k].const \/ IsLiteral(values[k])}
CollectReusables ==
    /\ stage = "collect"
    /\ LET floats == ConstFloats(builder.values)
       IN IF ~Flag("split_vector_parameters") THEN EnterStage("prepare", builder)
          ELSE EnterStage(IF floats = {} THEN "prepare" ELSE "split",
                          [builder EXCEPT !.constfloats = floats])

(* ir_builder_split_vector: a literal that is only passed on becomes three *)
(* floats, those there are or new ones.                                    *)
LiteralFloat(x) == [name |-> <<HASH>> \o IMMEDIATE, type |-> "float", value |-> x,
                    const |-> TRUE, users |-> "none", erasable |-> TRUE,
                    keepdef |-> FALSE, parts |-> <<>>]
SameFloats(b, x) == {c \in b.constfloats : b.values[c].value = x}
WithFloat(b, x) ==
    IF SameFloats(b, x) # {} THEN b
    ELSE [b EXCEPT !.values = Append(@, LiteralFloat(x)),
                   !.constfloats = @ \cup {Len(b.values) + 1}]
AddPart(b, k, x) ==
    LET with == WithFloat(b, x)
        same == SameFloats(with, x)
        part == CHOOSE c \in same : \A other \in same : c <= other
    IN [with EXCEPT !.values[k].parts = Append(@, part),
                    !.values[part].users = IF @ = "none" THEN "calls" ELSE @]
Splittable(v) == v.type = "vector" /\ IsLiteral(v) /\ v.users = "calls"
SplitVector ==
    /\ stage = "split" /\ item <= Items
    /\ LET v == builder.values[item]
       IN NextItem(IF ~Splittable(v) THEN builder
                   ELSE AddPart(AddPart(AddPart(builder, item, v.value[1]),
                                        item, v.value[2]), item, v.value[3]))

(* ir_builder_prepare_field, code_alloc_field                              *)
PrepareField ==
    /\ stage = "prepare" /\ item <= Items
    /\ NextItem([builder EXCEPT !.fieldaddr = Append(@, builder.entfields),
                                !.entfields = @ + SizeOf(program.fields[item].type)])

LoopDone == /\ item > Items
            /\ \/ stage = "split" /\ EnterStage("prepare", builder)
               \/ stage = "prepare" /\ EnterStage("globals", builder)
               \/ stage = "globals" /\ EnterStage("fields", builder)
-----------------------------------------------------------------------------
(* ir_builder::generateGlobal                                              *)
PushesDef(v) ==
    ~(Flag("strip_constant_names") /\ ~v.keepdef /\ (IsLiteral(v) \/ v.const))

Immediate(b) == IF b.immediate # 0 THEN [b EXCEPT !.name = b.immediate]
                ELSE LET g == GenName(b, IMMEDIATE) IN [g EXCEPT !.immediate = g.name]
Named(b, v) == IF ~PushesDef(v) THEN [b EXCEPT !.name = 0]
               ELSE IF IsLiteral(v) THEN Immediate(b)
               ELSE GenName(b, v.name)

(* gen_vector_defs, gen_vector_fields                                      *)
Component(name, j) == name \o <<UNDERSCORE, LETTERX + j - 1>>
DefOfPart(b, name, at, j) == PushDef(GenName(b, Component(name, j)), at + j - 1)
VectorDefs(b, name, at) ==
    IF name[1] = HASH \/ Flag("single_vector_defs") THEN b
    ELSE DefOfPart(DefOfPart(DefOfPart(b, name, at, 1), name, at, 2), name, at, 3)
FieldOfPart(b, name, at, j) ==
    LET g == GenName(b, Component(name, j)) IN PushField(g, g.name, at + j - 1)
VectorFields(b, name, at) ==
    IF Flag("single_vector_defs") THEN b
    ELSE FieldOfPart(FieldOfPart(FieldOfPart(b, name, at, 1), name, at, 2), name, at, 3)
WithDefs(b, v, at) ==
    IF ~PushesDef(v) THEN b
    ELSE LET d == PushDef(b, at)
         IN IF SizeOf(v.type) = 3 THEN VectorDefs(d, v.name, at) ELSE d

(* What a value starts with.                                               *)
StartWords(b, v) ==
    CASE ~HasValue(v) -> Zeros(SizeOf(v.type))
      [] HasValue(v) /\ v.type = "vector" -> v.value
      [] HasValue(v) /\ v.type \in {"field", "vfield"} ->
            From(b.fieldaddr[v.value], SizeOf(v.type))
      [] OTHER -> <<v.value>>

Skipped(v) == IsSplit(v) \/ (v.erasable /\ ~IsRead(v))
Wordless(v) == /\ v.type \in {"float", "entity", "string"}
               /\ HasValue(v) /\ v.const /\ ~IsRead(v)
(* generateMergedFloat, the first half                                     *)
Mergeable(v) == /\ v.type \in {"float", "entity"}
                /\ HasValue(v) /\ v.const /\ IsRead(v) /\ ~v.keepdef
Merged(b, v) == Mergeable(v) /\ v.value \in DOMAIN b.reusable /\ ~PushesDef(v)
Remember(b, k, v) ==
    IF Mergeable(v) /\ v.value \notin DOMAIN b.reusable
    THEN [b EXCEPT !.reusable = With(@, v.value, k)] ELSE b

(* The largest areas of locals and of temporaries, of erased functions too *)
CountAreas(b, v) ==
    IF ~HasFunction(v) THEN b
    ELSE LET f == program.functions[v.value]
         IN [b EXCEPT !.maxtemps = Larger(@, f.globaltemps),
                      !.maxlocals = IF f.nooverlap THEN @ ELSE Larger(@, f.allocated)]

This == builder.values[item]
AtGlobal == stage = "globals" /\ item <= Items

SkipGlobal == /\ AtGlobal /\ Skipped(This)
              /\ NextItem(CountAreas(builder, This))

GenerateWordless ==
    /\ AtGlobal /\ ~Skipped(This) /\ Wordless(This)
    /\ NextItem(PushWords(Named(builder, This), Value(item), <<>>))

GenerateMerged ==
    /\ AtGlobal /\ ~Skipped(This) /\ Merged(builder, This)
    /\ NextItem(setCodeAddress(builder, Value(item),
                               codeAddress(builder, Value(builder.reusable[This.value]))))

GenerateString ==
    /\ AtGlobal /\ ~Skipped(This) /\ ~Wordless(This)
    /\ This.type = "string" /\ HasValue(This)
    /\ LET named == Named(builder, This)
           load  == GenName(named, This.value)
           b     == PushWords(load, Value(item), <<load.name>>)
       IN NextItem(WithDefs([b EXCEPT !.name = named.name], This, Len(builder.globals)))

GenerateWords ==
    /\ AtGlobal /\ ~Skipped(This) /\ ~Wordless(This) /\ ~Merged(builder, This)
    /\ This.type = "string" => ~HasValue(This)
    /\ ~HasFunction(This)
    /\ LET named == Named(builder, This)
           b == PushWords(named, Value(item), StartWords(builder, This))
       IN NextItem(WithDefs(Remember(b, item, This), This, Len(builder.globals)))

(* ir_builder::filestring: of a file that is known its place in the list,  *)
(* not its string.                                                         *)
FileString(b, file) ==
    IF file \in ToSet(b.filenames)
    THEN [b EXCEPT !.name = (CHOOSE i \in DOMAIN b.filenames : b.filenames[i] = file) - 1]
    ELSE [GenName(b, file) EXCEPT !.filenames = Append(@, file)]

(* generateGlobalFunction.  Builtin number n has the entry -n; of the      *)
(* parameters the executor copies no more than eight.                      *)
EightOf(params) == SubSeq(params, 1, IF Len(params) > 8 THEN 8 ELSE Len(params))
FunctionHeader(b, f, name) ==
    [name |-> name, file |-> b.name,
     argsize |-> [j \in DOMAIN EightOf(f.params) |-> SizeOf(f.params[j])],
     firstlocal |-> 0, locals |-> f.allocated,
     entry |-> IF f.builtin # 0 THEN -f.builtin ELSE Len(b.statements), of |-> item]

GenerateFunction ==
    /\ AtGlobal /\ ~Skipped(This) /\ HasFunction(This)
    /\ LET f     == FunctionOf(item)
           named == Named(builder, This)
           b     == FileString(PushWords(named, Value(item), <<Len(builder.functions)>>), f.file)
           g     == [b EXCEPT !.functions = Append(@, FunctionHeader(b, f, named.name)),
                              !.def = With(@, item, Len(builder.functions) + 1),
                              !.name = named.name]
       IN NextItem(CountAreas(WithDefs(g, This, Len(builder.globals)), This))

(* ir_builder_gen_field                                                    *)
FieldNamed(b, field) ==
    IF Flag("gmqcc") THEN GenName(b, <<DOT>> \o field.name) ELSE GenName(b, field.name)
FieldName(b) == IF Flag("gmqcc") THEN b.name + 1 ELSE b.name
GenField ==
    /\ stage = "fields" /\ item <= Items
    /\ LET field == program.fields[item]
           at    == Len(builder.globals)
           ofs   == builder.fieldaddr[item]
           named == FieldNamed(builder, field)
           b     == PushField(PushDef(named, at), FieldName(named), ofs)
           w     == PushWords(b, FieldGlobal(item), From(ofs, SizeOf(field.type)))
       IN NextItem(IF field.type # "vector" THEN w
                   ELSE VectorFields(VectorDefs(w, field.name, at), field.name, ofs))

(* nil, the temporaries, the common locals                                 *)
Areas ==
    /\ stage = "fields" /\ item > Items
    /\ LET nil   == PushWords(builder, Nil, Zeros(3))
           temps == PushWords(PushWords(nil, VinstrTemp(1), Zeros(3)),
                              VinstrTemp(IR_MAX_VINSTR_TEMPS), Zeros(3))
           first == Len(temps.globals)
       IN EnterStage("code", [temps EXCEPT !.firsttemp = first,
                                      !.firstlocal = first + builder.maxtemps,
                                      !.globals = @ \o Zeros(builder.maxtemps + builder.maxlocals)])
-----------------------------------------------------------------------------
(* ir_builder::generateFunctionLocals.  An element of locals or temps has  *)
(* its slot, and whether it is locked.                                     *)
FirstLocalOf(b, f) ==
    IF f.nooverlap \/ ~Flag("overlap_locals") THEN Len(b.globals) ELSE b.firstlocal
SlotAddress(b, first, v) ==
    IF v.locked \/ ~Flag("global_temps") THEN first + v.local ELSE b.firsttemp + v.local
SlotAddresses(b, first, k, f) ==
    [v \in {Local(k, j) : j \in DOMAIN f.locals} \cup {Temp(k, j) : j \in DOMAIN f.temps} |->
        SlotAddress(b, first, IF v[1] = "local" THEN f.locals[v[3]] ELSE f.temps[v[3]])]
Over(f, g) == [x \in DOMAIN f \cup DOMAIN g |-> IF x \in DOMAIN f THEN f[x] ELSE g[x]]
(* Mutant: room is made only for locals that nothing else lies over.       *)
FunctionLocalsNarrow(b, k, f) ==
    LET first == FirstLocalOf(b, f)
    IN [b EXCEPT !.functions[b.def[k]].firstlocal = first,
                 !.globals = IF f.nooverlap THEN @ \o Zeros(f.allocated) ELSE @,
                 !.addr = Over(SlotAddresses(b, first, k, f), @)]

FunctionLocals(b, k, f) ==
    LET first == FirstLocalOf(b, f)
    IN [b EXCEPT !.functions[b.def[k]].firstlocal = first,
                 !.globals = @ \o Zeros(first + f.allocated - Len(@)),
                 !.addr = Over(SlotAddresses(b, first, k, f), @)]

InPlace(arg) == arg.place = "parm"
Store(type) == IF SizeOf(type) = 3 THEN "STORE_V" ELSE "STORE_F"
ParmWords(b, p) ==
    IF p <= 8 THEN FirstParm + 3 * (p - 1) ELSE codeAddress(b, ExtParam(p - 8))

(* ir_builder::generateExtparam, when a parameter behind the eighth is the *)
(* first of its number.  They come in order, so that one more is enough.   *)
EXTPARM == <<69>>
GenerateExtparam(b) ==
    LET named == GenName(b, EXTPARM \o <<b.extparams + 1>>)
    IN [PushWords(PushDef(named, Len(b.globals)), ExtParam(b.extparams + 1), Zeros(3))
          EXCEPT !.extparams = @ + 1]
WithExtparam == IF nthparm - 8 > builder.extparams THEN GenerateExtparam(builder) ELSE builder

(* ir_builder::generateGlobalFunctionCode and gen_function_code            *)
HasCode(v, k) == HasFunction(v) /\ FunctionOf(k).builtin = 0 /\ k \in DOMAIN builder.def
AtCode == stage = "code" /\ item <= Items
ThisFunction == FunctionOf(item)
ThisCall == ThisFunction.calls[nthcall]
ThisArg == ThisCall.args[nthparm]

(* In the code of a function: parameters that the executor does not copy,  *)
(* then of each call what is computed in place, the stores, the call.      *)
Turn(s, c, p, b) == /\ builder' = b
                    /\ stage' = s /\ nthcall' = c /\ nthparm' = p
                    /\ UNCHANGED <<program, flags, item>>
NextParm(b) == Turn(stage, nthcall, nthparm + 1, b)
Push(b, op, o1, o2) == PushStatement(b, Statement(op, o1, o2, item, nthcall))

NoCode == /\ AtCode /\ ~HasCode(This, item)
          /\ NextItem(builder)
StartCode ==
    /\ AtCode /\ HasCode(This, item)
    /\ Turn("copy", 0, FirstCopied(ThisFunction),
            FunctionLocals(
               [builder EXCEPT !.functions[builder.def[item]].entry = Len(builder.statements)],
               item, ThisFunction))

(* A parameter more than the declared ones is a vector.                    *)
CopyParameter ==
    /\ stage = "copy" /\ nthparm <= LastCopied(ThisFunction)
    /\ LET type == IF nthparm <= Len(ThisFunction.params) THEN ThisFunction.params[nthparm] ELSE "vector"
       IN NextParm(Push(WithExtparam, Store(type), ParmWords(WithExtparam, nthparm),
                        codeAddress(builder, Local(item, nthparm))))
CopyDone == /\ stage = "copy" /\ nthparm > LastCopied(ThisFunction)
            /\ Turn("compute", 1, 1, builder)

(* An argument is a value, a local, or a temporary that -Ocall-stores has  *)
(* computed in its place (m_callparam).  Behind the eighth that place is   *)
(* the prototype of the parameter, which the call then stores to itself.   *)
IsSplitArg(b, arg) == arg.place = "value" /\ IsSplit(b.values[arg.index])
ArgAddress(b, k, p, arg, j) ==
    CASE InPlace(arg) -> ParmWords(b, p) + j - 1
      [] arg.place = "local" -> codeAddress(b, Local(k, arg.index)) + j - 1
      [] IsSplitArg(b, arg) -> codeAddress(b, Value(b.values[arg.index].parts[j]))
      [] OTHER -> codeAddress(b, Value(arg.index)) + j - 1

AtCall(s) == stage = s /\ nthcall <= Len(ThisFunction.calls)
AtArgument(s) == AtCall(s) /\ nthparm <= Len(ThisCall.args)

ComputeInPlace ==
    /\ AtArgument("compute")
    /\ NextParm(IF InPlace(ThisArg) THEN Push(builder, "COMPUTE", nthparm, ParmWords(builder, nthparm))
                ELSE builder)
ComputeDone ==
    /\ AtCall("compute") /\ nthparm > Len(ThisCall.args)
    /\ Turn("store", nthcall, 1, builder)

SkipStore == /\ AtArgument("store") /\ InPlace(ThisArg) /\ nthparm <= 8
             /\ NextParm(builder)
StoreArgument ==
    /\ AtArgument("store") /\ ~(InPlace(ThisArg) /\ nthparm <= 8) /\ ~IsSplitArg(builder, ThisArg)
    /\ NextParm(Push(WithExtparam, IF InPlace(ThisArg) THEN "STORE_V" ELSE Store(ThisArg.type),
                     ArgAddress(WithExtparam, item, nthparm, ThisArg, 1),
                     ParmWords(WithExtparam, nthparm)))
StorePart(b, j) ==
    Push(b, "STORE_F", ArgAddress(builder, item, nthparm, ThisArg, j), ParmWords(b, nthparm) + j - 1)
StoreSplitVector ==
    /\ AtArgument("store") /\ IsSplitArg(builder, ThisArg)
    /\ NextParm(StorePart(StorePart(StorePart(WithExtparam, 1), 2), 3))

PushCall ==
    /\ AtCall("store") /\ nthparm > Len(ThisCall.args)
    /\ Turn("compute", nthcall + 1, 1,
            Push(builder, "CALL", codeAddress(builder, Value(ThisCall.callee)), 0))

EndCode == /\ stage = "compute" /\ nthcall > Len(ThisFunction.calls)
           /\ builder' = PushStatement(builder, Statement("DONE", 0, 0, item, 0))
           /\ stage' = "code"
           /\ item' = item + 1
           /\ nthcall' = 0 /\ nthparm' = 0
           /\ UNCHANGED <<program, flags>>

(* The limit is what a 16 bit operand can name.                            *)
Finish == /\ stage = "code" /\ item > Items
          /\ EnterStage(IF Len(builder.globals) >= GlobalLimit THEN "failed" ELSE "done", builder)

Ended == stage \in {"done", "failed"} /\ UNCHANGED writerVars

WriterNext == \/ CollectReusables \/ SplitVector \/ PrepareField \/ LoopDone
              \/ SkipGlobal \/ GenerateWordless \/ GenerateMerged \/ GenerateString
              \/ GenerateWords \/ GenerateFunction \/ GenField \/ Areas
              \/ NoCode \/ StartCode \/ CopyParameter \/ CopyDone
              \/ ComputeInPlace \/ ComputeDone \/ SkipStore \/ StoreArgument
              \/ StoreSplitVector \/ PushCall \/ EndCode \/ Finish \/ Ended

WriterSpec == WriterInit /\ [][WriterNext]_writerVars
-----------------------------------------------------------------------------
Done == stage = "done"
Functions == {k \in DOMAIN builder.values : HasFunction(builder.values[k])}
Coded == {k \in Functions : HasCode(builder.values[k], k)}
Span(at, size) == at .. at + size - 1
WordAt(at) == builder.globals[at + 1]
Reads(at, text) == ReadsAs(builder.strings.chars, at, text)
Header(k) == builder.functions[builder.def[k]]

(* The type invariant: every operand of a statement is a word of the file. *)
WriterTypeOK ==
    /\ \A a \in DOMAIN builder.globals : builder.globals[a] \in Int
    /\ \A k \in DOMAIN builder.statements :
          LET st == builder.statements[k]
          IN /\ st.op # "COMPUTE" => st.o1 < Len(builder.globals)
             /\ st.o2 < Len(builder.globals)
    /\ stage \in {"collect", "split", "prepare", "globals", "fields", "code", "copy",
                  "compute", "store", "done", "failed"}
    /\ item \in 1 .. Items + 1

(* What has words: the places of the file, and of the functions.           *)
HasWords(k) == Value(k) \in DOMAIN builder.addr /\ ~Wordless(builder.values[k])
TypeAt(v) == IF v[1] = "value" THEN builder.values[v[2]].type
             ELSE IF v[1] = "field" /\ program.fields[v[2]].type # "vector" THEN "float"
             ELSE "vector"
Places == {v \in DOMAIN builder.addr : /\ v[1] \notin {"local", "temp"}
                                       /\ v[1] = "value" => HasWords(v[2])}
PlaceWords(v) == Span(codeAddress(builder, v), SizeOf(TypeAt(v)))
TempArea == Span(builder.firsttemp, builder.maxtemps)
LocalArea(k) == Span(Header(k).firstlocal, Header(k).locals)
Overlaps(k) == ~FunctionOf(k).nooverlap /\ Flag("overlap_locals")
SlotOf(v) == IF v[1] = "local" THEN FunctionOf(v[2]).locals[v[3]] ELSE FunctionOf(v[2]).temps[v[3]]
FunctionWords == {v \in DOMAIN builder.addr : v[1] \in {"local", "temp"}}

SameConstant(v, w) ==
    /\ v[1] = "value" /\ w[1] = "value"
    /\ LET x == builder.values[v[2]] y == builder.values[w[2]]
       IN x.const /\ y.const /\ x.value = y.value

(* No two things share a word that can disturb each other.  Equal constants*)
(* may be one; functions whose locals may overlap have theirs in the same  *)
(* place, but what is locked lies where the executor saves it, and what is *)
(* not in the area of temporaries, which nothing else is put into.         *)
WordsApart ==
    Done =>
      /\ \A v, w \in Places :
            v = w \/ PlaceWords(v) \cap PlaceWords(w) = {} \/ SameConstant(v, w)
      /\ \A v \in Places : PlaceWords(v) \subseteq ReservedWords .. Len(builder.globals) - 1
      /\ \A k \in Coded :
            /\ \A v \in Places : PlaceWords(v) \cap (LocalArea(k) \cup TempArea) = {}
            /\ LocalArea(k) \cap TempArea = {}
            /\ LocalArea(k) \subseteq ReservedWords .. Len(builder.globals) - 1
            /\ \A m \in Coded :
                  k = m \/ (Overlaps(k) /\ Overlaps(m)) \/ LocalArea(k) \cap LocalArea(m) = {}
      /\ \A v \in FunctionWords :
            Span(codeAddress(builder, v), SizeOf(SlotOf(v).type))
               \subseteq IF SlotOf(v).locked \/ ~Flag("global_temps")
                         THEN LocalArea(v[2]) ELSE TempArea

(* Whatever is read of a value is there: its words, or those of its parts, *)
(* hold what it starts with, texts read back from the table, a function's  *)
(* word leads to its code, which starts where the one before it has ended, *)
(* and defs and fields have the names and the places of what they name.    *)
HoldsValue(k, v) ==
    LET at == codeAddress(builder, Value(k))
    IN CASE v.type = "vector" /\ IsSplit(v) ->
              \A j \in 1 .. 3 : WordAt(codeAddress(builder, Value(v.parts[j]))) = v.value[j]
         [] v.type = "vector" /\ ~IsSplit(v) -> \A j \in 1 .. 3 : WordAt(at + j - 1) = v.value[j]
         [] v.type = "string" -> Reads(WordAt(at), v.value)
         [] v.type = "function" ->
              LET header == builder.functions[WordAt(at) + 1]
                  code   == {i \in DOMAIN builder.statements : builder.statements[i].of = k}
              IN /\ header.of = k
                 /\ PushesDef(v) /\ ~IsLiteral(v) => Reads(header.name, v.name)
                 /\ FunctionOf(k).builtin # 0 => header.entry = -FunctionOf(k).builtin
                 /\ FunctionOf(k).builtin = 0 =>
                       code = header.entry + 1 .. header.entry + Cardinality(code)
         [] v.type \in {"field", "vfield"} ->
              \A j \in 1 .. SizeOf(v.type) : WordAt(at + j - 1) = builder.fieldaddr[v.value] + j - 1
         [] OTHER -> WordAt(at) = v.value

HasDef(at, text) == \E d \in ToSet(builder.defs) : d.offset = at /\ Reads(d.name, text)
HasDefs(at, text, type) ==
    /\ HasDef(at, text)
    /\ SizeOf(type) = 3 /\ ~Flag("single_vector_defs") =>
          \A j \in 1 .. 3 : HasDef(at + j - 1, Component(text, j))
NamedInFile(v) == HasWords(v) /\ PushesDef(builder.values[v]) /\ ~IsLiteral(builder.values[v])

FieldWords(j) == Span(builder.fieldaddr[j], SizeOf(program.fields[j].type))
FieldHolds(j) ==
    LET field == program.fields[j]
        at    == codeAddress(builder, FieldGlobal(j))
    IN /\ HasDef(at, IF Flag("gmqcc") THEN <<DOT>> \o field.name ELSE field.name)
       /\ \E f \in ToSet(builder.fields) :
             f.offset = builder.fieldaddr[j] /\ Reads(f.name, field.name)
       /\ {WordAt(at + i - 1) : i \in 1 .. SizeOf(field.type)} = FieldWords(j)
       /\ \A i \in DOMAIN program.fields : i = j \/ FieldWords(i) \cap FieldWords(j) = {}

(* An erasable vector is dropped even if a component of it is read.        *)
Dropped(v) == v.erasable /\ v.users = "parts"

ConstantsHold ==
    Done => /\ \A k \in DOMAIN builder.values :
                  LET v == builder.values[k]
                  IN /\ HasValue(v) /\ v.users # "none" /\ ~Dropped(v) => HoldsValue(k, v)
                     /\ NamedInFile(k) => HasDefs(codeAddress(builder, Value(k)), v.name, v.type)
            /\ \A j \in DOMAIN program.fields : FieldHolds(j)

(* A call's statements, the executor's copies into the callee's locals     *)
(* (Qcvm's Enter, on the header) and the callee's first statements bring   *)
(* each argument into the words of its parameter; for a builtin, into the  *)
(* words of the call.  What is passed is followed by the words it comes    *)
(* from: word a starts as a, what was computed in place as a number < 0.   *)
Computed(p, j) == -(4 * p + j)
Given(k, p, arg, j) ==
    IF InPlace(arg) THEN Computed(p, j) ELSE ArgAddress(builder, k, p, arg, j)
Effect(mem, st) ==
    CASE st.op = "STORE_F" -> [mem EXCEPT ![st.o2] = mem[st.o1]]
      [] st.op = "STORE_V" -> Over([w \in Span(st.o2, 3) |-> mem[st.o1 + w - st.o2]], mem)
      [] st.op = "COMPUTE" -> Over([w \in Span(st.o2, 3) |-> Computed(st.o1, w - st.o2 + 1)], mem)
      [] OTHER -> mem
Effects(mem, k, c) ==
    LET After[n \in 0 .. Len(builder.statements)] ==
          IF n = 0 THEN mem
          ELSE LET st == builder.statements[n]
               IN IF st.of = k /\ st.call = c THEN Effect(After[n - 1], st) ELSE After[n - 1]
    IN After[Len(builder.statements)]
CopyParm(st, q, size) ==
    [mem |-> Over([w \in Span(st.to, size) |-> st.mem[FirstParm + 3 * (q - 1) + w - st.to]], st.mem),
     to  |-> st.to + size]
CopyParms(mem, header) ==
    LET After[q \in 0 .. Len(header.argsize)] ==
          IF q = 0 THEN [mem |-> mem, to |-> header.firstlocal]
          ELSE CopyParm(After[q - 1], q, header.argsize[q])
    IN After[Len(header.argsize)].mem

Arrived(mem, k, c, at) ==
    LET call == FunctionOf(k).calls[c]
    IN \A p \in DOMAIN at : \A j \in 1 .. SizeOf(call.args[p].type) :
          mem[at[p] + j - 1] = Given(k, p, call.args[p], j)

ArgumentsArrive ==
    Done => \A k \in Coded : \A c \in DOMAIN FunctionOf(k).calls :
      LET call   == FunctionOf(k).calls[c]
          callee == FunctionOf(call.callee)
          passed == Effects([w \in 0 .. Len(builder.globals) - 1 |-> w], k, c)
          inside == Effects(CopyParms(passed, Header(call.callee)), call.callee, 0)
          known  == {p \in DOMAIN call.args : p <= Len(callee.params) + callee.varargs}
      IN IF callee.builtin # 0
         THEN Arrived(passed, k, c, [p \in DOMAIN call.args |-> ParmWords(builder, p)])
         ELSE Arrived(inside, k, c, [p \in known |-> codeAddress(builder, Local(call.callee, p))])
=============================================================================
