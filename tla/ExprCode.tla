------------------------------ MODULE ExprCode ------------------------------
(***************************************************************************)
(* The code of an expression (ast.cpp: the codegen functions), and what it *)
(* does when it runs.  An operand stays where it is until an instruction   *)
(* reads it: Code answers with the place of the result, and with the       *)
(* machine after the instructions.  A node that is used twice is           *)
(* generated once (m_outr, m_outl).                                        *)
(***************************************************************************)
EXTENDS Expressions, Intrinsics, SequencesExt

CONSTANTS SHORT_LOGIC,    \* -fshort-logic
          Returns(_, _),  \* what a function of the program returns, from its name and arguments
          Sizes           \* array -> its number of elements

(* A machine: memory, the calls that were made, and the results of the     *)
(* nodes that do something.                                                *)
Machine(mem) == [mem |-> mem, calls |-> <<>>, done |-> <<>>]

(* An ir_value: a value, or the place it is read from; a component of it.  *)
Value(type, val) == [type |-> type, at |-> <<>>, part |-> 0, val |-> val]
Place(type, at) == [type |-> type, at |-> at, part |-> 0, val |-> <<>>]
vectorMember(r, k) == [r EXCEPT !.part = k, !.type = "float"]

Read(m, r) == LET whole == IF r.at = <<>> THEN r.val ELSE m.mem[r.at]
              IN IF r.part = 0 THEN whole ELSE whole[r.part]
Write(m, r, val) == [m EXCEPT !.mem[r.at] = IF r.part = 0 THEN val ELSE [@ EXCEPT ![r.part] = val]]

VarAt(name) == <<"var", name, 0>>
FieldAt(ent, field) == <<"field", ent, field>>
ElementAt(array, k) == <<"array", array, k>>

(* FLOAT_IS_TRUE_FOR_INT of the first word.                                *)
TrueWord(type, val) ==
    CASE type = "float" -> NonZero(val) [] type = "vector" -> NonZero(val[1])
      [] type = "string" -> TRUE [] type = "entity" -> val # "world" [] type = "function" -> TRUE

Out(r, m) == [r |-> r, m |-> m]

(* m_outr and m_outl of a node.                                            *)
Key(x, lvalue) == <<ToString(x), lvalue>>
Remember(m, x, lvalue, r) == [m EXCEPT !.done = (Key(x, lvalue) :> r) @@ @]
Recall(m, x, lvalue) == Out(m.done[Key(x, lvalue)], m)
Keep(x, o) == Out(o.r, Remember(o.m, x, FALSE, o.r))

RECURSIVE Code(_, _, _)

(* Operands in their order; each stays a place until all are generated.    *)
CodeAll(args, m) ==
    FoldLeft(LAMBDA o, x : LET next == Code(x, o.m, FALSE)
                           IN Out(Append(o.r, next.r), next.m), Out(<<>>, m), args)
Values(o) == [k \in DOMAIN o.r |-> Read(o.m, o.r[k])]
Load(o) == Out(Value(o.r.type, Read(o.m, o.r)), o.m)

(* ast_unary, ast_binary.                                                  *)
Operation(op, types, vals) ==
    CASE op = "NEG_F" -> Arithmetic("SUB_F", F(0), vals[1])
      [] op = "NEG_V" -> Arithmetic("SUB_V", Zero3, vals[1])
      [] op = "NOT_V" -> Truth(NOT_V(vals[1]))
      [] op = "NOT_S" -> Truth(vals[1] = "")
      [] op \in {"NOT_F", "NOT_ENT", "NOT_FNC"} -> Truth(~TrueWord(types[1], vals[1]))
      [] op = "AND" -> Truth(TrueWord(types[1], vals[1]) /\ TrueWord(types[2], vals[2]))
      [] op = "OR" -> Truth(TrueWord(types[1], vals[1]) \/ TrueWord(types[2], vals[2]))
      [] OTHER -> Instr(op, vals[1], vals[2])
Operate(x, o) == Out(Value(x.type, Operation(x.op, [k \in DOMAIN o.r |-> o.r[k].type], Values(o))), o.m)

(* "short circuit evaluation": the phi takes the left operand or the right *)
(* one, and is cast to 0 or 1.                                             *)
Short(x) == (SHORT_LOGIC \/ PERL_LOGIC) /\ x.op \in {"AND", "OR"}
Cast(type, val) ==
    IF PERL_LOGIC THEN Value(type, val)
    ELSE Value("float", IF CORRECT_LOGIC /\ type = "vector" THEN Truth(~NOT_V(val))
                        ELSE Truth(TrueWord(type, val)))
Merge(o) == Out(Cast(o.r.type, Read(o.m, o.r)), o.m)
ShortLogic(x, left) ==
    IF TrueWord(left.r.type, Read(left.m, left.r)) = (x.op = "AND")
    THEN Merge(Code(x.args[2], left.m, FALSE)) ELSE Merge(left)

(* Only the branch that is taken runs.                                     *)
Choose(x, cond) ==
    Load(Code(x.args[IF TrueWord(cond.r.type, Read(cond.m, cond.r)) THEN 2 ELSE 3], cond.m, FALSE))

(* A field's address is that of the entity at the time.                    *)
EntField(type, o) == Out(Place(type, FieldAt(Read(o.m, o.r[1]), Read(o.m, o.r[2]))), o.m)
CodeEntField(x, m) == EntField(x.type, CodeAll(x.args, m))
Member(x, o) == Out(vectorMember(o.r, x.val), o.m)
CodeMember(x, m, lvalue) == Member(x, Code(x.args[1], m, lvalue \/ x.args[1].n = "entfield"))

(* The tree of comparisons that finds an element (array_getter_node,       *)
(* array_setter_node).                                                     *)
RECURSIVE Search(_, _, _)
Search(index, from, afterend) ==
    LET middle == from + (afterend - from) \div 2
    IN IF from + 1 = afterend THEN from
       ELSE IF Less(index, F(middle)) THEN Search(index, from, middle) ELSE Search(index, middle, afterend)

Computed(x) == x.n = "index" /\ ~IsConst(x.args[2])
Accessed(x, index) == Place(x.type, ElementAt(x.args[1].val, Search(index, 0, Sizes[x.args[1].val])))
Element(x) == Place(x.type, ElementAt(x.args[1].val, ToInt(x.args[2].val)))
CodeIndex(x, m) ==
    IF Computed(x) THEN LET o == CodeAll(<<x.args[2]>>, m) IN Load(Out(Accessed(x, Values(o)[1]), o.m))
                   ELSE Out(Element(x), m)

(* ast_store and ast_binstore: where the value went is the result as an    *)
(* lvalue, what went there is it otherwise.  The destination, or a         *)
(* setter's index, is generated first.                                     *)
Assign(x, left, right, m) ==
    Remember(Remember(Write(m, left, Read(m, right)), x, TRUE, left), x, FALSE, right)
StoreAt(x, left, right) == Assign(x, left.r, right.r, right.m)
StoreTo(x, left) == StoreAt(x, left, Code(x.args[2], left.m, FALSE))
CodeStore(x, m) ==
    IF Computed(x.args[1])
    THEN LET o == CodeAll(<<x.args[1].args[2], x.args[2]>>, m)
         IN Assign(x, Accessed(x.args[1], Values(o)[1]), o.r[2], o.m)
    ELSE StoreTo(x, Code(x.args[1], m, TRUE))

Combined(x, o) == Value(x.type, Instr(x.op, Values(o)[1], Values(o)[2]))
BinStoreTo(x, bin, left) == Assign(x, left.r, bin, left.m)
CodeBinStore(x, m) ==
    IF Computed(x.args[1])
    THEN LET index == Code(x.args[1].args[2], m, FALSE)
             o == CodeAll(x.args, index.m)
         IN Assign(x, Accessed(x.args[1], Read(o.m, index.r)), Combined(x, o), o.m)
    ELSE LET o == CodeAll(x.args, m)
         IN BinStoreTo(x, Combined(x, o), Code(x.args[1], o.m, TRUE))

(* ast_call.                                                               *)
Call(x, vals, m) ==
    IF x.op \in Intrinsics THEN Out(Value(x.type, intrinsic(x.op, vals)), m)
    ELSE Out(Value(x.type, Returns(x.op, vals)), [m EXCEPT !.calls = Append(@, <<x.op, vals>>)])
CodeCall(x, o) == Keep(x, Call(x, Values(o), o.m))

CodeBlock(x, o) == Keep(x, Out(Last(o.r), o.m))

Code(x, m, lvalue) ==
    CASE x.n = "const" -> Out(Value(x.type, x.val), m)
      [] x.n = "var" -> Out(Place(x.type, VarAt(x.val)), m)
      [] x.n = "entfield" -> IF lvalue THEN CodeEntField(x, m) ELSE Load(CodeEntField(x, m))
      [] x.n = "member" -> IF ~lvalue /\ x.args[1].n = "entfield" THEN Load(CodeMember(x, m, lvalue))
                                                                 ELSE CodeMember(x, m, lvalue)
      [] x.n = "index" -> CodeIndex(x, m)
      [] x.n = "unary" -> Operate(x, CodeAll(x.args, m))
      [] x.n = "binary" -> IF Short(x) THEN ShortLogic(x, Code(x.args[1], m, FALSE))
                           ELSE Operate(x, CodeAll(x.args, m))
      [] Key(x, lvalue) \in DOMAIN m.done -> Recall(m, x, lvalue)
      [] x.n = "ternary" -> Keep(x, Choose(x, Code(x.args[1], m, FALSE)))
      [] x.n = "call" -> CodeCall(x, CodeAll(x.args, m))
      [] x.n = "block" -> CodeBlock(x, CodeAll(x.args, m))
      [] x.n = "store" -> Recall(CodeStore(x, m), x, lvalue)
      [] x.n = "binstore" -> Recall(CodeBinStore(x, m), x, lvalue)
-----------------------------------------------------------------------------
(* Where codegen reports an error: what cannot be an lvalue, an index that *)
(* is out of bounds, an array that is no variable.                         *)
RECURSIVE Assignable(_)
Assignable(x) ==
    CASE x.n \in {"var", "entfield"} -> TRUE
      [] x.n = "index" -> ~Computed(x)
      [] x.n = "member" -> x.op # "rvalue" /\ Assignable(x.args[1])
      [] x.n \in {"store", "binstore"} -> ~Computed(x.args[1])
      [] OTHER -> FALSE

RECURSIVE Generated(_)
Generated(x) ==
    /\ \A k \in DOMAIN x.args : Generated(x.args[k])
    /\ x.n \in {"store", "binstore"} => Computed(x.args[1]) \/ Assignable(x.args[1])
    /\ x.n = "index" => /\ x.args[1].n = "var"
                        /\ ~Computed(x) => ToInt(x.args[2].val) \in 0 .. Sizes[x.args[1].val] - 1
=============================================================================
