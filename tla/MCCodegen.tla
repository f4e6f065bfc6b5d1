------------------------------ MODULE MCCodegen ------------------------------
(***************************************************************************)
(* Functions of up to three nested control statements: every frame with    *)
(* every way to leave it, switches with the default case anywhere, gotos   *)
(* in and out of loops, and conditions built from &&, ||, ! and ?:.        *)
(*                                                                         *)
(* A behaviour is about one of these, or about a function that calls       *)
(* itself: the machines of the other are at their end from the start.      *)
(***************************************************************************)
EXTENDS Codegen

CONSTANT Kinds    \* the kinds of recursive functions below that are used, or {}

VARIABLES self, plain, passed, looped

Block(body) == [k |-> "block", body |-> body]
Empty == Block(<<>>)
Expr(x) == [k |-> "expr", x |-> x]
Set(v, x) == [k |-> "set", v |-> v, x |-> x]
If(c, t, f) == [k |-> "if", c |-> c, t |-> t, f |-> f]
While(c, body, name) == [k |-> "while", c |-> c, body |-> body, name |-> name]
Do(c, body, name) == [k |-> "do", c |-> c, body |-> body, name |-> name]
For(init, c, inc, body, name) ==
    [k |-> "for", init |-> init, c |-> c, inc |-> inc, body |-> body, name |-> name]
Switch(x, cases, name) == [k |-> "switch", x |-> x, cases |-> cases, name |-> name]
Break(name) == [k |-> "break", name |-> name]
Continue(name) == [k |-> "continue", name |-> name]
Return == [k |-> "return"]
LabelAt(l) == [k |-> "label", l |-> l]
Goto(l) == [k |-> "goto", l |-> l]

Num(n) == [k |-> "num", n |-> n]
Var(v) == [k |-> "var", v |-> v]
CallOf(n) == [k |-> "call", n |-> n]
Not(x) == [k |-> "not", x |-> x]
And(x, y) == [k |-> "and", x |-> x, y |-> y]
Or(x, y) == [k |-> "or", x |-> x, y |-> y]
Tern(c, x, y) == [k |-> "tern", c |-> c, x |-> x, y |-> y]
Case(v, body) == [v |-> v, code |-> body]

a == Var(1)
Say(n) == Expr(CallOf(n))
When(c, s) == If(c, Block(<<s>>), None)
-----------------------------------------------------------------------------
(* Ways to leave a body, with a name that may be the frame's.              *)
Leaves == {Break(Unnamed), Continue(Unnamed), Break("outer"), Continue("outer"), Return}
Steps == {<<Say(1)>>, <<>>} \cup {<<s>> : s \in Leaves}
         \cup {<<When(a, s), Say(1)>> : s \in Leaves}
         \cup {<<If(Not(a), Block(<<Say(1)>>), Block(<<s>>))>> : s \in Leaves}

Frames(body, name) ==
    { While(a, body, name), While(Not(CallOf(2)), body, name), Do(a, body, name),
      Do(Not(a), body, name), For(None, None, None, body, name),
      For(Say(3), a, Say(4), body, name), For(None, Not(a), Set(1, CallOf(4)), body, name) }

Inner == UNION {Frames(Block(s), Unnamed) : s \in Steps}
Loops == UNION {Frames(Block(<<s, Say(5)>>), "outer") : s \in Inner}

(* Switches in a loop: three cases in any order, each of which ends, falls *)
(* through or leaves the switch, the loop or the function.                 *)
CaseBodies == {<<>>, <<Say(1)>>, <<Say(1), Break(Unnamed)>>, <<Continue("outer")>>,
               <<When(Not(a), Break(Unnamed)), Say(1)>>}
Orders == {<<Num(0), Num(1), Default>>, <<Num(0), Default, Num(1)>>, <<Default, Num(1), Num(0)>>,
           <<Num(1), Num(0)>>, <<Default>>, <<Num(1), Num(1), Default>>}
Cases(values, bodies) ==
    [j \in DOMAIN values |-> Case(values[j], Block(bodies[j]))]
Switches ==
    {While(CallOf(2), Block(<<Switch(x, Cases(o, bodies), Unnamed), Say(5)>>), "outer") :
        x \in {a, CallOf(3)}, o \in Orders,
        bodies \in [1 .. 3 -> CaseBodies]}

(* Labels before, behind and in statements, and gotos to them from before  *)
(* and after.                                                              *)
Jumps == {Goto("L"), When(a, Goto("L")), If(a, Block(<<Goto("L")>>), Block(<<Goto("M")>>)),
          While(a, Block(<<Say(1), Goto("L")>>), "outer"),
          While(a, Block(<<When(CallOf(2), Goto("M")), Say(1)>>), "outer"),
          Switch(a, Cases(<<Num(0), Default>>, << <<Goto("L")>>, <<Goto("M")>> >>), Unnamed)}
Bodies == {<<Say(2), LabelAt("L"), Say(3), LabelAt("M"), Say(4)>>,
           <<LabelAt("M"), LabelAt("L"), Say(4)>>,
           <<LabelAt("L"), While(CallOf(2), Block(<<LabelAt("M"), Say(3)>>), "outer")>>,
           <<Say(2), When(a, Return), LabelAt("L"), Do(CallOf(3), Block(<<LabelAt("M")>>), "outer")>>,
           <<LabelAt("L"), If(CallOf(2), Block(<<Say(3), LabelAt("M"), Say(4)>>), Block(<<Say(5)>>))>>,
           <<LabelAt("M"), Switch(CallOf(2), Cases(<<Num(0), Num(1)>>,
                                     << <<Say(3), LabelAt("L")>>, <<Say(4)>> >>), Unnamed)>>}
Gotos == {Block(b \o <<s>>) : b \in Bodies, s \in Jumps}
         \cup {Block(<<s>> \o b) : b \in Bodies, s \in Jumps}

(* Values: what is evaluated, when and in which order.                     *)
Terms == {a, CallOf(1), Not(a), Not(CallOf(2)), Num(0)}
Pairs == {And(x, y) : x \in Terms, y \in Terms} \cup {Or(x, y) : x \in Terms, y \in Terms}
         \cup {Tern(a, x, y) : x \in Terms, y \in Terms}
Values == Pairs \cup {Not(x) : x \in Pairs}
          \cup {And(x, CallOf(3)) : x \in Pairs} \cup {Or(CallOf(3), x) : x \in Pairs}
          \cup {Tern(x, CallOf(3), a) : x \in Pairs}
          \cup {Tern(Not(x), CallOf(3), a) : x \in Pairs} \cup {Tern(CallOf(3), x, Not(x)) : x \in Pairs}
Expressions == {Set(1, x) : x \in Values} \cup {If(x, Block(<<Say(4)>>), None) : x \in Values}
               \cup {Do(x, Block(<<Say(4)>>), Unnamed) : x \in Pairs}
-----------------------------------------------------------------------------
MCProgram == {Block(<<s, Say(6)>>) : s \in Loops \cup Switches \cup Gotos \cup Expressions}

(* An `if` with nothing in it, before what ends the way it is on.          *)
EmptyIf == If(a, Block(<<>>), None)
MCEmptyIf ==
    { Block(<<If(CallOf(1), Block(<<EmptyIf, LabelAt("L"), Return>>), Block(<<Say(2), Goto("L")>>))>>),
      Block(<<For(None, None, None,
                  Block(<<If(CallOf(1), Block(<<EmptyIf, Break(Unnamed)>>), None), Say(2),
                          When(CallOf(3), Break(Unnamed))>>), Unnamed)>>) }

MCVariable == {1}
MCLabel == {"L", "M"}
-----------------------------------------------------------------------------
(* f(c1, c2, p, q) calls itself while c1 is not 0, with c2 for c1 and 0    *)
(* for c2.  Variable 5 is a local, 6 a global, the rest are temporaries.   *)
Local == 5
Global == 6
FirstTemp == 7
BitOf(n) == Constant(0) + n
Recursion(p, q) == [op |-> "CALL", d |-> FirstTemp, n |-> 0, params |-> <<2, BitOf(0), p, q>>]
Other == [op |-> "CALL", d |-> FirstTemp, n |-> 1, params |-> <<3>>]
Store(d) == [op |-> "STORE", d |-> d, a |-> FirstTemp]
Result(v) == [op |-> "RETURN", a |-> v]
Negate(v, d) == [op |-> "NOT", d |-> d, a |-> v]

(* What follows the call: its result is returned as it is, or stored       *)
(* first, negated, ignored, or not the function's own.                     *)
Direct(call) == {<<call, Result(FirstTemp)>>, <<call, Store(Local), Result(Local)>>,
                 <<call, Result(3)>>, <<call, Store(Local), Result(4)>>,
                 <<call, Store(Global), Result(FirstTemp)>>,
                 <<call, Negate(FirstTemp, FirstTemp + 2), Result(FirstTemp + 2)>>}
Function(body, last) ==
    [params |-> 4, globals |-> {Global},
     ir |-> [NewFunction EXCEPT
               !.code = << <<[op |-> "COND", a |-> 1, yes |-> 2, no |-> 3]>>, body, <<Result(last)>> >>,
               !.final = <<TRUE, TRUE, TRUE>>, !.blocks = <<1, 2, 3>>, !.values = FirstTemp + 2]]

Negated == <<Negate(3, FirstTemp + 1)>>
Arguments == {3, 4, BitOf(1), Global, FirstTemp + 1}
Calls == {Recursion(p, q) : p \in Arguments, q \in Arguments}
Swapped == {Recursion(p, 3) : p \in Arguments \ {3}}
InKind(kind) ==
    CASE kind = "tail" -> {Function(Negated \o body, 3) : body \in UNION {Direct(c) : c \in Calls \ Swapped}}
                          \cup {Function(Negated \o <<c, Result(NoValue)>>, NoValue) : c \in Calls \ Swapped}
                          \cup {Function(Negated \o body, 3) : body \in Direct(Other)}
      [] kind = "swapped" -> {Function(Negated \o <<c, Result(FirstTemp)>>, 3) : c \in Swapped}
      [] kind = "global" -> {Function(Negated \o <<c, Store(Global), Result(Global)>>, 3) : c \in Calls \ Swapped}
MCRecursive == UNION {InKind(kind) : kind \in Kinds}

Tails == INSTANCE TailCalls WITH Variable <- 1 .. Global, Label <- {}, Recursive <- MCRecursive, Bit <- Val

Ended == [at |-> <<3, 1>>, mem |-> [v \in {Global} |-> 0], waiting |-> <<>>, result |-> 0, ended |-> TRUE]
Idle == Function(<<Result(3)>>, 3)
MCInit == \/ Init /\ self = Idle /\ passed = Idle.ir /\ plain = Ended /\ looped = Ended
          \/ Tails!TailInit /\ Start(Empty, <<>>, [v \in Variable |-> 0])
MCNext == \/ Next /\ UNCHANGED <<self, plain, passed, looped>>
          \/ Tails!TailNext /\ UNCHANGED vars
MCSpec == MCInit /\ [][MCNext]_<<vars, self, plain, passed, looped>> /\ WF_vars(Silent)

SameOutcome == Tails!SameOutcome
=============================================================================
