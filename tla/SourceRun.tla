------------------------------ MODULE SourceRun ------------------------------
(***************************************************************************)
(* What the statements of a QuakeC function mean, said without blocks,     *)
(* jumps or registers: a machine whose `work` is what is left to do, first *)
(* things first, and whose `vals` are the results of the expressions that  *)
(* were evaluated and not used yet.  Compiled code is compared with it.    *)
(*                                                                         *)
(* A node of the tree is a record whose k says what it is:                 *)
(*   statements   block(body) expr(x) set(v, x) if(c, t, f) while(c, body) *)
(*                do(c, body) for(init, c, inc, body) switch(x, cases)     *)
(*                break continue label(l) goto(l) return none              *)
(*   expressions  num(n) var(v) call(n) not(x) and(x, y) or(x, y)          *)
(*                tern(c, x, y)                                            *)
(* Loops and switches may carry a name that break and continue can use.    *)
(* call(n) calls the builtin n: it is what the outside sees, and it may    *)
(* change every variable and return anything.                              *)
(***************************************************************************)
EXTENDS Integers, Sequences, SequencesExt

None == [k |-> "none"]
Default == None                      \* the value of the default case
Unnamed == "unnamed"

Item(k, t) == [k |-> k, of |-> t]
Choose(yes, no) == [k |-> "choose", yes |-> yes, no |-> no]
Bool(b) == IF b THEN 1 ELSE 0

IsLoop(t) == t.k \in {"while", "do", "for"}

(* The case a switch starts with: the first with the value, or default.    *)
CaseFor(cases, v) ==
    LET match == {j \in DOMAIN cases : cases[j].v = [k |-> "num", n |-> v]}
        other == {j \in DOMAIN cases : cases[j].v = Default}
        all   == IF match # {} THEN match ELSE other
    IN IF all = {} THEN Len(cases) + 1 ELSE CHOOSE j \in all : \A h \in all : j <= h
CodeFrom(cases, j) == [h \in 1 .. Len(cases) - j + 1 |-> cases[j + h - 1].code]

(* break and continue: what is left once the loop or switch they name is   *)
(* left, or its body is.                                                   *)
RECURSIVE Unwind(_, _, _)
Unwind(work, kinds, name) ==
    IF Head(work).k \in kinds /\ name \in {Unnamed, Head(work).of.name}
    THEN work ELSE Unwind(Tail(work), kinds, name)

(* What is left to do at label l of the statement t, when k is left after  *)
(* t: a sequence of at most one such work.                                 *)
RECURSIVE AtLabel(_, _, _)
AtLabel(l, t, k) ==
    LET Among(body, after) ==
          FlattenSeq([j \in DOMAIN body |->
                        AtLabel(l, body[j], SubSeq(body, j + 1, Len(body)) \o after)])
    IN CASE t.k = "label"  -> IF t.l = l THEN <<k>> ELSE <<>>
         [] t.k = "block"  -> Among(t.body, k)
         [] t.k = "if"     -> AtLabel(l, t.t, k) \o AtLabel(l, t.f, k)
         [] IsLoop(t)      -> AtLabel(l, t.body, <<Item("again", t)>> \o k)
         [] t.k = "switch" -> Among(CodeFrom(t.cases, 1), <<Item("endswitch", t)>> \o k)
         [] OTHER          -> <<>>

(* Behind the body of a loop.                                              *)
Again(t) == CASE t.k = "while" -> <<t>>
              [] t.k = "do"    -> <<t.c, Choose(<<t>>, <<>>)>>
              [] t.k = "for"   -> <<t.inc, Item("test", t)>>

(* What takes the place of the first item of the work; v is the value      *)
(* evaluated last.                                                         *)
Unfold(t, v) ==
    CASE t.k = "block"  -> t.body
      [] t.k = "expr"   -> <<t.x, Item("drop", t)>>
      [] t.k = "set"    -> <<t.x, Item("assign", t)>>
      [] t.k = "if"     -> <<t.c, Choose(<<t.t>>, <<t.f>>)>>
      [] t.k = "while"  -> <<t.c, Choose(<<t.body, Item("again", t)>>, <<>>)>>
      [] t.k = "do"     -> <<t.body, Item("again", t)>>
      [] t.k = "for"    -> <<t.init, Item("test", t)>>
      [] t.k = "test"   -> LET body == <<t.of.body, Item("again", t.of)>>
                           IN IF t.of.c = None THEN body ELSE <<t.of.c, Choose(body, <<>>)>>
      [] t.k = "again"  -> Again(t.of)
      [] t.k = "switch" -> <<t.x, Item("select", t)>>
      [] t.k = "select" -> CodeFrom(t.of.cases, CaseFor(t.of.cases, v))
                               \o <<Item("endswitch", t.of)>>
      [] t.k = "choose" -> IF v # 0 THEN t.yes ELSE t.no
      [] t.k = "not"    -> <<t.x, Item("flip", t)>>
      [] t.k = "and"    -> <<t.x, Choose(<<t.y, Item("bool", t)>>, <<[k |-> "num", n |-> 0]>>)>>
      [] t.k = "or"     -> <<t.x, Choose(<<[k |-> "num", n |-> 1]>>, <<t.y, Item("bool", t)>>)>>
      [] t.k = "tern"   -> <<t.c, Choose(<<t.x>>, <<t.y>>)>>
      [] OTHER          -> <<>>

Left(function, work) ==
    CASE Head(work).k = "break"    -> Tail(Unwind(Tail(work), {"again", "endswitch"}, Head(work).name))
      [] Head(work).k = "continue" -> Unwind(Tail(work), {"again"}, Head(work).name)
      [] Head(work).k = "goto"     -> AtLabel(Head(work).l, function, <<>>)[1]
      [] Head(work).k = "return"   -> <<>>
      [] OTHER                     -> Tail(work)

Uses(t) == t.k \in {"choose", "select", "drop", "assign", "flip", "bool"}
Results(t, v, variables) ==
    CASE t.k = "num"  -> <<t.n>>
      [] t.k = "var"  -> <<variables[t.v]>>
      [] t.k = "flip" -> <<Bool(v = 0)>>
      [] t.k = "bool" -> <<Bool(v # 0)>>
      [] OTHER        -> <<>>

(* One step of the machine m of `function`: [work, vals, variables].       *)
SourceStep(function, m) ==
    LET t    == Head(m.work)
        v    == IF m.vals = <<>> THEN 0 ELSE Last(m.vals)
        used == IF Uses(t) THEN Front(m.vals) ELSE m.vals
    IN [work |-> Unfold(t, v) \o Left(function, m.work),
        vals |-> used \o Results(t, v, m.variables),
        variables |-> IF t.k = "assign" THEN [m.variables EXCEPT ![t.of.v] = v]
                                        ELSE m.variables]

SourceEnded(m) == m.work = <<>>
SourceCalls(m) == ~SourceEnded(m) /\ Head(m.work).k = "call"
SourceStops(m) == SourceEnded(m) \/ SourceCalls(m)
AfterCall(m, result, variables) ==
    [work |-> Tail(m.work), vals |-> Append(m.vals, result), variables |-> variables]
=============================================================================
