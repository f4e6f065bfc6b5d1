------------------------------- MODULE Parser -------------------------------
(***************************************************************************)
(* What parser.cpp makes of the control statements: conditions lose their  *)
(* `!`, loops of every kind become one node, and break and continue count  *)
(* the loops they leave on the stacks `breaks` and `continues`.            *)
(***************************************************************************)
EXTENDS SourceRun

(* process_condition strips every `!` and swaps the branches instead.      *)
RECURSIVE Stripped(_, _)
Stripped(x, ifnot) == IF x.k = "not" THEN Stripped(x.x, ~ifnot) ELSE [x |-> x, not |-> ifnot]
ProcessCondition(x) == Stripped(x, FALSE)

IfThen(c, ontrue, onfalse) ==
    LET cond == ProcessCondition(c)
    IN IF cond.not THEN [k |-> "ifthen", c |-> cond.x, t |-> onfalse, f |-> ontrue]
                   ELSE [k |-> "ifthen", c |-> cond.x, t |-> ontrue, f |-> onfalse]

Loop(init, pre, post, inc, body) ==
    LET Test(c) == IF c = None THEN [x |-> None, not |-> FALSE] ELSE ProcessCondition(c)
    IN [k |-> "loop", init |-> init, pre |-> Test(pre).x, pre_not |-> Test(pre).not,
        post |-> Test(post).x, post_not |-> Test(post).not, inc |-> inc, body |-> body]

(* parse_while_go, parse_dowhile_go and parse_for_go                        *)
WhileLoop(t, body) == Loop(None, t.c, None, None, body)
DoLoop(t, body) == Loop(None, None, t.c, None, body)
ForLoop(t, body) == Loop(t.init, t.c, None, t.inc, body)

(* parse_break_continue: how many entries of the stack to go down.         *)
Levels(names, name) ==
    IF name = Unnamed THEN 0
    ELSE Len(names) - SelectLastInSeq(names, LAMBDA n : n = name)

BreakCont(is_continue, names, name) ==
    [k |-> "breakcont", is_continue |-> is_continue, levels |-> Levels(names, name)]

(* parse_switch_go                                                         *)
SwitchOf(t, codes) ==
    [t EXCEPT !.cases = [j \in DOMAIN @ |-> [v |-> @[j].v, code |-> codes[j]]]]

(* Every branch and body is wrapped in an ast_block: a body is a block     *)
(* here already.  A switch can be left but not continued.                  *)
RECURSIVE ParseStatement(_, _, _)
ParseStatement(t, breaks, continues) ==
    LET Inner(u) == ParseStatement(u, breaks, continues)
        Body == ParseStatement(t.body, Append(breaks, t.name), Append(continues, t.name))
        Codes == [j \in DOMAIN t.cases |->
                     ParseStatement(t.cases[j].code, Append(breaks, t.name), continues)]
    IN CASE t.k = "block"    -> [t EXCEPT !.body = [j \in DOMAIN @ |-> Inner(@[j])]]
         [] t.k = "if"       -> IfThen(t.c, Inner(t.t), Inner(t.f))
         [] t.k = "while"    -> WhileLoop(t, Body)
         [] t.k = "do"       -> DoLoop(t, Body)
         [] t.k = "for"      -> ForLoop(t, Body)
         [] t.k = "switch"   -> SwitchOf(t, Codes)
         [] t.k = "break"    -> BreakCont(FALSE, breaks, t.name)
         [] t.k = "continue" -> BreakCont(TRUE, continues, t.name)
         [] OTHER            -> t
=============================================================================
