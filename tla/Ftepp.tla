-------------------------------- MODULE Ftepp --------------------------------
(***************************************************************************)
(* The preprocessor (ftepp.cpp): conditions, macro definitions, includes   *)
(* and the expansion of macros without parameters.  The text is not fixed: *)
(* any directive or macro name may be the next in a file.                  *)
(*                                                                         *)
(* Conditions outlive the file they were opened in: ftepp_preprocess runs  *)
(* on one ftepp_t for every file, included file and expanded macro.        *)
(***************************************************************************)
EXTENDS Integers, Sequences, FiniteSets, SequencesExt

CONSTANTS
    Name,              \* macro names
    MathConstant,      \* names among them that -fftepp-mathdefs predefines
    Body,              \* what a macro may stand for: sequences of names, "0" and "1"
    Expr,              \* expressions of #if, see IfExpr
    Garbage,           \* what an uninitialized double may be
    MathDefs,          \* -fftepp-mathdefs
    MaxConditions, MaxBranches, MaxFiles, MaxLexers   \* bounds of the model

ASSUME FteppAssumption ==
    /\ MathConstant \subseteq Name
    /\ Body \subseteq Seq(Name \cup {"0", "1"})
    /\ Garbage \subseteq Int
    /\ MathDefs \in BOOLEAN
    /\ {MaxConditions, MaxBranches, MaxFiles, MaxLexers} \subseteq Nat

VARIABLES
    conditions,        \* ftepp->conditions
    output_on,
    macros,            \* the name and the output of every macro
    lexers,            \* ftepp->lex and the lexers it came from
    werror,            \* -Werror: warnings stop it; chosen once
    failed,            \* token = TOKEN_ERROR, or errors # 0: it stops
    branches           \* history: the branches of each open #if, TRUE or FALSE

vars == <<conditions, output_on, macros, lexers, werror, failed, branches>>

Condition == [on : BOOLEAN, was_on : BOOLEAN, had_else : BOOLEAN]
File == [kind : {"file"}]
Expansion == [kind : {"macro"}, rest : Seq(Name \cup {"0", "1"})]
TheFile == [kind |-> "file"]
Expanding(body) == [kind |-> "macro", rest |-> body]

Init ==
    /\ conditions = <<>>
    /\ output_on = TRUE
    /\ macros = [n \in {} |-> <<>>]
    /\ lexers = <<TheFile>>
    /\ werror \in BOOLEAN
    /\ failed = FALSE
    /\ branches = <<>>

Without(n) == [m \in DOMAIN macros \ {n} |-> macros[m]]
With(n, body) == [m \in DOMAIN macros \cup {n} |-> IF m = n THEN body ELSE macros[m]]

(* A directive of a file, or a token of an expanded macro, is next.        *)
InFile == ~failed /\ Last(lexers).kind = "file"
InMacro == ~failed /\ Last(lexers).kind = "macro"
Fail == failed' = TRUE /\ UNCHANGED <<conditions, output_on, macros, lexers, werror, branches>>
Above == SubSeq(lexers, 1, Len(lexers) - 1)
-----------------------------------------------------------------------------
(* #if.  An expression is a term and a sequence of operators with a term   *)
(* each, all right-associative and of the same precedence.  A result is    *)
(* what `*out` and `*value_out` hold; `defined` and a macro that is not a  *)
(* number leave the latter as it was: 0 for the whole expression,          *)
(* uninitialized behind an operator.                                       *)
Bool(b) == IF b THEN 1 ELSE 0
Result(out, value) == [out |-> out, value |-> value]
Number(s) == Bool(s = "1")

FirstToken(n, before) ==
    IF n \notin DOMAIN macros \/ macros[n] = <<>> THEN {Result(FALSE, 0)}
    ELSE IF Head(macros[n]) \in {"0", "1"}
    THEN {Result(Head(macros[n]) = "1", Number(Head(macros[n])))}
    ELSE {Result(FALSE, v) : v \in before}

Factor(t, before) ==
    CASE t.k = "number"  -> {Result(t.of = "1", Number(t.of))}
      [] t.k = "defined" -> {Result(t.of \in DOMAIN macros, v) : v \in before}
      [] t.k = "name"    -> FirstToken(t.of, before)

IfValue(t, before) ==
    IF t.not THEN {Result(~r.out, Bool(~r.out)) : r \in Factor(t, before)} ELSE Factor(t, before)

Compare(op, a, b) ==
    LET out == CASE op = "&&" -> a.out /\ b.out
                 [] op = "||" -> a.out \/ b.out
                 [] op = "==" -> a.value = b.value
                 [] op = "!=" -> a.value # b.value
                 [] op = ">"  -> a.value > b.value
                 [] op = "<"  -> a.value < b.value
                 [] op = ">=" -> a.value >= b.value
                 [] op = "<=" -> a.value <= b.value
    IN Result(out, Bool(out))

(* What is behind a term: nothing, or an operator and the results of the   *)
(* rest of the expression.                                                 *)
End == [op |-> "end", results |-> {}]
Combine(results, behind) ==
    IF behind.op = "end" THEN results
    ELSE {Compare(behind.op, a, b) : a \in results, b \in behind.results}
Behind(e, rest) == [op |-> e.op, results |-> Combine(IfValue(e.t, Garbage), rest)]
IfExpr(e) == Combine(IfValue(e.first, {0}), FoldRight(Behind, e.rest, End))
-----------------------------------------------------------------------------
(* ftepp_hash.                                                             *)
Open(cond) ==
    /\ Len(conditions) < MaxConditions
    /\ conditions' = Append(conditions, [on |-> cond, was_on |-> cond, had_else |-> FALSE])
    /\ output_on' = (output_on /\ cond)
    /\ branches' = Append(branches, <<cond>>)
    /\ UNCHANGED <<macros, lexers, werror, failed>>

ElseAllowed == conditions # <<>> /\ ~Last(conditions).had_else
UpdateOutputCondition == output_on' = \A i \in DOMAIN conditions' : conditions'[i].on
(* Mutant: that a branch was taken is forgotten.                            *)
RelevantForgets(pc, cond) == [pc EXCEPT !.on = ~pc.was_on /\ cond]

Relevant(pc, cond) == [pc EXCEPT !.on = ~pc.was_on /\ cond,
                                 !.was_on = pc.was_on \/ (~pc.was_on /\ cond)]
Otherwise(pc) == [pc EXCEPT !.on = ~pc.was_on, !.had_else = TRUE]

(* The last condition becomes pc, and cond is one more branch of it.       *)
Turn(pc, cond) ==
    /\ Len(Last(branches)) < MaxBranches
    /\ conditions' = [conditions EXCEPT ![Len(conditions)] = pc]
    /\ UpdateOutputCondition
    /\ branches' = [branches EXCEPT ![Len(branches)] = Append(@, cond)]
    /\ UNCHANGED <<macros, lexers, werror, failed>>

If(e) == \E cond \in BOOLEAN : (\E r \in IfExpr(e) : r.out = cond) /\ Open(cond)
Ifdef(n) == Open(n \in DOMAIN macros)
Ifndef(n) == Open(n \notin DOMAIN macros)

Elif(e) ==
    /\ ElseAllowed
    /\ \E cond \in BOOLEAN : /\ \E r \in IfExpr(e) : r.out = cond
                             /\ Turn(Relevant(Last(conditions), cond), cond)
Elifdef(n) ==
    ElseAllowed /\ Turn(Relevant(Last(conditions), n \in DOMAIN macros), n \in DOMAIN macros)
Elifndef(n) ==
    ElseAllowed /\ Turn(Relevant(Last(conditions), n \notin DOMAIN macros), n \notin DOMAIN macros)
Else == ElseAllowed /\ Turn(Otherwise(Last(conditions)), TRUE)

Endif ==
    /\ conditions # <<>>
    /\ conditions' = SubSeq(conditions, 1, Len(conditions) - 1)
    /\ UpdateOutputCondition
    /\ branches' = SubSeq(branches, 1, Len(branches) - 1)
    /\ UNCHANGED <<macros, lexers, werror, failed>>

(* #elif, #else or #endif that is out of place                             *)
Misplaced == ~ElseAllowed /\ Fail

(* A directive with bad syntax, one that is unknown, or #error.            *)
Bad(directive) == (output_on \/ directive = "malformed") /\ Fail

(* ftepp_define: a predefined constant gives way, whether output is on or  *)
(* not; every other macro only when it is, and with a warning.             *)
GivesWay(n) == MathDefs /\ n \in MathConstant /\ n \in DOMAIN macros
Redefines(n) == output_on /\ n \in DOMAIN macros /\ ~GivesWay(n)
Define(n, body) ==
    \/ /\ Redefines(n) /\ werror
       /\ Fail
    \/ /\ ~(Redefines(n) /\ werror)
       /\ macros' = IF output_on THEN With(n, body)
                    ELSE IF GivesWay(n) THEN Without(n) ELSE macros
       /\ UNCHANGED <<conditions, output_on, lexers, werror, failed, branches>>

(* Mutant: #undef works where nothing else does.                           *)
UndefAlways(n) ==
    /\ macros' = Without(n)
    /\ UNCHANGED <<conditions, output_on, lexers, werror, failed, branches>>

Undef(n) ==
    /\ macros' = IF output_on THEN Without(n) ELSE macros
    /\ UNCHANGED <<conditions, output_on, lexers, werror, failed, branches>>

Push(lexer, bound) ==
    /\ Len(lexers) < bound
    /\ lexers' = Append(lexers, lexer)
    /\ UNCHANGED <<conditions, output_on, macros, werror, failed, branches>>

(* ftepp_include                                                           *)
Include(found) ==
    /\ output_on
    /\ IF found THEN Push(TheFile, MaxFiles) ELSE Fail

(* Mutant: the lexer of the file of the command line is closed as well.    *)
ReturnAlways ==
    lexers' = Above /\ UNCHANGED <<conditions, output_on, macros, werror, failed, branches>>

(* ftepp_preprocess: the end of a file, or of all tokens of a macro.       *)
Return ==
    /\ Len(lexers) > 1
    /\ lexers' = Above
    /\ UNCHANGED <<conditions, output_on, macros, werror, failed, branches>>

(* ftepp_preprocess_done: the file of the command line has ended, and the  *)
(* next one comes unless a condition is open and the warning is an error.  *)
Dangling == Len(lexers) = 1 /\ conditions # <<>> /\ werror /\ Fail

(* ftepp_macro_call, ftepp_macro_expand                                    *)
Expand(n) == n \in DOMAIN macros /\ macros[n] # <<>> /\ Push(Expanding(macros[n]), MaxLexers)
-----------------------------------------------------------------------------
Directive ==
    \/ \E e \in Expr : If(e) \/ Elif(e)
    \/ \E n \in Name : Ifdef(n) \/ Ifndef(n) \/ Elifdef(n) \/ Elifndef(n) \/ Undef(n)
    \/ \E n \in Name, body \in Body : Define(n, body)
    \/ Else \/ Endif \/ Misplaced
    \/ \E found \in BOOLEAN : Include(found)
    \/ \E directive \in {"malformed", "unknown", "error"} : Bad(directive)

Text == output_on /\ \E n \in Name : Expand(n)

FileStep == InFile /\ (Directive \/ Text \/ Return \/ Dangling)

(* The tokens of a macro are read in its own lexer, one after the other;   *)
(* macros among them are expanded in the same way.                         *)
Rest == Last(lexers).rest
(* Mutant: a macro is expanded before its name is passed.                  *)
NotConsumed == lexers

Consumed == [lexers EXCEPT ![Len(lexers)] = Expanding(Tail(Rest))]
NextToken ==
    /\ Rest # <<>>
    /\ IF output_on /\ Head(Rest) \in DOMAIN macros /\ macros[Head(Rest)] # <<>>
       THEN /\ Len(lexers) < MaxLexers
            /\ lexers' = Append(Consumed, Expanding(macros[Head(Rest)]))
       ELSE lexers' = Consumed
    /\ UNCHANGED <<conditions, output_on, macros, werror, failed, branches>>

MacroStep == InMacro /\ (NextToken \/ (Rest = <<>> /\ Return))

Next == FileStep \/ MacroStep
Spec == Init /\ [][Next]_vars

(* An expansion runs until it ends.                                        *)
FairSpec == Spec /\ WF_vars(MacroStep)
-----------------------------------------------------------------------------
(* Macros stand for one of the bodies, and there is always a lexer to read *)
(* from: the one of the file outlives every include and expansion.         *)
TypeOK ==
    /\ conditions \in Seq(Condition)
    /\ {output_on, werror, failed} \subseteq BOOLEAN
    /\ \E defined \in SUBSET Name : macros \in [defined -> Body]
    /\ lexers \in Seq(File \cup Expansion) /\ lexers # <<>>
    /\ branches \in Seq(Seq(BOOLEAN))

(* In every #if only the first branch with a true condition is output, and *)
(* only if the same holds of every #if around it; `#else` is a branch that *)
(* is true.  The code keeps two flags per #if instead of its branches, and *)
(* computes output_on in two ways.                                         *)
Taken(conds) == conds[Len(conds)] /\ \A j \in 1 .. Len(conds) - 1 : ~conds[j]
FirstTrueBranch == output_on <=> \A i \in DOMAIN branches : Taken(branches[i])

(* Why: on and was_on say of the branches so far whether the last one is   *)
(* taken and whether any is true; after `#else` was_on says that no more.  *)
FlagsExact ==
    /\ Len(branches) = Len(conditions)
    /\ \A i \in DOMAIN conditions :
          /\ branches[i] # <<>>
          /\ conditions[i].on <=> Taken(branches[i])
          /\ conditions[i].had_else
                \/ (conditions[i].was_on <=> \E j \in DOMAIN branches[i] : branches[i][j])
    /\ output_on <=> \A i \in DOMAIN conditions : conditions[i].on

(* What is skipped has no effect on what is not: it changes no macro, runs *)
(* nothing and includes nothing.  (With -fftepp-mathdefs it can change a   *)
(* macro: see GivesWay.)                                                   *)
SkippedHasNoEffect ==
    [][~output_on => macros' = macros /\ Len(lexers') <= Len(lexers)]_vars

(* No macro stands for itself, directly or through others.                 *)
Acyclic ==
    \E rank \in [Name -> 1 .. Cardinality(Name)] :
       \A n \in DOMAIN macros : \A i \in DOMAIN macros[n] :
          macros[n][i] \in DOMAIN macros => rank[macros[n][i]] < rank[n]

(* An expansion comes to its end unless macros stand for one another in a  *)
(* circle: ftepp_macro_expand has no guard against one.                    *)
ExpansionEnds == (InMacro /\ Acyclic) ~> ~InMacro
=============================================================================
