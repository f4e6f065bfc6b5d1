----------------------------- MODULE FteppProofs -----------------------------
(***************************************************************************)
(* Proofs about the preprocessor, for any names, bodies, expressions and   *)
(* depths: the flags of the conditions say what their branches say, and    *)
(* what is skipped changes no macro.                                       *)
(***************************************************************************)
EXTENDS Ftepp, SequenceTheorems, TLAPS

IInv == TypeOK /\ FlagsExact

Tokens == Seq(Name \cup {"0", "1"})
Lexers == Seq(File \cup Expansion)

(* Replacing the last element of a sequence, and taking it away.           *)
LEMMA ReplaceLast ==
    ASSUME NEW S, NEW s \in Seq(S), s # <<>>, NEW e \in S
    PROVE  /\ [s EXCEPT ![Len(s)] = e] \in Seq(S)
           /\ Len([s EXCEPT ![Len(s)] = e]) = Len(s)
           /\ [s EXCEPT ![Len(s)] = e][Len(s)] = e
           /\ \A i \in 1 .. Len(s) - 1 : [s EXCEPT ![Len(s)] = e][i] = s[i]
  <1>1. Len(s) \in 1 .. Len(s)
    BY EmptySeq
  <1> QED BY <1>1, ExceptSeq

LEMMA DropLast ==
    ASSUME NEW S, NEW s \in Seq(S), s # <<>>
    PROVE  /\ SubSeq(s, 1, Len(s) - 1) \in Seq(S)
           /\ Len(SubSeq(s, 1, Len(s) - 1)) = Len(s) - 1
           /\ \A i \in 1 .. Len(s) - 1 : SubSeq(s, 1, Len(s) - 1)[i] = s[i]
  <1>1. Len(s) \in Nat \ {0}
    BY EmptySeq
  <1>2. \A i \in 1 .. Len(s) - 1 : s[i] \in S
    BY <1>1, ElementOfSeq
  <1>3. Len(s) - 1 \in Int
    BY <1>1
  <1> DEFINE t == SubSeq(s, 1, Len(s) - 1)
  <1> DEFINE m == Len(s) - 1
  <1>4. /\ t \in Seq(S)
        /\ Len(t) = IF 1 <= m THEN m - 1 + 1 ELSE 0
        /\ \A i \in 1 .. m - 1 + 1 : t[i] = s[1 + i - 1]
    BY <1>2, <1>3, SubSeqProperties
  <1>5. m \in Nat
    BY <1>1
  <1> HIDE DEF t, m
  <1>6. Len(t) = m
    BY <1>4, <1>5
  <1>7. \A i \in 1 .. m : t[i] = s[i]
    BY <1>4, <1>5
  <1> QED BY <1>4, <1>6, <1>7 DEF t, m

(* One more branch is taken if it is true and no branch before it was.     *)
LEMMA OneMore ==
    ASSUME NEW g \in Seq(BOOLEAN), NEW c \in BOOLEAN
    PROVE  /\ Append(g, c) \in Seq(BOOLEAN) /\ Append(g, c) # <<>>
           /\ Taken(Append(g, c)) <=> c /\ ~(\E j \in DOMAIN g : g[j])
           /\ (\E j \in DOMAIN Append(g, c) : Append(g, c)[j])
                 <=> c \/ (\E j \in DOMAIN g : g[j])
  <1> DEFINE h == Append(g, c)
  <1>1. h \in Seq(BOOLEAN) /\ Len(h) = Len(g) + 1 /\ h[Len(g) + 1] = c
    OBVIOUS
  <1>2. \A j \in 1 .. Len(g) : h[j] = g[j]
    OBVIOUS
  <1>3. DOMAIN g = 1 .. Len(g) /\ DOMAIN h = 1 .. Len(g) + 1 /\ Len(g) \in Nat
    BY <1>1
  <1>4. Taken(h) <=> c /\ ~(\E j \in DOMAIN g : g[j])
    BY <1>1, <1>2, <1>3 DEF Taken
  <1>5. (\E j \in DOMAIN h : h[j]) <=> c \/ (\E j \in DOMAIN g : g[j])
    BY <1>1, <1>2, <1>3
  <1>6. h # <<>>
    BY <1>1, <1>3
  <1> QED BY <1>1, <1>4, <1>5, <1>6
-----------------------------------------------------------------------------
(* #if, #ifdef, #ifndef                                                    *)
LEMMA OpenKeeps ==
    ASSUME IInv, NEW c \in BOOLEAN, Open(c)
    PROVE  IInv'
  <1> USE DEF IInv, FlagsExact
  <1> DEFINE new == [on |-> c, was_on |-> c, had_else |-> FALSE]
  <1>1. /\ conditions \in Seq(Condition) /\ branches \in Seq(Seq(BOOLEAN))
        /\ new \in Condition /\ <<c>> \in Seq(BOOLEAN)
        /\ output_on \in BOOLEAN
    BY DEF TypeOK, Condition
  <1>2. /\ conditions' = Append(conditions, new) /\ branches' = Append(branches, <<c>>)
        /\ output_on' = (output_on /\ c)
        /\ UNCHANGED <<macros, lexers, werror, failed>>
    BY DEF Open
  <1>3. /\ conditions' \in Seq(Condition) /\ branches' \in Seq(Seq(BOOLEAN))
        /\ Len(conditions') = Len(conditions) + 1 /\ Len(branches') = Len(branches) + 1
        /\ conditions'[Len(conditions) + 1] = new /\ branches'[Len(branches) + 1] = <<c>>
        /\ \A i \in 1 .. Len(conditions) : conditions'[i] = conditions[i]
        /\ \A i \in 1 .. Len(branches) : branches'[i] = branches[i]
    BY <1>1, <1>2
  <1>4. TypeOK'
    BY <1>1, <1>2, <1>3 DEF TypeOK
  <1>5. /\ <<c>> # <<>> /\ (Taken(<<c>>) <=> c)
        /\ (\E j \in DOMAIN <<c>> : <<c>>[j]) <=> c
    BY DEF Taken
  <1>6. Len(branches) = Len(conditions) /\ Len(conditions) \in Nat
    BY <1>1
  <1>7. DOMAIN conditions = 1 .. Len(conditions) /\ DOMAIN conditions' = 1 .. Len(conditions) + 1
    BY <1>1, <1>3
  <1>8. ASSUME NEW i \in DOMAIN conditions'
        PROVE  /\ branches'[i] # <<>>
               /\ conditions'[i].on <=> Taken(branches'[i])
               /\ conditions'[i].had_else
                    \/ (conditions'[i].was_on <=> \E j \in DOMAIN branches'[i] : branches'[i][j])
    <2>1. CASE i \in 1 .. Len(conditions)
      BY <2>1, <1>3, <1>6, <1>7
    <2>2. CASE i = Len(conditions) + 1
      <3>1. conditions'[i] = new /\ branches'[i] = <<c>>
        BY <2>2, <1>3, <1>6
      <3> HIDE DEF FlagsExact
      <3> QED BY <3>1, <1>5
    <2> QED BY <2>1, <2>2, <1>6, <1>7
  <1>9. output_on' <=> \A i \in DOMAIN conditions' : conditions'[i].on
    <2>1. conditions'[Len(conditions) + 1].on <=> c
      BY <1>3
    <2>2. \A i \in 1 .. Len(conditions) : conditions'[i].on <=> conditions[i].on
      BY <1>3
    <2>3. output_on <=> \A i \in 1 .. Len(conditions) : conditions[i].on
      BY <1>7
    <2>4. output_on' <=> output_on /\ c
      BY <1>2
    <2>5. \A i \in 1 .. Len(conditions) + 1 : i \in 1 .. Len(conditions) \/ i = Len(conditions) + 1
      BY <1>6
    <2>6. 1 .. Len(conditions) \subseteq 1 .. Len(conditions) + 1
           /\ Len(conditions) + 1 \in 1 .. Len(conditions) + 1
      BY <1>6
    <2> HIDE DEF FlagsExact, IInv
    <2> QED BY <2>1, <2>2, <2>3, <2>4, <2>5, <2>6, <1>7
  <1> QED BY <1>3, <1>4, <1>6, <1>8, <1>9

(* #elif and #else: pc is what the last condition becomes.                 *)
LEMMA TurnKeeps ==
    ASSUME IInv, ElseAllowed, NEW pc \in Condition, NEW c \in BOOLEAN, Turn(pc, c),
           pc.on <=> c /\ ~Last(conditions).was_on,
           pc.had_else \/ (pc.was_on <=> c \/ Last(conditions).was_on)
    PROVE  IInv'
  <1> USE DEF IInv, FlagsExact
  <1> DEFINE n == Len(conditions)
  <1>1. /\ conditions \in Seq(Condition) /\ branches \in Seq(Seq(BOOLEAN)) /\ conditions # <<>>
        /\ Len(branches) = n /\ n \in Nat \ {0} /\ branches # <<>>
    BY EmptySeq DEF TypeOK, ElseAllowed
  <1>2. /\ conditions' = [conditions EXCEPT ![n] = pc]
        /\ branches' = [branches EXCEPT ![n] = Append(branches[n], c)]
        /\ output_on' = \A i \in DOMAIN conditions' : conditions'[i].on
        /\ UNCHANGED <<macros, lexers, werror, failed>>
    BY <1>1 DEF Turn, UpdateOutputCondition
  <1>3. branches[n] \in Seq(BOOLEAN) /\ Append(branches[n], c) \in Seq(BOOLEAN)
    BY <1>1, ElementOfSeq
  <1>4. /\ conditions' \in Seq(Condition) /\ Len(conditions') = n /\ conditions'[n] = pc
        /\ \A i \in 1 .. n - 1 : conditions'[i] = conditions[i]
    BY <1>1, <1>2, ReplaceLast
  <1>5. /\ branches' \in Seq(Seq(BOOLEAN)) /\ Len(branches') = n
        /\ branches'[n] = Append(branches[n], c)
        /\ \A i \in 1 .. n - 1 : branches'[i] = branches[i]
    BY <1>1, <1>2, <1>3, ReplaceLast
  <1>6. DOMAIN conditions = 1 .. n /\ DOMAIN conditions' = 1 .. n
    BY <1>1, <1>4
  <1>7. output_on' \in BOOLEAN
    BY <1>2
  <1>8. TypeOK'
    BY <1>2, <1>4, <1>5, <1>7 DEF TypeOK
  <1>9. conditions[n].was_on <=> \E j \in DOMAIN branches[n] : branches[n][j]
    BY <1>1, <1>6 DEF ElseAllowed, Last
  <1>10. Last(conditions) = conditions[n]
    BY DEF Last
  <1>11. ASSUME NEW i \in DOMAIN conditions'
         PROVE  /\ branches'[i] # <<>>
                /\ conditions'[i].on <=> Taken(branches'[i])
                /\ conditions'[i].had_else
                     \/ (conditions'[i].was_on <=> \E j \in DOMAIN branches'[i] : branches'[i][j])
    <2>1. CASE i \in 1 .. n - 1
      BY <2>1, <1>4, <1>5, <1>6, <1>1
    <2>2. CASE i = n
      <3>1. conditions'[i] = pc /\ branches'[i] = Append(branches[n], c)
        BY <2>2, <1>4, <1>5
      <3> HIDE DEF IInv, FlagsExact
      <3>2. /\ branches'[i] # <<>>
            /\ Taken(branches'[i]) <=> c /\ ~(\E j \in DOMAIN branches[n] : branches[n][j])
            /\ (\E j \in DOMAIN branches'[i] : branches'[i][j])
                  <=> c \/ (\E j \in DOMAIN branches[n] : branches[n][j])
        <4>1. LET h == Append(branches[n], c)
              IN /\ h # <<>>
                 /\ Taken(h) <=> c /\ ~(\E j \in DOMAIN branches[n] : branches[n][j])
                 /\ (\E j \in DOMAIN h : h[j]) <=> c \/ (\E j \in DOMAIN branches[n] : branches[n][j])
          BY <1>3, OneMore, Zenon
        <4> QED BY <3>1, <4>1, Zenon
      <3>3. Last(conditions).was_on <=> (\E j \in DOMAIN branches[n] : branches[n][j])
        BY <1>9, <1>10
      <3> QED BY <3>1, <3>2, <3>3, Zenon
    <2> QED BY <2>1, <2>2, <1>1, <1>6
  <1> QED BY <1>2, <1>4, <1>5, <1>8, <1>11

LEMMA EndifKeeps ==
    ASSUME IInv, Endif
    PROVE  IInv'
  <1> USE DEF IInv, FlagsExact
  <1> DEFINE n == Len(conditions)
  <1>1. /\ conditions \in Seq(Condition) /\ branches \in Seq(Seq(BOOLEAN)) /\ conditions # <<>>
        /\ Len(branches) = n /\ n \in Nat \ {0} /\ branches # <<>>
    BY EmptySeq DEF TypeOK, Endif
  <1>2. /\ conditions' = SubSeq(conditions, 1, n - 1) /\ branches' = SubSeq(branches, 1, n - 1)
        /\ output_on' = \A i \in DOMAIN conditions' : conditions'[i].on
        /\ UNCHANGED <<macros, lexers, werror, failed>>
    BY <1>1 DEF Endif, UpdateOutputCondition
  <1>3. /\ conditions' \in Seq(Condition) /\ Len(conditions') = n - 1
        /\ \A i \in 1 .. n - 1 : conditions'[i] = conditions[i]
    BY <1>1, <1>2, DropLast
  <1>4. /\ branches' \in Seq(Seq(BOOLEAN)) /\ Len(branches') = n - 1
        /\ \A i \in 1 .. n - 1 : branches'[i] = branches[i]
    BY <1>1, <1>2, DropLast
  <1>5. DOMAIN conditions = 1 .. n /\ DOMAIN conditions' = 1 .. n - 1
    BY <1>1, <1>3
  <1>6. TypeOK'
    BY <1>2, <1>3, <1>4 DEF TypeOK
  <1> QED BY <1>1, <1>2, <1>3, <1>4, <1>5, <1>6, SMTT(30)
-----------------------------------------------------------------------------
(* What touches no condition.                                              *)
LEMMA OthersKeep ==
    ASSUME FlagsExact, UNCHANGED <<conditions, output_on, branches>>
    PROVE  FlagsExact'
  BY DEF FlagsExact, Taken

LEMMA DefineKeeps ==
    ASSUME IInv, NEW n \in Name, NEW body \in Body, Define(n, body)
    PROVE  IInv'
  <1>1. PICK D \in SUBSET Name : macros \in [D -> Body]
    BY DEF IInv, TypeOK
  <1>2. With(n, body) \in [D \cup {n} -> Body] /\ Without(n) \in [D \ {n} -> Body]
    BY <1>1 DEF With, Without
  <1>3. /\ macros' \in {macros, With(n, body), Without(n)}
        /\ UNCHANGED <<conditions, output_on, lexers, werror, branches>>
        /\ failed' \in {failed, TRUE}
    BY DEF Define, Fail
  <1>4. \E E \in SUBSET Name : macros' \in [E -> Body]
    BY <1>1, <1>2, <1>3
  <1> QED BY <1>3, <1>4, OthersKeep DEF IInv, TypeOK

LEMMA FailKeeps ==
    ASSUME IInv, Fail
    PROVE  IInv'
  BY OthersKeep DEF IInv, TypeOK, Fail

LEMMA LexersKeep ==
    ASSUME IInv, UNCHANGED <<conditions, output_on, macros, werror, failed, branches>>,
           lexers' \in Lexers, lexers' # <<>>
    PROVE  IInv'
  BY OthersKeep DEF IInv, TypeOK, Lexers

LEMMA PushKeeps ==
    ASSUME IInv, NEW bound, NEW lexer \in File \cup Expansion, Push(lexer, bound)
    PROVE  IInv'
  <1>1. lexers' \in Lexers /\ lexers' # <<>>
    BY DEF IInv, TypeOK, Push, Lexers
  <1> QED BY <1>1, LexersKeep DEF Push

LEMMA ExpandingType ==
    ASSUME NEW body \in Tokens
    PROVE  Expanding(body) \in Expansion
  BY DEF Expanding, Expansion, Tokens

LEMMA MacroType ==
    ASSUME TypeOK, NEW n \in DOMAIN macros
    PROVE  macros[n] \in Tokens
  BY FteppAssumption DEF TypeOK, FteppAssumption, Tokens

LEMMA ReturnKeeps ==
    ASSUME IInv, Return
    PROVE  IInv'
  <1>1. lexers \in Lexers /\ Len(lexers) > 1 /\ lexers # <<>>
    BY DEF IInv, TypeOK, Return, Lexers
  <1>2. Above \in Lexers /\ Len(Above) = Len(lexers) - 1
    BY <1>1, DropLast DEF Above, Lexers
  <1>3. Above # <<>>
    BY <1>1, <1>2
  <1> QED BY <1>2, <1>3, LexersKeep DEF Return

LEMMA NextTokenKeeps ==
    ASSUME IInv, InMacro, NextToken
    PROVE  IInv'
  <1>1. lexers \in Lexers /\ lexers # <<>> /\ Len(lexers) \in Nat \ {0}
    BY EmptySeq DEF IInv, TypeOK, Lexers
  <1>2. Last(lexers) \in Expansion
    <2>1. Last(lexers) \in File \cup Expansion
      BY <1>1 DEF Last, Lexers
    <2> QED BY <2>1 DEF InMacro, File
  <1>3. Rest \in Tokens /\ Rest # <<>>
    BY <1>2 DEF Rest, Expansion, Tokens, NextToken
  <1>4. Expanding(Tail(Rest)) \in File \cup Expansion
    BY <1>3, ExpandingType, HeadTailProperties DEF Tokens
  <1>5. Consumed \in Lexers /\ Consumed # <<>>
    <2>1. Consumed \in Lexers /\ Len(Consumed) = Len(lexers)
      BY <1>1, <1>4, ReplaceLast DEF Consumed, Lexers
    <2> QED BY <2>1, <1>1
  <1>6. lexers' \in Lexers /\ lexers' # <<>>
    <2>1. CASE lexers' = Consumed
      BY <2>1, <1>5
    <2>2. CASE /\ Head(Rest) \in DOMAIN macros
               /\ lexers' = Append(Consumed, Expanding(macros[Head(Rest)]))
      <3>1. Expanding(macros[Head(Rest)]) \in File \cup Expansion
        BY <2>2, MacroType, ExpandingType DEF IInv
      <3> QED BY <2>2, <3>1, <1>5 DEF Lexers
    <2> QED BY <2>1, <2>2 DEF NextToken
  <1> QED BY <1>6, LexersKeep DEF NextToken
-----------------------------------------------------------------------------
(* The inductive invariant: every directive keeps the flags of all open    *)
(* conditions in agreement with their branches.                            *)
THEOREM TypeAndFlags == Spec => []IInv
  <1>1. Init => IInv
    <2> SUFFICES ASSUME Init PROVE IInv
      OBVIOUS
    <2>1. macros \in [{} -> Body] /\ <<TheFile>> \in Seq(File \cup Expansion)
      BY DEF Init, TheFile, File
    <2>2. <<>> \in Seq(Condition) /\ <<>> \in Seq(Seq(BOOLEAN)) /\ <<TheFile>> # <<>>
      OBVIOUS
    <2>3. \E defined \in SUBSET Name : macros \in [defined -> Body]
      BY <2>1
    <2>4. TypeOK
      BY <2>1, <2>2, <2>3 DEF Init, TypeOK
    <2> QED BY <2>4 DEF Init, IInv, FlagsExact
  <1>2. IInv /\ [Next]_vars => IInv'
    <2> SUFFICES ASSUME IInv, [Next]_vars PROVE IInv'
      OBVIOUS
    <2>1. ASSUME NEW e \in Expr, If(e) PROVE IInv'
      BY <2>1, OpenKeeps DEF If
    <2>2. ASSUME NEW n \in Name, Ifdef(n) \/ Ifndef(n) PROVE IInv'
      <3>1. (n \in DOMAIN macros) \in BOOLEAN /\ (n \notin DOMAIN macros) \in BOOLEAN
        OBVIOUS
      <3>2. CASE Ifdef(n)
        BY <3>1, <3>2, OpenKeeps DEF Ifdef
      <3>3. CASE Ifndef(n)
        BY <3>1, <3>3, OpenKeeps DEF Ifndef
      <3> QED BY <2>2, <3>2, <3>3
    <2>3. ASSUME NEW c \in BOOLEAN, ElseAllowed, Turn(Relevant(Last(conditions), c), c)
          PROVE  IInv'
      <3>1. Last(conditions) \in Condition
        BY <2>3, EmptySeq DEF IInv, TypeOK, ElseAllowed, Last
      <3>2. /\ Relevant(Last(conditions), c) \in Condition
            /\ Relevant(Last(conditions), c).on <=> c /\ ~Last(conditions).was_on
            /\ Relevant(Last(conditions), c).was_on <=> c \/ Last(conditions).was_on
        BY <3>1 DEF Relevant, Condition
      <3> QED BY <2>3, <3>2, TurnKeeps
    <2>4. ASSUME NEW e \in Expr, Elif(e) PROVE IInv'
      BY <2>4, <2>3 DEF Elif
    <2>5. ASSUME NEW n \in Name, Elifdef(n) \/ Elifndef(n) PROVE IInv'
      <3>1. (n \in DOMAIN macros) \in BOOLEAN /\ (n \notin DOMAIN macros) \in BOOLEAN
        OBVIOUS
      <3>2. CASE Elifdef(n)
        BY <3>1, <3>2, <2>3 DEF Elifdef
      <3>3. CASE Elifndef(n)
        BY <3>1, <3>3, <2>3 DEF Elifndef
      <3> QED BY <2>5, <3>2, <3>3
    <2>6. CASE Else
      <3>1. Last(conditions) \in Condition
        BY <2>6, EmptySeq DEF IInv, TypeOK, Else, ElseAllowed, Last
      <3>2. /\ Otherwise(Last(conditions)) \in Condition
            /\ Otherwise(Last(conditions)).on <=> ~Last(conditions).was_on
            /\ Otherwise(Last(conditions)).had_else
        BY <3>1 DEF Otherwise, Condition
      <3> QED BY <2>6, <3>2, TurnKeeps DEF Else
    <2>7. CASE Endif
      BY <2>7, EndifKeeps
    <2>8. ASSUME NEW n \in Name, NEW body \in Body, Define(n, body) PROVE IInv'
      BY <2>8, DefineKeeps
    <2>9. ASSUME NEW n \in Name, Undef(n) PROVE IInv'
      <3>1. macros' \in {macros, Without(n)}
        BY <2>9 DEF Undef
      <3>2. PICK D \in SUBSET Name : macros \in [D -> Body]
        BY DEF IInv, TypeOK
      <3>3. \E E \in SUBSET Name : macros' \in [E -> Body]
        BY <3>1, <3>2 DEF Without
      <3> QED BY <2>9, <3>3, OthersKeep DEF Undef, IInv, TypeOK
    <2>10. CASE Fail
      BY <2>10, FailKeeps
    <2>11. ASSUME NEW found \in BOOLEAN, Include(found) PROVE IInv'
      <3>1. TheFile \in File \cup Expansion
        BY DEF TheFile, File
      <3> QED BY <2>11, <3>1, PushKeeps, FailKeeps DEF Include
    <2>12. ASSUME NEW n \in Name, Expand(n) PROVE IInv'
      <3>1. Expanding(macros[n]) \in File \cup Expansion
        BY <2>12, MacroType, ExpandingType DEF IInv, Expand
      <3> QED BY <2>12, <3>1, PushKeeps DEF Expand
    <2>13. CASE Return
      BY <2>13, ReturnKeeps
    <2>14. CASE InMacro /\ NextToken
      BY <2>14, NextTokenKeeps
    <2>15. CASE UNCHANGED vars
      BY <2>15, OthersKeep DEF IInv, TypeOK, vars
    <2>16. CASE Directive
      BY <2>16, <2>1, <2>2, <2>4, <2>5, <2>6, <2>7, <2>8, <2>9, <2>10, <2>11
         DEF Directive, Misplaced, Bad
    <2>17. CASE Text
      BY <2>17, <2>12 DEF Text
    <2> QED BY <2>10, <2>13, <2>14, <2>15, <2>16, <2>17
            DEF Next, FileStep, MacroStep, Dangling
  <1> QED BY <1>1, <1>2, PTL DEF Spec

(* The type invariant, for every instance.                                 *)
THEOREM TypeCorrect == Spec => []TypeOK
  BY TypeAndFlags, PTL DEF IInv

(* The flags of every condition say of its branches what ftepp_hash reads  *)
(* them for.                                                               *)
THEOREM FlagsAreExact == Spec => []FlagsExact
  BY TypeAndFlags, PTL DEF IInv

(* Output is on exactly where every #if is in its first true branch.       *)
THEOREM OnlyFirstTrueBranch == Spec => []FirstTrueBranch
  <1>1. IInv => FirstTrueBranch
    <2> SUFFICES ASSUME IInv PROVE FirstTrueBranch
      OBVIOUS
    <2>1. DOMAIN conditions = DOMAIN branches
      BY DEF IInv, TypeOK, FlagsExact
    <2> QED BY <2>1 DEF IInv, FlagsExact, FirstTrueBranch
  <1> QED BY <1>1, TypeAndFlags, PTL

(* A skipped part defines and undefines nothing, expands nothing and       *)
(* includes nothing, if there are no predefined constants to give way.     *)
THEOREM SkippedIsInert ==
    ASSUME ~MathDefs
    PROVE  Spec => SkippedHasNoEffect
  <1> DEFINE Inert == ~output_on => macros' = macros /\ Len(lexers') <= Len(lexers)
  <1>1. ASSUME IInv, [Next]_vars PROVE [Inert]_vars
    <2> SUFFICES ASSUME ~output_on, ~(UNCHANGED vars)
                 PROVE  macros' = macros /\ Len(lexers') <= Len(lexers)
      OBVIOUS
    <2>1. lexers \in Lexers /\ lexers # <<>> /\ Len(lexers) \in Nat \ {0}
      BY <1>1, EmptySeq DEF IInv, TypeOK, Lexers
    <2>2. CASE UNCHANGED <<macros, lexers>>
      BY <2>1, <2>2
    <2>3. CASE Return
      <3>1. Len(Above) = Len(lexers) - 1
        BY <2>1, DropLast DEF Above, Lexers
      <3> QED BY <2>1, <2>3, <3>1 DEF Return
    <2>4. CASE InMacro /\ NextToken
      <3>1. Last(lexers) \in Expansion
        <4>1. Last(lexers) \in File \cup Expansion
          BY <2>1 DEF Last, Lexers
        <4> QED BY <2>4, <4>1 DEF InMacro, File
      <3>2. Rest \in Tokens /\ Rest # <<>>
        BY <2>4, <3>1 DEF Rest, Expansion, Tokens, NextToken
      <3>3. Expanding(Tail(Rest)) \in File \cup Expansion
        BY <3>2, ExpandingType, HeadTailProperties DEF Tokens
      <3>4. Len(Consumed) = Len(lexers)
        BY <2>1, <3>3, ReplaceLast DEF Consumed, Lexers
      <3> QED BY <2>1, <2>4, <3>4 DEF NextToken
    <2>5. CASE Directive
      <3>1. ASSUME NEW n \in Name, NEW body \in Body, Define(n, body)
            PROVE  UNCHANGED <<macros, lexers>>
        BY <3>1 DEF Define, GivesWay, Fail
      <3> QED BY <2>2, <2>5, <3>1
              DEF Directive, If, Elif, Ifdef, Ifndef, Elifdef, Elifndef, Else, Open, Turn,
                  Endif, Misplaced, Include, Bad, Undef, Fail
    <2>6. CASE Fail
      BY <2>2, <2>6 DEF Fail
    <2> QED BY <1>1, <2>3, <2>4, <2>5, <2>6
            DEF Next, FileStep, MacroStep, Dangling, Text
  <1>2. QED BY <1>1, TypeAndFlags, PTL DEF Spec, SkippedHasNoEffect
=============================================================================
