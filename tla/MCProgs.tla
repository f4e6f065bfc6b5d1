------------------------------- MODULE MCProgs -------------------------------
(***************************************************************************)
(* The program file and what executes it: how the compiler fills the file  *)
(* with words, names and calls; the executor's calls; its entities; its    *)
(* temporary strings.  They have no variable in common, so a behaviour is  *)
(* about one of the four, whichever `uses` says, and the others rest.      *)
(*                                                                         *)
(* Calls: fnF and fnG have one parameter and one local each; word 4        *)
(* belongs to both.  Entities: the world and two slots with two fields,    *)
(* one of them INSTR_STATE's.  Strings: one program string; MCText has a   *)
(* text of the size of the area, which has to grow for its terminator;     *)
(* MCShortText fits more than three times.                                 *)
(***************************************************************************)
EXTENDS Qcvm, QcvmEntities, QcvmStrings, MCWriter

CONSTANTS fnF, fnG,      \* functions
          chA, chB, chP, \* characters
          Uses,          \* what the behaviours are about
          NoProgram

VARIABLE uses

MCFirstLocal == fnF :> 3 @@ fnG :> 4
MCLocals == fnF :> 2 @@ fnG :> 2
MCArgSize == fnF :> <<1>> @@ fnG :> <<1>>
MCEntry == fnF :> 0 @@ fnG :> 2
MCSize == fnF :> 2 @@ fnG :> 2

MCStateFields == {1}
MCProgStrings == <<chP, NUL>>
MCText == {<<>>, <<chA>>, <<chB>>, <<chA, chB>>, <<chB, chB, chA>>, <<chA, chB, chA, chB, chA>>}
MCShortText == {<<chA>>, <<chB>>, <<chA, chB>>}

WriterRests == /\ program = NoProgram /\ flags = {} /\ builder = NoProgram
               /\ stage = "none" /\ item = 0 /\ nthcall = 0 /\ nthparm = 0

ProgsInit ==
    /\ uses \in Uses
    /\ Init /\ (uses # "code" => globals = [w \in Addr |-> 0])
    /\ EntitiesInit /\ (uses # "entities" => ~allowworldwrites)
    /\ StringsInit
    /\ \/ uses # "file" /\ WriterRests
       \/ uses = "file" /\ WriterInit

ProgsNext ==
    /\ UNCHANGED uses
    /\ \/ uses = "file" /\ WriterNext /\ UNCHANGED <<vars, entitiesVars, stringsVars>>
       \/ uses = "code" /\ Next /\ UNCHANGED <<writerVars, entitiesVars, stringsVars>>
       \/ uses = "entities" /\ EntitiesNext /\ UNCHANGED <<writerVars, vars, stringsVars>>
       \/ uses = "strings" /\ StringsNext /\ UNCHANGED <<writerVars, vars, entitiesVars>>

(* The type invariant of all four.                                         *)
ProgsTypeOK == /\ uses = "file" => WriterTypeOK
               /\ TypeOK /\ EntitiesTypeOK /\ StringsTypeOK

ProgsSpec == /\ ProgsInit
             /\ [][ProgsNext]_<<uses, writerVars, vars, entitiesVars, stringsVars>>

(* Qcvm's fairness.                                                        *)
FairProgsSpec == ProgsSpec /\ WF_vars(Step)
=============================================================================
