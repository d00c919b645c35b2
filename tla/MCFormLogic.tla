----------------------------- MODULE MCFormLogic -----------------------------
(***************************************************************************)
(* FormLogic on forms of three fields with up to two units, of which at    *)
(* most one prevents submission.  The units form chains, forks and cycles, *)
(* and some name a field that has been deleted.                            *)
(***************************************************************************)
EXTENDS FormLogic, FiniteSets, TLC

CONSTANTS f1, f2, f3, deleted, other

MCFieldIds == {f1, f2, f3, deleted}
MCAnswers == {1, other}

Equals(f) == [field |-> f, state |-> "is equals to", value |-> {other}]
AtMostOne == [field |-> f1, state |-> "is less than or equal to", value |-> {1}]
AtLeastOne == [field |-> f1, state |-> "is more than or equal to", value |-> {1}]

ConditionSets ==
    {{}, {AtMostOne}, {AtLeastOne}, {Equals(f1), Equals(f2)},
     {Equals(f2), Equals(f3)}}
      \cup {{Equals(f)} : f \in MCFieldIds}

ShowUnits ==
    [logicType : {"showFields"}, conditions : ConditionSets,
     show : {{f1}, {f2}, {f3}, {f2, f3, deleted}}]

PreventUnits ==
    [logicType : {"preventSubmit"},
     conditions : {{AtMostOne}, {Equals(f2), Equals(f3)}, {Equals(deleted)}},
     show : {{}}]

(* The second unit may equal the first: fewer units are among these forms. *)
MCForms ==
    [form_fields : {<<f1, f2, f3>>, <<f3, f1, f2>>},
     form_logics : {<<u, v>> : u \in ShowUnits, v \in ShowUnits \cup PreventUnits}
                     \cup {<<>>}]

MCSubmissions ==
    {[f \in MCFieldIds |->
         CASE f = f1 -> a [] f = f2 -> b [] f = f3 -> c [] OTHER -> Missing] :
        a \in {1, other, Empty}, b \in {other, Empty, Missing},
        c \in {other, Empty}}
=============================================================================
