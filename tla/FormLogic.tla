------------------------------ MODULE FormLogic ------------------------------
(***************************************************************************)
(* Form logic: which fields of a form are visible for given answers, and   *)
(* whether the answers prevent submission (shared/util/logic.ts).  The same*)
(* code runs in the respondent's page and on the server.                   *)
(*                                                                         *)
(* The state machine is the loop of getVisibleFieldIds, one field at a     *)
(* time, for one form and one submission.                                  *)
(***************************************************************************)
EXTENDS Integers, Sequences

CONSTANTS
    FieldIds,
    Answers,        \* answers that are not empty: numbers, and other values
    Empty,          \* the empty answer
    Missing,        \* no response to the field in the submission
    RuledForms,     \* the forms to run the loop on
    Submissions     \* the submissions to run it on

LogicConditionStates ==
    {"is equals to", "is either",
     "is less than or equal to", "is more than or equal to"}

(* value is the set of values of "is either"; of the others, a singleton.  *)
(* Answers chosen as 'Others' are one answer, which the page and the       *)
(* server spell differently.                                               *)
Conditions == [field : FieldIds, state : LogicConditionStates,
               value : SUBSET Answers]

LogicUnits == [logicType : {"showFields", "preventSubmit"},
               conditions : SUBSET Conditions, show : SUBSET FieldIds]

FormType == [form_fields : Seq(FieldIds), form_logics : Seq(LogicUnits)]

SubmissionType == [FieldIds -> Answers \cup {Empty, Missing}]

ASSUME LogicAssumption ==
    /\ RuledForms \subseteq FormType
    /\ Submissions \subseteq SubmissionType

-----------------------------------------------------------------------------
(* The functions of logic.ts *)

FormFieldIds(form) ==
    {form.form_fields[i] : i \in DOMAIN form.form_fields}

Logics(form) == {form.form_logics[i] : i \in DOMAIN form.form_logics}

allConditionsExist(conditions, formFieldIds) ==
    \A condition \in conditions : condition.field \in formFieldIds

(* The conditions of the logic units that show a field.                    *)
groupLogicUnitsByField(form) ==
    [field \in FormFieldIds(form) |->
        {unit.conditions : unit \in
            {u \in Logics(form) :
                /\ u.logicType = "showFields"
                /\ allConditionsExist(u.conditions, FormFieldIds(form))
                /\ field \in u.show}}]

getPreventSubmitConditions(form) ==
    {u \in Logics(form) :
        /\ u.logicType = "preventSubmit"
        /\ allConditionsExist(u.conditions, FormFieldIds(form))}

(* Mutant: no test for an empty answer, and Number('') is 0.               *)
isConditionFulfilled_EmptyIsZero(answer, condition) ==
    LET number == IF answer = Empty THEN 0 ELSE answer
    IN  /\ answer # Missing
        /\ \/ /\ condition.state \in {"is equals to", "is either"}
              /\ answer \in condition.value
           \/ /\ condition.state = "is less than or equal to"
              /\ number \in Int
              /\ \A bound \in condition.value : bound \in Int /\ number <= bound
           \/ /\ condition.state = "is more than or equal to"
              /\ number \in Int
              /\ \A bound \in condition.value : bound \in Int /\ number >= bound

(* Number(x) of anything but a number is NaN, which compares as false.     *)
isConditionFulfilled(answer, condition) ==
    /\ answer \notin {Empty, Missing}
    /\ \/ /\ condition.state \in {"is equals to", "is either"}
          /\ answer \in condition.value
       \/ /\ condition.state = "is less than or equal to"
          /\ answer \in Int
          /\ \A bound \in condition.value : bound \in Int /\ answer <= bound
       \/ /\ condition.state = "is more than or equal to"
          /\ answer \in Int
          /\ \A bound \in condition.value : bound \in Int /\ answer >= bound

(* Mutant: a condition on a hidden field counts as well.                   *)
isLogicUnitSatisfied_HiddenCounts(submission, conditions, visible) ==
    \A condition \in conditions :
        isConditionFulfilled(submission[condition.field], condition)

isLogicUnitSatisfied(submission, conditions, visible) ==
    \A condition \in conditions :
        /\ submission[condition.field] # Missing
        /\ condition.field \in visible
        /\ isConditionFulfilled(submission[condition.field], condition)

(* The units that prevent submission; the code finds the first of them.    *)
UnitsPreventingSubmit(submission, form, visible) ==
    {u \in getPreventSubmitConditions(form) :
        isLogicUnitSatisfied(submission, u.conditions, visible)}

-----------------------------------------------------------------------------
(* The loop of getVisibleFieldIds *)

VARIABLES
    ruled,              \* the form, with its rules
    submission,
    visibleFieldIds,
    position,           \* the position of the field to look at next
    changesMade,
    pc                  \* "looping" or "returned"

logicVars == <<ruled, submission, visibleFieldIds, position, changesMade, pc>>

LogicInit ==
    /\ ruled \in RuledForms
    /\ submission \in Submissions
    /\ visibleFieldIds = {}
    /\ position = 1
    /\ changesMade = FALSE
    /\ pc = "looping"

BecomesVisible(field) ==
    LET logicUnits == groupLogicUnitsByField(ruled)[field]
    IN  /\ field \notin visibleFieldIds
        /\ \/ logicUnits = {}
           \/ \E conditions \in logicUnits :
                  isLogicUnitSatisfied(submission, conditions, visibleFieldIds)

ExamineField ==
    /\ pc = "looping"
    /\ position <= Len(ruled.form_fields)
    /\ IF BecomesVisible(ruled.form_fields[position])
       THEN /\ visibleFieldIds' =
                  visibleFieldIds \cup {ruled.form_fields[position]}
            /\ changesMade' = TRUE
       ELSE UNCHANGED <<visibleFieldIds, changesMade>>
    /\ position' = position + 1
    /\ UNCHANGED <<ruled, submission, pc>>

(* Mutant: one pass over the fields.                                       *)
EndPass_Once ==
    /\ pc = "looping"
    /\ position > Len(ruled.form_fields)
    /\ pc' = "returned"
    /\ UNCHANGED <<ruled, submission, visibleFieldIds, position, changesMade>>

(* Mutant: changesMade is not cleared, and the loop never ends.            *)
EndPass_KeepsFlag ==
    /\ pc = "looping"
    /\ position > Len(ruled.form_fields)
    /\ IF changesMade
       THEN position' = 1 /\ UNCHANGED pc
       ELSE pc' = "returned" /\ UNCHANGED position
    /\ UNCHANGED <<ruled, submission, visibleFieldIds, changesMade>>

EndPass ==
    /\ pc = "looping"
    /\ position > Len(ruled.form_fields)
    /\ IF changesMade
       THEN position' = 1 /\ changesMade' = FALSE /\ UNCHANGED pc
       ELSE pc' = "returned" /\ UNCHANGED <<position, changesMade>>
    /\ UNCHANGED <<ruled, submission, visibleFieldIds>>

LogicNext == ExamineField \/ EndPass

LogicSpec == LogicInit /\ [][LogicNext]_logicVars

(* The loop is a single synchronous call.                                  *)
FairLogicSpec == LogicSpec /\ WF_logicVars(LogicNext)

-----------------------------------------------------------------------------
(* What the functions are for *)

(* A rule shows a field for given answers when every condition is on a     *)
(* field that is itself among the shown ones and whose answer fulfils it.  *)
Rules(frm, field) ==
    {u \in Logics(frm) :
        /\ u.logicType = "showFields"
        /\ field \in u.show
        /\ {c.field : c \in u.conditions} \subseteq FormFieldIds(frm)}

Holds(rule, sub, shown) ==
    \A c \in rule.conditions :
        c.field \in shown /\ isConditionFulfilled(sub[c.field], c)

Follows(field, frm, sub, shown) ==
    \/ Rules(frm, field) = {}
    \/ \E rule \in Rules(frm, field) : Holds(rule, sub, shown)

Closed(shown, frm, sub) ==
    \A field \in FormFieldIds(frm) :
        Follows(field, frm, sub, shown) => field \in shown

(* The fields every set of fields closed under the rules contains: what is *)
(* shown is shown for a reason that does not rest on itself.               *)
LeastVisible(frm, sub) ==
    {field \in FormFieldIds(frm) :
        \A shown \in SUBSET FormFieldIds(frm) :
            Closed(shown, frm, sub) => field \in shown}

LogicTypeOK ==
    /\ ruled \in RuledForms
    /\ submission \in Submissions
    /\ visibleFieldIds \subseteq FormFieldIds(ruled)
    /\ position \in 1 .. Len(ruled.form_fields) + 1
    /\ changesMade \in BOOLEAN
    /\ pc \in {"looping", "returned"}

(* getVisibleFieldIds returns the least set of fields closed under the     *)
(* show rules, whatever the order of the fields and of the rules, also when*)
(* rules form cycles ("This function loops through all the form fields     *)
(* until the set of visible fields no longer changes").                    *)
ReturnsLeastVisible ==
    pc = "returned" => visibleFieldIds = LeastVisible(ruled, submission)

(* What a respondent has typed in fields that are hidden now.              *)
WithoutHidden ==
    [field \in FieldIds |->
        IF field \in visibleFieldIds \/ submission[field] = Missing
        THEN submission[field] ELSE Empty]

(* Clearing the hidden fields, as the page does after getVisibleFieldIds   *)
(* and again in getResponses, neither hides nor shows another field, so    *)
(* that the server finds the fields visible that the page showed.          *)
ClearingIsStable ==
    pc = "returned" => LeastVisible(ruled, WithoutHidden) = visibleFieldIds

(* What prevents submission is a rule of existing fields all of which are  *)
(* visible and answered accordingly: neither a deleted nor a hidden field  *)
(* stops a respondent, and clearing the hidden fields changes nothing.     *)
PreventedForVisibleReason ==
    pc = "returned" =>
        /\ \A unit \in
                 UnitsPreventingSubmit(submission, ruled, visibleFieldIds) :
              \A c \in unit.conditions :
                  /\ c.field \in LeastVisible(ruled, submission)
                  /\ submission[c.field] \notin {Empty, Missing}
        /\ UnitsPreventingSubmit(WithoutHidden, ruled, visibleFieldIds)
             = UnitsPreventingSubmit(submission, ruled, visibleFieldIds)

(* The loop ends, also when the rules form cycles.                         *)
Returns == <>(pc = "returned")
=============================================================================
