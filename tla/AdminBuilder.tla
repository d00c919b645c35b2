------------------------------ MODULE AdminBuilder ------------------------------
(***************************************************************************)
(* The page on which an admin builds a form, and the modal in which he     *)
(* edits a field.  To the page a field is its name, its type and its       *)
(* megabytes; to the modal it is everything that it has.  The page gets    *)
(* the field when the modal has closed, and sees nothing of it before, so  *)
(* that a behaviour is about one of the two, which the variable view tells.*)
(***************************************************************************)
EXTENDS FormBuilder, FieldEditor

VARIABLE view

adminVars == <<builderVars, editorVars, view>>

AdminInit == view \in {"page", "modal"} /\ BuilderInit /\ EditorInit

AdminNext ==
    \/ view = "page" /\ UNCHANGED <<editorVars, view>> /\ BuilderNext
    \/ view = "modal" /\ UNCHANGED <<builderVars, view>> /\ EditorNext

AdminSpec == AdminInit /\ [][AdminNext]_adminVars
=============================================================================
