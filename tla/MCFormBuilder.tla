----------------------------- MODULE MCFormBuilder -----------------------------
(***************************************************************************)
(* One admin's page and three forms it may open: a form with SingPass, one *)
(* with an attachment that a rule shows, and an empty encrypt form.        *)
(***************************************************************************)
EXTENDS AdminBuilder, TLC

CONSTANTS ada, bo, show, form, name, docs

MCUsers == {ada, bo}
MCFieldsOf == show :> {docs}

Symmetry == Permutations(Requests)

Text == [globalId |-> name, fieldType |-> "text", content |-> 0]
Attachment == [globalId |-> docs, fieldType |-> "attachment", content |-> 3]

AForm(mode, authType, fields, rules) ==
    [lists |-> [admin |-> ada, form_fields |-> fields,
                form_logics |-> rules,
                permissionList |-> (ada :> "none" @@ bo :> "write")],
     settings |-> [status |-> "PRIVATE", hasCaptcha |-> TRUE,
                   authType |-> authType,
                   esrvcId |-> authType # "NIL",
                   webhook |-> FALSE],
     responseMode |-> mode, __v |-> 0]

MCInitialForms ==
    {AForm("email", "SP", <<Text>>, {}),
     AForm("email", "NIL", <<Attachment, Text>>, {show}),
     AForm("encrypt", "NIL", <<>>, {})}

-----------------------------------------------------------------------------
(* The modal: a field of each kind, of one form.                           *)

CONSTANTS one, two, three

MCOptionTexts == <<one, two, three>>
MCImages == {[allowed |-> TRUE, small |-> TRUE]}

(* A behaviour about the modal starts from one form.                       *)
MCInit ==
    /\ AdminInit
    /\ view = "modal" => forms[theForm].responseMode = "encrypt"

(* Bounds: a behaviour ends with an overlap, after which the page promises *)
(* nothing; and once there is a picture in the bucket only images are      *)
(* edited, to which alone it matters.                                      *)
Few ==
    /\ "overlap" \notin lapses
    /\ bucket # {} /\ edited # Absent => edited.fieldType = "image"

MCSpec == MCInit /\ [][AdminNext]_adminVars
=============================================================================
