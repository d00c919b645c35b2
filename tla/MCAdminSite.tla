----------------------------- MODULE MCAdminSite -----------------------------
(***************************************************************************)
(* Three users and the forms of two of them: an admin, at the pages, a     *)
(* collaborator of his and somebody whose email is not of an agency.       *)
(***************************************************************************)
EXTENDS AdminSite, TLC

CONSTANTS ada, bo, eve, show, form, other, name, age

MCUsers == {ada, bo, eve}
MCWhitelisted == {ada, bo}
MCRules == {show}

Text(id, n) == [globalId |-> id, fieldType |-> "text", content |-> n]
MyInfo == [globalId |-> None, fieldType |-> "myInfo", content |-> 0]
Attachment == [globalId |-> None, fieldType |-> "attachment", content |-> 3]

Alone == [u \in MCUsers |-> "none"]
WithBo == [Alone EXCEPT ![bo] = "write"]

AForm(mode, authType, status) ==
    [lists |-> [admin |-> ada, form_fields |-> <<Text(name, 0), Text(age, 0)>>,
                form_logics |-> {}, permissionList |-> WithBo],
     settings |-> [status |-> status, hasCaptcha |-> TRUE,
                   authType |-> authType,
                   esrvcId |-> authType # "NIL" /\ status = "PUBLIC",
                   webhook |-> FALSE],
     responseMode |-> mode, __v |-> 0]

AdasForms ==
    {AForm("email", "NIL", "PRIVATE"), AForm("email", "SP", "PRIVATE"),
     AForm("email", "SP", "PUBLIC"), AForm("encrypt", "NIL", "PRIVATE")}

(* One that everybody may use as a template, and ada read.                 *)
BosForm == [AForm("email", "NIL", "PUBLIC") EXCEPT
                !.lists.admin = bo,
                !.lists.permissionList = [Alone EXCEPT ![ada] = "read"]]

MCInitialForms == AdasForms \cup {BosForm}

Nothing == [editFormField |-> None, form_logics |-> None,
            permissionList |-> None, settings |-> <<>>]

Edit(action, field) ==
    [Nothing EXCEPT !.editFormField =
        [name |-> action, field |-> field, position |-> 1]]
Set(setting, value) == [Nothing EXCEPT !.settings = setting :> value]

Bodies ==
    {Edit("CREATE", Text(None, 1)), Edit("CREATE", MyInfo),
     Edit("DUPLICATE", Attachment), Edit("UPDATE", Text(name, 1)),
     Edit("REORDER", Text(age, 0)), Edit("DELETE", Text(name, 0)),
     [Nothing EXCEPT !.form_logics = {show}],
     [Nothing EXCEPT !.permissionList = Alone],
     [Nothing EXCEPT !.permissionList = [WithBo EXCEPT ![eve] = "read"]],
     Set("status", "PUBLIC"), Set("authType", "CP"), Set("authType", "NIL"),
     Set("webhook", TRUE)}

ACall(user, method, body) ==
    [user |-> user, method |-> method, id |-> form,
     responseMode |-> "encrypt", body |-> body]

MCCalls ==
    {ACall(bo, "update", body) : body \in Bodies}
    \cup {ACall(eve, "update", Edit("CREATE", Text(None, 1)))}
    \cup {ACall(ada, m, Nothing) : m \in Methods \ {"update"}}

(* From other pages than the one that ada is at: fields of MyInfo come to   *)
(* her form, and she is removed from that of bo.                           *)
MCElsewhere ==
    {ACall(bo, "update", Edit("CREATE", MyInfo)),
     [ACall(bo, "update", [Nothing EXCEPT !.permissionList = Alone])
         EXCEPT !.id = other]}

-----------------------------------------------------------------------------
(* The examples: three forms, of which one is of another agency, with      *)
(* submissions of one and a half months.                                   *)

CONSTANTS taxes, leave, parking

Agencies == taxes :> "own" @@ leave :> "own" @@ parking :> "other"
Scores == [term \in SearchTerms |-> taxes :> 1 @@ leave :> 2 @@ parking :> 0]

To(f, day) == [form |-> f, created |-> day]
SomeSubmissions ==
    <<To(taxes, 1), To(leave, 41), To(parking, 40),
      To(taxes, 3), To(leave, 2), To(parking, 39)>>

(* Bounds.  After a lapse, what is under way goes on, but no modal is open *)
(* or prepared until the list has been read again; and after a mishap, no  *)
(* page follows another until the next search: the properties would say    *)
(* little of it.  There is one change to the forms, and there are as many  *)
(* cards as forms.                                                         *)
Few ==
    /\ lapses # {} => Cardinality(lapses) = 1 /\ modalVars = <<None, None, None>>
    /\ mishaps # {} => /\ Cardinality(mishaps) = 1
                       /\ queries = <<>> \/ uiState.forms = <<>>
    /\ Len(uiState.forms) <= Cardinality(Examples)
    /\ Cardinality(Examples \ listed) + Len(submissions) <= MaxSubmissions

-----------------------------------------------------------------------------
(* The bill: July and August 2020, on a day that every month has and on a  *)
(* last of July.                                                           *)

CONSTANTS singpass, corppass

On(year, month, day) == [year |-> year, month |-> month, day |-> day]
Days == {On(2020, 7, 5), On(2020, 6, 31)}

By(f, id, month) == [form |-> f, esrvcId |-> id, period |-> 2020 * 12 + month]
SomeLogins ==
    <<By(taxes, singpass, 7), By(taxes, singpass, 7), By(leave, singpass, 7),
      By(leave, corppass, 6), By(taxes, singpass, 6)>>

-----------------------------------------------------------------------------

CONSTANTS first, second, preview

Symmetry == Permutations(Requests) \cup Permutations({first, second})
                                       \cup Permutations(Secondaries)

(* Each page starts from one state, but for what it is about.              *)
MCInit ==
    /\ SiteInit
    /\ forms[other] = BosForm
    /\ CASE page = "requests" -> forms[form] \in AdasForms
         [] OTHER -> forms[form] = AForm("email", "SP", "PRIVATE")
    /\ page # "examples" => aggregateStats = FALSE
    /\ page # "bill" => today = On(2020, 7, 5)

MCSpec == MCInit /\ [][SiteNext]_siteVars
=============================================================================
