------------------------------ MODULE FormEditing ------------------------------
(***************************************************************************)
(* The server's side of editing forms: the routes of                       *)
(* admin-forms.server.routes.js that change a form, up to the answer.      *)
(*                                                                         *)
(* A handler reads the form, checks it and edits its copy in one stretch;  *)
(* then it validates the copy and saves it, with awaits between.  Handlers *)
(* of other requests run in those gaps, and only the arrays of the form    *)
(* are guarded against them, by the version of the document.               *)
(***************************************************************************)
EXTENDS FormDocument

VARIABLES
    forms,          \* the forms in the database
    request,        \* what each request asks for
    stage,          \* where its handler is
    seen,           \* the form as the handler read it
    copy,           \* req.form, edited; the new form of a duplicate
    reply,          \* the status of the answer
    overwritten     \* the forms that were saved from a copy of an older state

handlerVars == <<request, stage, seen, copy, reply>>
vars == <<forms, handlerVars, overwritten>>

Replies == {"none", "OK", "BAD_REQUEST", "FORBIDDEN", "NOT_FOUND", "CONFLICT",
            "UNPROCESSABLE_ENTITY", "INTERNAL_SERVER_ERROR", "CLOSED"}

CONSTANTS
    InitialForms,   \* the forms that validate
    Failures        \* the errors that answer a request, or leave it unanswered

ASSUME EditingAssumption ==
    /\ Failures \subseteq {"INTERNAL_SERVER_ERROR", "CLOSED"}
    /\ \A f \in InitialForms :
          /\ f \in Form
          /\ Validates(f)
          /\ f.settings.status = "PUBLIC" /\ f.settings.authType # "NIL"
                => f.settings.esrvcId

Init ==
    /\ forms \in [FormIds -> InitialForms \cup {None}]
    /\ \A id \in FormIds : forms[id] = None <=> id \in Requests
    /\ request = [r \in Requests |-> None]
    /\ stage = [r \in Requests |-> "unsent"]
    /\ seen = [r \in Requests |-> None]
    /\ copy = [r \in Requests |-> None]
    /\ reply = [r \in Requests |-> "none"]
    /\ overwritten = {}

Post(r, call) ==
    /\ stage[r] = "unsent"
    /\ request' = [request EXCEPT ![r] = call]
    /\ stage' = [stage EXCEPT ![r] = "sent"]
    /\ UNCHANGED <<forms, seen, copy, reply, overwritten>>

-----------------------------------------------------------------------------
(* formById, isFormActive, verifyPermission, and the handler up to its     *)
(* first await                                                             *)

(* What was read is forgotten; the answer holds the form that was saved.   *)
Answer(r, status) ==
    /\ reply' = [reply EXCEPT ![r] = status]
    /\ stage' = [stage EXCEPT ![r] = "done"]
    /\ seen' = [seen EXCEPT ![r] = None]
    /\ copy' = IF status = "OK" THEN copy ELSE [copy EXCEPT ![r] = None]

Target(r) == forms[request[r].id]

IsActive(form) == form # None /\ form.settings.status # "ARCHIVED"

(* authActiveForm, authAdminActiveAnyForm                                  *)
IsPermitted(lists, call) ==
    CASE call.method = "update" -> CanWrite(lists, call.user)
      [] call.method = "delete" -> call.user = lists.admin
      [] call.method = "duplicate" -> CanRead(lists, call.user)
      [] call.method = "copy" -> TRUE

Refuse(r, status) ==
    /\ Answer(r, status)
    /\ UNCHANGED <<forms, request, overwritten>>

FormNotFound(r) ==
    /\ stage[r] = "sent"
    /\ request[r].method # "create"
    /\ ~IsActive(Target(r))
    /\ Refuse(r, "NOT_FOUND")

NotPermitted(r) ==
    /\ stage[r] = "sent"
    /\ request[r].method # "create"
    /\ IsActive(Target(r))
    /\ ~IsPermitted(Target(r).lists, request[r])
    /\ Refuse(r, "FORBIDDEN")

(* The page of the sender shows a form that has changed since.             *)
InvalidUpdate(r) ==
    /\ stage[r] = "sent"
    /\ request[r].method = "update"
    /\ IsActive(Target(r))
    /\ IsPermitted(Target(r).lists, request[r])
    /\ Inapplicable(Target(r).lists, request[r].body)
    /\ Refuse(r, "BAD_REQUEST")

(* Mutant: the form's status is not looked at.                             *)
ReadForUpdate_Archived(r) ==
    /\ stage[r] = "sent"
    /\ request[r].method = "update"
    /\ Target(r) # None
    /\ IsPermitted(Target(r).lists, request[r])
    /\ ~Inapplicable(Target(r).lists, request[r].body)
    /\ seen' = [seen EXCEPT ![r] = Target(r)]
    /\ copy' = [copy EXCEPT ![r] = Edited(Target(r), request[r].body, r)]
    /\ stage' = [stage EXCEPT ![r] = "saving"]
    /\ UNCHANGED <<forms, request, reply, overwritten>>

ReadForUpdate(r) ==
    /\ stage[r] = "sent"
    /\ request[r].method = "update"
    /\ IsActive(Target(r))
    /\ IsPermitted(Target(r).lists, request[r])
    /\ ~Inapplicable(Target(r).lists, request[r].body)
    /\ seen' = [seen EXCEPT ![r] = Target(r)]
    /\ copy' = [copy EXCEPT ![r] = Edited(Target(r), request[r].body, r)]
    /\ stage' = [stage EXCEPT ![r] = "saving"]
    /\ UNCHANGED <<forms, request, reply, overwritten>>

ReadForDelete(r) ==
    /\ stage[r] = "sent"
    /\ request[r].method = "delete"
    /\ IsActive(Target(r))
    /\ IsPermitted(Target(r).lists, request[r])
    /\ seen' = [seen EXCEPT ![r] = Target(r)]
    /\ copy' = [copy EXCEPT ![r] =
                   [Target(r) EXCEPT !.settings.status = "ARCHIVED"]]
    /\ stage' = [stage EXCEPT ![r] = "saving"]
    /\ UNCHANGED <<forms, request, reply, overwritten>>

(* duplicate reads the form once more, and checks nothing of it then.      *)
ReadForDuplicate(r) ==
    /\ stage[r] = "sent"
    /\ request[r].method \in {"duplicate", "copy"}
    /\ IsActive(Target(r))
    /\ IsPermitted(Target(r).lists, request[r])
    /\ stage' = [stage EXCEPT ![r] = "duplicating"]
    /\ UNCHANGED <<forms, request, seen, copy, reply, overwritten>>

Duplicate(r) ==
    /\ stage[r] = "duplicating"
    /\ copy' = [copy EXCEPT ![r] =
           Duplicated(Target(r), request[r].user, request[r].responseMode)]
    /\ stage' = [stage EXCEPT ![r] = "saving"]
    /\ UNCHANGED <<forms, request, seen, reply, overwritten>>

Create(r) ==
    /\ stage[r] = "sent"
    /\ request[r].method = "create"
    /\ copy' = [copy EXCEPT ![r] =
                   Blank(request[r].user, request[r].responseMode)]
    /\ stage' = [stage EXCEPT ![r] = "saving"]
    /\ UNCHANGED <<forms, request, seen, reply, overwritten>>

-----------------------------------------------------------------------------
(* form.save *)

(* Where the form is saved, and what is there: nothing, if it is new.      *)
SavedAt(r) == IF seen[r] = None THEN r ELSE request[r].id

ListsChanged(r) == copy[r].lists # seen[r].lists

(* Mutant: an array that was replaced does not ask for the version.        *)
Conflicts_Never(r) == FALSE

(* mongoose asks for the version that it read if an array was replaced.    *)
Conflicts(r) ==
    /\ seen[r] # None
    /\ ListsChanged(r)
    /\ forms[SavedAt(r)].__v # seen[r].__v

Merged(old, new, current) == IF new # old THEN new ELSE current

(* The paths that differ from what was read are written; and the version   *)
(* is incremented with the arrays.                                         *)
Written(r) ==
    IF seen[r] = None THEN copy[r]
    ELSE LET current == forms[SavedAt(r)]
             set(s) == Merged(seen[r].settings[s], copy[r].settings[s],
                              current.settings[s])
             list(p) == Merged(seen[r].lists[p], copy[r].lists[p],
                               current.lists[p])
         IN  [lists |-> [admin |-> current.lists.admin,
                         form_fields |-> list("form_fields"),
                         form_logics |-> list("form_logics"),
                         permissionList |-> list("permissionList")],
              settings |-> [status |-> set("status"),
                            hasCaptcha |-> set("hasCaptcha"),
                            authType |-> set("authType"),
                            esrvcId |-> set("esrvcId"),
                            webhook |-> set("webhook")],
              responseMode |-> current.responseMode,
              __v |-> IF ListsChanged(r) THEN current.__v + 1 ELSE current.__v]

Write(r) ==
    /\ forms' = [forms EXCEPT ![SavedAt(r)] = Written(r)]
    /\ overwritten' =
           IF seen[r] # None /\ seen[r] # forms[SavedAt(r)]
           THEN overwritten \cup {SavedAt(r)} ELSE overwritten

SaveRejected(r) ==
    /\ stage[r] = "saving"
    /\ ~Validates(copy[r])
    /\ Refuse(r, "UNPROCESSABLE_ENTITY")

SaveConflicts(r) ==
    /\ stage[r] = "saving"
    /\ Validates(copy[r])
    /\ Conflicts(r)
    /\ Refuse(r, "CONFLICT")

Save(r) ==
    /\ stage[r] = "saving"
    /\ Validates(copy[r])
    /\ ~Conflicts(r)
    /\ Write(r)
    /\ Answer(r, "OK")
    /\ UNCHANGED request

(* An error that the handler answers, or the end of the process, which     *)
(* nobody answers; the form may have been written.                         *)
SaveFails(r, status) ==
    /\ stage[r] = "saving"
    /\ \/ UNCHANGED <<forms, overwritten>>
       \/ Validates(copy[r]) /\ ~Conflicts(r) /\ Write(r)
    /\ Answer(r, status)
    /\ UNCHANGED request

HandlerFails(r, status) ==
    /\ stage[r] \in {"sent", "duplicating"}
    /\ Refuse(r, status)

Handle(r) ==
    \/ FormNotFound(r) \/ NotPermitted(r) \/ InvalidUpdate(r)
    \/ ReadForUpdate(r) \/ ReadForDelete(r)
    \/ ReadForDuplicate(r) \/ Duplicate(r) \/ Create(r)
    \/ SaveRejected(r) \/ SaveConflicts(r) \/ Save(r)
    \/ \E status \in Failures :
          SaveFails(r, status) \/ HandlerFails(r, status)

-----------------------------------------------------------------------------
CONSTANT Calls  \* the requests that may be made

(* The page asks for an e-service id once it has one: it can be changed,   *)
(* but not cleared (settings-form.client.view.html).                       *)
IsSendable(call) ==
    /\ call # None
    /\ IsCall(call)
    /\ "esrvcId" \in DOMAIN call.body.settings => call.body.settings.esrvcId

ASSUME CallsAssumption == \A call \in Calls : IsSendable(call)

Next ==
    \E r \in Requests :
        \/ \E call \in Calls : Post(r, call)
        \/ Handle(r)

Spec == Init /\ [][Next]_vars

-----------------------------------------------------------------------------
(* Properties *)

(* Every form, and every copy that a handler holds, has the shape of its   *)
(* schema, and a new form exists only once its request has been saved.     *)
TypeOK ==
    /\ forms \in [FormIds -> Form \cup {None}]
    /\ \A r \in Requests : request[r] # None => IsCall(request[r])
    /\ \A r \in Requests : stage[r] # "unsent" => request[r] # None
    /\ stage \in [Requests ->
                    {"unsent", "sent", "duplicating", "saving", "done"}]
    /\ seen \in [Requests -> Form \cup {None}]
    /\ copy \in [Requests -> Form \cup {None}]
    /\ reply \in [Requests -> Replies]
    /\ overwritten \subseteq FormIds

(* The rules that tie one path of a form to another: MyInfo needs          *)
(* SingPass, and readable answers; a webhook gets no attachments; and      *)
(* respondents can log in to a public form only with its e-service id.     *)
Coherent(form) ==
    LET types == {form.lists.form_fields[i].fieldType :
                      i \in DOMAIN form.lists.form_fields}
    IN  /\ "myInfo" \in types =>
              form.settings.authType = "SP" /\ form.responseMode = "email"
        /\ "attachment" \in types /\ form.settings.webhook =>
              form.responseMode = "email"
        /\ form.settings.status = "PUBLIC" /\ form.settings.authType # "NIL"
              => form.settings.esrvcId

(* The validators and the setters of the schema keep a form coherent, as   *)
(* long as no handler saves to it what it worked out from an older state:  *)
(* the paths of a form are checked together and written one by one.        *)
CoherentUnlessOverwritten ==
    \A id \in FormIds : forms[id] # None /\ id \notin overwritten
                       => Coherent(forms[id])

(* An archived form stays archived, unless a handler that had read it      *)
(* before saves over it: every other request finds it archived.            *)
ArchivedUnlessOverwritten ==
    [][\A id \in FormIds :
          (/\ forms[id] # None
           /\ forms[id].settings.status = "ARCHIVED"
           /\ id \notin overwritten')
              => forms'[id].settings.status = "ARCHIVED"]_vars

(* What the handlers of one form at a time would keep of it, they keep,    *)
(* unless one saves over a newer state.                                    *)
KeptUnlessOverwritten ==
    []CoherentUnlessOverwritten /\ ArchivedUnlessOverwritten

(* The fields of f apart from one, and those of g, are the same in the     *)
(* same order.                                                             *)
SameOthers(id, f, g) ==
    LET OthersOf(fields) == {i \in DOMAIN fields : fields[i].globalId # id}
    IN  \E to \in Surjection(OthersOf(f), OthersOf(g)) :
            \A i \in OthersOf(f) :
                /\ g[to[i]] = f[i]
                /\ \A j \in OthersOf(f) : i < j => to[i] < to[j]

EditedField(r) ==
    WithGlobalId(request[r].body.editFormField.field, r).globalId

(* An edit of one field leaves every other field of the form as it is, and *)
(* where it is: a handler's edit of the copy that it read undoes nothing   *)
(* that another handler has saved meanwhile.                               *)
EditTouchesOneField ==
    [][\A r \in Requests :
          (/\ stage[r] = "saving"
           /\ forms' # forms
           /\ stage'[r] = "done"
           /\ request[r].method = "update"
           /\ request[r].body.editFormField # None)
              => LET id == request[r].id
                 IN  SameOthers(EditedField(r), forms[id].lists.form_fields,
                                forms'[id].lists.form_fields)]_vars

(* The arrays of a form are edited as FormLists promises.                  *)
Outcome(r) ==
    CASE reply[r] = "OK" -> "OK"
      [] reply[r] \in {"INTERNAL_SERVER_ERROR", "CLOSED"} -> "failed"
      [] reply[r] \notin {"none", "OK", "INTERNAL_SERVER_ERROR", "CLOSED"} ->
            "refused"
      [] stage[r] = "saving" /\ seen[r] # None /\ ~ListsChanged(r) ->
            "redundant"
      [] OTHER -> "none"

Arrays == INSTANCE FormLists WITH
    lists <- [id \in FormIds |-> IF forms[id] = None THEN None
                             ELSE forms[id].lists],
    outcome <- [r \in Requests |-> Outcome(r)]

ImplementsFormLists == Arrays!Spec

(* Of the arrays nothing comes that FormLists does not promise, and of an  *)
(* edit nothing that the field it is about would not account for.          *)
EditsAsPromised == ImplementsFormLists /\ EditTouchesOneField
=============================================================================
