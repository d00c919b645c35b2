----------------------------- MODULE FormDocument -----------------------------
(***************************************************************************)
(* A form as the database keeps it (form.server.model.ts), what a request  *)
(* to edit it says, and what the edit does to a copy of it: the operations *)
(* on the list of fields, the setters of the settings, and the validators  *)
(* that a save runs.                                                       *)
(*                                                                         *)
(* The fields, the logic rules and the collaborators are arrays: a save    *)
(* replaces each as a whole, and checks and increments the version of the  *)
(* document.  Each setting is written by itself, with no such check.       *)
(***************************************************************************)
EXTENDS Naturals, SequencesExt

CONSTANTS
    Users,          \* admins of forms and their collaborators
    Whitelisted,    \* those whose email is of an agency in the database
    Requests,       \* calls of the API, each made at most once
    OriginalForms,  \* the forms that exist at the start
    OriginalFields, \* and the fields that they have
    Rules,          \* the logic rules that a form may have
    None

(* A form or a field that is created is named after the request that does. *)
FormIds == OriginalForms \cup Requests
FieldIds == OriginalFields \cup Requests

(* fieldType tells only what a validator looks at.  content stands for all *)
(* that an admin can change in a field: of an attachment, its size in MB.  *)
Field == [globalId : FieldIds \cup {None},
          fieldType : {"text", "attachment", "myInfo"},
          content : Nat]

(* One of a form that has been saved.                                      *)
FormField == [globalId : FieldIds,
              fieldType : {"text", "attachment", "myInfo"},
              content : Nat]

Permissions == {"none", "read", "write"}

Lists == [admin : Users,
          form_fields : Seq(FormField),
          form_logics : SUBSET Rules,
          permissionList : [Users -> Permissions]]

SettingValues ==
    [status     |-> {"PRIVATE", "PUBLIC", "ARCHIVED"},
     hasCaptcha |-> BOOLEAN,
     authType   |-> {"NIL", "SP", "CP"},
     esrvcId    |-> BOOLEAN,
     webhook    |-> BOOLEAN]

(* title, emails, inactiveMessage, startPage and endPage, on which nothing *)
(* else depends, behave like hasCaptcha.                                   *)
SettingNames == DOMAIN SettingValues

Settings == [status : SettingValues.status,
             hasCaptcha : BOOLEAN,
             authType : SettingValues.authType,
             esrvcId : BOOLEAN,
             webhook : BOOLEAN]

Form == [lists : Lists, settings : Settings,
         responseMode : {"email", "encrypt"}, __v : Nat]

ASSUME DocumentAssumption ==
    /\ Requests \cap (OriginalForms \cup OriginalFields) = {}
    /\ None \notin FormIds \cup FieldIds
    /\ None \notin Form \cup Lists

EditFieldActions == {"CREATE", "DUPLICATE", "REORDER", "UPDATE", "DELETE"}

(* Paths that the body does not hold are None; settings is a function      *)
(* whose domain are the paths that it does hold.                           *)
IsUpdate(body) ==
    /\ \/ body.editFormField = None
       \/ body.editFormField \in
            [name : EditFieldActions, field : Field, position : Nat \ {0}]
    /\ body.form_logics \in (SUBSET Rules) \cup {None}
    /\ body.permissionList \in [Users -> Permissions] \cup {None}
    /\ DOMAIN body.settings \subseteq SettingNames
    /\ \A s \in DOMAIN body.settings :
          body.settings[s] \in SettingValues[s]

(* PUT, DELETE and the two POSTs of /:formId/adminform, and the POST of    *)
(* /adminform, which names no form.                                        *)
Methods == {"update", "delete", "duplicate", "copy", "create"}

IsCall(call) ==
    /\ call.user \in Users
    /\ call.method \in Methods
    /\ call.id \in FormIds
    /\ call.responseMode \in {"email", "encrypt"}
    /\ IsUpdate(call.body)

-----------------------------------------------------------------------------
(* getEditedFormFields *)

PositionOf(fields, id) ==
    SelectInSeq(fields, LAMBDA field : field.globalId = id)

EditError(fields, edit) ==
    (edit.name \in {"CREATE", "DUPLICATE"})
        <=> (PositionOf(fields, edit.field.globalId) # 0)

(* The pre-save hook of baseField.ts gives a field its globalId.           *)
WithGlobalId(field, r) ==
    IF field.globalId = None THEN [field EXCEPT !.globalId = r] ELSE field

(* Mutant: a field is put at its new position before it is removed from    *)
(* the old one, which may have moved.                                      *)
EditedFormFields_InsertFirst(fields, edit, r) ==
    LET field == WithGlobalId(edit.field, r)
        at == PositionOf(fields, edit.field.globalId)
        to == IF edit.position > Len(fields) THEN Len(fields)
                                             ELSE edit.position
    IN  CASE edit.name \in {"CREATE", "DUPLICATE"} -> Append(fields, field)
          [] edit.name = "REORDER" -> RemoveAt(InsertAt(fields, to, field), at)
          [] edit.name = "UPDATE" -> ReplaceAt(fields, at, field)
          [] edit.name = "DELETE" -> RemoveAt(fields, at)

(* splice takes a position past the end for the end.                       *)
EditedFormFields(fields, edit, r) ==
    LET field == WithGlobalId(edit.field, r)
        at == PositionOf(fields, edit.field.globalId)
        to == IF edit.position > Len(fields) THEN Len(fields)
                                             ELSE edit.position
    IN  CASE edit.name \in {"CREATE", "DUPLICATE"} -> Append(fields, field)
          [] edit.name = "REORDER" -> InsertAt(RemoveAt(fields, at), to, field)
          [] edit.name = "UPDATE" -> ReplaceAt(fields, at, field)
          [] edit.name = "DELETE" -> RemoveAt(fields, at)

(* What an update puts in the arrays.                                      *)
EditedLists(lists, body, r) ==
    [lists EXCEPT
        !.form_fields = IF body.editFormField = None THEN @
                        ELSE EditedFormFields(@, body.editFormField, r),
        !.form_logics = IF body.form_logics = None THEN @
                        ELSE body.form_logics,
        !.permissionList = IF body.permissionList = None THEN @
                           ELSE body.permissionList]

Inapplicable(lists, body) ==
    /\ body.editFormField # None
    /\ EditError(lists.form_fields, body.editFormField)

-----------------------------------------------------------------------------
(* _.extend(form, updatedForm), in the order of SETTINGS_PATH: status      *)
(* comes before authType, and authType before esrvcId.                     *)

Assigned(settings, path, body) ==
    IF path \in DOMAIN body.settings THEN body.settings[path]
                                     ELSE settings[path]

(* A form that respondents log in to needs an e-service id to go public.   *)
(* The setter keeps it private and reports nothing.                        *)
SetStatus(settings, body) ==
    IF /\ settings.status = "PRIVATE"
       /\ Assigned(settings, "status", body) = "PUBLIC"
       /\ settings.authType # "NIL"
       /\ ~settings.esrvcId
    THEN "PRIVATE"
    ELSE Assigned(settings, "status", body)

(* A public form keeps its authType.                                       *)
SetAuthType(settings, status, body) ==
    IF status = "PUBLIC" THEN settings.authType
                         ELSE Assigned(settings, "authType", body)

EditedSettings(settings, body) ==
    LET status == SetStatus(settings, body)
    IN  [status     |-> status,
         hasCaptcha |-> Assigned(settings, "hasCaptcha", body),
         authType   |-> SetAuthType(settings, status, body),
         esrvcId    |-> Assigned(settings, "esrvcId", body),
         webhook    |-> Assigned(settings, "webhook", body)]

Edited(form, body, r) ==
    [form EXCEPT !.lists = EditedLists(@, body, r),
                 !.settings = EditedSettings(@, body)]

-----------------------------------------------------------------------------
(* Validation: a save validates the whole document, also the paths that    *)
(* it does not write.                                                      *)

Has(form, type) ==
    \E i \in DOMAIN form.lists.form_fields :
        form.lists.form_fields[i].fieldType = type

(* The validator of MyInfoSchema.                                          *)
MyInfoAllowed(form) ==
    Has(form, "myInfo") =>
        form.settings.authType = "SP" /\ form.responseMode = "email"

(* The pre-validate hook of AttachmentFieldSchema.                         *)
AttachmentsAllowed(form) ==
    Has(form, "attachment") =>
        ~(form.responseMode = "encrypt" /\ form.settings.webhook)

(* The validator of permissionList.                                        *)
CollaboratorsAllowed(form) ==
    \A u \in Users :
        form.lists.permissionList[u] # "none" => u \in Whitelisted

Validates(form) ==
    MyInfoAllowed(form) /\ AttachmentsAllowed(form) /\ CollaboratorsAllowed(form)

-----------------------------------------------------------------------------
(* verifyPermission *)

CanWrite(lists, u) == u = lists.admin \/ lists.permissionList[u] = "write"

CanRead(lists, u) == u = lists.admin \/ lists.permissionList[u] # "none"

-----------------------------------------------------------------------------
(* FORM_DUPLICATE_KEYS, and the defaults of the schema for the rest.       *)

Duplicated(form, u, responseMode) ==
    [lists |-> [admin |-> u,
                form_fields |-> form.lists.form_fields,
                form_logics |-> form.lists.form_logics,
                permissionList |-> [v \in Users |-> "none"]],
     settings |-> [status |-> "PRIVATE", hasCaptcha |-> TRUE,
                   authType |-> form.settings.authType,
                   esrvcId |-> FALSE, webhook |-> FALSE],
     responseMode |-> responseMode,
     __v |-> 0]

Blank(u, responseMode) ==
    [lists |-> [admin |-> u, form_fields |-> <<>>, form_logics |-> {},
                permissionList |-> [v \in Users |-> "none"]],
     settings |-> [status |-> "PRIVATE", hasCaptcha |-> TRUE,
                   authType |-> "NIL", esrvcId |-> FALSE, webhook |-> FALSE],
     responseMode |-> responseMode,
     __v |-> 0]
=============================================================================
