------------------------------ MODULE FormBuilder ------------------------------
(***************************************************************************)
(* The page on which an admin builds a form (src/public/modules/forms/     *)
(* admin) and the server that it saves to, FormEditing.                    *)
(*                                                                         *)
(* The page works on its own copy of the form, myform, which the answer to *)
(* a save replaces.  Beside it the page keeps two things that it works out *)
(* once, when it opens: the settings that its inputs show, tempForm, and   *)
(* the megabytes left for attachments, attachmentsTotal.                   *)
(*                                                                         *)
(* What the page promises has limits: a second request while one is under  *)
(* way ("overlap"), a request that fails ("failure"), and one that fails   *)
(* for the page but is saved all the same ("unnoticed").  The variable     *)
(* lapses tells which of them have happened, and each property says which  *)
(* of them it bears.                                                       *)
(***************************************************************************)
EXTENDS FormEditing, Integers, FiniteSets

CONSTANTS
    editor,         \* the user who is logged in
    theForm,        \* the form that the page edits
    AttachmentSizes,    \* in MB: Attachment.sizes
    attachmentsMax, \* in MB: 7, and 20 in encrypt mode
    fieldsOf,       \* the fields in the conditions and effects of each rule
    Positions,      \* bound: where fields are dragged to
    Collaborators,  \* bound: whose role is changed
    MaxWaiting      \* bound: requests under way at once

ASSUME BuilderAssumption ==
    /\ editor \in Users
    /\ AttachmentSizes \subseteq Nat \ {0}
    /\ attachmentsMax \in Nat
    /\ theForm \in OriginalForms
    /\ fieldsOf \in [Rules -> SUBSET FieldIds]

VARIABLES
    myform,             \* the page's copy of the form, None if it is closed
    tempForm,           \* the settings that its inputs show
    attachmentsTotal,   \* the megabytes left for attachments
    modal,              \* the modal in which a field is edited
    activating,         \* the modal before the form goes public is open
    btnLiveState,       \* 1: unpressed, 2: pressed; loading
    waiting,            \* the requests that have had no answer yet
    made,               \* what each request was made for
    lapses              \* see above

fieldVars == <<attachmentsTotal, modal>>
settingVars == <<tempForm, activating, btnLiveState>>
pageVars == <<myform, fieldVars, settingVars, waiting, made, lapses>>
builderVars == <<vars, pageVars>>

BuilderInit ==
    /\ Init
    /\ myform = None
    /\ tempForm = None
    /\ attachmentsTotal = 0
    /\ modal = None
    /\ activating = FALSE
    /\ btnLiveState = 1
    /\ waiting = {}
    /\ made = [r \in Requests |-> "none"]
    /\ lapses = {}

Fields(form) ==
    LET fields == form.lists.form_fields
    IN  {fields[i] : i \in DOMAIN fields}

SizeOf(field) == IF field.fieldType = "attachment" THEN field.content ELSE 0

AttachmentsSize(form) ==
    LET fields == form.lists.form_fields
    IN  FoldLeftDomain(LAMBDA total, i : total + SizeOf(fields[i]), 0, fields)

(* The page has counted the attachments of the forms that there are, and   *)
(* named their fields.                                                     *)
ASSUME InitialFormsAssumption ==
    \A f \in InitialForms :
        LET fields == f.lists.form_fields
        IN  /\ \A i \in DOMAIN fields : fields[i].globalId \in OriginalFields
            /\ \A i, j \in DOMAIN fields :
                  fields[i].globalId = fields[j].globalId => i = j
            /\ AttachmentsSize(f) <= attachmentsMax

(* The page shows the form that the server read for it.                    *)
ViewForm ==
    /\ myform = None
    /\ IsActive(forms[theForm])
    /\ CanWrite(forms[theForm].lists, editor)
    /\ myform' = forms[theForm]
    /\ tempForm' = myform'.settings
    /\ attachmentsTotal' = attachmentsMax - AttachmentsSize(myform')
    /\ UNCHANGED <<vars, modal, activating, btnLiveState, waiting, made, lapses>>

-----------------------------------------------------------------------------
(* updateForm: AdminFormController and FormApi.update *)

Nothing == [editFormField |-> None, form_logics |-> None,
            permissionList |-> None, settings |-> <<>>]

EditOf(action, field, position) ==
    [Nothing EXCEPT !.editFormField =
        [name |-> action, field |-> field, position |-> position]]

Update(body) == [user |-> editor, method |-> "update", id |-> theForm,
                 responseMode |-> "email", body |-> body]

(* None is no record.                                                      *)
Modals == [field : Field, previous : Nat, attachmentSize : Int,
           saveInProgress : BOOLEAN]

FieldEdits == [name : EditFieldActions, field : Field, position : Nat \ {0}]

Bodies == [editFormField : FieldEdits \cup {None},
           form_logics : (SUBSET Rules) \cup {None},
           permissionList : [Users -> Permissions] \cup {None},
           settings : {[s \in names |-> shown[s]] :
                           names \in SUBSET SettingNames, shown \in Settings}]

ASSUME RecordsAssumption ==
    /\ None \notin Modals \cup FieldEdits
    /\ None \notin [user : Users, method : Methods, id : FormIds,
                    responseMode : {"email", "encrypt"}, body : Bodies]

Send(purpose, body) ==
    \E r \in Requests :
        /\ Cardinality(waiting) < MaxWaiting
        /\ Post(r, Update(body))
        /\ waiting' = waiting \cup {r}
        /\ made' = [made EXCEPT ![r] = purpose]
        /\ lapses' = IF waiting = {} THEN lapses ELSE lapses \cup {"overlap"}

(* The page is open, and nothing is open over it.                          *)
IsFree == myform # None /\ modal = None /\ ~activating

-----------------------------------------------------------------------------
(* The Build tab: edit-form.client.directive.js and the modal of a field,  *)
(* edit-fields-modal.client.controller.js                                  *)

(* isDisabledField; MyInfo fields are offered to forms with SingPass.      *)
CanAdd(type) ==
    CASE type = "attachment" -> ~myform.settings.webhook
      [] type = "myInfo" -> /\ myform.settings.authType = "SP"
                            /\ myform.responseMode = "email"
      [] OTHER -> TRUE

OpenModal(field) ==
    LET previous == IF field.globalId = None THEN 0 ELSE SizeOf(field)
    IN  modal' = [field |-> field, previous |-> previous,
                  attachmentSize |-> attachmentsTotal + previous,
                  saveInProgress |-> FALSE]

AddNewField(type) ==
    /\ IsFree
    /\ CanAdd(type)
    /\ OpenModal([globalId |-> None, fieldType |-> type, content |-> 0])
    /\ UNCHANGED <<vars, myform, attachmentsTotal, settingVars,
                   waiting, made, lapses>>

OpenEditModal(field) ==
    /\ IsFree
    /\ field \in Fields(myform)
    /\ OpenModal(field)
    /\ UNCHANGED <<vars, myform, attachmentsTotal, settingVars,
                   waiting, made, lapses>>

(* disableSave *)
DisableSave(content) ==
    modal.field.fieldType = "attachment" /\ modal.attachmentSize < content

(* What the inputs of the modal can hold.                                  *)
Contents(field) ==
    IF field.fieldType = "attachment" THEN AttachmentSizes
                                      ELSE {field.content + 1}

(* The budget is charged before the field is saved.                        *)
SaveField ==
    /\ myform # None
    /\ modal # None
    /\ ~modal.saveInProgress
    /\ \E content \in Contents(modal.field) :
          LET field == [modal.field EXCEPT !.content = content]
          IN  /\ ~DisableSave(content)
              /\ attachmentsTotal' =
                     attachmentsTotal - SizeOf(field) + modal.previous
              /\ Send("modal",
                      EditOf(IF field.globalId = None THEN "CREATE"
                                                      ELSE "UPDATE",
                             field, 1))
    /\ modal' = [modal EXCEPT !.saveInProgress = TRUE]
    /\ UNCHANGED <<myform, settingVars>>

CancelField ==
    /\ myform # None
    /\ modal # None
    /\ ~modal.saveInProgress
    /\ modal' = None
    /\ UNCHANGED <<vars, myform, attachmentsTotal, settingVars,
                   waiting, made, lapses>>

(* Mutant: the size of the field is not given back.                        *)
DeleteField_KeepsSize(field) ==
    /\ IsFree
    /\ field \in Fields(myform)
    /\ Send("field", EditOf("DELETE", field, 1))
    /\ UNCHANGED <<myform, fieldVars, settingVars>>

(* handleDeleteField; the warning about logic only asks once more.         *)
DeleteField(field) ==
    /\ IsFree
    /\ field \in Fields(myform)
    /\ Send("field", EditOf("DELETE", field, 1))
    /\ attachmentsTotal' = attachmentsTotal + SizeOf(field)
    /\ UNCHANGED <<myform, modal, settingVars>>

(* duplicateField *)
Copied(field) == EditOf("DUPLICATE", [field EXCEPT !.globalId = None], 1)

(* isCondition, isHidden *)
IsLogicField(field) ==
    \E rule \in myform.lists.form_logics : field.globalId \in fieldsOf[rule]

(* tryDuplicateField: there must be room for another attachment of the     *)
(* size, or the admin is told that there is not.                           *)
DuplicateField(field) ==
    /\ IsFree
    /\ field \in Fields(myform)
    /\ ~IsLogicField(field)
    /\ attachmentsTotal >= SizeOf(field)
    /\ Send("field", Copied(field))
    /\ attachmentsTotal' = attachmentsTotal - SizeOf(field)
    /\ UNCHANGED <<myform, modal, settingVars>>

(* A field with logic is duplicated by the confirmation of a warning: the  *)
(* room is not looked at, and not charged.                                 *)
DuplicateLogicField(field) ==
    /\ IsFree
    /\ field \in Fields(myform)
    /\ IsLogicField(field)
    /\ Send(IF SizeOf(field) = 0 THEN "field" ELSE "uncharged", Copied(field))
    /\ UNCHANGED <<myform, fieldVars, settingVars>>

ReorderField(field, position) ==
    /\ IsFree
    /\ position \in DOMAIN myform.lists.form_fields
    /\ field \in Fields(myform) \ {myform.lists.form_fields[position]}
    /\ Send("field", EditOf("REORDER", field, position))
    /\ UNCHANGED <<myform, fieldVars, settingVars>>

-----------------------------------------------------------------------------
(* The Logic tab and the collaborators send the whole array.  A change of  *)
(* the rules is made in myform before it is sent, and stays there if it is *)
(* not saved.                                                              *)

SaveLogic(rules) ==
    /\ IsFree
    /\ rules # myform.lists.form_logics
    /\ Send("logic", [Nothing EXCEPT !.form_logics = rules])
    /\ myform' = [myform EXCEPT !.lists.form_logics = rules]
    /\ UNCHANGED <<fieldVars, settingVars>>

(* saveCollabEmail, deleteCollabEmail, updateRole *)
SaveCollaborator(user, permission) ==
    LET permissionList == myform.lists.permissionList
    IN  /\ IsFree
        /\ user \notin {editor, myform.lists.admin}
        /\ permissionList[user] # permission
        /\ Send("collaborators",
                [Nothing EXCEPT !.permissionList =
                    [permissionList EXCEPT ![user] = permission]])
        /\ UNCHANGED <<myform, fieldVars, settingVars>>

-----------------------------------------------------------------------------
(* The Settings tab: settings-form.client.directive.js *)

(* What the inputs let the admin change.                                   *)
CanChange(setting, value) ==
    LET isPublic == myform.settings.status = "PUBLIC"
    IN  CASE setting = "hasCaptcha" -> TRUE
          [] setting = "authType" ->
                ~isPublic /\ ~(tempForm.authType = "SP" /\ Has(myform, "myInfo"))
          [] setting = "esrvcId" ->
                /\ value
                /\ tempForm.authType # "NIL"
                /\ ~(isPublic /\ myform.settings.esrvcId)
          [] setting = "webhook" ->
                /\ myform.responseMode = "encrypt"
                /\ ~isPublic
                /\ ~Has(myform, "attachment")
          [] setting = "status" -> FALSE

(* getCurrentSettings: what the inputs show and the page's copy has not.   *)
CurrentSettings(shown) ==
    [s \in {t \in SettingNames : shown[t] # myform.settings[t]} |-> shown[s]]

(* updateSettings *)
SendSettings(purpose, shown) ==
    /\ Send(purpose, [Nothing EXCEPT !.settings = CurrentSettings(shown)])
    /\ tempForm' = shown

(* saveForm, updateSettingsByPath *)
ChangeSetting(setting, value) ==
    /\ IsFree
    /\ CanChange(setting, value)
    /\ tempForm[setting] # value
    /\ SendSettings(setting, [tempForm EXCEPT ![setting] = value])
    /\ UNCHANGED <<myform, fieldVars, activating, btnLiveState>>

CanToggle ==
    /\ btnLiveState = 1
    /\ ~(/\ myform.settings.status = "PRIVATE"
         /\ myform.settings.authType # "NIL"
         /\ ~myform.settings.esrvcId)
    /\ tempForm.authType # "NIL" => tempForm.esrvcId

NeedsChecks ==
    /\ myform.settings.status = "PRIVATE"
    /\ myform.responseMode = "encrypt" \/ tempForm.authType # "NIL"

(* updateFormStatusAndSave *)
UpdateFormStatusAndSave ==
    /\ SendSettings("status",
           [tempForm EXCEPT !.status =
               IF @ = "PRIVATE" THEN "PUBLIC" ELSE "PRIVATE"])
    /\ btnLiveState' = 2
    /\ UNCHANGED <<myform, fieldVars>>

(* validateThenSave *)
ToggleStatus ==
    /\ IsFree
    /\ CanToggle
    /\ ~NeedsChecks
    /\ UpdateFormStatusAndSave
    /\ UNCHANGED activating

OpenActivateFormModal ==
    /\ IsFree
    /\ CanToggle
    /\ NeedsChecks
    /\ activating' = TRUE
    /\ UNCHANGED <<vars, myform, fieldVars, tempForm, btnLiveState,
                   waiting, made, lapses>>

(* The modal's checks, of the e-service id with SingPass and of the secret *)
(* key, may have either result.                                            *)
ChecksPass ==
    /\ activating
    /\ UpdateFormStatusAndSave
    /\ activating' = FALSE

CloseActivateFormModal ==
    /\ activating
    /\ activating' = FALSE
    /\ UNCHANGED <<vars, myform, fieldVars, tempForm, btnLiveState,
                   waiting, made, lapses>>

-----------------------------------------------------------------------------
(* The answer *)

(* The button of the status goes through its third state, which ends       *)
(* after a second.                                                         *)
ReceiveSuccess(r) ==
    /\ r \in waiting
    /\ reply[r] = "OK"
    /\ waiting' = waiting \ {r}
    /\ myform' = copy[r]
    /\ modal' = IF made[r] = "modal" THEN None ELSE modal
    /\ btnLiveState' = IF made[r] = "status" THEN 1 ELSE btnLiveState
    /\ UNCHANGED <<vars, attachmentsTotal, tempForm, activating, made, lapses>>

(* Mutant: the inputs keep the setting that was not saved.                 *)
RevertField_Not(r) == tempForm

(* revertField *)
RevertField(r) ==
    IF made[r] \in SettingNames THEN myform.settings ELSE tempForm

(* An error, or the answer is lost.  The modal stays open.                 *)
ReceiveFailure(r) ==
    /\ r \in waiting
    /\ reply[r] # "OK"
    /\ waiting' = waiting \ {r}
    /\ tempForm' = RevertField(r)
    /\ modal' = IF made[r] = "modal"
                THEN [modal EXCEPT !.saveInProgress = FALSE] ELSE modal
    /\ lapses' = lapses \cup {"failure"}
    /\ UNCHANGED <<vars, myform, attachmentsTotal, activating, btnLiveState,
                   made>>

LeavePage ==
    /\ myform # None
    /\ myform' = None
    /\ tempForm' = None
    /\ attachmentsTotal' = 0
    /\ modal' = None
    /\ activating' = FALSE
    /\ btnLiveState' = 1
    /\ waiting' = {}
    /\ lapses' = IF waiting = {} THEN lapses ELSE lapses \cup {"overlap"}
    /\ UNCHANGED <<vars, made>>

(* What is saved is unnoticed if the page is told of an error, or was.     *)
IsUnnoticed(r) == forms' # forms /\ (reply'[r] # "OK" \/ r \notin waiting)

HandleForPage ==
    /\ \E r \in Requests :
          /\ Handle(r)
          /\ lapses' = IF IsUnnoticed(r) THEN lapses \cup {"unnoticed"}
                                        ELSE lapses
    /\ UNCHANGED <<myform, fieldVars, settingVars, waiting, made>>

(* The fields on the page, none while it is closed.                        *)
PageFields == IF myform = None THEN {} ELSE Fields(myform)

BuilderNext ==
    \/ ViewForm
    \/ \E type \in {"text", "attachment", "myInfo"} : AddNewField(type)
    \/ \E field \in PageFields : OpenEditModal(field)
    \/ SaveField
    \/ CancelField
    \/ \E field \in PageFields : DeleteField(field)
    \/ \E field \in PageFields : DuplicateField(field)
    \/ \E field \in PageFields : DuplicateLogicField(field)
    \/ \E field \in PageFields, i \in Positions : ReorderField(field, i)
    \/ \E rules \in SUBSET Rules : SaveLogic(rules)
    \/ \E user \in Collaborators, permission \in Permissions :
          SaveCollaborator(user, permission)
    \/ \E setting \in SettingNames :
          \E value \in SettingValues[setting] : ChangeSetting(setting, value)
    \/ ToggleStatus
    \/ OpenActivateFormModal
    \/ ChecksPass
    \/ CloseActivateFormModal
    \/ \E r \in Requests : ReceiveSuccess(r)
    \/ \E r \in Requests : ReceiveFailure(r)
    \/ LeavePage
    \/ HandleForPage

BuilderSpec == BuilderInit /\ [][BuilderNext]_builderVars

-----------------------------------------------------------------------------
(* Properties *)

(* The page's copy has the shape of a form, its inputs that of settings,   *)
(* and only requests that were sent are waited for.                        *)
PageTypeOK ==
    /\ TypeOK
    /\ lapses \subseteq {"overlap", "failure", "unnoticed"}
    /\ attachmentsTotal \in Int
    /\ btnLiveState \in 1..2
    /\ \A r \in waiting : made[r] # "none" /\ stage[r] # "unsent"
    /\ myform # None => myform \in Form /\ tempForm \in Settings

NoUncharged == \A r \in Requests : made[r] # "uncharged"

(* One request at a time, and none that failed: the attachments of the     *)
(* form never exceed what one submission may hold, however the admin adds, *)
(* edits, duplicates and deletes them, and leaves the page and comes back. *)
(* Copies of fields that have logic are not counted by the page.           *)
AttachmentsFit ==
    (lapses \subseteq {"unnoticed"} /\ NoUncharged)
        => AttachmentsSize(forms[theForm]) <= attachmentsMax

(* In the same circumstances a page that waits for no answer shows the     *)
(* form as it is in the database, its inputs the settings that it has, and *)
(* its budget the megabytes that are left.                                 *)
PageShowsForm ==
    (lapses = {} /\ NoUncharged /\ myform # None /\ waiting = {}) =>
        /\ myform.lists = forms[theForm].lists
        /\ tempForm = forms[theForm].settings
        /\ attachmentsTotal = attachmentsMax - AttachmentsSize(forms[theForm])

(* The page's form, its inputs and its budget agree with the database, and *)
(* the form with the limit that the budget stands for.                     *)
PageInOrder == AttachmentsFit /\ PageShowsForm

(* One request at a time: a save changes the setting that the admin has    *)
(* just changed, and no other.  A request that failed leaves nothing       *)
(* behind that the next one would save, unless it was saved itself: the    *)
(* inputs then keep what it changed as it was before, and a later save     *)
(* changes that back.                                                      *)
SettingsOnPurpose ==
    [][\A s \in SettingNames :
          (/\ forms'[theForm].settings[s] # forms[theForm].settings[s]
           /\ lapses \subseteq {"failure"})
              => \E r \in Requests :
                    /\ stage[r] = "saving" /\ stage'[r] = "done"
                    /\ made[r] = s]_builderVars
=============================================================================
