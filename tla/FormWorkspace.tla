----------------------------- MODULE FormWorkspace -----------------------------
(***************************************************************************)
(* The page with the forms of an admin (list-forms.client.controller.js),  *)
(* the modals that create, duplicate and delete one, and the handlers of   *)
(* FormEditing that they call.                                             *)
(*                                                                         *)
(* The list is read once.  After that the page keeps it up by itself, from *)
(* the answers to its requests: a modal that was closed does not stop the  *)
(* request that it had sent, a deletion remembers a place in the list and  *)
(* not a form, and other requests, of other pages or other people, come    *)
(* between.  The variable lapses tells what of this happened.              *)
(***************************************************************************)
EXTENDS FormEditing

CONSTANTS
    owner,          \* the admin at the page
    Elsewhere       \* the calls that others make meanwhile

VARIABLES
    place,          \* the page he is at
    myforms,        \* the list, as the last page of it has it
    titles,         \* of the forms: a name, and the numbers of its copies
    deleteModal,
    previewing,     \* the mode and the form of the modal that is prepared
    createModal,
    asked,          \* the page's requests whose answer is still to come
    lapses          \* see above

modalVars == <<deleteModal, previewing, createModal>>
pageVars == <<place, myforms, titles, modalVars, asked, lapses>>
workspaceVars == <<vars, pageVars>>

PageInit ==
    /\ place = "loading"
    /\ myforms = <<>>
    /\ titles = [id \in FormIds |-> [name |-> id, copies |-> <<>>]]
    /\ deleteModal = None
    /\ previewing = None
    /\ createModal = None
    /\ asked = [r \in Requests |-> None]
    /\ lapses = {}

-----------------------------------------------------------------------------
(* The list *)

(* list *)
ListOf(user) ==
    {id \in FormIds : IsActive(forms[id]) /\ CanRead(forms[id].lists, user)}

NothingAsked == \A r \in Requests : asked[r] = None

NothingUnderWay ==
    /\ NothingAsked /\ previewing = None /\ createModal = None
    /\ \A r \in Requests : stage[r] \in {"unsent", "done"}

(* The new ones come before those of the list old, which keep their order. *)
ContinuesList(list, old) ==
    \A i, j \in DOMAIN list :
        i < j /\ list[i] \in ToSet(old) =>
            \E k, l \in DOMAIN old :
                k < l /\ old[k] = list[i] /\ old[l] = list[j]

(* The forms come by lastModified, which is not kept here: in any order.   *)
(* Bound: those that the page had before keep theirs.  The answers to      *)
(* older requests are for a list that is gone.                             *)
ListForms ==
    /\ place = "loading"
    /\ place' = "list"
    /\ \E list \in SetToSeqs(ListOf(owner)) :
          ContinuesList(list, myforms) /\ myforms' = list
    /\ asked' = [r \in Requests |-> IF asked[r] = None THEN None
                                    ELSE [asked[r] EXCEPT !.live = FALSE]]
    /\ lapses' = IF NothingUnderWay THEN {} ELSE lapses \cup {"overlap"}
    /\ UNCHANGED <<vars, titles, modalVars>>

(* redirect of FormErrorService                                            *)
ListFails ==
    /\ place = "loading"
    /\ place' = "error"
    /\ UNCHANGED <<vars, myforms, titles, modalVars, asked, lapses>>

(* A modal covers the page.                                                *)
Clickable == createModal = None /\ deleteModal = None

(* From the list he goes on, and from everywhere else back to it; bound:   *)
(* not while a modal is being prepared, which would open where he is then. *)
GoTo(p) ==
    /\ Clickable /\ previewing = None
    /\ IF place = "list" THEN p # "loading"
                         ELSE place # "loading" /\ p = "loading"
    /\ place' = p
    /\ UNCHANGED <<vars, myforms, titles, modalVars, asked, lapses>>

-----------------------------------------------------------------------------
(* Deletion *)

Overlap ==
    IF NothingAsked /\ previewing = None THEN {} ELSE {"overlap"}

(* The trash can is shown on the forms of which he is the admin.           *)
OpenDeleteModal(index) ==
    /\ place = "list" /\ Clickable
    /\ index \in DOMAIN myforms
    /\ forms[myforms[index]].lists.admin = owner
    /\ deleteModal' = [currForm |-> myforms[index], formIndex |-> index,
                       requests |-> {}]
    /\ lapses' = lapses \cup Overlap
    /\ UNCHANGED <<vars, place, myforms, titles, previewing, createModal, asked>>

CancelDelete ==
    /\ deleteModal # None /\ createModal = None
    /\ deleteModal' = None
    /\ UNCHANGED <<vars, place, myforms, titles, previewing, createModal, asked,
                   lapses>>

Call(method, id, responseMode) ==
    [user |-> owner, method |-> method, id |-> id,
     responseMode |-> responseMode,
     body |-> [editFormField |-> None, form_logics |-> None,
               permissionList |-> None, settings |-> <<>>]]

ASSUME WorkspaceAssumption ==
    /\ owner \in Users
    /\ \A call \in Elsewhere : IsSendable(call)
    /\ \A method \in Methods, id \in FormIds, mode \in {"email", "encrypt"} :
          Call(method, id, mode) # None
    /\ None \notin [formIndex : Nat, preview : Form \cup {None}, live : BOOLEAN]
    /\ IsFiniteSet(FormIds)

(* It is the form at that place now that is deleted.                       *)
DeleteForm(r) ==
    /\ deleteModal # None /\ createModal = None
    /\ deleteModal.formIndex \in DOMAIN myforms
    /\ Post(r, Call("delete", myforms[deleteModal.formIndex], "email"))
    /\ asked' = [asked EXCEPT ![r] = [formIndex |-> deleteModal.formIndex,
                                      preview |-> None, live |-> TRUE]]
    /\ deleteModal' = [deleteModal EXCEPT !.requests = @ \cup {r}]
    /\ lapses' = lapses \cup Overlap
    /\ UNCHANGED <<place, myforms, titles, previewing, createModal>>

Answered(r, method) ==
    asked[r] # None /\ stage[r] = "done" /\ request[r].method = method

Failed(r) == IF reply[r] \in Failures THEN {"failure"} ELSE {}

Heard(r) ==
    /\ asked' = [asked EXCEPT ![r] = None]
    /\ lapses' = lapses \cup Failed(r)
    /\ UNCHANGED vars

(* Mutant: the list is left as it was.                                     *)
FormDeleted_Kept(r) ==
    /\ Answered(r, "delete") /\ reply[r] = "OK"
    /\ deleteModal' = IF deleteModal # None /\ r \in deleteModal.requests
                      THEN None ELSE deleteModal
    /\ Heard(r)
    /\ UNCHANGED <<place, myforms, titles, previewing, createModal>>

FormDeleted(r) ==
    /\ Answered(r, "delete") /\ reply[r] = "OK"
    /\ myforms' = IF asked[r].live /\ asked[r].formIndex \in DOMAIN myforms
                  THEN RemoveAt(myforms, asked[r].formIndex) ELSE myforms
    /\ deleteModal' = IF deleteModal # None /\ r \in deleteModal.requests
                      THEN None ELSE deleteModal
    /\ Heard(r)
    /\ UNCHANGED <<place, titles, previewing, createModal>>

FormNotDeleted(r) ==
    /\ Answered(r, "delete") /\ reply[r] # "OK"
    /\ Heard(r)
    /\ UNCHANGED <<place, myforms, titles, modalVars>>

-----------------------------------------------------------------------------
(* Creation *)

(* determineDuplicateFormTitle *)
DuplicateTitle(title) ==
    LET Numbered(n) == [title EXCEPT !.copies = Append(@, n)]
        taken(n) == \E i \in DOMAIN myforms : titles[myforms[i]] = Numbered(n)
    IN  Numbered(CHOOSE n \in 1..(Len(myforms) + 1) :
                    ~taken(n) /\ \A m \in 1..(n - 1) : taken(m))

PreventStorageModeDuplication(form) ==
    \E i \in DOMAIN form.lists.form_fields :
        form.lists.form_fields[i].fieldType = "myInfo"

(* formStatus is 1 for the choice of the mode, 2 while something is under  *)
(* way, and 3 when the secret key is shown.                                *)
NewForm(mode, id, preview, title) ==
    [mode |-> mode, id |-> id, preview |-> preview, title |-> title,
     isEncryptModeEnabled |->
         preview = None \/ ~PreventStorageModeDuplication(preview),
     formStatus |-> 1, hasSavedKey |-> FALSE, request |-> None]

(* The title is what he enters: one of his own.                            *)
OpenCreateModal ==
    /\ place = "list" /\ Clickable /\ previewing = None
    /\ createModal' = NewForm("create", None, None, None)
    /\ UNCHANGED <<vars, place, myforms, titles, deleteModal, previewing, asked,
                   lapses>>

DuplicateForm(index) ==
    /\ place = "list" /\ Clickable /\ previewing = None
    /\ index \in DOMAIN myforms
    /\ previewing' = [mode |-> "duplicate", id |-> myforms[index]]
    /\ UNCHANGED <<vars, place, myforms, titles, deleteModal, createModal, asked,
                   lapses>>

(* From the examples page, which ExampleForms models.                      *)
UseTemplate(id) ==
    /\ place = "examples" /\ Clickable /\ previewing = None
    /\ previewing' = [mode |-> "copy", id |-> id]
    /\ UNCHANGED <<vars, place, myforms, titles, deleteModal, createModal, asked,
                   lapses>>

(* A template is a form that is public, for any admin.                     *)
CanPreview(mode, form) ==
    /\ IsActive(form)
    /\ CASE mode = "duplicate" -> CanRead(form.lists, owner)
         [] mode = "copy" -> form.settings.status = "PUBLIC"

CreatedTitle(mode, title) ==
    CASE mode = "duplicate" -> DuplicateTitle(title)
      [] mode = "copy" -> [title EXCEPT !.name = <<"Template_", @>>]

(* He may have opened the other modal meanwhile; this one is above it.     *)
PreviewShown ==
    /\ previewing # None
    /\ LET mode == previewing.mode
           id == previewing.id
       IN  /\ CanPreview(mode, forms[id])
           /\ createModal' = NewForm(mode, id, forms[id],
                                     CreatedTitle(mode, titles[id]))
    /\ previewing' = None
    /\ lapses' = IF NothingAsked THEN lapses ELSE lapses \cup {"overlap"}
    /\ UNCHANGED <<vars, place, myforms, titles, deleteModal, asked>>

(* Not found, forbidden or failed.                                         *)
PreviewFails ==
    /\ previewing # None
    /\ previewing' = None
    /\ place' = "error"
    /\ UNCHANGED <<vars, myforms, titles, deleteModal, createModal, asked, lapses>>

CloseCreateModal ==
    /\ createModal # None
    /\ createModal' = None
    /\ UNCHANGED <<vars, place, myforms, titles, deleteModal, previewing, asked,
                   lapses>>

InModal(status, hasSavedKey) ==
    /\ createModal' = [createModal EXCEPT !.formStatus = status,
                                          !.hasSavedKey = hasSavedKey]
    /\ UNCHANGED <<vars, place, myforms, titles, deleteModal, previewing, asked,
                   lapses>>

ChooseStorageMode ==
    /\ createModal # None
    /\ createModal.formStatus = 1 /\ createModal.isEncryptModeEnabled
    /\ InModal(2, FALSE)

KeysGenerated ==
    /\ createModal # None
    /\ createModal.formStatus = 2 /\ createModal.request = None
    /\ InModal(3, FALSE)

DownloadFile ==
    /\ createModal # None
    /\ createModal.formStatus = 3 /\ ~createModal.hasSavedKey
    /\ InModal(3, TRUE)

(* createNewForm and generateForm                                          *)
CreateNewForm(r) ==
    /\ createModal # None
    /\ \/ createModal.formStatus = 1
       \/ createModal.formStatus = 3 /\ createModal.hasSavedKey
    /\ Post(r, Call(createModal.mode,
                    IF createModal.id = None THEN r ELSE createModal.id,
                    IF createModal.formStatus = 3 THEN "encrypt" ELSE "email"))
    /\ titles' = IF createModal.title = None THEN titles
                 ELSE [titles EXCEPT ![r] = createModal.title]
    /\ asked' = [asked EXCEPT ![r] = [formIndex |-> 0, live |-> TRUE,
                                      preview |-> createModal.preview]]
    /\ createModal' = [createModal EXCEPT !.formStatus = 2, !.request = r]
    /\ lapses' = lapses \cup Overlap
    /\ UNCHANGED <<place, myforms, deleteModal, previewing>>

ModalClosed(r) ==
    createModal' = IF createModal # None /\ createModal.request = r
                   THEN None ELSE createModal

(* handleDuplicateSuccess *)
FormDuplicated(r) ==
    /\ Answered(r, "duplicate") /\ reply[r] = "OK"
    /\ myforms' = IF asked[r].live THEN <<r>> \o myforms ELSE myforms
    /\ ModalClosed(r)
    /\ Heard(r)
    /\ UNCHANGED <<place, titles, deleteModal, previewing>>

(* The modal goes on showing that the form is being created.               *)
FormNotDuplicated(r) ==
    /\ Answered(r, "duplicate") /\ reply[r] # "OK"
    /\ Heard(r)
    /\ UNCHANGED <<place, myforms, titles, modalVars>>

(* He is taken to the form, from wherever he is; or to the error page, and *)
(* the modal is closed all the same: the promise of the redirection counts *)
(* as the form.                                                            *)
FormCreated(r) ==
    /\ Answered(r, "create") \/ Answered(r, "copy")
    /\ place' = IF reply[r] = "OK" THEN "builder" ELSE "error"
    /\ ModalClosed(r)
    /\ Heard(r)
    /\ UNCHANGED <<myforms, titles, deleteModal, previewing>>

-----------------------------------------------------------------------------

Meanwhile(r) ==
    /\ \E call \in Elsewhere : Post(r, call)
    /\ lapses' = lapses \cup {"elsewhere"}
    /\ UNCHANGED <<place, myforms, titles, modalVars, asked>>

PageNext ==
    \/ ListForms \/ ListFails
    \/ \E p \in {"loading", "examples", "builder"} : GoTo(p)
    \/ \E index \in DOMAIN myforms :
          OpenDeleteModal(index) \/ DuplicateForm(index)
    \/ CancelDelete \/ OpenCreateModal \/ PreviewShown \/ PreviewFails
    \/ \E id \in OriginalForms : UseTemplate(id)
    \/ CloseCreateModal \/ ChooseStorageMode \/ KeysGenerated
    \/ DownloadFile
    \/ \E r \in Requests :
          \/ DeleteForm(r) \/ FormDeleted(r) \/ FormNotDeleted(r)
          \/ CreateNewForm(r) \/ FormDuplicated(r) \/ FormNotDuplicated(r)
          \/ FormCreated(r)
          \/ Meanwhile(r)
          \/ Handle(r) /\ UNCHANGED pageVars

-----------------------------------------------------------------------------
(* Properties *)

Undisturbed == lapses = {} /\ NothingAsked

(* The list on the page is the list in the database, each form in it once. *)
ListIsCurrent ==
    place = "list" /\ Undisturbed =>
        /\ ToSet(myforms) = ListOf(owner)
        /\ IsInjective(myforms)

(* A duplicate gets a title that no other form in the list has.            *)
TitlesDiffer ==
    createModal # None /\ createModal.mode = "duplicate"
    /\ createModal.request = None /\ lapses = {} =>
        \A i \in DOMAIN myforms : titles[myforms[i]] # createModal.title

(* The form that the modal would delete is the one that it names.          *)
NamedIsDeleted ==
    deleteModal # None /\ lapses = {} /\ deleteModal.requests = {} =>
        myforms[deleteModal.formIndex] = deleteModal.currForm

(* What the modal offers for a form the server accepts, unless the form is *)
(* not as it was shown, or has been saved over: storage mode is offered to *)
(* forms that can have it.                                                 *)
RefusedOnlyIfChanged ==
    \A r \in Requests :
        asked[r] # None /\ asked[r].preview # None
        /\ reply[r] = "UNPROCESSABLE_ENTITY"
        /\ request[r].id \notin overwritten
            => forms[request[r].id] # asked[r].preview

(* The page that keeps its list up by itself agrees with the server, after *)
(* any number of its requests, as long as it makes them one after the      *)
(* other, with none failing and nobody else at work.                       *)
WorkspaceInOrder ==
    ListIsCurrent /\ TitlesDiffer /\ NamedIsDeleted /\ RefusedOnlyIfChanged
=============================================================================
