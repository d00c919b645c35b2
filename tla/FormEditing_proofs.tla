--------------------------- MODULE FormEditing_proofs ---------------------------
(***************************************************************************)
(* Proofs about the requests that edit forms: what the handlers keep of a  *)
(* form, and that they edit its arrays as FormLists promises.              *)
(*                                                                         *)
(* A form is edited in a copy, so the invariants relate three states of    *)
(* it: as the handler read it, as it edited it, and as the database has    *)
(* it now.                                                                 *)
(***************************************************************************)
EXTENDS FormEditing, Integers, SequenceTheorems, FiniteSetTheorems,
        WellFoundedInduction, TLAPS

-----------------------------------------------------------------------------
(* Least elements, by well-founded induction over sets of numbers *)

LessThan == {p \in Nat \X Nat : p[1] < p[2]}

(* Every set of numbers has a least one: the indices that SelectInSeq      *)
(* chooses the least of are such a set.                                    *)
LEMMA LeastExists ==
  ASSUME NEW T \in SUBSET Nat, T # {}
  PROVE  \E n \in T : \A m \in T : n <= m
<1>1. IsWellFoundedOn(LessThan, Nat)
  BY NatLessThanWellFounded DEF OpToRel, LessThan
<1>2. PICK n \in T : \A m \in T : <<m, n>> \notin LessThan
  BY <1>1, WFMin
<1>3. ASSUME NEW m \in T
      PROVE  n <= m
  <2>1. m \in Nat /\ n \in Nat
    OBVIOUS
  <2>2. CASE m < n
    BY <1>2, <2>1, <2>2 DEF LessThan
  <2>. QED  BY <2>1, <2>2
<1>. QED  BY <1>3

(* The position of a field is that of the first with its globalId, and 0   *)
(* if there is none.                                                       *)
LEMMA PositionFound ==
  ASSUME NEW fields \in Seq(FormField), NEW id
  PROVE  \/ /\ PositionOf(fields, id) = 0
            /\ \A i \in 1..Len(fields) : fields[i].globalId # id
         \/ /\ PositionOf(fields, id) \in 1..Len(fields)
            /\ fields[PositionOf(fields, id)].globalId = id
<1>. DEFINE I == {i \in 1..Len(fields) : fields[i].globalId = id}
<1>1. PositionOf(fields, id)
        = IF I # {} THEN CHOOSE x \in I : \A y \in I : x <= y ELSE 0
  BY DEF PositionOf, SelectInSeq, Min
<1>2. CASE I = {}
  BY <1>1, <1>2
<1>3. CASE I # {}
  <2>1. \E n \in I : \A m \in I : n <= m
    <3>1. I \in SUBSET Nat
      OBVIOUS
    <3>. QED  BY <1>3, <3>1, LeastExists
  <2>2. PositionOf(fields, id) \in I
    <3>. HIDE DEF I
    <3>. QED  BY <1>1, <1>3, <2>1
  <2>. QED  BY <2>2
<1>. QED  BY <1>2, <1>3

-----------------------------------------------------------------------------
(* The operations on the list of fields *)

LEMMA Removed ==
  ASSUME NEW S, NEW s \in Seq(S), NEW i \in 1..Len(s)
  PROVE  /\ RemoveAt(s, i) \in Seq(S)
         /\ Len(RemoveAt(s, i)) = Len(s) - 1
         /\ \A j \in 1..(Len(s) - 1) :
               RemoveAt(s, i)[j] = s[IF j < i THEN j ELSE j + 1]
<1>. DEFINE a == SubSeq(s, 1, i - 1)
            b == SubSeq(s, i + 1, Len(s))
<1>1. /\ a \in Seq(S) /\ Len(a) = i - 1
      /\ \A j \in 1..(i - 1) : a[j] = s[j]
  OBVIOUS
<1>2. /\ b \in Seq(S) /\ Len(b) = Len(s) - i
      /\ \A j \in 1..(Len(s) - i) : b[j] = s[i + j]
  OBVIOUS
<1>3. RemoveAt(s, i) = a \o b
  BY DEF RemoveAt
<1>. HIDE DEF a, b
<1>4. a \o b \in Seq(S) /\ Len(a \o b) = Len(s) - 1
  <2>1. /\ a \o b \in Seq(S)
        /\ Len(a \o b) = Len(a) + Len(b)
    BY <1>1, <1>2, ConcatProperties, Zenon
  <2>. QED  BY <1>1, <1>2, <2>1
<1>5. ASSUME NEW j \in 1..(Len(s) - 1)
      PROVE  (a \o b)[j] = s[IF j < i THEN j ELSE j + 1]
  <2>1. CASE j < i
    BY <1>1, <1>2, <2>1
  <2>2. CASE ~(j < i)
    <3>1. (a \o b)[j] = b[j - (i - 1)]
      BY <1>1, <1>2, <2>2
    <3>2. b[j - (i - 1)] = s[i + (j - (i - 1))]
      BY <1>2, <2>2
    <3>. QED  BY <2>2, <3>1, <3>2
  <2>. QED  BY <2>1, <2>2
<1>. QED  BY <1>3, <1>4, <1>5

LEMMA Inserted ==
  ASSUME NEW S, NEW s \in Seq(S), NEW e \in S, NEW i \in 1..(Len(s) + 1)
  PROVE  /\ InsertAt(s, i, e) \in Seq(S)
         /\ Len(InsertAt(s, i, e)) = Len(s) + 1
         /\ \A j \in 1..(Len(s) + 1) :
               InsertAt(s, i, e)[j] = IF j < i THEN s[j]
                                      ELSE IF j = i THEN e ELSE s[j - 1]
<1>. DEFINE a == SubSeq(s, 1, i - 1)
            b == SubSeq(s, i, Len(s))
            c == a \o <<e>>
<1>1. /\ a \in Seq(S) /\ Len(a) = i - 1
      /\ \A j \in 1..(i - 1) : a[j] = s[j]
  OBVIOUS
<1>2. /\ b \in Seq(S) /\ Len(b) = Len(s) - i + 1
      /\ \A j \in 1..(Len(s) - i + 1) : b[j] = s[i + j - 1]
  OBVIOUS
<1>3. InsertAt(s, i, e) = c \o b
  BY DEF InsertAt
<1>. HIDE DEF a, b
<1>4. /\ c \in Seq(S) /\ Len(c) = i
      /\ \A j \in 1..(i - 1) : c[j] = s[j]
      /\ c[i] = e
  BY <1>1
<1>. HIDE DEF c
<1>5. c \o b \in Seq(S) /\ Len(c \o b) = Len(s) + 1
  <2>1. /\ c \o b \in Seq(S)
        /\ Len(c \o b) = Len(c) + Len(b)
    BY <1>2, <1>4, ConcatProperties, Zenon
  <2>. QED  BY <1>2, <1>4, <2>1
<1>6. ASSUME NEW j \in 1..(Len(s) + 1)
      PROVE  (c \o b)[j] = IF j < i THEN s[j]
                           ELSE IF j = i THEN e ELSE s[j - 1]
  <2>1. CASE j <= i
    <3>1. (c \o b)[j] = c[j]
      BY <1>2, <1>4, <2>1
    <3>. QED  BY <1>4, <2>1, <3>1
  <2>2. CASE j > i
    <3>1. (c \o b)[j] = b[j - i]
      BY <1>2, <1>4, <2>2
    <3>2. b[j - i] = s[i + (j - i) - 1]
      BY <1>2, <2>2
    <3>3. i + (j - i) - 1 = j - 1 /\ ~(j < i) /\ j # i
      BY <2>2
    <3>. QED  BY <3>1, <3>2, <3>3
  <2>3. j <= i \/ j > i
    OBVIOUS
  <2>. QED  BY <2>1, <2>2, <2>3, Zenon
<1>. QED  BY <1>3, <1>5, <1>6

LEMMA Replaced ==
  ASSUME NEW S, NEW s \in Seq(S), NEW e \in S, NEW i \in 1..Len(s)
  PROVE  /\ ReplaceAt(s, i, e) \in Seq(S)
         /\ Len(ReplaceAt(s, i, e)) = Len(s)
         /\ \A j \in 1..Len(s) :
               ReplaceAt(s, i, e)[j] = IF j = i THEN e ELSE s[j]
BY DEF ReplaceAt

Edits == [name : EditFieldActions, field : Field, position : Nat \ {0}]

LEMMA GlobalIdGiven ==
  ASSUME NEW r \in Requests, NEW field \in Field
  PROVE  WithGlobalId(field, r) \in FormField
BY DEF WithGlobalId, Field, FormField, FieldIds

(* An edit that getEditedFormFields does not refuse makes a list of fields *)
(* of a list of fields.                                                    *)
LEMMA FieldsEdited ==
  ASSUME NEW r \in Requests, NEW fields \in Seq(FormField), NEW edit \in Edits,
         ~EditError(fields, edit)
  PROVE  EditedFormFields(fields, edit, r) \in Seq(FormField)
<1>. DEFINE field == WithGlobalId(edit.field, r)
            at == PositionOf(fields, edit.field.globalId)
            to == IF edit.position > Len(fields) THEN Len(fields)
                                                 ELSE edit.position
<1>1. field \in FormField /\ edit.position \in Nat \ {0}
  BY GlobalIdGiven DEF Edits
<1>2. CASE edit.name \in {"CREATE", "DUPLICATE"}
  <2>1. EditedFormFields(fields, edit, r) = Append(fields, field)
    BY <1>2 DEF EditedFormFields
  <2>. HIDE DEF field
  <2>. QED  BY <1>1, <2>1
<1>3. CASE edit.name \notin {"CREATE", "DUPLICATE"}
  <2>1. at \in 1..Len(fields)
    BY <1>3, PositionFound DEF EditError
  <2>2. to \in 1..Len(fields)
    BY <1>1, <2>1
  <2>3. edit.name \in {"REORDER", "UPDATE", "DELETE"}
    BY <1>3 DEF Edits, EditFieldActions
  <2>4. EditedFormFields(fields, edit, r)
          \in {InsertAt(RemoveAt(fields, at), to, field),
               ReplaceAt(fields, at, field), RemoveAt(fields, at)}
    BY <2>3 DEF EditedFormFields
  <2>. HIDE DEF field, at, to
  <2>5. ReplaceAt(fields, at, field) \in Seq(FormField)
    BY <1>1, <2>1, Replaced
  <2>6. /\ RemoveAt(fields, at) \in Seq(FormField)
        /\ Len(RemoveAt(fields, at)) = Len(fields) - 1
    BY <2>1, Removed
  <2>7. InsertAt(RemoveAt(fields, at), to, field) \in Seq(FormField)
    <3>1. to \in 1..(Len(RemoveAt(fields, at)) + 1)
      BY <2>2, <2>6
    <3>. QED  BY <1>1, <2>6, <3>1, Inserted
  <2>. QED  BY <2>4, <2>5, <2>6, <2>7
<1>. QED  BY <1>2, <1>3

-----------------------------------------------------------------------------
(* The copy that an update makes *)

LEMMA FormTyped ==
  ASSUME NEW form \in Form
  PROVE  /\ form.lists \in Lists
         /\ form.lists.form_fields \in Seq(FormField)
         /\ form.lists.form_logics \in SUBSET Rules
         /\ form.lists.permissionList \in [Users -> Permissions]
         /\ form.lists.admin \in Users
         /\ form.settings \in Settings
         /\ form.responseMode \in {"email", "encrypt"}
         /\ form.__v \in Nat
         /\ form = [lists |-> form.lists, settings |-> form.settings,
                    responseMode |-> form.responseMode, __v |-> form.__v]
<1>1. form.lists \in Lists /\ form.settings \in Settings
      /\ form.responseMode \in {"email", "encrypt"} /\ form.__v \in Nat
  BY DEF Form
<1>2. form = [lists |-> form.lists, settings |-> form.settings,
              responseMode |-> form.responseMode, __v |-> form.__v]
  BY DEF Form
<1>. QED  BY <1>1, <1>2 DEF Lists

LEMMA ListsEdited ==
  ASSUME NEW r \in Requests, NEW l \in Lists, NEW body, IsUpdate(body),
         ~Inapplicable(l, body)
  PROVE  EditedLists(l, body, r) \in Lists
<1>. DEFINE e == EditedLists(l, body, r)
            fields == IF body.editFormField = None THEN l.form_fields
                      ELSE EditedFormFields(l.form_fields, body.editFormField, r)
<1>1. l.form_fields \in Seq(FormField) /\ l.admin \in Users
      /\ l.form_logics \in SUBSET Rules
      /\ l.permissionList \in [Users -> Permissions]
  BY DEF Lists
<1>2. fields \in Seq(FormField)
  <2>1. CASE body.editFormField = None
    BY <1>1, <2>1
  <2>2. CASE body.editFormField # None
    <3>1. body.editFormField \in Edits
      BY <2>2 DEF IsUpdate, Edits
    <3>2. ~EditError(l.form_fields, body.editFormField)
      BY <2>2 DEF Inapplicable
    <3>. QED  BY <1>1, <2>2, <3>1, <3>2, FieldsEdited
  <2>. QED  BY <2>1, <2>2
<1>3. e = [admin |-> l.admin, form_fields |-> fields,
           form_logics |-> IF body.form_logics = None THEN l.form_logics
                           ELSE body.form_logics,
           permissionList |-> IF body.permissionList = None
                              THEN l.permissionList ELSE body.permissionList]
  <2>1. e = [l EXCEPT !.form_fields = fields,
                      !.form_logics = IF body.form_logics = None
                                      THEN l.form_logics ELSE body.form_logics,
                      !.permissionList = IF body.permissionList = None
                                         THEN l.permissionList
                                         ELSE body.permissionList]
    BY DEF EditedLists
  <2>2. ASSUME NEW a, NEW b, NEW c
        PROVE  [l EXCEPT !.form_fields = a, !.form_logics = b,
                         !.permissionList = c]
                 = [admin |-> l.admin, form_fields |-> a, form_logics |-> b,
                    permissionList |-> c]
    <3>1. [l EXCEPT !.form_fields = a, !.form_logics = b,
                    !.permissionList = c]
            \in [admin : {l.admin}, form_fields : {a}, form_logics : {b},
                 permissionList : {c}]
      BY DEF Lists
    <3>2. ASSUME NEW x \in [admin : {l.admin}, form_fields : {a},
                            form_logics : {b}, permissionList : {c}]
          PROVE  x = [admin |-> l.admin, form_fields |-> a, form_logics |-> b,
                      permissionList |-> c]
      OBVIOUS
    <3>. QED  BY <3>1, <3>2, Zenon
  <2>. HIDE DEF fields, e
  <2>. QED  BY <2>1, <2>2
<1>4. /\ body.form_logics = None \/ body.form_logics \in SUBSET Rules
      /\ body.permissionList = None
            \/ body.permissionList \in [Users -> Permissions]
  BY DEF IsUpdate
<1>. DEFINE logics == IF body.form_logics = None THEN l.form_logics
                      ELSE body.form_logics
            list == IF body.permissionList = None
                    THEN l.permissionList ELSE body.permissionList
<1>5. logics \in SUBSET Rules /\ list \in [Users -> Permissions]
  BY <1>1, <1>4
<1>. HIDE DEF fields, e, logics, list
<1>6. [admin |-> l.admin, form_fields |-> fields, form_logics |-> logics,
       permissionList |-> list] \in Lists
  BY <1>1, <1>2, <1>5 DEF Lists
<1>. QED  BY <1>3, <1>6 DEF e, logics, list

LEMMA SettingsEdited ==
  ASSUME NEW s \in Settings, NEW body, IsUpdate(body)
  PROVE  EditedSettings(s, body) \in Settings
<1>1. /\ s.status \in {"PRIVATE", "PUBLIC", "ARCHIVED"}
      /\ s.hasCaptcha \in BOOLEAN
      /\ s.authType \in {"NIL", "SP", "CP"}
      /\ s.esrvcId \in BOOLEAN
      /\ s.webhook \in BOOLEAN
  BY DEF Settings, SettingValues
<1>2. /\ Assigned(s, "status", body) \in {"PRIVATE", "PUBLIC", "ARCHIVED"}
      /\ Assigned(s, "hasCaptcha", body) \in BOOLEAN
      /\ Assigned(s, "authType", body) \in {"NIL", "SP", "CP"}
      /\ Assigned(s, "esrvcId", body) \in BOOLEAN
      /\ Assigned(s, "webhook", body) \in BOOLEAN
  BY <1>1 DEF Assigned, IsUpdate, SettingValues
<1>3. SetStatus(s, body) \in {"PRIVATE", "PUBLIC", "ARCHIVED"}
  BY <1>2 DEF SetStatus
<1>4. SetAuthType(s, SetStatus(s, body), body) \in {"NIL", "SP", "CP"}
  BY <1>1, <1>2 DEF SetAuthType
<1>. QED  BY <1>2, <1>3, <1>4 DEF EditedSettings, Settings, SettingValues

LEMMA FormEdited ==
  ASSUME NEW r \in Requests, NEW form \in Form, NEW body, IsUpdate(body),
         ~Inapplicable(form.lists, body)
  PROVE  /\ Edited(form, body, r) \in Form
         /\ Edited(form, body, r).lists = EditedLists(form.lists, body, r)
         /\ Edited(form, body, r).settings = EditedSettings(form.settings, body)
         /\ Edited(form, body, r).responseMode = form.responseMode
         /\ Edited(form, body, r).__v = form.__v
<1>1. form.lists \in Lists /\ form.settings \in Settings
  BY FormTyped
<1>2. EditedLists(form.lists, body, r) \in Lists
      /\ EditedSettings(form.settings, body) \in Settings
  BY <1>1, ListsEdited, SettingsEdited
<1>3. Edited(form, body, r)
        = [lists |-> EditedLists(form.lists, body, r),
           settings |-> EditedSettings(form.settings, body),
           responseMode |-> form.responseMode, __v |-> form.__v]
  <2>1. ASSUME NEW a, NEW b
        PROVE  [form EXCEPT !.lists = a, !.settings = b]
                 = [lists |-> a, settings |-> b,
                    responseMode |-> form.responseMode, __v |-> form.__v]
    <3>1. [form EXCEPT !.lists = a, !.settings = b]
            \in [lists : {a}, settings : {b},
                 responseMode : {form.responseMode}, __v : {form.__v}]
      BY DEF Form
    <3>2. ASSUME NEW x \in [lists : {a}, settings : {b},
                            responseMode : {form.responseMode},
                            __v : {form.__v}]
          PROVE  x = [lists |-> a, settings |-> b,
                      responseMode |-> form.responseMode, __v |-> form.__v]
      OBVIOUS
    <3>. QED  BY <3>1, <3>2, Zenon
  <2>. QED  BY <2>1 DEF Edited
<1>. QED  BY <1>2, <1>3, FormTyped DEF Form

Archived(form) == [form EXCEPT !.settings.status = "ARCHIVED"]

LEMMA FormArchived ==
  ASSUME NEW form \in Form
  PROVE  /\ Archived(form) \in Form
         /\ Archived(form).lists = form.lists
         /\ Archived(form).settings = [form.settings EXCEPT !.status = "ARCHIVED"]
         /\ Archived(form).responseMode = form.responseMode
         /\ Archived(form).__v = form.__v
<1>1. Archived(form)
        = [lists |-> form.lists,
           settings |-> [form.settings EXCEPT !.status = "ARCHIVED"],
           responseMode |-> form.responseMode, __v |-> form.__v]
  BY FormTyped DEF Archived, Form
<1>2. [form.settings EXCEPT !.status = "ARCHIVED"] \in Settings
  BY FormTyped DEF Settings, SettingValues
<1>. QED  BY <1>1, <1>2, FormTyped DEF Form

(* The lists of a new form.                                                *)
NewLists(l, user) ==
    /\ l \in Lists
    /\ l.admin = user
    /\ l.permissionList = [u \in Users |-> "none"]

LEMMA FormDuplicated_ ==
  ASSUME NEW form \in Form, NEW u \in Users, NEW mode \in {"email", "encrypt"}
  PROVE  /\ Duplicated(form, u, mode) \in Form
         /\ NewLists(Duplicated(form, u, mode).lists, u)
         /\ Duplicated(form, u, mode).settings.status = "PRIVATE"
<1>1. Duplicated(form, u, mode).lists \in Lists
  BY FormTyped DEF Duplicated, Lists, Permissions
<1>2. Duplicated(form, u, mode).settings \in Settings
  BY FormTyped DEF Duplicated, Settings, SettingValues
<1>. QED  BY <1>1, <1>2 DEF Duplicated, Form, NewLists

LEMMA FormBlank ==
  ASSUME NEW u \in Users, NEW mode \in {"email", "encrypt"}
  PROVE  /\ Blank(u, mode) \in Form
         /\ NewLists(Blank(u, mode).lists, u)
         /\ Blank(u, mode).settings.status = "PRIVATE"
<1>1. Blank(u, mode).lists \in Lists
  BY DEF Blank, Lists, Permissions
<1>2. Blank(u, mode).settings \in Settings
  BY DEF Blank, Settings, SettingValues
<1>. QED  BY <1>1, <1>2 DEF Blank, Form, NewLists

(* Unless the copy was refused, what a form could be logged in to before   *)
(* an update it can be after it: a form that is made public has its        *)
(* e-service id already, or gets it, and none is ever taken away.          *)
LoginPossible(s) == s.status = "PUBLIC" /\ s.authType # "NIL" => s.esrvcId

LEMMA SettersKeepLogin ==
  ASSUME NEW s \in Settings, NEW call, IsSendable(call),
         s.status # "ARCHIVED", LoginPossible(s)
  PROVE  LoginPossible(EditedSettings(s, call.body))
<1>. DEFINE body == call.body
            status == SetStatus(s, body)
<1>1. /\ s.status \in {"PRIVATE", "PUBLIC"}
      /\ s.esrvcId \in BOOLEAN
      /\ s.authType \in {"NIL", "SP", "CP"}
  BY DEF Settings, SettingValues
<1>. SUFFICES ASSUME status = "PUBLIC",
                     SetAuthType(s, status, body) # "NIL"
              PROVE  Assigned(s, "esrvcId", body)
  BY DEF EditedSettings, LoginPossible
<1>2. s.authType # "NIL"
  BY DEF SetAuthType
<1>3. s.esrvcId
  <2>1. CASE s.status = "PUBLIC"
    BY <1>2, <2>1 DEF LoginPossible
  <2>2. CASE s.status = "PRIVATE"
    BY <1>2, <2>2 DEF SetStatus
  <2>. QED  BY <1>1, <2>1, <2>2
<1>. QED  BY <1>3 DEF Assigned, IsSendable

-----------------------------------------------------------------------------
(* The invariant of the handlers *)

(* A call from wherever it comes; the handlers do not ask.                 *)
GoodPost(r) == IsSendable(request'[r]) /\ Post(r, request'[r])

EditNext == \E r \in Requests : GoodPost(r) \/ Handle(r)

NewFormMade(r) ==
    /\ request[r].method \in {"duplicate", "copy", "create"}
    /\ NewLists(copy[r].lists, request[r].user)
    /\ copy[r].settings.status = "PRIVATE"

(* What a handler holds is the edit of what it read, and it read a form    *)
(* that was active and that its sender could write to.                     *)
CopyMade(r) ==
    /\ IsActive(seen[r])
    /\ CanWrite(seen[r].lists, request[r].user)
    /\ forms[request[r].id] # None
    /\ \/ /\ request[r].method = "update"
          /\ ~Inapplicable(seen[r].lists, request[r].body)
          /\ copy[r] = Edited(seen[r], request[r].body, r)
       \/ /\ request[r].method = "delete"
          /\ copy[r] = Archived(seen[r])

Handling(r) ==
    /\ request[r] # None => IsSendable(request[r])
    /\ stage[r] = "unsent" <=> request[r] = None
    /\ stage[r] = "done" <=> reply[r] # "none"
    /\ stage[r] # "done" => forms[r] = None
    /\ stage[r] # "saving" => seen[r] = None
    /\ stage[r] = "duplicating" =>
          /\ request[r].method \in {"duplicate", "copy"}
          /\ forms[request[r].id] # None
    /\ stage[r] = "saving" =>
          /\ copy[r] \in Form
          /\ IF seen[r] = None THEN NewFormMade(r) ELSE CopyMade(r)

(* A form whose lists have changed since a handler read it has a newer     *)
(* version.                                                                *)
VersionTells(r) ==
    seen[r] # None =>
        /\ seen[r].__v <= forms[request[r].id].__v
        /\ seen[r].__v = forms[request[r].id].__v
              => seen[r].lists = forms[request[r].id].lists

FormInOrder(id) ==
    forms[id] # None /\ id \notin overwritten =>
        Validates(forms[id]) /\ LoginPossible(forms[id].settings)

HandlerInv ==
    /\ TypeOK
    /\ DOMAIN request = Requests
    /\ request = [r \in Requests |-> request[r]]
    /\ \A r \in Requests : Handling(r)

EditInv ==
    /\ HandlerInv
    /\ \A r \in Requests : VersionTells(r)
    /\ \A id \in FormIds : FormInOrder(id)

LEMMA CopyShape ==
  ASSUME HandlerInv, NEW r \in Requests, stage[r] = "saving", seen[r] # None
  PROVE  /\ seen[r] \in Form /\ copy[r] \in Form
         /\ copy[r].lists.admin = seen[r].lists.admin
         /\ copy[r].responseMode = seen[r].responseMode
         /\ copy[r].__v = seen[r].__v
         /\ request[r].id \in FormIds /\ forms[request[r].id] \in Form
         /\ SavedAt(r) = request[r].id
<1>1. /\ seen[r] \in Form /\ CopyMade(r) /\ IsSendable(request[r])
      /\ copy[r] \in Form
  BY DEF HandlerInv, TypeOK, Handling
<1>2. IsCall(request[r]) /\ request[r].id \in FormIds
  BY <1>1 DEF IsSendable, IsCall
<1>3. forms[request[r].id] \in Form
  BY <1>1, <1>2 DEF HandlerInv, TypeOK, CopyMade
<1>4. CASE request[r].method = "update"
  <2>1. /\ copy[r] = Edited(seen[r], request[r].body, r)
        /\ ~Inapplicable(seen[r].lists, request[r].body)
    BY <1>1, <1>4 DEF CopyMade
  <2>2. IsUpdate(request[r].body)
    BY <1>2 DEF IsCall
  <2>3. EditedLists(seen[r].lists, request[r].body, r).admin
          = seen[r].lists.admin
    BY <1>1, FormTyped DEF EditedLists, Lists
  <2>. QED  BY <1>1, <1>2, <1>3, <2>1, <2>2, <2>3, FormEdited DEF SavedAt
<1>5. CASE request[r].method # "update"
  <2>1. copy[r] = Archived(seen[r])
    BY <1>1, <1>5 DEF CopyMade
  <2>2. PICK form \in Form : form = seen[r]
    BY <1>1
  <2>3. copy[r] = Archived(form)
    BY <2>1, <2>2
  <2>4. /\ copy[r].lists = form.lists
        /\ copy[r].responseMode = form.responseMode
        /\ copy[r].__v = form.__v
    BY <2>3, FormArchived
  <2>5. /\ copy[r].lists.admin = seen[r].lists.admin
        /\ copy[r].responseMode = seen[r].responseMode
        /\ copy[r].__v = seen[r].__v
    BY <2>2, <2>4
  <2>6. SavedAt(r) = request[r].id
    BY DEF SavedAt
  <2>. QED  BY <1>1, <1>2, <1>3, <2>5, <2>6
<1>. QED  BY <1>4, <1>5

(* What a save writes is a form; to what was read it writes the copy.      *)
LEMMA WrittenForm ==
  ASSUME HandlerInv, NEW r \in Requests, stage[r] = "saving"
  PROVE  /\ SavedAt(r) \in FormIds
         /\ Written(r) \in Form
         /\ seen[r] = None => Written(r) = copy[r] /\ SavedAt(r) = r
         /\ seen[r] = forms[SavedAt(r)] =>
               /\ Written(r).lists = copy[r].lists
               /\ Written(r).settings = copy[r].settings
               /\ Written(r).responseMode = copy[r].responseMode
         /\ seen[r] # None /\ ListsChanged(r)
            /\ seen[r].lists = forms[SavedAt(r)].lists =>
               /\ Written(r).lists = copy[r].lists
               /\ Written(r).__v = forms[SavedAt(r)].__v + 1
         /\ seen[r] # None /\ ListsChanged(r) =>
               Written(r).__v = forms[SavedAt(r)].__v + 1
         /\ seen[r] # None /\ ~ListsChanged(r) =>
               /\ Written(r).lists = forms[SavedAt(r)].lists
               /\ Written(r).__v = forms[SavedAt(r)].__v
<1>1. CASE seen[r] = None
  <2>1. copy[r] \in Form /\ forms[r] = None
    BY <1>1 DEF HandlerInv, TypeOK, Handling
  <2>2. SavedAt(r) = r /\ Written(r) = copy[r] /\ r \in FormIds
    BY <1>1 DEF SavedAt, Written, FormIds
  <2>. QED  BY <1>1, <2>1, <2>2, FormTyped
<1>2. CASE seen[r] # None
  <2>1. /\ seen[r] \in Form /\ copy[r] \in Form
        /\ copy[r].lists.admin = seen[r].lists.admin
        /\ copy[r].responseMode = seen[r].responseMode
        /\ SavedAt(r) \in FormIds /\ forms[SavedAt(r)] \in Form
    BY <1>2, CopyShape
  <2>. DEFINE current == forms[SavedAt(r)]
              s(n) == Merged(seen[r].settings[n], copy[r].settings[n],
                             current.settings[n])
              l(n) == Merged(seen[r].lists[n], copy[r].lists[n],
                             current.lists[n])
              lists == [admin |-> current.lists.admin,
                        form_fields |-> l("form_fields"),
                        form_logics |-> l("form_logics"),
                        permissionList |-> l("permissionList")]
              settings == [status |-> s("status"),
                           hasCaptcha |-> s("hasCaptcha"),
                           authType |-> s("authType"),
                           esrvcId |-> s("esrvcId"),
                           webhook |-> s("webhook")]
              v == IF ListsChanged(r) THEN current.__v + 1 ELSE current.__v
  <2>2. Written(r) = [lists |-> lists, settings |-> settings,
                      responseMode |-> current.responseMode, __v |-> v]
    BY <1>2 DEF Written
  <2>3. lists \in Lists
    BY <2>1, FormTyped DEF Merged, Lists
  <2>4. settings \in Settings
    BY <2>1, FormTyped DEF Merged, Settings
  <2>5. current.__v \in Nat /\ v \in Nat
    BY <2>1, FormTyped
  <2>6. current.responseMode \in {"email", "encrypt"}
    BY <2>1, FormTyped
  <2>7. seen[r].lists = current.lists => lists = copy[r].lists
    BY <2>1, FormTyped DEF Merged, Lists
  <2>8. seen[r].settings = current.settings => settings = copy[r].settings
    BY <2>1, FormTyped DEF Merged, Settings
  <2>9. ~ListsChanged(r) => lists = current.lists
    BY <2>1, FormTyped DEF Merged, Lists, ListsChanged
  <2>10. /\ Written(r).lists = lists
         /\ Written(r).settings = settings
         /\ Written(r).responseMode = current.responseMode
         /\ Written(r).__v = v
    BY <2>2
  <2>11. Written(r) \in Form
    <3>. HIDE DEF lists, settings, v, current
    <3>. QED  BY <2>2, <2>3, <2>4, <2>5, <2>6 DEF Form
  <2>. HIDE DEF lists, settings
  <2>. QED  BY <1>2, <2>1, <2>5, <2>7, <2>8, <2>9, <2>10, <2>11
<1>. QED  BY <1>1, <1>2

(* A request that is under way has saved no form yet, and what it edits is *)
(* there until it is done: a step disturbs the handler of no other.        *)
LEMMA OthersHandled ==
  ASSUME HandlerInv, NEW q \in Requests,
         request'[q] = request[q], stage'[q] = stage[q], seen'[q] = seen[q],
         copy'[q] = copy[q], reply'[q] = reply[q],
         stage[q] # "done" => forms'[q] = forms[q],
         \A id \in FormIds : forms[id] # None => forms'[id] # None
  PROVE  Handling(q)'
<1>1. Handling(q)
  BY DEF HandlerInv
<1>2. request[q] # None => request[q].id \in FormIds
  BY <1>1 DEF Handling, IsSendable, IsCall
<1>3. stage[q] = "duplicating" => forms'[request[q].id] # None
  BY <1>1, <1>2 DEF Handling
<1>4. CopyMade(q) /\ stage[q] = "saving" => CopyMade(q)'
  BY <1>1, <1>2 DEF CopyMade, Handling
<1>5. NewFormMade(q) => NewFormMade(q)'
  BY DEF NewFormMade
<1>. QED  BY <1>1, <1>3, <1>4, <1>5 DEF Handling

LEMMA Answering ==
  ASSUME HandlerInv, NEW r \in Requests, NEW status \in Replies,
         status # "none", Answer(r, status), UNCHANGED request,
         stage[r] # "unsent",
         forms' \in [FormIds -> Form \cup {None}],
         overwritten' \subseteq FormIds,
         \A q \in Requests \ {r} : stage[q] # "done" => forms'[q] = forms[q],
         \A id \in FormIds : forms[id] # None => forms'[id] # None
  PROVE  HandlerInv'
<1>1. TypeOK'
  <2>1. reply' \in [Requests -> Replies]
    BY DEF Answer, HandlerInv, TypeOK
  <2>2. stage' \in [Requests -> {"unsent", "sent", "duplicating", "saving",
                                 "done"}]
    BY DEF Answer, HandlerInv, TypeOK
  <2>3. seen' \in [Requests -> Form \cup {None}]
    BY DEF Answer, HandlerInv, TypeOK
  <2>4. copy' \in [Requests -> Form \cup {None}]
    BY DEF Answer, HandlerInv, TypeOK
  <2>5. \A q \in Requests : stage'[q] # "unsent" => request'[q] # None
    BY DEF Answer, HandlerInv, TypeOK
  <2>. QED  BY <2>1, <2>2, <2>3, <2>4, <2>5 DEF HandlerInv, TypeOK
<1>2. ASSUME NEW q \in Requests
      PROVE  Handling(q)'
  <2>1. CASE q # r
    <3>1. /\ stage'[q] = stage[q] /\ seen'[q] = seen[q] /\ copy'[q] = copy[q]
          /\ reply'[q] = reply[q] /\ request'[q] = request[q]
      BY <2>1 DEF Answer, HandlerInv, TypeOK
    <3>2. stage[q] # "done" => forms'[q] = forms[q]
      BY <2>1
    <3>. QED  BY <3>1, <3>2, OthersHandled
  <2>2. CASE q = r
    <3>1. stage'[r] = "done" /\ seen'[r] = None /\ reply'[r] = status
      BY DEF Answer, HandlerInv, TypeOK
    <3>2. Handling(r)
      BY DEF HandlerInv
    <3>. QED  BY <2>2, <3>1, <3>2 DEF Handling
  <2>. QED  BY <2>1, <2>2
<1>. QED  BY <1>1, <1>2 DEF HandlerInv

(* A save of one request changes one form, and takes none away.            *)
LEMMA Writing ==
  ASSUME HandlerInv, NEW r \in Requests, stage[r] = "saving", Write(r)
  PROVE  /\ forms' \in [FormIds -> Form \cup {None}]
         /\ overwritten' \subseteq FormIds
         /\ forms'[SavedAt(r)] = Written(r)
         /\ \A id \in FormIds \ {SavedAt(r)} : forms'[id] = forms[id]
         /\ \A q \in Requests \ {r} : stage[q] # "done" => forms'[q] = forms[q]
         /\ \A id \in FormIds : forms[id] # None => forms'[id] # None
<1>1. SavedAt(r) \in FormIds /\ Written(r) \in Form
  BY WrittenForm
<1>2. Written(r) # None
  BY <1>1, DocumentAssumption
<1>3. /\ forms' \in [FormIds -> Form \cup {None}]
      /\ overwritten' \subseteq FormIds
      /\ forms'[SavedAt(r)] = Written(r)
      /\ \A id \in FormIds \ {SavedAt(r)} : forms'[id] = forms[id]
  BY <1>1 DEF Write, HandlerInv, TypeOK
<1>4. ASSUME NEW q \in Requests \ {r}, stage[q] # "done"
      PROVE  forms'[q] = forms[q]
  <2>1. forms[q] = None /\ q \in FormIds
    BY <1>4 DEF HandlerInv, Handling, FormIds
  <2>2. CASE seen[r] = None
    BY <1>3, <2>1, <2>2, WrittenForm
  <2>3. CASE seen[r] # None
    <3>1. forms[SavedAt(r)] \in Form
      BY <2>3, CopyShape
    <3>2. SavedAt(r) # q
      BY <2>1, <3>1, DocumentAssumption
    <3>. QED  BY <1>3, <2>1, <3>2
  <2>. QED  BY <2>2, <2>3
<1>. QED  BY <1>2, <1>3, <1>4

(* A step that only prepares: another copy, and nothing answered.          *)
LEMMA Preparing ==
  ASSUME HandlerInv, NEW r \in Requests,
         NEW st \in {"sent", "duplicating", "saving"},
         NEW sn \in Form \cup {None}, NEW cp \in Form \cup {None},
         NEW call, IsSendable(call),
         request' = [request EXCEPT ![r] = call],
         stage' = [stage EXCEPT ![r] = st],
         seen' = [seen EXCEPT ![r] = sn],
         copy' = [copy EXCEPT ![r] = cp],
         UNCHANGED <<forms, reply, overwritten>>,
         Handling(r)'
  PROVE  HandlerInv'
<1>1. TypeOK'
  <2>1. stage' \in [Requests -> {"unsent", "sent", "duplicating", "saving",
                                 "done"}]
    BY DEF HandlerInv, TypeOK
  <2>2. seen' \in [Requests -> Form \cup {None}]
    BY DEF HandlerInv, TypeOK
  <2>3. copy' \in [Requests -> Form \cup {None}]
    BY DEF HandlerInv, TypeOK
  <2>4. \A q \in Requests : stage'[q] # "unsent" => request'[q] # None
    BY DEF HandlerInv, TypeOK, IsSendable
  <2>5. \A q \in Requests : request'[q] # None => IsCall(request'[q])
    BY DEF HandlerInv, TypeOK, IsSendable
  <2>. QED  BY <2>1, <2>2, <2>3, <2>4, <2>5 DEF HandlerInv, TypeOK
<1>2. ASSUME NEW q \in Requests
      PROVE  Handling(q)'
  <2>1. CASE q # r
    <3>1. /\ stage'[q] = stage[q] /\ seen'[q] = seen[q] /\ copy'[q] = copy[q]
          /\ reply'[q] = reply[q] /\ request'[q] = request[q]
      BY <2>1 DEF HandlerInv, TypeOK
    <3>. QED  BY <3>1, OthersHandled
  <2>2. CASE q = r
    BY <2>2
  <2>. QED  BY <2>1, <2>2
<1>3. DOMAIN request' = Requests /\ request' = [q \in Requests |-> request'[q]]
  BY DEF HandlerInv
<1>. QED  BY <1>1, <1>2, <1>3 DEF HandlerInv

LEMMA HandlerPost ==
  ASSUME HandlerInv, NEW r \in Requests, GoodPost(r)
  PROVE  HandlerInv'
<1>1. PICK call : call = request'[r]
  OBVIOUS
<1>2. /\ IsSendable(call) /\ stage[r] = "unsent"
      /\ request' = [request EXCEPT ![r] = call]
      /\ stage' = [stage EXCEPT ![r] = "sent"]
      /\ UNCHANGED <<forms, seen, copy, reply, overwritten>>
  BY <1>1 DEF GoodPost, Post
<1>3. /\ seen' = [seen EXCEPT ![r] = seen[r]] /\ seen[r] \in Form \cup {None}
      /\ copy' = [copy EXCEPT ![r] = copy[r]] /\ copy[r] \in Form \cup {None}
  BY <1>2 DEF HandlerInv, TypeOK
<1>4. request'[r] = call /\ stage'[r] = "sent"
  BY <1>2 DEF HandlerInv, TypeOK
<1>5. Handling(r)'
  BY <1>2, <1>4 DEF HandlerInv, Handling, IsSendable
<1>. QED  BY <1>2, <1>3, <1>5, Preparing

(* What verifyPermission and isFormActive leave of the requests.           *)
LEMMA Reading ==
  ASSUME HandlerInv, NEW r \in Requests, stage[r] \in {"sent", "duplicating"}
  PROVE  /\ IsSendable(request[r]) /\ IsCall(request[r])
         /\ Target(r) \in Form \cup {None}
         /\ forms[r] = None
         /\ request = [request EXCEPT ![r] = request[r]]
         /\ seen = [seen EXCEPT ![r] = seen[r]]
         /\ seen[r] = None
         /\ copy = [copy EXCEPT ![r] = copy[r]] /\ copy[r] \in Form \cup {None}
         /\ reply[r] = "none"
BY DEF HandlerInv, TypeOK, Handling, IsSendable, IsCall, Target

LEMMA HandlerReads ==
  ASSUME HandlerInv, NEW r \in Requests,
         ReadForUpdate(r) \/ ReadForDelete(r)
  PROVE  HandlerInv' /\ CopyMade(r)' /\ stage'[r] = "saving"
         /\ seen'[r] = Target(r)
<1>1. stage[r] = "sent" /\ IsActive(Target(r)) /\ Target(r) \in Form
  BY Reading DEF ReadForUpdate, ReadForDelete, IsActive
<1>2. PICK form \in Form : form = Target(r)
  BY <1>1
<1>3. PICK cp \in Form :
         /\ \/ /\ request[r].method = "update"
               /\ ~Inapplicable(form.lists, request[r].body)
               /\ cp = Edited(form, request[r].body, r)
            \/ /\ request[r].method = "delete"
               /\ cp = Archived(form)
         /\ CanWrite(form.lists, request[r].user)
         /\ seen' = [seen EXCEPT ![r] = form]
         /\ copy' = [copy EXCEPT ![r] = cp]
         /\ stage' = [stage EXCEPT ![r] = "saving"]
         /\ UNCHANGED <<forms, request, reply, overwritten>>
  <2>1. CASE ReadForUpdate(r)
    <3>1. /\ IsUpdate(request[r].body)
          /\ ~Inapplicable(form.lists, request[r].body)
      BY <1>1, <1>2, <2>1, Reading DEF ReadForUpdate, IsCall
    <3>2. Edited(form, request[r].body, r) \in Form
      BY <3>1, FormEdited
    <3>3. CanWrite(form.lists, request[r].user)
      BY <1>2, <2>1 DEF ReadForUpdate, IsPermitted
    <3>. QED  BY <1>2, <2>1, <3>1, <3>2, <3>3 DEF ReadForUpdate
  <2>2. CASE ReadForDelete(r)
    <3>1. Archived(form) \in Form
      BY FormArchived
    <3>2. CanWrite(form.lists, request[r].user)
      BY <1>2, <2>2 DEF ReadForDelete, IsPermitted, CanWrite
    <3>3. Archived(form) = [Target(r) EXCEPT !.settings.status = "ARCHIVED"]
      BY <1>2 DEF Archived
    <3>. QED  BY <1>2, <2>2, <3>1, <3>2, <3>3 DEF ReadForDelete
  <2>. QED  BY <2>1, <2>2
<1>4. /\ stage'[r] = "saving" /\ seen'[r] = form /\ copy'[r] = cp
      /\ request'[r] = request[r] /\ reply'[r] = reply[r]
  BY <1>3 DEF HandlerInv, TypeOK
<1>5. CopyMade(r)'
  <2>1. forms'[request'[r].id] # None /\ IsActive(form)
    BY <1>1, <1>2, <1>3, <1>4 DEF Target, IsActive
  <2>2. IsActive(seen[r])'
    BY <1>4, <2>1 DEF IsActive
  <2>3. CanWrite(seen'[r].lists, request'[r].user)
    BY <1>3, <1>4
  <2>4. \/ /\ request'[r].method = "update"
           /\ ~Inapplicable(seen'[r].lists, request'[r].body)
           /\ copy'[r] = Edited(seen'[r], request'[r].body, r)
        \/ /\ request'[r].method = "delete"
           /\ copy'[r] = Archived(seen'[r])
    BY <1>3, <1>4
  <2>. QED  BY <2>1, <2>2, <2>3, <2>4 DEF CopyMade
<1>6. Handling(r)'
  <2>1. seen'[r] # None
    BY <1>1, <1>2, <1>4 DEF IsActive
  <2>. QED  BY <1>1, <1>3, <1>4, <1>5, <2>1, Reading DEF Handling, IsSendable
<1>7. HandlerInv'
  <2>1. PICK call : call = request[r]
    OBVIOUS
  <2>. QED  BY <1>1, <1>3, <1>6, <2>1, Reading, Preparing
<1>. QED  BY <1>2, <1>4, <1>5, <1>7

LEMMA HandlerFounds ==
  ASSUME HandlerInv, NEW r \in Requests,
         ReadForDuplicate(r) \/ Duplicate(r) \/ Create(r)
  PROVE  HandlerInv' /\ seen'[r] = None
<1>1. /\ stage[r] \in {"sent", "duplicating"} /\ reply'[r] = "none"
      /\ request'[r] = request[r] /\ seen'[r] = None /\ forms'[r] = None
      /\ UNCHANGED <<forms, request, seen, reply, overwritten>>
  BY Reading DEF ReadForDuplicate, Duplicate, Create
<1>2. PICK call : call = request[r]
  OBVIOUS
<1>3. CASE ReadForDuplicate(r)
  <2>1. stage'[r] = "duplicating" /\ forms'[request'[r].id] # None
    BY <1>3 DEF ReadForDuplicate, IsActive, Target, HandlerInv, TypeOK
  <2>2. request'[r].method \in {"duplicate", "copy"}
    BY <1>3 DEF ReadForDuplicate
  <2>3. Handling(r)'
    BY <1>1, <2>1, <2>2, Reading DEF Handling, IsSendable
  <2>4. PICK cp \in Form \cup {None} : cp = copy[r]
    BY <1>1, Reading
  <2>5. /\ request' = [request EXCEPT ![r] = call]
        /\ stage' = [stage EXCEPT ![r] = "duplicating"]
        /\ seen' = [seen EXCEPT ![r] = None]
        /\ copy' = [copy EXCEPT ![r] = cp]
        /\ IsSendable(call)
    BY <1>1, <1>2, <1>3, <2>4, Reading DEF ReadForDuplicate
  <2>. QED  BY <1>1, <2>3, <2>5, Preparing
<1>4. CASE Duplicate(r) \/ Create(r)
  <2>1. PICK cp \in Form :
           /\ NewLists(cp.lists, request[r].user)
           /\ cp.settings.status = "PRIVATE"
           /\ request[r].method \in {"duplicate", "copy", "create"}
           /\ copy' = [copy EXCEPT ![r] = cp]
           /\ stage' = [stage EXCEPT ![r] = "saving"]
    <3>1. /\ request[r].user \in Users
          /\ request[r].responseMode \in {"email", "encrypt"}
      BY <1>1, Reading DEF IsCall
    <3>2. CASE Duplicate(r)
      <4>1. Target(r) \in Form /\ request[r].method \in {"duplicate", "copy"}
        BY <1>1, <3>2, Reading DEF Duplicate, HandlerInv, Handling, Target
      <4>. QED  BY <3>1, <3>2, <4>1, FormDuplicated_ DEF Duplicate
    <3>3. CASE Create(r)
      BY <3>1, <3>3, FormBlank DEF Create
    <3>. QED  BY <1>4, <3>2, <3>3
  <2>2. stage'[r] = "saving" /\ copy'[r] = cp
    BY <2>1 DEF HandlerInv, TypeOK
  <2>3. NewFormMade(r)'
    BY <1>1, <2>1, <2>2 DEF NewFormMade
  <2>4. Handling(r)'
    BY <1>1, <2>1, <2>2, <2>3, Reading DEF Handling, IsSendable
  <2>. QED  BY <1>1, <1>2, <2>1, <2>4, Reading, Preparing
<1>. QED  BY <1>1, <1>3, <1>4

(* The answers of a handler: with or without a save.                       *)
Ending(r, status) ==
    /\ stage[r] \in {"sent", "duplicating", "saving"}
    /\ status \in Replies \ {"none"}
    /\ Answer(r, status)
    /\ UNCHANGED request
    /\ \/ UNCHANGED <<forms, overwritten>>
       \/ /\ stage[r] = "saving" /\ Validates(copy[r]) /\ ~Conflicts(r)
          /\ Write(r)

LEMMA HandleCases ==
  ASSUME NEW r \in Requests, Handle(r)
  PROVE  \/ ReadForUpdate(r) \/ ReadForDelete(r)
         \/ ReadForDuplicate(r) \/ Duplicate(r) \/ Create(r)
         \/ /\ \E status \in Replies \ {"none", "OK"} : Ending(r, status)
            /\ UNCHANGED <<forms, overwritten>>
         \/ Ending(r, "OK") /\ Save(r)
         \/ \E status \in {"INTERNAL_SERVER_ERROR", "CLOSED"} :
               Ending(r, status)
<1>1. CASE FormNotFound(r) \/ NotPermitted(r) \/ InvalidUpdate(r)
  BY <1>1 DEF FormNotFound, NotPermitted, InvalidUpdate, Refuse, Ending, Replies
<1>2. CASE SaveRejected(r) \/ SaveConflicts(r)
  BY <1>2 DEF SaveRejected, SaveConflicts, Refuse, Ending, Replies
<1>3. CASE Save(r)
  BY <1>3 DEF Save, Ending, Replies
<1>4. ASSUME NEW status \in Failures, SaveFails(r, status)
      PROVE  \E st \in {"INTERNAL_SERVER_ERROR", "CLOSED"} : Ending(r, st)
  BY <1>4, EditingAssumption DEF SaveFails, Ending, Replies
<1>5. ASSUME NEW status \in Failures, HandlerFails(r, status)
      PROVE  \E st \in {"INTERNAL_SERVER_ERROR", "CLOSED"} : Ending(r, st)
  BY <1>5, EditingAssumption DEF HandlerFails, Refuse, Ending, Replies
<1>. QED  BY <1>1, <1>2, <1>3, <1>4, <1>5 DEF Handle

LEMMA HandlerEnds ==
  ASSUME HandlerInv, NEW r \in Requests, NEW status, Ending(r, status)
  PROVE  HandlerInv' /\ stage'[r] = "done" /\ seen'[r] = None
         /\ reply'[r] = status
<1>1. status \in Replies /\ status # "none" /\ stage[r] # "unsent"
      /\ Answer(r, status) /\ UNCHANGED request
  BY DEF Ending
<1>2. stage'[r] = "done" /\ seen'[r] = None /\ reply'[r] = status
  BY <1>1 DEF Answer, HandlerInv, TypeOK
<1>3. CASE UNCHANGED <<forms, overwritten>>
  <2>1. forms' \in [FormIds -> Form \cup {None}] /\ overwritten' \subseteq FormIds
    BY <1>3 DEF HandlerInv, TypeOK
  <2>. QED  BY <1>1, <1>2, <1>3, <2>1, Answering
<1>4. CASE stage[r] = "saving" /\ Write(r)
  BY <1>1, <1>2, <1>4, Writing, Answering
<1>. QED  BY <1>3, <1>4 DEF Ending

LEMMA HandlerStep ==
  ASSUME HandlerInv, [EditNext]_vars
  PROVE  HandlerInv'
<1>1. ASSUME NEW r \in Requests, GoodPost(r) \/ Handle(r)
      PROVE  HandlerInv'
  BY <1>1, HandlerPost, HandlerReads, HandlerFounds, HandlerEnds, HandleCases
<1>2. CASE UNCHANGED vars
  BY <1>2 DEF vars, handlerVars, HandlerInv, TypeOK, Handling, NewFormMade,
              CopyMade
<1>. QED  BY <1>1, <1>2 DEF EditNext

LEMMA HandlerInit ==
  ASSUME Init
  PROVE  HandlerInv
<1>1. TypeOK
  BY EditingAssumption DEF Init, TypeOK, Replies, FormIds
<1>2. ASSUME NEW r \in Requests
      PROVE  Handling(r)
  BY DEF Init, Handling, FormIds
<1>. QED  BY <1>1, <1>2 DEF HandlerInv, Init

-----------------------------------------------------------------------------
(* What the handlers keep of a form *)

LEMMA ValidatesByContent ==
  ASSUME NEW f, NEW g, f.lists = g.lists, f.settings = g.settings,
         f.responseMode = g.responseMode, Validates(f)
  PROVE  Validates(g)
BY DEF Validates, MyInfoAllowed, AttachmentsAllowed, CollaboratorsAllowed, Has

(* Of the handlers at work only those change that take the step.           *)
LEMMA OthersUndisturbed ==
  ASSUME HandlerInv, NEW r \in Requests, GoodPost(r) \/ Handle(r),
         NEW q \in Requests \ {r}
  PROVE  /\ seen'[q] = seen[q] /\ request'[q] = request[q]
         /\ copy'[q] = copy[q] /\ stage'[q] = stage[q] /\ reply'[q] = reply[q]
<1>1. PICK call : call = request'[r]
  OBVIOUS
<1>2. CASE GoodPost(r)
  <2>1. /\ request' = [request EXCEPT ![r] = call]
        /\ stage' = [stage EXCEPT ![r] = "sent"]
        /\ UNCHANGED <<seen, copy, reply>>
    BY <1>1, <1>2 DEF GoodPost, Post
  <2>. QED  BY <2>1 DEF HandlerInv, TypeOK
<1>3. CASE Handle(r)
  <2>1. CASE \E status : Ending(r, status)
    BY <2>1 DEF Ending, Answer, HandlerInv, TypeOK
  <2>2. CASE ReadForUpdate(r) \/ ReadForDelete(r) \/ ReadForDuplicate(r)
             \/ Duplicate(r) \/ Create(r)
    BY <2>2 DEF ReadForUpdate, ReadForDelete, ReadForDuplicate, Duplicate,
                Create, HandlerInv, TypeOK
  <2>. QED  BY <1>3, <2>1, <2>2, HandleCases
<1>. QED  BY <1>2, <1>3

(* The forms change in one way only.                                       *)
LEMMA FormsChange ==
  ASSUME HandlerInv, NEW r \in Requests, GoodPost(r) \/ Handle(r)
  PROVE  \/ UNCHANGED <<forms, overwritten>>
         \/ /\ \E status \in {"OK", "INTERNAL_SERVER_ERROR", "CLOSED"} :
                  Ending(r, status)
            /\ stage[r] = "saving" /\ Validates(copy[r]) /\ ~Conflicts(r)
            /\ Write(r)
<1>1. CASE GoodPost(r)
  BY <1>1 DEF GoodPost, Post
<1>2. CASE ReadForUpdate(r) \/ ReadForDelete(r) \/ ReadForDuplicate(r)
           \/ Duplicate(r) \/ Create(r)
  BY <1>2 DEF ReadForUpdate, ReadForDelete, ReadForDuplicate, Duplicate, Create
<1>3. CASE \E status \in {"OK", "INTERNAL_SERVER_ERROR", "CLOSED"} :
              Ending(r, status)
  BY <1>3 DEF Ending
<1>. QED  BY <1>1, <1>2, <1>3, HandleCases

LEMMA VersionsKept ==
  ASSUME EditInv, HandlerInv', [EditNext]_vars, NEW q \in Requests
  PROVE  VersionTells(q)'
<1>1. HandlerInv /\ VersionTells(q) /\ Handling(q)
  BY DEF EditInv, HandlerInv
<1>2. CASE UNCHANGED vars
  BY <1>1, <1>2 DEF vars, handlerVars, VersionTells
<1>3. ASSUME NEW r \in Requests, GoodPost(r) \/ Handle(r)
      PROVE  VersionTells(q)'
  <2>1. CASE q = r
    <3>1. CASE ReadForUpdate(r) \/ ReadForDelete(r)
      <4>1. seen'[r] = Target(r) /\ UNCHANGED <<forms, request>>
        BY <1>1, <3>1, HandlerReads DEF ReadForUpdate, ReadForDelete
      <4>2. Target(r) \in Form
        BY <1>1, <3>1, Reading DEF ReadForUpdate, ReadForDelete, IsActive
      <4>. QED  BY <2>1, <4>1, <4>2, FormTyped DEF VersionTells, Target
    <3>2. CASE ~(ReadForUpdate(r) \/ ReadForDelete(r))
      <4>1. CASE GoodPost(r)
        <5>1. seen'[r] = None
          BY <1>1, <2>1, <4>1 DEF GoodPost, Post, Handling
        <5>. QED  BY <2>1, <5>1 DEF VersionTells
      <4>2. CASE Handle(r)
        <5>1. seen'[r] = None
          BY <1>1, <3>2, <4>2, HandleCases, HandlerFounds, HandlerEnds
        <5>. QED  BY <2>1, <5>1 DEF VersionTells
      <4>. QED  BY <1>3, <4>1, <4>2
    <3>. QED  BY <3>1, <3>2
  <2>2. CASE q # r
    <3>1. seen'[q] = seen[q] /\ request'[q] = request[q]
      BY <1>1, <1>3, <2>2, OthersUndisturbed
    <3>2. SUFFICES ASSUME seen[q] # None
                   PROVE  /\ seen[q].__v <= forms'[request[q].id].__v
                          /\ seen[q].__v = forms'[request[q].id].__v
                                => seen[q].lists = forms'[request[q].id].lists
      BY <3>1 DEF VersionTells
    <3>3. /\ seen[q] \in Form /\ request[q].id \in FormIds
          /\ forms[request[q].id] \in Form
          /\ forms[request[q].id] # None
      BY <1>1, <3>2, CopyShape DEF Handling, CopyMade
    <3>4. CASE forms'[request[q].id] = forms[request[q].id]
      BY <1>1, <3>2, <3>4 DEF VersionTells
    <3>5. CASE forms'[request[q].id] # forms[request[q].id]
      <4>1. stage[r] = "saving" /\ Write(r) /\ SavedAt(r) = request[q].id
            /\ forms'[SavedAt(r)] = Written(r)
        BY <1>1, <1>3, <3>3, <3>5, FormsChange, Writing
      <4>2. seen[r] # None
        BY <1>1, <3>3, <4>1, WrittenForm DEF HandlerInv, Handling
      <4>3. /\ ListsChanged(r) =>
                  Written(r).__v = forms[SavedAt(r)].__v + 1
            /\ ~ListsChanged(r) =>
                  /\ Written(r).lists = forms[SavedAt(r)].lists
                  /\ Written(r).__v = forms[SavedAt(r)].__v
        BY <1>1, <4>1, <4>2, WrittenForm
      <4>4. seen[q].__v \in Nat /\ forms[request[q].id].__v \in Nat
        BY <3>3, FormTyped
      <4>. QED  BY <1>1, <3>2, <4>1, <4>3, <4>4 DEF VersionTells
    <3>. QED  BY <3>4, <3>5
  <2>. QED  BY <2>1, <2>2
<1>. QED  BY <1>2, <1>3 DEF EditNext

LEMMA FormsStayInOrder ==
  ASSUME EditInv, [EditNext]_vars, NEW id \in FormIds
  PROVE  FormInOrder(id)'
<1>1. HandlerInv /\ FormInOrder(id)
  BY DEF EditInv
<1>2. CASE UNCHANGED vars
  BY <1>1, <1>2 DEF vars, FormInOrder
<1>3. ASSUME NEW r \in Requests, GoodPost(r) \/ Handle(r)
      PROVE  FormInOrder(id)'
  <2>1. CASE UNCHANGED <<forms, overwritten>>
    BY <1>1, <2>1 DEF FormInOrder
  <2>2. CASE /\ stage[r] = "saving" /\ Validates(copy[r]) /\ ~Conflicts(r)
             /\ Write(r)
    <3>1. overwritten \subseteq overwritten'
      BY <2>2 DEF Write
    <3>2. CASE id # SavedAt(r)
      BY <1>1, <2>2, <3>1, <3>2, Writing DEF FormInOrder
    <3>3. CASE id = SavedAt(r) /\ seen[r] = None
      <4>1. forms'[id] = copy[r]
        BY <1>1, <2>2, <3>3, Writing, WrittenForm
      <4>2. copy[r].settings.status = "PRIVATE"
        BY <1>1, <2>2, <3>3 DEF HandlerInv, Handling, NewFormMade
      <4>. QED  BY <2>2, <4>1, <4>2 DEF FormInOrder, LoginPossible
    <3>4. CASE id = SavedAt(r) /\ seen[r] # None
      <4>1. SUFFICES ASSUME id \notin overwritten'
                     PROVE  /\ Validates(Written(r))
                            /\ LoginPossible(Written(r).settings)
        BY <1>1, <2>2, <3>4, Writing DEF FormInOrder
      <4>2. seen[r] = forms[id] /\ id \notin overwritten
        BY <2>2, <3>4, <4>1, <1>1 DEF Write, HandlerInv, TypeOK
      <4>3. /\ Written(r).lists = copy[r].lists
            /\ Written(r).settings = copy[r].settings
            /\ Written(r).responseMode = copy[r].responseMode
        BY <1>1, <2>2, <3>4, <4>2, WrittenForm
      <4>4. Validates(Written(r))
        BY <2>2, <4>3, ValidatesByContent
      <4>5. /\ CopyMade(r) /\ IsSendable(request[r])
            /\ seen[r] \in Form /\ LoginPossible(seen[r].settings)
        BY <1>1, <2>2, <3>4, <4>2, CopyShape
           DEF HandlerInv, Handling, FormInOrder, TypeOK
      <4>6. LoginPossible(copy[r].settings)
        <5>1. CASE request[r].method = "update"
          <6>1. /\ copy[r] = Edited(seen[r], request[r].body, r)
                /\ ~Inapplicable(seen[r].lists, request[r].body)
                /\ IsUpdate(request[r].body)
                /\ seen[r].settings.status # "ARCHIVED"
                /\ seen[r].settings \in Settings
            BY <4>5, <5>1, FormTyped DEF CopyMade, IsActive, IsSendable, IsCall
          <6>2. copy[r].settings
                  = EditedSettings(seen[r].settings, request[r].body)
            BY <4>5, <6>1, FormEdited
          <6>. QED  BY <4>5, <6>1, <6>2, SettersKeepLogin
        <5>2. CASE request[r].method # "update"
          <6>1. copy[r] = Archived(seen[r])
            BY <4>5, <5>2 DEF CopyMade
          <6>2. copy[r].settings.status = "ARCHIVED"
            <7>1. /\ seen[r].settings \in Settings
                  /\ copy[r].settings
                       = [seen[r].settings EXCEPT !.status = "ARCHIVED"]
              BY <4>5, <6>1, FormArchived, FormTyped
            <7>. QED  BY <7>1 DEF Settings
          <6>. QED  BY <6>2 DEF LoginPossible
        <5>. QED  BY <5>1, <5>2
      <4>. QED  BY <4>3, <4>4, <4>6
    <3>. QED  BY <3>2, <3>3, <3>4
  <2>. QED  BY <1>1, <1>3, <2>1, <2>2, FormsChange
<1>. QED  BY <1>2, <1>3 DEF EditNext

LEMMA EditInvInit ==
  ASSUME Init
  PROVE  EditInv
<1>1. HandlerInv
  BY HandlerInit
<1>2. ASSUME NEW id \in FormIds
      PROVE  FormInOrder(id)
  BY EditingAssumption DEF Init, FormInOrder, LoginPossible
<1>3. ASSUME NEW r \in Requests
      PROVE  VersionTells(r)
  BY DEF Init, VersionTells
<1>. QED  BY <1>1, <1>2, <1>3 DEF EditInv

LEMMA EditInvStep ==
  ASSUME EditInv, [EditNext]_vars
  PROVE  EditInv'
<1>1. HandlerInv'
  BY HandlerStep DEF EditInv
<1>. QED  BY <1>1, VersionsKept, FormsStayInOrder DEF EditInv

LEMMA EditInvCoherent ==
  ASSUME EditInv
  PROVE  CoherentUnlessOverwritten
<1>. SUFFICES ASSUME NEW id \in FormIds, forms[id] # None, id \notin overwritten
              PROVE  Coherent(forms[id])
  BY DEF CoherentUnlessOverwritten
<1>1. Validates(forms[id]) /\ LoginPossible(forms[id].settings)
  BY DEF EditInv, FormInOrder
<1>2. forms[id] \in Form
  BY DEF EditInv, HandlerInv, TypeOK
<1>3. forms[id].responseMode \in {"email", "encrypt"}
  BY <1>2, FormTyped
<1>. QED  BY <1>1, <1>3 DEF Coherent, Validates, MyInfoAllowed,
            AttachmentsAllowed, Has, LoginPossible

StaysArchived ==
    \A id \in FormIds :
        (/\ forms[id] # None
         /\ forms[id].settings.status = "ARCHIVED"
         /\ id \notin overwritten')
            => forms'[id].settings.status = "ARCHIVED"

LEMMA EditNextArchived ==
  ASSUME EditInv, [EditNext]_vars
  PROVE  StaysArchived
<1>. SUFFICES ASSUME NEW id \in FormIds, forms[id] # None,
                     forms[id].settings.status = "ARCHIVED",
                     id \notin overwritten', forms'[id] # forms[id]
              PROVE  FALSE
  BY DEF StaysArchived
<1>1. HandlerInv
  BY DEF EditInv
<1>2. PICK r \in Requests : GoodPost(r) \/ Handle(r)
  BY DEF EditNext, vars
<1>3. stage[r] = "saving" /\ Write(r) /\ SavedAt(r) = id
  BY <1>1, <1>2, FormsChange, Writing
<1>4. CASE seen[r] = None
  BY <1>1, <1>3, <1>4, WrittenForm DEF HandlerInv, Handling
<1>5. CASE seen[r] # None
  <2>1. seen[r] = forms[id]
    BY <1>1, <1>3, <1>5 DEF Write, HandlerInv, TypeOK
  <2>2. IsActive(seen[r])
    BY <1>1, <1>3, <1>5 DEF HandlerInv, Handling, CopyMade
  <2>. QED  BY <2>1, <2>2 DEF IsActive
<1>. QED  BY <1>4, <1>5

LEMMA NextIsEditNext ==
  ASSUME HandlerInv, [Next]_vars
  PROVE  [EditNext]_vars
<1>1. ASSUME NEW r \in Requests, NEW call \in Calls, Post(r, call)
      PROVE  GoodPost(r)
  BY <1>1, CallsAssumption DEF Post, GoodPost, HandlerInv
<1>. QED  BY <1>1 DEF Next, EditNext

(* Type correctness of the handlers that edit forms.                       *)
THEOREM FormTypesHold == Spec => []TypeOK
<1>1. Init => EditInv
  BY EditInvInit
<1>2. EditInv /\ [Next]_vars => EditInv'
  BY NextIsEditNext, EditInvStep DEF EditInv
<1>3. EditInv => TypeOK
  BY DEF EditInv, HandlerInv
<1>. QED  BY <1>1, <1>2, <1>3, PTL DEF Spec

(* What the handlers of one form at a time would keep of it is kept by     *)
(* those of any number of requests, in any interleaving, unless one of     *)
(* them saves over a state that it has not read.                           *)
THEOREM FormsKept == Spec => KeptUnlessOverwritten
<1>1. Init => EditInv
  BY EditInvInit
<1>2. EditInv /\ [Next]_vars => EditInv'
  BY NextIsEditNext, EditInvStep DEF EditInv
<1>3. EditInv => CoherentUnlessOverwritten
  BY EditInvCoherent
<1>4. EditInv /\ [Next]_vars => [StaysArchived]_vars
  BY NextIsEditNext, EditNextArchived DEF EditInv
<1>5. Spec => [][StaysArchived]_vars
  BY <1>1, <1>2, <1>4, PTL DEF Spec
<1>. QED  BY <1>1, <1>2, <1>3, <1>5, PTL
          DEF Spec, KeptUnlessOverwritten, ArchivedUnlessOverwritten,
              StaysArchived

(* The operators of FormDocument, which FormLists extends as this module   *)
(* does, are the same there.                                               *)
LEMMA SameFormDocument ==
  ASSUME NEW l, NEW b, NEW r, NEW u, NEW c
  PROVE  /\ Arrays!Lists = Lists
         /\ Arrays!FormIds = FormIds
         /\ Arrays!CanWrite(l, u) <=> CanWrite(l, u)
         /\ Arrays!IsCall(c) <=> IsCall(c)
         /\ Arrays!Inapplicable(l, b) <=> Inapplicable(l, b)
         /\ Arrays!EditedLists(l, b, r) = EditedLists(l, b, r)
<1>1. Arrays!FormIds = FormIds /\ Arrays!FieldIds = FieldIds
  BY DEF Arrays!FormIds, FormIds, Arrays!FieldIds, FieldIds
<1>2. Arrays!FormField = FormField /\ Arrays!Field = Field
      /\ Arrays!Permissions = Permissions
  BY <1>1 DEF Arrays!FormField, FormField, Arrays!Field, Field,
              Arrays!Permissions, Permissions
<1>3. Arrays!Lists = Lists
  BY <1>2 DEF Arrays!Lists, Lists
<1>4. Arrays!CanWrite(l, u) <=> CanWrite(l, u)
  BY DEF Arrays!CanWrite, CanWrite
<1>5. Arrays!IsCall(c) <=> IsCall(c)
  BY <1>1, <1>2 DEF Arrays!IsCall, IsCall, Arrays!Methods, Methods,
     Arrays!IsUpdate, IsUpdate, Arrays!EditFieldActions, EditFieldActions,
     Arrays!SettingNames, SettingNames, Arrays!SettingValues, SettingValues
<1>6. ASSUME NEW f, NEW id
      PROVE  Arrays!PositionOf(f, id) = PositionOf(f, id)
  BY DEF Arrays!PositionOf, PositionOf, Arrays!SelectInSeq, SelectInSeq,
         Arrays!Min, Min
<1>7. Arrays!Inapplicable(l, b) <=> Inapplicable(l, b)
  BY <1>6 DEF Arrays!Inapplicable, Inapplicable, Arrays!EditError, EditError
<1>8. ASSUME NEW f, NEW e
      PROVE  Arrays!EditedFormFields(f, e, r) = EditedFormFields(f, e, r)
  <2>1. ASSUME NEW g, NEW i, NEW x
        PROVE  /\ Arrays!RemoveAt(g, i) = RemoveAt(g, i)
               /\ Arrays!InsertAt(g, i, x) = InsertAt(g, i, x)
               /\ Arrays!ReplaceAt(g, i, x) = ReplaceAt(g, i, x)
    BY DEF Arrays!RemoveAt, RemoveAt, Arrays!InsertAt, InsertAt,
           Arrays!ReplaceAt, ReplaceAt
  <2>2. Arrays!WithGlobalId(e.field, r) = WithGlobalId(e.field, r)
    BY DEF Arrays!WithGlobalId, WithGlobalId
  <2>. QED  BY <1>6, <2>1, <2>2, Zenon
         DEF Arrays!EditedFormFields, EditedFormFields
<1>9. Arrays!EditedLists(l, b, r) = EditedLists(l, b, r)
  BY <1>8 DEF Arrays!EditedLists, EditedLists
<1>. QED  BY <1>1, <1>3, <1>4, <1>5, <1>7, <1>9

-----------------------------------------------------------------------------
(* The handlers implement FormLists *)

ArraysOf(f) == [id \in FormIds |-> IF f[id] = None THEN None ELSE f[id].lists]

Outcomes_ == [r \in Requests |-> Outcome(r)]

LEMMA OutcomeOpen ==
  ASSUME HandlerInv, NEW r \in Requests, stage[r] # "done"
  PROVE  Outcome(r) = IF stage[r] = "saving" /\ seen[r] # None
                         /\ ~ListsChanged(r)
                      THEN "redundant" ELSE "none"
<1>1. reply[r] = "none"
  BY DEF HandlerInv, Handling
<1>. QED  BY <1>1 DEF Outcome

LEMMA OutcomesChange ==
  ASSUME HandlerInv, NEW r \in Requests, GoodPost(r) \/ Handle(r)
  PROVE  /\ Outcomes_' = [Outcomes_ EXCEPT ![r] = Outcome(r)']
         /\ Outcome(r)' = Outcome(r) => Outcomes_' = Outcomes_
<1>1. ASSUME NEW q \in Requests \ {r}
      PROVE  Outcome(q)' = Outcome(q)
  <2>1. /\ seen'[q] = seen[q] /\ copy'[q] = copy[q]
        /\ stage'[q] = stage[q] /\ reply'[q] = reply[q]
    BY OthersUndisturbed
  <2>. QED  BY <2>1 DEF Outcome, ListsChanged
<1>2. PICK o : o = Outcome(r)'
  OBVIOUS
<1>3. Outcomes_' = [Outcomes_ EXCEPT ![r] = o]
  BY <1>1, <1>2 DEF Outcomes_
<1>4. Outcome(r)' = Outcome(r) => Outcomes_' = Outcomes_
  BY <1>1 DEF Outcomes_
<1>. QED  BY <1>2, <1>3, <1>4

LEMMA ArraysChange ==
  ASSUME HandlerInv, NEW r \in Requests, stage[r] = "saving", Write(r)
  PROVE  /\ ArraysOf(forms)' = [ArraysOf(forms) EXCEPT
                                    ![SavedAt(r)] = Written(r).lists]
         /\ ArraysOf(forms)'[SavedAt(r)] = Written(r).lists
         /\ seen[r] # None /\ ~ListsChanged(r)
               => ArraysOf(forms)' = ArraysOf(forms)
<1>1. /\ forms'[SavedAt(r)] = Written(r)
      /\ \A id \in FormIds \ {SavedAt(r)} : forms'[id] = forms[id]
      /\ SavedAt(r) \in FormIds
      /\ Written(r) \in Form
  BY Writing, WrittenForm
<1>2. Written(r) # None
  BY <1>1, DocumentAssumption
<1>3. PICK w : w = Written(r).lists
  OBVIOUS
<1>4. PICK at \in FormIds : at = SavedAt(r)
  BY <1>1
<1>5. ArraysOf(forms)'[at] = w
  BY <1>1, <1>2, <1>3, <1>4 DEF ArraysOf
<1>6. \A id \in FormIds \ {at} : ArraysOf(forms)'[id] = ArraysOf(forms)[id]
  BY <1>1, <1>4 DEF ArraysOf
<1>7. ArraysOf(forms)' = [ArraysOf(forms) EXCEPT ![at] = w]
  BY <1>5, <1>6 DEF ArraysOf
<1>8. ASSUME seen[r] # None, ~ListsChanged(r)
      PROVE  ArraysOf(forms)' = ArraysOf(forms)
  <2>1. forms[at] \in Form /\ forms[at] # None
    BY <1>4, <1>8, CopyShape, DocumentAssumption
  <2>2. w = forms[at].lists
    BY <1>3, <1>4, <1>8, WrittenForm
  <2>3. ArraysOf(forms)[at] = w
    BY <2>1, <2>2 DEF ArraysOf
  <2>. QED  BY <1>5, <1>6, <2>3 DEF ArraysOf
<1>. QED  BY <1>3, <1>4, <1>5, <1>7, <1>8

LEMMA ArraysPost ==
  ASSUME EditInv, NEW r \in Requests, GoodPost(r), HandlerInv'
  PROVE  Arrays!Ask(r)
<1>1. HandlerInv
  BY DEF EditInv
<1>2. PICK call : call = request'[r]
  OBVIOUS
<1>3. /\ stage[r] = "unsent" /\ IsSendable(call)
      /\ request' = [request EXCEPT ![r] = call]
      /\ stage' = [stage EXCEPT ![r] = "sent"]
      /\ UNCHANGED <<forms, seen, copy, reply, overwritten>>
  BY <1>2 DEF GoodPost, Post
<1>4. request[r] = None /\ stage'[r] = "sent"
  BY <1>1, <1>3 DEF HandlerInv, Handling, TypeOK
<1>5. Outcome(r)' = Outcome(r)
  BY <1>1, <1>3, <1>4, OutcomeOpen DEF Outcome, ListsChanged
<1>6. Outcomes_' = Outcomes_
  BY <1>1, <1>5, OutcomesChange
<1>7. IsCall(call) /\ call # None
  BY <1>3 DEF IsSendable
<1>8. Arrays!IsCall(call)
  BY <1>7, SameFormDocument
<1>. QED  BY <1>2, <1>3, <1>4, <1>6, <1>7, <1>8 DEF Arrays!Ask, Outcomes_

LEMMA ArraysFound ==
  ASSUME EditInv, NEW r \in Requests, HandlerInv',
         ReadForDuplicate(r) \/ Duplicate(r) \/ Create(r)
  PROVE  UNCHANGED <<forms, request, Outcomes_>>
<1>1. HandlerInv
  BY DEF EditInv
<1>2. /\ UNCHANGED <<forms, request, reply>> /\ stage[r] # "done"
      /\ stage[r] # "saving" /\ seen'[r] = None
  BY <1>1, HandlerFounds DEF ReadForDuplicate, Duplicate, Create
<1>3. Outcome(r) = "none"
  BY <1>1, <1>2, OutcomeOpen
<1>4. Outcome(r)' = "none"
  <2>1. reply'[r] = "none" /\ seen'[r] = None
    BY <1>1, <1>2 DEF HandlerInv, Handling
  <2>. QED  BY <2>1 DEF Outcome
<1>. QED  BY <1>1, <1>2, <1>3, <1>4, OutcomesChange DEF Handle

LEMMA ArraysRead ==
  ASSUME EditInv, NEW r \in Requests, HandlerInv',
         ReadForUpdate(r) \/ ReadForDelete(r)
  PROVE  Arrays!BeRedundant(r) \/ UNCHANGED <<forms, request, Outcomes_>>
<1>1. HandlerInv
  BY DEF EditInv
<1>2. /\ UNCHANGED <<forms, request, reply>> /\ stage[r] = "sent"
      /\ IsActive(Target(r)) /\ stage'[r] = "saving" /\ seen'[r] = Target(r)
      /\ CopyMade(r)'
  BY <1>1, HandlerReads DEF ReadForUpdate, ReadForDelete
<1>3. /\ Outcome(r) = "none" /\ reply'[r] = "none"
      /\ IsSendable(request[r]) /\ Target(r) \in Form
  BY <1>1, <1>2, OutcomeOpen, Reading DEF IsActive
<1>4. Outcome(r)' = IF copy'[r].lists # seen'[r].lists
                    THEN "none" ELSE "redundant"
  BY <1>2, <1>3 DEF Outcome, ListsChanged, IsActive
<1>5. CASE copy'[r].lists # seen'[r].lists
  BY <1>1, <1>2, <1>3, <1>4, <1>5, OutcomesChange DEF Handle
<1>6. CASE copy'[r].lists = seen'[r].lists
  <2>1. Outcomes_' = [Outcomes_ EXCEPT ![r] = "redundant"]
    BY <1>1, <1>2, <1>4, <1>6, OutcomesChange DEF Handle
  <2>2. PICK form \in Form : form = Target(r)
    BY <1>3
  <2>3. /\ ArraysOf(forms)[request[r].id] = form.lists
        /\ form.lists \in Lists /\ form.lists # None
        /\ IsUpdate(request[r].body)
    <3>1. request[r].id \in FormIds /\ IsUpdate(request[r].body)
      BY <1>3 DEF IsSendable, IsCall
    <3>2. forms[request[r].id] = form /\ form # None
      BY <1>2, <2>2 DEF Target, IsActive
    <3>. QED  BY <2>2, <3>1, <3>2, FormTyped, DocumentAssumption DEF ArraysOf
  <2>4. /\ ~Arrays!Founds(r)
        /\ Arrays!Applicable(r)
        /\ Arrays!Applied(r) = Arrays!Target(r)
    <3>1. Arrays!Target(r) = form.lists
      BY <2>3 DEF Arrays!Target, ArraysOf
    <3>2. CASE request[r].method = "update"
      <4>1. /\ ~Inapplicable(form.lists, request[r].body)
            /\ copy'[r] = Edited(form, request[r].body, r)
        BY <1>2, <2>2, <3>2 DEF CopyMade
      <4>2. EditedLists(form.lists, request[r].body, r) = form.lists
        BY <1>2, <1>6, <2>2, <2>3, <4>1, FormEdited
      <4>3. /\ ~Arrays!Inapplicable(form.lists, request[r].body)
            /\ Arrays!EditedLists(form.lists, request[r].body, r) = form.lists
        BY <4>1, <4>2, SameFormDocument
      <4>. QED  BY <3>1, <3>2, <4>3
             DEF Arrays!Founds, Arrays!Applicable, Arrays!Applied
    <3>3. CASE request[r].method # "update"
      <4>1. request[r].method = "delete"
        BY <1>2, <3>3 DEF CopyMade
      <4>. QED  BY <4>1
             DEF Arrays!Founds, Arrays!Applicable, Arrays!Applied
    <3>. QED  BY <3>2, <3>3
  <2>5. Arrays!Target(r) # None
    BY <2>3 DEF Arrays!Target, ArraysOf
  <2>. QED  BY <1>2, <1>3, <2>1, <2>4, <2>5
         DEF Arrays!BeRedundant, Outcomes_, IsSendable
<1>. QED  BY <1>5, <1>6

(* A save answers, and a request that fails may have saved all the same.   *)
LEMMA ArraysWritten ==
  ASSUME EditInv, HandlerInv', NEW r \in Requests,
         NEW status \in {"OK", "INTERNAL_SERVER_ERROR", "CLOSED"},
         Ending(r, status), stage[r] = "saving", ~Conflicts(r), Write(r)
  PROVE  Arrays!Acknowledge(r) \/ Arrays!TakeEffect(r) \/ Arrays!Found(r)
<1>1. HandlerInv /\ Handling(r)
  BY DEF EditInv, HandlerInv
<1>2. /\ stage'[r] = "done" /\ reply'[r] = status /\ UNCHANGED request
      /\ IsSendable(request[r])
  BY <1>1, HandlerEnds DEF Ending, Handling
<1>3. PICK o \in {"OK", "failed"} : Outcome(r)' = o
  BY <1>2 DEF Outcome, Replies
<1>4. Outcomes_' = [Outcomes_ EXCEPT ![r] = o]
  <2>1. ASSUME NEW q \in Requests \ {r}
        PROVE  Outcome(q)' = Outcome(q)
    <3>1. /\ seen'[q] = seen[q] /\ copy'[q] = copy[q]
          /\ stage'[q] = stage[q] /\ reply'[q] = reply[q]
      BY <1>1 DEF Ending, Answer, HandlerInv, TypeOK
    <3>. QED  BY <3>1 DEF Outcome, ListsChanged
  <2>. QED  BY <1>3, <2>1 DEF Outcomes_
<1>5. PICK was : was = Outcome(r)
  OBVIOUS
<1>6. Outcomes_[r] = was
  BY <1>5 DEF Outcomes_
<1>7. CASE seen[r] = None
  <2>1. was = "none"
    BY <1>1, <1>5, <1>7, OutcomeOpen
  <2>2. /\ NewFormMade(r) /\ forms[r] = None /\ SavedAt(r) = r
        /\ Written(r) = copy[r]
    BY <1>1, <1>7, WrittenForm DEF Handling
  <2>3. PICK l : l = copy[r].lists
    OBVIOUS
  <2>4. /\ ArraysOf(forms)' = [ArraysOf(forms) EXCEPT ![r] = l]
        /\ ArraysOf(forms)'[r] = l
    BY <1>1, <2>2, <2>3, ArraysChange
  <2>5. ArraysOf(forms)[r] = None
    BY <2>2 DEF ArraysOf, FormIds
  <2>6. l \in Arrays!Lists /\ l.admin = request[r].user
        /\ l.permissionList = [u \in Users |-> "none"]
    BY <2>2, <2>3, SameFormDocument DEF NewFormMade, NewLists
  <2>7. Arrays!Founds(r) /\ request[r] # None
    BY <1>2, <2>2 DEF Arrays!Founds, NewFormMade, IsSendable
  <2>. QED  BY <1>2, <1>3, <1>4, <1>6, <2>1, <2>4, <2>5, <2>6, <2>7
         DEF Arrays!Found, Outcomes_, ArraysOf
<1>8. CASE seen[r] # None /\ ~ListsChanged(r)
  <2>1. was = "redundant"
    BY <1>1, <1>5, <1>8, OutcomeOpen
  <2>2. ArraysOf(forms)' = ArraysOf(forms)
    BY <1>1, <1>8, ArraysChange
  <2>. QED  BY <1>2, <1>3, <1>4, <1>6, <2>1, <2>2
         DEF Arrays!Acknowledge, Outcomes_, ArraysOf
<1>9. CASE seen[r] # None /\ ListsChanged(r)
  <2>1. was = "none"
    BY <1>1, <1>5, <1>9, OutcomeOpen
  <2>2. /\ CopyMade(r) /\ seen[r] \in Form /\ copy[r] \in Form
        /\ SavedAt(r) = request[r].id
        /\ request[r].id \in FormIds /\ forms[request[r].id] \in Form
        /\ forms[request[r].id] # None
    BY <1>1, <1>9, CopyShape DEF Handling, CopyMade
  <2>3. seen[r].lists = forms[request[r].id].lists
    <3>1. forms[request[r].id].__v = seen[r].__v
      BY <1>9, <2>2 DEF Conflicts
    <3>. QED  BY <1>9, <3>1 DEF EditInv, VersionTells
  <2>4. Written(r).lists = copy[r].lists
    BY <1>1, <1>9, <2>2, <2>3, WrittenForm
  <2>5. /\ request[r].method = "update"
        /\ ~Inapplicable(seen[r].lists, request[r].body)
        /\ copy[r].lists = EditedLists(seen[r].lists, request[r].body, r)
    <3>1. request[r].method # "delete"
      <4>1. ASSUME request[r].method = "delete"
            PROVE  copy[r].lists = seen[r].lists
        <5>1. copy[r] = Archived(seen[r])
          BY <2>2, <4>1 DEF CopyMade
        <5>. QED  BY <2>2, <5>1, FormArchived
      <4>. QED  BY <1>9, <4>1 DEF ListsChanged
    <3>2. /\ request[r].method = "update"
          /\ ~Inapplicable(seen[r].lists, request[r].body)
          /\ copy[r] = Edited(seen[r], request[r].body, r)
      BY <2>2, <3>1 DEF CopyMade
    <3>3. IsUpdate(request[r].body)
      BY <1>2 DEF IsSendable, IsCall
    <3>. QED  BY <2>2, <3>2, <3>3, FormEdited
  <2>6. PICK l : l = Written(r).lists
    OBVIOUS
  <2>7. PICK id \in FormIds : id = request[r].id
    BY <2>2
  <2>8. ArraysOf(forms)' = [ArraysOf(forms) EXCEPT ![id] = l]
    BY <1>1, <2>2, <2>6, <2>7, ArraysChange
  <2>9. ArraysOf(forms)[id] = seen[r].lists /\ seen[r].lists # None
    BY <2>2, <2>3, <2>7, FormTyped, DocumentAssumption DEF ArraysOf
  <2>10. /\ Arrays!Target(r) = seen[r].lists
         /\ Arrays!Applicable(r) /\ Arrays!Applied(r) = l
         /\ ~Arrays!Founds(r)
    <3>1. Arrays!Target(r) = seen[r].lists
      BY <2>7, <2>9 DEF Arrays!Target, ArraysOf
    <3>2. /\ ~Arrays!Inapplicable(seen[r].lists, request[r].body)
          /\ Arrays!EditedLists(seen[r].lists, request[r].body, r) = l
      BY <2>4, <2>5, <2>6, SameFormDocument
    <3>. QED  BY <2>5, <3>1, <3>2
           DEF Arrays!Applicable, Arrays!Applied, Arrays!Founds
  <2>11. Arrays!CanWrite(Arrays!Target(r), request[r].user)
    BY <2>2, <2>10, SameFormDocument DEF CopyMade
  <2>. QED  BY <1>2, <1>3, <1>4, <1>6, <2>1, <2>7, <2>8, <2>9, <2>10, <2>11
         DEF Arrays!TakeEffect, Outcomes_, ArraysOf, IsSendable
<1>. QED  BY <1>7, <1>8, <1>9

LEMMA ArraysRefused ==
  ASSUME EditInv, HandlerInv', NEW r \in Requests,
         NEW status \in Replies \ {"none", "OK"}, Ending(r, status),
         UNCHANGED <<forms, overwritten>>
  PROVE  Arrays!HaveNoEffect(r)
<1>1. HandlerInv
  BY DEF EditInv
<1>2. /\ stage'[r] = "done" /\ reply'[r] = status /\ UNCHANGED request
      /\ stage[r] # "done"
  BY <1>1, HandlerEnds DEF Ending
<1>3. PICK o \in {"refused", "failed"} : Outcome(r)' = o
  BY <1>2 DEF Outcome, Replies
<1>4. Outcome(r) \in {"none", "redundant"}
  BY <1>1, <1>2, OutcomeOpen
<1>5. Outcomes_' = [Outcomes_ EXCEPT ![r] = o]
  <2>1. ASSUME NEW q \in Requests \ {r}
        PROVE  Outcome(q)' = Outcome(q)
    <3>1. /\ seen'[q] = seen[q] /\ copy'[q] = copy[q]
          /\ stage'[q] = stage[q] /\ reply'[q] = reply[q]
      BY <1>1 DEF Ending, Answer, HandlerInv, TypeOK
    <3>. QED  BY <3>1 DEF Outcome, ListsChanged
  <2>. QED  BY <1>3, <2>1 DEF Outcomes_
<1>6. PICK was : was = Outcome(r)
  OBVIOUS
<1>7. Outcomes_[r] = was
  BY <1>6 DEF Outcomes_
<1>. QED  BY <1>2, <1>3, <1>4, <1>5, <1>6, <1>7
       DEF Arrays!HaveNoEffect, Outcomes_

LEMMA ArraysStep ==
  ASSUME EditInv, HandlerInv', [EditNext]_vars
  PROVE  [Arrays!Next]_Arrays!vars
<1>1. CASE UNCHANGED vars
  <2>1. UNCHANGED <<forms, request, Outcomes_>>
    BY <1>1 DEF vars, handlerVars, Outcomes_, Outcome, ListsChanged
  <2>. QED  BY <2>1 DEF Arrays!vars, Outcomes_
<1>2. ASSUME NEW r \in Requests, GoodPost(r) \/ Handle(r)
      PROVE  Arrays!Next \/ UNCHANGED <<forms, request, Outcomes_>>
  <2>1. CASE GoodPost(r)
    BY <2>1, ArraysPost DEF Arrays!Next
  <2>2. CASE ReadForUpdate(r) \/ ReadForDelete(r)
    BY <2>2, ArraysRead DEF Arrays!Next
  <2>3. CASE ReadForDuplicate(r) \/ Duplicate(r) \/ Create(r)
    BY <2>3, ArraysFound
  <2>4. ASSUME NEW status \in Replies \ {"none", "OK"}, Ending(r, status),
               UNCHANGED <<forms, overwritten>>
        PROVE  Arrays!HaveNoEffect(r)
    BY <2>4, ArraysRefused
  <2>5. ASSUME NEW status \in {"OK", "INTERNAL_SERVER_ERROR", "CLOSED"},
               Ending(r, status), stage[r] = "saving", ~Conflicts(r), Write(r)
        PROVE  Arrays!Acknowledge(r) \/ Arrays!TakeEffect(r) \/ Arrays!Found(r)
    BY <2>5, ArraysWritten
  <2>6. CASE Ending(r, "OK") /\ Save(r)
    BY <2>5, <2>6 DEF Arrays!Next, Save
  <2>7. ASSUME NEW status \in {"INTERNAL_SERVER_ERROR", "CLOSED"},
               Ending(r, status)
        PROVE  Arrays!Next
    <3>1. CASE UNCHANGED <<forms, overwritten>>
      BY <2>4, <2>7, <3>1 DEF Arrays!Next, Replies
    <3>2. CASE ~UNCHANGED <<forms, overwritten>>
      BY <2>5, <2>7, <3>2 DEF Arrays!Next, Ending
    <3>. QED  BY <3>1, <3>2
  <2>. QED  BY <1>2, <2>1, <2>2, <2>3, <2>4, <2>6, <2>7, HandleCases
         DEF Arrays!Next
<1>3. CASE UNCHANGED <<forms, request, Outcomes_>>
  BY <1>3 DEF Arrays!vars, Outcomes_
<1>. QED  BY <1>1, <1>2, <1>3 DEF EditNext

LEMMA ArraysInit ==
  ASSUME Init
  PROVE  Arrays!Init
<1>1. HandlerInv
  BY HandlerInit
<1>2. \A r \in Requests : Outcome(r) = "none"
  BY <1>1, OutcomeOpen DEF Init
<1>. QED  BY <1>2, SameFormDocument DEF Arrays!Init, Init, FormIds

(* Any number of requests edit the arrays of the forms as if each took     *)
(* effect at one moment, on the arrays as they are then, with the right to *)
(* at that moment, and none of an edit that is refused.                    *)
THEOREM EditsImplementLists == Spec => ImplementsFormLists
<1>1. Init => EditInv /\ Arrays!Init
  BY EditInvInit, ArraysInit
<1>2. EditInv /\ [Next]_vars => EditInv' /\ [EditNext]_vars
  BY NextIsEditNext, EditInvStep DEF EditInv
<1>3. EditInv /\ [Next]_vars => [Arrays!Next]_Arrays!vars
  BY <1>2, ArraysStep DEF EditInv
<1>. QED  BY <1>1, <1>2, <1>3, PTL DEF Spec, Arrays!Spec, ImplementsFormLists

-----------------------------------------------------------------------------
(* An edit of one field *)

OthersOf(id, fields) == {i \in DOMAIN fields : fields[i].globalId # id}

(* What a witness of SameOthers has to be.                                 *)
LEMMA OthersMatch ==
  ASSUME NEW id, NEW f, NEW g,
         NEW to \in [OthersOf(id, f) -> OthersOf(id, g)],
         NEW from \in [OthersOf(id, g) -> OthersOf(id, f)],
         \A k \in OthersOf(id, g) : to[from[k]] = k,
         \A i \in OthersOf(id, f) :
             /\ g[to[i]] = f[i]
             /\ \A j \in OthersOf(id, f) : i < j => to[i] < to[j]
  PROVE  SameOthers(id, f, g)
<1>1. to \in Surjection(OthersOf(id, f), OthersOf(id, g))
  BY DEF Surjection
<1>. QED  BY <1>1 DEF SameOthers, OthersOf

LEMMA OthersOfSame ==
  ASSUME NEW id, NEW f \in Seq(FormField)
  PROVE  SameOthers(id, f, f)
<1>. DEFINE to == [i \in OthersOf(id, f) |-> i]
<1>1. to \in [OthersOf(id, f) -> OthersOf(id, f)]
  OBVIOUS
<1>2. \A i \in OthersOf(id, f) : to[i] = i
  OBVIOUS
<1>. HIDE DEF to
<1>. QED  BY <1>1, <1>2, OthersMatch

LEMMA OthersOfLonger ==
  ASSUME NEW f \in Seq(FormField), NEW x \in FormField
  PROVE  SameOthers(x.globalId, f, Append(f, x))
<1>. DEFINE id == x.globalId
            g == Append(f, x)
            to == [i \in OthersOf(id, f) |-> i]
            from == [i \in OthersOf(id, g) |-> i]
<1>1. OthersOf(id, f) = OthersOf(id, g)
  BY DEF OthersOf
<1>2. \A i \in OthersOf(id, f) : g[i] = f[i]
  BY DEF OthersOf
<1>3. /\ to \in [OthersOf(id, f) -> OthersOf(id, g)]
      /\ from \in [OthersOf(id, g) -> OthersOf(id, f)]
  BY <1>1
<1>4. /\ \A i \in OthersOf(id, f) : to[i] = i
      /\ \A i \in OthersOf(id, g) : from[i] = i
  OBVIOUS
<1>. HIDE DEF to, from, g, id
<1>5. SameOthers(id, f, g)
  BY <1>1, <1>2, <1>3, <1>4, OthersMatch
<1>. QED  BY <1>5 DEF id, g

LEMMA OthersOfReplaced ==
  ASSUME NEW f \in Seq(FormField), NEW x \in FormField, NEW at \in 1..Len(f),
         f[at].globalId = x.globalId
  PROVE  SameOthers(x.globalId, f, ReplaceAt(f, at, x))
<1>. DEFINE id == x.globalId
            g == ReplaceAt(f, at, x)
            to == [i \in OthersOf(id, f) |-> i]
            from == [i \in OthersOf(id, g) |-> i]
<1>1. /\ g \in Seq(FormField) /\ Len(g) = Len(f)
      /\ \A j \in 1..Len(f) : g[j] = IF j = at THEN x ELSE f[j]
  BY Replaced
<1>2. DOMAIN f = 1..Len(f) /\ DOMAIN g = 1..Len(f)
  BY <1>1
<1>3. OthersOf(id, f) = OthersOf(id, g)
  <2>. HIDE DEF g
  <2>. QED  BY <1>1, <1>2 DEF OthersOf
<1>4. \A i \in OthersOf(id, f) : g[i] = f[i]
  <2>. HIDE DEF g
  <2>. QED  BY <1>1, <1>2 DEF OthersOf
<1>5. /\ to \in [OthersOf(id, f) -> OthersOf(id, g)]
      /\ from \in [OthersOf(id, g) -> OthersOf(id, f)]
  BY <1>3
<1>6. /\ \A i \in OthersOf(id, f) : to[i] = i
      /\ \A i \in OthersOf(id, g) : from[i] = i
  OBVIOUS
<1>. HIDE DEF to, from, g, id
<1>7. SameOthers(id, f, g)
  BY <1>3, <1>4, <1>5, <1>6, OthersMatch
<1>. QED  BY <1>7 DEF id, g

(* Where the fields go when one is removed, and when it is put back.       *)
LEMMA OthersOfRemoved ==
  ASSUME NEW f \in Seq(FormField), NEW at \in 1..Len(f)
  PROVE  SameOthers(f[at].globalId, f, RemoveAt(f, at))
<1>. DEFINE id == f[at].globalId
            g == RemoveAt(f, at)
            to == [i \in OthersOf(id, f) |-> IF i < at THEN i ELSE i - 1]
            from == [i \in OthersOf(id, g) |-> IF i < at THEN i ELSE i + 1]
<1>1. /\ g \in Seq(FormField) /\ Len(g) = Len(f) - 1
      /\ \A j \in 1..(Len(f) - 1) : g[j] = f[IF j < at THEN j ELSE j + 1]
  BY Removed
<1>. HIDE DEF g
<1>2. DOMAIN f = 1..Len(f) /\ DOMAIN g = 1..(Len(f) - 1)
  BY <1>1
<1>3. ASSUME NEW i \in OthersOf(id, f)
      PROVE  /\ i \in 1..Len(f) /\ i # at
             /\ to[i] = IF i < at THEN i ELSE i - 1
             /\ g[to[i]] = f[i]
             /\ to[i] \in OthersOf(id, g)
  <2>1. i \in 1..Len(f) /\ i # at /\ f[i].globalId # id
    BY <1>2 DEF OthersOf
  <2>2. PICK k : k = IF i < at THEN i ELSE i - 1
    OBVIOUS
  <2>3. k \in 1..(Len(f) - 1) /\ to[i] = k /\ (IF k < at THEN k ELSE k + 1) = i
    BY <2>1, <2>2
  <2>4. g[k] = f[i]
    BY <1>1, <2>3
  <2>. QED  BY <1>2, <2>1, <2>2, <2>3, <2>4 DEF OthersOf
<1>4. ASSUME NEW i \in OthersOf(id, g)
      PROVE  from[i] \in OthersOf(id, f) /\ to[from[i]] = i
  <2>1. i \in 1..(Len(f) - 1) /\ g[i].globalId # id
    BY <1>2 DEF OthersOf
  <2>2. PICK k : k = IF i < at THEN i ELSE i + 1
    OBVIOUS
  <2>3. k \in 1..Len(f) /\ from[i] = k /\ g[i] = f[k]
    BY <1>1, <2>1, <2>2
  <2>4. k \in OthersOf(id, f)
    BY <1>2, <2>1, <2>3 DEF OthersOf
  <2>. QED  BY <2>1, <2>2, <2>3, <2>4
<1>5. \A i, j \in OthersOf(id, f) : i < j => to[i] < to[j]
  <2>. HIDE DEF to
  <2>. QED  BY <1>3
<1>6. /\ to \in [OthersOf(id, f) -> OthersOf(id, g)]
      /\ from \in [OthersOf(id, g) -> OthersOf(id, f)]
  BY <1>3, <1>4
<1>. HIDE DEF to, from, id
<1>7. SameOthers(id, f, g)
  BY <1>3, <1>4, <1>5, <1>6, OthersMatch
<1>. QED  BY <1>7 DEF id, g

LEMMA OthersOfInserted ==
  ASSUME NEW f \in Seq(FormField), NEW x \in FormField,
         NEW at \in 1..(Len(f) + 1)
  PROVE  SameOthers(x.globalId, f, InsertAt(f, at, x))
<1>. DEFINE id == x.globalId
            g == InsertAt(f, at, x)
            to == [i \in OthersOf(id, f) |-> IF i < at THEN i ELSE i + 1]
            from == [i \in OthersOf(id, g) |-> IF i < at THEN i ELSE i - 1]
<1>1. /\ g \in Seq(FormField) /\ Len(g) = Len(f) + 1
      /\ \A j \in 1..(Len(f) + 1) :
            g[j] = IF j < at THEN f[j] ELSE IF j = at THEN x ELSE f[j - 1]
  <2>1. /\ InsertAt(f, at, x) \in Seq(FormField)
        /\ Len(InsertAt(f, at, x)) = Len(f) + 1
        /\ \A j \in 1..(Len(f) + 1) :
              InsertAt(f, at, x)[j] = IF j < at THEN f[j]
                                      ELSE IF j = at THEN x ELSE f[j - 1]
    BY Inserted
  <2>. QED  BY <2>1
<1>. HIDE DEF g
<1>2. DOMAIN f = 1..Len(f) /\ DOMAIN g = 1..(Len(f) + 1)
  BY <1>1
<1>3. ASSUME NEW i \in OthersOf(id, f)
      PROVE  /\ i \in 1..Len(f)
             /\ to[i] = IF i < at THEN i ELSE i + 1
             /\ g[to[i]] = f[i]
             /\ to[i] \in OthersOf(id, g)
  <2>1. i \in 1..Len(f) /\ f[i].globalId # id
    BY <1>2 DEF OthersOf
  <2>2. PICK k : k = IF i < at THEN i ELSE i + 1
    OBVIOUS
  <2>3. k \in 1..(Len(f) + 1) /\ to[i] = k /\ k # at
        /\ (IF k < at THEN k ELSE k - 1) = i
    BY <2>1, <2>2
  <2>4. g[k] = f[i]
    BY <1>1, <2>3
  <2>. QED  BY <1>2, <2>1, <2>2, <2>3, <2>4 DEF OthersOf
<1>4. ASSUME NEW i \in OthersOf(id, g)
      PROVE  from[i] \in OthersOf(id, f) /\ to[from[i]] = i
  <2>1. i \in 1..(Len(f) + 1) /\ g[i].globalId # id /\ i # at
    BY <1>1, <1>2 DEF OthersOf
  <2>2. PICK k : k = IF i < at THEN i ELSE i - 1
    OBVIOUS
  <2>3. k \in 1..Len(f) /\ from[i] = k /\ g[i] = f[k]
    BY <1>1, <2>1, <2>2
  <2>4. k \in OthersOf(id, f)
    BY <1>2, <2>1, <2>3 DEF OthersOf
  <2>. QED  BY <2>1, <2>2, <2>3, <2>4
<1>5. \A i, j \in OthersOf(id, f) : i < j => to[i] < to[j]
  <2>. HIDE DEF to
  <2>. QED  BY <1>3
<1>6. /\ to \in [OthersOf(id, f) -> OthersOf(id, g)]
      /\ from \in [OthersOf(id, g) -> OthersOf(id, f)]
  BY <1>3, <1>4
<1>. HIDE DEF to, from, id
<1>7. SameOthers(id, f, g)
  BY <1>3, <1>4, <1>5, <1>6, OthersMatch
<1>. QED  BY <1>7 DEF id, g

LEMMA OthersTransitive ==
  ASSUME NEW id, NEW f \in Seq(FormField), NEW g \in Seq(FormField),
         NEW h \in Seq(FormField),
         SameOthers(id, f, g), SameOthers(id, g, h)
  PROVE  SameOthers(id, f, h)
<1>1. PICK a \in Surjection(OthersOf(id, f), OthersOf(id, g)) :
         \A i \in OthersOf(id, f) :
             /\ g[a[i]] = f[i]
             /\ \A j \in OthersOf(id, f) : i < j => a[i] < a[j]
  BY DEF SameOthers, OthersOf
<1>2. PICK b \in Surjection(OthersOf(id, g), OthersOf(id, h)) :
         \A i \in OthersOf(id, g) :
             /\ h[b[i]] = g[i]
             /\ \A j \in OthersOf(id, g) : i < j => b[i] < b[j]
  BY DEF SameOthers, OthersOf
<1>3. /\ a \in [OthersOf(id, f) -> OthersOf(id, g)]
      /\ b \in [OthersOf(id, g) -> OthersOf(id, h)]
      /\ \A k \in OthersOf(id, g) : \E i \in OthersOf(id, f) : a[i] = k
      /\ \A k \in OthersOf(id, h) : \E i \in OthersOf(id, g) : b[i] = k
  BY DEF Surjection
<1>. DEFINE c == [i \in OthersOf(id, f) |-> b[a[i]]]
<1>4. c \in Surjection(OthersOf(id, f), OthersOf(id, h))
  BY <1>3 DEF Surjection
<1>5. \A i \in OthersOf(id, f) :
          /\ h[c[i]] = f[i]
          /\ \A j \in OthersOf(id, f) : i < j => c[i] < c[j]
  BY <1>1, <1>2, <1>3
<1>. HIDE DEF c
<1>. QED  BY <1>4, <1>5 DEF SameOthers, OthersOf

LEMMA EditKeepsOthers ==
  ASSUME NEW r \in Requests, NEW fields \in Seq(FormField), NEW edit \in Edits,
         ~EditError(fields, edit)
  PROVE  SameOthers(WithGlobalId(edit.field, r).globalId, fields,
                    EditedFormFields(fields, edit, r))
<1>. DEFINE field == WithGlobalId(edit.field, r)
            at == PositionOf(fields, edit.field.globalId)
            to == IF edit.position > Len(fields) THEN Len(fields)
                                                 ELSE edit.position
<1>1. field \in FormField /\ edit.position \in Nat \ {0}
  BY GlobalIdGiven DEF Edits
<1>2. CASE edit.name \in {"CREATE", "DUPLICATE"}
  <2>1. EditedFormFields(fields, edit, r) = Append(fields, field)
    BY <1>2 DEF EditedFormFields
  <2>. HIDE DEF field
  <2>2. SameOthers(field.globalId, fields, Append(fields, field))
    BY <1>1, OthersOfLonger
  <2>. QED  BY <2>1, <2>2 DEF field
<1>3. CASE edit.name \notin {"CREATE", "DUPLICATE"}
  <2>1. at \in 1..Len(fields) /\ fields[at].globalId = edit.field.globalId
    BY <1>3, PositionFound DEF EditError
  <2>2. to \in 1..Len(fields)
    BY <1>1, <2>1
  <2>3. field.globalId = fields[at].globalId
    <3>1. fields[at].globalId \in FieldIds
      <4>1. fields[at] \in FormField
        <5>. HIDE DEF at
        <5>. QED  BY <2>1
      <4>. QED  BY <4>1 DEF FormField
    <3>. QED  BY <2>1, <3>1, DocumentAssumption DEF WithGlobalId
  <2>4. /\ edit.name = "REORDER" => EditedFormFields(fields, edit, r)
                                      = InsertAt(RemoveAt(fields, at), to, field)
        /\ edit.name = "UPDATE" => EditedFormFields(fields, edit, r)
                                      = ReplaceAt(fields, at, field)
        /\ edit.name = "DELETE" => EditedFormFields(fields, edit, r)
                                      = RemoveAt(fields, at)
        /\ edit.name \in {"REORDER", "UPDATE", "DELETE"}
    BY <1>3 DEF EditedFormFields, Edits, EditFieldActions
  <2>. HIDE DEF field, at, to
  <2>5. SameOthers(field.globalId, fields, ReplaceAt(fields, at, field))
    BY <1>1, <2>1, <2>3, OthersOfReplaced
  <2>6. /\ RemoveAt(fields, at) \in Seq(FormField)
        /\ Len(RemoveAt(fields, at)) = Len(fields) - 1
    BY <2>1, Removed
  <2>7. SameOthers(field.globalId, fields, RemoveAt(fields, at))
    BY <2>1, <2>3, OthersOfRemoved
  <2>8. SameOthers(field.globalId, fields,
                   InsertAt(RemoveAt(fields, at), to, field))
    <3>1. to \in 1..(Len(RemoveAt(fields, at)) + 1)
      BY <2>2, <2>6
    <3>2. InsertAt(RemoveAt(fields, at), to, field) \in Seq(FormField)
      BY <1>1, <2>6, <3>1, Inserted
    <3>3. SameOthers(field.globalId, RemoveAt(fields, at),
                     InsertAt(RemoveAt(fields, at), to, field))
      BY <1>1, <2>6, <3>1, OthersOfInserted
    <3>. QED  BY <2>6, <2>7, <3>2, <3>3, OthersTransitive
  <2>9. SameOthers(field.globalId, fields, EditedFormFields(fields, edit, r))
    BY <2>4, <2>5, <2>7, <2>8
  <2>. QED  BY <2>9 DEF field
<1>. QED  BY <1>2, <1>3

TouchesOneField ==
    \A r \in Requests :
        (/\ stage[r] = "saving"
         /\ forms' # forms
         /\ stage'[r] = "done"
         /\ request[r].method = "update"
         /\ request[r].body.editFormField # None)
            => LET id == request[r].id
               IN  SameOthers(EditedField(r), forms[id].lists.form_fields,
                              forms'[id].lists.form_fields)

LEMMA EditNextTouches ==
  ASSUME EditInv, [EditNext]_vars
  PROVE  TouchesOneField
<1>. SUFFICES ASSUME NEW r \in Requests, stage[r] = "saving", forms' # forms,
                     stage'[r] = "done", request[r].method = "update",
                     request[r].body.editFormField # None
              PROVE  SameOthers(EditedField(r),
                                forms[request[r].id].lists.form_fields,
                                forms'[request[r].id].lists.form_fields)
  BY DEF TouchesOneField
<1>1. HandlerInv /\ Handling(r)
  BY DEF EditInv, HandlerInv
<1>2. PICK q \in Requests : GoodPost(q) \/ Handle(q)
  BY DEF EditNext, vars
<1>3. q = r
  BY <1>1, <1>2, OthersUndisturbed
<1>4. ~Conflicts(r) /\ Write(r)
  BY <1>1, <1>2, <1>3, FormsChange
<1>5. seen[r] # None /\ CopyMade(r) /\ IsSendable(request[r])
  BY <1>1 DEF Handling, NewFormMade
<1>6. /\ seen[r] \in Form /\ copy[r] \in Form
      /\ SavedAt(r) = request[r].id
      /\ request[r].id \in FormIds /\ forms[request[r].id] \in Form
      /\ forms'[request[r].id] = Written(r)
  BY <1>1, <1>4, <1>5, CopyShape, Writing
<1>7. CASE ~ListsChanged(r)
  <2>1. Written(r).lists = forms[request[r].id].lists
    BY <1>1, <1>5, <1>6, <1>7, WrittenForm
  <2>. QED  BY <1>6, <2>1, OthersOfSame, FormTyped
<1>8. CASE ListsChanged(r)
  <2>1. seen[r].lists = forms[request[r].id].lists
    BY <1>4, <1>5, <1>6, <1>8 DEF Conflicts, EditInv, VersionTells
  <2>2. Written(r).lists = copy[r].lists
    BY <1>1, <1>5, <1>6, <1>8, <2>1, WrittenForm
  <2>3. /\ IsUpdate(request[r].body)
        /\ ~Inapplicable(seen[r].lists, request[r].body)
        /\ copy[r] = Edited(seen[r], request[r].body, r)
    BY <1>5 DEF CopyMade, IsSendable, IsCall
  <2>4. copy[r].lists = EditedLists(seen[r].lists, request[r].body, r)
    BY <1>6, <2>3, FormEdited
  <2>5. /\ request[r].body.editFormField \in Edits
        /\ ~EditError(seen[r].lists.form_fields, request[r].body.editFormField)
        /\ seen[r].lists.form_fields \in Seq(FormField)
    BY <1>6, <2>3, FormTyped DEF IsUpdate, Edits, Inapplicable
  <2>6. copy[r].lists.form_fields
          = EditedFormFields(seen[r].lists.form_fields,
                             request[r].body.editFormField, r)
    BY <1>6, <2>4, FormTyped DEF EditedLists, Lists
  <2>. QED  BY <1>6, <2>1, <2>2, <2>5, <2>6, EditKeepsOthers DEF EditedField
<1>. QED  BY <1>7, <1>8

(* An edit of one field undoes nothing that another request has saved of   *)
(* the others meanwhile, so that of the arrays nothing comes that is not   *)
(* promised.                                                               *)
THEOREM EditsKeepPromises == Spec => EditsAsPromised
<1>1. Init => EditInv
  BY EditInvInit
<1>2. EditInv /\ [Next]_vars => EditInv'
  BY NextIsEditNext, EditInvStep DEF EditInv
<1>3. EditInv /\ [Next]_vars => [TouchesOneField]_vars
  BY NextIsEditNext, EditNextTouches DEF EditInv
<1>4. Spec => [][TouchesOneField]_vars
  BY <1>1, <1>2, <1>3, PTL DEF Spec
<1>5. Spec => EditTouchesOneField
  BY <1>4 DEF EditTouchesOneField, TouchesOneField
<1>. QED  BY <1>5, EditsImplementLists DEF EditsAsPromised

=================================================================================
