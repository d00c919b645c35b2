------------------------------ MODULE FormFilling ------------------------------
(***************************************************************************)
(* A respondent fills in a form and submits it: submit-form.directive.js   *)
(* with its logic, the components of the fields, the captcha, and the      *)
(* server's checks of the answers and the attachments up to its verdict    *)
(* (receiveEmailSubmissionUsingBusBoy, validateEmailSubmission,            *)
(* getParsedResponses; validateEncryptSubmission).  How the respondent     *)
(* comes to the page, and what the server asks of the login and of the     *)
(* MyInfo values, is in FormAccess.                                        *)
(*                                                                         *)
(* A file reaches its field in steps: it is picked, its zip is looked      *)
(* into, its bytes are read.  The page waits for none of them: another     *)
(* file can be picked, the field hidden and the form submitted meanwhile.  *)
(***************************************************************************)
EXTENDS FieldAnswers

CONSTANTS
    Forms,          \* the forms that may be filled in
    MaxTasks        \* the most files that are under way for a field

(* The page that the admin edits a field on takes no other fields, see     *)
(* FieldEditor: the dates are limited by a custom range or else by the day.*)
(* A table asks for no more than MaxRows rows.  Statements and images hold *)
(* no value.                                                               *)
IsFillable(field) ==
    /\ Accepts(field)
    /\ field.fieldType \notin {"statement", "image"}
    /\ field.fieldType # "table" => field.required \in BOOLEAN
    /\ field.fieldType \in {"textfield", "textarea", "number"} =>
          IsNumberOrNull(field.customVal)
    /\ /\ field.fieldType = "date"
       /\ field.selectedDateValidation # "Custom date range"
       => field.customMinDate = None /\ field.customMaxDate = None
    /\ field.fieldType = "table" =>
          /\ field.columns \in Seq(BOOLEAN)
          /\ field.minimumRows \in 1 .. MaxRows
          /\ field.addMoreRows \in BOOLEAN
          /\ IsNumberOrNull(field.maximumRows)

(* The fields that MyInfo has an attribute for are of these types.         *)
MyInfoTypes == {"textfield", "number", "dropdown", "date", "mobile", "homeno"}

SumOf(sizes) == FoldLeft(LAMBDA total, size : total + size, 0, sizes)

AllowedSize(field) ==
    IF field.fieldType = "attachment" THEN Halves(field.attachmentSize) ELSE 0

(* shownBy: the yes_no field whose "Yes" shows a field, or 0; prevents:    *)
(* the yes_no field whose "No" prevents the submission, or 0; myInfo: the  *)
(* attribute of MyInfo that a field asks for, in email mode and with       *)
(* SingPass only.  In email mode a form with attachments keeps their total *)
(* under 7 MB (see FormBuilder).                                           *)
IsForm(f) ==
    /\ f.form_fields \in Seq(ToSet(f.form_fields))
    /\ DOMAIN f.shownBy = DOMAIN f.form_fields
    /\ f.responseMode \in {"email", "encrypt"}
    /\ f.authType \in {"NIL", "SP", "CP"}
    /\ f.hasCaptcha \in BOOLEAN
    /\ f.files \subseteq Files
    /\ f.prevents \in {0} \cup DOMAIN f.form_fields
    /\ f.prevents # 0 => f.form_fields[f.prevents].fieldType = "yes_no"
    /\ f.responseMode = "email" =>
          SumOf([i \in DOMAIN f.form_fields |-> AllowedSize(f.form_fields[i])])
              <= Halves(7)
    /\ \A i \in DOMAIN f.form_fields :
          /\ IsFillable(f.form_fields[i])
          /\ MyInfoAccepted(f.myInfo[i], f.authType, f.responseMode)
          /\ f.myInfo[i] # None => f.form_fields[i].fieldType \in MyInfoTypes
          /\ f.shownBy[i] \in {0} \cup 1 .. (i - 1)
          /\ f.shownBy[i] # 0 =>
                /\ f.form_fields[f.shownBy[i]].fieldType = "yes_no"
                /\ f.shownBy[f.shownBy[i]] = 0

Numbered(n, name) == ToString(n) \o "-" \o name

(* A number in front of a name tells both apart, as it is made of digits.  *)
ASSUME FormsAssumption ==
    /\ MaxTasks \in Nat \ {0}
    /\ None \notin Files \cup Int
    /\ \A f \in Files : f.name # ""
    /\ \A form \in Forms :
           /\ IsForm(form)
           /\ \A f, g \in Files, m, n \in DOMAIN form.form_fields :
                 Numbered(m, f.name) = Numbered(n, g.name)
                     => m = n /\ f.name = g.name

VARIABLES
    form,           \* scope.form, but for what follows
    fieldValue,     \* of each field
    disabled,       \* the fields that were locked when the page was made
    file,           \* the bytes of its file, None before they are read
    attached,       \* the file that its component displays
    tasks,          \* the steps under way for the files of a field
    opened,         \* the day its component was made on
    today,
    uiState,        \* the state of the page
    captcha,        \* what the captcha service has
    savedForm,      \* controllerState.savedForm
    sent,           \* the copy of the form that is being submitted
    shown,          \* what the page displayed of it, at that moment
    verdict,        \* the server's, on the submission that it received last
    inDoubt         \* the fields acted on, or sent, while tasks were under
                    \* way for them, and those whose file could not be read

componentVars == <<attached, tasks, opened>>
submissionVars == <<uiState, captcha, savedForm, sent, shown, verdict>>
pageVars == <<form, disabled>>
formVars == <<pageVars, fieldValue, file, componentVars, today, submissionVars,
              inDoubt>>

fields == DOMAIN form.form_fields

(* live: its component is still the one of the page.                       *)
Task == [file : Files, step : {"check", "read"}, live : BOOLEAN]

-----------------------------------------------------------------------------
(* advanceLogic, which runs after every change                             *)

IsShown(values, i) ==
    form.shownBy[i] # 0 => values[form.shownBy[i]] = "Yes"

isVisible(i) == IsShown(fieldValue, i)

IsPrevented(values) == form.prevents # 0 /\ values[form.prevents] = "No"

submitPrevented == IsPrevented(fieldValue)

(* A field that goes from shown to hidden is cleared, and its component is *)
(* destroyed; one that is shown gets a new component.                      *)
Hides(values, i) == isVisible(i) /\ ~IsShown(values, i)

Shows(values, i) == ~isVisible(i) /\ IsShown(values, i)

(* clear empties the cells of a table and keeps its rows.                  *)
ClearedValue(i, value) ==
    LET field == form.form_fields[i]
    IN  IF field.fieldType = "table"
        THEN [value EXCEPT !.components =
                 [r \in DOMAIN @ |-> BlankRow(field)]]
        ELSE EmptyValue(field)

IsMyInfo(i) == form.myInfo[i] # None

(* Mutant: the answer of a field that is hidden stays.                     *)
Cleared_Not(i, value) == [fieldValue |-> value, file |-> file[i]]

(* A field filled in by MyInfo keeps its value.                            *)
Cleared(i, value) ==
    [fieldValue |-> IF IsMyInfo(i) THEN value ELSE ClearedValue(i, value),
     file |-> None]

(* The component of a table renders the minimum of rows when it is made;   *)
(* the number of additional rows is kept.                                  *)
Rendered(i, value) ==
    IF form.form_fields[i].fieldType = "table"
    THEN [value EXCEPT !.components =
             BlankTable(form.form_fields[i]).components]
    ELSE value

AdvanceLogic(values) ==
    /\ fieldValue' = [i \in fields |->
           CASE Hides(values, i) -> Cleared(i, values[i]).fieldValue
             [] Shows(values, i) -> Rendered(i, values[i])
             [] OTHER -> values[i]]
    /\ file' = [i \in fields |->
           IF Hides(values, i) THEN Cleared(i, values[i]).file ELSE file[i]]
    /\ attached' = [i \in fields |->
           IF Hides(values, i) \/ Shows(values, i) THEN None ELSE attached[i]]
    /\ tasks' = [i \in fields |->
           IF Hides(values, i) THEN {[t EXCEPT !.live = FALSE] : t \in tasks[i]}
                               ELSE tasks[i]]
    /\ opened' = [i \in fields |->
           IF Shows(values, i) THEN today ELSE opened[i]]
    /\ inDoubt' = inDoubt \cup {i \in fields : Hides(values, i) /\ tasks[i] # {}}

-----------------------------------------------------------------------------
NothingSent == [fieldValue |-> None, file |-> None]

Blank(f) == [i \in DOMAIN f.form_fields |-> EmptyValue(f.form_fields[i])]

(* The page of a form that is not there yet.                               *)
PageInit ==
    /\ form \in Forms
    /\ fieldValue = Blank(form)
    /\ disabled = {}
    /\ file = [i \in fields |-> None]
    /\ attached = [i \in fields |-> None]
    /\ tasks = [i \in fields |-> {}]
    /\ opened = [i \in fields |-> 0]
    /\ today = 0
    /\ uiState = "DEFAULT"
    /\ captcha = "none"
    /\ savedForm = NothingSent
    /\ sent = NothingSent
    /\ shown = None
    /\ verdict = None
    /\ inDoubt = {}

(* A new page, with what was filled in for the respondent.                 *)
Start(values, locked) ==
    /\ fieldValue' = values
    /\ disabled' = locked
    /\ file' = [i \in fields |-> None]
    /\ attached' = [i \in fields |-> None]
    /\ tasks' = [i \in fields |-> {}]
    /\ opened' = [i \in fields |-> today]
    /\ uiState' = "DEFAULT"
    /\ captcha' = "none"
    /\ savedForm' = NothingSent
    /\ sent' = NothingSent
    /\ shown' = None
    /\ verdict' = None
    /\ inDoubt' = {}
    /\ UNCHANGED <<form, today>>

(* The fields are locked while the form is being submitted.                *)
Editable(i) == uiState = "DEFAULT" /\ isVisible(i) /\ i \notin disabled

Fill(i) ==
    /\ Editable(i)
    /\ form.form_fields[i].fieldType \notin {"table", "attachment"}
    /\ \E value \in PossibleValues(form.form_fields[i]) :
          /\ value # fieldValue[i]
          /\ AdvanceLogic([fieldValue EXCEPT ![i] = value])
    /\ UNCHANGED <<pageVars, today, submissionVars>>

-----------------------------------------------------------------------------
(* Tables *)

getNumRows(i) ==
    form.form_fields[i].minimumRows + fieldValue[i].additionalRowCount

(* A table without a maximum is bounded by MaxRows here.                   *)
CanAddRow(i) ==
    /\ form.form_fields[i].addMoreRows
    /\ AtMost(getNumRows(i) + 1, form.form_fields[i].maximumRows)
    /\ getNumRows(i) < MaxRows

FillCell(i) ==
    /\ Editable(i)
    /\ form.form_fields[i].fieldType = "table"
    /\ \E r \in DOMAIN fieldValue[i].components,
          c \in DOMAIN form.form_fields[i].columns :
          fieldValue' = [fieldValue EXCEPT ![i].components[r][c] = ~@]
    /\ UNCHANGED <<pageVars, file, componentVars, today, submissionVars, inDoubt>>

AddTableRow(i) ==
    /\ Editable(i)
    /\ form.form_fields[i].fieldType = "table"
    /\ CanAddRow(i)
    /\ fieldValue' = [fieldValue EXCEPT
           ![i].additionalRowCount = @ + 1,
           ![i].components = Append(@, BlankRow(form.form_fields[i]))]
    /\ UNCHANGED <<pageVars, file, componentVars, today, submissionVars, inDoubt>>

(* The rows after the minimum can be deleted, those too that are displayed *)
(* and not there, which splice ignores.                                    *)
DeleteTableRow(i) ==
    /\ Editable(i)
    /\ form.form_fields[i].fieldType = "table"
    /\ \E r \in (form.form_fields[i].minimumRows + 1) .. getNumRows(i) :
          fieldValue' = [fieldValue EXCEPT
              ![i].additionalRowCount = @ - 1,
              ![i].components = IF r \in DOMAIN @ THEN RemoveAt(@, r) ELSE @]
    /\ UNCHANGED <<pageVars, file, componentVars, today, submissionVars, inDoubt>>

-----------------------------------------------------------------------------
(* Attachments: attachmentFieldComponentController *)

IsAttachment(i) == form.form_fields[i].fieldType = "attachment"

SetFileValue(i, value) == fieldValue' = [fieldValue EXCEPT ![i] = value]

(* Acting on a field whose files are still under way leaves it in doubt.   *)
Hurry(i) == inDoubt' = IF tasks[i] = {} THEN inDoubt ELSE inDoubt \cup {i}

(* ngf-max-size, and the extension of the file.                            *)
IsRefusedAtOnce(i, f) ==
    \/ f.size > Halves(form.form_fields[i].attachmentSize)
    \/ ~f.allowed

(* The input is there while no file is attached.                           *)
UploadFile(i, f) ==
    /\ Editable(i) /\ IsAttachment(i)
    /\ attached[i] = None
    /\ Cardinality(tasks[i]) < MaxTasks
    /\ IF IsRefusedAtOnce(i, f)
       THEN SetFileValue(i, "") /\ UNCHANGED tasks
       ELSE /\ SetFileValue(i, "object")
            /\ tasks' = [tasks EXCEPT ![i] = @ \cup
                            {[file |-> f, step |-> "check", live |-> TRUE]}]
    /\ Hurry(i)
    /\ UNCHANGED <<pageVars, file, attached, opened, today, submissionVars>>

(* getInvalidFileExtensionsInZip: a zip that cannot be read is refused.    *)
FileRefused(i, t) ==
    /\ t \in tasks[i]
    /\ t.step = "check"
    /\ t.file.isZip
    /\ ~t.file.contentAllowed
    /\ SetFileValue(i, "")
    /\ tasks' = [tasks EXCEPT ![i] = @ \ {t}]
    /\ UNCHANGED <<pageVars, file, attached, opened, today, submissionVars, inDoubt>>

(* A component that was destroyed displays nothing, and still writes.      *)
FileAccepted(i, t) ==
    /\ t \in tasks[i]
    /\ t.step = "check"
    /\ t.file.isZip => t.file.contentAllowed
    /\ SetFileValue(i, t.file.name)
    /\ attached' = IF t.live THEN [attached EXCEPT ![i] = t.file] ELSE attached
    /\ tasks' = [tasks EXCEPT ![i] = (@ \ {t}) \cup {[t EXCEPT !.step = "read"]}]
    /\ UNCHANGED <<pageVars, file, opened, today, submissionVars, inDoubt>>

(* saveFileToField                                                         *)
FileRead(i, t) ==
    /\ t \in tasks[i]
    /\ t.step = "read"
    /\ file' = [file EXCEPT ![i] = t.file]
    /\ tasks' = [tasks EXCEPT ![i] = @ \ {t}]
    /\ UNCHANGED <<pageVars, fieldValue, attached, opened, today, submissionVars,
                   inDoubt>>

(* Nothing handles the error of the reader.                                *)
FileUnread(i, t) ==
    /\ t \in tasks[i]
    /\ t.step = "read"
    /\ tasks' = [tasks EXCEPT ![i] = @ \ {t}]
    /\ inDoubt' = inDoubt \cup {i}
    /\ UNCHANGED <<pageVars, fieldValue, file, attached, opened, today,
                   submissionVars>>

RemoveFile(i) ==
    /\ Editable(i) /\ attached[i] # None
    /\ file' = [file EXCEPT ![i] = None]
    /\ attached' = [attached EXCEPT ![i] = None]
    /\ SetFileValue(i, "")
    /\ Hurry(i)
    /\ UNCHANGED <<pageVars, tasks, opened, today, submissionVars>>

-----------------------------------------------------------------------------
(* The page submits *)

(* The date picker may let a date pass that it displays an error for.      *)
IsInvalid(i) ==
    /\ isVisible(i)
    /\ ~PageValid(form.form_fields[i], fieldValue[i], attached[i], opened[i])

MayPass(i) ==
    \/ ~IsInvalid(i)
    \/ form.form_fields[i].fieldType = "date" /\ fieldValue[i] # None

(* submitForm, which the captcha service calls too, and submitFormMain.    *)
SubmitForm ==
    /\ sent' = [fieldValue |-> fieldValue, file |-> file]
    /\ savedForm' = [fieldValue |-> fieldValue, file |-> file]
    /\ shown' = [valid |-> ~submitPrevented /\ \A i \in fields : ~IsInvalid(i),
                 attached |-> attached]
    /\ inDoubt' = inDoubt \cup {i \in fields : tasks[i] # {}}
    /\ uiState' = "SUBMITTING"

checkCaptchaAndSubmit ==
    /\ uiState = "DEFAULT"
    /\ ~submitPrevented
    /\ \A i \in fields : MayPass(i)
    /\ IF form.hasCaptcha /\ captcha # "response"
       THEN /\ captcha' = "challenge"
            /\ captcha # "challenge"
            /\ UNCHANGED <<uiState, savedForm, sent, shown, inDoubt>>
       ELSE SubmitForm /\ UNCHANGED captcha
    /\ UNCHANGED <<pageVars, fieldValue, file, componentVars, today, verdict>>

(* The respondent may have gone on editing.                                *)
CaptchaSucceeds ==
    /\ captcha = "challenge"
    /\ captcha' = "response"
    /\ SubmitForm
    /\ UNCHANGED <<pageVars, fieldValue, file, componentVars, today, verdict>>

CaptchaFails ==
    /\ captcha = "challenge"
    /\ captcha' = "none"
    /\ UNCHANGED <<pageVars, fieldValue, file, componentVars, today, uiState,
                   savedForm, sent, shown, verdict, inDoubt>>

-----------------------------------------------------------------------------
(* The server *)

(* getResponses clears what is hidden, and this time MyInfo's too; the     *)
(* attachments are taken before.                                           *)
SentAnswer(i) ==
    Answer(form.form_fields[i],
           IF IsShown(sent.fieldValue, i) THEN sent.fieldValue[i]
           ELSE ClearedValue(i, sent.fieldValue[i]))

fieldHasAttachment(i) ==
    IsAttachment(i) /\ sent.fieldValue[i] # "" /\ sent.file[i] # None

Attachments == {i \in fields : fieldHasAttachment(i)}

attachmentsAreValid ==
    \A i \in Attachments :
        /\ sent.file[i].allowed
        /\ sent.file[i].isZip => sent.file[i].contentAllowed

areAttachmentsMoreThan7MB ==
    SumOf([i \in fields |-> IF fieldHasAttachment(i) THEN sent.file[i].size
                            ELSE 0]) > Halves(7)

(* Of files with the same name, the last one keeps it.                     *)
handleDuplicatesInAttachments(names) ==
    [k \in DOMAIN names |->
        LET later == {j \in DOMAIN names : j > k /\ names[j] = names[k]}
        IN  IF later = {} THEN names[k]
            ELSE Numbered(Cardinality(later), names[k])]

Filenames ==
    handleDuplicatesInAttachments([i \in Attachments |-> sent.file[i].name])

(* In encrypt mode the answers cannot be read, but for some that are sent  *)
(* along; what is shown is worked out from these alone.                    *)
isReadable(i) ==
    form.responseMode = "email"
        \/ form.form_fields[i].fieldType \in {"mobile", "email"}

ReceivedAnswers ==
    [i \in fields |-> IF isReadable(i) THEN SentAnswer(i) ELSE ""]

(* addAttachmentToResponses puts the name of the file in the answer.       *)
ParsedAnswer(i) ==
    IF i \in Attachments THEN sent.file[i].name ELSE SentAnswer(i)

isResponseValid(i, todayMin, todayMax) ==
    LET content == IF i \in Attachments THEN sent.file[i] ELSE None
    IN  isAnswerValid(form.form_fields[i], ParsedAnswer(i), content,
                      IsShown(ReceivedAnswers, i), todayMin, todayMax)

(* The refusals that do not look at the answers.                           *)
AccessRefusals ==
    {"notAuthenticated", "noHashes", "otherHashes", "unavailable"}

(* The login is asked for before the answers are looked at in email mode,  *)
(* and after that in encrypt mode.  The noon of today minus 12 hours, and  *)
(* plus 14, may be on another day.                                         *)
Status(isAuthenticated, todayMin, todayMax) ==
    CASE form.responseMode = "email" /\ ~isAuthenticated -> "notAuthenticated"
      [] form.responseMode = "email" /\ ~attachmentsAreValid -> "invalidFiles"
      [] form.responseMode = "email" /\ areAttachmentsMoreThan7MB -> "tooLarge"
      [] IsPrevented(ReceivedAnswers) -> "prevented"
      [] \E i \in fields : isReadable(i)
                           /\ ~isResponseValid(i, todayMin, todayMax) ->
            "invalidAnswers"
      [] ~isAuthenticated -> "notAuthenticated"
      [] OTHER -> "OK"

(* MyInfo values are verified after that, see FormAccess.                  *)
HasMyInfo == \E i \in fields : IsMyInfo(i)

Receive(isAuthenticated) ==
    /\ uiState = "SUBMITTING"
    /\ \E todayMin \in {today - 1, today}, todayMax \in {today, today + 1} :
          verdict' = [status |-> Status(isAuthenticated, todayMin, todayMax),
                      files |-> [i \in fields |->
                                    IF i \in Attachments
                                    THEN sent.file[i] ELSE None],
                      hashedFields |-> {},
                      filenames |-> Filenames,
                      day |-> today]
    /\ uiState' = IF verdict'.status = "OK" /\ HasMyInfo THEN "VERIFYING"
                                                         ELSE "SENT"
    /\ UNCHANGED <<pageVars, fieldValue, file, componentVars, today, captcha,
                   savedForm, sent, shown, inDoubt>>

handleSubmitSuccess ==
    /\ uiState = "SENT"
    /\ verdict.status = "OK"
    /\ uiState' = "SUBMITTED"
    /\ UNCHANGED <<pageVars, fieldValue, file, componentVars, today, captcha,
                   savedForm, sent, shown, verdict, inDoubt>>

(* scope.form becomes the saved form; the components stay.                 *)
Restored ==
    /\ uiState' = "DEFAULT"
    /\ fieldValue' = savedForm.fieldValue
    /\ file' = savedForm.file

(* Mutant: only a request without an answer counts as a failure.           *)
SubmissionFails_Unanswered == uiState = "SUBMITTING"

(* The server refuses, the attachments could not be encrypted, or the      *)
(* answer did not arrive.                                                  *)
SubmissionFails == uiState \in {"SUBMITTING", "VERIFYING", "SENT"}

(* What a destroyed component still has to write goes to the form that was *)
(* discarded.                                                              *)
handleSubmitFailure ==
    /\ SubmissionFails
    /\ Restored
    /\ tasks' = [i \in fields |-> {t \in tasks[i] : t.live}]
    /\ captcha' = "none"
    /\ sent' = NothingSent /\ savedForm' = NothingSent
    /\ shown' = None /\ verdict' = None
    /\ UNCHANGED <<pageVars, attached, opened, today, inDoubt>>

-----------------------------------------------------------------------------
(* Only the date of a field is compared with a day.                        *)
DayPasses ==
    /\ today < LastDay
    /\ \E i \in fields : form.form_fields[i].fieldType = "date"
    /\ today' = today + 1
    /\ UNCHANGED <<pageVars, fieldValue, file, componentVars, submissionVars,
                   inDoubt>>

AdvanceFile(i) ==
    \E t \in tasks[i] :
        FileRefused(i, t) \/ FileAccepted(i, t) \/ FileRead(i, t)
            \/ FileUnread(i, t)

Filling ==
    \/ \E i \in fields :
          \/ Fill(i)
          \/ FillCell(i) \/ AddTableRow(i) \/ DeleteTableRow(i)
          \/ RemoveFile(i) \/ AdvanceFile(i)
          \/ \E f \in form.files : UploadFile(i, f)
    \/ checkCaptchaAndSubmit \/ CaptchaSucceeds \/ CaptchaFails
    \/ DayPasses

-----------------------------------------------------------------------------
(* Properties *)

(* Every field holds a value of its type, and what was sent, shown and     *)
(* received is there while the form is being submitted, and after.         *)
TypeOK ==
    /\ form \in Forms
    /\ \A i \in fields :
          /\ fieldValue[i] \in PossibleValues(form.form_fields[i])
          /\ file[i] \in Files \cup {None}
          /\ attached[i] \in Files \cup {None}
          /\ tasks[i] \subseteq Task
          /\ opened[i] \in 0 .. today
    /\ today \in 0 .. LastDay
    /\ disabled \subseteq fields
    /\ uiState \in {"DEFAULT", "SUBMITTING", "VERIFYING", "SENT", "SUBMITTED"}
    /\ captcha \in {"none", "challenge", "response"}
    /\ (shown = None) <=> (uiState = "DEFAULT")
    /\ (verdict = None) <=> (uiState \in {"DEFAULT", "SUBMITTING"})
    /\ inDoubt \subseteq fields

(* An answer on which the page and the server are known to differ: a file  *)
(* in doubt, or of exactly the size that is allowed; a number printed in   *)
(* exponential notation; a date that was allowed on an earlier day, when   *)
(* its component was made.                                                 *)
KnownToDiffer(i) ==
    LET field == form.form_fields[i]
        value == sent.fieldValue[i]
    IN  CASE field.fieldType = "attachment" ->
                \/ i \in inDoubt
                \/ /\ sent.file[i] # None
                   /\ sent.file[i].size = Halves(field.attachmentSize)
          [] field.fieldType = "decimal" -> value # None /\ value.exponent
          [] field.fieldType = "date" ->
                /\ field.selectedDateValidation = "Disallow past dates"
                /\ opened[i] < verdict.day
          [] OTHER -> FALSE

(* What the page displays without an error, the server accepts: of fields  *)
(* shown and hidden, after any number of edits and failed submissions.     *)
AcceptedAsDisplayed ==
    verdict # None /\ shown.valid /\ (\A i \in fields : ~KnownToDiffer(i))
        => verdict.status \in {"OK"} \cup AccessRefusals

(* The files that a submission brings are those that the page displayed,   *)
(* each with its field, and none of a field that was hidden, if the        *)
(* respondent waited for each file.                                        *)
FilesAsDisplayed ==
    verdict # None =>
        \A i \in fields \ inDoubt : verdict.files[i] = shown.attached[i]

(* No two attachments of the email to the admin have the same name, unless *)
(* one was called as another one is renamed.                               *)
FilenamesDistinct ==
    verdict # None =>
        \/ IsInjective(verdict.filenames)
        \/ \E f, g \in ToSet(verdict.files) \ {None}, n \in 1 .. Cardinality(fields) :
              f.name = Numbered(n, g.name)

(* The attachments of a submission are the files displayed, each under its *)
(* own name.                                                               *)
AttachmentsAsDisplayed == FilesAsDisplayed /\ FilenamesDistinct

(* A table has no fewer and no more rows than its field allows, however    *)
(* often rows are added and deleted, the table hidden and shown, and the   *)
(* form submitted in vain.                                                 *)
TableWithinBounds ==
    \A i \in fields :
        LET field == form.form_fields[i]
            rows == fieldValue[i].components
        IN  field.fieldType = "table" =>
                /\ Len(rows) >= field.minimumRows
                /\ IF field.addMoreRows
                   THEN AtMost(Len(rows), field.maximumRows)
                   ELSE Len(rows) = field.minimumRows

(* A field that is shown again shows no answer from before it was hidden,  *)
(* but for that of MyInfo, and no file, unless one was still under way.    *)
ShownAgainIsBlank ==
    [][\A i \in fields \ inDoubt' :
          ~IsMyInfo(i) /\ ~isVisible(i) /\ isVisible(i)'
              => /\ ClearedValue(i, fieldValue'[i]) = fieldValue'[i]
                 /\ file'[i] = None]_formVars

(* A submission ends, with the page of a form that was submitted, or with  *)
(* the form as it was.                                                     *)
SubmissionEnds ==
    uiState \in {"SUBMITTING", "VERIFYING", "SENT"}
        ~> uiState \in {"DEFAULT", "SUBMITTED"}

(* The server takes what the page displays: the answers, the files and the *)
(* rows of a table.                                                        *)
TakenAsDisplayed ==
    AcceptedAsDisplayed /\ AttachmentsAsDisplayed /\ TableWithinBounds
=============================================================================
