------------------------------ MODULE FieldEditor ------------------------------
(***************************************************************************)
(* The modal in which an admin edits one field of a form                   *)
(* (edit-fields-modal.client.controller.js and its view), with the preview *)
(* of the field beside it, the classes of viewmodels/Fields that the field *)
(* is an object of, and the server's schemas that a save goes through.     *)
(*                                                                         *)
(* The modal works on a copy of the field.  Fields are told by what        *)
(* FieldAnswers says of them, so that what a respondent can do with a      *)
(* field that was saved can be asked; but their options are a sequence,    *)
(* and the columns of a table are records.                                 *)
(***************************************************************************)
EXTENDS Integers, SequencesExt

CONSTANTS
    Absent,         \* null, or undefined
    MaxLength, MaxNumber, LastDay, MaxRows, Files,  \* see FieldAnswers
    FieldTypes,     \* the kinds of fields that the admin edits
    OptionTexts,    \* what "Option 1", "Option 2" ... are, in a sequence
    TypedOptions,   \* what is typed as an option; "" is a blank one
    Limits,         \* bound: the numbers that are typed as a limit
    Images,         \* the pictures that the admin has
    Modes,          \* of the form: email or encrypt
    MaxOptions, MaxColumns  \* bounds

Answers == INSTANCE FieldAnswers WITH None <- Absent

ASSUME EditorAssumption ==
    /\ FieldTypes \subseteq Answers!BasicFieldType
    /\ OptionTexts \in Seq(ToSet(OptionTexts))
    /\ MaxOptions \in Nat /\ MaxOptions < Len(OptionTexts)
    /\ Limits \subseteq Int
    /\ \A i \in Images : {i.allowed, i.small} \subseteq BOOLEAN
    /\ Absent \notin Int \cup STRING

(* Respondents type as much as a limit can ask for; and the mark of        *)
(* "Others" is none of the options.                                        *)
ASSUME RespondentsAssumption ==
    /\ Absent \notin Answers!Numbers
    /\ \A n \in Limits : n \in -1 .. MaxNumber /\ n <= MaxLength
    /\ {MaxLength, MaxNumber, LastDay} \subseteq Nat \ {0}
    /\ MaxRows \in Nat \ {0, 1}
    /\ "radioButtonOthers" \notin TypedOptions \cup ToSet(OptionTexts)

VARIABLES
    edited,         \* vm.field, Absent if the modal is closed
    components,     \* the rows of a table in the preview
    saving,         \* saveInProgress
    saved,          \* the field that was saved last, until it is opened
    upload,         \* of an image: what is under way
    bucket          \* the pictures in the bucket of images

imageVars == <<upload, bucket>>
editorVars == <<edited, components, saving, saved, imageVars>>

NoUpload == [step |-> "none", image |-> Absent, cancelled |-> FALSE]

EditorInit ==
    /\ edited = Absent
    /\ components = <<>>
    /\ saving = FALSE
    /\ saved = Absent
    /\ upload = NoUpload
    /\ bucket = {}

-----------------------------------------------------------------------------
(* createDefaultBasicField, and getDefaultBasicData of the classes         *)

DefaultData(type) == [fieldType |-> type, required |-> TRUE]

(* Object.assign: the data of a kind of field, and more.                   *)
With(data, more) ==
    [name \in DOMAIN data \cup DOMAIN more |->
        IF name \in DOMAIN data THEN data[name] ELSE more[name]]

(* MixIns.js                                                               *)
CustomValidation ==
    [selectedValidation |-> Absent, customVal |-> Absent,
     customMin |-> Absent, customMax |-> Absent]

RangeValidation ==
    [customMin |-> Absent, customMax |-> Absent, validateByValue |-> FALSE]

DefaultColumn ==
    [columnType |-> "textfield", required |-> TRUE, titled |-> TRUE,
     fieldOptions |-> <<>>]

TableData ==
    [minimumRows |-> 2, maximumRows |-> Absent, addMoreRows |-> FALSE,
     additionalRowCount |-> 0, columns |-> <<DefaultColumn>>]

DropdownData == [fieldOptions |-> <<OptionTexts[1]>>]

RadioData == [fieldOptions |-> <<OptionTexts[1]>>, othersRadioButton |-> FALSE]

(* boxes: how many there are in fieldValue, that of "Others" included.     *)
CheckboxData == With(With([boxes |-> 2], RadioData), RangeValidation)

RatingData == [steps |-> 5]

DateData ==
    [selectedDateValidation |-> Absent, customMinDate |-> Absent,
     customMaxDate |-> Absent]

EmailData(mode) ==
    [hasAutoReply |-> FALSE, includeFormSummary |-> FALSE,
     colonInSender |-> FALSE, responseMode |-> mode]

ImageData == [url |-> Absent, fileMd5Hash |-> Absent, named |-> FALSE]

(* left: the megabytes that the other attachments leave.                   *)
AttachmentData(left) == [attachmentSize |-> 1, left |-> left]

DefaultFields(type) ==
    LET Default(data) == With(DefaultData(type), data)
    IN  CASE type \in {"textfield", "textarea", "number"} ->
                {Default(CustomValidation)}
          [] type = "decimal" -> {Default(RangeValidation)}
          [] type = "dropdown" -> {Default(DropdownData)}
          [] type = "radiobutton" -> {Default(RadioData)}
          [] type = "checkbox" -> {Default(CheckboxData)}
          [] type = "rating" -> {Default(RatingData)}
          [] type = "date" -> {Default(DateData)}
          [] type = "table" -> {Default(TableData)}
          [] type = "image" -> {Default(ImageData)}
          [] type = "email" -> {Default(EmailData(mode)) : mode \in Modes}
          [] type = "attachment" ->
                {Default(AttachmentData(left)) : left \in {0, 1, 3, 7}}
          [] type \in {"mobile", "homeno"} ->
                {Default([allowIntlNumbers |-> FALSE])}
          [] OTHER -> {DefaultData(type)}

-----------------------------------------------------------------------------
(* TableField: components holds a cell for each column in each row         *)

CellOf(column) ==
    [columnType |-> column.columnType, options |-> column.fieldOptions]

AddedRow(field) ==
    [c \in DOMAIN field.columns |-> CellOf(field.columns[c])]

(* render                                                                  *)
Rendered(field) ==
    IF field.fieldType # "table" \/ field.minimumRows = Absent THEN <<>>
    ELSE [i \in 1 .. field.minimumRows |-> AddedRow(field)]

(* _spliceColumnAtIndex, past the last column too                          *)
SplicedColumn(columns, c) ==
    [i \in DOMAIN components |->
        IF c > Len(components[i]) THEN Append(components[i], CellOf(columns[c]))
        ELSE [components[i] EXCEPT ![c] = CellOf(columns[c])]]

-----------------------------------------------------------------------------
(* Opening the modal, on a field that is new or that was saved             *)

Open(field) ==
    /\ edited' = field
    /\ components' = Rendered(field)
    /\ saved' = Absent
    /\ upload' = NoUpload
    /\ UNCHANGED <<saving, bucket>>

OpenNewField ==
    /\ edited = Absent
    /\ \E type \in FieldTypes : \E field \in DefaultFields(type) : Open(field)

OpenSavedField ==
    /\ edited = Absent
    /\ saved # Absent
    /\ Open(saved)

Is(types) == edited # Absent /\ edited.fieldType \in types /\ ~saving

Change(field) ==
    /\ edited' = field
    /\ UNCHANGED <<components, saving, saved, imageVars>>

ToggleRequired ==
    /\ edited # Absent
    /\ Is(FieldTypes \ {"statement", "section", "table", "image"})
    /\ Change([edited EXCEPT !.required = ~@])

ToggleInternational ==
    /\ Is({"mobile", "homeno"})
    /\ Change([edited EXCEPT !.allowIntlNumbers = ~@])

ChooseSteps ==
    /\ Is({"rating"})
    /\ \E n \in {1, 10} : Change([edited EXCEPT !.steps = n])

ChooseAttachmentSize ==
    /\ Is({"attachment"})
    /\ \E size \in Answers!AttachmentSizesMb :
          Change([edited EXCEPT !.attachmentSize = size])

(* A sender with a colon stays in the input, which goes if no reply is due.*)
EditAutoReply ==
    /\ Is({"email"})
    /\ \/ Change([edited EXCEPT !.hasAutoReply = ~@, !.colonInSender = FALSE])
       \/ /\ edited.hasAutoReply
          /\ \/ /\ edited.responseMode = "email"
                /\ Change([edited EXCEPT !.includeFormSummary = ~@])
             \/ Change([edited EXCEPT !.colonInSender = ~@])

-----------------------------------------------------------------------------
(* The limits of a text: an input that is emptied is null                  *)

(* clearCustomValidation, and resetCustomValidationParams, which keeps the *)
(* kind of the limit.                                                      *)
ResetValidation(field, selected) ==
    [field EXCEPT !.selectedValidation = selected, !.customVal = Absent,
                  !.customMin = Absent, !.customMax = Absent]

SelectValidation ==
    /\ Is({"textfield", "textarea", "number"})
    /\ \E selected \in {"Maximum", "Minimum", "Exact", Absent} :
          /\ selected = Absent => edited.selectedValidation # Absent
          /\ Change(ResetValidation(edited, selected))

(* changeFxn *)
ChangeFxn(field, val) ==
    LET selected == field.selectedValidation
    IN  [field EXCEPT
            !.customVal = val,
            !.customMax = IF selected \in {"Maximum", "Exact"} THEN val
                          ELSE Absent,
            !.customMin = IF selected \in {"Minimum", "Exact"} THEN val
                          ELSE Absent]

TypeLimit ==
    /\ Is({"textfield", "textarea", "number"})
    /\ edited.selectedValidation # Absent
    /\ \E val \in Limits \cup {Absent} : Change(ChangeFxn(edited, val))

-----------------------------------------------------------------------------
(* The limits of a decimal number, and of the boxes that may be ticked     *)

(* resetRangeValidationParams *)
ToggleRange ==
    /\ Is({"decimal", "checkbox"})
    /\ Change([edited EXCEPT !.validateByValue = ~@,
                             !.customMin = Absent, !.customMax = Absent])

TypeRange ==
    /\ Is({"decimal", "checkbox"})
    /\ edited.validateByValue
    /\ \E val \in Limits \cup {Absent} :
          \/ Change([edited EXCEPT !.customMin = val])
          \/ Change([edited EXCEPT !.customMax = val])

-----------------------------------------------------------------------------
(* The limits of a date *)

(* changeDateValidation and clearDateValidation *)
SelectDateValidation ==
    /\ Is({"date"})
    /\ \E selected \in Answers!DateValidations :
          /\ selected = Absent => edited.selectedDateValidation # Absent
          /\ Change([edited EXCEPT !.selectedDateValidation = selected,
                                   !.customMinDate = Absent,
                                   !.customMaxDate = Absent])

PickDate ==
    /\ Is({"date"})
    /\ edited.selectedDateValidation = "Custom date range"
    /\ \E day \in {Absent, -1, 0, 1} :
          \/ Change([edited EXCEPT !.customMinDate = day])
          \/ Change([edited EXCEPT !.customMaxDate = day])

-----------------------------------------------------------------------------
(* The options of a radiobutton, a checkbox and a dropdown.  manualOptions *)
(* is the very array that fieldOptions is.                                 *)

(* addOption: the new option is named after the number of options, and may *)
(* have the name of another.                                               *)
AddOption ==
    LET n == Len(edited.fieldOptions)
        added == [edited EXCEPT !.fieldOptions = Append(@, OptionTexts[n + 1])]
    IN  /\ Is({"radiobutton", "checkbox"})
        /\ n < MaxOptions
        /\ Change(IF edited.fieldType = "checkbox"
                  THEN [added EXCEPT !.boxes = @ + 1] ELSE added)

(* deleteOption: the first one of that name.                               *)
DeleteOption ==
    /\ Is({"radiobutton", "checkbox"})
    /\ \E option \in ToSet(edited.fieldOptions) :
          LET at == SelectInSeq(edited.fieldOptions, LAMBDA o : o = option)
              rest == [edited EXCEPT !.fieldOptions = RemoveAt(@, at)]
          IN  Change(IF edited.fieldType = "checkbox"
                     THEN [rest EXCEPT !.boxes = @ - 1] ELSE rest)

TypeOption ==
    /\ Is({"radiobutton", "checkbox"})
    /\ \E i \in DOMAIN edited.fieldOptions, option \in TypedOptions :
          Change([edited EXCEPT !.fieldOptions[i] = option])

ToggleOthers ==
    /\ Is({"radiobutton", "checkbox"})
    /\ Change([edited EXCEPT !.othersRadioButton = ~@])

(* What is typed in a textarea, a line for each option: nothing, or lines  *)
(* of which neither the first nor the last is blank, after ng-trim.        *)
TypedLines ==
    {lines \in SeqOf(TypedOptions, MaxOptions) :
        lines = <<>> \/ (lines[1] # "" /\ Last(lines) # "")}

(* reloadDropdownField *)
TypeDropdownOptions ==
    /\ Is({"dropdown"})
    /\ \E lines \in TypedLines : Change([edited EXCEPT !.fieldOptions = lines])

-----------------------------------------------------------------------------
(* The rows and the columns of a table *)

(* updateMaxTableRows.  The rows that were added in the preview stay there.*)
ToggleAddMoreRows ==
    /\ Is({"table"})
    /\ Change(IF edited.addMoreRows
              THEN [edited EXCEPT !.addMoreRows = FALSE, !.maximumRows = Absent]
              ELSE [edited EXCEPT
                      !.addMoreRows = TRUE,
                      !.maximumRows = 1 + (IF edited.minimumRows = Absent
                                           THEN 0 ELSE edited.minimumRows),
                      !.additionalRowCount = 0])

ChangeTable(field, rows) ==
    /\ edited' = field
    /\ components' = rows
    /\ UNCHANGED <<saving, saved, imageVars>>

(* The preview watches minimumRows, and is rendered anew.                  *)
TypeMinimumRows ==
    /\ Is({"table"})
    /\ \E n \in (Limits \cap 1 .. MaxRows) \cup {Absent} :
          LET field == [edited EXCEPT !.minimumRows = n]
          IN  /\ n # edited.minimumRows
              /\ ChangeTable(field, Rendered(field))

TypeMaximumRows ==
    /\ Is({"table"})
    /\ edited.addMoreRows
    /\ \E n \in Limits \cup {Absent} :
          Change([edited EXCEPT !.maximumRows = n])

NumRows ==
    (IF edited.minimumRows = Absent THEN 0 ELSE edited.minimumRows)
        + edited.additionalRowCount

(* addTableRow and deleteTableRow, in the preview.  Toggling "add more     *)
(* rows" twice forgets how many were added, but not the rows: MaxRows is a *)
(* bound on those.                                                         *)
AddPreviewRow ==
    /\ Is({"table"})
    /\ edited.addMoreRows
    /\ Len(components) < MaxRows
    /\ NumRows < (IF edited.maximumRows = Absent THEN MaxRows
                  ELSE edited.maximumRows)
    /\ ChangeTable([edited EXCEPT !.additionalRowCount = @ + 1],
                   Append(components, AddedRow(edited)))

DeletePreviewRow ==
    /\ Is({"table"})
    /\ edited.additionalRowCount > 0
    /\ \E n \in 1 + NumRows - edited.additionalRowCount .. NumRows :
          ChangeTable([edited EXCEPT !.additionalRowCount = @ - 1],
                      IF n > Len(components) THEN components
                      ELSE RemoveAt(components, n))

(* Mutant: the preview keeps the cells of a column that is deleted.        *)
DeleteColumn_KeepsCells(c) ==
    ChangeTable([edited EXCEPT !.columns = RemoveAt(@, c)], components)

(* addColumn, deleteColumn, changeColumnType and updateColumnOptions       *)
AddColumn ==
    LET columns == Append(edited.columns, DefaultColumn)
    IN  ChangeTable([edited EXCEPT !.columns = columns],
                    SplicedColumn(columns, Len(columns)))

DeleteColumn(c) ==
    ChangeTable([edited EXCEPT !.columns = RemoveAt(@, c)],
                [i \in DOMAIN components |-> RemoveAt(components[i], c)])

ChangeColumn(c, column) ==
    LET columns == [edited.columns EXCEPT ![c] = column]
    IN  ChangeTable([edited EXCEPT !.columns = columns],
                    SplicedColumn(columns, c))

AddTableColumn ==
    /\ Is({"table"})
    /\ Len(edited.columns) < MaxColumns
    /\ AddColumn

DeleteTableColumn ==
    /\ Is({"table"})
    /\ Len(edited.columns) >= 2
    /\ \E c \in DOMAIN edited.columns : DeleteColumn(c)

UpdateColumnType ==
    /\ Is({"table"})
    /\ \E c \in DOMAIN edited.columns, type \in Answers!ColumnTypes :
          /\ type # edited.columns[c].columnType
          /\ ChangeColumn(c, [edited.columns[c] EXCEPT !.columnType = type])

UpdateColumnOptions ==
    /\ Is({"table"})
    /\ \E c \in DOMAIN edited.columns, lines \in TypedLines :
          /\ edited.columns[c].columnType = "dropdown"
          /\ ChangeColumn(c, [edited.columns[c] EXCEPT !.fieldOptions = lines])

EditColumn ==
    /\ Is({"table"})
    /\ \E c \in DOMAIN edited.columns :
          \/ Change([edited EXCEPT !.columns[c].required = ~@])
          \/ Change([edited EXCEPT !.columns[c].titled = ~@])

-----------------------------------------------------------------------------
(* The picture of an image: FileHandler.uploadImage *)

HasPicture(field) == field.url # Absent /\ field.named

(* A picture that is too large, or of a kind that is not accepted, is      *)
(* refused at once.                                                        *)
UploadImage ==
    /\ Is({"image"})
    /\ ~HasPicture(edited)
    /\ upload.step = "none"
    /\ \E image \in Images :
          /\ image.allowed /\ image.small
          /\ upload' = [step |-> "hash", image |-> image, cancelled |-> FALSE]
    /\ UNCHANGED <<edited, components, saving, saved, bucket>>

(* shouldCancelUpload.resolve: only a post under way can be aborted.       *)
CancelUpload ==
    /\ Is({"image"})
    /\ upload.step # "none"
    /\ upload' = [upload EXCEPT !.cancelled = TRUE]
    /\ UNCHANGED <<edited, components, saving, saved, bucket>>

(* getMd5Hash; then the server signs the post for that hash.               *)
HashRead ==
    /\ upload.step = "hash"
    /\ upload' = [upload EXCEPT !.step = "sign"]
    /\ UNCHANGED <<edited, components, saving, saved, bucket>>

(* createPresignedPostForImages *)
PostSigned ==
    /\ upload.step = "sign"
    /\ upload.image.allowed
    /\ upload' = [upload EXCEPT !.step = "post"]
    /\ UNCHANGED <<edited, components, saving, saved, bucket>>

(* S3 keeps what is posted, if it is small and has the hash.               *)
ImageKept ==
    /\ upload.step = "post"
    /\ upload.image.small
    /\ bucket' = bucket \cup {upload.image}
    /\ upload' = [upload EXCEPT !.step = "kept"]
    /\ UNCHANGED <<edited, components, saving, saved>>

(* The answer of S3 says that the picture is kept.                         *)
ShowsPicture == upload.step = "kept"

UploadSucceeds ==
    /\ ShowsPicture
    /\ ~upload.cancelled
    /\ edited' = IF edited = Absent THEN Absent
                 ELSE [edited EXCEPT !.url = upload.image,
                                     !.fileMd5Hash = upload.image,
                                     !.named = TRUE]
    /\ upload' = NoUpload
    /\ UNCHANGED <<components, saving, saved, bucket>>

(* Also when the answer is lost, and when the upload was cancelled.        *)
UploadFails ==
    /\ upload.step # "none"
    /\ upload.cancelled => upload.step \in {"post", "kept"}
    /\ upload' = NoUpload
    /\ UNCHANGED <<edited, components, saving, saved, bucket>>

(* removeImage: the url is that of a placeholder.                          *)
RemoveImage ==
    /\ Is({"image"})
    /\ HasPicture(edited)
    /\ Change([edited EXCEPT !.fileMd5Hash = Absent, !.named = FALSE])

-----------------------------------------------------------------------------
(* Saving *)

HasDuplicates(options) == ~IsInjective(options)

(* showEmptyDateRangeError and showProblemDateRangeError                   *)
DateRangeError(field) ==
    \/ /\ field.selectedDateValidation = "Custom date range"
       /\ field.customMinDate = Absent /\ field.customMaxDate = Absent
    \/ /\ Absent \notin {field.customMinDate, field.customMaxDate}
       /\ field.customMaxDate < field.customMinDate

RowsError(field) ==
    \/ field.minimumRows = Absent
    \/ /\ field.addMoreRows /\ field.maximumRows # Absent
       /\ \/ field.maximumRows <= field.minimumRows
          \/ field.maximumRows < field.minimumRows + field.additionalRowCount

(* vm.forms.tableColumns.$invalid: two inputs are required.                *)
ColumnsInvalid(field) ==
    \E c \in DOMAIN field.columns :
        \/ ~field.columns[c].titled
        \/ /\ field.columns[c].columnType = "dropdown"
           /\ field.columns[c].fieldOptions = <<>>

disableSave(field) ==
    CASE field.fieldType = "attachment" -> field.left < field.attachmentSize
      [] field.fieldType \in {"dropdown", "radiobutton", "checkbox"} ->
            \/ field.fieldOptions = <<>>
            \/ HasDuplicates(field.fieldOptions)
            \/ "" \in ToSet(field.fieldOptions)
      [] field.fieldType = "table" -> RowsError(field) \/ ColumnsInvalid(field)
      [] field.fieldType = "image" -> ~HasPicture(field)
      [] field.fieldType = "date" -> DateRangeError(field)
      [] OTHER -> FALSE

(* Mutant: the most that may be ticked may be more than there is.          *)
RangeInvalid_NoMax(field) ==
    /\ field.validateByValue
    /\ Absent \notin {field.customMin, field.customMax}
    /\ field.customMax < field.customMin

(* The attributes ng-min, ng-max and ng-pattern of the inputs.             *)
RangeInvalid(field) ==
    LET options == Len(field.fieldOptions)
                       + (IF field.othersRadioButton THEN 1 ELSE 0)
    IN  \/ /\ Absent \notin {field.customMin, field.customMax}
           /\ field.customMax < field.customMin
        \/ /\ field.fieldType = "checkbox"
           /\ \E n \in {field.customMin, field.customMax} \ {Absent} :
                 n \notin 1 .. options

(* editFieldForm.$invalid *)
FormInvalid(field) ==
    CASE field.fieldType \in {"textfield", "textarea", "number"} ->
            field.customVal # Absent /\ field.customVal < 1
      [] field.fieldType \in {"decimal", "checkbox"} -> RangeInvalid(field)
      [] field.fieldType = "email" -> field.colonInSender
      [] OTHER -> FALSE

(* saveField *)
saveField ==
    /\ edited # Absent
    /\ ~saving
    /\ ~disableSave(edited) /\ ~FormInvalid(edited)
    /\ saving' = TRUE
    /\ UNCHANGED <<edited, components, saved, imageVars>>

(* What a respondent's page, and the database, have of a field.            *)
Posted(field) ==
    CASE field.fieldType \in {"dropdown", "radiobutton", "checkbox"} ->
            [field EXCEPT !.fieldOptions = ToSet(@)]
      [] field.fieldType = "table" ->
            [field EXCEPT !.columns = [c \in DOMAIN @ |-> @[c].required]]
      [] OTHER -> field

(* The schemas of app/models/field.                                        *)
Accepted(field) ==
    /\ Answers!Accepts(Posted(field))
    /\ field.fieldType = "table" =>
          \A c \in DOMAIN field.columns : Answers!ColumnSchema(field.columns[c])
    /\ field.fieldType = "email" => Answers!EmailSchema(field, field.responseMode)
    /\ field.fieldType = "image" => Answers!ImageSchema(field)

(* The constructors make the rest of what is not saved anew.               *)
Reread(field) ==
    CASE field.fieldType = "table" -> [field EXCEPT !.additionalRowCount = 0]
      [] field.fieldType = "email" ->
            [field EXCEPT !.includeFormSummary =
                Answers!SetIncludeFormSummary(field, field.responseMode)]
      [] OTHER -> field

SaveSucceeds ==
    /\ saving
    /\ Accepted(edited)
    /\ saved' = Reread(edited)
    /\ edited' = Absent
    /\ components' = <<>>
    /\ saving' = FALSE
    /\ UNCHANGED imageVars

(* Refused by a schema, or an error on the way.  The modal stays open.     *)
SaveRefused ==
    /\ saving
    /\ saving' = FALSE
    /\ UNCHANGED <<edited, components, saved, imageVars>>

(* The copy is dropped.                                                    *)
cancel ==
    /\ edited # Absent
    /\ ~saving
    /\ edited' = Absent
    /\ components' = <<>>
    /\ UNCHANGED <<saving, saved, imageVars>>

EditorNext ==
    \/ OpenNewField
    \/ OpenSavedField
    \/ ToggleRequired
    \/ ToggleInternational
    \/ ChooseSteps
    \/ ChooseAttachmentSize
    \/ EditAutoReply
    \/ SelectValidation
    \/ TypeLimit
    \/ ToggleRange
    \/ TypeRange
    \/ SelectDateValidation
    \/ PickDate
    \/ AddOption
    \/ DeleteOption
    \/ TypeOption
    \/ ToggleOthers
    \/ TypeDropdownOptions
    \/ ToggleAddMoreRows
    \/ TypeMinimumRows
    \/ TypeMaximumRows
    \/ AddPreviewRow
    \/ DeletePreviewRow
    \/ AddTableColumn
    \/ DeleteTableColumn
    \/ UpdateColumnType
    \/ UpdateColumnOptions
    \/ EditColumn
    \/ UploadImage
    \/ CancelUpload
    \/ HashRead
    \/ PostSigned
    \/ ImageKept
    \/ UploadSucceeds
    \/ UploadFails
    \/ RemoveImage
    \/ saveField
    \/ SaveSucceeds
    \/ SaveRefused
    \/ cancel

-----------------------------------------------------------------------------
(* What the modal promises.  Each is a conjunct of FieldInOrder.           *)

(* The preview has the columns of the table, and their options.            *)
PreviewShowsColumns ==
    edited # Absent /\ edited.fieldType = "table" =>
        \A i \in DOMAIN components : components[i] = AddedRow(edited)

(* The limits are those of the kind of limit that is selected.             *)
LimitsAsSelected ==
    edited # Absent =>
        CASE edited.fieldType \in {"textfield", "textarea", "number"} ->
                [selectedValidation |-> edited.selectedValidation,
                 customVal |-> edited.customVal,
                 customMax |-> edited.customMax,
                 customMin |-> edited.customMin]
                    = Answers!ValidationOptions(edited)
          [] edited.fieldType \in {"decimal", "checkbox"} ->
                ~edited.validateByValue =>
                    {edited.customMin, edited.customMax} = {Absent}
          [] edited.fieldType = "date" ->
                edited.selectedDateValidation # "Custom date range" =>
                    {edited.customMinDate, edited.customMaxDate} = {Absent}
          [] OTHER -> TRUE

(* There is a box for each option, and one for "Others".                   *)
BoxForEachOption ==
    edited # Absent /\ edited.fieldType = "checkbox" =>
        edited.boxes = Len(edited.fieldOptions) + 1

(* What the modal lets the admin save is not refused by the database.      *)
SavedIsAccepted == saving => Accepted(edited)

(* Whoever sees the field can answer it: with something that his page and  *)
(* the server take.                                                        *)
CanBeAnswered(field) ==
    \E value \in Answers!PossibleValues(Posted(field)) :
        LET answer == Answers!Answer(field, value)
            day == 0
        IN  /\ ~Answers!isValueEmpty(Posted(field), answer)
            /\ Answers!PageValid(Posted(field), value, Absent, day)
            /\ Answers!isAnswerValid(Posted(field), answer, Absent, TRUE, day, day)

SavedCanBeAnswered ==
    saved # Absent
        /\ saved.fieldType \notin {"section", "statement", "image", "attachment"}
    => CanBeAnswered(saved)

(* The picture of an image that was saved is in the bucket.                *)
PictureIsKept ==
    saved # Absent /\ saved.fieldType = "image" =>
        saved.url \in bucket /\ saved.fileMd5Hash = saved.url

(* Whatever was typed, cleared, deleted and uploaded on the way: the       *)
(* preview and the limits agree with the field, and what is saved passes   *)
(* the database's schemas and can be answered.                             *)
FieldInOrder ==
    /\ PreviewShowsColumns
    /\ LimitsAsSelected
    /\ BoxForEachOption
    /\ SavedIsAccepted
    /\ SavedCanBeAnswered
    /\ PictureIsKept
=============================================================================
