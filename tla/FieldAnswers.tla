----------------------------- MODULE FieldAnswers -----------------------------
(***************************************************************************)
(* The answers of a form: what a respondent can put in a field, which of   *)
(* it the page takes for valid (the components and directives of           *)
(* public/modules/forms/base), what the page sends for it (the classes of  *)
(* viewmodels/Fields), and which of that the server accepts (the           *)
(* validators of app/utils/field-validation).                              *)
(*                                                                         *)
(* A string is told by what a validator looks at: its length and whether   *)
(* it is made of digits, or the set of the strings it belongs to.          *)
(***************************************************************************)
EXTENDS FieldSchema, SequencesExt

CONSTANTS
    MaxLength,      \* the longest text that a respondent types
    MaxNumber,      \* the greatest number that he types
    LastDay,        \* days are numbered from the one the page is opened on
    MaxRows,        \* the most rows in a table
    Files           \* the files that a respondent has

ASSUME AnswersAssumption ==
    /\ {MaxLength, MaxNumber, LastDay} \subseteq Nat /\ MaxRows \in Nat \ {0}
    /\ \A f \in Files : f.size \in Nat /\ f.allowed \in BOOLEAN
                        /\ f.isZip \in BOOLEAN /\ f.contentAllowed \in BOOLEAN

(* Sizes are counted in halves of a megabyte, which is one of SI.          *)
Halves(megabytes) == 2 * megabytes

-----------------------------------------------------------------------------
(* What a field may hold *)

(* After ng-trim.                                                          *)
Texts == [length : 0 .. MaxLength, digits : BOOLEAN]

(* exponent: the string of the number is in exponential notation.          *)
Numbers == [number : -1 .. MaxNumber, exponent : BOOLEAN]

Phones == {"", "sgMobile", "sgHome", "foreignMobile", "foreignHome", "invalid"}

Dates == {None} \cup (-2 .. LastDay)

(* The model of a file input: the object that was picked, or a file name.  *)
FileValues == {"", "object"} \cup {f.name : f \in Files}

BlankRow(field) == [c \in DOMAIN field.columns |-> FALSE]

(* A row tells which of its cells hold text, or an option.                 *)
BlankTable(field) ==
    [components |-> [i \in 1 .. field.minimumRows |-> BlankRow(field)],
     additionalRowCount |-> 0]

Choice(option, others) == [option |-> option, others |-> others]

(* What field.clear and the constructors leave in a field.                 *)
EmptyValue(field) ==
    CASE field.fieldType \in {"textfield", "textarea", "number"} ->
            [length |-> 0, digits |-> TRUE]
      [] field.fieldType \in {"decimal", "date"} -> None
      [] field.fieldType = "radiobutton" -> Choice("", FALSE)
      [] field.fieldType = "checkbox" ->
            [options |-> {}, checked |-> FALSE, others |-> FALSE]
      [] field.fieldType = "rating" -> 0
      [] field.fieldType = "table" -> BlankTable(field)
      [] OTHER -> ""

(* others is what is typed beside "Others": something, or nothing.         *)
RadioValues(field) ==
    {Choice(o, t) : o \in {""} \cup field.fieldOptions \cup
                       (IF field.othersRadioButton
                        THEN {"radioButtonOthers"} ELSE {}),
                    t \in {FALSE, field.othersRadioButton}}

CheckboxValues(field) ==
    [options : SUBSET field.fieldOptions,
     checked : {FALSE, field.othersRadioButton},
     others : {FALSE, field.othersRadioButton}]

TableValues(field) ==
    [components : SeqOf([DOMAIN field.columns -> BOOLEAN], MaxRows),
     additionalRowCount : 0 .. MaxRows]

PossibleValues(field) ==
    CASE field.fieldType \in {"textfield", "textarea", "number"} -> Texts
      [] field.fieldType = "decimal" -> {None} \cup Numbers
      [] field.fieldType = "date" -> Dates
      [] field.fieldType \in {"mobile", "homeno"} -> Phones
      [] field.fieldType \in {"email", "nric"} -> {"", "wellFormed", "invalid"}
      [] field.fieldType = "yes_no" -> {"", "Yes", "No"}
      [] field.fieldType = "rating" -> 0 .. field.steps
      [] field.fieldType = "dropdown" -> {""} \cup field.fieldOptions
      [] field.fieldType = "radiobutton" -> RadioValues(field)
      [] field.fieldType = "checkbox" -> CheckboxValues(field)
      [] field.fieldType = "table" -> TableValues(field)
      [] field.fieldType = "attachment" -> FileValues
      [] field.fieldType = "section" -> {""}

-----------------------------------------------------------------------------
(* What the admin's page makes of its inputs for a limit: changeFxn        *)

ValidationOptions(field) ==
    LET selected == field.selectedValidation
        val == field.customVal
    IN  [selectedValidation |-> selected,
         customVal |-> val,
         customMax |-> IF selected \in {"Maximum", "Exact"} THEN val ELSE None,
         customMin |-> IF selected \in {"Minimum", "Exact"} THEN val ELSE None]

AtLeast(n, min) == min # None => n >= min

AtMost(n, max) == max # None => n <= max

-----------------------------------------------------------------------------
(* The page *)

(* The input lets nothing through, and so cannot be told from an empty one.*)
PageEmpty(field, value) == value = EmptyValue(field)

(* The input of "Others", once it is ticked.                               *)
OthersMissing(field, value) ==
    CASE field.fieldType = "radiobutton" ->
            value.option = "radioButtonOthers" /\ ~value.others
      [] field.fieldType = "checkbox" -> value.checked /\ ~value.others
      [] OTHER -> FALSE

NothingChosen(field, value) ==
    CASE field.fieldType = "radiobutton" -> value.option = ""
      [] field.fieldType = "checkbox" -> value.options = {} /\ ~value.checked
      [] OTHER -> PageEmpty(field, value)

isPhone(field, value) ==
    /\ value \in (IF field.fieldType = "mobile"
                  THEN {"sgMobile", "foreignMobile"}
                  ELSE {"sgHome", "foreignHome"})
    /\ field.allowIntlNumbers \/ value \in {"sgMobile", "sgHome"}

Boxes(value) ==
    Cardinality(value.options) + (IF value.checked THEN 1 ELSE 0)

(* Mutant: the page's checkboxes do not mind the most that may be ticked.  *)
validateCheckbox_NoMax(field, value) == AtLeast(Boxes(value), field.customMin)

validateCheckbox(field, value) ==
    /\ AtLeast(Boxes(value), field.customMin)
    /\ AtMost(Boxes(value), field.customMax)

(* minDate and maxDate are set when the component is made, on the day      *)
(* opened, in Singapore's time.                                            *)
isDateInvalid(field, value, opened) ==
    LET minDate == IF field.customMinDate # None THEN field.customMinDate
                   ELSE IF field.selectedDateValidation = "Disallow past dates"
                        THEN opened ELSE None
        maxDate == IF field.customMaxDate # None THEN field.customMaxDate
                   ELSE IF field.selectedDateValidation = "Disallow future dates"
                        THEN opened ELSE None
    IN  ~(AtLeast(value, minDate) /\ AtMost(value, maxDate))

(* Whether a value that is not empty is displayed without an error.        *)
PageFilled(field, value, opened) ==
    CASE field.fieldType \in {"textfield", "textarea", "number"} ->
            /\ field.fieldType = "number" => value.digits
            /\ AtLeast(value.length, ValidationOptions(field).customMin)
            /\ AtMost(value.length, ValidationOptions(field).customMax)
      [] field.fieldType = "decimal" ->
            AtLeast(value.number, field.customMin)
                /\ AtMost(value.number, field.customMax)
      [] field.fieldType = "date" -> ~isDateInvalid(field, value, opened)
      [] field.fieldType \in {"mobile", "homeno"} -> isPhone(field, value)
      [] field.fieldType \in {"email", "nric"} -> value = "wellFormed"
      [] field.fieldType = "checkbox" -> validateCheckbox(field, value)
      [] OTHER -> TRUE

(* An attached file takes the input of its field off the page.             *)
PageValid(field, value, attached, opened) ==
    CASE field.fieldType = "table" ->
            \A i \in DOMAIN value.components, c \in DOMAIN field.columns :
                field.columns[c] => value.components[i][c]
      [] field.fieldType = "attachment" /\ attached # None -> TRUE
      [] OTHER ->
            IF NothingChosen(field, value)
            THEN ~field.required
            ELSE /\ ~OthersMissing(field, value)
                 /\ PageFilled(field, value, opened)

-----------------------------------------------------------------------------
(* getResponse *)

(* answerArray of a checkbox: the options in the order of the field, then  *)
(* "Others: " with what is typed there.                                    *)
CheckboxAnswers(value) ==
    SetToSeq(value.options)
        \o (IF value.checked
            THEN <<IF value.others THEN "Others: text" ELSE "Others: ">>
            ELSE <<>>)

RadioAnswer(value) ==
    IF value.option # "radioButtonOthers" THEN value.option
    ELSE IF value.others THEN "Others: text" ELSE "Others: "

Answer(field, value) ==
    CASE field.fieldType = "radiobutton" -> RadioAnswer(value)
      [] field.fieldType = "checkbox" -> CheckboxAnswers(value)
      [] field.fieldType = "table" -> value.components
      [] OTHER -> value

-----------------------------------------------------------------------------
(* The server *)

(* _isValueEmpty                                                           *)
isValueEmpty(field, answer) ==
    CASE field.fieldType \in {"checkbox", "table"} -> answer = <<>>
      [] field.fieldType = "radiobutton" -> answer = ""
      [] OTHER -> answer = EmptyValue(field)

(* _isAnswerRequired                                                       *)
isAnswerRequired(field, isVisible) ==
    /\ isVisible
    /\ IF field.fieldType = "table"
       THEN \E c \in DOMAIN field.columns : field.columns[c]
       ELSE field.required

(* TextValidator.                                                          *)
isNumberOfCharactersValid(field, answer) ==
    LET options == ValidationOptions(field)
    IN  CASE options.selectedValidation = "Exact" ->
                options.customMin = None \/ answer.length = options.customMin
          [] options.selectedValidation = "Minimum" ->
                AtLeast(answer.length, options.customMin)
          [] options.selectedValidation = "Maximum" ->
                AtMost(answer.length, options.customMax)
          [] OTHER -> TRUE

(* NumberValidator.                                                        *)
validateLengthOfAnswer(field, answer) ==
    LET options == ValidationOptions(field)
    IN  CASE options.selectedValidation = "Exact" ->
                options.customVal = None \/ answer.length = options.customVal
          [] options.selectedValidation = "Minimum" ->
                AtLeast(answer.length, options.customMin)
          [] options.selectedValidation = "Maximum" ->
                AtMost(answer.length, options.customMax)
          [] OTHER -> TRUE

(* options.js                                                              *)
isOneOfOptions(field, answer) == answer \in field.fieldOptions

isOtherOption(field, answer) ==
    field.othersRadioButton /\ answer = "Others: text"

(* CheckboxValidator: an option is ticked once, and so is "Others".  What   *)
(* is typed beside "Others" may read as one of the options.                *)
isCheckboxValid(field, answers) ==
    /\ field.validateByValue =>
          /\ AtLeast(Len(answers), field.customMin)
          /\ AtMost(Len(answers), field.customMax)
    /\ \E others \in {0} \cup DOMAIN answers :
          /\ others # 0 => isOtherOption(field, answers[others])
          /\ \A i \in DOMAIN answers \ {others} :
                /\ isOneOfOptions(field, answers[i])
                /\ \A j \in DOMAIN answers \ {others} :
                      answers[i] = answers[j] => i = j

(* TableValidator; a cell is judged as a field of its column is.           *)
isTableValid(field, rows, isVisible) ==
    /\ Len(rows) >= field.minimumRows
    /\ IF field.addMoreRows THEN AtMost(Len(rows), field.maximumRows)
                            ELSE Len(rows) = field.minimumRows
    /\ \A i \in DOMAIN rows, c \in DOMAIN field.columns :
          field.columns[c] /\ isVisible => rows[i][c]

(* DateValidator.  The time of the day, which is not told, decides if the  *)
(* day before today still counts, and if the day after it does already.    *)
isDateValid(field, answer, todayMin, todayMax) ==
    /\ field.selectedDateValidation = "Disallow past dates" =>
          answer >= todayMin
    /\ field.selectedDateValidation = "Disallow future dates" =>
          answer <= todayMax
    /\ AtLeast(answer, field.customMinDate)
    /\ AtMost(answer, field.customMaxDate)

(* AttachmentValidator.                                                    *)
isSizeValid(field, content) ==
    content # None /\ content.size < Halves(field.attachmentSize)

(* NumberValidator: digits, and as many of them as the limit allows.       *)
isNumberValid(field, answer) ==
    answer.digits /\ validateLengthOfAnswer(field, answer)

(* DecimalValidator.  Of a number in exponential notation, what comes      *)
(* before the point is not an integer.                                     *)
isFloatAndWithinRange(field, answer) ==
    /\ AtLeast(answer.number, field.customMin)
    /\ AtMost(answer.number, field.customMax)

isDecimalValid(field, answer) ==
    isFloatAndWithinRange(field, answer) /\ ~answer.exponent

(* MobileValidator and HomeNoValidator.                                    *)
isMobileValid(field, answer) ==
    /\ answer \in {"sgMobile", "foreignMobile"}
    /\ ~field.allowIntlNumbers => answer = "sgMobile"

isHomeNoValid(field, answer) ==
    /\ answer \in {"sgHome", "foreignHome"}
    /\ ~field.allowIntlNumbers => answer = "sgHome"

isEmailValid(answer) == answer = "wellFormed"

isNricValid(answer) == answer = "wellFormed"

isYesNoValid(answer) == answer \in {"Yes", "No"}

(* RatingValidator: from 1 to the steps that are allowed.                  *)
isRatingValid(field, answer) == answer \in 1 .. field.steps

isDropdownValid(field, answer) == isOneOfOptions(field, answer)

isRadioValid(field, answer) ==
    isOneOfOptions(field, answer) \/ isOtherOption(field, answer)

(* AnswerNotAllowedValidator: no answer is one to a section.               *)
AnswerNotAllowed == FALSE

(* createFieldValidator and _isFilledAnswerValid, of an answer that is not *)
(* empty.                                                                  *)
isFilledAnswerValid(field, answer, content, isVisible, todayMin, todayMax) ==
    CASE field.fieldType \in {"textfield", "textarea"} ->
            isNumberOfCharactersValid(field, answer)
      [] field.fieldType = "number" -> isNumberValid(field, answer)
      [] field.fieldType = "decimal" -> isDecimalValid(field, answer)
      [] field.fieldType = "date" ->
            isDateValid(field, answer, todayMin, todayMax)
      [] field.fieldType = "mobile" -> isMobileValid(field, answer)
      [] field.fieldType = "homeno" -> isHomeNoValid(field, answer)
      [] field.fieldType = "email" -> isEmailValid(answer)
      [] field.fieldType = "nric" -> isNricValid(answer)
      [] field.fieldType = "yes_no" -> isYesNoValid(answer)
      [] field.fieldType = "rating" -> isRatingValid(field, answer)
      [] field.fieldType = "dropdown" -> isDropdownValid(field, answer)
      [] field.fieldType = "radiobutton" -> isRadioValid(field, answer)
      [] field.fieldType = "checkbox" -> isCheckboxValid(field, answer)
      [] field.fieldType = "table" -> isTableValid(field, answer, isVisible)
      [] field.fieldType = "attachment" -> isSizeValid(field, content)
      [] field.fieldType = "section" -> AnswerNotAllowed

isAnswerValid(field, answer, content, isVisible, todayMin, todayMax) ==
    IF isValueEmpty(field, answer)
    THEN ~isAnswerRequired(field, isVisible)
    ELSE isFilledAnswerValid(field, answer, content, isVisible,
                             todayMin, todayMax)
=============================================================================
