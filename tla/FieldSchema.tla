------------------------------ MODULE FieldSchema ------------------------------
(***************************************************************************)
(* What the database takes for a field of a form: app/models/field, one    *)
(* operator for each kind of field, and the discriminators of FormSchema.  *)
(*                                                                         *)
(* What a field has is told as in FieldAnswers, and as far as a schema     *)
(* looks at it: a path that a schema only casts is left out.               *)
(***************************************************************************)
EXTENDS Integers, FiniteSets

CONSTANT None       \* null, or undefined

(* The enums of types/field.                                               *)
TextValidations == {"Maximum", "Minimum", "Exact", "Range", None}

DateValidations ==
    {"Disallow past dates", "Disallow future dates", "Custom date range", None}

AttachmentSizesMb == {1, 3, 7}

ColumnTypes == {"textfield", "dropdown"}

BasicFieldType ==
    {"section", "statement", "email", "mobile", "homeno", "number", "decimal",
     "image", "textfield", "textarea", "dropdown", "yes_no", "checkbox",
     "radiobutton", "attachment", "date", "rating", "nric", "table"}

ShortTextSchema(field) == field.selectedValidation \in TextValidations

LongTextSchema(field) == field.selectedValidation \in TextValidations

NumberSchema(field) == field.selectedValidation \in TextValidations

IsNumberOrNull(n) == n = None \/ n \in Int

DecimalSchema(field) ==
    IsNumberOrNull(field.customMin) /\ IsNumberOrNull(field.customMax)

CheckboxSchema(field) ==
    /\ IsFiniteSet(field.fieldOptions)
    /\ {field.othersRadioButton, field.validateByValue} \subseteq BOOLEAN
    /\ IsNumberOrNull(field.customMin) /\ IsNumberOrNull(field.customMax)

RadioSchema(field) ==
    IsFiniteSet(field.fieldOptions) /\ field.othersRadioButton \in BOOLEAN

DropdownSchema(field) == IsFiniteSet(field.fieldOptions)

DateSchema(field) ==
    /\ field.selectedDateValidation \in DateValidations
    /\ IsNumberOrNull(field.customMinDate) /\ IsNumberOrNull(field.customMaxDate)

HomenoSchema(field) == field.allowIntlNumbers \in BOOLEAN

MobileSchema(field) == field.allowIntlNumbers \in BOOLEAN

RatingSchema(field) == field.steps \in 1 .. 10

AttachmentSchema(field) == field.attachmentSize \in AttachmentSizesMb

(* A field that is not edited has its column types from the database.      *)
ColumnSchema(column) == column.titled /\ column.columnType \in ColumnTypes

(* A maximum is forgotten if no rows can be added.                         *)
RowsSchema(field) ==
    /\ field.minimumRows # None /\ field.minimumRows >= 1
    /\ field.addMoreRows /\ field.maximumRows # None =>
          /\ field.maximumRows >= 2
          /\ field.maximumRows > field.minimumRows

(* includeFormSummary: a form in storage mode has no PDF to send, which    *)
(* the setter sees to, so that the hook has nothing to refuse.             *)
SetIncludeFormSummary(field, responseMode) ==
    field.includeFormSummary /\ responseMode # "encrypt"

EmailSchema(field, responseMode) ==
    /\ ~field.colonInSender
    /\ ~(/\ responseMode = "encrypt" /\ field.hasAutoReply
         /\ SetIncludeFormSummary(field, responseMode))

ImageSchema(field) ==
    field.url # None /\ field.fileMd5Hash # None /\ field.named

(* FieldSchema, and the discriminator of the field's type.                 *)
Accepts(field) ==
    /\ field.fieldType \in BasicFieldType
    /\ CASE field.fieldType = "textfield" -> ShortTextSchema(field)
         [] field.fieldType = "textarea" -> LongTextSchema(field)
         [] field.fieldType = "number" -> NumberSchema(field)
         [] field.fieldType = "decimal" -> DecimalSchema(field)
         [] field.fieldType = "checkbox" -> CheckboxSchema(field)
         [] field.fieldType = "radiobutton" -> RadioSchema(field)
         [] field.fieldType = "dropdown" -> DropdownSchema(field)
         [] field.fieldType = "date" -> DateSchema(field)
         [] field.fieldType = "homeno" -> HomenoSchema(field)
         [] field.fieldType = "mobile" -> MobileSchema(field)
         [] field.fieldType = "rating" -> RatingSchema(field)
         [] field.fieldType = "attachment" -> AttachmentSchema(field)
         [] field.fieldType = "table" -> RowsSchema(field)
         [] OTHER -> TRUE

(* The validator of MyInfoSchema, and the hook of FieldSchema.             *)
MyInfoAccepted(attr, authType, responseMode) ==
    attr # None => authType = "SP" /\ responseMode # "encrypt"
=============================================================================
