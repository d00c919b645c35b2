----------------------------- MODULE MCFormAccess -----------------------------
(***************************************************************************)
(* Small forms: one for each kind of field and of limit, the field shown   *)
(* by a yes_no field before it, one with three attachments, and one for    *)
(* each kind of login, and with MyInfo.                                    *)
(***************************************************************************)
EXTENDS FormAccess

YesNo == [fieldType |-> "yes_no", required |-> TRUE]

Text(type, selected, val, required) ==
    [fieldType |-> type, required |-> required,
     selectedValidation |-> selected, customVal |-> val]

TextFields ==
    {Text(type, selected, val, TRUE) :
        type \in {"textfield", "number"},
        selected \in {"Minimum", "Maximum", "Exact"}, val \in {None, 2}}
    \cup {Text(type, None, None, FALSE) : type \in {"textarea", "number"}}

Decimals ==
    {[fieldType |-> "decimal", required |-> r, customMin |-> min,
      customMax |-> 2] : r \in BOOLEAN, min \in {None, 0}}

DatesOf(selected, min, max) ==
    [fieldType |-> "date", required |-> TRUE, selectedDateValidation |-> selected,
     customMinDate |-> min, customMaxDate |-> max]

DateFields ==
    {DatesOf("Disallow past dates", None, None),
     DatesOf("Disallow future dates", None, None),
     DatesOf("Custom date range", -1, 0)}

PhoneFields ==
    {[fieldType |-> type, required |-> r, allowIntlNumbers |-> intl] :
        type \in {"mobile", "homeno"}, r \in BOOLEAN, intl \in BOOLEAN}

PlainFields ==
    {[fieldType |-> type, required |-> r] :
        type \in {"email", "nric", "yes_no"}, r \in BOOLEAN}
    \cup {[fieldType |-> "section", required |-> FALSE]}

OptionFields ==
    {[fieldType |-> "radiobutton", required |-> r,
      fieldOptions |-> {"red", "blue"}, othersRadioButton |-> r] : r \in BOOLEAN}
    \cup {[fieldType |-> "dropdown", required |-> TRUE,
           fieldOptions |-> {"red", "blue"}],
          [fieldType |-> "rating", required |-> TRUE, steps |-> 2]}

Checkboxes ==
    {[fieldType |-> "checkbox", required |-> r, fieldOptions |-> {"red", "blue"},
      othersRadioButton |-> TRUE, validateByValue |-> r,
      customMin |-> IF r THEN min ELSE None,
      customMax |-> IF r THEN 2 ELSE None] : r \in BOOLEAN, min \in {None, 2}}

Table(columns, addMoreRows, maximumRows) ==
    [fieldType |-> "table", columns |-> columns, minimumRows |-> 1,
     addMoreRows |-> addMoreRows, maximumRows |-> maximumRows]

Tables == {Table(<<TRUE, FALSE>>, TRUE, 2), Table(<<FALSE>>, TRUE, None),
           Table(<<TRUE>>, FALSE, None)}

Attachment(required) ==
    [fieldType |-> "attachment", required |-> required, attachmentSize |-> 1]

(* Small, of exactly the size that is allowed, and too large; a zip with a *)
(* file that is not allowed; some have the same name.                      *)
File(name, size, isZip, allowed, contentAllowed) ==
    [name |-> name, size |-> size, isZip |-> isZip, allowed |-> allowed,
     contentAllowed |-> contentAllowed]

SomeFiles ==
    {File("letter.txt", 1, FALSE, TRUE, TRUE),
     File("letter.txt", 2, FALSE, TRUE, TRUE),
     File("letters.zip", 1, TRUE, TRUE, FALSE),
     File("letter.exe", 1, FALSE, FALSE, TRUE),
     File("letter.txt", 3, FALSE, TRUE, TRUE)}

(* A field that "Yes" shows.                                               *)
Shown(field, responseMode, hasCaptcha) ==
    [form_fields |-> <<YesNo, field>>, shownBy |-> <<0, 1>>, prevents |-> 0,
     responseMode |-> responseMode, hasCaptcha |-> hasCaptcha,
     files |-> SomeFiles, authType |-> "NIL", myInfo |-> <<None, None>>]

(* A field that is always shown, and a "No" that prevents the submission.  *)
Prevented(field) ==
    [form_fields |-> <<YesNo, field>>, shownBy |-> <<0, 0>>, prevents |-> 1,
     responseMode |-> "email", hasCaptcha |-> TRUE, files |-> {},
     authType |-> "NIL", myInfo |-> <<None, None>>]

(* A form with a login, and one that asks MyInfo for what "Yes" shows.     *)
WithLogin(authType, responseMode) ==
    [form_fields |-> <<YesNo>>, shownBy |-> <<0>>, prevents |-> 0,
     responseMode |-> responseMode, hasCaptcha |-> FALSE, files |-> {},
     authType |-> authType, myInfo |-> <<None>>]

ResidentialStatus == [fieldType |-> "dropdown", required |-> TRUE,
            fieldOptions |-> {"pr", "citizen"}]

WithMyInfo ==
    [form_fields |-> <<YesNo, ResidentialStatus>>, shownBy |-> <<0, 1>>, prevents |-> 0,
     responseMode |-> "email", hasCaptcha |-> FALSE, files |-> {},
     authType |-> "SP", myInfo |-> <<None, "residentialstatus">>]

LoginForms ==
    {WithMyInfo, WithLogin("CP", "email"), WithLogin("SP", "encrypt")}

(* One whose verified status changes, and one who stated his himself.      *)
Stated(value, verified) ==
    [residentialstatus |-> [value |-> value, verified |-> verified]]

SomePersons ==
    [u \in {"ann", "ben"} |->
        IF u = "ann" THEN <<Stated("pr", TRUE), Stated("citizen", TRUE)>>
        ELSE <<Stated("citizen", FALSE)>>]

SomeCorpUsers == [u \in {"ann", "ben"} |-> IF u = "ann" THEN "eve" ELSE "dan"]

SomeForms ==
    LoginForms \cup
    {Shown(field, "email", FALSE) :
        field \in TextFields \cup Decimals \cup DateFields \cup PhoneFields
                  \cup PlainFields \cup OptionFields \cup Checkboxes \cup Tables}
    \cup {Shown(field, "encrypt", FALSE) :
             field \in PhoneFields \cup {Attachment(TRUE)}}
    \cup {Shown(Attachment(TRUE), "email", TRUE), Prevented(YesNo)}
    \cup {[form_fields |-> <<Attachment(TRUE), Attachment(FALSE), Attachment(FALSE)>>,
           shownBy |-> <<0, 0, 0>>, prevents |-> 0, responseMode |-> "email",
           hasCaptcha |-> FALSE, authType |-> "NIL",
           myInfo |-> <<None, None, None>>,
           files |-> {f \in SomeFiles : f.allowed /\ f.size = 1 /\ ~f.isZip}]}
=============================================================================
