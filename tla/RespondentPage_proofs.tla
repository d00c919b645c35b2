------------------------ MODULE RespondentPage_proofs ------------------------
(***************************************************************************)
(* Proofs about the respondent's page: about FormLogic, the loop that finds*)
(* the fields to show, for forms with any fields and rules and for any     *)
(* submission; and about FormAccess and the FormFilling that it extends,   *)
(* the page from the access to a form to the answer of the server, for any *)
(* forms, files, texts and numbers, and any number of tasks.  Both go by an*)
(* invariant, without induction over forms.                                *)
(***************************************************************************)
EXTENDS FormLogic, FormAccess, FunctionTheorems, FiniteSetTheorems,
        SequenceTheorems, WellFoundedInduction, TLAPS

-----------------------------------------------------------------------------
(* FormLogic: the invariant of the loop *)

(* Nothing is visible that a closed set of fields could leave hidden.      *)
Sound ==
    \A closed \in SUBSET FormFieldIds(ruled) :
        Closed(closed, ruled, submission) => visibleFieldIds \subseteq closed

(* While a pass has changed nothing, the fields it has looked at are where *)
(* the rules want them.                                                    *)
PassSoFar ==
    ~changesMade =>
        \A j \in 1 .. position - 1 :
            Follows(ruled.form_fields[j], ruled, submission, visibleFieldIds)
                => ruled.form_fields[j] \in visibleFieldIds

ReturnsClosed ==
    pc = "returned" => Closed(visibleFieldIds, ruled, submission)

LoopInv ==
    /\ LogicTypeOK
    /\ Sound
    /\ PassSoFar
    /\ ReturnsClosed

(***************************************************************************)
(* The rules                                                               *)
(***************************************************************************)

LEMMA FormFacts ==
  ASSUME NEW frm \in RuledForms
  PROVE  /\ frm \in FormType
         /\ frm.form_fields \in Seq(FieldIds)
         /\ Len(frm.form_fields) \in Nat
         /\ FormFieldIds(frm) \subseteq FieldIds
         /\ \A j \in 1 .. Len(frm.form_fields) :
               frm.form_fields[j] \in FormFieldIds(frm)
         /\ \A field \in FormFieldIds(frm) :
               \E j \in 1 .. Len(frm.form_fields) : field = frm.form_fields[j]
         /\ \A u \in Logics(frm) : u \in LogicUnits
         /\ \A u \in Logics(frm) : \A c \in u.conditions : c.field \in FieldIds
<1>1. /\ frm \in FormType
      /\ frm.form_fields \in Seq(FieldIds)
      /\ frm.form_logics \in Seq(LogicUnits)
  BY LogicAssumption DEF FormType
<1>2. Len(frm.form_fields) \in Nat
  BY <1>1
<1>3. DOMAIN frm.form_fields = 1 .. Len(frm.form_fields)
  BY <1>1
<1>4. \A u \in Logics(frm) : u \in LogicUnits
  BY <1>1 DEF Logics
<1>5. \A u \in LogicUnits : \A c \in u.conditions : c.field \in FieldIds
  BY DEF LogicUnits, Conditions
<1>. QED  BY <1>1, <1>2, <1>3, <1>4, <1>5 DEF FormFieldIds

(* Showing more fields invalidates no reason to show a field.              *)
LEMMA FollowsMonotone ==
  ASSUME NEW field, NEW frm, NEW sub, NEW less, NEW more,
         less \subseteq more, Follows(field, frm, sub, less)
  PROVE  Follows(field, frm, sub, more)
BY DEF Follows, Holds

(* Reasons depend only on the answers in shown fields.                     *)
LEMMA FollowsLocal ==
  ASSUME NEW frm \in RuledForms, NEW field, NEW sub1, NEW sub2, NEW closed,
         \A f \in FieldIds \cap closed : sub1[f] = sub2[f],
         Follows(field, frm, sub1, closed)
  PROVE  Follows(field, frm, sub2, closed)
<1>1. CASE Rules(frm, field) = {}
  BY <1>1 DEF Follows
<1>2. CASE \E rule \in Rules(frm, field) : Holds(rule, sub1, closed)
  <2>1. PICK rule \in Rules(frm, field) : Holds(rule, sub1, closed)
    BY <1>2
  <2>2. \A c \in rule.conditions : c.field \in FieldIds
    BY FormFacts DEF Rules
  <2>3. Holds(rule, sub2, closed)
    BY <2>1, <2>2 DEF Holds
  <2>. QED  BY <2>3 DEF Follows
<1>. QED  BY <1>1, <1>2 DEF Follows

(* What the loop tests is whether the rules show the field.                *)
LEMMA BecomesVisibleMeaning ==
  ASSUME NEW field \in FormFieldIds(ruled)
  PROVE  BecomesVisible(field) <=>
            /\ field \notin visibleFieldIds
            /\ Follows(field, ruled, submission, visibleFieldIds)
<1>1. groupLogicUnitsByField(ruled)[field]
          = {u.conditions : u \in Rules(ruled, field)}
  <2>1. \A u : allConditionsExist(u.conditions, FormFieldIds(ruled))
                 <=> {c.field : c \in u.conditions} \subseteq FormFieldIds(ruled)
    BY DEF allConditionsExist
  <2>. QED  BY <2>1 DEF groupLogicUnitsByField, Rules
<1>2. \A u : isLogicUnitSatisfied(submission, u.conditions, visibleFieldIds)
               <=> Holds(u, submission, visibleFieldIds)
  BY DEF isLogicUnitSatisfied, Holds, isConditionFulfilled
<1>. QED  BY <1>1, <1>2 DEF BecomesVisible, Follows

(***************************************************************************)
(* The loop                                                                *)
(***************************************************************************)

LEMMA InitLoop ==
  LogicInit => LoopInv
<1>. SUFFICES ASSUME LogicInit
              PROVE  LoopInv
  OBVIOUS
<1>1. ruled \in RuledForms /\ Len(ruled.form_fields) \in Nat
  BY FormFacts DEF LogicInit
<1>2. position \in 1 .. Len(ruled.form_fields) + 1
  BY <1>1 DEF LogicInit
<1>3. LogicTypeOK
  BY <1>1, <1>2 DEF LogicInit, LogicTypeOK
<1>. QED  BY <1>3 DEF LogicInit, LoopInv, Sound, PassSoFar, ReturnsClosed

LEMMA ExamineFieldStep ==
  ASSUME LoopInv, ExamineField
  PROVE  LoopInv'
<1>. DEFINE field == ruled.form_fields[position]
<1>0. /\ LogicTypeOK /\ ruled \in RuledForms /\ position \in Nat
      /\ Len(ruled.form_fields) \in Nat
      /\ pc = "looping" /\ pc' = "looping" /\ position' = position + 1
      /\ ruled' = ruled /\ submission' = submission
  BY FormFacts DEF LoopInv, LogicTypeOK, ExamineField
<1>1. field \in FormFieldIds(ruled)
  BY <1>0, FormFacts DEF ExamineField, LogicTypeOK
<1>2. CASE BecomesVisible(field)
  <2>1. /\ visibleFieldIds' = visibleFieldIds \cup {field}
        /\ changesMade' = TRUE
    BY <1>2 DEF ExamineField
  <2>2. LogicTypeOK'
    BY <1>0, <1>1, <2>1 DEF LogicTypeOK, ExamineField
  <2>3. Sound'
    <3>1. SUFFICES ASSUME NEW closed \in SUBSET FormFieldIds(ruled),
                          Closed(closed, ruled, submission)
                   PROVE  visibleFieldIds' \subseteq closed
      BY <1>0 DEF Sound
    <3>2. visibleFieldIds \subseteq closed
      BY <3>1 DEF LoopInv, Sound
    <3>3. Follows(field, ruled, submission, closed)
      BY <1>1, <1>2, <3>2, BecomesVisibleMeaning, FollowsMonotone
    <3>4. field \in closed
      BY <1>1, <3>1, <3>3 DEF Closed
    <3>. QED  BY <2>1, <3>2, <3>4
  <2>. QED  BY <1>0, <2>1, <2>2, <2>3 DEF LoopInv, PassSoFar, ReturnsClosed
<1>3. CASE ~BecomesVisible(field)
  <2>1. UNCHANGED <<visibleFieldIds, changesMade>>
    BY <1>3 DEF ExamineField
  <2>2. LogicTypeOK'
    BY <1>0, <2>1 DEF LogicTypeOK, ExamineField
  <2>3. Sound'
    BY <1>0, <2>1 DEF LoopInv, Sound
  <2>4. PassSoFar'
    <3>1. Follows(field, ruled, submission, visibleFieldIds)
              => field \in visibleFieldIds
      BY <1>1, <1>3, BecomesVisibleMeaning
    <3>2. SUFFICES ASSUME ~changesMade, NEW j \in 1 .. position
                   PROVE  Follows(ruled.form_fields[j], ruled, submission,
                                  visibleFieldIds)
                              => ruled.form_fields[j] \in visibleFieldIds
      BY <1>0, <2>1 DEF PassSoFar
    <3>3. j = position \/ j \in 1 .. position - 1
      BY <1>0
    <3>. QED  BY <3>1, <3>2, <3>3 DEF LoopInv, PassSoFar
  <2>. QED  BY <1>0, <2>1, <2>2, <2>3, <2>4 DEF LoopInv, ReturnsClosed
<1>. QED  BY <1>2, <1>3

LEMMA EndPassStep ==
  ASSUME LoopInv, EndPass
  PROVE  LoopInv'
<1>0. /\ LogicTypeOK /\ ruled \in RuledForms
      /\ Len(ruled.form_fields) \in Nat
      /\ UNCHANGED <<ruled, submission, visibleFieldIds>>
      /\ pc = "looping" /\ position > Len(ruled.form_fields)
  BY FormFacts DEF LoopInv, LogicTypeOK, EndPass
<1>1. Sound'
  BY <1>0 DEF LoopInv, Sound
<1>2. CASE changesMade
  <2>1. position' = 1 /\ changesMade' = FALSE /\ pc' = pc
    BY <1>2 DEF EndPass
  <2>2. LogicTypeOK'
    <3>1. 1 \in 1 .. Len(ruled.form_fields) + 1
      BY <1>0
    <3>. QED  BY <1>0, <2>1, <3>1 DEF LogicTypeOK
  <2>3. PassSoFar'
    BY <2>1 DEF PassSoFar
  <2>4. ReturnsClosed'
    BY <1>0, <2>1 DEF ReturnsClosed
  <2>. QED  BY <1>1, <2>2, <2>3, <2>4 DEF LoopInv
<1>3. CASE ~changesMade
  <2>1. pc' = "returned" /\ UNCHANGED <<position, changesMade>>
    BY <1>3 DEF EndPass
  <2>2. Closed(visibleFieldIds, ruled, submission)
    <3>1. SUFFICES ASSUME NEW field \in FormFieldIds(ruled),
                          Follows(field, ruled, submission, visibleFieldIds)
                   PROVE  field \in visibleFieldIds
      BY DEF Closed
    <3>2. PICK j \in 1 .. Len(ruled.form_fields) : field = ruled.form_fields[j]
      BY <1>0, FormFacts
    <3>3. j \in 1 .. position - 1
      BY <1>0 DEF LogicTypeOK
    <3>. QED  BY <1>3, <3>1, <3>2, <3>3 DEF LoopInv, PassSoFar
  <2>. QED  BY <1>0, <1>1, <2>1, <2>2
            DEF LoopInv, LogicTypeOK, PassSoFar, ReturnsClosed
<1>. QED  BY <1>2, <1>3

LEMMA LoopInvariance ==
  LogicSpec => []LoopInv
<1>1. LoopInv /\ UNCHANGED logicVars => LoopInv'
  BY DEF LoopInv, logicVars, LogicTypeOK, Sound, PassSoFar, ReturnsClosed
<1>2. LoopInv /\ [LogicNext]_logicVars => LoopInv'
  BY <1>1, ExamineFieldStep, EndPassStep DEF LogicNext
<1>. QED  BY <1>2, InitLoop, PTL DEF LogicSpec

(* The loop's variables keep their types; in particular the loop never     *)
(* looks beyond the fields of the form.                                    *)
THEOREM LoopTypesHold ==
  LogicSpec => []LogicTypeOK
<1>1. LoopInv => LogicTypeOK
  BY DEF LoopInv
<1>. QED  BY <1>1, LoopInvariance, PTL

(***************************************************************************)
(* What is returned                                                        *)
(***************************************************************************)

LEMMA Returned ==
  ASSUME LoopInv, pc = "returned"
  PROVE  visibleFieldIds = LeastVisible(ruled, submission)
<1>1. visibleFieldIds \subseteq FormFieldIds(ruled)
  BY DEF LoopInv, LogicTypeOK
<1>2. Closed(visibleFieldIds, ruled, submission)
  BY DEF LoopInv, ReturnsClosed
<1>3. visibleFieldIds \subseteq LeastVisible(ruled, submission)
  BY <1>1 DEF LoopInv, Sound, LeastVisible
<1>4. LeastVisible(ruled, submission) \subseteq visibleFieldIds
  BY <1>1, <1>2 DEF LeastVisible
<1>. QED  BY <1>3, <1>4

(* Whatever the form, its rules and their order, getVisibleFieldIds returns*)
(* the least set of fields that is closed under the rules.                 *)
THEOREM VisibleIsLeast ==
  LogicSpec => []ReturnsLeastVisible
<1>1. LoopInv => ReturnsLeastVisible
  BY Returned DEF ReturnsLeastVisible
<1>. QED  BY <1>1, LoopInvariance, PTL

LEMMA KeptAnswers ==
  ASSUME LoopInv
  PROVE  \A f \in FieldIds \cap visibleFieldIds : WithoutHidden[f] = submission[f]
BY DEF WithoutHidden

(* Clearing hidden answers never changes what is visible, for any form: the*)
(* page and the server agree although the page clears in between.          *)
THEOREM ClearingKeepsVisible ==
  LogicSpec => []ClearingIsStable
<1>1. LoopInv => ClearingIsStable
  <2>. SUFFICES ASSUME LoopInv, pc = "returned"
                PROVE  LeastVisible(ruled, WithoutHidden) = visibleFieldIds
    BY DEF ClearingIsStable
  <2>. DEFINE V == visibleFieldIds
              sub == WithoutHidden
  <2>0. ruled \in RuledForms /\ V \in SUBSET FormFieldIds(ruled)
    BY DEF LoopInv, LogicTypeOK
  <2>1. \A f \in FieldIds \cap V : sub[f] = submission[f]
    BY KeptAnswers
  <2>2. Closed(V, ruled, submission)
    BY DEF LoopInv, ReturnsClosed
  <2>. HIDE DEF sub
  <2>3. Closed(V, ruled, sub)
    <3>1. SUFFICES ASSUME NEW field \in FormFieldIds(ruled),
                          Follows(field, ruled, sub, V)
                   PROVE  field \in V
      BY DEF Closed
    <3>2. Follows(field, ruled, submission, V)
      BY <2>0, <2>1, <3>1, FollowsLocal
    <3>. QED  BY <2>2, <3>2 DEF Closed
  <2>4. ASSUME NEW closed \in SUBSET FormFieldIds(ruled),
               Closed(closed, ruled, sub)
        PROVE  V \subseteq closed
    <3>1. Closed(closed \cap V, ruled, submission)
      <4>1. SUFFICES ASSUME NEW field \in FormFieldIds(ruled),
                            Follows(field, ruled, submission, closed \cap V)
                     PROVE  field \in closed /\ field \in V
        BY DEF Closed
      <4>2. Follows(field, ruled, submission, V)
        BY <4>1, FollowsMonotone
      <4>3. \A f \in FieldIds \cap (closed \cap V) : submission[f] = sub[f]
        BY <2>1
      <4>4. Follows(field, ruled, sub, closed \cap V)
        BY <2>0, <4>1, <4>3, FollowsLocal
      <4>5. Follows(field, ruled, sub, closed)
        BY <4>4, FollowsMonotone
      <4>. QED  BY <2>2, <2>4, <4>2, <4>5 DEF Closed
    <3>2. V \subseteq closed \cap V
      BY <2>0, <3>1 DEF LoopInv, Sound
    <3>. QED  BY <3>2
  <2>5. LeastVisible(ruled, sub) = V
    BY <2>0, <2>3, <2>4 DEF LeastVisible
  <2>. QED  BY <2>5 DEF sub
<1>. QED  BY <1>1, LoopInvariance, PTL

(* Submission is prevented only by rules about fields that are visible and *)
(* answered, and equally on the page and on the server.                    *)
THEOREM PreventionIsJustified ==
  LogicSpec => []PreventedForVisibleReason
<1>1. LoopInv => PreventedForVisibleReason
  <2>. SUFFICES ASSUME LoopInv, pc = "returned"
                PROVE  PreventedForVisibleReason
    BY DEF PreventedForVisibleReason
  <2>1. visibleFieldIds = LeastVisible(ruled, submission)
    BY Returned
  <2>2. ASSUME NEW unit \in
                 UnitsPreventingSubmit(submission, ruled, visibleFieldIds),
               NEW c \in unit.conditions
        PROVE  /\ c.field \in LeastVisible(ruled, submission)
               /\ submission[c.field] \notin {Empty, Missing}
    BY <2>1 DEF UnitsPreventingSubmit, isLogicUnitSatisfied, isConditionFulfilled
  <2>3. \A u \in Logics(ruled) :
           isLogicUnitSatisfied(WithoutHidden, u.conditions, visibleFieldIds)
             <=> isLogicUnitSatisfied(submission, u.conditions, visibleFieldIds)
    <3>1. ruled \in RuledForms
      BY DEF LoopInv, LogicTypeOK
    <3>2. \A u \in Logics(ruled) : \A c \in u.conditions : c.field \in FieldIds
      BY <3>1, FormFacts
    <3>. QED  BY <3>2, KeptAnswers DEF isLogicUnitSatisfied
  <2>4. UnitsPreventingSubmit(WithoutHidden, ruled, visibleFieldIds)
          = UnitsPreventingSubmit(submission, ruled, visibleFieldIds)
    BY <2>3 DEF UnitsPreventingSubmit, getPreventSubmitConditions
  <2>. QED  BY <2>2, <2>4 DEF PreventedForVisibleReason
<1>. QED  BY <1>1, LoopInvariance, PTL

-----------------------------------------------------------------------------
(* FormAccess: the invariant of the page *)

(* What a field may hold; of a table, no more rows than the page counts.   *)
RowsOK(field, value) ==
    LET rows == value.components
        most == field.minimumRows + value.additionalRowCount
    IN  /\ rows \in Seq([DOMAIN field.columns -> BOOLEAN])
        /\ value.additionalRowCount \in Nat
        /\ field.minimumRows <= Len(rows) /\ Len(rows) <= most
        /\ most <= MaxRows
        /\ IF field.addMoreRows THEN AtMost(most, field.maximumRows)
           ELSE value.additionalRowCount = 0

ValueOK(field, value) ==
    /\ value \in PossibleValues(field)
    /\ field.fieldType = "table" => RowsOK(field, value)

ValuesOK(values) ==
    /\ DOMAIN values = fields
    /\ \A i \in fields : ValueOK(form.form_fields[i], values[i])

(* A file that is being looked into, and one whose bytes are read.         *)
PickedOK(i, f) ==
    /\ f \in Files
    /\ IsAttachment(i)
    /\ f.size <= Halves(form.form_fields[i].attachmentSize)
    /\ f.allowed

FileOK(i, f) == PickedOK(i, f) /\ (f.isZip => f.contentAllowed)

FilesOK(files) ==
    /\ DOMAIN files = fields
    /\ \A i \in fields : files[i] # None => FileOK(i, files[i])

PageInv ==
    /\ form \in Forms
    /\ ValuesOK(fieldValue)
    /\ FilesOK(file)
    /\ FilesOK(attached)
    /\ today \in Nat
    /\ DOMAIN opened = fields /\ \A i \in fields : opened[i] \in 0 .. today
    /\ DOMAIN tasks = fields
    /\ \A i \in fields : \A t \in tasks[i] :
          /\ t \in Task
          /\ PickedOK(i, t.file)
          /\ t.step = "read" => FileOK(i, t.file)

(* A file that the respondent waited for is the one that is displayed.     *)
Settled(i) ==
    /\ tasks[i] = {}
    /\ file[i] = attached[i]
    /\ IsAttachment(i) =>
          fieldValue[i] = IF attached[i] = None THEN "" ELSE attached[i].name

UnderWay(i) ==
    /\ uiState = "DEFAULT"
    /\ isVisible(i)
    /\ file[i] = None
    /\ \E t \in tasks[i] :
          /\ tasks[i] = {t}
          /\ t.live
          /\ t.step = "check" => attached[i] = None
          /\ t.step = "read" =>
                attached[i] = t.file /\ fieldValue[i] = t.file.name

SettledInv == \A i \in fields \ inDoubt : Settled(i) \/ UnderWay(i)

HiddenInv ==
    \A i \in fields \ inDoubt :
        ~IsMyInfo(i) /\ ~isVisible(i) =>
            /\ ClearedValue(i, fieldValue[i]) = fieldValue[i]
            /\ file[i] = None

(* While the form is being submitted it stays as it was sent.              *)
SentInv ==
    uiState # "DEFAULT" =>
        /\ savedForm = sent
        /\ ValuesOK(sent.fieldValue)
        /\ FilesOK(sent.file)
        /\ \A i \in fields :
              \/ IsAttachment(i) /\ i \in inDoubt
              \/ /\ fieldValue[i] = sent.fieldValue[i]
                 /\ file[i] = sent.file[i]
                 /\ attached[i] = shown.attached[i]
        /\ shown.valid =>
              /\ ~IsPrevented(sent.fieldValue)
              /\ \A i \in fields :
                    IsShown(sent.fieldValue, i) =>
                        PageValid(form.form_fields[i], sent.fieldValue[i],
                                  shown.attached[i], opened[i])

StateInv ==
    /\ uiState \in {"DEFAULT", "SUBMITTING", "VERIFYING", "SENT", "SUBMITTED"}
    /\ captcha = "challenge" => uiState = "DEFAULT" /\ form.hasCaptcha
    /\ uiState \in {"DEFAULT", "SUBMITTING"} => verdict = None
    /\ uiState = "VERIFYING" => verdict.status = "OK" /\ HasMyInfo

Judged == uiState \in {"VERIFYING", "SENT", "SUBMITTED"}

VerdictInv ==
    Judged =>
        /\ verdict = [status |-> verdict.status, files |-> verdict.files,
                      hashedFields |-> verdict.hashedFields,
                      filenames |-> verdict.filenames, day |-> verdict.day]
        /\ AcceptedAsDisplayed
        /\ verdict.files = [i \in fields |-> IF i \in Attachments
                                             THEN sent.file[i] ELSE None]
        /\ verdict.filenames = Filenames

FillingInv ==
    /\ PageInv /\ SettledInv /\ HiddenInv /\ SentInv /\ StateInv /\ VerdictInv

-----------------------------------------------------------------------------
CookieOK(jwt) ==
    jwt # None =>
        /\ jwt.userName \in Users
        /\ jwt.rememberMe \in BOOLEAN
        /\ jwt.expires \in Nat
        /\ form.authType = "SP" /\ ~jwt.rememberMe =>
              jwt.expires <= now + spCookieMaxAge

CookiesInv ==
    /\ now \in Nat
    /\ CookieOK(cookie) /\ CookieOK(view.cookie) /\ CookieOK(sentCookie)

(* MyInfo has had it of the user.                                          *)
HadData(u, data) ==
    /\ u \in Users
    /\ \E n \in DOMAIN Persons[u] : data = Persons[u][n]

HashesInv ==
    /\ DOMAIN versions = Users
    /\ \A u \in Users : versions[u] \in DOMAIN Persons[u]
    /\ DOMAIN hashes = Users
    /\ \A u \in Users : \A kept \in hashes[u] :
          /\ kept.expireAt \in Nat
          /\ \E n \in DOMAIN Persons[u] :
                kept.fields = readOnlyHashes(Persons[u][n])

Viewed == {"answered", "start", "locked", "form"}

HashesKept(jwt) ==
    /\ hashes[jwt.userName] # {}
    /\ \A kept \in hashes[jwt.userName] : jwt.expires <= kept.expireAt

ViewInv ==
    /\ stage \in Stages
    /\ view = [cookie |-> view.cookie, data |-> view.data,
               myInfoError |-> view.myInfoError]
    /\ stage = "asked" => view.data = None
    /\ stage = "fetched" =>
          /\ view.cookie # None /\ view.data # None
    /\ view.data # None =>
          /\ view.cookie # None /\ HadData(view.cookie.userName, view.data)
    /\ stage = "form" =>
          /\ ~view.myInfoError
          /\ form.authType = "SP" /\ HasMyInfo => ~session.rememberMe
    /\ uiState # "DEFAULT" => stage = "form"

(* Whoever logged in for the page has the hashes as long as the cookie.    *)
MyInfoInv ==
    /\ stage \in Viewed
    /\ form.authType = "SP" /\ HasMyInfo
    /\ ~view.myInfoError
    /\ IsValidJWT(view.cookie)
    => /\ view.data # None
       /\ ~view.cookie.rememberMe => HashesKept(view.cookie)

LockedInv ==
    /\ stage \in {"asked", "fetched", "answered"} => disabled = {}
    /\ \A i \in disabled :
          /\ i \in fields /\ IsMyInfo(i) /\ view.data # None
          /\ fieldValue[i] = view.data[form.myInfo[i]].value
    /\ stage = "form" /\ view.data # None =>
          \A i \in fields :
              IsMyInfo(i) /\ isFieldReadOnly(form.myInfo[i], view.data)
                  => i \in disabled

HashedInv ==
    /\ uiState = "VERIFYING" => sentCookie # None
    /\ Judged =>
        /\ None \notin verdict.hashedFields
        /\ \A i \in fields :
              form.myInfo[i] \in verdict.hashedFields
                /\ IsShown(ReceivedAnswers, i) =>
                  \E n \in DOMAIN Persons[uinFin] :
                      SentAnswer(i) = Persons[uinFin][n][form.myInfo[i]].value

AccessInv ==
    /\ CookiesInv /\ HashesInv /\ ViewInv /\ MyInfoInv /\ LockedInv /\ HashedInv

Inv == FillingInv /\ AccessInv

-----------------------------------------------------------------------------
(* The fields of a form, and their values *)

LEMMA FieldFacts ==
  ASSUME form \in Forms
  PROVE  /\ Len(form.form_fields) \in Nat
         /\ fields = 1 .. Len(form.form_fields)
         /\ \A i \in fields : IsFillable(form.form_fields[i])
         /\ \A i \in fields : IsMyInfo(i) =>
               /\ form.form_fields[i].fieldType \in MyInfoTypes
               /\ form.authType = "SP" /\ form.responseMode = "email"
         /\ \A i \in fields : form.shownBy[i] # 0 =>
               /\ form.shownBy[i] \in fields
               /\ form.shownBy[i] # i
               /\ form.form_fields[form.shownBy[i]].fieldType = "yes_no"
               /\ form.shownBy[form.shownBy[i]] = 0
         /\ form.prevents # 0 =>
               /\ form.prevents \in fields
               /\ form.form_fields[form.prevents].fieldType = "yes_no"
         /\ form.responseMode \in {"email", "encrypt"}
         /\ form.authType \in {"NIL", "SP", "CP"}
         /\ form.files \subseteq Files
<1>1. IsForm(form)
  BY FormsAssumption
<1>2. /\ form.form_fields \in Seq(ToSet(form.form_fields))
      /\ form.responseMode \in {"email", "encrypt"}
      /\ form.authType \in {"NIL", "SP", "CP"}
      /\ form.files \subseteq Files
  BY <1>1 DEF IsForm
<1>3. Len(form.form_fields) \in Nat /\ fields = 1 .. Len(form.form_fields)
  BY <1>2 DEF fields
<1>4. form.prevents # 0 =>
         /\ form.prevents \in fields
         /\ form.form_fields[form.prevents].fieldType = "yes_no"
  BY <1>1 DEF IsForm, fields
<1>5. ASSUME NEW i \in fields
      PROVE  /\ IsFillable(form.form_fields[i])
             /\ MyInfoAccepted(form.myInfo[i], form.authType,
                               form.responseMode)
             /\ form.myInfo[i] # None =>
                   form.form_fields[i].fieldType \in MyInfoTypes
             /\ form.shownBy[i] \in {0} \cup 1 .. (i - 1)
             /\ form.shownBy[i] # 0 =>
                   /\ form.form_fields[form.shownBy[i]].fieldType = "yes_no"
                   /\ form.shownBy[form.shownBy[i]] = 0
  BY <1>1, <1>5 DEF IsForm, fields
<1>6. ASSUME NEW i \in fields, form.shownBy[i] # 0
      PROVE  form.shownBy[i] \in fields /\ form.shownBy[i] # i
  <2>1. form.shownBy[i] \in 1 .. (i - 1) /\ i \in 1 .. Len(form.form_fields)
    BY <1>3, <1>5, <1>6
  <2>. QED  BY <1>3, <2>1
<1>7. ASSUME NEW i \in fields, IsMyInfo(i)
      PROVE  form.authType = "SP" /\ form.responseMode = "email"
  BY <1>2, <1>5, <1>7 DEF IsMyInfo, MyInfoAccepted
<1>. QED  BY <1>2, <1>3, <1>4, <1>5, <1>6, <1>7 DEF IsMyInfo

LEMMA TypesOfFields ==
  ASSUME NEW field, IsFillable(field)
  PROVE  field.fieldType \in
            {"section", "email", "mobile", "homeno", "number", "decimal",
             "textfield", "textarea", "dropdown", "yes_no", "checkbox",
             "radiobutton", "attachment", "date", "rating", "nric", "table"}
BY DEF IsFillable, Accepts, BasicFieldType

(* What is known of a field of each type.                                  *)
LEMMA LimitsOfFields ==
  ASSUME NEW field, IsFillable(field)
  PROVE  /\ field.fieldType # "table" => field.required \in BOOLEAN
         /\ field.fieldType \in {"textfield", "textarea", "number"} =>
               field.customVal = None \/ field.customVal \in Int
         /\ field.fieldType = "decimal" =>
               /\ field.customMin = None \/ field.customMin \in Int
               /\ field.customMax = None \/ field.customMax \in Int
         /\ field.fieldType = "checkbox" =>
               /\ IsFiniteSet(field.fieldOptions)
               /\ field.othersRadioButton \in BOOLEAN
               /\ field.customMin = None \/ field.customMin \in Int
               /\ field.customMax = None \/ field.customMax \in Int
         /\ field.fieldType = "radiobutton" =>
               field.othersRadioButton \in BOOLEAN
         /\ field.fieldType = "date" =>
               /\ field.selectedDateValidation # "Custom date range" =>
                     field.customMinDate = None /\ field.customMaxDate = None
               /\ field.customMinDate = None \/ field.customMinDate \in Int
               /\ field.customMaxDate = None \/ field.customMaxDate \in Int
         /\ field.fieldType = "rating" => field.steps \in Nat \ {0}
         /\ field.fieldType = "attachment" =>
               Halves(field.attachmentSize) \in Nat
         /\ field.fieldType = "table" =>
               /\ field.columns \in Seq(BOOLEAN)
               /\ field.minimumRows \in Nat \ {0}
               /\ field.minimumRows <= MaxRows
               /\ field.addMoreRows \in BOOLEAN
               /\ field.maximumRows = None \/ field.maximumRows \in Int
               /\ field.addMoreRows =>
                     AtMost(field.minimumRows, field.maximumRows)
<1>. DEFINE type == field.fieldType
<1>1. type # "table" => field.required \in BOOLEAN
  BY DEF IsFillable
<1>2. type \in {"textfield", "textarea", "number"} =>
         field.customVal = None \/ field.customVal \in Int
  BY DEF IsFillable, IsNumberOrNull
<1>3. type = "decimal" =>
         /\ field.customMin = None \/ field.customMin \in Int
         /\ field.customMax = None \/ field.customMax \in Int
  BY DEF IsFillable, Accepts, DecimalSchema, IsNumberOrNull
<1>4. type = "checkbox" =>
         /\ IsFiniteSet(field.fieldOptions)
         /\ field.othersRadioButton \in BOOLEAN
         /\ field.customMin = None \/ field.customMin \in Int
         /\ field.customMax = None \/ field.customMax \in Int
  BY DEF IsFillable, Accepts, CheckboxSchema, IsNumberOrNull
<1>5. type = "radiobutton" => field.othersRadioButton \in BOOLEAN
  BY DEF IsFillable, Accepts, RadioSchema
<1>6. type = "date" =>
         /\ field.selectedDateValidation # "Custom date range" =>
               field.customMinDate = None /\ field.customMaxDate = None
         /\ field.customMinDate = None \/ field.customMinDate \in Int
         /\ field.customMaxDate = None \/ field.customMaxDate \in Int
  BY DEF IsFillable, Accepts, DateSchema, IsNumberOrNull
<1>7. type = "rating" => field.steps \in Nat \ {0}
  BY DEF IsFillable, Accepts, RatingSchema
<1>8. type = "attachment" => Halves(field.attachmentSize) \in Nat
  BY DEF IsFillable, Accepts, AttachmentSchema, AttachmentSizesMb, Halves
<1>9. ASSUME type = "table"
      PROVE  /\ field.columns \in Seq(BOOLEAN)
             /\ field.minimumRows \in Nat \ {0}
             /\ field.minimumRows <= MaxRows
             /\ field.addMoreRows \in BOOLEAN
             /\ field.maximumRows = None \/ field.maximumRows \in Int
             /\ field.addMoreRows =>
                   AtMost(field.minimumRows, field.maximumRows)
  <2>1. /\ field.columns \in Seq(BOOLEAN)
        /\ field.minimumRows \in 1 .. MaxRows
        /\ field.addMoreRows \in BOOLEAN
        /\ field.maximumRows = None \/ field.maximumRows \in Int
    BY <1>9 DEF IsFillable, IsNumberOrNull
  <2>2. RowsSchema(field)
    BY <1>9 DEF IsFillable, Accepts
  <2>3. MaxRows \in Nat \ {0}
    BY AnswersAssumption
  <2>. QED  BY <2>1, <2>2, <2>3 DEF RowsSchema, AtMost
<1>. QED  BY <1>1, <1>2, <1>3, <1>4, <1>5, <1>6, <1>7, <1>8, <1>9

LEMMA PossibleOf ==
  ASSUME NEW field
  PROVE  /\ field.fieldType \in {"textfield", "textarea", "number"} =>
               PossibleValues(field) = Texts
         /\ field.fieldType = "decimal" =>
               PossibleValues(field) = {None} \cup Numbers
         /\ field.fieldType = "date" => PossibleValues(field) = Dates
         /\ field.fieldType \in {"mobile", "homeno"} =>
               PossibleValues(field) = Phones
         /\ field.fieldType \in {"email", "nric"} =>
               PossibleValues(field) = {"", "wellFormed", "invalid"}
         /\ field.fieldType = "yes_no" =>
               PossibleValues(field) = {"", "Yes", "No"}
         /\ field.fieldType = "rating" =>
               PossibleValues(field) = 0 .. field.steps
         /\ field.fieldType = "dropdown" =>
               PossibleValues(field) = {""} \cup field.fieldOptions
         /\ field.fieldType = "radiobutton" =>
               PossibleValues(field) = RadioValues(field)
         /\ field.fieldType = "checkbox" =>
               PossibleValues(field) = CheckboxValues(field)
         /\ field.fieldType = "table" =>
               PossibleValues(field) = TableValues(field)
         /\ field.fieldType = "attachment" =>
               PossibleValues(field) = FileValues
         /\ field.fieldType = "section" => PossibleValues(field) = {""}
BY DEF PossibleValues

LEMMA EmptyOf ==
  ASSUME NEW field
  PROVE  /\ field.fieldType \in {"textfield", "textarea", "number"} =>
               EmptyValue(field) = [length |-> 0, digits |-> TRUE]
         /\ field.fieldType \in {"decimal", "date"} => EmptyValue(field) = None
         /\ field.fieldType = "radiobutton" =>
               EmptyValue(field) = Choice("", FALSE)
         /\ field.fieldType = "checkbox" =>
               EmptyValue(field) =
                   [options |-> {}, checked |-> FALSE, others |-> FALSE]
         /\ field.fieldType = "rating" => EmptyValue(field) = 0
         /\ field.fieldType = "table" => EmptyValue(field) = BlankTable(field)
         /\ field.fieldType \in
               {"mobile", "homeno", "email", "nric", "yes_no", "dropdown",
                "attachment", "section"} =>
               EmptyValue(field) = ""
BY DEF EmptyValue

(* The value of a table is a record of rows, and a number of rows.         *)
LEMMA TableOK ==
  ASSUME NEW field, IsFillable(field), field.fieldType = "table",
         NEW rows, NEW count,
         RowsOK(field, [components |-> rows, additionalRowCount |-> count])
  PROVE  ValueOK(field, [components |-> rows, additionalRowCount |-> count])
<1>. DEFINE Row == [DOMAIN field.columns -> BOOLEAN]
<1>1. /\ rows \in Seq(Row) /\ count \in Nat
      /\ Len(rows) <= field.minimumRows + count
      /\ field.minimumRows + count <= MaxRows
      /\ field.minimumRows \in Nat /\ MaxRows \in Nat
  BY LimitsOfFields, AnswersAssumption DEF RowsOK
<1>2. Len(rows) \in 0 .. MaxRows /\ count \in 0 .. MaxRows
  <2>1. Len(rows) \in Nat
    BY <1>1
  <2>. HIDE DEF Row
  <2>. QED  BY <1>1, <2>1
<1>3. rows \in [1 .. Len(rows) -> Row]
  <2>. HIDE DEF Row
  <2>. QED  BY <1>1
<1>4. rows \in SeqOf(Row, MaxRows)
  <2>. HIDE DEF Row
  <2>. QED  BY <1>2, <1>3 DEF SeqOf
<1>5. [components |-> rows, additionalRowCount |-> count] \in TableValues(field)
  BY <1>2, <1>4 DEF TableValues
<1>. QED  BY <1>5, PossibleOf DEF ValueOK

LEMMA TableParts ==
  ASSUME NEW field, IsFillable(field), field.fieldType = "table",
         NEW value, ValueOK(field, value)
  PROVE  /\ value = [components |-> value.components,
                     additionalRowCount |-> value.additionalRowCount]
         /\ RowsOK(field, value)
<1>1. value \in TableValues(field) /\ RowsOK(field, value)
  BY PossibleOf DEF ValueOK
<1>2. \A A, B : \A v \in [components : A, additionalRowCount : B] :
         v = [components |-> v.components,
              additionalRowCount |-> v.additionalRowCount]
  OBVIOUS
<1>. QED  BY <1>1, <1>2 DEF TableValues

LEMMA BlankRowOK ==
  ASSUME NEW field
  PROVE  BlankRow(field) \in [DOMAIN field.columns -> BOOLEAN]
BY DEF BlankRow

(* What RowsOK says of the rows does not depend on what is in them.        *)
LEMMA RowsReplaced ==
  ASSUME NEW field, IsFillable(field), field.fieldType = "table",
         NEW value, ValueOK(field, value),
         NEW rows \in Seq([DOMAIN field.columns -> BOOLEAN]),
         Len(rows) >= field.minimumRows,
         Len(rows) <= field.minimumRows + value.additionalRowCount
  PROVE  ValueOK(field, [value EXCEPT !.components = rows])
<1>1. /\ value = [components |-> value.components,
                  additionalRowCount |-> value.additionalRowCount]
      /\ RowsOK(field, value)
  BY TableParts
<1>2. [value EXCEPT !.components = rows]
         = [components |-> rows,
            additionalRowCount |-> value.additionalRowCount]
  BY <1>1
<1>3. /\ value.additionalRowCount \in Nat
      /\ field.minimumRows + value.additionalRowCount <= MaxRows
      /\ IF field.addMoreRows
         THEN AtMost(field.minimumRows + value.additionalRowCount,
                     field.maximumRows)
         ELSE value.additionalRowCount = 0
  BY <1>1 DEF RowsOK
<1>4. RowsOK(field, [components |-> rows,
                     additionalRowCount |-> value.additionalRowCount])
  BY <1>3 DEF RowsOK
<1>. QED  BY <1>2, <1>4, TableOK

LEMMA BlankTableOK ==
  ASSUME NEW field, IsFillable(field), field.fieldType = "table"
  PROVE  /\ ValueOK(field, BlankTable(field))
         /\ BlankTable(field).components
               \in Seq([DOMAIN field.columns -> BOOLEAN])
         /\ Len(BlankTable(field).components) = field.minimumRows
         /\ DOMAIN BlankTable(field).components = 1 .. field.minimumRows
         /\ \A r \in DOMAIN BlankTable(field).components :
               BlankTable(field).components[r] = BlankRow(field)
<1>. DEFINE rows == [i \in 1 .. field.minimumRows |-> BlankRow(field)]
            Row == [DOMAIN field.columns -> BOOLEAN]
<1>1. /\ field.minimumRows \in Nat \ {0}
      /\ field.minimumRows <= MaxRows
      /\ field.addMoreRows \in BOOLEAN
      /\ field.addMoreRows => AtMost(field.minimumRows, field.maximumRows)
  BY LimitsOfFields
<1>2. rows \in Seq(Row) /\ Len(rows) = field.minimumRows
      /\ DOMAIN rows = 1 .. field.minimumRows
      /\ \A r \in DOMAIN rows : rows[r] = BlankRow(field)
  <2>. HIDE DEF Row
  <2>1. BlankRow(field) \in Row
    BY BlankRowOK DEF Row
  <2>. QED  BY <1>1, <2>1
<1>3. BlankTable(field) = [components |-> rows, additionalRowCount |-> 0]
  BY DEF BlankTable
<1>4. RowsOK(field, [components |-> rows, additionalRowCount |-> 0])
  <2>. HIDE DEF rows
  <2>. QED  BY <1>1, <1>2 DEF RowsOK
<1>5. ValueOK(field, [components |-> rows, additionalRowCount |-> 0])
  <2>. HIDE DEF rows
  <2>. QED  BY <1>4, TableOK
<1>. QED
  <2>. HIDE DEF rows
  <2>. QED  BY <1>2, <1>3, <1>5

LEMMA RadioSet ==
  ASSUME NEW field
  PROVE  /\ Choice("", FALSE) \in RadioValues(field)
         /\ \A value \in RadioValues(field) :
               /\ value.option \in {"", "radioButtonOthers"}
                                      \cup field.fieldOptions
               /\ value.others \in {FALSE, field.othersRadioButton}
<1>. DEFINE O == {""} \cup field.fieldOptions \cup
                    (IF field.othersRadioButton
                     THEN {"radioButtonOthers"} ELSE {})
            T == {FALSE, field.othersRadioButton}
<1>1. RadioValues(field) = {Choice(o, t) : o \in O, t \in T}
  BY Z3 DEF RadioValues
<1>2. "" \in O /\ FALSE \in T
      /\ O \subseteq {"", "radioButtonOthers"} \cup field.fieldOptions
  OBVIOUS
<1>. HIDE DEF O, T
<1>3. PICK nothing, no : nothing = "" /\ no = FALSE
  OBVIOUS
<1>4. nothing \in O /\ no \in T
  BY <1>2, <1>3
<1>5. Choice(nothing, no) \in RadioValues(field)
  BY <1>1, <1>4
<1>6. ASSUME NEW value \in RadioValues(field)
      PROVE  value.option \in O /\ value.others \in T
  <2>1. PICK o \in O, t \in T : value = Choice(o, t)
    BY <1>1
  <2>. QED  BY <2>1 DEF Choice
<1>. QED  BY <1>2, <1>3, <1>5, <1>6 DEF T

LEMMA EmptyOK ==
  ASSUME NEW field, IsFillable(field)
  PROVE  ValueOK(field, EmptyValue(field))
<1>. DEFINE type == field.fieldType
<1>1. CASE type = "table"
  BY <1>1, BlankTableOK, EmptyOf
<1>2. CASE type \in {"textfield", "textarea", "number"}
  <2>1. [length |-> 0, digits |-> TRUE] \in Texts
    BY AnswersAssumption DEF Texts
  <2>2. /\ PossibleValues(field) = Texts
        /\ EmptyValue(field) = [length |-> 0, digits |-> TRUE]
    BY <1>2, PossibleOf, EmptyOf
  <2>. QED  BY <1>2, <2>1, <2>2 DEF ValueOK
<1>3. CASE type \in {"decimal", "date"}
  BY <1>3, PossibleOf, EmptyOf DEF ValueOK, Dates
<1>4. CASE type = "radiobutton"
  <2>1. Choice("", FALSE) \in RadioValues(field)
    BY RadioSet
  <2>. QED  BY <1>4, <2>1, PossibleOf, EmptyOf DEF ValueOK
<1>5. CASE type = "checkbox"
  <2>1. [options |-> {}, checked |-> FALSE, others |-> FALSE]
           \in CheckboxValues(field)
    BY DEF CheckboxValues
  <2>. QED  BY <1>5, <2>1, PossibleOf, EmptyOf DEF ValueOK
<1>6. CASE type = "rating"
  <2>0. field.steps \in Nat
    BY <1>6, LimitsOfFields
  <2>1. 0 \in 0 .. field.steps
    BY <2>0
  <2>2. PossibleValues(field) = 0 .. field.steps /\ EmptyValue(field) = 0
    BY <1>6, PossibleOf, EmptyOf
  <2>. QED  BY <1>6, <2>1, <2>2 DEF ValueOK
<1>7. CASE type \in {"mobile", "homeno"}
  BY <1>7, PossibleOf, EmptyOf DEF ValueOK, Phones
<1>8. CASE type \in {"email", "nric", "yes_no", "dropdown", "section"}
  BY <1>8, PossibleOf, EmptyOf DEF ValueOK
<1>9. CASE type = "attachment"
  BY <1>9, PossibleOf, EmptyOf DEF ValueOK, FileValues
<1>. QED  BY <1>1, <1>2, <1>3, <1>4, <1>5, <1>6, <1>7, <1>8, <1>9,
             TypesOfFields

(* Clearing a field, and rendering a table.                                *)
LEMMA ClearedOK ==
  ASSUME form \in Forms, NEW i \in fields,
         NEW value, ValueOK(form.form_fields[i], value)
  PROVE  /\ ValueOK(form.form_fields[i], ClearedValue(i, value))
         /\ ClearedValue(i, ClearedValue(i, value)) = ClearedValue(i, value)
<1>. DEFINE field == form.form_fields[i]
<1>1. IsFillable(field)
  BY FieldFacts
<1>2. CASE field.fieldType # "table"
  BY <1>1, <1>2, EmptyOK DEF ClearedValue
<1>3. CASE field.fieldType = "table"
  <2>. DEFINE Row == [DOMAIN field.columns -> BOOLEAN]
              blank == [r \in DOMAIN value.components |-> BlankRow(field)]
  <2>1. value = [components |-> value.components,
                 additionalRowCount |-> value.additionalRowCount]
        /\ RowsOK(field, value)
    BY <1>1, <1>3, TableParts
  <2>2. /\ value.components \in Seq(Row)
        /\ Len(value.components) >= field.minimumRows
        /\ Len(value.components) <= field.minimumRows + value.additionalRowCount
    BY <2>1, <1>1, <1>3, LimitsOfFields DEF RowsOK
  <2>3. blank \in Seq(Row) /\ Len(blank) = Len(value.components)
        /\ DOMAIN blank = DOMAIN value.components
    <3>1. BlankRow(field) \in Row
      BY BlankRowOK
    <3>. HIDE DEF Row
    <3>. QED  BY <2>2, <3>1
  <2>4. ClearedValue(i, value) = [value EXCEPT !.components = blank]
    BY <1>3, <2>1 DEF ClearedValue
  <2>5. ValueOK(field, ClearedValue(i, value))
    <3>. HIDE DEF blank
    <3>. QED  BY <1>1, <1>3, <2>2, <2>3, <2>4, RowsReplaced
  <2>6. ClearedValue(i, value)
           = [components |-> blank,
              additionalRowCount |-> value.additionalRowCount]
    <3>. HIDE DEF blank
    <3>. QED  BY <2>1, <2>4
  <2>7. ClearedValue(i, ClearedValue(i, value)) = ClearedValue(i, value)
    BY <1>3, <2>6 DEF ClearedValue
  <2>. QED  BY <2>5, <2>7
<1>. QED  BY <1>2, <1>3

LEMMA RenderedOK ==
  ASSUME form \in Forms, NEW i \in fields,
         NEW value, ValueOK(form.form_fields[i], value)
  PROVE  /\ ValueOK(form.form_fields[i], Rendered(i, value))
         /\ ClearedValue(i, value) = value =>
               ClearedValue(i, Rendered(i, value)) = Rendered(i, value)
         /\ form.form_fields[i].fieldType # "table" =>
               Rendered(i, value) = value
<1>. DEFINE field == form.form_fields[i]
<1>1. IsFillable(field)
  BY FieldFacts
<1>2. CASE field.fieldType # "table"
  BY <1>2 DEF Rendered
<1>3. CASE field.fieldType = "table"
  <2>. DEFINE Row == [DOMAIN field.columns -> BOOLEAN]
              blank == BlankTable(field).components
  <2>1. value = [components |-> value.components,
                 additionalRowCount |-> value.additionalRowCount]
        /\ RowsOK(field, value)
    BY <1>1, <1>3, TableParts
  <2>2. /\ value.additionalRowCount \in Nat /\ field.minimumRows \in Nat
    BY <2>1, <1>1, <1>3, LimitsOfFields DEF RowsOK
  <2>3. /\ blank \in Seq(Row) /\ Len(blank) = field.minimumRows
        /\ \A r \in DOMAIN blank : blank[r] = BlankRow(field)
    BY <1>1, <1>3, BlankTableOK
  <2>4. Rendered(i, value) = [value EXCEPT !.components = blank]
    BY <1>3 DEF Rendered
  <2>. HIDE DEF blank
  <2>5. ValueOK(field, Rendered(i, value))
    BY <1>1, <1>3, <2>2, <2>3, <2>4, RowsReplaced
  <2>6. Rendered(i, value)
           = [components |-> blank,
              additionalRowCount |-> value.additionalRowCount]
    BY <2>1, <2>4
  <2>7. [r \in DOMAIN blank |-> BlankRow(field)] = blank
    BY <2>3
  <2>8. ClearedValue(i, Rendered(i, value)) = Rendered(i, value)
    BY <1>3, <2>6, <2>7 DEF ClearedValue
  <2>. QED  BY <1>3, <2>5, <2>8
<1>. QED  BY <1>2, <1>3

(* An empty field is a cleared one.                                        *)
LEMMA EmptyIsCleared ==
  ASSUME form \in Forms, NEW i \in fields
  PROVE  ClearedValue(i, EmptyValue(form.form_fields[i]))
            = EmptyValue(form.form_fields[i])
<1>. DEFINE field == form.form_fields[i]
<1>1. IsFillable(field)
  BY FieldFacts
<1>2. CASE field.fieldType # "table"
  BY <1>2 DEF ClearedValue
<1>3. CASE field.fieldType = "table"
  <2>. DEFINE blank == BlankTable(field).components
  <2>1. /\ blank \in Seq([DOMAIN field.columns -> BOOLEAN])
        /\ \A r \in DOMAIN blank : blank[r] = BlankRow(field)
    BY <1>1, <1>3, BlankTableOK
  <2>2. EmptyValue(field) = [components |-> blank, additionalRowCount |-> 0]
    BY <1>3, EmptyOf DEF BlankTable
  <2>. HIDE DEF blank
  <2>3. [r \in DOMAIN blank |-> BlankRow(field)] = blank
    BY <2>1
  <2>. QED  BY <1>3, <2>2, <2>3 DEF ClearedValue
<1>. QED  BY <1>2, <1>3

-----------------------------------------------------------------------------
(* What the page takes for valid, the server accepts: field by field       *)

(* The options that are ticked are sent in some order, each once.          *)
LEMMA TickedInOrder ==
  ASSUME NEW S, IsFiniteSet(S)
  PROVE  /\ Cardinality(S) \in Nat
         /\ SetToSeq(S) \in [1 .. Cardinality(S) -> S]
         /\ \A i, j \in 1 .. Cardinality(S) :
               SetToSeq(S)[i] = SetToSeq(S)[j] => i = j
<1>1. Cardinality(S) \in Nat /\ ExistsBijection(1 .. Cardinality(S), S)
  BY FS_CardinalityType
<1>2. PICK n : n = Cardinality(S)
  OBVIOUS
<1>3. PICK f : f \in Bijection(1 .. n, S)
  BY <1>1, <1>2 DEF ExistsBijection
<1>4. f \in [1 .. n -> S] /\ IsInjective(f)
  BY <1>3 DEF Bijection, Injection
<1>5. PICK g : g = SetToSeq(S)
  OBVIOUS
<1>6. g = CHOOSE h \in [1 .. n -> S] : IsInjective(h)
  BY <1>2, <1>5 DEF SetToSeq
<1>7. g \in [1 .. n -> S] /\ IsInjective(g)
  BY <1>4, <1>6
<1>. QED  BY <1>1, <1>2, <1>5, <1>7 DEF IsInjective

LEMMA WithOneMore ==
  ASSUME NEW S, NEW s \in Seq(S), NEW e, NEW m, m = Len(s)
  PROVE  /\ Len(s \o <<e>>) = m + 1
         /\ DOMAIN (s \o <<e>>) = 1 .. (m + 1)
         /\ \A i \in 1 .. m : (s \o <<e>>)[i] = s[i]
         /\ (s \o <<e>>)[m + 1] = e
<1>. DEFINE T == S \cup {e}
<1>1. s \in Seq(T) /\ <<e>> \in Seq(T) /\ m \in Nat /\ Len(<<e>>) = 1
  OBVIOUS
<1>2. PICK b : b = <<e>>
  OBVIOUS
<1>3. b \in Seq(T) /\ Len(b) = 1 /\ b[1] = e
  BY <1>1, <1>2
<1>. HIDE DEF T
<1>4. PICK a : a = s \o b
  OBVIOUS
<1>5. /\ a \in Seq(T) /\ Len(a) = m + 1
      /\ \A i \in 1 .. m + 1 : a[i] = IF i <= m THEN s[i] ELSE b[i - m]
  <2>1. /\ s \o b \in Seq(T) /\ Len(s \o b) = Len(s) + Len(b)
        /\ \A i \in 1 .. Len(s) + Len(b) :
             (s \o b)[i] = IF i <= Len(s) THEN s[i] ELSE b[i - Len(s)]
    BY <1>1, <1>3, ConcatProperties
  <2>2. Len(s) + Len(b) = m + 1 /\ Len(s) = m
    BY <1>1, <1>3
  <2>. QED  BY <1>4, <2>1, <2>2
<1>6. DOMAIN a = 1 .. (m + 1)
  BY <1>5
<1>7. \A i \in 1 .. m : a[i] = s[i]
  <2>1. \A i \in 1 .. m : i \in 1 .. m + 1 /\ i <= m
    BY <1>1
  <2>. QED  BY <1>5, <2>1
<1>8. a[m + 1] = b[1]
  <2>1. m + 1 \in 1 .. m + 1 /\ ~(m + 1 <= m) /\ (m + 1) - m = 1
    BY <1>1
  <2>. QED  BY <1>5, <2>1
<1>. QED  BY <1>2, <1>3, <1>4, <1>5, <1>6, <1>7, <1>8

(* Of a checkbox, one answer for each box that is ticked.                  *)
LEMMA CheckboxAnswered ==
  ASSUME NEW field, IsFillable(field), field.fieldType = "checkbox",
         NEW value, value \in CheckboxValues(field)
  PROVE  /\ Boxes(value) \in Nat
         /\ DOMAIN CheckboxAnswers(value) = 1 .. Boxes(value)
         /\ Len(CheckboxAnswers(value)) = Boxes(value)
         /\ value.checked => field.othersRadioButton
         /\ value.checked /\ ~OthersMissing(field, value) =>
               CheckboxAnswers(value)[Boxes(value)] = "Others: text"
         /\ \A i \in 1 .. Boxes(value) :
               \/ value.checked /\ i = Boxes(value)
               \/ /\ CheckboxAnswers(value)[i] \in field.fieldOptions
                  /\ \A j \in 1 .. Boxes(value) :
                        /\ ~(value.checked /\ j = Boxes(value))
                        /\ CheckboxAnswers(value)[i] = CheckboxAnswers(value)[j]
                        => i = j
<1>1. /\ IsFiniteSet(field.fieldOptions)
      /\ field.othersRadioButton \in BOOLEAN
  BY LimitsOfFields
<1>2. PICK S, ticked, typed :
         S = value.options /\ ticked = value.checked /\ typed = value.others
  OBVIOUS
<1>3. /\ S \subseteq field.fieldOptions
      /\ ticked \in BOOLEAN /\ (ticked => field.othersRadioButton)
      /\ typed \in BOOLEAN
  <2>1. \A A, B, C :
           \A v \in [options : A, checked : B, others : C] :
               v.options \in A /\ v.checked \in B /\ v.others \in C
    OBVIOUS
  <2>2. /\ value.options \in SUBSET field.fieldOptions
        /\ value.checked \in {FALSE, field.othersRadioButton}
        /\ value.others \in {FALSE, field.othersRadioButton}
    BY <2>1 DEF CheckboxValues
  <2>. QED  BY <1>1, <1>2, <2>2
<1>4. IsFiniteSet(S)
  BY <1>1, <1>3, FS_Subset
<1>5. PICK s, m : s = SetToSeq(S) /\ m = Cardinality(S)
  OBVIOUS
<1>6. /\ m \in Nat
      /\ s \in [1 .. m -> S]
      /\ \A i, j \in 1 .. m : s[i] = s[j] => i = j
  BY <1>4, <1>5, TickedInOrder
<1>7. s \in Seq(S) /\ Len(s) = m
  BY <1>6
<1>8. \A i \in 1 .. m : s[i] \in field.fieldOptions
  BY <1>3, <1>6
<1>9. PICK n, a : n = Boxes(value) /\ a = CheckboxAnswers(value)
  OBVIOUS
<1>10. CASE ~ticked
  <2>1. n = m
    BY <1>2, <1>5, <1>6, <1>9, <1>10 DEF Boxes
  <2>2. a = s
    <3>1. a = s \o <<>>
      BY <1>2, <1>5, <1>9, <1>10 DEF CheckboxAnswers
    <3>. QED  BY <3>1, <1>7
  <2>3. DOMAIN a = 1 .. n /\ Len(a) = n
    BY <1>6, <1>7, <2>1, <2>2
  <2>4. \A i, j \in 1 .. n : a[i] = a[j] => i = j
    BY <1>6, <2>1, <2>2
  <2>5. \A i \in 1 .. n : a[i] \in field.fieldOptions
    BY <1>8, <2>1, <2>2
  <2>. QED  BY <1>2, <1>3, <1>6, <1>9, <1>10, <2>1, <2>3, <2>4, <2>5
<1>11. CASE ticked
  <2>1. PICK e : e = IF typed THEN "Others: text" ELSE "Others: "
    OBVIOUS
  <2>2. n = m + 1
    BY <1>2, <1>5, <1>6, <1>9, <1>11 DEF Boxes
  <2>3. a = s \o <<e>>
    BY <1>2, <1>5, <1>9, <1>11, <2>1 DEF CheckboxAnswers
  <2>4. /\ Len(a) = n /\ DOMAIN a = 1 .. n
        /\ \A i \in 1 .. m : a[i] = s[i]
        /\ a[n] = e
    BY <1>7, <2>2, <2>3, WithOneMore
  <2>5. \A i \in 1 .. n : i \in 1 .. m \/ i = n
    BY <1>6, <2>2
  <2>6. \A i \in 1 .. n : i = n \/ i \in 1 .. m
    BY <2>5
  <2>7. ~OthersMissing(field, value) => a[n] = "Others: text"
    <3>1. ~OthersMissing(field, value) => typed
      BY <1>2, <1>11 DEF OthersMissing
    <3>. QED  BY <2>1, <2>4, <3>1
  <2>8. ASSUME NEW i \in 1 .. n, i # n
        PROVE  /\ a[i] \in field.fieldOptions
               /\ \A j \in 1 .. n : j # n /\ a[i] = a[j] => i = j
    <3>1. i \in 1 .. m /\ a[i] = s[i]
      BY <2>4, <2>6, <2>8
    <3>2. \A j \in 1 .. n : j # n => j \in 1 .. m /\ a[j] = s[j]
      BY <2>4, <2>6
    <3>. QED  BY <1>6, <1>8, <3>1, <3>2
  <2>9. n \in Nat
    BY <1>6, <2>2
  <2>. QED  BY <1>2, <1>3, <1>9, <1>11, <2>4, <2>7, <2>8, <2>9
<1>. QED  BY <1>2, <1>3, <1>10, <1>11

(* The definitions of the page's and the server's checks, by type.         *)
LEMMA PageOf ==
  ASSUME NEW field, NEW value, NEW there, NEW day,
         field.fieldType # "table",
         field.fieldType = "attachment" => there = None,
         PageValid(field, value, there, day)
  PROVE  \/ NothingChosen(field, value) /\ ~field.required
         \/ /\ ~NothingChosen(field, value)
            /\ ~OthersMissing(field, value)
            /\ PageFilled(field, value, day)
BY DEF PageValid

LEMMA NothingOf ==
  ASSUME NEW field, NEW value
  PROVE  /\ field.fieldType = "radiobutton" =>
               (NothingChosen(field, value) <=> value.option = "")
         /\ field.fieldType = "checkbox" =>
               (NothingChosen(field, value) <=>
                    value.options = {} /\ ~value.checked)
         /\ field.fieldType \notin {"radiobutton", "checkbox"} =>
               (NothingChosen(field, value) <=> value = EmptyValue(field))
BY DEF NothingChosen, PageEmpty

LEMMA AnswerOf ==
  ASSUME NEW field, NEW value
  PROVE  /\ field.fieldType = "radiobutton" =>
               Answer(field, value) = RadioAnswer(value)
         /\ field.fieldType = "checkbox" =>
               Answer(field, value) = CheckboxAnswers(value)
         /\ field.fieldType = "table" => Answer(field, value) = value.components
         /\ field.fieldType \notin {"radiobutton", "checkbox", "table"} =>
               Answer(field, value) = value
BY DEF Answer

LEMMA EmptyAnswerOf ==
  ASSUME NEW field, NEW answer
  PROVE  /\ field.fieldType \in {"checkbox", "table"} =>
               (isValueEmpty(field, answer) <=> answer = <<>>)
         /\ field.fieldType = "radiobutton" =>
               (isValueEmpty(field, answer) <=> answer = "")
         /\ field.fieldType \notin {"checkbox", "table", "radiobutton"} =>
               (isValueEmpty(field, answer) <=> answer = EmptyValue(field))
BY DEF isValueEmpty

LEMMA TextAccepted ==
  ASSUME NEW field, IsFillable(field),
         field.fieldType \in {"textfield", "textarea", "number"},
         NEW value, ValueOK(field, value), NEW day,
         PageFilled(field, value, day),
         NEW content, NEW isVis, NEW tmin, NEW tmax
  PROVE  isFilledAnswerValid(field, value, content, isVis, tmin, tmax)
<1>1. value \in Texts /\ value.length \in Nat
  <2>1. value \in Texts
    BY PossibleOf DEF ValueOK
  <2>2. MaxLength \in Nat
    BY AnswersAssumption
  <2>. QED  BY <2>1, <2>2 DEF Texts
<1>2. field.customVal = None \/ field.customVal \in Int
  BY LimitsOfFields
<1>. DEFINE limits == ValidationOptions(field)
<1>3. /\ field.fieldType = "number" => value.digits
      /\ AtLeast(value.length, limits.customMin)
      /\ AtMost(value.length, limits.customMax)
  BY DEF PageFilled
<1>4. /\ limits.selectedValidation = field.selectedValidation
      /\ limits.customVal = field.customVal
      /\ limits.customMax = IF field.selectedValidation \in {"Maximum", "Exact"}
                            THEN field.customVal ELSE None
      /\ limits.customMin = IF field.selectedValidation \in {"Minimum", "Exact"}
                            THEN field.customVal ELSE None
  BY DEF ValidationOptions
<1>. HIDE DEF limits
<1>5. ASSUME limits.selectedValidation = "Exact", field.customVal # None
      PROVE  value.length = field.customVal
  <2>1. field.customVal \in Int /\ field.selectedValidation = "Exact"
    BY <1>2, <1>4, <1>5
  <2>2. value.length >= field.customVal /\ value.length <= field.customVal
    BY <1>3, <1>4, <1>5, <2>1 DEF AtLeast, AtMost
  <2>. QED  BY <1>1, <2>1, <2>2
<1>6. isNumberOfCharactersValid(field, value)
  BY <1>3, <1>4, <1>5 DEF isNumberOfCharactersValid, limits
<1>7. validateLengthOfAnswer(field, value)
  BY <1>3, <1>4, <1>5 DEF validateLengthOfAnswer, limits
<1>8. field.fieldType = "number" => isNumberValid(field, value)
  BY <1>3, <1>7 DEF isNumberValid
<1>. QED  BY <1>6, <1>8 DEF isFilledAnswerValid

LEMMA DatesAreDays ==
  ASSUME NEW value \in Dates
  PROVE  value = None \/ value \in Int
<1>1. LastDay \in Nat
  BY AnswersAssumption
<1>2. \A d \in -2 .. LastDay : d \in Int
  BY <1>1
<1>. QED  BY <1>2 DEF Dates

LEMMA InOrder ==
  ASSUME NEW a \in Int, NEW b \in Int, NEW c \in Int
  PROVE  (a <= b /\ b <= c => a <= c) /\ (a >= b /\ b >= c => a >= c)
OBVIOUS

LEMMA DateAccepted ==
  ASSUME NEW field, IsFillable(field), field.fieldType = "date",
         NEW value, ValueOK(field, value), value # None,
         NEW day \in Int, NEW tmin \in Int, NEW tmax \in Int,
         field.selectedDateValidation = "Disallow past dates" => tmin <= day,
         day <= tmax,
         PageFilled(field, value, day),
         NEW content, NEW isVis
  PROVE  isFilledAnswerValid(field, value, content, isVis, tmin, tmax)
<1>1. value \in Int
  <2>1. value \in Dates
    BY PossibleOf DEF ValueOK
  <2>. QED  BY <2>1, DatesAreDays
<1>2. /\ field.selectedDateValidation # "Custom date range" =>
            field.customMinDate = None /\ field.customMaxDate = None
      /\ field.customMinDate = None \/ field.customMinDate \in Int
      /\ field.customMaxDate = None \/ field.customMaxDate \in Int
  BY LimitsOfFields
<1>3. ~isDateInvalid(field, value, day)
  BY DEF PageFilled
<1>4. PICK least, most :
         /\ least = IF field.customMinDate # None THEN field.customMinDate
                    ELSE IF field.selectedDateValidation = "Disallow past dates"
                         THEN day ELSE None
         /\ most = IF field.customMaxDate # None THEN field.customMaxDate
                   ELSE IF field.selectedDateValidation = "Disallow future dates"
                        THEN day ELSE None
  OBVIOUS
<1>5. AtLeast(value, least) /\ AtMost(value, most)
  BY <1>3, <1>4 DEF isDateInvalid
<1>6. AtLeast(value, field.customMinDate) /\ AtMost(value, field.customMaxDate)
  BY <1>4, <1>5 DEF AtLeast, AtMost
<1>7. ASSUME field.selectedDateValidation = "Disallow past dates"
      PROVE  value >= tmin
  <2>1. field.customMinDate = None
    BY <1>2, <1>7
  <2>2. least = day
    BY <1>4, <1>7, <2>1
  <2>3. day # None => value >= day
    BY <1>5, <2>2 DEF AtLeast
  <2>4. day # None
    BY FormsAssumption
  <2>. QED  BY <1>1, <1>7, <2>3, <2>4, InOrder
<1>8. ASSUME field.selectedDateValidation = "Disallow future dates"
      PROVE  value <= tmax
  <2>1. field.customMaxDate = None
    BY <1>2, <1>8
  <2>2. most = day
    BY <1>4, <1>8, <2>1
  <2>3. day # None => value <= day
    BY <1>5, <2>2 DEF AtMost
  <2>4. day # None
    BY FormsAssumption
  <2>. QED  BY <1>1, <2>3, <2>4, InOrder
<1>9. isDateValid(field, value, tmin, tmax)
  BY <1>6, <1>7, <1>8 DEF isDateValid
<1>. QED  BY <1>9 DEF isFilledAnswerValid

LEMMA ChoiceAccepted ==
  ASSUME NEW field, IsFillable(field), field.fieldType = "radiobutton",
         NEW value, ValueOK(field, value),
         value.option # "", ~OthersMissing(field, value)
  PROVE  isRadioValid(field, RadioAnswer(value))
<1>1. value \in RadioValues(field)
  BY PossibleOf DEF ValueOK
<1>2. field.othersRadioButton \in BOOLEAN
  BY LimitsOfFields
<1>3. /\ value.option \in {"", "radioButtonOthers"} \cup field.fieldOptions
      /\ value.others \in {FALSE, field.othersRadioButton}
  BY <1>1, RadioSet
<1>4. CASE value.option # "radioButtonOthers"
  <2>1. RadioAnswer(value) = value.option
    BY <1>4 DEF RadioAnswer
  <2>. QED  BY <1>3, <1>4, <2>1 DEF isRadioValid, isOneOfOptions
<1>5. CASE value.option = "radioButtonOthers"
  <2>1. value.others
    BY <1>5, <1>2, <1>3 DEF OthersMissing
  <2>2. RadioAnswer(value) = "Others: text"
    BY <1>5, <2>1 DEF RadioAnswer
  <2>3. field.othersRadioButton
    BY <1>2, <1>3, <2>1
  <2>. QED  BY <2>2, <2>3 DEF isRadioValid, isOtherOption
<1>. QED  BY <1>4, <1>5

LEMMA TickedIsOne ==
  ASSUME NEW field, IsFillable(field), field.fieldType = "checkbox",
         NEW value, value \in CheckboxValues(field), value.checked
  PROVE  Boxes(value) # 0
<1>1. value.options \subseteq field.fieldOptions
  BY DEF CheckboxValues
<1>2. PICK S, m : S = value.options /\ m = Cardinality(S)
  OBVIOUS
<1>3. IsFiniteSet(S)
  BY <1>1, <1>2, LimitsOfFields, FS_Subset
<1>4. m \in Nat
  BY <1>2, <1>3, FS_CardinalityType
<1>5. Boxes(value) = m + 1
  BY <1>2 DEF Boxes
<1>. QED  BY <1>4, <1>5

LEMMA BoxesAccepted ==
  ASSUME NEW field, IsFillable(field), field.fieldType = "checkbox",
         NEW value, ValueOK(field, value),
         ~OthersMissing(field, value), validateCheckbox(field, value)
  PROVE  isCheckboxValid(field, CheckboxAnswers(value))
<1>1. value \in CheckboxValues(field)
  BY PossibleOf DEF ValueOK
<1>2. PICK a, n : a = CheckboxAnswers(value) /\ n = Boxes(value)
  OBVIOUS
<1>3. /\ n \in Nat
      /\ DOMAIN a = 1 .. n /\ Len(a) = n
      /\ value.checked => field.othersRadioButton
      /\ value.checked => a[n] = "Others: text"
      /\ \A i \in 1 .. n :
            \/ value.checked /\ i = n
            \/ /\ a[i] \in field.fieldOptions
               /\ \A j \in 1 .. n :
                     (~(value.checked /\ j = n) /\ a[i] = a[j]) => i = j
  BY <1>1, <1>2, CheckboxAnswered
<1>4. /\ AtLeast(Len(a), field.customMin)
      /\ AtMost(Len(a), field.customMax)
  BY <1>2, <1>3 DEF validateCheckbox
<1>5. PICK others : others = IF value.checked THEN n ELSE 0
  OBVIOUS
<1>6. /\ others \in {0} \cup DOMAIN a
      /\ others # 0 => isOtherOption(field, a[others])
  <2>1. value.checked => n \in 1 .. n
    <3>1. value.checked => n # 0
      BY <1>1, <1>2, TickedIsOne
    <3>2. n \in Nat
      BY <1>3
    <3>3. n # 0 => n \in 1 .. n
      BY <3>2
    <3>. QED  BY <3>1, <3>3
  <2>2. CASE value.checked
    BY <1>3, <1>5, <2>1, <2>2 DEF isOtherOption
  <2>3. CASE ~value.checked
    BY <1>5, <2>3
  <2>. QED  BY <2>2, <2>3
<1>7. \A i \in DOMAIN a \ {others} :
         /\ isOneOfOptions(field, a[i])
         /\ \A j \in DOMAIN a \ {others} : a[i] = a[j] => i = j
  <2>1. \A i \in 1 .. n : i # others <=> ~(value.checked /\ i = n)
    <3>1. CASE value.checked
      BY <1>5, <3>1
    <3>2. CASE ~value.checked
      <4>1. others = 0
        BY <1>5, <3>2
      <4>2. n \in Nat
        BY <1>3
      <4>3. \A i \in 1 .. n : i # 0
        BY <4>2
      <4>. QED  BY <3>2, <4>1, <4>3
    <3>. QED  BY <3>1, <3>2
  <2>. QED  BY <1>3, <2>1 DEF isOneOfOptions
<1>. QED  BY <1>2, <1>4, <1>6, <1>7 DEF isCheckboxValid

(* Nothing ticked is no answer, and something is one.                      *)
LEMMA BoxesEmpty ==
  ASSUME NEW field, IsFillable(field), field.fieldType = "checkbox",
         NEW value, ValueOK(field, value)
  PROVE  CheckboxAnswers(value) = <<>> <=> NothingChosen(field, value)
<1>1. value \in CheckboxValues(field)
  BY PossibleOf DEF ValueOK
<1>2. /\ Boxes(value) \in Nat
      /\ DOMAIN CheckboxAnswers(value) = 1 .. Boxes(value)
      /\ Len(CheckboxAnswers(value)) = Boxes(value)
  BY <1>1, CheckboxAnswered
<1>3. NothingChosen(field, value) <=> value.options = {} /\ ~value.checked
  BY NothingOf
<1>4. IsFiniteSet(value.options) /\ value.checked \in BOOLEAN
  <2>1. field.othersRadioButton \in BOOLEAN /\ IsFiniteSet(field.fieldOptions)
    BY LimitsOfFields
  <2>2. \A A, B, C :
           \A v \in [options : A, checked : B, others : C] :
               v.options \in A /\ v.checked \in B
    OBVIOUS
  <2>3. /\ value.options \in SUBSET field.fieldOptions
        /\ value.checked \in {FALSE, field.othersRadioButton}
    BY <1>1, <2>2 DEF CheckboxValues
  <2>. QED  BY <2>1, <2>3, FS_Subset
<1>5. /\ Cardinality(value.options) \in Nat
      /\ Cardinality(value.options) = 0 <=> value.options = {}
  BY <1>4, FS_CardinalityType, FS_EmptySet
<1>6. Boxes(value) = 0 <=> value.options = {} /\ ~value.checked
  BY <1>4, <1>5 DEF Boxes
<1>7. CASE Boxes(value) = 0
  <2>1. PICK a : a = CheckboxAnswers(value)
    OBVIOUS
  <2>2. CASE value.checked
    BY <1>6, <1>7, <2>2
  <2>3. CASE ~value.checked
    <3>1. a = SetToSeq({}) \o <<>>
      BY <1>6, <1>7, <2>1, <2>3 DEF CheckboxAnswers
    <3>2. Cardinality({}) = 0 /\ IsFiniteSet({})
      BY FS_EmptySet
    <3>3. SetToSeq({}) \in [1 .. 0 -> {}]
      BY <3>2, TickedInOrder
    <3>4. SetToSeq({}) = <<>>
      BY <3>3
    <3>5. a = <<>>
      BY <3>1, <3>4
    <3>. QED  BY <1>3, <1>6, <1>7, <2>1, <3>5
  <2>. QED  BY <2>2, <2>3
<1>8. CASE Boxes(value) # 0
  <2>1. Len(CheckboxAnswers(value)) # 0
    BY <1>2, <1>8
  <2>2. CheckboxAnswers(value) # <<>>
    BY <2>1
  <2>. QED  BY <1>3, <1>6, <1>8, <2>2
<1>. QED  BY <1>7, <1>8

LEMMA TableAccepted ==
  ASSUME NEW field, IsFillable(field), field.fieldType = "table",
         NEW value, ValueOK(field, value), NEW isVis,
         isVis => \A r \in DOMAIN value.components, c \in DOMAIN field.columns :
                      field.columns[c] => value.components[r][c]
  PROVE  /\ isTableValid(field, value.components, isVis)
         /\ value.components # <<>>
<1>1. RowsOK(field, value)
  BY TableParts
<1>2. /\ field.minimumRows \in Nat \ {0} /\ field.addMoreRows \in BOOLEAN
      /\ field.maximumRows = None \/ field.maximumRows \in Int
  BY LimitsOfFields
<1>3. PICK n, least, most, more :
         /\ n = Len(value.components) /\ least = field.minimumRows
         /\ most = field.maximumRows /\ more = value.additionalRowCount
  OBVIOUS
<1>4. least \in Nat \ {0} /\ (most = None \/ most \in Int)
  <2>1. least \in Nat \ {0}
    BY <1>2, <1>3
  <2>2. most = None \/ most \in Int
    BY Zenon, <1>2, <1>3
  <2>. QED  BY <2>1, <2>2
<1>5. /\ value.components \in Seq([DOMAIN field.columns -> BOOLEAN])
      /\ more \in Nat
      /\ least <= n /\ n <= least + more
      /\ field.addMoreRows => AtMost(least + more, most)
      /\ ~field.addMoreRows => more = 0
  BY <1>1, <1>3 DEF RowsOK
<1>10. n \in Nat
  <2>. DEFINE Row == [DOMAIN field.columns -> BOOLEAN]
  <2>. HIDE DEF Row
  <2>. QED  BY <1>3, <1>5 DEF Row
<1>6. field.addMoreRows => AtMost(n, field.maximumRows)
  <2>. SUFFICES ASSUME field.addMoreRows, most # None
                PROVE  n <= most
    BY <1>3 DEF AtMost
  <2>1. least + more <= most /\ most \in Int /\ least + more \in Int
    BY <1>4, <1>5 DEF AtMost
  <2>. QED  BY <1>5, <1>10, <2>1, InOrder
<1>7. ~field.addMoreRows => n = field.minimumRows
  <2>. SUFFICES ASSUME more = 0
                PROVE  n = least
    BY <1>3, <1>5
  <2>1. n <= least
    BY <1>4, <1>5
  <2>. QED  BY <1>4, <1>5, <1>10, <2>1
<1>8. isTableValid(field, value.components, isVis)
  <2>. SUFFICES \A r \in DOMAIN value.components, c \in DOMAIN field.columns :
                   field.columns[c] /\ isVis => value.components[r][c]
    BY <1>3, <1>5, <1>6, <1>7 DEF isTableValid
  <2>. QED  OBVIOUS
<1>9. value.components # <<>>
  <2>1. n # 0
    BY <1>4, <1>5, <1>10
  <2>. QED  BY <1>3, <2>1
<1>. QED  BY <1>8, <1>9

(* Nothing chosen is sent as no answer.                                    *)
LEMMA NothingAnswered ==
  ASSUME NEW field, IsFillable(field), field.fieldType # "table",
         NEW value, ValueOK(field, value), NothingChosen(field, value)
  PROVE  isValueEmpty(field, Answer(field, value))
<1>. DEFINE type == field.fieldType
            answer == Answer(field, value)
<1>1. CASE type = "radiobutton"
  <2>1. value.option = ""
    BY <1>1, NothingOf
  <2>2. answer = RadioAnswer(value)
    BY <1>1, AnswerOf
  <2>3. RadioAnswer(value) = ""
    BY <2>1 DEF RadioAnswer
  <2>. QED  BY <1>1, <2>2, <2>3, EmptyAnswerOf
<1>2. CASE type = "checkbox"
  BY <1>2, BoxesEmpty, AnswerOf, EmptyAnswerOf
<1>3. CASE type \notin {"radiobutton", "checkbox"}
  <2>1. value = EmptyValue(field)
    BY <1>3, NothingOf
  <2>2. answer = value
    BY <1>3, AnswerOf
  <2>. QED  BY <1>3, <2>1, <2>2, EmptyAnswerOf
<1>. QED  BY <1>1, <1>2, <1>3

LEMMA FromOne ==
  ASSUME NEW n \in Nat, NEW k \in 0 .. n, k # 0
  PROVE  k \in 1 .. n
OBVIOUS

(* Whether the server thinks that the field is shown makes no difference.  *)
LEMMA PageAccepts ==
  ASSUME NEW field, IsFillable(field), field.fieldType # "attachment",
         NEW value, ValueOK(field, value), NEW there,
         NEW day \in Int, NEW tmin \in Int, NEW tmax \in Int,
         /\ field.fieldType = "date"
         /\ field.selectedDateValidation = "Disallow past dates"
         => tmin <= day,
         day <= tmax,
         field.fieldType = "decimal" => value = None \/ ~value.exponent,
         PageValid(field, value, there, day),
         NEW content, NEW isVis
  PROVE  isAnswerValid(field, Answer(field, value), content, isVis, tmin, tmax)
<1>. DEFINE type == field.fieldType
            answer == Answer(field, value)
<1>1. CASE type = "table"
  <2>1. \A r \in DOMAIN value.components, c \in DOMAIN field.columns :
           field.columns[c] => value.components[r][c]
    BY <1>1 DEF PageValid
  <2>2. isTableValid(field, value.components, isVis) /\ value.components # <<>>
    BY <1>1, <2>1, TableAccepted
  <2>. QED  BY <1>1, <2>2, AnswerOf, EmptyAnswerOf
            DEF isAnswerValid, isFilledAnswerValid
<1>2. ASSUME type # "table", NothingChosen(field, value)
      PROVE  isValueEmpty(field, answer)
  BY <1>2, NothingAnswered
<1>3. ASSUME type # "table", NothingChosen(field, value), ~field.required
      PROVE  isAnswerValid(field, answer, content, isVis, tmin, tmax)
  BY <1>2, <1>3 DEF isAnswerValid, isAnswerRequired
<1>4. ASSUME type # "table", ~NothingChosen(field, value),
             ~OthersMissing(field, value), PageFilled(field, value, day)
      PROVE  isFilledAnswerValid(field, answer, content, isVis, tmin, tmax)
             /\ ~isValueEmpty(field, answer)
  <2>1. CASE type = "radiobutton"
    <3>1. value.option # ""
      BY <1>4, <2>1, NothingOf
    <3>2. isRadioValid(field, RadioAnswer(value))
      BY <1>4, <2>1, <3>1, ChoiceAccepted
    <3>3. RadioAnswer(value) # ""
      BY <3>1 DEF RadioAnswer
    <3>. QED  BY <2>1, <3>2, <3>3, AnswerOf, EmptyAnswerOf
              DEF isFilledAnswerValid
  <2>2. CASE type = "checkbox"
    <3>1. validateCheckbox(field, value)
      BY <1>4, <2>2 DEF PageFilled
    <3>2. isCheckboxValid(field, CheckboxAnswers(value))
      BY <1>4, <2>2, <3>1, BoxesAccepted
    <3>. QED  BY <1>4, <2>2, <3>2, BoxesEmpty, AnswerOf, EmptyAnswerOf
              DEF isFilledAnswerValid
  <2>3. ASSUME type \notin {"radiobutton", "checkbox"}
        PROVE  answer = value /\ ~isValueEmpty(field, answer)
               /\ value # EmptyValue(field)
    <3>1. value # EmptyValue(field)
      BY <2>3, <1>4, NothingOf
    <3>2. answer = value
      BY <1>4, <2>3, AnswerOf
    <3>. QED  BY <1>4, <2>3, <3>1, <3>2, EmptyAnswerOf
  <2>4. CASE type \in {"textfield", "textarea", "number"}
    BY <1>4, <2>3, <2>4, TextAccepted
  <2>5. CASE type = "date"
    <3>1. value # None
      BY <2>3, <2>5, EmptyOf
    <3>. QED  BY <1>4, <2>3, <2>5, <3>1, DateAccepted
  <2>6. CASE type = "decimal"
    <3>1. value # None
      BY <2>3, <2>6, EmptyOf
    <3>2. isDecimalValid(field, value)
      BY <1>4, <2>6, <3>1 DEF isDecimalValid, isFloatAndWithinRange, PageFilled
    <3>. QED  BY <2>3, <2>6, <3>2 DEF isFilledAnswerValid
  <2>7. CASE type \in {"mobile", "homeno"}
    <3>1. isPhone(field, value)
      BY <1>4, <2>7 DEF PageFilled
    <3>2. /\ type = "mobile" => isMobileValid(field, value)
          /\ type = "homeno" => isHomeNoValid(field, value)
      BY <2>7, <3>1 DEF isPhone, isMobileValid, isHomeNoValid
    <3>. QED  BY <2>3, <2>7, <3>2 DEF isFilledAnswerValid
  <2>8. CASE type \in {"email", "nric"}
    <3>1. value = "wellFormed"
      BY <1>4, <2>8 DEF PageFilled
    <3>. QED  BY <2>3, <2>8, <3>1
              DEF isFilledAnswerValid, isEmailValid, isNricValid
  <2>9. CASE type = "yes_no"
    <3>1. value \in {"Yes", "No"}
      BY <2>3, <2>9, PossibleOf, EmptyOf DEF ValueOK
    <3>. QED  BY <2>3, <2>9, <3>1 DEF isFilledAnswerValid, isYesNoValid
  <2>10. CASE type = "rating"
    <3>0. PICK n, given : n = field.steps /\ given = value
      OBVIOUS
    <3>1. given \in 0 .. field.steps /\ given # 0
      BY <2>3, <2>10, <3>0, PossibleOf, EmptyOf DEF ValueOK
    <3>2. n \in Nat /\ given \in 0 .. n /\ given # 0
      BY <2>10, <3>0, <3>1, LimitsOfFields
    <3>3. given \in 1 .. n
      BY <3>2, FromOne
    <3>. QED  BY <2>3, <2>10, <3>0, <3>3 DEF isFilledAnswerValid, isRatingValid
  <2>11. CASE type = "dropdown"
    <3>1. value \in field.fieldOptions
      BY <2>3, <2>11, PossibleOf, EmptyOf DEF ValueOK
    <3>. QED  BY <2>3, <2>11, <3>1
              DEF isFilledAnswerValid, isDropdownValid, isOneOfOptions
  <2>12. CASE type = "section"
    BY <2>3, <2>12, PossibleOf, EmptyOf DEF ValueOK
  <2>. QED  BY <1>4, <2>1, <2>2, <2>4, <2>5, <2>6, <2>7, <2>8, <2>9, <2>10,
               <2>11, <2>12, TypesOfFields
<1>5. CASE type # "table"
  BY <1>3, <1>4, <1>5, PageOf DEF isAnswerValid
<1>. QED  BY <1>1, <1>5

-----------------------------------------------------------------------------
(* Folds.  A fold of the library is a function on sets of positions, which *)
(* takes the last of them first; on the sets 1..k it is the recursion that *)
(* one reads from left to right.                                           *)

LessThan == {p \in Nat \X Nat : p[1] < p[2]}

(* Every set of numbers has a least one.                                   *)
LEMMA LeastExists ==
  ASSUME NEW T \in SUBSET Nat, T # {}
  PROVE  \E n \in T : \A m \in T : n <= m
<1>1. IsWellFoundedOn(LessThan, Nat)
  BY NatLessThanWellFounded DEF OpToRel, LessThan
<1>2. PICK n \in T : \A m \in T : <<m, n>> \notin LessThan
  BY <1>1, WFMin
<1>3. ASSUME NEW m \in T
      PROVE  n <= m
  <2>1. m \in Nat /\ n \in Nat
    OBVIOUS
  <2>2. CASE m < n
    BY <1>2, <2>1, <2>2 DEF LessThan
  <2>. QED  BY <2>1, <2>2
<1>. QED  BY <1>3

(* A set with 0 that has the successor of each of its numbers up to n.     *)
LEMMA CountsUp ==
  ASSUME NEW n \in Nat, NEW T, 0 \in T,
         \A k \in 0..n : k \in T /\ k # n => k + 1 \in T
  PROVE  0..n \subseteq T
<1>. DEFINE Bad == {k \in 0..n : k \notin T}
<1>1. SUFFICES ASSUME Bad # {}
               PROVE  FALSE
  OBVIOUS
<1>2. PICK k \in Bad : \A m \in Bad : k <= m
  <2>1. Bad \in SUBSET Nat
    OBVIOUS
  <2>. QED
    <3>. HIDE DEF Bad
    <3>. QED  BY <1>1, <2>1, LeastExists
<1>3. k \in 0..n /\ k \notin T /\ k # 0
  OBVIOUS
<1>4. k - 1 \in 0..n /\ k - 1 # n /\ k = (k - 1) + 1
  BY <1>3
<1>5. k - 1 \notin Bad
  BY <1>2, <1>4
<1>6. k - 1 \in T
  BY <1>4, <1>5
<1>. QED  BY <1>3, <1>4, <1>6

(* The greatest number of 1..k is k.                                       *)
LEMMA MaxOfInterval ==
  ASSUME NEW k \in Nat \ {0}
  PROVE  /\ Max(1..k) = k
         /\ (1..k) \ {k} = 1..(k - 1)
         /\ 1..k # {}
<1>1. k \in 1..k /\ \A m \in 1..k : k >= m
  OBVIOUS
<1>2. \A m \in 1..k : (\A i \in 1..k : m >= i) => m = k
  OBVIOUS
<1>3. Max(1..k) = k
  BY <1>1, <1>2 DEF Max
<1>4. (1..k) \ {k} = 1..(k - 1)
  <2>1. \A m : m \in 1..k /\ m # k <=> m \in 1..(k - 1)
    OBVIOUS
  <2>. QED  BY <2>1
<1>. QED  BY <1>1, <1>3, <1>4

LEMMA MaxOfPositions ==
  ASSUME NEW n \in Nat, NEW s \in SUBSET (1..n), s # {}
  PROVE  Max(s) \in s /\ \A m \in s : Max(s) >= m
<1>. DEFINE Above == {n - i : i \in s}
<1>1. Above \in SUBSET Nat /\ Above # {}
  <2>1. \A i \in s : n - i \in Nat
    OBVIOUS
  <2>2. \A a \in Above : a \in Nat
    BY <2>1
  <2>3. PICK i : i \in s
    OBVIOUS
  <2>4. n - i \in Above
    BY <2>3
  <2>. QED  BY <2>2, <2>4
<1>2. PICK d \in Above : \A e \in Above : d <= e
  <2>. HIDE DEF Above
  <2>. QED  BY <1>1, LeastExists
<1>3. PICK x \in s : d = n - x
  OBVIOUS
<1>4. \A m \in s : x >= m
  <2>1. SUFFICES ASSUME NEW m \in s
                 PROVE  x >= m
    OBVIOUS
  <2>2. n - m \in Above
    OBVIOUS
  <2>3. n - x <= n - m
    BY <1>2, <1>3, <2>2
  <2>. QED  BY <2>3
<1>. QED  BY <1>3, <1>4 DEF Max

(* There is a function that folds the steps F.                             *)
IsFold(f, n, F, base) ==
    \A s \in SUBSET (1..n) :
        f[s] = IF s = {} THEN base ELSE F[Max(s)][f[s \ {Max(s)}]]

LEMMA FoldExists ==
  ASSUME NEW S, NEW base \in S, NEW n \in Nat, NEW F \in [1..n -> [S -> S]]
  PROVE  \E f \in [SUBSET (1..n) -> S] : IsFold(f, n, F, base)
<1>. DEFINE HasFold(k) == \E f \in [SUBSET (1..k) -> S] : IsFold(f, k, F, base)
            T == {k \in 0..n : HasFold(k)}
<1>1. 0 \in T
  <2>. DEFINE f == [s \in SUBSET (1..0) |-> base]
  <2>1. 1..0 = {} /\ f \in [SUBSET (1..0) -> S]
    OBVIOUS
  <2>2. IsFold(f, 0, F, base)
    BY <2>1 DEF IsFold
  <2>. QED  BY <2>1, <2>2
<1>2. ASSUME NEW k \in 0..n, k \in T, k # n
      PROVE  k + 1 \in T
  <2>1. PICK f \in [SUBSET (1..k) -> S] : IsFold(f, k, F, base)
    BY <1>2
  <2>2. k + 1 \in 1..n /\ k \in Nat
    BY <1>2
  <2>. DEFINE g == [s \in SUBSET (1..(k + 1)) |->
                       IF k + 1 \in s THEN F[k + 1][f[s \ {k + 1}]] ELSE f[s]]
  <2>3. \A s \in SUBSET (1..(k + 1)) :
           /\ s \ {k + 1} \in SUBSET (1..k)
           /\ k + 1 \notin s => s \in SUBSET (1..k)
    BY <2>2
  <2>4. g \in [SUBSET (1..(k + 1)) -> S]
    BY <2>2, <2>3
  <2>5. ASSUME NEW s \in SUBSET (1..(k + 1)), s # {}
        PROVE  g[s] = F[Max(s)][g[s \ {Max(s)}]]
    <3>1. Max(s) \in s /\ \A m \in s : Max(s) >= m
      <4>1. k + 1 \in Nat
        BY <2>2
      <4>. QED
        <5>. HIDE DEF g
        <5>. QED  BY <2>5, <4>1, MaxOfPositions
    <3>2. CASE k + 1 \in s
      <4>1. Max(s) = k + 1
        <5>1. \A m \in 1..(k + 1) : m >= k + 1 => m = k + 1
          BY <2>2
        <5>. QED
          <6>. HIDE DEF g
          <6>. QED  BY <3>1, <3>2, <5>1
      <4>2. g[s \ {k + 1}] = f[s \ {k + 1}]
        BY <2>3
      <4>. QED  BY <3>2, <4>1, <4>2
    <3>3. CASE k + 1 \notin s
      <4>1. s \in SUBSET (1..k) /\ s \ {Max(s)} \in SUBSET (1..k)
        BY <2>3, <3>3
      <4>2. f[s] = F[Max(s)][f[s \ {Max(s)}]]
        BY <2>1, <2>5, <4>1 DEF IsFold
      <4>3. g[s] = f[s] /\ g[s \ {Max(s)}] = f[s \ {Max(s)}]
        BY <3>3
      <4>. QED  BY <4>2, <4>3
    <3>. QED  BY <3>2, <3>3
  <2>6. g[{}] = base
    <3>1. f[{}] = base
      BY <2>1 DEF IsFold
    <3>. QED  BY <3>1
  <2>7. IsFold(g, k + 1, F, base)
    <3>. HIDE DEF g
    <3>. QED  BY <2>5, <2>6 DEF IsFold
  <2>8. HasFold(k + 1)
    <3>. HIDE DEF g
    <3>. QED  BY <2>4, <2>7
  <2>9. k + 1 \in 0..n
    BY <2>2
  <2>. QED  BY <2>8, <2>9
<1>3. 0..n \subseteq T
  <2>. HIDE DEF T
  <2>. QED  BY <1>1, <1>2, CountsUp
<1>4. n \in T
  <2>. HIDE DEF T
  <2>. QED  BY <1>3
<1>. QED  BY <1>4

(* g[k] is the sum of the first k sizes.                                   *)
Sums(g, sizes) ==
    /\ g[0] = 0
    /\ \A k \in 1 .. Len(sizes) : g[k] = g[k - 1] + sizes[k]

LEMMA SumsExist ==
  ASSUME NEW sizes \in Seq(Nat)
  PROVE  \E g : Sums(g, sizes) /\ SumOf(sizes) = g[Len(sizes)]
<1>. DEFINE n == Len(sizes)
            Adds(f) == f = [s \in SUBSET DOMAIN sizes |->
                               IF s = {} THEN 0
                               ELSE f[s \ {Max(s)}] + sizes[Max(s)]]
            F == [i \in 1 .. n |-> [t \in Nat |-> t + sizes[i]]]
<1>1. SumOf(sizes) = (CHOOSE f : Adds(f))[DOMAIN sizes]
  BY DEF SumOf, FoldLeft, MapThenFoldSet
<1>2. n \in Nat /\ DOMAIN sizes = 1 .. n /\ \A i \in 1 .. n : sizes[i] \in Nat
  OBVIOUS
<1>3. F \in [1 .. n -> [Nat -> Nat]]
  <2>1. \A i \in 1 .. n : [t \in Nat |-> t + sizes[i]] \in [Nat -> Nat]
    BY <1>2
  <2>. QED  BY <2>1
<1>4. PICK f \in [SUBSET (1 .. n) -> Nat] : IsFold(f, n, F, 0)
  <2>1. 0 \in Nat /\ n \in Nat
    BY <1>2
  <2>. HIDE DEF F, n
  <2>. QED  BY <1>3, <2>1, FoldExists
<1>5. Adds(f)
  <2>1. ASSUME NEW s \in SUBSET (1 .. n), s # {}
        PROVE  f[s] = f[s \ {Max(s)}] + sizes[Max(s)]
    <3>1. Max(s) \in 1 .. n
      BY <1>2, <2>1, MaxOfPositions
    <3>2. f[s \ {Max(s)}] \in Nat
      BY <1>4
    <3>3. F[Max(s)][f[s \ {Max(s)}]] = f[s \ {Max(s)}] + sizes[Max(s)]
      BY <1>2, <3>1, <3>2
    <3>4. f[s] = F[Max(s)][f[s \ {Max(s)}]]
      <4>. HIDE DEF F
      <4>. QED  BY <1>4, <2>1 DEF IsFold
    <3>. QED  BY <3>3, <3>4
  <2>2. f[{}] = 0
    BY <1>4 DEF IsFold
  <2>3. f = [s \in SUBSET (1 .. n) |-> f[s]]
    BY <1>4
  <2>4. [s \in SUBSET (1 .. n) |-> f[s]]
          = [s \in SUBSET (1 .. n) |->
                IF s = {} THEN 0 ELSE f[s \ {Max(s)}] + sizes[Max(s)]]
    <3>. HIDE DEF F
    <3>. QED  BY <2>1, <2>2
  <2>. QED  BY <1>2, <2>3, <2>4
<1>6. PICK e : Adds(e) /\ e = CHOOSE f_1 : Adds(f_1)
  <2>. HIDE DEF Adds
  <2>. QED  BY <1>5
<1>7. \A s \in SUBSET (1 .. n) :
         e[s] = IF s = {} THEN 0 ELSE e[s \ {Max(s)}] + sizes[Max(s)]
  BY <1>2, <1>6
<1>. DEFINE g == [k \in 0 .. n |-> e[1 .. k]]
<1>8. g[0] = 0
  <2>1. 1 .. 0 = {} /\ 0 \in 0 .. n
    BY <1>2
  <2>. QED  BY <1>7, <2>1
<1>9. ASSUME NEW k \in 1 .. n
      PROVE  g[k] = g[k - 1] + sizes[k]
  <2>1. /\ k \in 0 .. n /\ k - 1 \in 0 .. n
        /\ 1 .. k \in SUBSET (1 .. n) /\ k \in Nat \ {0}
    BY <1>2
  <2>2. Max(1 .. k) = k /\ (1 .. k) \ {k} = 1 .. (k - 1) /\ 1 .. k # {}
    BY <2>1, MaxOfInterval
  <2>3. e[1 .. k] = e[1 .. (k - 1)] + sizes[k]
    BY <1>7, <2>1, <2>2
  <2>. QED  BY <2>1, <2>3
<1>10. SumOf(sizes) = g[n]
  <2>1. n \in 0 .. n
    BY <1>2
  <2>. HIDE DEF Adds
  <2>. QED  BY <1>1, <1>2, <1>6, <2>1
<1>. QED
  <2>. HIDE DEF g
  <2>. QED  BY <1>8, <1>9, <1>10 DEF Sums

(* Sizes that are not greater have a sum that is not.                      *)
LEMMA SumOfSmaller ==
  ASSUME NEW a \in Seq(Nat), NEW b \in Seq(Nat), Len(a) = Len(b),
         \A i \in 1 .. Len(a) : a[i] <= b[i]
  PROVE  SumOf(a) \in Nat /\ SumOf(b) \in Nat /\ SumOf(a) <= SumOf(b)
<1>1. PICK n : n = Len(a)
  OBVIOUS
<1>2. /\ n \in Nat /\ Len(b) = n
      /\ \A i \in 1 .. n : a[i] \in Nat /\ b[i] \in Nat /\ a[i] <= b[i]
  BY <1>1
<1>3. PICK g : Sums(g, a) /\ SumOf(a) = g[n]
  BY <1>1, SumsExist
<1>4. PICK h : Sums(h, b) /\ SumOf(b) = h[n]
  BY <1>2, SumsExist
<1>. DEFINE T == {k \in 0 .. n : g[k] \in Nat /\ h[k] \in Nat /\ g[k] <= h[k]}
<1>5. 0 \in T
  BY <1>2, <1>3, <1>4 DEF Sums
<1>6. \A k \in 0 .. n : k \in T /\ k # n => k + 1 \in T
  <2>1. SUFFICES ASSUME NEW k \in 0 .. n, k \in T, k # n
                 PROVE  k + 1 \in T
    OBVIOUS
  <2>2. k + 1 \in 1 .. n /\ (k + 1) - 1 = k /\ k + 1 \in 0 .. n
    BY <1>2, <2>1
  <2>3. g[k + 1] = g[k] + a[k + 1] /\ h[k + 1] = h[k] + b[k + 1]
    BY <1>1, <1>2, <1>3, <1>4, <2>2 DEF Sums
  <2>4. a[k + 1] \in Nat /\ b[k + 1] \in Nat /\ a[k + 1] <= b[k + 1]
    BY <1>2, <2>2
  <2>5. g[k] \in Nat /\ h[k] \in Nat /\ g[k] <= h[k]
    BY <2>1
  <2>6. /\ g[k + 1] \in Nat /\ h[k + 1] \in Nat
        /\ g[k + 1] <= h[k + 1]
    <3>1. PICK x, y, u, v : x = g[k] /\ y = h[k] /\ u = a[k + 1] /\ v = b[k + 1]
      OBVIOUS
    <3>2. x + u \in Nat /\ y + v \in Nat /\ x + u <= y + v
      BY <2>4, <2>5, <3>1
    <3>. QED  BY <2>3, <3>1, <3>2
  <2>. QED  BY <2>2, <2>6
<1>7. 0 .. n \subseteq T
  <2>. HIDE DEF T
  <2>. QED  BY <1>2, <1>5, <1>6, CountsUp
<1>8. n \in T
  <2>1. n \in 0 .. n
    BY <1>2
  <2>. HIDE DEF T
  <2>. QED  BY <1>7, <2>1
<1>. QED  BY <1>3, <1>4, <1>8

-----------------------------------------------------------------------------
(* The verdict of the server on what the page has sent *)

(* A field that is hidden is cleared, and has no answer then.              *)
LEMMA HiddenAccepted ==
  ASSUME form \in Forms, NEW i \in fields,
         NEW field, field = form.form_fields[i],
         NEW value, ValueOK(field, value),
         NEW content, NEW tmin, NEW tmax
  PROVE  isAnswerValid(field, Answer(field, ClearedValue(i, value)),
                       content, FALSE, tmin, tmax)
<1>1. IsFillable(field) /\ ValueOK(field, ClearedValue(i, value))
  BY FieldFacts, ClearedOK
<1>2. CASE field.fieldType = "table"
  <2>1. /\ isTableValid(field, ClearedValue(i, value).components, FALSE)
        /\ ClearedValue(i, value).components # <<>>
    BY <1>1, <1>2, TableAccepted
  <2>. QED  BY <1>2, <2>1, AnswerOf, EmptyAnswerOf
            DEF isAnswerValid, isFilledAnswerValid
<1>3. CASE field.fieldType # "table"
  <2>1. ClearedValue(i, value) = EmptyValue(field)
    BY <1>3 DEF ClearedValue
  <2>2. NothingChosen(field, EmptyValue(field))
    <3>1. CASE field.fieldType = "radiobutton"
      <4>1. EmptyValue(field) = [option |-> "", others |-> FALSE]
        BY <3>1, EmptyOf DEF Choice
      <4>2. EmptyValue(field).option = ""
        <5>1. \A a, b : [option |-> a, others |-> b].option = a
          OBVIOUS
        <5>. QED  BY <4>1, <5>1
      <4>. QED  BY <3>1, <4>2, NothingOf
    <3>2. CASE field.fieldType = "checkbox"
      <4>1. EmptyValue(field)
               = [options |-> {}, checked |-> FALSE, others |-> FALSE]
        BY <3>2, EmptyOf
      <4>2. EmptyValue(field).options = {} /\ ~EmptyValue(field).checked
        BY <4>1
      <4>. QED  BY <3>2, <4>2, NothingOf
    <3>3. CASE field.fieldType \notin {"radiobutton", "checkbox"}
      BY <3>3, NothingOf
    <3>. QED  BY <3>1, <3>2, <3>3
  <2>3. isValueEmpty(field, Answer(field, ClearedValue(i, value)))
    BY <1>1, <1>3, <2>1, <2>2, NothingAnswered
  <2>. QED  BY <2>3 DEF isAnswerValid, isAnswerRequired
<1>. QED  BY <1>2, <1>3

(* In email mode the server works out what the page shows, and in encrypt  *)
(* mode no more than that; what does not prevent the submission there does *)
(* not prevent it here.                                                    *)
LEMMA SeenByTheServer ==
  ASSUME form \in Forms, ValuesOK(sent.fieldValue)
  PROVE  /\ \A i \in fields : IsShown(ReceivedAnswers, i)
               => IsShown(sent.fieldValue, i)
         /\ form.responseMode = "email" =>
               \A i \in fields : IsShown(ReceivedAnswers, i)
                  <=> IsShown(sent.fieldValue, i)
         /\ ~IsPrevented(sent.fieldValue) => ~IsPrevented(ReceivedAnswers)
<1>1. ASSUME NEW j \in fields, form.form_fields[j].fieldType = "yes_no"
      PROVE  /\ ReceivedAnswers[j] \in {"", sent.fieldValue[j]}
             /\ form.responseMode = "email" /\ form.shownBy[j] = 0 =>
                   ReceivedAnswers[j] = sent.fieldValue[j]
  <2>1. ReceivedAnswers[j] = IF isReadable(j) THEN SentAnswer(j) ELSE ""
    BY DEF ReceivedAnswers
  <2>2. ClearedValue(j, sent.fieldValue[j]) = ""
    BY <1>1, EmptyOf DEF ClearedValue
  <2>3. /\ SentAnswer(j) \in {"", sent.fieldValue[j]}
        /\ form.shownBy[j] = 0 => SentAnswer(j) = sent.fieldValue[j]
    BY <1>1, <2>2, AnswerOf DEF SentAnswer, IsShown
  <2>. QED  BY <2>1, <2>3 DEF isReadable
<1>2. ASSUME NEW i \in fields, form.shownBy[i] # 0
      PROVE  /\ form.shownBy[i] \in fields
             /\ form.form_fields[form.shownBy[i]].fieldType = "yes_no"
             /\ form.shownBy[form.shownBy[i]] = 0
  BY <1>2, FieldFacts
<1>3. ASSUME NEW i \in fields
      PROVE  /\ IsShown(ReceivedAnswers, i) => IsShown(sent.fieldValue, i)
             /\ form.responseMode = "email" =>
                   (IsShown(ReceivedAnswers, i) <=> IsShown(sent.fieldValue, i))
  <2>1. CASE form.shownBy[i] = 0
    BY <2>1 DEF IsShown
  <2>2. CASE form.shownBy[i] # 0
    <3>1. PICK j \in fields : j = form.shownBy[i]
      BY <1>2, <2>2
    <3>2. /\ ReceivedAnswers[j] \in {"", sent.fieldValue[j]}
          /\ form.responseMode = "email" =>
                ReceivedAnswers[j] = sent.fieldValue[j]
      BY <1>1, <1>2, <2>2, <3>1
    <3>. QED  BY <2>2, <3>1, <3>2 DEF IsShown
  <2>. QED  BY <2>1, <2>2
<1>4. ASSUME IsPrevented(ReceivedAnswers)
      PROVE  IsPrevented(sent.fieldValue)
  <2>1. PICK j : j = form.prevents /\ j # 0 /\ ReceivedAnswers[j] = "No"
    BY <1>4 DEF IsPrevented
  <2>2. j \in fields /\ form.form_fields[j].fieldType = "yes_no"
    BY <2>1, FieldFacts
  <2>3. ReceivedAnswers[j] \in {"", sent.fieldValue[j]}
    BY <1>1, <2>2
  <2>. QED  BY <2>1, <2>3 DEF IsPrevented
<1>. QED  BY <1>3, <1>4

(* The files that are there have been looked into, and fit.                *)
LEMMA FilesPass ==
  ASSUME form \in Forms, FilesOK(sent.file)
  PROVE  /\ attachmentsAreValid
         /\ form.responseMode = "email" => ~areAttachmentsMoreThan7MB
<1>1. \A i \in fields : fieldHasAttachment(i) => FileOK(i, sent.file[i])
  BY DEF FilesOK, fieldHasAttachment
<1>2. attachmentsAreValid
  BY <1>1 DEF attachmentsAreValid, Attachments, FileOK, PickedOK
<1>3. ASSUME form.responseMode = "email"
      PROVE  ~areAttachmentsMoreThan7MB
  <2>. DEFINE a == [i \in fields |-> IF fieldHasAttachment(i)
                                     THEN sent.file[i].size ELSE 0]
              b == [i \in fields |-> AllowedSize(form.form_fields[i])]
  <2>1. PICK n \in Nat : fields = 1 .. n
    BY FieldFacts
  <2>2. ASSUME NEW i \in fields
        PROVE  a[i] \in Nat /\ b[i] \in Nat /\ a[i] <= b[i]
    <3>1. IsFillable(form.form_fields[i])
      BY FieldFacts
    <3>2. IsAttachment(i) => Halves(form.form_fields[i].attachmentSize) \in Nat
      BY <3>1, LimitsOfFields DEF IsAttachment
    <3>3. b[i] = IF IsAttachment(i)
                 THEN Halves(form.form_fields[i].attachmentSize) ELSE 0
      BY DEF AllowedSize, IsAttachment
    <3>4. CASE fieldHasAttachment(i)
      <4>1. /\ sent.file[i] \in Files /\ IsAttachment(i)
            /\ sent.file[i].size
                  <= Halves(form.form_fields[i].attachmentSize)
        BY <1>1, <3>4 DEF FileOK, PickedOK
      <4>2. sent.file[i].size \in Nat
        BY <4>1, AnswersAssumption
      <4>. QED  BY <3>2, <3>3, <3>4, <4>1, <4>2
    <3>5. CASE ~fieldHasAttachment(i)
      <4>1. a[i] = 0
        BY <3>5
      <4>2. b[i] \in Nat
        BY <3>2, <3>3
      <4>. QED
        <5>. HIDE DEF a, b
        <5>. QED  BY <4>1, <4>2
    <3>. QED  BY <3>4, <3>5
  <2>3. a \in Seq(Nat) /\ b \in Seq(Nat) /\ Len(a) = n /\ Len(b) = n
    <3>1. a \in [1 .. n -> Nat] /\ b \in [1 .. n -> Nat]
      <4>1. DOMAIN a = 1 .. n /\ DOMAIN b = 1 .. n
            /\ a = [i \in 1 .. n |-> a[i]] /\ b = [i \in 1 .. n |-> b[i]]
        BY <2>1
      <4>. HIDE DEF a, b
      <4>. QED  BY <2>1, <2>2, <4>1
    <3>. HIDE DEF a, b
    <3>. QED  BY <3>1
  <2>4. \A i \in 1 .. n : a[i] <= b[i]
    BY <2>1, <2>2
  <2>5. SumOf(a) \in Nat /\ SumOf(b) \in Nat /\ SumOf(a) <= SumOf(b)
    <3>. HIDE DEF a, b
    <3>. QED  BY <2>3, <2>4, SumOfSmaller
  <2>6. SumOf(b) <= Halves(7)
    BY <1>3, FormsAssumption DEF IsForm, fields
  <2>7. SumOf(a) <= Halves(7)
    <3>. HIDE DEF a, b
    <3>1. Halves(7) = 14
      BY DEF Halves
    <3>. QED  BY <2>5, <2>6, <3>1
  <2>8. areAttachmentsMoreThan7MB <=> SumOf(a) > Halves(7)
    BY DEF areAttachmentsMoreThan7MB
  <2>. QED
    <3>. HIDE DEF a, b
    <3>1. Halves(7) = 14
      BY DEF Halves
    <3>. QED  BY <2>5, <2>7, <2>8, <3>1
<1>. QED  BY <1>2, <1>3

(* KnownToDiffer, when a verdict is given on the day.                      *)
Differs(i, day) ==
    LET field == form.form_fields[i]
        value == sent.fieldValue[i]
    IN  CASE field.fieldType = "attachment" ->
                \/ i \in inDoubt
                \/ /\ sent.file[i] # None
                   /\ sent.file[i].size = Halves(field.attachmentSize)
          [] field.fieldType = "decimal" -> value # None /\ value.exponent
          [] field.fieldType = "date" ->
                /\ field.selectedDateValidation = "Disallow past dates"
                /\ opened[i] < day
          [] OTHER -> FALSE

(* A file that the respondent waited for is what is sent of its field.     *)
LEMMA SentAsDisplayed ==
  ASSUME form \in Forms, uiState # "DEFAULT", SettledInv, SentInv,
         FilesOK(attached), NEW i \in fields \ inDoubt
  PROVE  /\ sent.file[i] = shown.attached[i]
         /\ IsAttachment(i) =>
               /\ sent.fieldValue[i] = IF sent.file[i] = None THEN ""
                                       ELSE sent.file[i].name
               /\ i \in Attachments <=> sent.file[i] # None
         /\ ~IsAttachment(i) => sent.file[i] = None /\ i \notin Attachments
<1>1. Settled(i)
  BY DEF SettledInv, UnderWay
<1>2. /\ fieldValue[i] = sent.fieldValue[i]
      /\ file[i] = sent.file[i]
      /\ attached[i] = shown.attached[i]
  BY DEF SentInv
<1>3. /\ file[i] = attached[i]
      /\ IsAttachment(i) =>
            fieldValue[i] = IF attached[i] = None THEN "" ELSE attached[i].name
  BY <1>1 DEF Settled
<1>4. attached[i] # None => attached[i] \in Files /\ IsAttachment(i)
  BY DEF FilesOK, FileOK, PickedOK
<1>5. attached[i] # None => attached[i].name # ""
  BY <1>4, FormsAssumption
<1>. QED  BY <1>2, <1>3, <1>4, <1>5 DEF Attachments, fieldHasAttachment

LEMMA FileTaken ==
  ASSUME PageInv, SettledInv, SentInv, uiState # "DEFAULT",
         shown.valid, NEW i \in fields, IsAttachment(i), ~Differs(i, today),
         NEW tmin, NEW tmax
  PROVE  isResponseValid(i, tmin, tmax)
<1>. DEFINE field == form.form_fields[i]
            f == sent.file[i]
<1>1. form \in Forms /\ FilesOK(attached) /\ FilesOK(sent.file)
  BY DEF PageInv, SentInv
<1>2. field.fieldType = "attachment" /\ i \notin inDoubt
      /\ (f # None => f.size # Halves(field.attachmentSize))
  BY DEF Differs, IsAttachment
<1>3. /\ f = shown.attached[i]
      /\ sent.fieldValue[i] = IF f = None THEN "" ELSE f.name
      /\ i \in Attachments <=> f # None
  BY <1>1, <1>2, SentAsDisplayed
<1>4. EmptyValue(field) = ""
  BY <1>2, EmptyOf
<1>5. CASE f = None
  <2>1. ParsedAnswer(i) = ""
    BY <1>2, <1>3, <1>4, <1>5, AnswerOf DEF ParsedAnswer, SentAnswer, ClearedValue
  <2>2. isValueEmpty(field, ParsedAnswer(i))
    BY <1>2, <1>4, <2>1, EmptyAnswerOf
  <2>3. ~isAnswerRequired(field, IsShown(ReceivedAnswers, i))
    <3>1. CASE IsShown(ReceivedAnswers, i)
      <4>1. IsShown(sent.fieldValue, i)
        BY <1>1, <3>1, SeenByTheServer DEF SentInv
      <4>2. PageValid(field, "", None, opened[i])
        BY <1>3, <1>5, <4>1 DEF SentInv
      <4>3. NothingChosen(field, "")
        BY <1>2, <1>4, NothingOf
      <4>4. ~field.required
        BY <1>2, <4>2, <4>3, PageOf
      <4>. QED  BY <1>2, <4>4 DEF isAnswerRequired
    <3>2. CASE ~IsShown(ReceivedAnswers, i)
      BY <3>2 DEF isAnswerRequired
    <3>. QED  BY <3>1, <3>2
  <2>. QED  BY <2>2, <2>3 DEF isResponseValid, isAnswerValid
<1>6. CASE f # None
  <2>1. FileOK(i, f)
    BY <1>1, <1>6 DEF FilesOK
  <2>2. f \in Files /\ f.size <= Halves(field.attachmentSize)
    BY <2>1 DEF FileOK, PickedOK
  <2>3. f.size \in Nat /\ f.name # "" /\ Halves(field.attachmentSize) \in Nat
    <3>1. IsFillable(field)
      BY <1>1, FieldFacts
    <3>2. Halves(field.attachmentSize) \in Nat
      BY <1>2, <3>1, LimitsOfFields
    <3>. QED  BY <2>2, <3>2, AnswersAssumption, FormsAssumption
  <2>4. f.size < Halves(field.attachmentSize)
    <3>1. PICK s, m : s = f.size /\ m = Halves(field.attachmentSize)
      OBVIOUS
    <3>2. s \in Nat /\ m \in Nat /\ s <= m /\ s # m
      BY <1>2, <1>6, <2>2, <2>3, <3>1
    <3>3. s < m
      BY <3>2
    <3>. QED  BY <3>1, <3>3
  <2>5. isSizeValid(field, f)
    BY <1>6, <2>4 DEF isSizeValid
  <2>6. ParsedAnswer(i) = f.name /\ ~isValueEmpty(field, f.name)
    BY <1>2, <1>3, <1>4, <1>6, <2>3, EmptyAnswerOf DEF ParsedAnswer
  <2>7. \A isVis : isFilledAnswerValid(field, f.name, f, isVis, tmin, tmax)
    BY <1>2, <2>5 DEF isFilledAnswerValid
  <2>. QED  BY <1>3, <1>6, <2>6, <2>7 DEF isResponseValid, isAnswerValid
<1>. QED  BY <1>5, <1>6

LEMMA AnswerTaken ==
  ASSUME PageInv, SentInv, uiState # "DEFAULT",
         shown.valid, NEW i \in fields, ~IsAttachment(i), ~Differs(i, today),
         isReadable(i),
         NEW tmin \in {today - 1, today}, NEW tmax \in {today, today + 1}
  PROVE  isResponseValid(i, tmin, tmax)
<1>. DEFINE field == form.form_fields[i]
            value == sent.fieldValue[i]
<1>1. form \in Forms /\ ValuesOK(sent.fieldValue) /\ today \in Nat
      /\ opened[i] \in 0 .. today
  BY DEF PageInv, SentInv
<1>2. IsFillable(field) /\ ValueOK(field, value) /\ field.fieldType # "attachment"
  BY <1>1, FieldFacts DEF ValuesOK, IsAttachment
<1>3. i \notin Attachments
  BY DEF Attachments, fieldHasAttachment
<1>4. /\ isResponseValid(i, tmin, tmax)
            <=> isAnswerValid(field, SentAnswer(i), None,
                              IsShown(ReceivedAnswers, i), tmin, tmax)
  BY <1>3 DEF isResponseValid, ParsedAnswer
<1>5. CASE IsShown(sent.fieldValue, i)
  <2>1. SentAnswer(i) = Answer(field, value)
    BY <1>5 DEF SentAnswer
  <2>2. PageValid(field, value, shown.attached[i], opened[i])
    BY <1>5 DEF SentInv
  <2>3. field.fieldType = "decimal" => value = None \/ ~value.exponent
    BY DEF Differs
  <2>4. /\ field.fieldType = "date"
        /\ field.selectedDateValidation = "Disallow past dates"
        => ~(opened[i] < today)
    BY DEF Differs
  <2>5. PICK day, now_ : day = opened[i] /\ now_ = today
    OBVIOUS
  <2>6. /\ day \in Int /\ tmin \in Int /\ tmax \in Int /\ day <= tmax
        /\ ~(day < now_) => tmin <= day
    <3>1. /\ day \in 0 .. now_ /\ now_ \in Nat
          /\ tmin \in {now_ - 1, now_} /\ tmax \in {now_, now_ + 1}
      BY <1>1, <2>5
    <3>. QED  BY <3>1
  <2>7. /\ field.fieldType = "date"
        /\ field.selectedDateValidation = "Disallow past dates"
        => tmin <= day
    BY <2>4, <2>5, <2>6
  <2>8. \A isVis : isAnswerValid(field, Answer(field, value), None, isVis,
                                 tmin, tmax)
    BY <1>2, <2>2, <2>3, <2>5, <2>6, <2>7, PageAccepts
  <2>. QED  BY <1>4, <2>1, <2>8
<1>6. CASE ~IsShown(sent.fieldValue, i)
  <2>1. SentAnswer(i) = Answer(field, ClearedValue(i, value))
    BY <1>6 DEF SentAnswer
  <2>2. IsShown(ReceivedAnswers, i) = FALSE
    <3>1. ~IsShown(ReceivedAnswers, i)
      BY <1>1, <1>6, SeenByTheServer
    <3>. QED  BY <3>1 DEF IsShown
  <2>3. isAnswerValid(field, Answer(field, ClearedValue(i, value)), None, FALSE,
                      tmin, tmax)
    BY <1>1, <1>2, HiddenAccepted
  <2>. QED  BY <1>4, <2>1, <2>2, <2>3
<1>. QED  BY <1>5, <1>6

LEMMA StatusAsDisplayed ==
  ASSUME PageInv, SettledInv, SentInv, uiState # "DEFAULT",
         shown.valid, \A i \in fields : ~Differs(i, today),
         NEW isAuthenticated,
         NEW tmin \in {today - 1, today}, NEW tmax \in {today, today + 1}
  PROVE  Status(isAuthenticated, tmin, tmax) \in {"OK"} \cup AccessRefusals
<1>1. /\ form \in Forms /\ FilesOK(sent.file) /\ ValuesOK(sent.fieldValue)
      /\ ~IsPrevented(sent.fieldValue)
  BY DEF PageInv, SentInv
<1>2. /\ attachmentsAreValid
      /\ form.responseMode = "email" => ~areAttachmentsMoreThan7MB
  BY <1>1, FilesPass
<1>3. ~IsPrevented(ReceivedAnswers)
  BY <1>1, SeenByTheServer
<1>4. \A i \in fields : isReadable(i) => isResponseValid(i, tmin, tmax)
  BY FileTaken, AnswerTaken
<1>. QED  BY <1>2, <1>3, <1>4 DEF Status, AccessRefusals

-----------------------------------------------------------------------------
(* The names of the attachments *)

LEMMA LaterCounted ==
  ASSUME NEW n \in Nat, NEW D, D \subseteq 1 .. n, NEW S, S \subseteq D,
         S # {}
  PROVE  IsFiniteSet(S) /\ Cardinality(S) \in 1 .. n
<1>1. IsFiniteSet(1 .. n) /\ Cardinality(1 .. n) = n
  BY FS_Interval
<1>2. S \subseteq 1 .. n
  OBVIOUS
<1>3. IsFiniteSet(S) /\ Cardinality(S) <= Cardinality(1 .. n)
  BY <1>1, <1>2, FS_Subset
<1>4. Cardinality(S) \in Nat /\ Cardinality(S) # 0
  BY <1>3, FS_CardinalityType, FS_EmptySet
<1>5. PICK c : c = Cardinality(S)
  OBVIOUS
<1>6. c \in Nat /\ c # 0 /\ c <= n
  BY <1>1, <1>3, <1>4, <1>5
<1>7. c \in 1 .. n
  BY <1>6
<1>. QED  BY <1>3, <1>5, <1>7

(* Two attachments of one name, or one called as the other is renamed.     *)
LEMMA NamesOfTwo ==
  ASSUME form \in Forms, FilesOK(sent.file),
         NEW a \in Attachments, NEW b \in Attachments, a < b,
         Filenames[a] = Filenames[b]
  PROVE  \E f \in {a, b}, g \in {a, b}, n \in 1 .. Cardinality(fields) :
             sent.file[f].name = Numbered(n, sent.file[g].name)
<1>. DEFINE names == [i \in Attachments |-> sent.file[i].name]
            Later(k) == {j \in Attachments :
                            j > k /\ sent.file[j].name = sent.file[k].name}
<1>1. PICK n \in Nat : fields = 1 .. n
  BY FieldFacts
<1>2. Attachments \subseteq 1 .. n
  BY <1>1 DEF Attachments
<1>3. Cardinality(fields) = n
  <2>1. Cardinality(1 .. n) = IF 1 > n THEN 0 ELSE n - 1 + 1
    BY <1>1, FS_Interval
  <2>. QED  BY <1>1, <2>1
<1>4. ASSUME NEW k \in Attachments
      PROVE  Filenames[k] = IF Later(k) = {} THEN sent.file[k].name
                            ELSE Numbered(Cardinality(Later(k)),
                                          sent.file[k].name)
  <2>1. DOMAIN names = Attachments /\ \A j \in Attachments :
           names[j] = sent.file[j].name
    OBVIOUS
  <2>2. Filenames = handleDuplicatesInAttachments(names)
    BY DEF Filenames
  <2>3. {j \in DOMAIN names : j > k /\ names[j] = names[k]} = Later(k)
    BY <2>1
  <2>. QED  BY <2>1, <2>2, <2>3 DEF handleDuplicatesInAttachments
<1>5. \A k \in Attachments : Later(k) # {} =>
         IsFiniteSet(Later(k)) /\ Cardinality(Later(k)) \in 1 .. n
  <2>1. ASSUME NEW k \in Attachments, NEW S, S = Later(k), S # {}
        PROVE  IsFiniteSet(S) /\ Cardinality(S) \in 1 .. n
    <3>1. S \subseteq Attachments
      BY <2>1
    <3>. HIDE DEF Later
    <3>. QED  BY <1>1, <1>2, <2>1, <3>1, LaterCounted
  <2>. QED  BY <2>1
<1>6. \A k \in Attachments : sent.file[k] \in Files
  BY DEF Attachments, fieldHasAttachment, FilesOK, FileOK, PickedOK
<1>7. CASE Later(a) = {} /\ Later(b) = {}
  <2>1. sent.file[a].name = sent.file[b].name
    <3>. HIDE DEF Later
    <3>. QED  BY <1>4, <1>7
  <2>2. b \in Later(a)
    BY <1>2, <2>1
  <2>. QED  BY <1>7, <2>2
<1>8. CASE Later(a) = {} /\ Later(b) # {}
  <2>. HIDE DEF Later
  <2>. QED  BY <1>3, <1>4, <1>5, <1>8
<1>9. CASE Later(a) # {} /\ Later(b) = {}
  <2>. HIDE DEF Later
  <2>. QED  BY <1>3, <1>4, <1>5, <1>9
<1>10. CASE Later(a) # {} /\ Later(b) # {}
  <2>1. PICK c, d : c = Cardinality(Later(a)) /\ d = Cardinality(Later(b))
    OBVIOUS
  <2>2. /\ c \in 1 .. n /\ d \in 1 .. n /\ IsFiniteSet(Later(a))
        /\ Numbered(c, sent.file[a].name) = Numbered(d, sent.file[b].name)
    <3>. HIDE DEF Later
    <3>. QED  BY <1>4, <1>5, <1>10, <2>1
  <2>3. c = d /\ sent.file[a].name = sent.file[b].name
    <3>1. c \in DOMAIN form.form_fields /\ d \in DOMAIN form.form_fields
      BY <1>1, <2>2 DEF fields
    <3>2. \A f, g \in Files, m, k \in DOMAIN form.form_fields :
             Numbered(m, f.name) = Numbered(k, g.name)
                 => m = k /\ f.name = g.name
      BY FormsAssumption
    <3>. HIDE DEF Later, names
    <3>. QED  BY <1>6, <2>2, <3>1, <3>2
  <2>4. Later(b) \subseteq Later(a) /\ b \in Later(a) /\ b \notin Later(b)
    <3>1. a \in Int /\ b \in Int /\ \A j \in Attachments : j \in Int
      BY <1>2
    <3>2. \A j \in Attachments : j > b => j > a
      BY <3>1
    <3>3. Later(b) \subseteq Later(a)
      BY <2>3, <3>2
    <3>4. b \in Later(a)
      BY <2>3
    <3>5. b \notin Later(b)
      BY <3>1
    <3>. QED  BY <3>3, <3>4, <3>5
  <2>5. Cardinality(Later(b)) <= Cardinality(Later(a)) /\ Later(b) # Later(a)
        /\ (Cardinality(Later(a)) = Cardinality(Later(b))
               => Later(a) = Later(b))
    <3>1. PICK S, T : S = Later(a) /\ T = Later(b)
      OBVIOUS
    <3>2. IsFiniteSet(S) /\ T \in SUBSET S /\ S # T
      <4>. HIDE DEF Later
      <4>. QED  BY <2>2, <2>4, <3>1
    <3>3. Cardinality(T) <= Cardinality(S)
          /\ (Cardinality(S) = Cardinality(T) => S = T)
      BY <3>2, FS_Subset
    <3>. HIDE DEF Later
    <3>. QED  BY <3>1, <3>2, <3>3
  <2>. HIDE DEF Later
  <2>. QED  BY <2>1, <2>3, <2>5
<1>. QED  BY <1>7, <1>8, <1>9, <1>10

LEMMA NamesDistinct ==
  ASSUME form \in Forms, FilesOK(sent.file),
         verdict.files = [i \in fields |-> IF i \in Attachments
                                           THEN sent.file[i] ELSE None],
         verdict.filenames = Filenames
  PROVE  FilenamesDistinct
<1>. SUFFICES ASSUME ~IsInjective(Filenames)
              PROVE  \E f, g \in ToSet(verdict.files) \ {None},
                        n \in 1 .. Cardinality(fields) :
                         f.name = Numbered(n, g.name)
  BY DEF FilenamesDistinct
<1>1. DOMAIN Filenames = Attachments
  BY DEF Filenames, handleDuplicatesInAttachments
<1>2. PICK a \in Attachments, b \in Attachments :
         a # b /\ Filenames[a] = Filenames[b]
  BY <1>1 DEF IsInjective
<1>3. a \in Nat /\ b \in Nat
  <2>1. PICK n \in Nat : fields = 1 .. n
    BY FieldFacts
  <2>. QED  BY <2>1 DEF Attachments
<1>4. \E f \in {a, b}, g \in {a, b}, n \in 1 .. Cardinality(fields) :
         sent.file[f].name = Numbered(n, sent.file[g].name)
  <2>1. CASE a < b
    BY <1>2, <2>1, NamesOfTwo
  <2>2. CASE b < a
    BY <1>2, <2>2, NamesOfTwo
  <2>3. a < b \/ b < a
    BY <1>2, <1>3
  <2>. QED  BY <2>1, <2>2, <2>3
<1>5. PICK k \in {a, b}, m \in {a, b}, n \in 1 .. Cardinality(fields) :
         sent.file[k].name = Numbered(n, sent.file[m].name)
  BY <1>4
<1>6. \A i \in Attachments : sent.file[i] \in ToSet(verdict.files) \ {None}
  <2>1. \A i \in Attachments : i \in fields /\ sent.file[i] # None
    BY DEF Attachments, fieldHasAttachment
  <2>. QED  BY <2>1 DEF ToSet
<1>. QED  BY <1>5, <1>6

-----------------------------------------------------------------------------
(* What the page does keeps its invariant *)

(* What is shown depends on the yes_no fields alone.                       *)
LEMMA SameShown ==
  ASSUME form \in Forms, NEW v, NEW w,
         \A j \in fields : form.form_fields[j].fieldType = "yes_no"
                              => v[j] = w[j]
  PROVE  \A i \in fields : IsShown(v, i) <=> IsShown(w, i)
<1>. SUFFICES ASSUME NEW i \in fields
              PROVE  IsShown(v, i) <=> IsShown(w, i)
  OBVIOUS
<1>1. form.shownBy[i] # 0 => v[form.shownBy[i]] = w[form.shownBy[i]]
  BY FieldFacts
<1>. QED  BY <1>1 DEF IsShown

LEMMA SameVisible ==
  ASSUME form \in Forms, form' = form,
         \A j \in fields : form.form_fields[j].fieldType = "yes_no"
                              => fieldValue'[j] = fieldValue[j]
  PROVE  \A i \in fields : isVisible(i)' <=> isVisible(i)
<1>1. \A i \in fields : IsShown(fieldValue', i) <=> IsShown(fieldValue, i)
  BY SameShown
<1>. QED  BY <1>1 DEF isVisible, IsShown

LEMMA Editing ==
  ASSUME FillingInv, uiState = "DEFAULT", UNCHANGED <<form, submissionVars>>,
         PageInv', SettledInv', HiddenInv'
  PROVE  FillingInv'
<1>1. verdict = None /\ verdict' = None /\ uiState' = "DEFAULT"
      /\ captcha' = captcha
  BY DEF FillingInv, StateInv, submissionVars
<1>2. SentInv' /\ VerdictInv'
  BY <1>1 DEF SentInv, VerdictInv, Judged
<1>3. StateInv'
  BY <1>1 DEF FillingInv, StateInv
<1>. QED  BY <1>2, <1>3 DEF FillingInv

(* A page that is made anew.                                               *)
Fresh(values) ==
    /\ ValuesOK(values)
    /\ \A i \in fields : ~IsMyInfo(i) =>
          values[i] = EmptyValue(form.form_fields[i])

LEMMA NewPage ==
  ASSUME form \in Forms, NEW values, Fresh(values), NEW locked, today \in Nat,
         Start(values, locked)
  PROVE  FillingInv'
<1>1. /\ form' = form /\ today' = today /\ fieldValue' = values
      /\ file' = [i \in fields |-> None]
      /\ attached' = [i \in fields |-> None]
      /\ tasks' = [i \in fields |-> {}]
      /\ opened' = [i \in fields |-> today]
      /\ uiState' = "DEFAULT" /\ captcha' = "none" /\ verdict' = None
  BY DEF Start
<1>2. fields' = fields
  BY <1>1 DEF fields
<1>3. PageInv'
  <2>1. ValuesOK(fieldValue)'
    BY <1>1, <1>2 DEF Fresh, ValuesOK
  <2>2. FilesOK(file)' /\ FilesOK(attached)'
    BY <1>1, <1>2 DEF FilesOK
  <2>3. DOMAIN opened' = fields /\ \A i \in fields : opened'[i] \in 0 .. today'
    <3>1. today \in 0 .. today
      OBVIOUS
    <3>. QED  BY <1>1, <3>1
  <2>. QED  BY <1>1, <1>2, <2>1, <2>2, <2>3 DEF PageInv
<1>4. ASSUME NEW i \in fields
      PROVE  Settled(i)'
  <2>1. IsAttachment(i)' => ~IsMyInfo(i) /\ IsAttachment(i)
    BY <1>1, FieldFacts DEF IsAttachment, MyInfoTypes
  <2>2. IsAttachment(i) => EmptyValue(form.form_fields[i]) = ""
    BY EmptyOf DEF IsAttachment
  <2>. QED  BY <1>1, <2>1, <2>2 DEF Settled, Fresh
<1>5. ASSUME NEW i \in fields, ~IsMyInfo(i)
      PROVE  ClearedValue(i, fieldValue[i])' = fieldValue'[i] /\ file'[i] = None
  <2>1. fieldValue'[i] = EmptyValue(form.form_fields[i])
    BY <1>1, <1>5 DEF Fresh
  <2>2. ClearedValue(i, fieldValue[i])' = ClearedValue(i, fieldValue'[i])
    BY <1>1 DEF ClearedValue
  <2>. QED  BY <1>1, <2>1, <2>2, EmptyIsCleared
<1>6. SettledInv'
  BY <1>2, <1>4 DEF SettledInv
<1>7. HiddenInv'
  BY <1>1, <1>2, <1>5 DEF HiddenInv, IsMyInfo
<1>8. SentInv' /\ StateInv' /\ VerdictInv'
  BY <1>1 DEF SentInv, StateInv, VerdictInv, Judged
<1>. QED  BY <1>3, <1>6, <1>7, <1>8 DEF FillingInv

LEMMA BlankIsFresh ==
  ASSUME form \in Forms
  PROVE  Fresh(Blank(form))
<1>1. DOMAIN Blank(form) = fields
      /\ \A i \in fields : Blank(form)[i] = EmptyValue(form.form_fields[i])
  BY DEF Blank, fields
<1>2. \A i \in fields : ValueOK(form.form_fields[i], Blank(form)[i])
  BY <1>1, FieldFacts, EmptyOK
<1>. QED  BY <1>1, <1>2 DEF Fresh, ValuesOK

LEMMA FirstPage ==
  ASSUME PageInit
  PROVE  FillingInv
<1>1. /\ form \in Forms /\ fieldValue = Blank(form)
      /\ file = [i \in fields |-> None]
      /\ attached = [i \in fields |-> None]
      /\ tasks = [i \in fields |-> {}]
      /\ opened = [i \in fields |-> 0] /\ today = 0
      /\ uiState = "DEFAULT" /\ captcha = "none" /\ verdict = None
  BY DEF PageInit
<1>2. Fresh(fieldValue)
  BY <1>1, BlankIsFresh
<1>3. PageInv
  <2>1. ValuesOK(fieldValue)
    BY <1>2 DEF Fresh
  <2>2. FilesOK(file) /\ FilesOK(attached)
    BY <1>1 DEF FilesOK
  <2>. QED  BY <1>1, <2>1, <2>2 DEF PageInv
<1>4. ASSUME NEW i \in fields
      PROVE  Settled(i)
  <2>1. IsAttachment(i) => ~IsMyInfo(i)
    BY <1>1, FieldFacts DEF IsAttachment, MyInfoTypes
  <2>2. IsAttachment(i) => EmptyValue(form.form_fields[i]) = ""
    BY EmptyOf DEF IsAttachment
  <2>. QED  BY <1>1, <1>2, <2>1, <2>2 DEF Settled, Fresh
<1>5. ASSUME NEW i \in fields, ~IsMyInfo(i)
      PROVE  ClearedValue(i, fieldValue[i]) = fieldValue[i] /\ file[i] = None
  BY <1>1, <1>2, <1>5, EmptyIsCleared DEF Fresh
<1>. QED  BY <1>1, <1>3, <1>4, <1>5
          DEF FillingInv, SettledInv, HiddenInv, SentInv, StateInv, VerdictInv,
             Judged

(* advanceLogic, field by field.                                           *)
LEMMA AdvanceAt ==
  ASSUME NEW values, AdvanceLogic(values), NEW i \in fields
  PROVE  /\ Hides(values, i) =>
               /\ fieldValue'[i] = Cleared(i, values[i]).fieldValue
               /\ file'[i] = None /\ attached'[i] = None
               /\ tasks'[i] = {[t EXCEPT !.live = FALSE] : t \in tasks[i]}
               /\ opened'[i] = opened[i]
               /\ tasks[i] # {} => i \in inDoubt'
         /\ Shows(values, i) =>
               /\ fieldValue'[i] = Rendered(i, values[i])
               /\ file'[i] = file[i] /\ attached'[i] = None
               /\ tasks'[i] = tasks[i] /\ opened'[i] = today
         /\ ~Hides(values, i) /\ ~Shows(values, i) =>
               /\ fieldValue'[i] = values[i] /\ file'[i] = file[i]
               /\ attached'[i] = attached[i] /\ tasks'[i] = tasks[i]
               /\ opened'[i] = opened[i]
         /\ inDoubt \subseteq inDoubt'
         /\ DOMAIN fieldValue' = fields /\ DOMAIN file' = fields
         /\ DOMAIN attached' = fields /\ DOMAIN tasks' = fields
         /\ DOMAIN opened' = fields
<1>1. ~(Hides(values, i) /\ Shows(values, i))
  BY DEF Hides, Shows
<1>2. Cleared(i, values[i]).file = None
  BY DEF Cleared
<1>3. /\ fieldValue' = [j \in fields |->
             CASE Hides(values, j) -> Cleared(j, values[j]).fieldValue
               [] Shows(values, j) -> Rendered(j, values[j])
               [] OTHER -> values[j]]
      /\ file' = [j \in fields |->
             IF Hides(values, j) THEN Cleared(j, values[j]).file ELSE file[j]]
      /\ attached' = [j \in fields |->
             IF Hides(values, j) \/ Shows(values, j) THEN None ELSE attached[j]]
      /\ tasks' = [j \in fields |->
             IF Hides(values, j) THEN {[t EXCEPT !.live = FALSE] : t \in tasks[j]}
                                 ELSE tasks[j]]
      /\ opened' = [j \in fields |->
             IF Shows(values, j) THEN today ELSE opened[j]]
      /\ inDoubt' = inDoubt
                      \cup {j \in fields : Hides(values, j) /\ tasks[j] # {}}
  BY DEF AdvanceLogic
<1>4. fieldValue'[i] = CASE Hides(values, i) -> Cleared(i, values[i]).fieldValue
                         [] Shows(values, i) -> Rendered(i, values[i])
                         [] OTHER -> values[i]
  BY <1>3
<1>5. /\ Hides(values, i) => fieldValue'[i] = Cleared(i, values[i]).fieldValue
      /\ Shows(values, i) => fieldValue'[i] = Rendered(i, values[i])
      /\ ~Hides(values, i) /\ ~Shows(values, i) => fieldValue'[i] = values[i]
  BY <1>1, <1>4
<1>. QED  BY <1>1, <1>2, <1>3, <1>5

LEMMA AdvanceShown ==
  ASSUME form \in Forms, form' = form, NEW values, AdvanceLogic(values)
  PROVE  \A i \in fields : isVisible(i)' <=> IsShown(values, i)
<1>1. ASSUME NEW j \in fields, form.shownBy[j] = 0
      PROVE  fieldValue'[j] = values[j]
  <2>1. ~Hides(values, j) /\ ~Shows(values, j)
    BY <1>1 DEF Hides, Shows, isVisible, IsShown
  <2>. QED  BY <2>1, AdvanceAt
<1>2. ASSUME NEW i \in fields
      PROVE  IsShown(fieldValue', i) <=> IsShown(values, i)
  <2>1. form.shownBy[i] # 0 =>
           fieldValue'[form.shownBy[i]] = values[form.shownBy[i]]
    BY <1>1, FieldFacts
  <2>. QED  BY <2>1 DEF IsShown
<1>. QED  BY <1>2 DEF isVisible, IsShown

LEMMA AdvancePage ==
  ASSUME PageInv, form' = form, today' = today,
         NEW values, ValuesOK(values), AdvanceLogic(values)
  PROVE  PageInv'
<1>1. form \in Forms /\ today \in Nat
  BY DEF PageInv
<1>2. fields' = fields
  BY DEF fields
<1>3. ValuesOK(fieldValue)'
  <2>1. ASSUME NEW i \in fields
        PROVE  ValueOK(form.form_fields[i], fieldValue'[i])
    <3>1. ValueOK(form.form_fields[i], values[i])
      BY DEF ValuesOK
    <3>2. CASE Hides(values, i)
      BY <1>1, <3>1, <3>2, AdvanceAt, ClearedOK DEF Cleared
    <3>3. CASE Shows(values, i)
      BY <1>1, <3>1, <3>3, AdvanceAt, RenderedOK
    <3>4. CASE ~Hides(values, i) /\ ~Shows(values, i)
      BY <3>1, <3>4, AdvanceAt
    <3>. QED  BY <3>2, <3>3, <3>4
  <2>2. DOMAIN fieldValue' = fields
    BY DEF AdvanceLogic
  <2>. QED  BY <1>2, <2>1, <2>2 DEF ValuesOK
<1>4. FilesOK(file)'
  <2>1. ASSUME NEW i \in fields, file'[i] # None
        PROVE  FileOK(i, file'[i])
    <3>1. file'[i] = file[i]
      BY <2>1, AdvanceAt
    <3>. QED  BY <2>1, <3>1 DEF PageInv, FilesOK
  <2>2. DOMAIN file' = fields
    BY DEF AdvanceLogic
  <2>. QED  BY <1>2, <2>1, <2>2
            DEF FilesOK, FileOK, PickedOK, IsAttachment
<1>5. FilesOK(attached)'
  <2>1. ASSUME NEW i \in fields, attached'[i] # None
        PROVE  FileOK(i, attached'[i])
    <3>1. attached'[i] = attached[i]
      BY <2>1, AdvanceAt
    <3>. QED  BY <2>1, <3>1 DEF PageInv, FilesOK
  <2>2. DOMAIN attached' = fields
    BY DEF AdvanceLogic
  <2>. QED  BY <1>2, <2>1, <2>2
            DEF FilesOK, FileOK, PickedOK, IsAttachment
<1>6. DOMAIN opened' = fields /\ \A i \in fields : opened'[i] \in 0 .. today
  <2>1. DOMAIN opened' = fields
    BY DEF AdvanceLogic
  <2>2. ASSUME NEW i \in fields
        PROVE  opened'[i] \in 0 .. today
    <3>1. opened'[i] \in {opened[i], today} /\ opened[i] \in 0 .. today
      BY AdvanceAt DEF PageInv
    <3>2. today \in 0 .. today
      BY <1>1
    <3>. QED  BY <3>1, <3>2
  <2>. QED  BY <2>1, <2>2
<1>7. ASSUME NEW i \in fields, NEW t \in tasks'[i]
      PROVE  /\ t \in Task
             /\ PickedOK(i, t.file)
             /\ t.step = "read" => FileOK(i, t.file)
  <2>1. \A s \in tasks[i] : /\ s \in Task
                            /\ PickedOK(i, s.file)
                            /\ s.step = "read" => FileOK(i, s.file)
    BY DEF PageInv
  <2>2. CASE Hides(values, i)
    <3>1. PICK s \in tasks[i] : t = [s EXCEPT !.live = FALSE]
      BY <1>7, <2>2, AdvanceAt
    <3>2. t \in Task /\ t.file = s.file /\ t.step = s.step
      BY <2>1, <3>1 DEF Task
    <3>. QED  BY <2>1, <3>2
  <2>3. CASE ~Hides(values, i)
    BY <1>7, <2>1, <2>3, AdvanceAt
  <2>. QED  BY <2>2, <2>3
<1>8. DOMAIN tasks' = fields
  BY DEF AdvanceLogic
<1>9. \A i \in fields' : \A t \in tasks'[i] :
         (/\ t \in Task
          /\ PickedOK(i, t.file)
          /\ t.step = "read" => FileOK(i, t.file))'
  BY <1>2, <1>7 DEF FileOK, PickedOK, IsAttachment, Task
<1>. QED  BY <1>1, <1>2, <1>3, <1>4, <1>5, <1>6, <1>8, <1>9 DEF PageInv

LEMMA AdvanceKeeps ==
  ASSUME FillingInv, uiState = "DEFAULT",
         UNCHANGED <<pageVars, today, submissionVars>>,
         NEW k \in fields, isVisible(k),
         form.form_fields[k].fieldType \notin {"table", "attachment"},
         NEW value, ValueOK(form.form_fields[k], value),
         NEW values, values = [fieldValue EXCEPT ![k] = value],
         AdvanceLogic(values)
  PROVE  FillingInv'
<1>1. /\ form \in Forms /\ form' = form /\ today' = today
      /\ uiState' = "DEFAULT"
      /\ PageInv /\ SettledInv /\ HiddenInv
  BY DEF FillingInv, PageInv, pageVars, submissionVars
<1>2. fields' = fields
  BY <1>1 DEF fields
<1>3. DOMAIN values = fields /\ values[k] = value
      /\ \A i \in fields \ {k} : values[i] = fieldValue[i]
  BY <1>1 DEF PageInv, ValuesOK
<1>4. ValuesOK(values)
  BY <1>1, <1>3 DEF PageInv, ValuesOK
<1>5. PageInv'
  BY <1>1, <1>4, AdvancePage
<1>6. \A i \in fields : isVisible(i)' <=> IsShown(values, i)
  BY <1>1, AdvanceShown
<1>7. ~IsAttachment(k)
  BY DEF IsAttachment
<1>8. \A i \in fields : IsAttachment(i)' <=> IsAttachment(i)
  BY <1>1 DEF IsAttachment
<1>9. ASSUME NEW i \in fields, IsAttachment(i)
      PROVE  /\ values[i] = fieldValue[i] /\ ~IsMyInfo(i)
             /\ form.form_fields[i].fieldType # "table"
             /\ \A v : ClearedValue(i, v) = ""
             /\ \A v : Rendered(i, v) = v
  <2>1. i # k
    BY <1>7, <1>9
  <2>2. ~IsMyInfo(i)
    BY <1>1, <1>9, FieldFacts DEF IsAttachment, MyInfoTypes
  <2>3. EmptyValue(form.form_fields[i]) = ""
    BY <1>9, EmptyOf DEF IsAttachment
  <2>. QED  BY <1>3, <1>9, <2>1, <2>2, <2>3
            DEF IsAttachment, ClearedValue, Rendered
<1>10. ASSUME NEW i \in fields \ inDoubt'
       PROVE  Settled(i)' \/ UnderWay(i)'
  <2>1. i \notin inDoubt /\ (Settled(i) \/ UnderWay(i))
    BY <1>1, AdvanceAt DEF SettledInv
  <2>2. Settled(i)' <=>
           /\ tasks'[i] = {}
           /\ file'[i] = attached'[i]
           /\ IsAttachment(i) =>
                 fieldValue'[i] = IF attached'[i] = None THEN ""
                                  ELSE attached'[i].name
    BY <1>8 DEF Settled
  <2>3. CASE Settled(i) /\ Hides(values, i)
    <3>1. /\ file'[i] = None /\ attached'[i] = None /\ tasks'[i] = {}
          /\ fieldValue'[i] = Cleared(i, values[i]).fieldValue
      BY <2>3, AdvanceAt DEF Settled
    <3>2. IsAttachment(i) => fieldValue'[i] = ""
      BY <1>9, <3>1 DEF Cleared
    <3>. QED  BY <2>2, <3>1, <3>2
  <2>4. CASE Settled(i) /\ Shows(values, i)
    <3>1. /\ file'[i] = file[i] /\ attached'[i] = None /\ tasks'[i] = {}
          /\ fieldValue'[i] = Rendered(i, values[i])
      BY <2>4, AdvanceAt DEF Settled
    <3>2. ~isVisible(i)
      BY <2>4 DEF Shows
    <3>3. IsAttachment(i) => file[i] = None /\ fieldValue[i] = ""
      BY <1>1, <1>9, <2>1, <3>2 DEF HiddenInv
    <3>4. ~IsAttachment(i) => file[i] = None
      BY <1>1 DEF PageInv, FilesOK, FileOK, PickedOK
    <3>5. IsAttachment(i) => fieldValue'[i] = ""
      BY <1>9, <3>1, <3>3
    <3>. QED  BY <2>2, <3>1, <3>3, <3>4, <3>5
  <2>5. CASE Settled(i) /\ ~Hides(values, i) /\ ~Shows(values, i)
    <3>1. /\ fieldValue'[i] = values[i] /\ file'[i] = file[i]
          /\ attached'[i] = attached[i] /\ tasks'[i] = tasks[i]
      BY <2>5, AdvanceAt
    <3>2. IsAttachment(i) => fieldValue'[i] = fieldValue[i]
      BY <1>9, <3>1
    <3>. QED  BY <2>2, <2>5, <3>1, <3>2 DEF Settled
  <2>6. CASE UnderWay(i)
    <3>1. isVisible(i) /\ tasks[i] # {}
      BY <2>6 DEF UnderWay
    <3>2. ~Hides(values, i) /\ ~Shows(values, i)
      BY <3>1, AdvanceAt DEF Shows
    <3>3. /\ fieldValue'[i] = values[i] /\ file'[i] = file[i]
          /\ attached'[i] = attached[i] /\ tasks'[i] = tasks[i]
      BY <3>2, AdvanceAt
    <3>4. isVisible(i)'
      BY <1>6, <3>1, <3>2 DEF Hides
    <3>5. PICK t \in tasks[i] : PickedOK(i, t.file)
      BY <1>1, <3>1 DEF PageInv
    <3>6. fieldValue'[i] = fieldValue[i]
      BY <1>9, <3>3, <3>5 DEF PickedOK
    <3>. QED  BY <1>1, <2>6, <3>3, <3>4, <3>6 DEF UnderWay
  <2>. QED  BY <2>1, <2>3, <2>4, <2>5, <2>6
<1>11. ASSUME NEW i \in fields \ inDoubt', ~IsMyInfo(i), ~isVisible(i)'
       PROVE  ClearedValue(i, fieldValue'[i]) = fieldValue'[i] /\ file'[i] = None
  <2>1. i \notin inDoubt /\ ~IsShown(values, i)
    BY <1>6, <1>11, AdvanceAt
  <2>2. CASE Hides(values, i)
    <3>1. ValueOK(form.form_fields[i], values[i])
      BY <1>4 DEF ValuesOK
    <3>2. fieldValue'[i] = ClearedValue(i, values[i]) /\ file'[i] = None
      BY <1>11, <2>2, AdvanceAt DEF Cleared
    <3>. QED  BY <1>1, <3>1, <3>2, ClearedOK
  <2>3. CASE ~Hides(values, i)
    <3>1. ~isVisible(i) /\ ~Shows(values, i)
      BY <2>1, <2>3 DEF Hides, Shows
    <3>2. i # k
      BY <3>1
    <3>4. fieldValue'[i] = values[i] /\ file'[i] = file[i]
      BY <2>3, <3>1, AdvanceAt
    <3>3. fieldValue'[i] = fieldValue[i] /\ file'[i] = file[i]
      BY <1>3, <3>2, <3>4
    <3>. QED  BY <1>1, <1>11, <2>1, <3>1, <3>3 DEF HiddenInv
  <2>. QED  BY <2>2, <2>3
<1>12. SettledInv'
  BY <1>2, <1>10 DEF SettledInv
<1>13. HiddenInv'
  <2>1. \A i \in fields : IsMyInfo(i)' <=> IsMyInfo(i)
    BY <1>1 DEF IsMyInfo
  <2>2. ASSUME NEW i \in fields \ inDoubt', ~IsMyInfo(i)', ~isVisible(i)'
        PROVE  ClearedValue(i, fieldValue[i])' = fieldValue'[i] /\ file'[i] = None
    <3>1. ClearedValue(i, fieldValue[i])' = ClearedValue(i, fieldValue'[i])
      BY <1>1 DEF ClearedValue
    <3>. QED  BY <1>11, <2>1, <2>2, <3>1
  <2>. QED  BY <1>2, <2>2 DEF HiddenInv
<1>14. form' = form /\ UNCHANGED submissionVars
  BY <1>1
<1>. QED  BY <1>5, <1>12, <1>13, <1>14, Editing

(* A verdict is about what was sent, and about no file that is in doubt.   *)
LEMMA VerdictKept ==
  ASSUME VerdictInv, UNCHANGED <<form, uiState, sent, shown, verdict, opened>>,
         inDoubt \subseteq inDoubt'
  PROVE  VerdictInv'
<1>. SUFFICES ASSUME Judged
              PROVE  VerdictInv'
  BY DEF VerdictInv, Judged
<1>1. fields' = fields
  BY DEF fields
<1>2. Attachments' = Attachments /\ Filenames' = Filenames
  BY DEF Attachments, Filenames, handleDuplicatesInAttachments,
         fieldHasAttachment, IsAttachment, fields
<1>3. AcceptedAsDisplayed'
  <2>1. \A i \in fields : KnownToDiffer(i) => KnownToDiffer(i)'
    BY DEF KnownToDiffer
  <2>. QED  BY <1>1, <2>1 DEF VerdictInv, AcceptedAsDisplayed, AccessRefusals
<1>. QED  BY <1>1, <1>2, <1>3 DEF VerdictInv

(* A step at one field that shows and hides no other.                      *)
LEMMA OneField ==
  ASSUME FillingInv, UNCHANGED <<form, opened, today, submissionVars>>,
         inDoubt \subseteq inDoubt',
         NEW k \in fields, form.form_fields[k].fieldType # "yes_no",
         /\ DOMAIN fieldValue' = fields /\ DOMAIN file' = fields
         /\ DOMAIN attached' = fields /\ DOMAIN tasks' = fields,
         \A i \in fields \ {k} :
             /\ fieldValue'[i] = fieldValue[i] /\ file'[i] = file[i]
             /\ attached'[i] = attached[i] /\ tasks'[i] = tasks[i],
         ValueOK(form.form_fields[k], fieldValue'[k]),
         file'[k] # None => FileOK(k, file'[k]),
         attached'[k] # None => FileOK(k, attached'[k]),
         \A t \in tasks'[k] :
             /\ t \in Task
             /\ PickedOK(k, t.file)
             /\ t.step = "read" => FileOK(k, t.file),
         k \notin inDoubt' => Settled(k)' \/ UnderWay(k)',
         k \notin inDoubt' => isVisible(k),
         uiState = "DEFAULT" \/ (IsAttachment(k) /\ k \in inDoubt')
  PROVE  FillingInv'
<1>1. /\ PageInv /\ SettledInv /\ HiddenInv /\ SentInv /\ StateInv /\ VerdictInv
      /\ form \in Forms /\ form' = form
      /\ uiState' = uiState /\ sent' = sent /\ shown' = shown
      /\ verdict' = verdict /\ savedForm' = savedForm /\ captcha' = captcha
  BY DEF FillingInv, PageInv, submissionVars
<1>2. fields' = fields
  BY <1>1 DEF fields
<1>3. \A i \in fields : /\ isVisible(i)' <=> isVisible(i)
                        /\ IsAttachment(i)' <=> IsAttachment(i)
                        /\ IsMyInfo(i)' <=> IsMyInfo(i)
  <2>1. \A j \in fields : form.form_fields[j].fieldType = "yes_no"
                             => fieldValue'[j] = fieldValue[j]
    OBVIOUS
  <2>2. \A i \in fields : isVisible(i)' <=> isVisible(i)
    BY <1>1, <2>1, SameVisible
  <2>. QED  BY <1>1, <2>2 DEF IsAttachment, IsMyInfo
<1>4. PageInv'
  <2>1. ValuesOK(fieldValue)'
    <3>1. \A i \in fields : ValueOK(form.form_fields[i], fieldValue'[i])
      BY <1>1 DEF PageInv, ValuesOK
    <3>. QED  BY <1>1, <1>2, <3>1 DEF ValuesOK
  <2>2. FilesOK(file)'
    <3>1. \A i \in fields : file'[i] # None => FileOK(i, file'[i])
      BY <1>1 DEF PageInv, FilesOK
    <3>. QED  BY <1>1, <1>2, <3>1 DEF FilesOK, FileOK, PickedOK, IsAttachment
  <2>3. FilesOK(attached)'
    <3>1. \A i \in fields : attached'[i] # None => FileOK(i, attached'[i])
      BY <1>1 DEF PageInv, FilesOK
    <3>. QED  BY <1>1, <1>2, <3>1 DEF FilesOK, FileOK, PickedOK, IsAttachment
  <2>4. \A i \in fields' : \A t \in tasks'[i] :
           (/\ t \in Task
            /\ PickedOK(i, t.file)
            /\ t.step = "read" => FileOK(i, t.file))'
    <3>1. \A i \in fields : \A t \in tasks'[i] :
             /\ t \in Task
             /\ PickedOK(i, t.file)
             /\ t.step = "read" => FileOK(i, t.file)
      BY <1>1 DEF PageInv
    <3>. QED  BY <1>1, <1>2, <3>1 DEF FileOK, PickedOK, IsAttachment, Task
  <2>. QED  BY <1>1, <1>2, <2>1, <2>2, <2>3, <2>4 DEF PageInv
<1>5. SettledInv'
  <2>1. ASSUME NEW i \in fields \ inDoubt', i # k
        PROVE  Settled(i)' \/ UnderWay(i)'
    <3>1. Settled(i) \/ UnderWay(i)
      BY <1>1 DEF SettledInv
    <3>2. /\ fieldValue'[i] = fieldValue[i] /\ file'[i] = file[i]
          /\ attached'[i] = attached[i] /\ tasks'[i] = tasks[i]
      BY <2>1
    <3>3. Settled(i) => Settled(i)'
      BY <1>3, <3>2 DEF Settled
    <3>4. UnderWay(i) => UnderWay(i)'
      BY <1>1, <1>3, <3>2 DEF UnderWay
    <3>. QED  BY <3>1, <3>3, <3>4
  <2>. QED  BY <1>2, <2>1 DEF SettledInv
<1>6. HiddenInv'
  <2>1. ASSUME NEW i \in fields \ inDoubt', ~IsMyInfo(i)', ~isVisible(i)'
        PROVE  ClearedValue(i, fieldValue[i])' = fieldValue'[i] /\ file'[i] = None
    <3>1. i # k /\ ~isVisible(i) /\ ~IsMyInfo(i) /\ i \notin inDoubt
      BY <1>3, <2>1
    <3>2. fieldValue'[i] = fieldValue[i] /\ file'[i] = file[i]
      BY <3>1
    <3>3. ClearedValue(i, fieldValue[i])' = ClearedValue(i, fieldValue'[i])
      BY <1>1 DEF ClearedValue
    <3>. QED  BY <1>1, <3>1, <3>2, <3>3 DEF HiddenInv
  <2>. QED  BY <1>2, <2>1 DEF HiddenInv
<1>7. SentInv'
  <2>. SUFFICES ASSUME uiState # "DEFAULT"
                PROVE  SentInv'
    BY <1>1 DEF SentInv
  <2>1. IsAttachment(k) /\ k \in inDoubt'
    OBVIOUS
  <2>2. /\ savedForm = sent
        /\ ValuesOK(sent.fieldValue)
        /\ FilesOK(sent.file)
        /\ \A i \in fields :
              \/ IsAttachment(i) /\ i \in inDoubt
              \/ /\ fieldValue[i] = sent.fieldValue[i]
                 /\ file[i] = sent.file[i]
                 /\ attached[i] = shown.attached[i]
        /\ shown.valid =>
              /\ ~IsPrevented(sent.fieldValue)
              /\ \A i \in fields :
                    IsShown(sent.fieldValue, i) =>
                        PageValid(form.form_fields[i], sent.fieldValue[i],
                                  shown.attached[i], opened[i])
    BY <1>1 DEF SentInv
  <2>3. ValuesOK(sent.fieldValue)' /\ FilesOK(sent.file)'
    BY <1>1, <1>2, <2>2 DEF ValuesOK, FilesOK, FileOK, PickedOK, IsAttachment
  <2>4. \A i \in fields :
           \/ IsAttachment(i) /\ i \in inDoubt'
           \/ /\ fieldValue'[i] = sent.fieldValue[i]
              /\ file'[i] = sent.file[i]
              /\ attached'[i] = shown.attached[i]
    BY <2>1, <2>2
  <2>5. shown.valid =>
           /\ ~IsPrevented(sent.fieldValue)'
           /\ \A i \in fields :
                 IsShown(sent.fieldValue, i)' =>
                     PageValid(form.form_fields[i], sent.fieldValue[i],
                               shown.attached[i], opened[i])
    BY <1>1, <2>2 DEF IsPrevented, IsShown
  <2>. QED  BY <1>1, <1>2, <1>3, <2>2, <2>3, <2>4, <2>5 DEF SentInv
<1>8. StateInv'
  BY <1>1, <1>2, <1>3 DEF StateInv, HasMyInfo
<1>9. VerdictInv'
  BY <1>1, VerdictKept
<1>. QED  BY <1>4, <1>5, <1>6, <1>7, <1>8, <1>9 DEF FillingInv

LEMMA FillKeeps ==
  ASSUME FillingInv, NEW k \in fields, Fill(k)
  PROVE  FillingInv'
<1>1. PICK value \in PossibleValues(form.form_fields[k]) :
         AdvanceLogic([fieldValue EXCEPT ![k] = value])
  BY DEF Fill
<1>2. /\ uiState = "DEFAULT" /\ isVisible(k)
      /\ form.form_fields[k].fieldType \notin {"table", "attachment"}
      /\ UNCHANGED <<pageVars, today, submissionVars>>
  BY DEF Fill, Editable
<1>3. ValueOK(form.form_fields[k], value)
  BY <1>1, <1>2 DEF ValueOK
<1>4. PICK values : values = [fieldValue EXCEPT ![k] = value]
  OBVIOUS
<1>. QED  BY <1>1, <1>2, <1>3, <1>4, AdvanceKeeps

(* A step at a table of the page.                                          *)
LEMMA TableKeeps ==
  ASSUME FillingInv, NEW k \in fields, Editable(k),
         form.form_fields[k].fieldType = "table",
         NEW value, ValueOK(form.form_fields[k], value),
         fieldValue' = [fieldValue EXCEPT ![k] = value],
         UNCHANGED <<pageVars, file, componentVars, today, submissionVars,
                     inDoubt>>
  PROVE  FillingInv'
<1>1. /\ PageInv /\ SettledInv /\ uiState = "DEFAULT" /\ isVisible(k)
      /\ DOMAIN fieldValue = fields /\ DOMAIN file = fields
      /\ DOMAIN attached = fields /\ DOMAIN tasks = fields
  BY DEF FillingInv, Editable, PageInv, ValuesOK, FilesOK
<1>2. /\ form' = form /\ opened' = opened /\ today' = today
      /\ UNCHANGED submissionVars
      /\ file' = file /\ attached' = attached /\ tasks' = tasks
      /\ inDoubt' = inDoubt
  BY DEF pageVars, componentVars
<1>3. /\ DOMAIN fieldValue' = fields /\ fieldValue'[k] = value
      /\ \A i \in fields \ {k} : fieldValue'[i] = fieldValue[i]
  BY <1>1
<1>4. ~IsAttachment(k) /\ ~IsAttachment(k)'
  BY <1>2 DEF IsAttachment
<1>5. /\ tasks[k] = {} /\ file[k] = None /\ attached[k] = None
  <2>1. ASSUME NEW t \in tasks[k]
        PROVE  FALSE
    BY <1>1, <1>4 DEF PageInv, PickedOK
  <2>. QED  BY <1>1, <1>4, <2>1 DEF PageInv, FilesOK, FileOK, PickedOK
<1>6. Settled(k)'
  BY <1>2, <1>4, <1>5 DEF Settled
<1>. QED  BY <1>1, <1>2, <1>3, <1>5, <1>6, OneField

LEMMA FillCellKeeps ==
  ASSUME FillingInv, NEW k \in fields, FillCell(k)
  PROVE  FillingInv'
<1>. DEFINE field == form.form_fields[k]
            rows == fieldValue[k].components
            Row == [DOMAIN field.columns -> BOOLEAN]
<1>1. PICK r \in DOMAIN rows, c \in DOMAIN field.columns :
         fieldValue' = [fieldValue EXCEPT ![k].components[r][c] = ~@]
  BY DEF FillCell
<1>2. /\ Editable(k) /\ field.fieldType = "table"
      /\ UNCHANGED <<pageVars, file, componentVars, today, submissionVars,
                     inDoubt>>
  BY DEF FillCell
<1>3. IsFillable(field) /\ ValueOK(field, fieldValue[k])
      /\ DOMAIN fieldValue = fields
  BY FieldFacts DEF FillingInv, PageInv, ValuesOK
<1>4. /\ fieldValue[k] = [components |-> rows, additionalRowCount |->
                             fieldValue[k].additionalRowCount]
      /\ RowsOK(field, fieldValue[k])
  BY <1>2, <1>3, TableParts
<1>. DEFINE new == [rows EXCEPT ![r][c] = ~@]
<1>5. rows \in Seq(Row) /\ rows[r] \in Row
  <2>1. rows \in Seq(Row)
    BY <1>4 DEF RowsOK
  <2>. HIDE DEF Row
  <2>. QED  BY <2>1
<1>6. new \in Seq(Row) /\ Len(new) = Len(rows)
  <2>1. [rows[r] EXCEPT ![c] = ~@] \in Row
    BY <1>5
  <2>2. new = [rows EXCEPT ![r] = [rows[r] EXCEPT ![c] = ~@]]
    OBVIOUS
  <2>3. PICK row : row = [rows[r] EXCEPT ![c] = ~@]
    OBVIOUS
  <2>4. row \in Row /\ new = [rows EXCEPT ![r] = row]
    BY <2>1, <2>2, <2>3
  <2>. HIDE DEF Row, new
  <2>. QED  BY <1>5, <2>4
<1>7. ValueOK(field, [fieldValue[k] EXCEPT !.components = new])
  <2>1. /\ Len(new) >= field.minimumRows
        /\ Len(new) <= field.minimumRows + fieldValue[k].additionalRowCount
    <3>1. /\ field.minimumRows <= Len(rows)
          /\ Len(rows) <= field.minimumRows + fieldValue[k].additionalRowCount
      BY <1>4 DEF RowsOK
    <3>2. field.minimumRows \in Nat /\ Len(rows) \in Nat
      <4>1. Len(rows) \in Nat
        <5>. HIDE DEF Row
        <5>. QED  BY <1>5
      <4>. QED  BY <4>1, <1>2, <1>3, LimitsOfFields
    <3>. HIDE DEF new
    <3>. QED  BY <1>6, <3>1, <3>2
  <2>. HIDE DEF new
  <2>. QED  BY <1>2, <1>3, <1>6, <2>1, RowsReplaced
<1>8. fieldValue' = [fieldValue EXCEPT
                        ![k] = [fieldValue[k] EXCEPT !.components = new]]
  BY <1>1
<1>. QED
  <2>. HIDE DEF new
  <2>. QED  BY <1>2, <1>7, <1>8, TableKeeps

LEMMA AddTableRowKeeps ==
  ASSUME FillingInv, NEW k \in fields, AddTableRow(k)
  PROVE  FillingInv'
<1>. DEFINE field == form.form_fields[k]
            rows == fieldValue[k].components
            more == fieldValue[k].additionalRowCount
            Row == [DOMAIN field.columns -> BOOLEAN]
            new == Append(rows, BlankRow(field))
<1>1. /\ Editable(k) /\ field.fieldType = "table" /\ CanAddRow(k)
      /\ fieldValue' = [fieldValue EXCEPT
             ![k].additionalRowCount = @ + 1,
             ![k].components = Append(@, BlankRow(field))]
      /\ UNCHANGED <<pageVars, file, componentVars, today, submissionVars,
                     inDoubt>>
  BY DEF AddTableRow
<1>2. IsFillable(field) /\ ValueOK(field, fieldValue[k])
      /\ DOMAIN fieldValue = fields
  BY FieldFacts DEF FillingInv, PageInv, ValuesOK
<1>3. /\ fieldValue[k] = [components |-> rows, additionalRowCount |-> more]
      /\ RowsOK(field, fieldValue[k])
  BY <1>1, <1>2, TableParts
<1>4. /\ rows \in Seq(Row) /\ more \in Nat
      /\ field.minimumRows <= Len(rows) /\ Len(rows) <= field.minimumRows + more
  BY <1>3 DEF RowsOK
<1>5. /\ field.addMoreRows
      /\ AtMost(field.minimumRows + more + 1, field.maximumRows)
      /\ field.minimumRows + more < MaxRows
  BY <1>1 DEF CanAddRow, getNumRows
<1>6. new \in Seq(Row) /\ Len(new) = Len(rows) + 1 /\ Len(rows) \in Nat
  <2>1. BlankRow(field) \in Row
    BY BlankRowOK
  <2>. HIDE DEF Row
  <2>. QED  BY <1>4, <2>1
<1>7. field.minimumRows \in Nat /\ MaxRows \in Nat
  BY <1>1, <1>2, LimitsOfFields, AnswersAssumption
<1>8. /\ more + 1 \in Nat
      /\ field.minimumRows <= Len(new)
      /\ Len(new) <= field.minimumRows + (more + 1)
      /\ field.minimumRows + (more + 1) <= MaxRows
      /\ field.minimumRows + (more + 1) = field.minimumRows + more + 1
  <2>1. PICK n, l, m, q, top : n = field.minimumRows /\ l = Len(rows)
           /\ m = more /\ q = Len(new) /\ top = MaxRows
    OBVIOUS
  <2>2. /\ n \in Nat /\ l \in Nat /\ m \in Nat /\ q = l + 1 /\ top \in Nat
        /\ n <= l /\ l <= n + m /\ n + m < top
    <3>. HIDE DEF more, rows, new
    <3>. QED  BY <1>4, <1>5, <1>6, <1>7, <2>1
  <2>3. /\ m + 1 \in Nat /\ n <= q /\ q <= n + (m + 1) /\ n + (m + 1) <= top
        /\ n + (m + 1) = n + m + 1
    BY <2>2
  <2>. HIDE DEF more, rows, new
  <2>. QED  BY <2>1, <2>3
<1>9. RowsOK(field, [components |-> new, additionalRowCount |-> more + 1])
  <2>. HIDE DEF more, new
  <2>. QED  BY <1>5, <1>6, <1>8 DEF RowsOK
<1>10. ValueOK(field, [components |-> new, additionalRowCount |-> more + 1])
  <2>. HIDE DEF more, new
  <2>. QED  BY <1>1, <1>2, <1>9, TableOK
<1>11. fieldValue' = [fieldValue EXCEPT
           ![k] = [components |-> new, additionalRowCount |-> more + 1]]
  <2>1. fieldValue' = [fieldValue EXCEPT ![k] =
            [[fieldValue[k] EXCEPT !.additionalRowCount = more + 1]
                EXCEPT !.components = new]]
    BY <1>1, <1>2, <1>3
  <2>2. [[fieldValue[k] EXCEPT !.additionalRowCount = more + 1]
            EXCEPT !.components = new]
          = [components |-> new, additionalRowCount |-> more + 1]
    <3>1. PICK v, a, b, c, d : v = fieldValue[k] /\ a = rows /\ b = more
                                 /\ c = more + 1 /\ d = new
      OBVIOUS
    <3>. HIDE DEF more, rows, new
    <3>2. v = [components |-> a, additionalRowCount |-> b]
      BY <1>3, <3>1
    <3>3. [[v EXCEPT !.additionalRowCount = c] EXCEPT !.components = d]
             = [components |-> d, additionalRowCount |-> c]
      <4>1. PICK u : u = [v EXCEPT !.additionalRowCount = c]
        OBVIOUS
      <4>2. u = [components |-> a, additionalRowCount |-> c]
        BY <3>2, <4>1
      <4>3. [u EXCEPT !.components = d]
               = [components |-> d, additionalRowCount |-> c]
        BY <4>2
      <4>. QED  BY <4>1, <4>3
    <3>. QED  BY <3>1, <3>3
  <2>. QED
    <3>. HIDE DEF more, rows, new
    <3>. QED  BY <2>1, <2>2
<1>. QED
  <2>. HIDE DEF new, more
  <2>. QED  BY <1>1, <1>10, <1>11, TableKeeps

(* Without a row there is one less.                                        *)
LEMMA RowRemoved ==
  ASSUME NEW S, NEW s \in Seq(S), NEW r \in 1 .. Len(s)
  PROVE  RemoveAt(s, r) \in Seq(S) /\ Len(RemoveAt(s, r)) = Len(s) - 1
<1>1. PICK n : n = Len(s)
  OBVIOUS
<1>2. n \in Nat /\ r \in 1 .. n
  BY <1>1
<1>3. SubSeq(s, 1, r - 1) \in Seq(S) /\ Len(SubSeq(s, 1, r - 1)) = r - 1
  <2>1. r - 1 \in 0 .. n /\ \A i \in 1 .. (r - 1) : i \in 1 .. n
    BY <1>2
  <2>. QED  BY <1>1, <2>1, <1>2, SubSeqProperties
<1>4. SubSeq(s, r + 1, n) \in Seq(S) /\ Len(SubSeq(s, r + 1, n)) = n - r
  <2>1. r + 1 \in 1 .. n + 1 /\ \A i \in (r + 1) .. n : i \in 1 .. n
    BY <1>2
  <2>. QED  BY <1>1, <2>1, <1>2, SubSeqProperties
<1>5. PICK a, b : a = SubSeq(s, 1, r - 1) /\ b = SubSeq(s, r + 1, n)
  OBVIOUS
<1>6. /\ a \in Seq(S) /\ b \in Seq(S) /\ Len(a) = r - 1 /\ Len(b) = n - r
      /\ RemoveAt(s, r) = a \o b
  BY <1>1, <1>3, <1>4, <1>5 DEF RemoveAt
<1>7. a \o b \in Seq(S) /\ Len(a \o b) = Len(a) + Len(b)
  BY <1>6, ConcatProperties
<1>8. (r - 1) + (n - r) = n - 1
  BY <1>2
<1>. QED  BY <1>1, <1>6, <1>7, <1>8

LEMMA DeleteTableRowKeeps ==
  ASSUME FillingInv, NEW k \in fields, DeleteTableRow(k)
  PROVE  FillingInv'
<1>. DEFINE field == form.form_fields[k]
            rows == fieldValue[k].components
            more == fieldValue[k].additionalRowCount
            Row == [DOMAIN field.columns -> BOOLEAN]
<1>1. PICK r \in (field.minimumRows + 1) .. getNumRows(k) :
         fieldValue' = [fieldValue EXCEPT
             ![k].additionalRowCount = @ - 1,
             ![k].components = IF r \in DOMAIN @ THEN RemoveAt(@, r) ELSE @]
  BY DEF DeleteTableRow
<1>2. /\ Editable(k) /\ field.fieldType = "table"
      /\ UNCHANGED <<pageVars, file, componentVars, today, submissionVars,
                     inDoubt>>
  BY DEF DeleteTableRow
<1>. DEFINE new == IF r \in DOMAIN rows THEN RemoveAt(rows, r) ELSE rows
<1>3. IsFillable(field) /\ ValueOK(field, fieldValue[k])
      /\ DOMAIN fieldValue = fields
  BY FieldFacts DEF FillingInv, PageInv, ValuesOK
<1>4. /\ fieldValue[k] = [components |-> rows, additionalRowCount |-> more]
      /\ RowsOK(field, fieldValue[k])
  BY <1>2, <1>3, TableParts
<1>5. /\ rows \in Seq(Row) /\ more \in Nat
      /\ field.minimumRows <= Len(rows) /\ Len(rows) <= field.minimumRows + more
      /\ field.minimumRows + more <= MaxRows
      /\ IF field.addMoreRows
         THEN AtMost(field.minimumRows + more, field.maximumRows)
         ELSE more = 0
  BY <1>4 DEF RowsOK
<1>6. /\ field.minimumRows \in Nat /\ MaxRows \in Nat
      /\ field.maximumRows = None \/ field.maximumRows \in Int
  BY <1>2, <1>3, LimitsOfFields, AnswersAssumption
<1>7. PICK n, l, m, top : n = field.minimumRows /\ l = Len(rows)
         /\ m = more /\ top = MaxRows
  OBVIOUS
<1>8. /\ n \in Nat /\ l \in Nat /\ m \in Nat /\ top \in Nat
      /\ n <= l /\ l <= n + m /\ n + m <= top /\ r \in (n + 1) .. (n + m)
      /\ DOMAIN rows = 1 .. l
  <2>1. l \in Nat /\ DOMAIN rows = 1 .. l
    <3>. HIDE DEF Row, rows
    <3>. QED  BY <1>5, <1>7
  <2>2. r \in (n + 1) .. (n + m)
    BY <1>1, <1>7 DEF getNumRows
  <2>3. n \in Nat /\ m \in Nat /\ top \in Nat
    BY <1>5, <1>6, <1>7
  <2>4. n <= l /\ l <= n + m /\ n + m <= top
    <3>. HIDE DEF rows, more
    <3>. QED  BY <1>5, <1>7
  <2>. QED  BY <2>1, <2>2, <2>3, <2>4
<1>9. m # 0 /\ field.addMoreRows
  <2>1. m # 0
    BY <1>8
  <2>. QED  BY <1>5, <1>7, <2>1
<1>10. new \in Seq(Row) /\ Len(new) \in Nat
       /\ n <= Len(new) /\ Len(new) <= n + (m - 1)
  <2>1. CASE r \in 1 .. l
    <3>1. new = RemoveAt(rows, r)
      BY <1>8, <2>1
    <3>2. RemoveAt(rows, r) \in Seq(Row) /\ Len(RemoveAt(rows, r)) = l - 1
      <4>. HIDE DEF Row, rows
      <4>. QED  BY <1>5, <1>7, <2>1, RowRemoved
    <3>3. l - 1 \in Nat /\ n <= l - 1 /\ l - 1 <= n + (m - 1)
      BY <1>8, <2>1
    <3>. HIDE DEF new
    <3>. QED  BY <3>1, <3>2, <3>3
  <2>2. CASE r \notin 1 .. l
    <3>1. new = rows
      BY <1>8, <2>2
    <3>2. l <= n + (m - 1)
      BY <1>8, <2>2
    <3>. HIDE DEF new, rows, Row
    <3>. QED  BY <1>5, <1>7, <1>8, <3>1, <3>2
  <2>. QED  BY <2>1, <2>2
<1>11. RowsOK(field, [components |-> new, additionalRowCount |-> m - 1])
  <2>1. m - 1 \in Nat /\ n + (m - 1) <= n + m /\ n + (m - 1) <= top
        /\ n + (m - 1) \in Int /\ n + m \in Int
    BY <1>8, <1>9
  <2>2. AtMost(n + (m - 1), field.maximumRows)
    <3>. SUFFICES ASSUME field.maximumRows # None
                  PROVE  n + (m - 1) <= field.maximumRows
      BY DEF AtMost
    <3>1. n + m <= field.maximumRows
      BY <1>5, <1>7, <1>9 DEF AtMost
    <3>. QED  BY <1>6, <2>1, <3>1, InOrder
  <2>. HIDE DEF new, rows
  <2>. QED  BY <1>7, <1>9, <1>10, <2>1, <2>2 DEF RowsOK
<1>12. ValueOK(field, [components |-> new, additionalRowCount |-> m - 1])
  <2>. HIDE DEF new
  <2>. QED  BY <1>2, <1>3, <1>11, TableOK
<1>13. fieldValue' = [fieldValue EXCEPT
           ![k] = [components |-> new, additionalRowCount |-> m - 1]]
  <2>1. fieldValue' = [fieldValue EXCEPT ![k] =
            [[fieldValue[k] EXCEPT !.additionalRowCount = m - 1]
                EXCEPT !.components = new]]
    BY <1>1, <1>3, <1>4, <1>7
  <2>2. [[fieldValue[k] EXCEPT !.additionalRowCount = m - 1]
            EXCEPT !.components = new]
          = [components |-> new, additionalRowCount |-> m - 1]
    <3>1. PICK v, a, b, c, d : v = fieldValue[k] /\ a = rows /\ b = more
                                 /\ c = m - 1 /\ d = new
      OBVIOUS
    <3>. HIDE DEF more, rows, new
    <3>2. v = [components |-> a, additionalRowCount |-> b]
      BY <1>4, <3>1
    <3>3. [[v EXCEPT !.additionalRowCount = c] EXCEPT !.components = d]
             = [components |-> d, additionalRowCount |-> c]
      <4>1. PICK u : u = [v EXCEPT !.additionalRowCount = c]
        OBVIOUS
      <4>2. u = [components |-> a, additionalRowCount |-> c]
        BY <3>2, <4>1
      <4>3. [u EXCEPT !.components = d]
               = [components |-> d, additionalRowCount |-> c]
        BY <4>2
      <4>. QED  BY <4>1, <4>3
    <3>. QED  BY <3>1, <3>3
  <2>. QED
    <3>. HIDE DEF more, rows, new
    <3>. QED  BY <2>1, <2>2
<1>. QED
  <2>. HIDE DEF new
  <2>. QED  BY <1>2, <1>12, <1>13, TableKeeps


-----------------------------------------------------------------------------
(* The files *)

(* What an attachment field may hold is a file's name, or its object.      *)
LEMMA NameFits ==
  ASSUME form \in Forms, NEW i \in fields, IsAttachment(i),
         NEW value, value \in {"", "object"} \/ \E f \in Files : value = f.name
  PROVE  ValueOK(form.form_fields[i], value)
<1>1. form.form_fields[i].fieldType = "attachment"
  BY DEF IsAttachment
<1>2. PossibleValues(form.form_fields[i]) = FileValues
  BY <1>1, PossibleOf
<1>3. value \in FileValues
  BY DEF FileValues
<1>. QED  BY <1>1, <1>2, <1>3 DEF ValueOK

(* A file is under way for an attachment only; there is one, unless the    *)
(* field is in doubt.                                                      *)
LEMMA AtWork ==
  ASSUME FillingInv, NEW i \in fields, NEW t \in tasks[i]
  PROVE  /\ IsAttachment(i) /\ t \in Task /\ PickedOK(i, t.file)
         /\ t.step = "read" => FileOK(i, t.file)
         /\ form.form_fields[i].fieldType # "yes_no"
         /\ \/ i \in inDoubt
            \/ UnderWay(i) /\ tasks[i] = {t} /\ t.live
<1>1. PageInv /\ SettledInv
  BY DEF FillingInv
<1>2. /\ t \in Task /\ PickedOK(i, t.file)
      /\ t.step = "read" => FileOK(i, t.file)
  BY <1>1 DEF PageInv
<1>3. IsAttachment(i)
  BY <1>2 DEF PickedOK
<1>4. i \in inDoubt \/ UnderWay(i)
  BY <1>1 DEF SettledInv, Settled
<1>5. UnderWay(i) => tasks[i] = {t} /\ t.live
  BY DEF UnderWay
<1>. QED  BY <1>2, <1>3, <1>4, <1>5 DEF IsAttachment

(* Of the fields, k alone is changed.                                      *)
At(new, old, k, value) ==
    /\ DOMAIN new = fields
    /\ new[k] = value
    /\ \A i \in fields \ {k} : new[i] = old[i]

LEMMA AtChanged ==
  ASSUME NEW old, DOMAIN old = fields, NEW k \in fields, NEW value
  PROVE  /\ At([old EXCEPT ![k] = value], old, k, value)
         /\ At(old, old, k, old[k])
BY DEF At

(* A step at an attachment of the page.                                    *)
LEMMA FileKeeps ==
  ASSUME FillingInv, UNCHANGED <<form, opened, today, submissionVars>>,
         inDoubt \subseteq inDoubt',
         NEW k \in fields, IsAttachment(k),
         NEW value, value \in {"", "object"} \/ \E f \in Files : value = f.name,
         NEW f, f # None => FileOK(k, f),
         NEW displayed, displayed # None => FileOK(k, displayed),
         NEW working,
         \A t \in working :
             /\ t \in Task
             /\ PickedOK(k, t.file)
             /\ t.step = "read" => FileOK(k, t.file),
         At(fieldValue', fieldValue, k, value),
         At(file', file, k, f),
         At(attached', attached, k, displayed),
         At(tasks', tasks, k, working),
         k \in inDoubt' \/ ((Settled(k)' \/ UnderWay(k)') /\ isVisible(k)),
         uiState = "DEFAULT" \/ k \in inDoubt'
  PROVE  FillingInv'
<1>1. /\ PageInv /\ form \in Forms
      /\ DOMAIN fieldValue = fields /\ DOMAIN file = fields
      /\ DOMAIN attached = fields /\ DOMAIN tasks = fields
  BY DEF FillingInv, PageInv, ValuesOK, FilesOK
<1>2. /\ DOMAIN fieldValue' = fields /\ DOMAIN file' = fields
      /\ DOMAIN attached' = fields /\ DOMAIN tasks' = fields
  BY DEF At
<1>3. \A i \in fields \ {k} :
         /\ fieldValue'[i] = fieldValue[i] /\ file'[i] = file[i]
         /\ attached'[i] = attached[i] /\ tasks'[i] = tasks[i]
  BY DEF At
<1>4. /\ fieldValue'[k] = value /\ file'[k] = f
      /\ attached'[k] = displayed /\ tasks'[k] = working
  BY DEF At
<1>5. ValueOK(form.form_fields[k], fieldValue'[k])
  BY <1>1, <1>4, NameFits
<1>6. form.form_fields[k].fieldType # "yes_no"
  BY DEF IsAttachment
<1>. QED  BY <1>1, <1>2, <1>3, <1>4, <1>5, <1>6, OneField

LEMMA UploadFileKeeps ==
  ASSUME FillingInv, NEW k \in fields, NEW f \in form.files, UploadFile(k, f)
  PROVE  FillingInv'
<1>1. /\ Editable(k) /\ IsAttachment(k) /\ attached[k] = None
      /\ uiState = "DEFAULT" /\ isVisible(k)
      /\ UNCHANGED <<form, opened, today, submissionVars>>
      /\ file' = file /\ attached' = attached
      /\ inDoubt \subseteq inDoubt' /\ (tasks[k] # {} => k \in inDoubt')
      /\ uiState' = uiState
  BY DEF UploadFile, Editable, pageVars, Hurry, submissionVars
<1>2. /\ PageInv /\ SettledInv /\ form \in Forms
      /\ DOMAIN fieldValue = fields /\ DOMAIN file = fields
      /\ DOMAIN attached = fields /\ DOMAIN tasks = fields
      /\ (file[k] # None => FileOK(k, file[k]))
      /\ \A t \in tasks[k] :
            /\ t \in Task
            /\ PickedOK(k, t.file)
            /\ t.step = "read" => FileOK(k, t.file)
  BY DEF FillingInv, PageInv, ValuesOK, FilesOK
<1>3. f \in Files
  BY <1>2, FormsAssumption DEF IsForm
<1>4. k \in inDoubt' \/ (tasks[k] = {} /\ Settled(k) /\ file[k] = None)
  BY <1>1, <1>2 DEF SettledInv, Settled, UnderWay
<1>5. At(file', file, k, file[k]) /\ At(attached', attached, k, None)
  BY <1>1, <1>2, AtChanged
<1>6. isVisible(k)'
  <2>1. \A j \in fields : form.form_fields[j].fieldType = "yes_no"
                             => fieldValue'[j] = fieldValue[j]
    BY <1>1, <1>2 DEF UploadFile, SetFileValue, IsAttachment
  <2>. QED  BY <1>1, <1>2, <2>1, SameVisible
<1>7. CASE IsRefusedAtOnce(k, f)
  <2>1. fieldValue' = [fieldValue EXCEPT ![k] = ""] /\ tasks' = tasks
    BY <1>7 DEF UploadFile, SetFileValue
  <2>2. At(fieldValue', fieldValue, k, "") /\ At(tasks', tasks, k, tasks[k])
    BY <1>2, <2>1, AtChanged
  <2>3. k \in inDoubt' \/ Settled(k)'
    BY <1>1, <1>2, <1>4, <2>1 DEF Settled
  <2>. QED  BY <1>1, <1>2, <1>5, <2>2, <2>3, FileKeeps
<1>8. CASE ~IsRefusedAtOnce(k, f)
  <2>. DEFINE t == [file |-> f, step |-> "check", live |-> TRUE]
              working == tasks[k] \cup {t}
  <2>1. /\ fieldValue' = [fieldValue EXCEPT ![k] = "object"]
        /\ tasks' = [tasks EXCEPT ![k] = working]
    BY <1>8 DEF UploadFile, SetFileValue
  <2>6. /\ At(fieldValue', fieldValue, k, "object")
        /\ At(tasks', tasks, k, working)
    <3>. HIDE DEF working
    <3>. QED  BY <1>2, <2>1, AtChanged
  <2>2. t \in Task /\ t.step # "read" /\ t.file = f /\ t.live
    BY <1>3 DEF Task
  <2>3. PickedOK(k, f)
    <3>1. IsFillable(form.form_fields[k])
      BY <1>2, FieldFacts
    <3>2. PICK s, m : s = f.size /\ m = Halves(form.form_fields[k].attachmentSize)
      OBVIOUS
    <3>3. s \in Nat /\ m \in Nat /\ ~(s > m)
      BY <1>1, <1>3, <1>8, <3>1, <3>2, LimitsOfFields, AnswersAssumption
         DEF IsRefusedAtOnce, IsAttachment
    <3>4. s <= m
      BY <3>3
    <3>. QED  BY <1>1, <1>3, <1>8, <3>2, <3>4
              DEF PickedOK, IsRefusedAtOnce
  <2>4. \A u \in working :
           /\ u \in Task
           /\ PickedOK(k, u.file)
           /\ u.step = "read" => FileOK(k, u.file)
    <3>. HIDE DEF t
    <3>. QED  BY <1>2, <2>2, <2>3
  <2>5. k \in inDoubt' \/ UnderWay(k)'
    <3>. SUFFICES ASSUME tasks[k] = {}, file[k] = None
                  PROVE  UnderWay(k)'
      BY <1>4
    <3>1. tasks'[k] = {t}
      BY <1>2, <2>1
    <3>. HIDE DEF t
    <3>. QED  BY <1>1, <1>6, <2>2, <3>1 DEF UnderWay
  <2>. HIDE DEF working
  <2>. QED  BY <1>1, <1>2, <1>5, <2>4, <2>5, <2>6, FileKeeps
<1>. QED  BY <1>7, <1>8

LEMMA FileRefusedKeeps ==
  ASSUME FillingInv, NEW k \in fields, NEW t \in tasks[k], FileRefused(k, t)
  PROVE  FillingInv'
<1>1. /\ t.step = "check" /\ fieldValue' = [fieldValue EXCEPT ![k] = ""]
      /\ tasks' = [tasks EXCEPT ![k] = tasks[k] \ {t}]
      /\ UNCHANGED <<form, opened, today, submissionVars>>
      /\ file' = file /\ attached' = attached /\ inDoubt' = inDoubt
  BY DEF FileRefused, SetFileValue, pageVars
<1>2. /\ PageInv /\ form \in Forms
      /\ DOMAIN fieldValue = fields /\ DOMAIN file = fields
      /\ DOMAIN attached = fields /\ DOMAIN tasks = fields
      /\ (file[k] # None => FileOK(k, file[k]))
      /\ (attached[k] # None => FileOK(k, attached[k]))
      /\ \A u \in tasks[k] :
            /\ u \in Task
            /\ PickedOK(k, u.file)
            /\ u.step = "read" => FileOK(k, u.file)
  BY DEF FillingInv, PageInv, ValuesOK, FilesOK
<1>3. /\ IsAttachment(k)
      /\ k \in inDoubt \/ (UnderWay(k) /\ tasks[k] = {t})
  BY AtWork
<1>4. k \in inDoubt' \/ (Settled(k)' /\ isVisible(k) /\ uiState = "DEFAULT")
  <2>. SUFFICES ASSUME UnderWay(k), tasks[k] = {t}
                PROVE  Settled(k)' /\ isVisible(k) /\ uiState = "DEFAULT"
    BY <1>1, <1>3
  <2>1. /\ uiState = "DEFAULT" /\ isVisible(k) /\ file[k] = None
        /\ attached[k] = None
    BY <1>1 DEF UnderWay
  <2>2. tasks'[k] = {} /\ file'[k] = None /\ attached'[k] = None
        /\ fieldValue'[k] = ""
    BY <1>1, <1>2, <2>1
  <2>. QED  BY <2>1, <2>2 DEF Settled
<1>5. /\ At(fieldValue', fieldValue, k, "") /\ At(file', file, k, file[k])
      /\ At(attached', attached, k, attached[k])
      /\ At(tasks', tasks, k, tasks[k] \ {t})
  BY <1>1, <1>2, AtChanged
<1>6. \A u \in tasks[k] \ {t} :
         /\ u \in Task
         /\ PickedOK(k, u.file)
         /\ u.step = "read" => FileOK(k, u.file)
  BY <1>2
<1>20. PICK working : working = tasks[k] \ {t}
  OBVIOUS
<1>21. inDoubt \subseteq inDoubt' /\ (uiState = "DEFAULT" \/ k \in inDoubt')
  BY <1>1, <1>4
<1>22. /\ At(tasks', tasks, k, working)
       /\ \A u \in working :
             /\ u \in Task
             /\ PickedOK(k, u.file)
             /\ u.step = "read" => FileOK(k, u.file)
  BY <1>5, <1>6, <1>20
<1>30. UNCHANGED <<form, opened, today, submissionVars>>
  BY <1>1
<1>31. /\ (file[k] # None => FileOK(k, file[k]))
       /\ (attached[k] # None => FileOK(k, attached[k]))
  BY <1>2 DEF PageInv, FilesOK
<1>32. IsAttachment(k)
  BY <1>3
<1>33. k \in inDoubt' \/ ((Settled(k)' \/ UnderWay(k)') /\ isVisible(k))
  BY <1>4
<1>. QED  BY <1>5, <1>21, <1>22, <1>33, <1>30, <1>31, <1>32, FileKeeps

LEMMA FileAcceptedKeeps ==
  ASSUME FillingInv, NEW k \in fields, NEW t \in tasks[k], FileAccepted(k, t)
  PROVE  FillingInv'
<1>. DEFINE next == [t EXCEPT !.step = "read"]
            working == (tasks[k] \ {t}) \cup {next}
            displayed == IF t.live THEN t.file ELSE attached[k]
<1>1. /\ fieldValue' = [fieldValue EXCEPT ![k] = t.file.name]
      /\ tasks' = [tasks EXCEPT ![k] = working]
      /\ t.file.isZip => t.file.contentAllowed
      /\ attached' = IF t.live THEN [attached EXCEPT ![k] = t.file] ELSE attached
      /\ UNCHANGED <<form, opened, today, submissionVars>>
      /\ file' = file /\ inDoubt' = inDoubt
      /\ uiState' = uiState
  BY DEF FileAccepted, SetFileValue, pageVars, submissionVars
<1>2. /\ PageInv /\ form \in Forms
      /\ DOMAIN fieldValue = fields /\ DOMAIN file = fields
      /\ DOMAIN attached = fields /\ DOMAIN tasks = fields
      /\ (file[k] # None => FileOK(k, file[k]))
      /\ (attached[k] # None => FileOK(k, attached[k]))
      /\ \A u \in tasks[k] :
            /\ u \in Task
            /\ PickedOK(k, u.file)
            /\ u.step = "read" => FileOK(k, u.file)
  BY DEF FillingInv, PageInv, ValuesOK, FilesOK
<1>3. /\ IsAttachment(k) /\ t \in Task /\ PickedOK(k, t.file)
      /\ k \in inDoubt \/ (UnderWay(k) /\ tasks[k] = {t} /\ t.live)
  BY AtWork
<1>4. FileOK(k, t.file) /\ t.file \in Files
  BY <1>1, <1>3 DEF FileOK, PickedOK
<1>5. next \in Task /\ next.file = t.file /\ next.step = "read"
      /\ next.live = t.live
  BY <1>3 DEF Task
<1>6. \A u \in working :
         /\ u \in Task
         /\ PickedOK(k, u.file)
         /\ u.step = "read" => FileOK(k, u.file)
  <2>. HIDE DEF next
  <2>. QED  BY <1>2, <1>3, <1>4, <1>5
<1>7. displayed # None => FileOK(k, displayed)
  BY <1>2, <1>4
<1>10. /\ At(fieldValue', fieldValue, k, t.file.name)
       /\ At(file', file, k, file[k])
       /\ At(attached', attached, k, displayed)
       /\ At(tasks', tasks, k, working)
  <2>. HIDE DEF working
  <2>. QED  BY <1>1, <1>2, AtChanged
<1>8. isVisible(k)' <=> isVisible(k)
  <2>1. \A j \in fields : form.form_fields[j].fieldType = "yes_no"
                             => fieldValue'[j] = fieldValue[j]
    BY <1>1, <1>2, <1>3 DEF IsAttachment
  <2>. QED  BY <1>1, <1>2, <2>1, SameVisible
<1>9. k \in inDoubt' \/ (UnderWay(k)' /\ isVisible(k) /\ uiState = "DEFAULT")
  <2>. SUFFICES ASSUME UnderWay(k), tasks[k] = {t}, t.live
                PROVE  UnderWay(k)' /\ isVisible(k) /\ uiState = "DEFAULT"
    BY <1>1, <1>3
  <2>1. uiState = "DEFAULT" /\ isVisible(k) /\ file[k] = None
    BY DEF UnderWay
  <2>2. /\ tasks'[k] = {next} /\ file'[k] = None /\ attached'[k] = t.file
        /\ fieldValue'[k] = t.file.name
    BY <1>1, <1>2, <2>1
  <2>3. next.live
    BY <1>5
  <2>. HIDE DEF next
  <2>. QED  BY <1>1, <1>5, <1>8, <2>1, <2>2, <2>3 DEF UnderWay
<1>20. PICK name : name = t.file.name
  OBVIOUS
<1>21. name \in {"", "object"} \/ \E f \in Files : name = f.name
  BY <1>4, <1>20
<1>22. inDoubt \subseteq inDoubt' /\ (uiState = "DEFAULT" \/ k \in inDoubt')
  BY <1>1, <1>9
<1>23. At(fieldValue', fieldValue, k, name)
  BY <1>10, <1>20
<1>. HIDE DEF working, displayed
<1>30. UNCHANGED <<form, opened, today, submissionVars>>
  BY <1>1
<1>31. /\ (file[k] # None => FileOK(k, file[k]))
       /\ (attached[k] # None => FileOK(k, attached[k]))
  BY <1>2 DEF PageInv, FilesOK
<1>32. IsAttachment(k)
  BY <1>3
<1>33. k \in inDoubt' \/ ((Settled(k)' \/ UnderWay(k)') /\ isVisible(k))
  BY <1>9
<1>. QED  BY <1>6, <1>7, <1>10, <1>21, <1>22, <1>23, <1>33, <1>30, <1>31, <1>32, FileKeeps

LEMMA FileReadKeeps ==
  ASSUME FillingInv, NEW k \in fields, NEW t \in tasks[k], FileRead(k, t)
  PROVE  FillingInv'
<1>1. /\ t.step = "read" /\ file' = [file EXCEPT ![k] = t.file]
      /\ tasks' = [tasks EXCEPT ![k] = tasks[k] \ {t}]
      /\ UNCHANGED <<form, opened, today, submissionVars>>
      /\ fieldValue' = fieldValue /\ attached' = attached /\ inDoubt' = inDoubt
  BY DEF FileRead, pageVars
<1>2. /\ PageInv /\ form \in Forms
      /\ DOMAIN fieldValue = fields /\ DOMAIN file = fields
      /\ DOMAIN attached = fields /\ DOMAIN tasks = fields
      /\ ValueOK(form.form_fields[k], fieldValue[k])
      /\ (attached[k] # None => FileOK(k, attached[k]))
      /\ \A u \in tasks[k] :
            /\ u \in Task
            /\ PickedOK(k, u.file)
            /\ u.step = "read" => FileOK(k, u.file)
  BY DEF FillingInv, PageInv, ValuesOK, FilesOK
<1>3. /\ IsAttachment(k) /\ FileOK(k, t.file)
      /\ k \in inDoubt \/ (UnderWay(k) /\ tasks[k] = {t})
  BY <1>1, AtWork
<1>4. k \in inDoubt' \/ (Settled(k)' /\ isVisible(k) /\ uiState = "DEFAULT")
  <2>. SUFFICES ASSUME UnderWay(k), tasks[k] = {t}
                PROVE  Settled(k)' /\ isVisible(k) /\ uiState = "DEFAULT"
    BY <1>1, <1>3
  <2>1. /\ uiState = "DEFAULT" /\ isVisible(k)
        /\ attached[k] = t.file /\ fieldValue[k] = t.file.name
    BY <1>1 DEF UnderWay
  <2>2. tasks'[k] = {} /\ file'[k] = t.file /\ attached'[k] = t.file
        /\ fieldValue'[k] = t.file.name
    BY <1>1, <1>2, <2>1
  <2>3. t.file # None
    BY <1>3, FormsAssumption DEF FileOK, PickedOK
  <2>. QED  BY <2>1, <2>2, <2>3 DEF Settled
<1>5. /\ At(fieldValue', fieldValue, k, fieldValue[k])
      /\ At(file', file, k, t.file)
      /\ At(attached', attached, k, attached[k])
      /\ At(tasks', tasks, k, tasks[k] \ {t})
  BY <1>1, <1>2, AtChanged
<1>6. \A u \in tasks[k] \ {t} :
         /\ u \in Task
         /\ PickedOK(k, u.file)
         /\ u.step = "read" => FileOK(k, u.file)
  BY <1>2
<1>7. fieldValue[k] \in {"", "object"} \/ \E f \in Files : fieldValue[k] = f.name
  <2>1. PossibleValues(form.form_fields[k]) = FileValues
    BY <1>3, PossibleOf DEF IsAttachment
  <2>. QED  BY <1>2, <2>1 DEF ValueOK, FileValues
<1>20. PICK working : working = tasks[k] \ {t}
  OBVIOUS
<1>21. inDoubt \subseteq inDoubt' /\ (uiState = "DEFAULT" \/ k \in inDoubt')
  BY <1>1, <1>4
<1>22. /\ At(tasks', tasks, k, working)
       /\ \A u \in working :
             /\ u \in Task
             /\ PickedOK(k, u.file)
             /\ u.step = "read" => FileOK(k, u.file)
  BY <1>5, <1>6, <1>20
<1>30. UNCHANGED <<form, opened, today, submissionVars>>
  BY <1>1
<1>31. /\ (file[k] # None => FileOK(k, file[k]))
       /\ (attached[k] # None => FileOK(k, attached[k]))
  BY <1>2 DEF PageInv, FilesOK
<1>32. IsAttachment(k)
  BY <1>3
<1>33. k \in inDoubt' \/ ((Settled(k)' \/ UnderWay(k)') /\ isVisible(k))
  BY <1>4
<1>. QED  BY <1>5, <1>21, <1>22, <1>33, <1>3, <1>7, <1>30, <1>31, <1>32, FileKeeps

LEMMA FileUnreadKeeps ==
  ASSUME FillingInv, NEW k \in fields, NEW t \in tasks[k], FileUnread(k, t)
  PROVE  FillingInv'
<1>1. /\ tasks' = [tasks EXCEPT ![k] = tasks[k] \ {t}]
      /\ UNCHANGED <<form, opened, today, submissionVars>>
      /\ fieldValue' = fieldValue /\ attached' = attached /\ file' = file
      /\ inDoubt' = inDoubt \cup {k}
  BY DEF FileUnread, pageVars
<1>2. /\ PageInv /\ form \in Forms
      /\ DOMAIN fieldValue = fields /\ DOMAIN file = fields
      /\ DOMAIN attached = fields /\ DOMAIN tasks = fields
      /\ ValueOK(form.form_fields[k], fieldValue[k])
      /\ (file[k] # None => FileOK(k, file[k]))
      /\ (attached[k] # None => FileOK(k, attached[k]))
      /\ \A u \in tasks[k] :
            /\ u \in Task
            /\ PickedOK(k, u.file)
            /\ u.step = "read" => FileOK(k, u.file)
  BY DEF FillingInv, PageInv, ValuesOK, FilesOK
<1>3. IsAttachment(k)
  BY AtWork
<1>5. /\ At(fieldValue', fieldValue, k, fieldValue[k])
      /\ At(file', file, k, file[k])
      /\ At(attached', attached, k, attached[k])
      /\ At(tasks', tasks, k, tasks[k] \ {t})
  BY <1>1, <1>2, AtChanged
<1>6. \A u \in tasks[k] \ {t} :
         /\ u \in Task
         /\ PickedOK(k, u.file)
         /\ u.step = "read" => FileOK(k, u.file)
  BY <1>2
<1>7. fieldValue[k] \in {"", "object"} \/ \E f \in Files : fieldValue[k] = f.name
  <2>1. PossibleValues(form.form_fields[k]) = FileValues
    BY <1>3, PossibleOf DEF IsAttachment
  <2>. QED  BY <1>2, <2>1 DEF ValueOK, FileValues
<1>8. k \in inDoubt' /\ inDoubt \subseteq inDoubt'
  BY <1>1
<1>20. PICK working : working = tasks[k] \ {t}
  OBVIOUS
<1>21. inDoubt \subseteq inDoubt' /\ (uiState = "DEFAULT" \/ k \in inDoubt')
  BY <1>1, <1>8
<1>22. /\ At(tasks', tasks, k, working)
       /\ \A u \in working :
             /\ u \in Task
             /\ PickedOK(k, u.file)
             /\ u.step = "read" => FileOK(k, u.file)
  BY <1>5, <1>6, <1>20
<1>30. UNCHANGED <<form, opened, today, submissionVars>>
  BY <1>1
<1>31. /\ (file[k] # None => FileOK(k, file[k]))
       /\ (attached[k] # None => FileOK(k, attached[k]))
  BY <1>2 DEF PageInv, FilesOK
<1>32. IsAttachment(k)
  BY <1>3
<1>33. k \in inDoubt' \/ ((Settled(k)' \/ UnderWay(k)') /\ isVisible(k))
  BY <1>8
<1>. QED  BY <1>5, <1>21, <1>22, <1>33, <1>7, <1>30, <1>31, <1>32, FileKeeps

LEMMA RemoveFileKeeps ==
  ASSUME FillingInv, NEW k \in fields, RemoveFile(k)
  PROVE  FillingInv'
<1>1. /\ uiState = "DEFAULT" /\ isVisible(k) /\ attached[k] # None
      /\ fieldValue' = [fieldValue EXCEPT ![k] = ""]
      /\ file' = [file EXCEPT ![k] = None]
      /\ attached' = [attached EXCEPT ![k] = None]
      /\ UNCHANGED <<form, opened, today, submissionVars>>
      /\ tasks' = tasks
      /\ inDoubt \subseteq inDoubt' /\ (tasks[k] # {} => k \in inDoubt')
  BY DEF RemoveFile, Editable, SetFileValue, pageVars, Hurry
<1>2. /\ PageInv /\ form \in Forms
      /\ DOMAIN fieldValue = fields /\ DOMAIN file = fields
      /\ DOMAIN attached = fields /\ DOMAIN tasks = fields
      /\ FileOK(k, attached[k])
      /\ \A u \in tasks[k] :
            /\ u \in Task
            /\ PickedOK(k, u.file)
            /\ u.step = "read" => FileOK(k, u.file)
  BY <1>1 DEF FillingInv, PageInv, ValuesOK, FilesOK
<1>3. IsAttachment(k)
  BY <1>2 DEF FileOK, PickedOK
<1>4. /\ At(fieldValue', fieldValue, k, "") /\ At(file', file, k, None)
      /\ At(attached', attached, k, None) /\ At(tasks', tasks, k, tasks[k])
  BY <1>1, <1>2, AtChanged
<1>5. k \in inDoubt' \/ Settled(k)'
  BY <1>1, <1>2 DEF Settled
<1>. QED  BY <1>1, <1>2, <1>3, <1>4, <1>5, FileKeeps


-----------------------------------------------------------------------------
(* The submission *)

LEMMA PageKept ==
  ASSUME PageInv, UNCHANGED <<form, fieldValue, file, attached, tasks>>,
         DOMAIN opened' = fields, today' \in Nat,
         \A i \in fields : opened'[i] \in 0 .. today'
  PROVE  PageInv'
<1>1. fields' = fields
  BY DEF fields
<1>2. ValuesOK(fieldValue)' /\ FilesOK(file)' /\ FilesOK(attached)'
  BY <1>1 DEF PageInv, ValuesOK, FilesOK, FileOK, PickedOK, IsAttachment
<1>3. \A i \in fields' : \A t \in tasks'[i] :
         (/\ t \in Task
          /\ PickedOK(i, t.file)
          /\ t.step = "read" => FileOK(i, t.file))'
  BY <1>1 DEF PageInv, FileOK, PickedOK, IsAttachment, Task
<1>. QED  BY <1>1, <1>2, <1>3 DEF PageInv

(* What is displayed stays, and the page goes on with its submission.      *)
LEMMA PartsKept ==
  ASSUME FillingInv, UNCHANGED <<form, fieldValue, file, componentVars>>,
         today' \in Nat, today <= today',
         inDoubt \subseteq inDoubt',
         \/ uiState' = uiState
         \/ \A i \in fields : tasks[i] # {} => i \in inDoubt'
  PROVE  PageInv' /\ SettledInv' /\ HiddenInv'
<1>1. /\ PageInv /\ SettledInv /\ HiddenInv /\ fields' = fields
      /\ attached' = attached /\ tasks' = tasks /\ opened' = opened
      /\ today \in Nat
  BY DEF FillingInv, PageInv, componentVars, fields
<1>2. PageInv'
  <2>1. \A i \in fields : opened'[i] \in 0 .. today'
    <3>1. ASSUME NEW i \in fields
          PROVE  opened[i] \in 0 .. today'
      <4>1. PICK d : d = opened[i]
        OBVIOUS
      <4>2. d \in 0 .. today
        BY <1>1, <4>1 DEF PageInv
      <4>3. d \in 0 .. today'
        BY <1>1, <4>2
      <4>. QED  BY <4>1, <4>3
    <3>. QED  BY <1>1, <3>1
  <2>. QED  BY <1>1, <2>1, PageKept DEF PageInv
<1>3. SettledInv'
  <2>1. ASSUME NEW i \in fields \ inDoubt'
        PROVE  Settled(i)' \/ UnderWay(i)'
    <3>1. Settled(i) \/ UnderWay(i)
      BY <1>1 DEF SettledInv
    <3>2. Settled(i) => Settled(i)'
      BY <1>1 DEF Settled, IsAttachment
    <3>3. UnderWay(i) => UnderWay(i)'
      BY <1>1 DEF UnderWay, isVisible, IsShown
    <3>. QED  BY <3>1, <3>2, <3>3
  <2>. QED  BY <1>1, <2>1 DEF SettledInv
<1>4. HiddenInv'
  BY <1>1 DEF HiddenInv, IsMyInfo, isVisible, IsShown, ClearedValue
<1>. QED  BY <1>2, <1>3, <1>4

LEMMA SubmitKeeps ==
  ASSUME FillingInv, uiState = "DEFAULT", SubmitForm,
         UNCHANGED <<pageVars, fieldValue, file, componentVars, today, verdict>>,
         captcha' # "challenge"
  PROVE  FillingInv'
<1>1. /\ PageInv /\ SettledInv /\ HiddenInv /\ verdict' = None
      /\ fields' = fields /\ form' = form
      /\ attached' = attached /\ opened' = opened
      /\ today \in Nat /\ today' = today
      /\ ValuesOK(fieldValue) /\ FilesOK(file)
  BY DEF FillingInv, StateInv, PageInv, pageVars, componentVars, fields
<1>2. /\ sent' = [fieldValue |-> fieldValue, file |-> file]
      /\ savedForm' = sent'
      /\ shown' = [valid |-> ~submitPrevented /\ \A i \in fields : ~IsInvalid(i),
                   attached |-> attached]
      /\ inDoubt' = inDoubt \cup {i \in fields : tasks[i] # {}}
      /\ uiState' = "SUBMITTING"
  BY DEF SubmitForm
<1>3. PageInv' /\ SettledInv' /\ HiddenInv'
  <2>1. today <= today'
    BY <1>1
  <2>2. \A i \in fields : tasks[i] # {} => i \in inDoubt'
    BY <1>2
  <2>3. inDoubt \subseteq inDoubt'
    BY <1>2
  <2>. QED  BY <1>1, <2>1, <2>2, <2>3, PartsKept DEF pageVars
<1>4. SentInv'
  <2>1. sent'.fieldValue = fieldValue /\ sent'.file = file
        /\ shown'.attached = attached
        /\ shown'.valid = (~submitPrevented /\ \A i \in fields : ~IsInvalid(i))
    BY <1>2
  <2>2. ValuesOK(sent.fieldValue)' /\ FilesOK(sent.file)'
    BY <1>1, <2>1 DEF ValuesOK, FilesOK, FileOK, PickedOK, IsAttachment
  <2>3. shown'.valid => ~IsPrevented(sent.fieldValue)'
    BY <1>1, <2>1 DEF IsPrevented, submitPrevented
  <2>4. ASSUME shown'.valid, NEW i \in fields, IsShown(sent.fieldValue, i)'
        PROVE  PageValid(form.form_fields[i], fieldValue[i], attached[i], opened[i])
    <3>1. isVisible(i) /\ ~IsInvalid(i)
      BY <1>1, <2>1, <2>4 DEF isVisible, IsShown
    <3>. QED  BY <3>1 DEF IsInvalid
  <2>5. \A i \in fields' :
           /\ fieldValue'[i] = sent'.fieldValue[i]
           /\ file'[i] = sent'.file[i]
           /\ attached'[i] = shown'.attached[i]
    BY <1>1, <2>1
  <2>. QED  BY <1>1, <1>2, <2>1, <2>2, <2>3, <2>4, <2>5 DEF SentInv
<1>5. StateInv' /\ VerdictInv'
  BY <1>1, <1>2 DEF StateInv, VerdictInv, Judged
<1>. QED  BY <1>3, <1>4, <1>5 DEF FillingInv

(* Nothing but the captcha.                                                *)
LEMMA CaptchaKeeps ==
  ASSUME FillingInv, uiState = "DEFAULT",
         UNCHANGED <<pageVars, fieldValue, file, componentVars, today, uiState,
                     savedForm, sent, shown, verdict, inDoubt>>,
         captcha' = "challenge" => form.hasCaptcha
  PROVE  FillingInv'
<1>1. /\ form' = form /\ verdict' = None /\ uiState' = "DEFAULT"
      /\ today \in Nat /\ today' = today /\ inDoubt' = inDoubt
  BY DEF FillingInv, StateInv, PageInv, pageVars
<1>2. PageInv' /\ SettledInv' /\ HiddenInv'
  <2>1. today <= today' /\ inDoubt \subseteq inDoubt' /\ uiState' = uiState
    BY <1>1
  <2>. QED  BY <1>1, <2>1, PartsKept DEF pageVars
<1>3. SentInv' /\ StateInv' /\ VerdictInv'
  BY <1>1 DEF SentInv, StateInv, VerdictInv, Judged
<1>. QED  BY <1>2, <1>3 DEF FillingInv

LEMMA SubmittingKeeps ==
  ASSUME FillingInv, checkCaptchaAndSubmit \/ CaptchaSucceeds \/ CaptchaFails
  PROVE  FillingInv'
<1>1. StateInv
  BY DEF FillingInv
<1>2. CASE checkCaptchaAndSubmit
  <2>1. CASE form.hasCaptcha /\ captcha # "response"
    BY <1>2, <2>1, CaptchaKeeps DEF checkCaptchaAndSubmit
  <2>2. CASE ~(form.hasCaptcha /\ captcha # "response")
    <3>1. captcha' # "challenge"
      BY <1>1, <1>2, <2>2 DEF checkCaptchaAndSubmit, StateInv
    <3>. QED  BY <1>2, <2>2, <3>1, SubmitKeeps DEF checkCaptchaAndSubmit
  <2>. QED  BY <2>1, <2>2
<1>3. CASE CaptchaSucceeds
  BY <1>1, <1>3, SubmitKeeps DEF CaptchaSucceeds, StateInv
<1>4. CASE CaptchaFails
  BY <1>1, <1>4, CaptchaKeeps DEF CaptchaFails, StateInv
<1>. QED  BY <1>2, <1>3, <1>4

(* What was sent stays with the page while the server works on it.         *)
LEMMA SentKept ==
  ASSUME FillingInv, UNCHANGED <<form, fieldValue, file, attached, opened,
                                 savedForm, sent, shown, inDoubt>>,
         uiState' # "DEFAULT" => uiState # "DEFAULT"
  PROVE  SentInv'
<1>1. SentInv /\ fields' = fields
  BY DEF FillingInv, fields
<1>. QED  BY <1>1 DEF SentInv, ValuesOK, FilesOK, FileOK, PickedOK, IsAttachment,
                     IsPrevented, IsShown

LEMMA DayPassesKeeps ==
  ASSUME FillingInv, DayPasses
  PROVE  FillingInv'
<1>1. /\ today \in Nat /\ today' = today + 1 /\ StateInv /\ VerdictInv
      /\ UNCHANGED <<form, fieldValue, file, componentVars, inDoubt>>
      /\ attached' = attached /\ opened' = opened
      /\ UNCHANGED <<uiState, captcha, savedForm, sent, shown, verdict>>
  BY DEF DayPasses, FillingInv, PageInv, pageVars, componentVars, submissionVars
<1>2. today' \in Nat /\ today <= today'
  BY <1>1
<1>3. PageInv' /\ SettledInv' /\ HiddenInv'
  <2>1. inDoubt \subseteq inDoubt' /\ uiState' = uiState
    BY <1>1
  <2>. QED  BY <1>1, <1>2, <2>1, PartsKept
<1>4. SentInv'
  BY <1>1, SentKept
<1>5. StateInv'
  BY <1>1 DEF StateInv, HasMyInfo, IsMyInfo, fields
<1>6. VerdictInv'
  <2>1. inDoubt \subseteq inDoubt'
    BY <1>1
  <2>. QED  BY <1>1, <2>1, VerdictKept
<1>. QED  BY <1>3, <1>4, <1>5, <1>6 DEF FillingInv

LEMMA ReceiveKeeps ==
  ASSUME FillingInv, NEW isAuthenticated, Receive(isAuthenticated)
  PROVE  FillingInv'
<1>1. PICK tmin \in {today - 1, today}, tmax \in {today, today + 1} :
         verdict' = [status |-> Status(isAuthenticated, tmin, tmax),
                     files |-> [i \in fields |-> IF i \in Attachments
                                                 THEN sent.file[i] ELSE None],
                     hashedFields |-> {},
                     filenames |-> Filenames,
                     day |-> today]
  BY DEF Receive
<1>2. /\ PageInv /\ SettledInv /\ SentInv /\ StateInv /\ uiState = "SUBMITTING"
      /\ uiState' = IF verdict'.status = "OK" /\ HasMyInfo THEN "VERIFYING"
                                                           ELSE "SENT"
      /\ UNCHANGED <<form, fieldValue, file, componentVars, today, captcha,
                     savedForm, sent, shown, inDoubt>>
      /\ today \in Nat
  BY DEF Receive, FillingInv, PageInv, pageVars
<1>3. /\ attached' = attached /\ opened' = opened /\ tasks' = tasks
      /\ fields' = fields /\ inDoubt' = inDoubt /\ sent' = sent
      /\ shown' = shown /\ form' = form
  BY <1>2 DEF componentVars, fields
<1>4. PageInv' /\ SettledInv' /\ HiddenInv'
  <2>1. ASSUME NEW i \in fields, tasks[i] # {}
        PROVE  i \in inDoubt'
    BY <1>2, <1>3, <2>1 DEF SettledInv, Settled, UnderWay
  <2>2. today' \in Nat /\ today <= today' /\ inDoubt \subseteq inDoubt'
    BY <1>2, <1>3
  <2>. QED  BY <1>2, <2>1, <2>2, PartsKept
<1>5. SentInv'
  BY <1>2, <1>3, SentKept
<1>6. StateInv'
  BY <1>2, <1>3 DEF StateInv, HasMyInfo, IsMyInfo
<1>7. VerdictInv'
  <2>1. /\ verdict'.status = Status(isAuthenticated, tmin, tmax)
        /\ verdict'.files = [i \in fields |-> IF i \in Attachments
                                              THEN sent.file[i] ELSE None]
        /\ verdict'.filenames = Filenames /\ verdict'.day = today
        /\ verdict'.hashedFields = {}
    BY <1>1
  <2>2. Attachments' = Attachments /\ Filenames' = Filenames
    BY <1>3 DEF Attachments, Filenames, handleDuplicatesInAttachments,
                fieldHasAttachment, IsAttachment
  <2>3. AcceptedAsDisplayed'
    <3>. SUFFICES ASSUME shown.valid, \A i \in fields : ~KnownToDiffer(i)'
                  PROVE  verdict'.status \in {"OK"} \cup AccessRefusals
      BY <1>3 DEF AcceptedAsDisplayed, AccessRefusals
    <3>1. \A i \in fields : Differs(i, today) => KnownToDiffer(i)'
      BY <1>3, <2>1 DEF Differs, KnownToDiffer
    <3>2. Status(isAuthenticated, tmin, tmax) \in {"OK"} \cup AccessRefusals
      <4>1. uiState # "DEFAULT" /\ \A i \in fields : ~Differs(i, today)
        BY <1>2, <3>1
      <4>. QED  BY <1>2, <4>1, StatusAsDisplayed
    <3>. QED  BY <2>1, <3>2
  <2>4. verdict' = [status |-> verdict'.status, files |-> verdict'.files,
                    hashedFields |-> verdict'.hashedFields,
                    filenames |-> verdict'.filenames, day |-> verdict'.day]
    BY <1>1
  <2>. QED  BY <1>3, <2>1, <2>2, <2>3, <2>4 DEF VerdictInv
<1>. QED  BY <1>4, <1>5, <1>6, <1>7 DEF FillingInv

(* The page learns of a verdict that stands, or that a check of the access *)
(* has changed.                                                            *)
LEMMA VerdictComes ==
  ASSUME FillingInv, Judged,
         UNCHANGED <<pageVars, fieldValue, file, componentVars, today, captcha,
                     savedForm, sent, shown, inDoubt>>,
         uiState' \in {"SENT", "SUBMITTED"},
         verdict' = [status |-> verdict'.status, files |-> verdict.files,
                     hashedFields |-> verdict'.hashedFields,
                     filenames |-> verdict.filenames, day |-> verdict.day],
         verdict' = verdict \/ verdict'.status \in {"OK"} \cup AccessRefusals
  PROVE  FillingInv'
<1>1. /\ PageInv /\ SettledInv /\ SentInv /\ StateInv /\ VerdictInv
      /\ today \in Nat /\ form' = form /\ today' = today /\ inDoubt' = inDoubt
      /\ attached' = attached /\ opened' = opened /\ tasks' = tasks
      /\ fields' = fields /\ sent' = sent /\ shown' = shown
      /\ savedForm' = savedForm /\ captcha' = captcha /\ uiState # "DEFAULT"
  BY DEF FillingInv, PageInv, pageVars, componentVars, fields, Judged
<1>2. PageInv' /\ SettledInv' /\ HiddenInv'
  <2>1. ASSUME NEW i \in fields, tasks[i] # {}
        PROVE  i \in inDoubt'
    BY <1>1, <2>1 DEF SettledInv, Settled, UnderWay
  <2>2. today' \in Nat /\ today <= today' /\ inDoubt \subseteq inDoubt'
    BY <1>1
  <2>. QED  BY <1>1, <2>1, <2>2, PartsKept
<1>3. SentInv'
  BY <1>1, SentKept
<1>4. StateInv'
  BY <1>1 DEF StateInv
<1>5. VerdictInv'
  <2>1. /\ verdict'.files = verdict.files
        /\ verdict'.filenames = verdict.filenames /\ verdict'.day = verdict.day
    OBVIOUS
  <2>2. Attachments' = Attachments /\ Filenames' = Filenames
    BY <1>1 DEF Attachments, Filenames, handleDuplicatesInAttachments,
                fieldHasAttachment, IsAttachment
  <2>3. AcceptedAsDisplayed'
    <3>1. \A i \in fields : KnownToDiffer(i) => KnownToDiffer(i)'
      BY <1>1, <2>1 DEF KnownToDiffer
    <3>2. AcceptedAsDisplayed
      BY <1>1 DEF VerdictInv
    <3>. QED  BY <1>1, <3>1, <3>2 DEF AcceptedAsDisplayed, AccessRefusals
  <2>4. verdict' = [status |-> verdict'.status, files |-> verdict'.files,
                    hashedFields |-> verdict'.hashedFields,
                    filenames |-> verdict'.filenames, day |-> verdict'.day]
    BY <2>1
  <2>. QED  BY <1>1, <2>1, <2>2, <2>3, <2>4 DEF VerdictInv
<1>. QED  BY <1>2, <1>3, <1>4, <1>5 DEF FillingInv

LEMMA SuccessKeeps ==
  ASSUME FillingInv, handleSubmitSuccess
  PROVE  FillingInv'
<1>1. /\ uiState = "SENT" /\ uiState' = "SUBMITTED" /\ verdict.status = "OK"
      /\ verdict' = verdict
      /\ UNCHANGED <<pageVars, fieldValue, file, componentVars, today, captcha,
                     savedForm, sent, shown, inDoubt>>
  BY DEF handleSubmitSuccess
<1>2. Judged
  BY <1>1 DEF Judged
<1>3. verdict' = [status |-> verdict'.status, files |-> verdict.files,
                  hashedFields |-> verdict'.hashedFields,
                  filenames |-> verdict.filenames, day |-> verdict.day]
  BY <1>1, <1>2 DEF FillingInv, VerdictInv
<1>. QED  BY <1>1, <1>2, <1>3, VerdictComes

(* The fields that were sent decide what is shown, and none of them is in  *)
(* doubt.                                                                  *)
LEMMA RestoredShown ==
  ASSUME FillingInv, handleSubmitFailure
  PROVE  /\ \A i \in fields : isVisible(i)' <=> isVisible(i)
         /\ \A i \in fields \ inDoubt :
               /\ fieldValue'[i] = fieldValue[i] /\ file'[i] = file[i]
               /\ Settled(i)
<1>1. /\ SentInv /\ SettledInv /\ form \in Forms /\ form' = form
      /\ uiState # "DEFAULT"
      /\ fieldValue' = savedForm.fieldValue /\ file' = savedForm.file
  BY DEF FillingInv, PageInv, handleSubmitFailure, SubmissionFails, Restored,
         pageVars
<1>2. /\ savedForm = sent
      /\ \A i \in fields :
            \/ IsAttachment(i) /\ i \in inDoubt
            \/ /\ fieldValue[i] = sent.fieldValue[i]
               /\ file[i] = sent.file[i]
               /\ attached[i] = shown.attached[i]
  BY <1>1 DEF SentInv
<1>3. \A j \in fields : form.form_fields[j].fieldType = "yes_no"
                           => fieldValue'[j] = fieldValue[j]
  BY <1>1, <1>2 DEF IsAttachment
<1>4. \A i \in fields : isVisible(i)' <=> isVisible(i)
  BY <1>1, <1>3, SameVisible
<1>5. \A i \in fields \ inDoubt : Settled(i)
  BY <1>1 DEF SettledInv, UnderWay
<1>. QED  BY <1>1, <1>2, <1>4, <1>5

LEMMA FailureKeeps ==
  ASSUME FillingInv, handleSubmitFailure
  PROVE  FillingInv'
<1>1. /\ PageInv /\ SettledInv /\ HiddenInv /\ SentInv /\ form' = form
      /\ uiState' = "DEFAULT" /\ uiState # "DEFAULT"
      /\ fieldValue' = savedForm.fieldValue /\ file' = savedForm.file
      /\ tasks' = [i \in fields |-> {t \in tasks[i] : t.live}]
      /\ captcha' = "none" /\ verdict' = None
      /\ attached' = attached /\ opened' = opened /\ today' = today
      /\ inDoubt' = inDoubt
  BY DEF FillingInv, handleSubmitFailure, SubmissionFails, Restored, pageVars
<1>2. fields' = fields /\ savedForm = sent
      /\ ValuesOK(sent.fieldValue) /\ FilesOK(sent.file)
  BY <1>1 DEF fields, SentInv
<1>3. /\ \A i \in fields : isVisible(i)' <=> isVisible(i)
      /\ \A i \in fields \ inDoubt :
            /\ fieldValue'[i] = fieldValue[i] /\ file'[i] = file[i]
            /\ Settled(i)
  BY RestoredShown
<1>4. PageInv'
  <2>1. ValuesOK(fieldValue)' /\ FilesOK(file)' /\ FilesOK(attached)'
    BY <1>1, <1>2 DEF PageInv, ValuesOK, FilesOK, FileOK, PickedOK, IsAttachment
  <2>2. /\ DOMAIN tasks' = fields
        /\ \A i \in fields : \A t \in tasks'[i] : t \in tasks[i]
    BY <1>1
  <2>3. \A i \in fields' : \A t \in tasks'[i] :
           (/\ t \in Task
            /\ PickedOK(i, t.file)
            /\ t.step = "read" => FileOK(i, t.file))'
    BY <1>1, <1>2, <2>2 DEF PageInv, FileOK, PickedOK, IsAttachment, Task
  <2>. QED  BY <1>1, <1>2, <2>1, <2>2, <2>3 DEF PageInv
<1>5. SettledInv'
  <2>1. ASSUME NEW i \in fields \ inDoubt
        PROVE  Settled(i)'
    <3>1. /\ Settled(i) /\ fieldValue'[i] = fieldValue[i] /\ file'[i] = file[i]
      BY <1>3
    <3>2. tasks'[i] = {}
      BY <1>1, <3>1 DEF Settled
    <3>. QED  BY <1>1, <3>1, <3>2 DEF Settled, IsAttachment
  <2>. QED  BY <1>1, <1>2, <2>1 DEF SettledInv
<1>6. HiddenInv'
  BY <1>1, <1>2, <1>3 DEF HiddenInv, IsMyInfo, ClearedValue
<1>7. SentInv' /\ StateInv' /\ VerdictInv'
  BY <1>1 DEF SentInv, StateInv, VerdictInv, Judged
<1>. QED  BY <1>4, <1>5, <1>6, <1>7 DEF FillingInv


-----------------------------------------------------------------------------
(* The page, in every step of the form that is viewed                      *)

LEMMA FilesKeep ==
  ASSUME FillingInv, NEW k \in fields, AdvanceFile(k)
  PROVE  FillingInv'
BY FileRefusedKeeps, FileAcceptedKeeps, FileReadKeeps, FileUnreadKeeps
   DEF AdvanceFile

LEMMA FillingKeeps ==
  ASSUME FillingInv, Filling
  PROVE  FillingInv'
<1>1. ASSUME NEW k \in fields, Fill(k)
      PROVE  FillingInv'
  BY <1>1, FillKeeps
<1>2. ASSUME NEW k \in fields, FillCell(k) \/ AddTableRow(k) \/ DeleteTableRow(k)
      PROVE  FillingInv'
  BY <1>2, FillCellKeeps, AddTableRowKeeps, DeleteTableRowKeeps
<1>3. ASSUME NEW k \in fields, RemoveFile(k) \/ AdvanceFile(k)
      PROVE  FillingInv'
  BY <1>3, RemoveFileKeeps, FilesKeep
<1>4. ASSUME NEW k \in fields, NEW f \in form.files, UploadFile(k, f)
      PROVE  FillingInv'
  BY <1>4, UploadFileKeeps
<1>5. CASE checkCaptchaAndSubmit \/ CaptchaSucceeds \/ CaptchaFails
  BY <1>5, SubmittingKeeps
<1>6. CASE DayPasses
  BY <1>6, DayPassesKeeps
<1>. QED  BY <1>1, <1>2, <1>3, <1>4, <1>5, <1>6 DEF Filling

LEMMA NothingFilled ==
  ASSUME FillingInv, UNCHANGED formVars
  PROVE  FillingInv'
<1>1. /\ UNCHANGED <<form, fieldValue, file, componentVars, inDoubt>>
      /\ UNCHANGED <<uiState, captcha, savedForm, sent, shown, verdict>>
      /\ attached' = attached /\ opened' = opened
      /\ today' = today /\ today \in Nat /\ StateInv /\ VerdictInv
  BY DEF formVars, pageVars, submissionVars, componentVars, FillingInv, PageInv
<1>2. PageInv' /\ SettledInv' /\ HiddenInv'
  <2>1. /\ inDoubt \subseteq inDoubt' /\ uiState' = uiState
        /\ today' \in Nat /\ today <= today'
    BY <1>1
  <2>. QED  BY <1>1, <2>1, PartsKept
<1>3. SentInv'
  BY <1>1, SentKept
<1>4. StateInv'
  BY <1>1 DEF StateInv, HasMyInfo, IsMyInfo, fields
<1>5. VerdictInv'
  <2>1. inDoubt \subseteq inDoubt'
    BY <1>1
  <2>. QED  BY <1>1, <2>1, VerdictKept
<1>. QED  BY <1>2, <1>3, <1>4, <1>5 DEF FillingInv

(* Which MyInfo values a field is given.                                   *)
LEMMA GivenByMyInfo ==
  ASSUME form \in Forms, NEW u, NEW data, HadData(u, data),
         NEW i \in fields, IsMyInfo(i)
  PROVE  /\ data[form.myInfo[i]].value \in PossibleValues(form.form_fields[i])
         /\ data[form.myInfo[i]].verified \in BOOLEAN
<1>1. PICK n \in DOMAIN Persons[u] : data = Persons[u][n]
  BY DEF HadData
<1>2. u \in Users
  BY DEF HadData
<1>. QED  BY <1>1, <1>2, AccessAssumption DEF IsMyInfo, fields

LEMMA PrefilledIsFresh ==
  ASSUME form \in Forms, ViewInv
  PROVE  Fresh(prefilledFields)
<1>1. /\ DOMAIN prefilledFields = fields
      /\ \A i \in fields : prefilledFields[i] =
             IF IsMyInfo(i) /\ view.data # None
             THEN view.data[form.myInfo[i]].value
             ELSE EmptyValue(form.form_fields[i])
  BY DEF prefilledFields
<1>2. ASSUME NEW i \in fields
      PROVE  ValueOK(form.form_fields[i], prefilledFields[i])
  <2>1. CASE IsMyInfo(i) /\ view.data # None
    <3>1. HadData(view.cookie.userName, view.data)
      BY <2>1 DEF ViewInv
    <3>2. prefilledFields[i] \in PossibleValues(form.form_fields[i])
      BY <1>1, <2>1, <3>1, GivenByMyInfo
    <3>3. form.form_fields[i].fieldType # "table"
      BY <2>1, FieldFacts DEF MyInfoTypes
    <3>. QED  BY <3>2, <3>3 DEF ValueOK
  <2>2. CASE ~(IsMyInfo(i) /\ view.data # None)
    BY <1>1, <2>2, FieldFacts, EmptyOK
  <2>. QED  BY <2>1, <2>2
<1>. QED  BY <1>1, <1>2 DEF Fresh, ValuesOK

LEMMA LoadKeeps ==
  ASSUME FillingInv, NEW jwt, LoadWith(jwt)
  PROVE  FillingInv'
<1>1. form \in Forms /\ today \in Nat /\ Start(Blank(form), {})
  BY DEF FillingInv, PageInv, LoadWith
<1>. QED  BY <1>1, BlankIsFresh, NewPage

LEMMA DisplayKeeps ==
  ASSUME FillingInv, ViewInv, DisplayForm
  PROVE  FillingInv'
<1>1. form \in Forms /\ today \in Nat /\ Start(prefilledFields, prefilledDisabled)
  BY DEF FillingInv, PageInv, DisplayForm
<1>. QED  BY <1>1, PrefilledIsFresh, NewPage

LEMMA VerifyKeeps ==
  ASSUME FillingInv, verifyMyInfoVals
  PROVE  FillingInv'
<1>1. /\ uiState = "VERIFYING" /\ uiState' = "SENT"
      /\ UNCHANGED <<pageVars, fieldValue, file, componentVars, today, captcha,
                     savedForm, sent, shown, inDoubt>>
  BY DEF verifyMyInfoVals
<1>2. \/ verdict' = [verdict EXCEPT !.status = "unavailable"]
      \/ verdict' = [verdict EXCEPT !.status = "noHashes"]
      \/ verdict' = [verdict EXCEPT !.status = "otherHashes"]
      \/ verdict' = [verdict EXCEPT !.hashedFields = verifiedKeys]
  BY DEF verifyMyInfoVals
<1>3. verdict.status = "OK" /\ StateInv
  BY <1>1 DEF FillingInv, StateInv
<1>4. /\ verdict = [status |-> verdict.status, files |-> verdict.files,
                   hashedFields |-> verdict.hashedFields,
                   filenames |-> verdict.filenames, day |-> verdict.day]
      /\ Judged
  BY <1>1 DEF FillingInv, VerdictInv, Judged
<1>5. verdict' = [status |-> verdict'.status, files |-> verdict.files,
                  hashedFields |-> verdict'.hashedFields,
                  filenames |-> verdict.filenames, day |-> verdict.day]
  BY <1>2, <1>4
<1>6. verdict'.status \in {"OK"} \cup AccessRefusals
  <2>1. verdict'.status \in {"OK", "unavailable", "noHashes", "otherHashes"}
    BY <1>2, <1>3, <1>4
  <2>. QED  BY <2>1 DEF AccessRefusals
<1>. QED  BY <1>1, <1>4, <1>5, <1>6, VerdictComes


-----------------------------------------------------------------------------
(* The login and the MyInfo values: what a step leaves as it was           *)

LEMMA CookiesKept ==
  ASSUME CookiesInv, form' = form, now' \in Nat, now <= now',
         cookie' \in {None, cookie, view.cookie, sentCookie},
         view'.cookie \in {None, cookie, view.cookie, sentCookie},
         sentCookie' \in {None, cookie, view.cookie, sentCookie}
  PROVE  CookiesInv'
<1>1. ASSUME NEW jwt \in {None, cookie, view.cookie, sentCookie}, jwt # None
      PROVE  /\ jwt.userName \in Users
             /\ jwt.rememberMe \in BOOLEAN
             /\ jwt.expires \in Nat
             /\ form.authType = "SP" /\ ~jwt.rememberMe =>
                   jwt.expires <= now' + spCookieMaxAge
  <2>1. /\ jwt.userName \in Users
        /\ jwt.rememberMe \in BOOLEAN
        /\ jwt.expires \in Nat
        /\ form.authType = "SP" /\ ~jwt.rememberMe =>
              jwt.expires <= now + spCookieMaxAge
    BY <1>1 DEF CookiesInv, CookieOK
  <2>2. spCookieMaxAge \in Nat /\ now \in Nat
    BY AccessAssumption DEF CookiesInv
  <2>3. ASSUME jwt.expires <= now + spCookieMaxAge
        PROVE  jwt.expires <= now' + spCookieMaxAge
    <3>1. PICK e, n, m, a : e = jwt.expires /\ n = now /\ m = now'
                              /\ a = spCookieMaxAge
      OBVIOUS
    <3>2. e \in Nat /\ n \in Nat /\ m \in Nat /\ a \in Nat /\ n <= m
          /\ e <= n + a
      BY <2>1, <2>2, <2>3, <3>1
    <3>3. e <= m + a
      BY <3>2
    <3>. QED  BY <3>1, <3>3
  <2>. QED  BY <2>1, <2>3
<1>. QED  BY <1>1 DEF CookiesInv, CookieOK

LEMMA HashesAlike ==
  ASSUME form' = form
  PROVE  \A data : readOnlyHashes(data)' = readOnlyHashes(data)
BY DEF readOnlyHashes, ReadOnlyAttributes, isFieldReadOnly, fields

LEMMA DocumentsKept ==
  ASSUME HashesInv, UNCHANGED <<form, versions, hashes>>
  PROVE  HashesInv'
<1>1. \A data : readOnlyHashes(data)' = readOnlyHashes(data)
  BY HashesAlike
<1>. QED  BY <1>1 DEF HashesInv

LEMMA DocumentReplaced ==
  ASSUME HashesInv, UNCHANGED <<form, versions>>, now \in Nat,
         NEW u, NEW data, HadData(u, data),
         hashes' = [hashes EXCEPT ![u] = {HashesOf(data)}]
  PROVE  HashesInv'
<1>1. \A d : readOnlyHashes(d)' = readOnlyHashes(d)
  BY HashesAlike
<1>2. PICK n \in DOMAIN Persons[u] : data = Persons[u][n]
  BY DEF HadData
<1>3. /\ HashesOf(data).fields = readOnlyHashes(Persons[u][n])
      /\ HashesOf(data).expireAt \in Nat
  BY <1>2, AccessAssumption DEF HashesOf
<1>4. PICK document : document = HashesOf(data)
  OBVIOUS
<1>5. /\ DOMAIN hashes' = Users /\ hashes'[u] = {document}
      /\ \A w \in Users \ {u} : hashes'[w] = hashes[w]
  BY <1>4 DEF HashesInv, HadData
<1>6. ASSUME NEW w \in Users, NEW kept \in hashes'[w]
      PROVE  /\ kept.expireAt \in Nat
             /\ \E m \in DOMAIN Persons[w] :
                   kept.fields = readOnlyHashes(Persons[w][m])
  <2>1. CASE w = u
    BY <1>2, <1>3, <1>4, <1>5, <1>6, <2>1
  <2>2. CASE w # u
    BY <1>5, <1>6, <2>2 DEF HashesInv
  <2>. QED  BY <2>1, <2>2
<1>. QED  BY <1>1, <1>5, <1>6 DEF HashesInv

(* The page does not know what happens to the cookie and the hashes.       *)
LEMMA SentAlike ==
  ASSUME UNCHANGED <<form, sent>>
  PROVE  /\ \A i \in fields : SentAnswer(i)' = SentAnswer(i)
         /\ ReceivedAnswers' = ReceivedAnswers
         /\ \A i \in fields : IsShown(ReceivedAnswers, i)'
                                 <=> IsShown(ReceivedAnswers, i)
<1>1. \A i \in fields : SentAnswer(i)' = SentAnswer(i)
  BY DEF SentAnswer, IsShown, ClearedValue
<1>2. ReceivedAnswers' = ReceivedAnswers
  BY <1>1 DEF ReceivedAnswers, isReadable, fields
<1>. QED  BY <1>1, <1>2 DEF IsShown

LEMMA HashedKept ==
  ASSUME HashedInv, UNCHANGED <<form, uiState, sent, sentCookie, verdict>>
  PROVE  HashedInv'
<1>1. fields' = fields /\ (Judged' <=> Judged) /\ (uinFin' = uinFin)
  BY DEF fields, Judged, uinFin
<1>. QED  BY <1>1, SentAlike DEF HashedInv

LEMMA ViewKept ==
  ASSUME ViewInv, form \in Forms, UNCHANGED <<form, stage, view, session>>,
         uiState' # "DEFAULT" => stage = "form"
  PROVE  ViewInv'
<1>1. HasMyInfo' <=> HasMyInfo
  BY DEF HasMyInfo, IsMyInfo, fields
<1>. QED  BY <1>1 DEF ViewInv, HadData

LEMMA MyInfoKept ==
  ASSUME MyInfoInv, UNCHANGED <<form, view>>,
         stage' \in Viewed => stage \in Viewed,
         now \in Nat, now' \in Nat, now <= now', CookieOK(view.cookie),
         view.cookie # None /\ ~view.cookie.rememberMe
            /\ IsValidJWT(view.cookie) /\ form.authType = "SP"
            /\ HashesKept(view.cookie)
            => HashesKept(view.cookie)'
  PROVE  MyInfoInv'
<1>1. HasMyInfo' <=> HasMyInfo
  BY DEF HasMyInfo, IsMyInfo, fields
<1>2. IsValidJWT(view.cookie)' => IsValidJWT(view.cookie)
  <2>. SUFFICES ASSUME view.cookie # None, now' < view.cookie.expires
                PROVE  now < view.cookie.expires
    BY DEF IsValidJWT
  <2>1. view.cookie.expires \in Nat
    BY DEF CookieOK
  <2>2. PICK e, n, m : e = view.cookie.expires /\ n = now /\ m = now'
    OBVIOUS
  <2>3. n < e
    BY <2>1, <2>2
  <2>. QED  BY <2>2, <2>3
<1>3. IsValidJWT(view.cookie) => view.cookie # None
  BY DEF IsValidJWT
<1>. QED  BY <1>1, <1>2, <1>3 DEF MyInfoInv, IsValidJWT

LEMMA LockedKept ==
  ASSUME LockedInv, UNCHANGED <<form, view, disabled>>,
         stage' \in {"asked", "fetched", "answered"} =>
             stage \in {"asked", "fetched", "answered"},
         stage' = "form" => stage = "form",
         \A i \in disabled : fieldValue'[i] = fieldValue[i]
  PROVE  LockedInv'
BY DEF LockedInv, IsMyInfo, fields, isFieldReadOnly


-----------------------------------------------------------------------------
(* The steps of the login, of the request for the form and of other tabs   *)

(* A page that is loaded knows nothing yet.                                *)
LEMMA Loaded ==
  ASSUME FillingInv, AccessInv, NEW jwt, CookieOK(jwt), LoadWith(jwt),
         UNCHANGED <<now, versions, hashes>>,
         cookie' = None \/ cookie' = cookie \/ cookie' = jwt
  PROVE  AccessInv'
<1>1. /\ stage' = "asked" /\ view' = [NoView EXCEPT !.cookie = jwt]
      /\ session' = None /\ sentCookie' = None
      /\ disabled' = {} /\ uiState' = "DEFAULT" /\ verdict' = None
      /\ form' = form
  BY DEF LoadWith, Start
<1>2. view' = [cookie |-> jwt, data |-> None, myInfoError |-> FALSE]
  BY <1>1 DEF NoView
<1>3. view'.cookie = jwt /\ view'.data = None
  BY <1>2
<1>4. CookiesInv'
  BY <1>1, <1>3 DEF AccessInv, CookiesInv, CookieOK
<1>5. HashesInv'
  BY <1>1, DocumentsKept DEF AccessInv
<1>6. ViewInv'
  <2>1. view' = [cookie |-> view'.cookie, data |-> view'.data,
                 myInfoError |-> view'.myInfoError]
    BY <1>2
  <2>. QED  BY <1>1, <1>3, <2>1 DEF ViewInv, Stages
<1>7. MyInfoInv' /\ LockedInv' /\ HashedInv'
  BY <1>1 DEF MyInfoInv, Viewed, LockedInv, HashedInv, Judged
<1>. QED  BY <1>4, <1>5, <1>6, <1>7 DEF AccessInv

LEMMA ViewFormKeeps ==
  ASSUME Inv, ViewForm
  PROVE  Inv'
<1>1. /\ FillingInv /\ AccessInv /\ CookieOK(cookie) /\ LoadWith(cookie)
      /\ UNCHANGED <<now, cookie, versions, hashes>>
  BY DEF Inv, AccessInv, CookiesInv, ViewForm
<1>. QED  BY <1>1, LoadKeeps, Loaded DEF Inv

LEMMA LogoutKeeps ==
  ASSUME Inv, logout
  PROVE  Inv'
<1>1. /\ FillingInv /\ AccessInv /\ LoadWith(None) /\ cookie' = None
      /\ UNCHANGED <<now, versions, hashes>>
  BY DEF Inv, logout
<1>2. CookieOK(None)
  BY DEF CookieOK
<1>. QED  BY <1>1, <1>2, LoadKeeps, Loaded DEF Inv

LEMMA LoginFailsKeeps ==
  ASSUME Inv, LoginFails
  PROVE  Inv'
<1>1. /\ FillingInv /\ AccessInv /\ CookieOK(cookie) /\ LoadWith(cookie)
      /\ UNCHANGED <<now, cookie, versions, hashes>>
  BY DEF Inv, AccessInv, CookiesInv, LoginFails
<1>. QED  BY <1>1, LoadKeeps, Loaded DEF Inv

LEMMA CookieMade ==
  ASSUME form \in Forms, NEW u \in Users, NEW rememberMe \in BOOLEAN, now \in Nat
  PROVE  /\ createJWT(u, rememberMe).userName \in Users
         /\ createJWT(u, rememberMe).rememberMe \in BOOLEAN
         /\ createJWT(u, rememberMe).expires \in Nat
         /\ form.authType = "SP" /\ ~createJWT(u, rememberMe).rememberMe =>
               createJWT(u, rememberMe).expires <= now + spCookieMaxAge
<1>1. /\ createJWT(u, rememberMe).userName = u
      /\ createJWT(u, rememberMe).rememberMe = rememberMe
      /\ createJWT(u, rememberMe).expires = now + cookieDuration(rememberMe)
  BY DEF createJWT
<1>2. /\ cookieDuration(rememberMe) \in Nat
      /\ form.authType = "SP" /\ ~rememberMe =>
            cookieDuration(rememberMe) = spCookieMaxAge
  BY AccessAssumption DEF cookieDuration
<1>3. now + cookieDuration(rememberMe) \in Nat
  BY <1>2
<1>4. form.authType = "SP" /\ ~rememberMe =>
         now + cookieDuration(rememberMe) <= now + spCookieMaxAge
  BY <1>2, AccessAssumption
<1>. QED  BY <1>1, <1>3, <1>4

LEMMA LoginKeeps ==
  ASSUME Inv, NEW u \in Users, Login(u)
  PROVE  Inv'
<1>1. PICK rememberMe \in {FALSE, OffersRememberMe} :
         /\ cookie' = createJWT(u, rememberMe)
         /\ LoadWith(createJWT(u, rememberMe))
  BY DEF Login
<1>2. rememberMe \in BOOLEAN
  BY <1>1 DEF OffersRememberMe
<1>3. /\ FillingInv /\ AccessInv /\ form \in Forms /\ now \in Nat
      /\ UNCHANGED <<now, versions, hashes>>
  BY DEF Inv, FillingInv, PageInv, AccessInv, CookiesInv, Login
<1>4. CookieOK(createJWT(u, rememberMe))
  BY <1>2, <1>3, CookieMade DEF CookieOK
<1>. QED  BY <1>1, <1>3, <1>4, LoadKeeps, Loaded DEF Inv

LEMMA FetchKeeps ==
  ASSUME Inv, fetchMyInfo
  PROVE  Inv'
<1>1. /\ FillingInv /\ AccessInv /\ StateInv /\ ViewInv /\ LockedInv
      /\ CookiesInv /\ HashesInv /\ now \in Nat
      /\ stage = "asked" /\ UNCHANGED formVars
      /\ UNCHANGED <<now, cookie, versions, hashes, session, sentCookie>>
  BY DEF Inv, AccessInv, FillingInv, CookiesInv, fetchMyInfo
<1>2. /\ form' = form /\ uiState' = "DEFAULT" /\ verdict' = None
      /\ disabled' = disabled /\ disabled = {} /\ fields' = fields
      /\ view.data = None
  BY <1>1 DEF formVars, pageVars, submissionVars, ViewInv, StateInv, LockedInv,
              fields
<1>3. FillingInv'
  BY <1>1, NothingFilled
<1>4. view'.cookie = view.cookie /\ stage' \in {"fetched", "answered"}
  BY <1>1 DEF fetchMyInfo, ViewInv
<1>5. CookiesInv'
  BY <1>1, <1>2, <1>4, CookiesKept DEF CookiesInv
<1>6. HashesInv'
  BY <1>1, <1>2, DocumentsKept
<1>7. LockedInv' /\ HashedInv'
  BY <1>2, <1>4 DEF LockedInv, HashedInv, Judged
<1>8. spcpSession # None =>
         /\ view.cookie # None /\ IsValidJWT(view.cookie)
         /\ spcpSession = view.cookie.userName /\ spcpSession \in Users
  BY <1>1 DEF spcpSession, IsValidJWT, CookiesInv, CookieOK
<1>9. IsValidJWT(view.cookie) => spcpSession # None
  BY <1>1, AccessAssumption DEF spcpSession, IsValidJWT, CookiesInv, CookieOK
<1>10. HasMyInfo' <=> HasMyInfo
  BY <1>2 DEF HasMyInfo, IsMyInfo
<1>11. CASE /\ AsksMyInfo
            /\ view' = [view EXCEPT !.data = PersonData(spcpSession)]
            /\ stage' = "fetched"
  <2>1. /\ view' = [cookie |-> view.cookie, data |-> PersonData(spcpSession),
                    myInfoError |-> view.myInfoError]
    BY <1>1, <1>11 DEF ViewInv
  <2>2. spcpSession \in Users /\ spcpSession = view.cookie.userName
        /\ view.cookie # None
    BY <1>8, <1>11 DEF AsksMyInfo
  <2>3. HadData(spcpSession, PersonData(spcpSession))
    BY <1>1, <2>2 DEF HadData, PersonData, HashesInv
  <2>4. PersonData(spcpSession) # None
    <3>1. PersonData(spcpSession) \in ToSet(Persons[spcpSession])
      BY <2>3 DEF HadData, ToSet
    <3>. QED  BY <2>2, <3>1, AccessAssumption
  <2>5. /\ view'.cookie = view.cookie /\ view'.data = PersonData(spcpSession)
        /\ view' = [cookie |-> view'.cookie, data |-> view'.data,
                    myInfoError |-> view'.myInfoError]
    BY <2>1
  <2>6. ViewInv'
    BY <1>2, <1>11, <2>2, <2>3, <2>4, <2>5 DEF ViewInv, Stages, HadData
  <2>7. MyInfoInv'
    BY <1>11 DEF MyInfoInv, Viewed
  <2>. QED  BY <1>3, <1>5, <1>6, <1>7, <2>6, <2>7 DEF Inv, AccessInv
<1>12. CASE /\ view' = [view EXCEPT !.myInfoError = TRUE]
            /\ stage' = "answered"
  <2>1. view' = [cookie |-> view.cookie, data |-> None, myInfoError |-> TRUE]
    BY <1>1, <1>2, <1>12 DEF ViewInv
  <2>2. /\ view'.data = None /\ view'.myInfoError
        /\ view' = [cookie |-> view'.cookie, data |-> view'.data,
                    myInfoError |-> view'.myInfoError]
    BY <2>1
  <2>3. ViewInv' /\ MyInfoInv'
    BY <1>2, <1>12, <2>2 DEF ViewInv, Stages, MyInfoInv
  <2>. QED  BY <1>3, <1>5, <1>6, <1>7, <2>3 DEF Inv, AccessInv
<1>13. CASE ~AsksMyInfo /\ view' = view /\ stage' = "answered"
  <2>1. ViewInv'
    BY <1>1, <1>2, <1>13 DEF ViewInv, Stages
  <2>2. MyInfoInv'
    <3>1. IsValidJWT(view.cookie)' <=> IsValidJWT(view.cookie)
      BY <1>1, <1>13 DEF IsValidJWT
    <3>. QED  BY <1>2, <1>9, <1>10, <1>13, <3>1 DEF MyInfoInv, AsksMyInfo
  <2>. QED  BY <1>3, <1>5, <1>6, <1>7, <2>1, <2>2 DEF Inv, AccessInv
<1>. QED  BY <1>11, <1>12, <1>13 DEF fetchMyInfo


(* What happens elsewhere, and the server's part, the page does not notice.*)
LEMMA Undisturbed ==
  ASSUME Inv, UNCHANGED <<formVars, stage, view, session, sentCookie>>
  PROVE  /\ FillingInv' /\ ViewInv' /\ LockedInv' /\ HashedInv'
         /\ form' = form /\ form \in Forms /\ now \in Nat
         /\ CookiesInv /\ HashesInv /\ MyInfoInv /\ ViewInv
         /\ CookieOK(view.cookie)
<1>1. /\ FillingInv /\ ViewInv /\ LockedInv /\ HashedInv /\ form \in Forms
      /\ CookiesInv /\ HashesInv /\ MyInfoInv /\ now \in Nat
      /\ CookieOK(view.cookie)
  BY DEF Inv, AccessInv, FillingInv, PageInv, CookiesInv
<1>2. /\ form' = form /\ uiState' = uiState /\ sent' = sent /\ verdict' = verdict
      /\ disabled' = disabled /\ fieldValue' = fieldValue
  BY DEF formVars, pageVars, submissionVars
<1>3. FillingInv'
  BY <1>1, NothingFilled
<1>4. uiState' # "DEFAULT" => stage = "form"
  BY <1>1, <1>2 DEF ViewInv
<1>5. ViewInv' /\ LockedInv' /\ HashedInv'
  BY <1>1, <1>2, <1>4, ViewKept, LockedKept, HashedKept
<1>. QED  BY <1>1, <1>2, <1>3, <1>5

LEMMA LogoutElsewhereKeeps ==
  ASSUME Inv, LogoutElsewhere
  PROVE  Inv'
<1>1. /\ UNCHANGED <<formVars, now, versions, hashes, stage, view, session,
                     sentCookie>>
      /\ cookie' = None
  BY DEF LogoutElsewhere
<1>2. /\ FillingInv' /\ ViewInv' /\ LockedInv' /\ HashedInv'
      /\ form' = form /\ now \in Nat /\ CookiesInv /\ HashesInv /\ MyInfoInv
      /\ CookieOK(view.cookie)
  BY <1>1, Undisturbed
<1>3. now' \in Nat /\ now <= now'
  BY <1>1, <1>2
<1>4. CookiesInv'
  BY <1>1, <1>2, <1>3, CookiesKept
<1>5. HashesInv'
  BY <1>1, <1>2, DocumentsKept
<1>6. HashesKept(view.cookie) => HashesKept(view.cookie)'
  BY <1>1 DEF HashesKept
<1>7. MyInfoInv'
  BY <1>1, <1>2, <1>3, <1>6, MyInfoKept
<1>. QED  BY <1>2, <1>4, <1>5, <1>7 DEF Inv, AccessInv

LEMMA LoginElsewhereKeeps ==
  ASSUME Inv, NEW u \in Users, LoginElsewhere(u)
  PROVE  Inv'
<1>1. /\ UNCHANGED <<formVars, now, versions, hashes, stage, view, session,
                     sentCookie>>
      /\ \E rememberMe \in {FALSE, form.authType = "SP"} :
            cookie' = createJWT(u, rememberMe)
  BY DEF LoginElsewhere
<1>2. /\ FillingInv' /\ ViewInv' /\ LockedInv' /\ HashedInv'
      /\ form' = form /\ now \in Nat /\ CookiesInv /\ HashesInv /\ MyInfoInv
      /\ CookieOK(view.cookie) /\ form \in Forms
  BY <1>1, Undisturbed
<1>3. PICK rememberMe \in BOOLEAN : cookie' = createJWT(u, rememberMe)
  BY <1>1
<1>4. CookiesInv'
  <2>1. /\ cookie'.userName \in Users
        /\ cookie'.rememberMe \in BOOLEAN
        /\ cookie'.expires \in Nat
        /\ form.authType = "SP" /\ ~cookie'.rememberMe =>
              cookie'.expires <= now + spCookieMaxAge
    BY <1>2, <1>3, CookieMade
  <2>. QED  BY <1>1, <1>2, <2>1 DEF CookiesInv, CookieOK
<1>5. HashesInv'
  BY <1>1, <1>2, DocumentsKept
<1>6. HashesKept(view.cookie) => HashesKept(view.cookie)'
  BY <1>1 DEF HashesKept
<1>7. MyInfoInv'
  <2>1. now' \in Nat /\ now <= now'
    BY <1>1, <1>2
  <2>. QED  BY <1>1, <1>2, <1>6, <2>1, MyInfoKept
<1>. QED  BY <1>2, <1>4, <1>5, <1>7 DEF Inv, AccessInv

LEMMA PersonChangesKeeps ==
  ASSUME Inv, NEW u \in Users, PersonChanges(u)
  PROVE  Inv'
<1>1. /\ UNCHANGED <<formVars, now, cookie, hashes, stage, view, session,
                     sentCookie>>
      /\ versions[u] < Len(Persons[u])
      /\ versions' = [versions EXCEPT ![u] = @ + 1]
  BY DEF PersonChanges
<1>2. /\ FillingInv' /\ ViewInv' /\ LockedInv' /\ HashedInv'
      /\ form' = form /\ now \in Nat /\ CookiesInv /\ HashesInv /\ MyInfoInv
      /\ CookieOK(view.cookie)
  BY <1>1, Undisturbed
<1>3. now' \in Nat /\ now <= now'
  BY <1>1, <1>2
<1>4. CookiesInv'
  BY <1>1, <1>2, <1>3, CookiesKept
<1>5. HashesInv'
  <2>1. \A data : readOnlyHashes(data)' = readOnlyHashes(data)
    BY <1>2, HashesAlike
  <2>2. versions[u] + 1 \in DOMAIN Persons[u]
    <3>1. Persons[u] \in Seq(ToSet(Persons[u]))
      BY AccessAssumption
    <3>2. PICK S : S = ToSet(Persons[u])
      OBVIOUS
    <3>3. Persons[u] \in Seq(S)
      BY <3>1, <3>2
    <3>4. DOMAIN Persons[u] = 1 .. Len(Persons[u]) /\ Len(Persons[u]) \in Nat
      BY <3>3
    <3>5. versions[u] \in DOMAIN Persons[u]
      BY <1>2 DEF HashesInv
    <3>6. PICK v, n : v = versions[u] /\ n = Len(Persons[u])
      OBVIOUS
    <3>7. v \in 1 .. n /\ n \in Nat /\ v < n
      BY <1>1, <3>4, <3>5, <3>6
    <3>8. v + 1 \in 1 .. n
      BY <3>7
    <3>. QED  BY <3>4, <3>6, <3>8
  <2>3. DOMAIN versions' = Users
        /\ \A w \in Users : versions'[w] \in DOMAIN Persons[w]
    BY <1>1, <1>2, <2>2 DEF HashesInv
  <2>. QED  BY <1>1, <1>2, <2>1, <2>3 DEF HashesInv
<1>6. HashesKept(view.cookie) => HashesKept(view.cookie)'
  BY <1>1 DEF HashesKept
<1>7. MyInfoInv'
  BY <1>1, <1>2, <1>3, <1>6, MyInfoKept
<1>. QED  BY <1>2, <1>4, <1>5, <1>7 DEF Inv, AccessInv

LEMMA TickKeeps ==
  ASSUME Inv, Tick
  PROVE  Inv'
<1>1. /\ UNCHANGED <<formVars, versions, hashes, stage, view, session,
                     sentCookie>>
      /\ now' = now + 1
      /\ cookie' \in {None, cookie}
  BY DEF Tick
<1>2. /\ FillingInv' /\ ViewInv' /\ LockedInv' /\ HashedInv'
      /\ form' = form /\ now \in Nat /\ CookiesInv /\ HashesInv /\ MyInfoInv
      /\ CookieOK(view.cookie)
  BY <1>1, Undisturbed
<1>3. now' \in Nat /\ now <= now'
  BY <1>1, <1>2
<1>4. CookiesInv'
  BY <1>1, <1>2, <1>3, CookiesKept
<1>5. HashesInv'
  BY <1>1, <1>2, DocumentsKept
<1>6. HashesKept(view.cookie) => HashesKept(view.cookie)'
  BY <1>1 DEF HashesKept
<1>7. MyInfoInv'
  BY <1>1, <1>2, <1>3, <1>6, MyInfoKept
<1>. QED  BY <1>2, <1>4, <1>5, <1>7 DEF Inv, AccessInv

(* The hashes outlive the cookie.                                          *)
LEMMA HashesExpireKeeps ==
  ASSUME Inv, NEW u \in Users, HashesExpire(u)
  PROVE  Inv'
<1>1. /\ UNCHANGED <<formVars, now, cookie, versions, stage, view, session,
                     sentCookie>>
      /\ hashes' = [hashes EXCEPT ![u] = {}]
  BY DEF HashesExpire
<1>2. /\ FillingInv' /\ ViewInv' /\ LockedInv' /\ HashedInv'
      /\ form' = form /\ now \in Nat /\ CookiesInv /\ HashesInv /\ MyInfoInv
      /\ CookieOK(view.cookie)
  BY <1>1, Undisturbed
<1>3. PICK kept \in hashes[u] : kept.expireAt <= now
  BY DEF HashesExpire
<1>4. CookiesInv'
  <2>1. now' \in Nat /\ now <= now'
    BY <1>1, <1>2
  <2>. QED  BY <1>1, <1>2, <2>1, CookiesKept
<1>5. /\ DOMAIN hashes' = Users /\ hashes'[u] = {}
      /\ \A w \in Users \ {u} : hashes'[w] = hashes[w]
  BY <1>1, <1>2 DEF HashesInv
<1>6. HashesInv'
  <2>1. \A data : readOnlyHashes(data)' = readOnlyHashes(data)
    BY <1>2, HashesAlike
  <2>2. \A w \in Users : hashes'[w] \subseteq hashes[w]
    BY <1>5
  <2>. QED  BY <1>1, <1>2, <1>5, <2>1, <2>2 DEF HashesInv
<1>7. ASSUME view.cookie # None, IsValidJWT(view.cookie), HashesKept(view.cookie)
      PROVE  HashesKept(view.cookie)'
  <2>1. view.cookie.userName \in Users /\ view.cookie.expires \in Nat
    BY <1>2, <1>7 DEF CookieOK
  <2>2. view.cookie.userName # u
    <3>. SUFFICES ASSUME view.cookie.userName = u
                  PROVE  FALSE
      OBVIOUS
    <3>1. /\ view.cookie.expires <= kept.expireAt /\ kept.expireAt \in Nat
          /\ now < view.cookie.expires
      BY <1>2, <1>3, <1>7 DEF HashesKept, HashesInv, IsValidJWT
    <3>2. PICK n, e, k : n = now /\ e = view.cookie.expires /\ k = kept.expireAt
      OBVIOUS
    <3>3. n \in Nat /\ e \in Nat /\ k \in Nat /\ k <= n /\ n < e /\ e <= k
      BY <1>2, <1>3, <2>1, <3>1, <3>2
    <3>. QED  BY <3>3
  <2>3. hashes'[view.cookie.userName] = hashes[view.cookie.userName]
    BY <1>5, <2>1, <2>2
  <2>. QED  BY <1>1, <1>7, <2>3 DEF HashesKept
<1>8. MyInfoInv'
  <2>1. now' \in Nat /\ now <= now'
    BY <1>1, <1>2
  <2>. QED  BY <1>1, <1>2, <1>7, <2>1, MyInfoKept
<1>. QED  BY <1>2, <1>4, <1>6, <1>8 DEF Inv, AccessInv

(* Hashes that are saved now outlive a cookie that was made before.        *)
LEMMA NewHashes ==
  ASSUME CookiesInv, HashesInv, form' = form, view'.cookie = view.cookie,
         view.cookie # None, form.authType = "SP", ~view.cookie.rememberMe,
         NEW data, hashes'[view.cookie.userName] = {HashesOf(data)}
  PROVE  HashesKept(view.cookie)'
<1>1. /\ view.cookie.expires <= now + spCookieMaxAge
  BY DEF CookiesInv, CookieOK
<1>2. HashesOf(data).expireAt = now + spCookieMaxAge
  BY DEF HashesOf
<1>3. PICK document : document = HashesOf(data)
  OBVIOUS
<1>. QED  BY <1>1, <1>2, <1>3 DEF HashesKept

LEMMA ViewElsewhereKeeps ==
  ASSUME Inv, NEW u \in Users, ViewElsewhere(u)
  PROVE  Inv'
<1>1. PICK n \in 1 .. versions[u] :
         hashes' = [hashes EXCEPT ![u] = {HashesOf(Persons[u][n])}]
  BY DEF ViewElsewhere
<1>2. UNCHANGED <<formVars, now, cookie, versions, stage, view, session,
                  sentCookie>>
  BY DEF ViewElsewhere
<1>3. /\ FillingInv' /\ ViewInv' /\ LockedInv' /\ HashedInv'
      /\ form' = form /\ now \in Nat /\ CookiesInv /\ HashesInv /\ MyInfoInv
      /\ CookieOK(view.cookie)
  BY <1>2, Undisturbed
<1>4. HadData(u, Persons[u][n])
  <2>1. n \in DOMAIN Persons[u]
    <3>1. Persons[u] \in Seq(ToSet(Persons[u]))
      BY AccessAssumption
    <3>2. PICK S : S = ToSet(Persons[u])
      OBVIOUS
    <3>3. DOMAIN Persons[u] = 1 .. Len(Persons[u]) /\ Len(Persons[u]) \in Nat
      BY <3>1, <3>2
    <3>4. versions[u] \in DOMAIN Persons[u]
      BY <1>3 DEF HashesInv
    <3>5. PICK v, l : v = versions[u] /\ l = Len(Persons[u])
      OBVIOUS
    <3>6. n \in 1 .. v /\ v \in 1 .. l /\ l \in Nat
      BY <3>3, <3>4, <3>5
    <3>7. n \in 1 .. l
      BY <3>6
    <3>. QED  BY <3>3, <3>5, <3>7
  <2>. QED  BY <2>1 DEF HadData
<1>5. HashesInv'
  BY <1>1, <1>2, <1>3, <1>4, DocumentReplaced
<1>6. CookiesInv'
  <2>1. now' \in Nat /\ now <= now'
    BY <1>2, <1>3
  <2>. QED  BY <1>2, <1>3, <2>1, CookiesKept
<1>7. ASSUME view.cookie # None, ~view.cookie.rememberMe, form.authType = "SP",
             HashesKept(view.cookie)
      PROVE  HashesKept(view.cookie)'
  <2>1. view.cookie.userName \in Users /\ DOMAIN hashes = Users
    BY <1>3, <1>7 DEF CookieOK, HashesInv
  <2>2. CASE view.cookie.userName = u
    <3>1. hashes'[view.cookie.userName] = {HashesOf(Persons[u][n])}
      BY <1>1, <2>1, <2>2
    <3>2. view'.cookie = view.cookie
      BY <1>2
    <3>. QED  BY <1>3, <1>7, <3>1, <3>2, NewHashes
  <2>3. CASE view.cookie.userName # u
    <3>1. hashes'[view.cookie.userName] = hashes[view.cookie.userName]
      BY <1>1, <2>1, <2>3
    <3>. QED  BY <1>2, <1>7, <3>1 DEF HashesKept
  <2>. QED  BY <2>2, <2>3
<1>8. MyInfoInv'
  <2>1. now' \in Nat /\ now <= now'
    BY <1>2, <1>3
  <2>. QED  BY <1>2, <1>3, <1>7, <2>1, MyInfoKept
<1>. QED  BY <1>3, <1>5, <1>6, <1>8 DEF Inv, AccessInv

LEMMA SaveKeeps ==
  ASSUME Inv, saveHashes
  PROVE  Inv'
<1>. DEFINE u == view.cookie.userName
            saved == [hashes EXCEPT ![u] = {HashesOf(view.data)}]
<1>1. /\ FillingInv /\ StateInv /\ ViewInv /\ LockedInv /\ CookiesInv
      /\ HashesInv /\ now \in Nat /\ stage = "fetched" /\ stage' = "answered"
      /\ UNCHANGED <<formVars, now, cookie, versions, session, sentCookie>>
      /\ \/ hashes' = saved /\ view' = view
         \/ /\ hashes' \in {hashes, saved}
            /\ view' = [view EXCEPT !.myInfoError = TRUE]
  BY DEF Inv, AccessInv, FillingInv, CookiesInv, saveHashes
<1>2. /\ form' = form /\ uiState' = "DEFAULT" /\ verdict' = None
      /\ disabled' = disabled /\ disabled = {} /\ fields' = fields
      /\ view.cookie # None /\ view.data # None /\ HadData(u, view.data)
  BY <1>1 DEF formVars, pageVars, submissionVars, ViewInv, StateInv, LockedInv,
              fields
<1>3. FillingInv'
  BY <1>1, NothingFilled
<1>4. /\ view'.cookie = view.cookie /\ view'.data = view.data
      /\ view' = [cookie |-> view'.cookie, data |-> view'.data,
                  myInfoError |-> view'.myInfoError]
  <2>1. view = [cookie |-> view.cookie, data |-> view.data,
                myInfoError |-> view.myInfoError]
    BY <1>1 DEF ViewInv
  <2>2. CASE view' = view
    BY <2>1, <2>2
  <2>3. CASE view' = [view EXCEPT !.myInfoError = TRUE]
    BY <2>1, <2>3
  <2>. QED  BY <1>1, <2>2, <2>3
<1>5. CookiesInv'
  <2>1. now' \in Nat /\ now <= now'
    BY <1>1
  <2>. QED  BY <1>1, <1>2, <1>4, <2>1, CookiesKept
<1>6. HashesInv'
  <2>1. CASE hashes' = hashes
    BY <1>1, <1>2, <2>1, DocumentsKept
  <2>2. CASE hashes' = saved
    BY <1>1, <1>2, <2>2, DocumentReplaced
  <2>. QED  BY <1>1, <2>1, <2>2
<1>7. LockedInv' /\ HashedInv'
  BY <1>1, <1>2 DEF LockedInv, HashedInv, Judged
<1>8. ViewInv'
  <2>1. HadData(view.cookie.userName, view.data)'
    BY <1>2, <1>4 DEF HadData
  <2>. QED  BY <1>1, <1>2, <1>4, <2>1 DEF ViewInv, Stages
<1>9. MyInfoInv'
  <2>. SUFFICES ASSUME ~view'.myInfoError, form.authType = "SP",
                       ~view.cookie.rememberMe
                PROVE  HashesKept(view.cookie)'
    BY <1>2, <1>4 DEF MyInfoInv
  <2>1. hashes' = saved
    <3>. SUFFICES ASSUME view' = [view EXCEPT !.myInfoError = TRUE]
                  PROVE  FALSE
      BY <1>1
    <3>1. view' = [cookie |-> view.cookie, data |-> view.data,
                   myInfoError |-> TRUE]
      BY <1>1 DEF ViewInv
    <3>. QED  BY <3>1
  <2>2. hashes'[view.cookie.userName] = {HashesOf(view.data)}
    BY <1>1, <1>2, <2>1 DEF HashesInv, HadData
  <2>. QED  BY <1>1, <1>2, <1>4, <2>2, NewHashes
<1>. QED  BY <1>3, <1>5, <1>6, <1>7, <1>8, <1>9 DEF Inv, AccessInv

LEMMA RefusedKeeps ==
  ASSUME Inv, LoginRefused
  PROVE  Inv'
<1>1. /\ FillingInv /\ ViewInv /\ LockedInv /\ HashedInv /\ form \in Forms
      /\ CookiesInv /\ HashesInv /\ now \in Nat
      /\ stage = "start" /\ stage' = "away"
      /\ UNCHANGED <<formVars, now, cookie, versions, hashes, view, session,
                     sentCookie>>
  BY DEF Inv, AccessInv, FillingInv, PageInv, CookiesInv, LoginRefused
<1>2. /\ form' = form /\ uiState' = uiState /\ sent' = sent /\ verdict' = verdict
      /\ disabled' = disabled /\ fieldValue' = fieldValue
  BY <1>1 DEF formVars, pageVars, submissionVars
<1>3. FillingInv'
  BY <1>1, NothingFilled
<1>4. CookiesInv' /\ HashesInv'
  <2>1. now' \in Nat /\ now <= now'
    BY <1>1
  <2>. QED  BY <1>1, <1>2, <2>1, CookiesKept, DocumentsKept
<1>5. ViewInv'
  BY <1>1, <1>2 DEF ViewInv, Stages, HadData
<1>6. LockedInv' /\ HashedInv'
  BY <1>1, <1>2, LockedKept, HashedKept
<1>7. MyInfoInv'
  BY <1>1 DEF MyInfoInv, Viewed
<1>. QED  BY <1>3, <1>4, <1>5, <1>6, <1>7 DEF Inv, AccessInv

LEMMA DisplayedKeeps ==
  ASSUME Inv, ~LogsOutAtStart(setUser), stage = "answered", DisplayForm
  PROVE  Inv'
<1>1. /\ FillingInv /\ ViewInv /\ form \in Forms /\ MyInfoInv
      /\ CookiesInv /\ HashesInv /\ now \in Nat
      /\ CookieOK(cookie) /\ CookieOK(view.cookie)
      /\ session' = setUser
      /\ stage' = IF NeedsLogin /\ setUser = None THEN "start"
                  ELSE IF view.myInfoError THEN "locked" ELSE "form"
      /\ UNCHANGED <<now, cookie, versions, hashes, view, sentCookie>>
  BY DEF Inv, AccessInv, FillingInv, PageInv, CookiesInv, DisplayForm
<1>2. /\ form' = form /\ uiState' = "DEFAULT" /\ verdict' = None
      /\ disabled' = prefilledDisabled /\ fieldValue' = prefilledFields
  BY DEF DisplayForm, Start
<1>3. FillingInv'
  BY <1>1, DisplayKeeps
<1>4. CookiesInv' /\ HashesInv'
  <2>1. now' \in Nat /\ now <= now'
    BY <1>1
  <2>. QED  BY <1>1, <1>2, <2>1, CookiesKept, DocumentsKept
<1>5. fields' = fields /\ (HasMyInfo' <=> HasMyInfo)
  BY <1>2 DEF HasMyInfo, IsMyInfo, fields
<1>6. ViewInv'
  <2>1. stage' \in Stages /\ stage' \notin {"asked", "fetched"}
    BY <1>1 DEF Stages
  <2>2. ASSUME stage' = "form"
        PROVE  /\ ~view.myInfoError
               /\ form.authType = "SP" /\ HasMyInfo => ~session'.rememberMe
    <3>1. ~view.myInfoError /\ ~(NeedsLogin /\ setUser = None)
      BY <1>1, <2>2
    <3>. QED  BY <1>1, <3>1 DEF NeedsLogin, LogsOutAtStart
  <2>. QED  BY <1>1, <1>2, <1>5, <2>1, <2>2 DEF ViewInv, HadData
<1>7. MyInfoInv'
  <2>1. HashesKept(view.cookie)' <=> HashesKept(view.cookie)
    BY <1>1 DEF HashesKept
  <2>2. IsValidJWT(view.cookie)' <=> IsValidJWT(view.cookie)
    BY <1>1 DEF IsValidJWT
  <2>. QED  BY <1>1, <1>2, <1>5, <2>1, <2>2 DEF MyInfoInv, Viewed
<1>8. LockedInv'
  <2>1. stage' \notin {"asked", "fetched", "answered"}
    BY <1>1
  <2>2. \A i \in disabled' :
           /\ i \in fields /\ IsMyInfo(i) /\ view.data # None
           /\ fieldValue'[i] = view.data[form.myInfo[i]].value
    BY <1>2 DEF prefilledDisabled, prefilledFields
  <2>3. view.data # None =>
           \A i \in fields :
               IsMyInfo(i) /\ isFieldReadOnly(form.myInfo[i], view.data)
                   => i \in disabled'
    BY <1>2 DEF prefilledDisabled
  <2>. QED  BY <1>1, <1>2, <1>5, <2>1, <2>2, <2>3
            DEF LockedInv, IsMyInfo, isFieldReadOnly
<1>9. HashedInv'
  BY <1>2 DEF HashedInv, Judged
<1>. QED  BY <1>3, <1>4, <1>6, <1>7, <1>8, <1>9 DEF Inv, AccessInv


-----------------------------------------------------------------------------
(* What filling in the form changes                                        *)

(* Tables and files aside, a field changes only as it is filled in.        *)
LEMMA OthersKept ==
  ASSUME FillingInv, NEW k \in fields,
         \/ FillCell(k) \/ AddTableRow(k) \/ DeleteTableRow(k)
         \/ RemoveFile(k) \/ AdvanceFile(k)
         \/ \E f \in form.files : UploadFile(k, f)
  PROVE  /\ \A i \in fields :
               form.form_fields[i].fieldType \notin {"table", "attachment"}
                   => fieldValue'[i] = fieldValue[i]
         /\ UNCHANGED <<pageVars, submissionVars>>
<1>1. DOMAIN fieldValue = fields /\ FilesOK(attached)
  BY DEF FillingInv, PageInv, ValuesOK
<1>2. ASSUME FillCell(k) \/ AddTableRow(k) \/ DeleteTableRow(k)
      PROVE  /\ form.form_fields[k].fieldType = "table"
             /\ \A i \in fields \ {k} : fieldValue'[i] = fieldValue[i]
             /\ UNCHANGED <<pageVars, submissionVars>>
  BY <1>1, <1>2 DEF FillCell, AddTableRow, DeleteTableRow
<1>3. ASSUME RemoveFile(k)
      PROVE  /\ IsAttachment(k)
             /\ \A i \in fields \ {k} : fieldValue'[i] = fieldValue[i]
             /\ UNCHANGED <<pageVars, submissionVars>>
  BY <1>1, <1>3 DEF RemoveFile, SetFileValue, FilesOK, FileOK, PickedOK
<1>4. ASSUME NEW f \in form.files, UploadFile(k, f)
      PROVE  /\ IsAttachment(k)
             /\ \A i \in fields \ {k} : fieldValue'[i] = fieldValue[i]
             /\ UNCHANGED <<pageVars, submissionVars>>
  BY <1>1, <1>4 DEF UploadFile, SetFileValue
<1>5. ASSUME AdvanceFile(k)
      PROVE  /\ IsAttachment(k)
             /\ \A i \in fields \ {k} : fieldValue'[i] = fieldValue[i]
             /\ UNCHANGED <<pageVars, submissionVars>>
  <2>1. PICK t \in tasks[k] : FileRefused(k, t) \/ FileAccepted(k, t)
                                 \/ FileRead(k, t) \/ FileUnread(k, t)
    BY <1>5 DEF AdvanceFile
  <2>2. IsAttachment(k)
    BY AtWork
  <2>. QED  BY <1>1, <2>1, <2>2
            DEF FileRefused, FileAccepted, FileRead, FileUnread, SetFileValue
<1>. QED  BY <1>2, <1>3, <1>4, <1>5 DEF IsAttachment

LEMMA FilledIn ==
  ASSUME FillingInv, NEW k \in fields, Fill(k)
  PROVE  /\ \A i \in fields :
               IsMyInfo(i) /\ i # k => fieldValue'[i] = fieldValue[i]
         /\ \A i \in fields \ inDoubt' :
               ~IsMyInfo(i) /\ ~isVisible(i) /\ isVisible(i)' =>
                   /\ ClearedValue(i, fieldValue'[i]) = fieldValue'[i]
                   /\ file'[i] = None
         /\ k \notin disabled
         /\ UNCHANGED <<pageVars, submissionVars>>
<1>1. PICK value \in PossibleValues(form.form_fields[k]) :
         AdvanceLogic([fieldValue EXCEPT ![k] = value])
  BY DEF Fill
<1>2. PICK values : values = [fieldValue EXCEPT ![k] = value]
  OBVIOUS
<1>3. /\ AdvanceLogic(values) /\ k \notin disabled /\ isVisible(k)
      /\ UNCHANGED <<pageVars, submissionVars>>
      /\ PageInv /\ HiddenInv /\ form \in Forms /\ form' = form
      /\ DOMAIN fieldValue = fields
  BY <1>1, <1>2 DEF Fill, Editable, FillingInv, PageInv, ValuesOK, pageVars
<1>4. \A i \in fields \ {k} : values[i] = fieldValue[i]
  BY <1>2, <1>3
<1>5. ASSUME NEW i \in fields, IsMyInfo(i), i # k
      PROVE  fieldValue'[i] = fieldValue[i]
  <2>1. form.form_fields[i].fieldType # "table"
    BY <1>3, <1>5, FieldFacts DEF MyInfoTypes
  <2>2. Rendered(i, values[i]) = values[i]
    BY <2>1 DEF Rendered
  <2>3. Cleared(i, values[i]).fieldValue = values[i]
    BY <1>5 DEF Cleared
  <2>. QED  BY <1>3, <1>4, <1>5, <2>2, <2>3, AdvanceAt
<1>6. ASSUME NEW i \in fields \ inDoubt', ~IsMyInfo(i), ~isVisible(i),
             isVisible(i)'
      PROVE  ClearedValue(i, fieldValue'[i]) = fieldValue'[i] /\ file'[i] = None
  <2>1. IsShown(values, i)
    BY <1>3, <1>6, AdvanceShown
  <2>2. Shows(values, i)
    BY <1>6, <2>1 DEF Shows
  <2>3. i \notin inDoubt /\ i # k
    BY <1>3, <1>6, AdvanceAt
  <2>4. /\ ClearedValue(i, fieldValue[i]) = fieldValue[i] /\ file[i] = None
        /\ ValueOK(form.form_fields[i], fieldValue[i])
    BY <1>3, <1>6, <2>3 DEF HiddenInv, PageInv, ValuesOK
  <2>5. fieldValue'[i] = Rendered(i, fieldValue[i]) /\ file'[i] = file[i]
    BY <1>3, <1>4, <2>2, <2>3, AdvanceAt
  <2>. QED  BY <1>3, <2>4, <2>5, RenderedOK
<1>. QED  BY <1>3, <1>5, <1>6

(* A field that is locked keeps its value, and a field shown again is      *)
(* blank; a verdict stays what it was, and so does what it is about.       *)
LEMMA Filled ==
  ASSUME FillingInv, Filling,
         \A i \in disabled : i \in fields /\ IsMyInfo(i)
  PROVE  /\ \A i \in disabled : fieldValue'[i] = fieldValue[i]
         /\ \A i \in fields \ inDoubt' :
               ~IsMyInfo(i) /\ ~isVisible(i) /\ isVisible(i)' =>
                   /\ ClearedValue(i, fieldValue'[i]) = fieldValue'[i]
                   /\ file'[i] = None
         /\ UNCHANGED <<form, disabled, verdict>>
         /\ \/ UNCHANGED <<uiState, sent>>
            \/ uiState = "DEFAULT" /\ uiState' = "SUBMITTING"
<1>1. /\ form \in Forms /\ StateInv
      /\ \A i \in disabled : /\ i \in fields /\ IsMyInfo(i)
                             /\ form.form_fields[i].fieldType
                                    \notin {"table", "attachment"}
  BY FieldFacts DEF FillingInv, PageInv, MyInfoTypes
<1>2. ASSUME NEW k \in fields, Fill(k)
      PROVE  /\ \A i \in disabled : fieldValue'[i] = fieldValue[i]
             /\ \A i \in fields \ inDoubt' :
                   ~IsMyInfo(i) /\ ~isVisible(i) /\ isVisible(i)' =>
                       /\ ClearedValue(i, fieldValue'[i]) = fieldValue'[i]
                       /\ file'[i] = None
             /\ UNCHANGED <<pageVars, submissionVars>>
  BY <1>1, <1>2, FilledIn
<1>3. ASSUME NEW k \in fields,
             \/ FillCell(k) \/ AddTableRow(k) \/ DeleteTableRow(k)
             \/ RemoveFile(k) \/ AdvanceFile(k)
             \/ \E f \in form.files : UploadFile(k, f)
      PROVE  /\ \A i \in disabled : fieldValue'[i] = fieldValue[i]
             /\ \A i \in fields : isVisible(i)' <=> isVisible(i)
             /\ UNCHANGED <<pageVars, submissionVars>>
  <2>1. /\ \A i \in fields :
              form.form_fields[i].fieldType \notin {"table", "attachment"}
                  => fieldValue'[i] = fieldValue[i]
        /\ UNCHANGED <<pageVars, submissionVars>>
    BY <1>3, OthersKept
  <2>2. form' = form
    BY <2>1 DEF pageVars
  <2>3. \A i \in fields : isVisible(i)' <=> isVisible(i)
    BY <1>1, <2>1, <2>2, SameVisible
  <2>. QED  BY <1>1, <2>1, <2>3
<1>4. ASSUME checkCaptchaAndSubmit \/ CaptchaSucceeds \/ CaptchaFails \/ DayPasses
      PROVE  /\ UNCHANGED <<pageVars, fieldValue, verdict>>
             /\ \/ UNCHANGED <<uiState, sent>>
                \/ uiState = "DEFAULT" /\ uiState' = "SUBMITTING"
  BY <1>1, <1>4 DEF checkCaptchaAndSubmit, CaptchaSucceeds, CaptchaFails,
                    DayPasses, SubmitForm, submissionVars, StateInv
<1>5. UNCHANGED <<pageVars, fieldValue>> =>
         \A i \in fields : isVisible(i)' <=> isVisible(i)
  BY DEF pageVars, isVisible, IsShown
<1>6. UNCHANGED <<pageVars, submissionVars>> =>
         UNCHANGED <<form, disabled, verdict, uiState, sent>>
  BY DEF pageVars, submissionVars
<1>7. CASE \E k \in fields : Fill(k)
  BY <1>2, <1>6, <1>7
<1>8. CASE \E k \in fields :
             \/ FillCell(k) \/ AddTableRow(k) \/ DeleteTableRow(k)
             \/ RemoveFile(k) \/ AdvanceFile(k)
             \/ \E f \in form.files : UploadFile(k, f)
  BY <1>3, <1>6, <1>8
<1>9. CASE checkCaptchaAndSubmit \/ CaptchaSucceeds \/ CaptchaFails \/ DayPasses
  BY <1>4, <1>5, <1>9 DEF pageVars
<1>. QED  BY <1>7, <1>8, <1>9 DEF Filling

-----------------------------------------------------------------------------
(* The submission, with the login and the MyInfo values                    *)

LEMMA FillFormKeeps ==
  ASSUME Inv, FillForm
  PROVE  Inv'
<1>1. /\ FillingInv /\ ViewInv /\ LockedInv /\ HashedInv /\ form \in Forms
      /\ CookiesInv /\ HashesInv /\ MyInfoInv /\ now \in Nat /\ StateInv
      /\ CookieOK(view.cookie)
      /\ stage = "form" /\ Filling
      /\ sentCookie' = IF uiState' # uiState THEN cookie ELSE sentCookie
      /\ UNCHANGED <<now, cookie, versions, hashes, stage, view, session>>
  BY DEF Inv, AccessInv, FillingInv, PageInv, CookiesInv, FillForm
<1>2. /\ \A i \in disabled : fieldValue'[i] = fieldValue[i]
      /\ UNCHANGED <<form, disabled, verdict>>
      /\ \/ UNCHANGED <<uiState, sent>>
         \/ uiState = "DEFAULT" /\ uiState' = "SUBMITTING"
  BY <1>1, Filled DEF LockedInv
<1>3. FillingInv'
  BY <1>1, FillingKeeps
<1>4. CookiesInv' /\ HashesInv'
  <2>1. now' \in Nat /\ now <= now'
    BY <1>1
  <2>. QED  BY <1>1, <1>2, <2>1, CookiesKept, DocumentsKept
<1>5. ViewInv' /\ LockedInv'
  BY <1>1, <1>2, ViewKept, LockedKept
<1>6. MyInfoInv'
  <2>1. now' \in Nat /\ now <= now'
    BY <1>1
  <2>2. HashesKept(view.cookie) => HashesKept(view.cookie)'
    BY <1>1 DEF HashesKept
  <2>. QED  BY <1>1, <1>2, <2>1, <2>2, MyInfoKept
<1>7. HashedInv'
  <2>1. CASE UNCHANGED <<uiState, sent>>
    BY <1>1, <1>2, <2>1, HashedKept
  <2>2. CASE uiState = "DEFAULT" /\ uiState' = "SUBMITTING"
    BY <2>2 DEF HashedInv, Judged
  <2>. QED  BY <1>2, <2>1, <2>2
<1>. QED  BY <1>3, <1>4, <1>5, <1>6, <1>7 DEF Inv, AccessInv

LEMMA NeedsMyInfo ==
  ASSUME form \in Forms, HasMyInfo
  PROVE  form.authType = "SP" /\ NeedsLogin
BY FieldFacts DEF HasMyInfo, NeedsLogin

(* What the login, the hashes and the page are left with by the server.    *)
LEMMA AccessAfter ==
  ASSUME Inv, form' = form, stage = "form",
         UNCHANGED <<now, cookie, versions, hashes, stage, view, session,
                     disabled>>,
         sentCookie' \in {None, sentCookie},
         \A i \in disabled : fieldValue'[i] = fieldValue[i]
  PROVE  CookiesInv' /\ HashesInv' /\ ViewInv' /\ MyInfoInv' /\ LockedInv'
<1>1. /\ ViewInv /\ LockedInv /\ form \in Forms
      /\ CookiesInv /\ HashesInv /\ MyInfoInv /\ now \in Nat
      /\ CookieOK(view.cookie)
  BY DEF Inv, AccessInv, FillingInv, PageInv, CookiesInv
<1>2. now' \in Nat /\ now <= now'
  BY <1>1
<1>3. HashesKept(view.cookie) => HashesKept(view.cookie)'
  BY DEF HashesKept
<1>4. CookiesInv'
  BY <1>1, <1>2, CookiesKept
<1>5. MyInfoInv'
  BY <1>1, <1>2, <1>3, MyInfoKept
<1>. QED  BY <1>1, <1>4, <1>5, DocumentsKept, ViewKept, LockedKept

LEMMA ReceiveSubmissionKeeps ==
  ASSUME Inv, ReceiveSubmission
  PROVE  Inv'
<1>1. /\ FillingInv /\ form \in Forms /\ stage = "form"
      /\ Receive(isSpcpAuthenticated) /\ UNCHANGED accessVars
  BY DEF Inv, FillingInv, PageInv, ReceiveSubmission
<1>2. PICK tmin \in {today - 1, today}, tmax \in {today, today + 1} :
         verdict' = [status |-> Status(isSpcpAuthenticated, tmin, tmax),
                     files |-> [i \in fields |-> IF i \in Attachments
                                                 THEN sent.file[i] ELSE None],
                     hashedFields |-> {},
                     filenames |-> Filenames,
                     day |-> today]
  BY <1>1 DEF Receive
<1>3. /\ form' = form /\ disabled' = disabled /\ fieldValue' = fieldValue
      /\ uiState' = IF verdict'.status = "OK" /\ HasMyInfo THEN "VERIFYING"
                                                           ELSE "SENT"
  BY <1>1 DEF Receive, pageVars
<1>4. FillingInv'
  BY <1>1, ReceiveKeeps
<1>5. CookiesInv' /\ HashesInv' /\ ViewInv' /\ MyInfoInv' /\ LockedInv'
  BY <1>1, <1>3, AccessAfter DEF accessVars
<1>6. HashedInv'
  <2>1. verdict'.status = Status(isSpcpAuthenticated, tmin, tmax)
        /\ verdict'.hashedFields = {}
    BY <1>2
  <2>2. ASSUME uiState' = "VERIFYING"
        PROVE  sentCookie' # None
    <3>1. verdict'.status = "OK" /\ HasMyInfo
      BY <1>3, <2>2
    <3>2. isSpcpAuthenticated
      BY <2>1, <3>1 DEF Status
    <3>3. IsValidJWT(sentCookie)
      BY <1>1, <3>1, <3>2, NeedsMyInfo DEF isSpcpAuthenticated
    <3>. QED  BY <1>1, <3>3 DEF IsValidJWT, accessVars
  <2>. QED  BY <2>1, <2>2 DEF HashedInv
<1>. QED  BY <1>4, <1>5, <1>6 DEF Inv, AccessInv

(* A value that the hashes let pass is one that MyInfo has had.            *)
LEMMA Verified ==
  ASSUME Inv, uiState = "VERIFYING", NEW i \in fields,
         form.myInfo[i] \in verifiedKeys, IsShown(ReceivedAnswers, i),
         \A j \in clientMyInfoFields : HashMatches(j)
  PROVE  \E n \in DOMAIN Persons[uinFin] :
            SentAnswer(i) = Persons[uinFin][n][form.myInfo[i]].value
<1>1. /\ HashesInv /\ uinFin \in Users
  BY DEF Inv, AccessInv, HashedInv, CookiesInv, CookieOK, uinFin
<1>2. PICK found \in FoundHashes : form.myInfo[i] \in DOMAIN found.fields
  BY DEF verifiedKeys
<1>3. IsMyInfo(i) /\ i \in clientMyInfoFields
  BY DEF verifiedKeys, clientMyInfoFields, IsMyInfo
<1>4. SentAnswer(i) = found.fields[form.myInfo[i]]
  BY <1>2, <1>3 DEF HashMatches
<1>5. PICK n \in DOMAIN Persons[uinFin] :
         found.fields = readOnlyHashes(Persons[uinFin][n])
  BY <1>1, <1>2 DEF HashesInv, FoundHashes
<1>6. found.fields[form.myInfo[i]] = Persons[uinFin][n][form.myInfo[i]].value
  BY <1>2, <1>5 DEF readOnlyHashes
<1>. QED  BY <1>4, <1>6

LEMMA VerifyMyInfoKeeps ==
  ASSUME Inv, verifyMyInfoVals
  PROVE  Inv'
<1>1. /\ FillingInv /\ HashedInv /\ form \in Forms /\ stage = "form"
      /\ uiState = "VERIFYING" /\ uiState' = "SENT" /\ UNCHANGED accessVars
      /\ form' = form /\ disabled' = disabled /\ fieldValue' = fieldValue
      /\ sent' = sent /\ Judged /\ VerdictInv
  BY DEF Inv, AccessInv, FillingInv, PageInv, verifyMyInfoVals, pageVars, Judged
<1>2. FillingInv'
  BY <1>1, VerifyKeeps
<1>3. CookiesInv' /\ HashesInv' /\ ViewInv' /\ MyInfoInv' /\ LockedInv'
  BY <1>1, AccessAfter DEF accessVars
<1>4. \/ verdict'.hashedFields = verdict.hashedFields
      \/ /\ verdict'.hashedFields = verifiedKeys
         /\ \A j \in clientMyInfoFields : HashMatches(j)
  <2>1. verdict = [status |-> verdict.status, files |-> verdict.files,
                   hashedFields |-> verdict.hashedFields,
                   filenames |-> verdict.filenames, day |-> verdict.day]
    BY <1>1 DEF VerdictInv
  <2>2. \/ verdict' = [verdict EXCEPT !.status = "unavailable"]
        \/ verdict' = [verdict EXCEPT !.status = "noHashes"]
        \/ verdict' = [verdict EXCEPT !.status = "otherHashes"]
        \/ /\ verdict' = [verdict EXCEPT !.hashedFields = verifiedKeys]
           /\ \A j \in clientMyInfoFields : HashMatches(j)
    BY DEF verifyMyInfoVals
  <2>. QED  BY <2>1, <2>2
<1>5. /\ uinFin' = uinFin /\ fields' = fields
      /\ \A i \in fields : SentAnswer(i)' = SentAnswer(i)
      /\ \A i \in fields : IsShown(ReceivedAnswers, i)'
                              <=> IsShown(ReceivedAnswers, i)
  BY <1>1, SentAlike DEF uinFin, accessVars, fields
<1>6. None \notin verdict'.hashedFields
  <2>1. None \notin verifiedKeys
    BY DEF verifiedKeys, clientMyInfoFields, IsMyInfo
  <2>. QED  BY <1>1, <1>4, <2>1 DEF HashedInv
<1>7. ASSUME NEW i \in fields, form.myInfo[i] \in verdict'.hashedFields,
             IsShown(ReceivedAnswers, i)
      PROVE  \E n \in DOMAIN Persons[uinFin] :
                SentAnswer(i) = Persons[uinFin][n][form.myInfo[i]].value
  BY <1>1, <1>4, <1>7, Verified DEF HashedInv
<1>8. HashedInv'
  BY <1>1, <1>5, <1>6, <1>7 DEF HashedInv
<1>. QED  BY <1>2, <1>3, <1>8 DEF Inv, AccessInv

LEMMA EndKeeps ==
  ASSUME Inv, EndSubmission
  PROVE  Inv'
<1>1. /\ FillingInv /\ LockedInv /\ HashedInv /\ form \in Forms /\ stage = "form"
      /\ UNCHANGED <<now, cookie, versions, hashes, stage, view, session>>
  BY DEF Inv, AccessInv, FillingInv, PageInv, EndSubmission
<1>2. CASE handleSubmitSuccess /\ UNCHANGED sentCookie
  <2>1. /\ form' = form /\ disabled' = disabled /\ fieldValue' = fieldValue
        /\ sent' = sent /\ verdict' = verdict
        /\ uiState = "SENT" /\ uiState' = "SUBMITTED"
    BY <1>2 DEF handleSubmitSuccess, pageVars
  <2>2. FillingInv'
    BY <1>1, <1>2, SuccessKeeps
  <2>3. CookiesInv' /\ HashesInv' /\ ViewInv' /\ MyInfoInv' /\ LockedInv'
    BY <1>1, <1>2, <2>1, AccessAfter
  <2>4. HashedInv'
    <3>1. fields' = fields /\ uinFin' = uinFin
      BY <1>2, <2>1 DEF fields, uinFin
    <3>. QED  BY <1>1, <2>1, <3>1, SentAlike DEF HashedInv, Judged
  <2>. QED  BY <2>2, <2>3, <2>4 DEF Inv, AccessInv
<1>3. CASE handleSubmitFailure /\ sentCookie' = None
  <2>1. /\ form' = form /\ disabled' = disabled /\ uiState' = "DEFAULT"
        /\ uiState # "DEFAULT" /\ SentInv
        /\ fieldValue' = savedForm.fieldValue
    BY <1>1, <1>3 DEF handleSubmitFailure, SubmissionFails, Restored, pageVars,
                      FillingInv
  <2>2. \A i \in disabled : fieldValue'[i] = fieldValue[i]
    <3>1. \A i \in disabled : i \in fields /\ ~IsAttachment(i)
      BY <1>1, FieldFacts DEF LockedInv, IsAttachment, MyInfoTypes
    <3>. QED  BY <2>1, <3>1 DEF SentInv
  <2>3. FillingInv'
    BY <1>1, <1>3, FailureKeeps
  <2>4. CookiesInv' /\ HashesInv' /\ ViewInv' /\ MyInfoInv' /\ LockedInv'
    BY <1>1, <1>3, <2>1, <2>2, AccessAfter
  <2>5. HashedInv'
    BY <2>1 DEF HashedInv, Judged
  <2>. QED  BY <2>3, <2>4, <2>5 DEF Inv, AccessInv
<1>. QED  BY <1>2, <1>3 DEF EndSubmission


-----------------------------------------------------------------------------
(* The invariant holds of every state *)

LEMMA FirstState ==
  ASSUME Init
  PROVE  Inv
<1>1. /\ PageInit /\ now = 0 /\ cookie = None /\ stage = "away"
      /\ versions = [u \in Users |-> 1] /\ hashes = [u \in Users |-> {}]
      /\ view = NoView /\ session = None /\ sentCookie = None
  BY DEF Init
<1>2. FillingInv
  BY <1>1, FirstPage
<1>3. /\ view = [cookie |-> None, data |-> None, myInfoError |-> FALSE]
      /\ view.cookie = None /\ view.data = None /\ view.myInfoError = FALSE
      /\ view = [cookie |-> view.cookie, data |-> view.data,
                 myInfoError |-> view.myInfoError]
  BY <1>1 DEF NoView
<1>4. uiState = "DEFAULT" /\ disabled = {}
  BY <1>1 DEF PageInit
<1>5. CookiesInv
  BY <1>1, <1>3 DEF CookiesInv, CookieOK
<1>6. HashesInv
  <2>1. ASSUME NEW u \in Users
        PROVE  1 \in DOMAIN Persons[u]
    <3>1. Persons[u] \in Seq(ToSet(Persons[u])) /\ Persons[u] # <<>>
      BY AccessAssumption
    <3>2. PICK S, s : S = ToSet(Persons[u]) /\ s = Persons[u]
      OBVIOUS
    <3>3. s \in Seq(S) /\ s # <<>>
      BY <3>1, <3>2
    <3>4. 1 \in DOMAIN s
      BY <3>3
    <3>. QED  BY <3>2, <3>4
  <2>2. /\ DOMAIN versions = Users /\ DOMAIN hashes = Users
        /\ \A u \in Users : versions[u] = 1 /\ hashes[u] = {}
    BY <1>1
  <2>. QED  BY <2>1, <2>2 DEF HashesInv
<1>7. ViewInv /\ MyInfoInv
  BY <1>1, <1>3, <1>4 DEF ViewInv, MyInfoInv, Stages, Viewed
<1>8. LockedInv
  BY <1>1, <1>3, <1>4 DEF LockedInv
<1>9. HashedInv
  BY <1>4 DEF HashedInv, Judged
<1>. QED  BY <1>2, <1>5, <1>6, <1>7, <1>8, <1>9 DEF Inv, AccessInv

(* A step that leaves all that the invariant is about.                     *)
LEMMA NothingHappens ==
  ASSUME Inv, UNCHANGED <<formVars, now, cookie, versions, hashes, stage, view,
                          session, sentCookie>>
  PROVE  Inv'
<1>1. /\ FillingInv' /\ ViewInv' /\ LockedInv' /\ HashedInv'
      /\ form' = form /\ now \in Nat /\ CookiesInv /\ HashesInv /\ MyInfoInv
      /\ CookieOK(view.cookie)
  BY Undisturbed
<1>2. now' \in Nat /\ now <= now'
  BY <1>1
<1>3. CookiesInv'
  BY <1>1, <1>2, CookiesKept
<1>4. HashesInv'
  BY <1>1, DocumentsKept
<1>5. HashesKept(view.cookie) => HashesKept(view.cookie)'
  BY DEF HashesKept
<1>6. MyInfoInv'
  BY <1>1, <1>2, <1>5, MyInfoKept
<1>. QED  BY <1>1, <1>3, <1>4, <1>6 DEF Inv, AccessInv

LEMMA InvKept ==
  ASSUME Inv, [Next]_vars
  PROVE  Inv'
<1>1. CASE ViewForm
  BY <1>1, ViewFormKeeps
<1>2. CASE fetchMyInfo
  BY <1>2, FetchKeeps
<1>3. CASE saveHashes
  BY <1>3, SaveKeeps
<1>4. CASE ShowForm
  BY <1>4, LogoutKeeps, DisplayedKeeps DEF ShowForm
<1>5. CASE formLogout \/ checkCookie
  BY <1>5, LogoutKeeps DEF formLogout, checkCookie
<1>6. CASE LogoutElsewhere
  BY <1>6, LogoutElsewhereKeeps
<1>7. CASE LoginFails
  BY <1>7, LoginFailsKeeps
<1>8. CASE LoginRefused
  BY <1>8, RefusedKeeps
<1>9. ASSUME NEW u \in Users,
             \/ Login(u) \/ LoginElsewhere(u) \/ ViewElsewhere(u)
             \/ PersonChanges(u) \/ HashesExpire(u)
      PROVE  Inv'
  BY <1>9, LoginKeeps, LoginElsewhereKeeps, ViewElsewhereKeeps,
     PersonChangesKeeps, HashesExpireKeeps
<1>10. CASE Tick
  BY <1>10, TickKeeps
<1>11. CASE FillForm
  BY <1>11, FillFormKeeps
<1>12. CASE ReceiveSubmission
  BY <1>12, ReceiveSubmissionKeeps
<1>13. CASE verifyMyInfoVals
  BY <1>13, VerifyMyInfoKeeps
<1>14. CASE EndSubmission
  BY <1>14, EndKeeps
<1>15. CASE UNCHANGED vars
  BY <1>15, NothingHappens DEF vars, accessVars
<1>. QED  BY <1>1, <1>2, <1>3, <1>4, <1>5, <1>6, <1>7, <1>8, <1>9, <1>10, <1>11,
             <1>12, <1>13, <1>14, <1>15 DEF Next

(* The inductive invariant of the page, the login and MyInfo.              *)
THEOREM AccessInvariant == Spec => []Inv
<1>1. Init => Inv
  BY FirstState
<1>2. Inv /\ [Next]_vars => Inv'
  BY InvKept
<1>. QED  BY <1>1, <1>2, PTL DEF Spec


-----------------------------------------------------------------------------
(* What the server takes is what the page displays *)

LEMMA RowsFollow ==
  ASSUME FillingInv
  PROVE  TableWithinBounds
<1>. SUFFICES ASSUME NEW i \in fields, form.form_fields[i].fieldType = "table"
              PROVE  /\ Len(fieldValue[i].components) >= form.form_fields[i].minimumRows
                     /\ IF form.form_fields[i].addMoreRows
                        THEN AtMost(Len(fieldValue[i].components),
                                    form.form_fields[i].maximumRows)
                        ELSE Len(fieldValue[i].components)
                                 = form.form_fields[i].minimumRows
  BY DEF TableWithinBounds
<1>1. RowsOK(form.form_fields[i], fieldValue[i]) /\ IsFillable(form.form_fields[i])
  BY FieldFacts DEF FillingInv, PageInv, ValuesOK, ValueOK
<1>. DEFINE Row == [DOMAIN form.form_fields[i].columns -> BOOLEAN]
<1>2. PICK s, least, more, top :
         /\ s = fieldValue[i].components
         /\ least = form.form_fields[i].minimumRows
         /\ more = fieldValue[i].additionalRowCount
         /\ top = form.form_fields[i].maximumRows
  OBVIOUS
<1>3. /\ s \in Seq(Row) /\ more \in Nat /\ least <= Len(s) /\ Len(s) <= least + more
      /\ IF form.form_fields[i].addMoreRows THEN AtMost(least + more, top)
         ELSE more = 0
  BY <1>1, <1>2 DEF RowsOK
<1>4. least \in Nat /\ (top = None \/ top \in Int)
  BY <1>1, <1>2, LimitsOfFields
<1>5. Len(s) \in Nat
  <2>. HIDE DEF Row
  <2>. QED  BY <1>3
<1>6. PICK n \in Nat : n = Len(s)
  BY <1>5
<1>7. least <= n /\ n <= least + more
  BY <1>3, <1>6
<1>8. n >= least /\ (more = 0 => n = least)
  BY <1>3, <1>4, <1>7
<1>9. CASE form.form_fields[i].addMoreRows
  <2>1. AtMost(least + more, top)
    BY <1>3, <1>9
  <2>2. AtMost(n, top)
    <3>1. CASE top = None
      BY <3>1 DEF AtMost
    <3>2. CASE top # None
      <4>1. top \in Int /\ least + more <= top
        BY <1>4, <2>1, <3>2 DEF AtMost
      <4>2. n <= top
        BY <1>3, <1>4, <1>7, <4>1
      <4>. QED  BY <4>2 DEF AtMost
    <3>. QED  BY <3>1, <3>2
  <2>. QED  BY <1>2, <1>6, <1>8, <1>9, <2>2
<1>10. CASE ~form.form_fields[i].addMoreRows
  <2>1. n = least
    BY <1>3, <1>8, <1>10
  <2>. QED  BY <1>2, <1>6, <1>8, <1>10, <2>1
<1>. QED  BY <1>9, <1>10

LEMMA FilesFollow ==
  ASSUME FillingInv, verdict # None
  PROVE  FilesAsDisplayed /\ FilenamesDistinct
<1>1. /\ form \in Forms /\ FilesOK(attached) /\ SettledInv /\ SentInv
      /\ uiState # "DEFAULT" /\ FilesOK(sent.file)
      /\ verdict.files = [i \in fields |-> IF i \in Attachments
                                           THEN sent.file[i] ELSE None]
      /\ verdict.filenames = Filenames
  BY DEF FillingInv, PageInv, StateInv, SentInv, VerdictInv, Judged
<1>2. ASSUME NEW i \in fields \ inDoubt
      PROVE  verdict.files[i] = shown.attached[i]
  <2>1. verdict.files[i] = IF i \in Attachments THEN sent.file[i] ELSE None
    BY <1>1
  <2>2. sent.file[i] = shown.attached[i]
    BY <1>1, SentAsDisplayed
  <2>3. i \in Attachments <=> sent.file[i] # None
    BY <1>1, SentAsDisplayed
  <2>. QED  BY <2>1, <2>2, <2>3
<1>. QED  BY <1>1, <1>2, NamesDistinct DEF FilesAsDisplayed

LEMMA TakenFollows ==
  ASSUME FillingInv
  PROVE  TakenAsDisplayed
<1>1. AcceptedAsDisplayed
  BY DEF FillingInv, StateInv, VerdictInv, Judged, AcceptedAsDisplayed
<1>2. FilesAsDisplayed /\ FilenamesDistinct
  BY FilesFollow DEF FilesAsDisplayed, FilenamesDistinct
<1>. QED  BY <1>1, <1>2, RowsFollow DEF TakenAsDisplayed, AttachmentsAsDisplayed

(* The server takes what the page displays without an error: its answers,  *)
(* each of its files with its field, and the rows of its tables.           *)
THEOREM PageTaken == Spec => []TakenAsDisplayed
<1>1. Inv => TakenAsDisplayed
  BY TakenFollows DEF Inv
<1>. QED  BY <1>1, AccessInvariant, PTL


-----------------------------------------------------------------------------
(* Sequences put one after the other *)

(* f[i] holds the first i of the sequences.                                *)
Flattens(f, n, seqs) ==
    \A i \in 1 .. n : f[i] = IF i = 1 THEN seqs[i] ELSE f[i - 1] \o seqs[i]

LEMMA FlattenExists ==
  ASSUME NEW S, NEW n \in Nat, NEW seqs \in [1 .. n -> Seq(S)]
  PROVE  \E f \in [1 .. n -> Seq(S)] : Flattens(f, n, seqs)
<1>. DEFINE Has(k) == \E f \in [1 .. k -> Seq(S)] : Flattens(f, k, seqs)
            T == {k \in 0 .. n : Has(k)}
<1>1. 0 \in T
  <2>1. <<>> \in [1 .. 0 -> Seq(S)]
    OBVIOUS
  <2>2. Flattens(<<>>, 0, seqs)
    BY DEF Flattens
  <2>3. 0 \in 0 .. n
    OBVIOUS
  <2>. QED  BY <2>1, <2>2, <2>3
<1>2. ASSUME NEW k \in 0 .. n, k \in T, k # n
      PROVE  k + 1 \in T
  <2>1. PICK f \in [1 .. k -> Seq(S)] : Flattens(f, k, seqs)
    BY <1>2
  <2>2. /\ k + 1 \in 1 .. n /\ k \in Nat /\ k + 1 \in 0 .. n /\ (k + 1) - 1 = k
        /\ \A i \in 1 .. (k + 1) : i # k + 1 => i \in 1 .. k
        /\ \A i \in 1 .. k : i \in 1 .. (k + 1) /\ i # k + 1
        /\ \A i \in 1 .. k : i # 1 => i - 1 \in 1 .. k
        /\ k # 0 => k \in 1 .. k
    BY <1>2
  <2>. DEFINE new == IF k = 0 THEN seqs[k + 1] ELSE f[k] \o seqs[k + 1]
              g == [i \in 1 .. (k + 1) |-> IF i = k + 1 THEN new ELSE f[i]]
  <2>3. new \in Seq(S)
    <3>1. seqs[k + 1] \in Seq(S) /\ (k # 0 => f[k] \in Seq(S))
      BY <2>2
    <3>. QED  BY <3>1
  <2>4. g \in [1 .. (k + 1) -> Seq(S)]
    <3>. HIDE DEF new
    <3>. QED  BY <2>2, <2>3
  <2>5. g[k + 1] = new /\ \A i \in 1 .. k : g[i] = f[i]
    <3>1. k + 1 \in 1 .. (k + 1)
      BY <2>2
    <3>. HIDE DEF new
    <3>. QED  BY <2>2, <3>1
  <2>6. Flattens(g, k + 1, seqs)
    <3>. SUFFICES ASSUME NEW i \in 1 .. (k + 1)
                  PROVE  g[i] = IF i = 1 THEN seqs[i] ELSE g[i - 1] \o seqs[i]
      BY DEF Flattens
    <3>1. CASE i = k + 1
      <4>1. k = 0 <=> i = 1
        BY <2>2, <3>1
      <4>2. CASE k = 0
        <5>. HIDE DEF g
        <5>. QED  BY <2>5, <3>1, <4>1, <4>2
      <4>3. CASE k # 0
        <5>1. i - 1 = k /\ g[k] = f[k]
          <6>. HIDE DEF g
          <6>. QED  BY <2>2, <2>5, <3>1, <4>3
        <5>2. g[i] = f[k] \o seqs[i]
          <6>. HIDE DEF g
          <6>. QED  BY <2>5, <3>1, <4>3
        <5>. HIDE DEF g
        <5>. QED  BY <4>1, <4>3, <5>1, <5>2
      <4>. QED  BY <4>2, <4>3
    <3>2. CASE i # k + 1
      <4>1. i \in 1 .. k /\ (i # 1 => i - 1 \in 1 .. k)
        BY <2>2, <3>2
      <4>2. f[i] = IF i = 1 THEN seqs[i] ELSE f[i - 1] \o seqs[i]
        BY <2>1, <4>1 DEF Flattens
      <4>3. g[i] = f[i] /\ (i # 1 => g[i - 1] = f[i - 1])
        <5>. HIDE DEF g
        <5>. QED  BY <2>5, <4>1
      <4>. HIDE DEF g
      <4>. QED  BY <4>2, <4>3
    <3>. QED  BY <3>1, <3>2
  <2>7. Has(k + 1)
    <3>. HIDE DEF g
    <3>. QED  BY <2>4, <2>6
  <2>. QED  BY <2>2, <2>7
<1>3. 0 .. n \subseteq T
  <2>. HIDE DEF T
  <2>. QED  BY <1>1, <1>2, CountsUp
<1>4. n \in T
  <2>1. n \in 0 .. n
    OBVIOUS
  <2>. HIDE DEF T
  <2>. QED  BY <1>3, <2>1
<1>. QED  BY <1>4

LEMMA Flattened ==
  ASSUME NEW S, NEW seqs \in Seq(Seq(S))
  PROVE  FlattenSeq(seqs) \in Seq(S)
<1>1. PICK n \in Nat : n = Len(seqs)
  OBVIOUS
<1>2. seqs \in [1 .. n -> Seq(S)]
  BY <1>1
<1>3. CASE n = 0
  <2>1. seqs \in Seq(S)
    <3>1. PICK Q : Q = Seq(S)
      OBVIOUS
    <3>2. seqs \in Seq(Q) /\ Len(seqs) = 0
      BY <1>1, <1>3, <3>1
    <3>3. seqs = <<>>
      BY <3>2
    <3>. QED  BY <3>3
  <2>. QED  BY <1>1, <1>3, <2>1 DEF FlattenSeq
<1>4. CASE n # 0
  <2>. DEFINE Is(f) == f = [i \in 1 .. n |-> IF i = 1 THEN seqs[i]
                                             ELSE f[i - 1] \o seqs[i]]
  <2>1. FlattenSeq(seqs) = (CHOOSE f : Is(f))[n]
    BY <1>1, <1>4 DEF FlattenSeq
  <2>2. PICK f \in [1 .. n -> Seq(S)] : Flattens(f, n, seqs)
    BY <1>2, FlattenExists
  <2>3. Is(f)
    <3>1. f = [i \in 1 .. n |-> f[i]]
      BY <2>2
    <3>2. \A i \in 1 .. n : f[i] = IF i = 1 THEN seqs[i]
                                   ELSE f[i - 1] \o seqs[i]
      BY <2>2 DEF Flattens
    <3>. QED  BY <3>1, <3>2
  <2>4. PICK e : Is(e) /\ e = CHOOSE f_1 : Is(f_1)
    <3>. HIDE DEF Is
    <3>. QED  BY <2>3
  <2>5. \A i \in 1 .. n : e[i] = IF i = 1 THEN seqs[i] ELSE e[i - 1] \o seqs[i]
    BY <2>4
  <2>. DEFINE T == {k \in 0 .. n : k # 0 => e[k] \in Seq(S)}
  <2>6. 0 \in T
    OBVIOUS
  <2>7. ASSUME NEW k \in 0 .. n, k \in T, k # n
        PROVE  k + 1 \in T
    <3>1. k + 1 \in 1 .. n /\ k + 1 \in 0 .. n /\ (k + 1) - 1 = k
      BY <2>7
    <3>2. seqs[k + 1] \in Seq(S)
      BY <1>2, <3>1
    <3>3. k # 0 => e[k] \in Seq(S)
      BY <2>7
    <3>4. e[k + 1] = IF k + 1 = 1 THEN seqs[k + 1] ELSE e[k] \o seqs[k + 1]
      BY <2>5, <3>1
    <3>5. e[k + 1] \in Seq(S)
      <4>1. k + 1 = 1 <=> k = 0
        BY <2>7
      <4>. HIDE DEF Is
      <4>. QED  BY <3>2, <3>3, <3>4, <4>1
    <3>. QED  BY <3>1, <3>5
  <2>8. 0 .. n \subseteq T
    <3>. HIDE DEF T
    <3>. QED  BY <2>6, <2>7, CountsUp
  <2>9. e[n] \in Seq(S)
    <3>1. n \in 0 .. n
      BY <1>1
    <3>2. n \in T
      <4>. HIDE DEF T
      <4>. QED  BY <2>8, <3>1
    <3>. QED  BY <1>4, <3>2
  <2>. HIDE DEF Is
  <2>. QED  BY <2>1, <2>4, <2>9
<1>. QED  BY <1>3, <1>4

-----------------------------------------------------------------------------
(* What the admin is told *)

(* The answer that the mail has of a field without a file is what was sent *)
(* for it.                                                                 *)
LEMMA ToldAnswer ==
  ASSUME form \in Forms, NEW i \in fields
  PROVE  /\ i \notin Attachments => ParsedAnswer(i) = SentAnswer(i)
         /\ i \in Attachments => IsAttachment(i)
         /\ IsMyInfo(i) =>
               i \notin Attachments /\ form.form_fields[i].fieldType # "table"
<1>1. i \in Attachments => IsAttachment(i)
  BY DEF Attachments, fieldHasAttachment
<1>2. IsMyInfo(i) => ~IsAttachment(i) /\ form.form_fields[i].fieldType # "table"
  BY FieldFacts DEF IsAttachment, MyInfoTypes
<1>. QED  BY <1>1, <1>2 DEF ParsedAnswer

(* The answer to a field that was hidden is one that is blank.             *)
LEMMA HiddenTold ==
  ASSUME FillingInv, Judged, form.responseMode = "email",
         NEW i \in fields \ inDoubt, ~IsShown(ReceivedAnswers, i)
  PROVE  \A r \in DOMAIN AnswerRows(i) : AnswerRows(i)[r] \in BlankAnswers(i)
<1>1. /\ form \in Forms /\ SentInv /\ HiddenInv /\ uiState # "DEFAULT"
      /\ ValuesOK(sent.fieldValue)
  BY DEF FillingInv, PageInv, SentInv, Judged
<1>2. ~IsShown(sent.fieldValue, i)
  BY <1>1, SeenByTheServer
<1>3. \A j \in fields : form.form_fields[j].fieldType = "yes_no"
                           => fieldValue[j] = sent.fieldValue[j]
  BY <1>1 DEF SentInv, IsAttachment
<1>4. ~isVisible(i)
  BY <1>1, <1>2, <1>3, SameShown DEF isVisible
<1>5. i \notin Attachments
  <2>1. CASE IsMyInfo(i)
    BY <1>1, <2>1, ToldAnswer
  <2>2. CASE ~IsMyInfo(i)
    <3>1. file[i] = None
      BY <1>1, <1>4, <2>2 DEF HiddenInv
    <3>2. sent.file[i] = file[i]
      BY <1>1 DEF SentInv
    <3>. QED  BY <3>1, <3>2 DEF Attachments, fieldHasAttachment
  <2>. QED  BY <2>1, <2>2
<1>6. ParsedAnswer(i) = Answer(form.form_fields[i],
                               ClearedValue(i, sent.fieldValue[i]))
  BY <1>1, <1>2, <1>5, ToldAnswer DEF SentAnswer
<1>7. CASE form.form_fields[i].fieldType = "table"
  <2>1. AnswerRows(i) = ClearedValue(i, sent.fieldValue[i]).components
    BY <1>6, <1>7, AnswerOf DEF AnswerRows
  <2>2. RowsOK(form.form_fields[i], sent.fieldValue[i])
        /\ sent.fieldValue[i] \in TableValues(form.form_fields[i])
    BY <1>1, <1>7, PossibleOf DEF ValuesOK, ValueOK
  <2>3. ClearedValue(i, sent.fieldValue[i]).components
           = [r \in DOMAIN sent.fieldValue[i].components |->
                 BlankRow(form.form_fields[i])]
    BY <1>7, <2>2 DEF ClearedValue, TableValues
  <2>4. BlankAnswers(i) = {BlankRow(form.form_fields[i])}
    BY <1>7 DEF BlankAnswers
  <2>. QED  BY <2>1, <2>3, <2>4
<1>8. CASE form.form_fields[i].fieldType # "table"
  <2>1. AnswerRows(i) = <<Answer(form.form_fields[i],
                                 EmptyValue(form.form_fields[i]))>>
    BY <1>6, <1>8 DEF AnswerRows, ClearedValue
  <2>2. BlankAnswers(i) = {Answer(form.form_fields[i],
                                  EmptyValue(form.form_fields[i]))}
    BY <1>8 DEF BlankAnswers
  <2>3. PICK a : a = Answer(form.form_fields[i], EmptyValue(form.form_fields[i]))
    OBVIOUS
  <2>4. \A r \in DOMAIN <<a>> : <<a>>[r] \in {a}
    OBVIOUS
  <2>. QED  BY <2>1, <2>2, <2>3, <2>4
<1>. QED  BY <1>7, <1>8

(* The answer to a field that was shown, and is marked as verified, is one *)
(* that MyInfo has had.                                                    *)
LEMMA VerifiedTold ==
  ASSUME FillingInv, HashedInv, Judged, NEW i \in fields,
         isMyInfoVerifiedResponse(i), IsShown(ReceivedAnswers, i)
  PROVE  \A r \in DOMAIN AnswerRows(i) :
            \E n \in DOMAIN Persons[uinFin] :
               AnswerRows(i)[r] = Persons[uinFin][n][form.myInfo[i]].value
<1>1. form \in Forms /\ IsMyInfo(i)
  BY DEF FillingInv, PageInv, HashedInv, isMyInfoVerifiedResponse, IsMyInfo
<1>2. PICK n \in DOMAIN Persons[uinFin] :
         SentAnswer(i) = Persons[uinFin][n][form.myInfo[i]].value
  BY DEF HashedInv, isMyInfoVerifiedResponse
<1>3. AnswerRows(i) = <<SentAnswer(i)>>
  BY <1>1, ToldAnswer DEF AnswerRows
<1>4. PICK a : a = SentAnswer(i)
  OBVIOUS
<1>5. \A r \in DOMAIN <<a>> : <<a>>[r] = a
  OBVIOUS
<1>. QED  BY <1>2, <1>3, <1>4, <1>5

(* The rows that tell nothing but what is true.                            *)
RowTrue(row) ==
    /\ ~row.isVisible /\ row.of \notin inDoubt =>
          row.answer \in BlankAnswers(row.of)
    /\ row.myInfo /\ row.isVisible =>
          \E n \in DOMAIN Persons[uinFin] :
              row.answer = Persons[uinFin][n][form.myInfo[row.of]].value

LEMMA RowsTrue ==
  ASSUME FillingInv, HashedInv, Judged, form.responseMode = "email",
         NEW i \in fields, NEW r \in DOMAIN AnswerRows(i)
  PROVE  RowTrue(getFormattedResponse(i)[r])
<1>1. getFormattedResponse(i)[r] =
         [of |-> i, answer |-> AnswerRows(i)[r],
          isVisible |-> IsShown(ReceivedAnswers, i),
          myInfo |-> isMyInfoVerifiedResponse(i)]
  BY DEF getFormattedResponse
<1>2. PICK row : row = getFormattedResponse(i)[r]
  OBVIOUS
<1>3. /\ row.of = i /\ row.answer = AnswerRows(i)[r]
      /\ row.isVisible = IsShown(ReceivedAnswers, i)
      /\ row.myInfo = isMyInfoVerifiedResponse(i)
  BY <1>1, <1>2
<1>4. ASSUME ~row.isVisible, i \notin inDoubt
      PROVE  row.answer \in BlankAnswers(i)
  <2>1. ~IsShown(ReceivedAnswers, i)
    BY <1>3, <1>4
  <2>. QED  BY <1>3, <1>4, <2>1, HiddenTold
<1>5. ASSUME row.myInfo, row.isVisible
      PROVE  \E n \in DOMAIN Persons[uinFin] :
                row.answer = Persons[uinFin][n][form.myInfo[i]].value
  <2>1. isMyInfoVerifiedResponse(i) /\ IsShown(ReceivedAnswers, i)
    BY <1>3, <1>5
  <2>. QED  BY <1>3, <2>1, VerifiedTold
<1>. QED  BY <1>2, <1>3, <1>4, <1>5 DEF RowTrue

LEMMA AnswersInRows ==
  ASSUME FillingInv, Judged, NEW i \in fields
  PROVE  \E n \in Nat : DOMAIN AnswerRows(i) = 1 .. n
<1>1. /\ form \in Forms /\ ValuesOK(sent.fieldValue)
  BY DEF FillingInv, PageInv, SentInv, Judged
<1>2. CASE form.form_fields[i].fieldType = "table"
  <2>1. i \notin Attachments
    BY <1>1, <1>2, ToldAnswer DEF IsAttachment
  <2>2. PICK value : /\ AnswerRows(i) = value.components
                     /\ \/ value = sent.fieldValue[i]
                        \/ value = ClearedValue(i, sent.fieldValue[i])
    <3>1. AnswerRows(i) = SentAnswer(i)
      BY <1>1, <1>2, <2>1, ToldAnswer DEF AnswerRows
    <3>. QED  BY <1>2, <3>1, AnswerOf DEF SentAnswer
  <2>3. RowsOK(form.form_fields[i], sent.fieldValue[i])
        /\ sent.fieldValue[i] \in TableValues(form.form_fields[i])
    BY <1>1, <1>2, PossibleOf DEF ValuesOK, ValueOK
  <2>4. ClearedValue(i, sent.fieldValue[i]).components
           = [r \in DOMAIN sent.fieldValue[i].components |->
                 BlankRow(form.form_fields[i])]
    BY <1>2, <2>3 DEF ClearedValue, TableValues
  <2>5. DOMAIN AnswerRows(i) = DOMAIN sent.fieldValue[i].components
    BY <2>2, <2>4
  <2>6. PICK S, s : /\ S = [DOMAIN form.form_fields[i].columns -> BOOLEAN]
                    /\ s = sent.fieldValue[i].components
    OBVIOUS
  <2>7. s \in Seq(S)
    BY <2>3, <2>6 DEF RowsOK
  <2>8. Len(s) \in Nat /\ DOMAIN s = 1 .. Len(s)
    BY <2>7
  <2>. QED  BY <2>5, <2>6, <2>8
<1>3. CASE form.form_fields[i].fieldType # "table"
  <2>1. PICK a : AnswerRows(i) = <<a>>
    BY <1>3 DEF AnswerRows
  <2>2. DOMAIN <<a>> = 1 .. 1
    OBVIOUS
  <2>. QED  BY <2>1, <2>2
<1>. QED  BY <1>2, <1>3

LEMMA MailFollows ==
  ASSUME FillingInv, HashedInv, Judged, form.responseMode = "email"
  PROVE  MailTruthful
<1>. DEFINE told == [i \in fields |-> getFormattedResponse(i)]
            Told == UNION {{getFormattedResponse(i)[r] : r \in DOMAIN AnswerRows(i)}
                              : i \in fields}
            All == Told \cup {IdentityRow(uinFin), IdentityRow(userInfo)}
            S == {row \in All : RowTrue(row)}
<1>1. \A i \in fields : getFormattedResponse(i) \in Seq(S)
  <2>. SUFFICES ASSUME NEW i \in fields
                PROVE  getFormattedResponse(i) \in Seq(S)
    OBVIOUS
  <2>1. PICK n \in Nat : DOMAIN AnswerRows(i) = 1 .. n
    BY AnswersInRows
  <2>2. ASSUME NEW r \in 1 .. n
        PROVE  getFormattedResponse(i)[r] \in S
    <3>1. RowTrue(getFormattedResponse(i)[r])
      BY <2>1, RowsTrue
    <3>2. getFormattedResponse(i)[r]
             \in {getFormattedResponse(i)[q] : q \in DOMAIN AnswerRows(i)}
      BY <2>1
    <3>3. getFormattedResponse(i)[r] \in All
      BY <3>2
    <3>. HIDE DEF All
    <3>. QED  BY <3>1, <3>3
  <2>3. DOMAIN getFormattedResponse(i) = 1 .. n
    BY <2>1 DEF getFormattedResponse
  <2>4. getFormattedResponse(i) = [r \in 1 .. n |-> getFormattedResponse(i)[r]]
    <3>1. getFormattedResponse(i) =
             [r \in 1 .. n |->
                [of |-> i, answer |-> AnswerRows(i)[r],
                 isVisible |-> IsShown(ReceivedAnswers, i),
                 myInfo |-> isMyInfoVerifiedResponse(i)]]
      BY <2>1 DEF getFormattedResponse
    <3>. QED  BY <3>1
  <2>5. getFormattedResponse(i) \in [1 .. n -> S]
    <3>. HIDE DEF S
    <3>. QED  BY <2>2, <2>4
  <2>6. \A s \in [1 .. n -> S] : s \in Seq(S)
    <3>. HIDE DEF S
    <3>. QED  BY <2>1
  <2>. QED  BY <2>5, <2>6
<1>2. told \in Seq(Seq(S))
  <2>1. PICK n \in Nat : fields = 1 .. n
    BY FieldFacts DEF FillingInv, PageInv
  <2>2. told \in [1 .. n -> Seq(S)]
    <3>. HIDE DEF S
    <3>. QED  BY <1>1, <2>1
  <2>3. PICK Q : Q = Seq(S)
    OBVIOUS
  <2>4. \A s \in [1 .. n -> Q] : s \in Seq(Q)
    BY <2>1
  <2>. HIDE DEF told, S
  <2>. QED  BY <2>2, <2>3, <2>4
<1>3. FlattenSeq(told) \in Seq(S)
  <2>. HIDE DEF told, S
  <2>. QED  BY <1>2, Flattened
<1>4. VerifiedSPCPResponses \in Seq(S)
  <2>1. ASSUME NEW answer
        PROVE  RowTrue(IdentityRow(answer))
    BY DEF RowTrue, IdentityRow
  <2>2. IdentityRow(uinFin) \in S /\ IdentityRow(userInfo) \in S
    <3>1. IdentityRow(uinFin) \in All /\ IdentityRow(userInfo) \in All
      <4>. HIDE DEF Told
      <4>. QED  OBVIOUS
    <3>. HIDE DEF All
    <3>. QED  BY <2>1, <3>1
  <2>3. \/ VerifiedSPCPResponses = <<IdentityRow(uinFin)>>
        \/ VerifiedSPCPResponses = <<IdentityRow(uinFin), IdentityRow(userInfo)>>
        \/ VerifiedSPCPResponses = <<>>
    BY DEF VerifiedSPCPResponses
  <2>4. PICK a, b : a = IdentityRow(uinFin) /\ b = IdentityRow(userInfo)
    OBVIOUS
  <2>5. <<a>> \in Seq(S) /\ <<a, b>> \in Seq(S) /\ <<>> \in Seq(S)
    <3>. HIDE DEF S
    <3>. QED  BY <2>2, <2>4
  <2>. QED  BY <2>3, <2>4, <2>5
<1>5. formData \in Seq(S)
  <2>1. formData = FlattenSeq(told) \o VerifiedSPCPResponses
    BY DEF formData
  <2>2. PICK s, t : s = FlattenSeq(told) /\ t = VerifiedSPCPResponses
    OBVIOUS
  <2>3. s \in Seq(S) /\ t \in Seq(S)
    <3>. HIDE DEF S, told
    <3>. QED  BY <1>3, <1>4, <2>2
  <2>4. s \o t \in Seq(S)
    <3>. HIDE DEF S, told
    <3>. QED  BY <2>3
  <2>. HIDE DEF S, told
  <2>. QED  BY <2>1, <2>2, <2>4
<1>6. \A r \in DOMAIN formData : formData[r] \in S
  <2>. HIDE DEF S
  <2>. QED  BY <1>5
<1>7. \A r \in DOMAIN formData : RowTrue(formData[r])
  <2>. HIDE DEF All
  <2>. QED  BY <1>6
<1>. QED  BY <1>7 DEF MailTruthful, RowTrue

LEMMA IdentityFollows ==
  ASSUME form \in Forms, NeedsLogin
  PROVE  IdentityTold
<1>1. form.authType \in {"SP", "CP"}
  BY FieldFacts DEF NeedsLogin
<1>2. PICK u, w : u = uinFin /\ w = userInfo
  OBVIOUS
<1>3. ToSet(CURRENT_VERIFIED_FIELDS) = {"uinFin", "cpUen", "cpUid"}
  <2>1. PICK x, y, z : x = "uinFin" /\ y = "cpUen" /\ z = "cpUid"
    OBVIOUS
  <2>2. /\ DOMAIN <<x, y, z>> = 1 .. 3 /\ <<x, y, z>>[1] = x
        /\ <<x, y, z>>[2] = y /\ <<x, y, z>>[3] = z
        /\ \A j \in 1 .. 3 : j = 1 \/ j = 2 \/ j = 3
        /\ 1 \in 1 .. 3 /\ 2 \in 1 .. 3 /\ 3 \in 1 .. 3
    OBVIOUS
  <2>3. ToSet(<<x, y, z>>) = {x, y, z}
    BY <2>2 DEF ToSet
  <2>. QED  BY <2>1, <2>3 DEF CURRENT_VERIFIED_FIELDS
<1>4. CASE form.authType = "SP"
  <2>1. /\ VerifiedSPCPResponses = <<IdentityRow(u)>>
        /\ verifiedContent = [uinFin |-> u]
    BY <1>2, <1>4 DEF VerifiedSPCPResponses, verifiedContent
  <2>2. Range([uinFin |-> u]) = {u} /\ DOMAIN [uinFin |-> u] = {"uinFin"}
    BY DEF Range
  <2>3. ToSet(<<IdentityRow(u)>>) = {IdentityRow(u)}
    <3>1. \A a : ToSet(<<a>>) = {a}
      BY DEF ToSet
    <3>. QED  BY <3>1
  <2>4. DOMAIN verifiedContent \subseteq ToSet(CURRENT_VERIFIED_FIELDS)
    BY <1>3, <2>1, <2>2
  <2>. QED  BY <2>1, <2>2, <2>3, <2>4 DEF IdentityTold
<1>5. CASE form.authType = "CP"
  <2>1. /\ VerifiedSPCPResponses = <<IdentityRow(u), IdentityRow(w)>>
        /\ verifiedContent = [cpUen |-> u, cpUid |-> w]
    BY <1>2, <1>5 DEF VerifiedSPCPResponses, verifiedContent
  <2>2. /\ Range([cpUen |-> u, cpUid |-> w]) = {u, w}
        /\ DOMAIN [cpUen |-> u, cpUid |-> w] = {"cpUen", "cpUid"}
    BY DEF Range
  <2>3. ToSet(<<IdentityRow(u), IdentityRow(w)>>)
           = {IdentityRow(u), IdentityRow(w)}
    <3>1. ASSUME NEW a, NEW b
          PROVE  ToSet(<<a, b>>) = {a, b}
      <4>1. /\ DOMAIN <<a, b>> = 1 .. 2 /\ <<a, b>>[1] = a /\ <<a, b>>[2] = b
            /\ \A j \in 1 .. 2 : j = 1 \/ j = 2
            /\ 1 \in 1 .. 2 /\ 2 \in 1 .. 2
        OBVIOUS
      <4>. QED  BY <4>1 DEF ToSet
    <3>. QED  BY <3>1
  <2>4. DOMAIN verifiedContent \subseteq ToSet(CURRENT_VERIFIED_FIELDS)
    BY <1>3, <2>1, <2>2
  <2>. QED  BY <2>1, <2>2, <2>3, <2>4 DEF IdentityTold
<1>. QED  BY <1>1, <1>4, <1>5

LEMMA ToldFollows ==
  ASSUME Inv
  PROVE  ToldTruthfully
<1>1. /\ FillingInv /\ HashedInv /\ form \in Forms
  BY DEF Inv, AccessInv, FillingInv, PageInv
<1>2. Accepted => Judged
  BY DEF Accepted, Judged
<1>. QED  BY <1>1, <1>2, MailFollows, IdentityFollows DEF ToldTruthfully

(* The mail to the admin tells a blank answer of what was hidden, marks as *)
(* verified by MyInfo what MyInfo has had for the respondent it names, and *)
(* names the one that the encrypted submission names.                      *)
THEOREM AdminToldTruthfully == Spec => []ToldTruthfully
<1>1. Inv => ToldTruthfully
  BY ToldFollows
<1>. QED  BY <1>1, AccessInvariant, PTL


-----------------------------------------------------------------------------
(* What a step may never do *)

(* What ShownAgainIsBlank asks of a step.                                  *)
ShownBlank ==
    \A i \in fields \ inDoubt' :
        ~IsMyInfo(i) /\ ~isVisible(i) /\ isVisible(i)'
            => /\ ClearedValue(i, fieldValue'[i]) = fieldValue'[i]
               /\ file'[i] = None

LEMMA StartShowsBlank ==
  ASSUME form \in Forms, NEW values, Fresh(values), NEW locked,
         Start(values, locked)
  PROVE  ShownBlank
<1>1. fieldValue' = values /\ file' = [i \in fields |-> None]
  BY DEF Start
<1>2. \A i \in fields : file'[i] = None
  BY <1>1
<1>3. ASSUME NEW i \in fields, ~IsMyInfo(i)
      PROVE  ClearedValue(i, fieldValue'[i]) = fieldValue'[i]
  BY <1>1, <1>3, EmptyIsCleared DEF Fresh
<1>. QED  BY <1>2, <1>3 DEF ShownBlank

LEMMA SameShowsNone ==
  ASSUME form' = form, \A i \in fields : isVisible(i)' <=> isVisible(i)
  PROVE  ShownBlank
BY DEF ShownBlank

LEMMA UnchangedShowsNone ==
  ASSUME form' = form, fieldValue' = fieldValue
  PROVE  ShownBlank
BY SameShowsNone DEF isVisible, IsShown

(* The steps after which the page is another one, or as it was.            *)
Reloads ==
    \/ \E jwt : LoadWith(jwt)
    \/ DisplayForm

Leaves ==
    \/ UNCHANGED formVars
    \/ ReceiveSubmission \/ verifyMyInfoVals
    \/ stage = "form" /\ handleSubmitSuccess

LEMMA StepsOf ==
  ASSUME [Next]_vars
  PROVE  \/ Reloads \/ Leaves \/ FillForm
         \/ stage = "form" /\ handleSubmitFailure
<1>1. CASE ViewForm \/ ShowForm \/ formLogout \/ checkCookie \/ LoginFails
  BY <1>1 DEF ViewForm, ShowForm, formLogout, checkCookie, logout, LoginFails,
              Reloads
<1>2. CASE fetchMyInfo \/ saveHashes \/ LogoutElsewhere \/ LoginRefused \/ Tick
  BY <1>2 DEF fetchMyInfo, saveHashes, LogoutElsewhere, LoginRefused, Tick, Leaves
<1>3. ASSUME NEW u \in Users,
             LoginElsewhere(u) \/ ViewElsewhere(u) \/ PersonChanges(u)
                \/ HashesExpire(u)
      PROVE  Leaves
  BY <1>3 DEF LoginElsewhere, ViewElsewhere, PersonChanges, HashesExpire, Leaves
<1>4. ASSUME NEW u \in Users, Login(u)
      PROVE  Reloads
  BY <1>4 DEF Login, Reloads
<1>5. CASE ReceiveSubmission \/ verifyMyInfoVals \/ UNCHANGED vars
  BY <1>5 DEF Leaves, vars
<1>6. CASE EndSubmission
  BY <1>6 DEF EndSubmission, Leaves
<1>. QED  BY <1>1, <1>2, <1>3, <1>4, <1>5, <1>6 DEF Next

LEMMA LeavesFields ==
  ASSUME Leaves
  PROVE  form' = form /\ fieldValue' = fieldValue
BY DEF Leaves, formVars, pageVars, ReceiveSubmission, Receive, verifyMyInfoVals,
       handleSubmitSuccess

LEMMA ReloadStarts ==
  ASSUME Inv, Reloads
  PROVE  \E values, locked : Fresh(values) /\ Start(values, locked)
<1>1. form \in Forms /\ ViewInv
  BY DEF Inv, AccessInv, FillingInv, PageInv
<1>2. ASSUME NEW jwt, LoadWith(jwt)
      PROVE  Fresh(Blank(form)) /\ Start(Blank(form), {})
  BY <1>1, <1>2, BlankIsFresh DEF LoadWith
<1>3. ASSUME DisplayForm
      PROVE  Fresh(prefilledFields) /\ Start(prefilledFields, prefilledDisabled)
  BY <1>1, <1>3, PrefilledIsFresh DEF DisplayForm
<1>. QED  BY <1>2, <1>3 DEF Reloads

LEMMA StepShowsBlank ==
  ASSUME Inv, [Next]_vars
  PROVE  ShownBlank
<1>1. /\ FillingInv /\ form \in Forms
      /\ \A i \in disabled : i \in fields /\ IsMyInfo(i)
  BY DEF Inv, AccessInv, FillingInv, PageInv, LockedInv
<1>2. CASE Reloads
  <2>1. PICK values, locked : Fresh(values) /\ Start(values, locked)
    BY <1>2, ReloadStarts
  <2>. QED  BY <1>1, <2>1, StartShowsBlank
<1>3. CASE Leaves
  BY <1>3, LeavesFields, UnchangedShowsNone
<1>4. CASE FillForm
  <2>1. Filling
    BY <1>4 DEF FillForm
  <2>2. \A i \in fields \ inDoubt' :
           ~IsMyInfo(i) /\ ~isVisible(i) /\ isVisible(i)' =>
               /\ ClearedValue(i, fieldValue'[i]) = fieldValue'[i]
               /\ file'[i] = None
    BY <1>1, <2>1, Filled
  <2>. QED  BY <2>2 DEF ShownBlank
<1>5. CASE stage = "form" /\ handleSubmitFailure
  <2>1. form' = form
    BY <1>5 DEF handleSubmitFailure, pageVars
  <2>2. \A i \in fields : isVisible(i)' <=> isVisible(i)
    BY <1>1, <1>5, RestoredShown
  <2>. QED  BY <2>1, <2>2, SameShowsNone
<1>. QED  BY <1>2, <1>3, <1>4, <1>5, StepsOf

(* A field that is shown again shows no answer from before it was hidden,  *)
(* but for that of MyInfo, and no file, unless one was still under way.    *)
THEOREM BlankWhenShownAgain == Spec => ShownAgainIsBlank
<1>1. Inv /\ [Next]_vars => [ShownBlank]_formVars
  BY StepShowsBlank
<1>2. Spec => [][ShownBlank]_formVars
  BY <1>1, AccessInvariant, PTL DEF Spec
<1>. QED  BY <1>2 DEF ShownAgainIsBlank, ShownBlank

-----------------------------------------------------------------------------
(* A field that is locked brings the value that MyInfo filled in.          *)
LEMMA LockedAnswer ==
  ASSUME FillingInv, LockedInv, stage = "form", uiState # "DEFAULT",
         view.data # None, NEW i \in clientMyInfoFields,
         NEW found, found.fields = readOnlyHashes(view.data),
         form.myInfo[i] \in DOMAIN found.fields
  PROVE  SentAnswer(i) = found.fields[form.myInfo[i]]
<1>1. /\ form \in Forms /\ SentInv /\ ValuesOK(sent.fieldValue)
      /\ i \in fields /\ IsMyInfo(i) /\ IsShown(ReceivedAnswers, i)
  BY DEF FillingInv, PageInv, SentInv, clientMyInfoFields
<1>2. form.form_fields[i].fieldType \in MyInfoTypes
  BY <1>1, FieldFacts
<1>3. /\ isFieldReadOnly(form.myInfo[i], view.data)
      /\ found.fields[form.myInfo[i]] = view.data[form.myInfo[i]].value
  BY DEF readOnlyHashes, ReadOnlyAttributes
<1>4. fieldValue[i] = view.data[form.myInfo[i]].value
  BY <1>1, <1>3 DEF LockedInv
<1>5. fieldValue[i] = sent.fieldValue[i]
  BY <1>1, <1>2 DEF SentInv, IsAttachment, MyInfoTypes
<1>6. IsShown(sent.fieldValue, i)
  BY <1>1, SeenByTheServer
<1>7. SentAnswer(i) = sent.fieldValue[i]
  BY <1>2, <1>6, AnswerOf DEF SentAnswer, MyInfoTypes
<1>. QED  BY <1>3, <1>4, <1>5, <1>7

LEMMA VerifiedWhenKept ==
  ASSUME Inv, LoginAndHashesKept, verifyMyInfoVals
  PROVE  verdict'.status \notin {"notAuthenticated", "noHashes", "otherHashes"}
<1>1. /\ FillingInv /\ ViewInv /\ MyInfoInv /\ LockedInv /\ form \in Forms
      /\ StateInv /\ VerdictInv /\ stage = "form" /\ uiState = "VERIFYING"
  BY DEF Inv, AccessInv, FillingInv, PageInv, verifyMyInfoVals
<1>2. /\ verdict.status = "OK" /\ HasMyInfo /\ form.authType = "SP"
      /\ verdict = [status |-> verdict.status, files |-> verdict.files,
                    hashedFields |-> verdict.hashedFields,
                    filenames |-> verdict.filenames, day |-> verdict.day]
  BY <1>1, NeedsMyInfo DEF StateInv, VerdictInv, Judged
<1>3. /\ IsValidJWT(view.cookie) /\ sentCookie = view.cookie
      /\ session.rememberMe = view.cookie.rememberMe
      /\ \A kept \in hashes[uinFin] : kept.fields = readOnlyHashes(view.data)
  BY DEF LoginAndHashesKept
<1>4. ~view.myInfoError /\ ~session.rememberMe
  BY <1>1, <1>2 DEF ViewInv
<1>5. view.data # None /\ HashesKept(view.cookie)
  BY <1>1, <1>2, <1>3, <1>4 DEF MyInfoInv, Viewed
<1>6. FoundHashes # {}
  BY <1>3, <1>5 DEF HashesKept, FoundHashes, uinFin
<1>7. \A i \in clientMyInfoFields : HashMatches(i)
  BY <1>1, <1>3, <1>5, LockedAnswer DEF HashMatches, FoundHashes
<1>8. \/ verdict' = [verdict EXCEPT !.status = "unavailable"]
      \/ verdict' = [verdict EXCEPT !.hashedFields = verifiedKeys]
  BY <1>6, <1>7 DEF verifyMyInfoVals
<1>9. verdict'.status \in {"unavailable", "OK"}
  BY <1>2, <1>8
<1>. QED  BY <1>9

(* What NeverTurnedAway asks of a step.                                    *)
NotTurnedAway ==
    LoginAndHashesKept /\ verdict' # verdict /\ verdict' # None
        => verdict'.status \notin
               {"notAuthenticated", "noHashes", "otherHashes"}

LEMMA StepTurnsNobodyAway ==
  ASSUME Inv, [Next]_vars
  PROVE  NotTurnedAway
<1>1. /\ FillingInv /\ form \in Forms
      /\ \A i \in disabled : i \in fields /\ IsMyInfo(i)
  BY DEF Inv, AccessInv, FillingInv, PageInv, LockedInv
<1>2. CASE Reloads
  <2>1. PICK values, locked : Start(values, locked)
    BY <1>2, ReloadStarts
  <2>. QED  BY <2>1 DEF Start, NotTurnedAway
<1>3. CASE UNCHANGED formVars \/ (stage = "form" /\ handleSubmitSuccess)
  <2>1. verdict' = verdict
    BY <1>3 DEF formVars, submissionVars, handleSubmitSuccess
  <2>. QED  BY <2>1 DEF NotTurnedAway
<1>4. CASE ReceiveSubmission
  <2>. SUFFICES ASSUME LoginAndHashesKept
                PROVE  verdict'.status \notin
                          {"notAuthenticated", "noHashes", "otherHashes"}
    BY DEF NotTurnedAway
  <2>1. isSpcpAuthenticated
    BY DEF LoginAndHashesKept, isSpcpAuthenticated
  <2>2. PICK tmin, tmax :
           verdict' = [status |-> Status(isSpcpAuthenticated, tmin, tmax),
                       files |-> [i \in fields |-> IF i \in Attachments
                                                   THEN sent.file[i] ELSE None],
                       hashedFields |-> {},
                       filenames |-> Filenames,
                       day |-> today]
    BY <1>4 DEF ReceiveSubmission, Receive
  <2>3. verdict'.status = Status(isSpcpAuthenticated, tmin, tmax)
    BY <2>2
  <2>4. Status(isSpcpAuthenticated, tmin, tmax)
           \in {"invalidFiles", "tooLarge", "prevented", "invalidAnswers", "OK"}
    BY <2>1 DEF Status
  <2>. QED  BY <2>3, <2>4
<1>5. CASE verifyMyInfoVals
  BY <1>5, VerifiedWhenKept DEF NotTurnedAway
<1>6. CASE FillForm
  <2>1. verdict' = verdict
    BY <1>1, <1>6, Filled DEF FillForm
  <2>. QED  BY <2>1 DEF NotTurnedAway
<1>7. CASE stage = "form" /\ handleSubmitFailure
  BY <1>7 DEF handleSubmitFailure, NotTurnedAway
<1>. QED  BY <1>2, <1>3, <1>4, <1>5, <1>6, <1>7, StepsOf DEF Leaves

(* Nobody whose login is still the one that he got the form with is turned *)
(* away for it, or for what MyInfo filled in, unless another page of his   *)
(* replaced the hashes with others.                                        *)
THEOREM NobodyTurnedAway == Spec => NeverTurnedAway
<1>1. Inv /\ [Next]_vars => [NotTurnedAway]_vars
  BY StepTurnsNobodyAway
<1>2. Spec => [][NotTurnedAway]_vars
  BY <1>1, AccessInvariant, PTL DEF Spec
<1>. QED  BY <1>2 DEF NeverTurnedAway, NotTurnedAway
=============================================================================
