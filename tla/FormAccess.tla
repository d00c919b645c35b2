------------------------------ MODULE FormAccess ------------------------------
(***************************************************************************)
(* How a respondent comes to a form that asks for a login with SingPass or *)
(* CorpPass and fills in fields from MyInfo, and what the server makes of  *)
(* both when the form is submitted: spcp.server.controller.js,             *)
(* myinfo.server.controller.js, myinfo.service.js, the start page and      *)
(* SpcpSession, around the page of FormFilling.                            *)
(*                                                                         *)
(* The login is a cookie of the browser, which every tab may replace or    *)
(* remove and which expires.  The hashes of the MyInfo values that a       *)
(* respondent may not change are kept for him and the form, whatever page  *)
(* of his asked for them last, and expire as well.  Nothing ties the page, *)
(* the cookie and the hashes together but the order of what happens.       *)
(***************************************************************************)
EXTENDS FormFilling

CONSTANTS
    Users,          \* who may log in; with CorpPass, the entities
    CorpUser,       \* of an entity, who logs in for it
    Persons,        \* what MyInfo has of a user, one version after another
    spCookieMaxAge, \* of the cookie, and of the hashes
    spCookieMaxAgePreserved,    \* of the cookie of one who is remembered
    cpCookieMaxAge,
    MaxTime,
    MaxElsewhere    \* the most that happens in other tabs

MarriageAttributes ==
    {"marital", "marriagedate", "divorcedate", "countryofmarriage",
     "marriagecertno"}

(* verified: the source of the value is the government.                    *)
ASSUME AccessAssumption ==
    /\ None \notin Users
    /\ MaxTime \in Nat /\ MaxElsewhere \in Nat
    /\ {spCookieMaxAge, spCookieMaxAgePreserved, cpCookieMaxAge}
           \subseteq Nat \ {0}
    /\ \A u \in Users :
           /\ Persons[u] \in Seq(ToSet(Persons[u])) \ {<<>>}
           /\ None \notin ToSet(Persons[u])
    /\ \A u \in Users, f \in Forms : \A n \in DOMAIN Persons[u] :
           \A i \in DOMAIN f.form_fields :
               f.myInfo[i] # None =>
                   /\ Persons[u][n][f.myInfo[i]].value
                          \in PossibleValues(f.form_fields[i])
                   /\ Persons[u][n][f.myInfo[i]].verified \in BOOLEAN

VARIABLES
    now,
    cookie,         \* jwtSp or jwtCp in the browser
    versions,       \* the version that MyInfo has of a user
    hashes,         \* the documents with the hashes of a user, for the form
    stage,          \* of the page: see below
    view,           \* the request for the form, and what it brought
    session,        \* SpcpSession
    sentCookie,     \* the cookie that went with the submission
    elsewhere       \* how much has happened in other tabs

accessVars == <<now, cookie, versions, hashes, stage, view, session, sentCookie,
                elsewhere>>
vars == <<formVars, accessVars>>

(* away: no page; asked, fetched, answered: the server works on the        *)
(* request for the form; start: only the start page is displayed; locked:  *)
(* MyInfo failed; form: the form is displayed.                             *)
Stages == {"away", "asked", "fetched", "answered", "start", "locked", "form"}

NeedsLogin == form.authType # "NIL"

(* verifyJWT                                                               *)
IsValidJWT(jwt) == jwt # None /\ now < jwt.expires

-----------------------------------------------------------------------------
(* The request for the form *)

NoView == [cookie |-> None, data |-> None, myInfoError |-> FALSE]

(* The page is loaded anew, and what was on it is gone.                    *)
LoadWith(jwt) ==
    /\ stage' = "asked"
    /\ view' = [NoView EXCEPT !.cookie = jwt]
    /\ session' = None
    /\ sentCookie' = None
    /\ Start(Blank(form), {})

ViewForm ==
    /\ stage = "away"
    /\ LoadWith(cookie)
    /\ UNCHANGED <<now, cookie, versions, hashes, elsewhere>>

(* addSpcpSessionInfo; a cookie that is not valid counts as none.          *)
spcpSession == IF IsValidJWT(view.cookie) THEN view.cookie.userName ELSE None

PersonData(u) == Persons[u][versions[u]]

AsksMyInfo == spcpSession # None /\ form.authType = "SP" /\ HasMyInfo

(* fetchMyInfoPersonData fails, too, while its circuit breaker is open.    *)
fetchMyInfo ==
    /\ stage = "asked"
    /\ IF AsksMyInfo
       THEN \/ /\ view' = [view EXCEPT !.data = PersonData(spcpSession)]
               /\ stage' = "fetched"
            \/ /\ view' = [view EXCEPT !.myInfoError = TRUE]
               /\ stage' = "answered"
       ELSE UNCHANGED view /\ stage' = "answered"
    /\ UNCHANGED <<formVars, now, cookie, versions, hashes, session,
                   sentCookie, elsewhere>>

isFieldReadOnly(attr, data) ==
    /\ data[attr].value # ""
    /\ data[attr].verified
    /\ attr \notin MarriageAttributes

ReadOnlyAttributes(data) ==
    {attr \in {form.myInfo[i] : i \in fields} \ {None} :
        isFieldReadOnly(attr, data)}

readOnlyHashes(data) ==
    [attr \in ReadOnlyAttributes(data) |-> data[attr].value]

HashesOf(data) ==
    [fields |-> readOnlyHashes(data), expireAt |-> now + spCookieMaxAge]

(* Adds the hashes, or replaces those of an earlier request.               *)
saveHashes ==
    /\ stage = "fetched"
    /\ stage' = "answered"
    /\ LET u == view.cookie.userName
           saved == [hashes EXCEPT ![u] = {HashesOf(view.data)}]
       IN  \/ hashes' = saved /\ UNCHANGED view
           \/ /\ hashes' \in {hashes, saved}
              /\ view' = [view EXCEPT !.myInfoError = TRUE]
    /\ UNCHANGED <<formVars, now, cookie, versions, session, sentCookie,
                   elsewhere>>

prefilledFields ==
    [i \in fields |-> IF IsMyInfo(i) /\ view.data # None
                      THEN view.data[form.myInfo[i]].value
                      ELSE EmptyValue(form.form_fields[i])]

prefilledDisabled ==
    {i \in fields : /\ IsMyInfo(i) /\ view.data # None
                    /\ isFieldReadOnly(form.myInfo[i], view.data)}

-----------------------------------------------------------------------------
(* The page: SubmitFormController and the start page *)

(* setUser decodes the cookie that is there now.                           *)
setUser ==
    IF NeedsLogin /\ cookie # None
    THEN [userName |-> cookie.userName, rememberMe |-> cookie.rememberMe]
    ELSE None

(* Mutant: a session that is remembered is kept.                           *)
LogsOutAtStart_Never(user) == FALSE

LogsOutAtStart(user) ==
    form.authType = "SP" /\ user # None /\ HasMyInfo /\ user.rememberMe

(* The form is displayed to one who is logged in, and if MyInfo did not    *)
(* fail.                                                                   *)
DisplayForm ==
    /\ session' = setUser
    /\ stage' = IF NeedsLogin /\ setUser = None THEN "start"
                ELSE IF view.myInfoError THEN "locked" ELSE "form"
    /\ Start(prefilledFields, prefilledDisabled)
    /\ UNCHANGED <<now, cookie, versions, hashes, view, sentCookie, elsewhere>>

(* SpcpSession.logout removes the cookie and reloads the page.             *)
logout ==
    /\ cookie' = None
    /\ LoadWith(None)
    /\ UNCHANGED <<now, versions, hashes, elsewhere>>

ShowForm ==
    /\ stage = "answered"
    /\ IF LogsOutAtStart(setUser) THEN logout ELSE DisplayForm

formLogout == stage \in {"form", "locked"} /\ session # None /\ logout

(* Every five seconds.                                                     *)
checkCookie ==
    stage \in {"form", "locked"} /\ session # None /\ cookie = None /\ logout

-----------------------------------------------------------------------------
(* The login *)

cookieDuration(rememberMe) ==
    CASE form.authType = "CP" -> cpCookieMaxAge
      [] rememberMe -> spCookieMaxAgePreserved
      [] OTHER -> spCookieMaxAge

(* With CorpPass the name is that of the entity, and userInfo the user's.  *)
createJWT(u, rememberMe) ==
    [userName |-> u, rememberMe |-> rememberMe,
     userInfo |-> IF form.authType = "CP" THEN CorpUser[u] ELSE None,
     expires |-> now + cookieDuration(rememberMe)]

(* "Keep me logged in" is offered with SingPass, and without MyInfo.       *)
OffersRememberMe == form.authType = "SP" /\ ~HasMyInfo

(* formLogin, the IdP, and handleOOBAuthenticationWith, which redirects to *)
(* the form.                                                               *)
Login(u) ==
    /\ stage = "start"
    /\ \E rememberMe \in {FALSE, OffersRememberMe} :
          LET jwt == createJWT(u, rememberMe)
          IN  cookie' = jwt /\ LoadWith(jwt)
    /\ UNCHANGED <<now, versions, hashes, elsewhere>>

(* Without the name of the user it redirects as well, and leaves a cookie  *)
(* that another tab may have got.                                          *)
LoginFails ==
    /\ stage = "start"
    /\ LoadWith(cookie)
    /\ UNCHANGED <<now, cookie, versions, hashes, elsewhere>>

(* The artifact is not valid, or the form has another authType by now.     *)
LoginRefused ==
    /\ stage = "start"
    /\ stage' = "away"
    /\ UNCHANGED <<formVars, now, cookie, versions, hashes, view, session,
                   sentCookie, elsewhere>>

Elsewhere ==
    /\ elsewhere < MaxElsewhere
    /\ elsewhere' = elsewhere + 1

(* In another tab, on a form that need not ask for MyInfo.                 *)
LoginElsewhere(u) ==
    /\ Elsewhere
    /\ NeedsLogin
    /\ \E rememberMe \in {FALSE, form.authType = "SP"} :
          cookie' = createJWT(u, rememberMe)
    /\ UNCHANGED <<formVars, now, versions, hashes, stage, view, session,
                   sentCookie>>

LogoutElsewhere ==
    /\ Elsewhere
    /\ cookie # None
    /\ cookie' = None
    /\ UNCHANGED <<formVars, now, versions, hashes, stage, view, session,
                   sentCookie>>

(* Another page of the form, which may have fetched an earlier version.    *)
ViewElsewhere(u) ==
    /\ Elsewhere
    /\ HasMyInfo
    /\ \E n \in 1 .. versions[u] :
          hashes' = [hashes EXCEPT ![u] = {HashesOf(Persons[u][n])}]
    /\ UNCHANGED <<formVars, now, cookie, versions, stage, view, session,
                   sentCookie>>

PersonChanges(u) ==
    /\ HasMyInfo
    /\ versions[u] < Len(Persons[u])
    /\ versions' = [versions EXCEPT ![u] = @ + 1]
    /\ UNCHANGED <<formVars, now, cookie, hashes, stage, view, session,
                   sentCookie, elsewhere>>

(* The browser drops a cookie that has expired.                            *)
Tick ==
    /\ NeedsLogin
    /\ now < MaxTime
    /\ now' = now + 1
    /\ cookie' = IF cookie # None /\ cookie.expires <= now'
                 THEN None ELSE cookie
    /\ UNCHANGED <<formVars, versions, hashes, stage, view, session,
                   sentCookie, elsewhere>>

(* The TTL index of the database.                                          *)
HashesExpire(u) ==
    /\ \E kept \in hashes[u] : kept.expireAt <= now
    /\ hashes' = [hashes EXCEPT ![u] = {}]
    /\ UNCHANGED <<formVars, now, cookie, versions, stage, view, session,
                   sentCookie, elsewhere>>

-----------------------------------------------------------------------------
(* The submission *)

(* The request takes the cookie that is there when it is sent.             *)
FillForm ==
    /\ stage = "form"
    /\ Filling
    /\ sentCookie' = IF uiState' # uiState THEN cookie ELSE sentCookie
    /\ UNCHANGED <<now, cookie, versions, hashes, stage, view, session,
                   elsewhere>>

isSpcpAuthenticated == NeedsLogin => IsValidJWT(sentCookie)

ReceiveSubmission ==
    /\ stage = "form"
    /\ Receive(isSpcpAuthenticated)
    /\ UNCHANGED accessVars

uinFin == sentCookie.userName
userInfo == sentCookie.userInfo

(* Mutant: the hashes of whoever viewed the form are as good.              *)
FoundHashes_OfAnybody ==
    IF \E u \in Users : hashes[u] # {}
    THEN hashes[CHOOSE u \in Users : hashes[u] # {}] ELSE {}

(* There is one document, or none.                                         *)
FoundHashes == hashes[uinFin]

clientMyInfoFields ==
    {i \in fields : IsMyInfo(i) /\ IsShown(ReceivedAnswers, i)}

(* A value without a hash is one that the respondent may fill in.          *)
HashMatches(i) ==
    \A found \in FoundHashes :
        form.myInfo[i] \in DOMAIN found.fields =>
            SentAnswer(i) = found.fields[form.myInfo[i]]

verifiedKeys ==
    {form.myInfo[i] : i \in clientMyInfoFields}
        \cap UNION {DOMAIN found.fields : found \in FoundHashes}

verifyMyInfoVals ==
    /\ stage = "form" /\ uiState = "VERIFYING"
    /\ uiState' = "SENT"
    /\ \/ verdict' = [verdict EXCEPT !.status = "unavailable"]
       \/ verdict' = IF FoundHashes = {}
                     THEN [verdict EXCEPT !.status = "noHashes"]
                     ELSE IF \E i \in clientMyInfoFields : ~HashMatches(i)
                     THEN [verdict EXCEPT !.status = "otherHashes"]
                     ELSE [verdict EXCEPT !.hashedFields = verifiedKeys]
    /\ UNCHANGED <<pageVars, fieldValue, file, componentVars, today, captcha,
                   savedForm, sent, shown, inDoubt, accessVars>>

(* A refusal does not log the respondent out: its spcpSubmissionFailure is *)
(* lost on the way, as Submissions.post passes on the message alone.       *)
EndSubmission ==
    /\ stage = "form"
    /\ \/ handleSubmitSuccess /\ UNCHANGED sentCookie
       \/ handleSubmitFailure /\ sentCookie' = None
    /\ UNCHANGED <<now, cookie, versions, hashes, stage, view, session,
                   elsewhere>>

-----------------------------------------------------------------------------
(* What the mail to the admin tells *)

(* A row for each row of a table; a checkbox has its answers in one.       *)
AnswerRows(i) ==
    IF form.form_fields[i].fieldType = "table" THEN ParsedAnswer(i)
    ELSE <<ParsedAnswer(i)>>

isMyInfoVerifiedResponse(i) == form.myInfo[i] \in verdict.hashedFields

getFormattedResponse(i) ==
    [r \in DOMAIN AnswerRows(i) |->
        [of |-> i, answer |-> AnswerRows(i)[r],
         isVisible |-> IsShown(ReceivedAnswers, i),
         myInfo |-> isMyInfoVerifiedResponse(i)]]

IdentityRow(answer) ==
    [of |-> 0, answer |-> answer, isVisible |-> TRUE, myInfo |-> FALSE]

(* appendVerifiedSPCPResponses, for a form in email mode.                  *)
VerifiedSPCPResponses ==
    CASE form.authType = "SP" -> <<IdentityRow(uinFin)>>
      [] form.authType = "CP" -> <<IdentityRow(uinFin), IdentityRow(userInfo)>>
      [] OTHER -> <<>>

formData ==
    FlattenSeq([i \in fields |-> getFormattedResponse(i)])
        \o VerifiedSPCPResponses

(* encryptedVerifiedFields, for a form in encrypt mode: mapDataToKey.      *)
verifiedContent ==
    CASE form.authType = "SP" -> [uinFin |-> uinFin]
      [] form.authType = "CP" -> [cpUen |-> uinFin, cpUid |-> userInfo]
      [] OTHER -> <<>>

CURRENT_VERIFIED_FIELDS == <<"uinFin", "cpUen", "cpUid">>

-----------------------------------------------------------------------------
Init ==
    /\ PageInit
    /\ now = 0
    /\ cookie = None
    /\ versions = [u \in Users |-> 1]
    /\ hashes = [u \in Users |-> {}]
    /\ stage = "away"
    /\ view = NoView
    /\ session = None
    /\ sentCookie = None
    /\ elsewhere = 0

Next ==
    \/ ViewForm \/ fetchMyInfo \/ saveHashes \/ ShowForm
    \/ formLogout \/ checkCookie \/ LogoutElsewhere
    \/ LoginFails \/ LoginRefused
    \/ \E u \in Users : \/ Login(u) \/ LoginElsewhere(u) \/ ViewElsewhere(u)
                        \/ PersonChanges(u) \/ HashesExpire(u)
    \/ Tick
    \/ FillForm \/ ReceiveSubmission \/ verifyMyInfoVals \/ EndSubmission

Spec == Init /\ [][Next]_vars

(* The browser and the server go on, and an HTTP call ends in an answer or *)
(* in an error; what the respondent does is up to him.                     *)
FairSpec ==
    /\ Spec
    /\ WF_vars(ReceiveSubmission)
    /\ WF_vars(verifyMyInfoVals)
    /\ WF_vars(EndSubmission)

-----------------------------------------------------------------------------
(* Properties *)

(* Every variable holds a value of its type; a page that is displayed has  *)
(* its session, and a submission its cookie.                               *)
AccessTypeOK ==
    /\ now \in 0 .. MaxTime
    /\ \A jwt \in {cookie, view.cookie, sentCookie} :
          jwt # None => jwt.userName \in Users /\ jwt.rememberMe \in BOOLEAN
    /\ cookie # None => IsValidJWT(cookie)
    /\ \A u \in Users :
          /\ versions[u] \in DOMAIN Persons[u]
          /\ \A kept \in hashes[u] : kept.expireAt \in Nat
    /\ stage \in Stages
    /\ elsewhere \in 0 .. MaxElsewhere
    /\ session # None => stage \in {"form", "locked"}
    /\ stage = "form" /\ NeedsLogin => session # None
    /\ uiState # "DEFAULT" => stage = "form"

BlankAnswers(i) ==
    LET field == form.form_fields[i]
    IN  IF field.fieldType = "table" THEN {BlankRow(field)}
        ELSE {Answer(field, EmptyValue(field))}

(* Nobody is turned away for his login or for what MyInfo filled in, at    *)
(* any time that his cookie is still valid, if it is the one that he got   *)
(* the form with, from the request to the submission: the hashes are there *)
(* for as long as the cookie, and match, unless another page of his        *)
(* replaced them with other values.                                        *)
LoginAndHashesKept ==
    /\ NeedsLogin
    /\ IsValidJWT(sentCookie) /\ sentCookie = view.cookie
    /\ session.userName = uinFin /\ session.rememberMe = sentCookie.rememberMe
    /\ \A kept \in hashes[uinFin] : kept.fields = readOnlyHashes(view.data)

NeverTurnedAway ==
    [][LoginAndHashesKept /\ verdict' # verdict /\ verdict' # None
        => verdict'.status \notin
               {"notAuthenticated", "noHashes", "otherHashes"}]_vars

Accepted ==
    verdict # None /\ uiState \in {"SENT", "SUBMITTED"} /\ verdict.status = "OK"

(* The mail to the admin tells of the fields that were shown and of no     *)
(* other; what it marks as verified by MyInfo, MyInfo has had for the      *)
(* very user whom it names.                                                *)
MailTruthful ==
    \A r \in DOMAIN formData : LET row == formData[r] IN
        /\ ~row.isVisible /\ row.of \notin inDoubt =>
              row.answer \in BlankAnswers(row.of)
        /\ row.myInfo /\ row.isVisible =>
              \E n \in DOMAIN Persons[uinFin] :
                  row.answer = Persons[uinFin][n][form.myInfo[row.of]].value

(* Both modes name the same respondent, and under keys that the export has *)
(* a column for.                                                           *)
IdentityTold ==
    /\ ToSet(VerifiedSPCPResponses) =
           {IdentityRow(answer) : answer \in Range(verifiedContent)}
    /\ DOMAIN verifiedContent \subseteq ToSet(CURRENT_VERIFIED_FIELDS)

(* What the admin is told of an accepted submission is true of the         *)
(* respondent who was logged in when he sent it.                           *)
ToldTruthfully ==
    /\ Accepted /\ form.responseMode = "email" => MailTruthful
    /\ Accepted /\ NeedsLogin => IdentityTold
=============================================================================
