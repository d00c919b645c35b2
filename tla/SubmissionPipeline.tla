-------------------------- MODULE SubmissionPipeline --------------------------
(***************************************************************************)
(* A form's submissions on the server, from the respondent's click to the  *)
(* last confirmation mail (public-forms.server.routes.js and the           *)
(* controllers it chains), for forms of either response mode.              *)
(*                                                                         *)
(* Email mode keeps a record of the submission and mails the answers to    *)
(* the admin.  Encrypt mode uploads the attachments to S3, stores the      *)
(* encrypted answers, and may post them to a webhook.  Both then answer    *)
(* the respondent, and only then send the confirmation mails, with         *)
(* retries, while nobody waits for them.                                   *)
(*                                                                         *)
(* Every action is a stretch of a handler up to its next await.  A call to *)
(* the database, S3 or the mail server that fails may have had its effect. *)
(* A request works on the form it read at its start, which its admin may   *)
(* edit meanwhile.                                                         *)
(***************************************************************************)
EXTENDS Naturals, FiniteSets

CONSTANTS
    Requests,       \* submissions that are posted
    Attachments,    \* fields with an attachment
    Recipients,     \* addresses in email fields that have an autoreply
    Forms,          \* the settings that the form may have
    maxRetryCount,  \* config.mail.retry.maxRetryCount
    Admin,          \* form.emails
    None

ResponseModes == {"email", "encrypt"}

Form == [responseMode : ResponseModes,
         status : {"PRIVATE", "PUBLIC", "ARCHIVED"},
         hasCaptcha : BOOLEAN,
         authType : {"NIL", "SP", "CP"},
         webhook : BOOLEAN]

(* submission.server.model.ts; recipientEmails, the hash and the content   *)
(* are left out.                                                           *)
Submission == [authType : {"NIL", "SP", "CP"},
               attachmentMetadata : SUBSET Attachments,
               hasBounced : BOOLEAN,
               webhookResponses : SUBSET {"succeeded", "failed"}]

ASSUME PipelineAssumption ==
    /\ Forms \subseteq Form
    /\ maxRetryCount \in Nat
    /\ None \notin Form \cup Submission \cup Requests

VARIABLES
    form,           \* the form in the database
    page,           \* the respondent's page and the request it waits for
    stage,          \* the middleware that each request has reached
    seen,           \* req.form, as formById read it
    authenticated,  \* whether a SingPass or CorpPass token was verified
    attachments,    \* req.attachmentData
    uploading,      \* the uploads that saveResponseToDb waits for
    reply,          \* what res.send was called with
    autoReply,      \* the confirmation mail to each recipient
    webhook,        \* the post to the webhook
    submissions,    \* the database's submissions
    bucket,         \* the attachments in S3
    mails,          \* the mails that the mail server has accepted
    bounced,        \* the mails that came back
    posted          \* the submissions that the webhook's receiver got

handlerVars == <<stage, seen, authenticated, attachments, uploading, reply>>
backgroundVars == <<autoReply, webhook>>
storeVars == <<submissions, bucket, mails, bounced, posted>>
vars == <<form, page, handlerVars, backgroundVars, storeVars>>

-----------------------------------------------------------------------------
(* The chains of middleware, up to the one that saves *)

EmailChecks ==
    [formById            |-> "isFormPublic",
     isFormPublic        |-> "captchaCheck",
     captchaCheck        |-> "isSpcpAuthenticated",
     isSpcpAuthenticated |-> "receiveEmailSubmission",
     receiveEmailSubmission |-> "validateSubmission",
     validateSubmission  |-> "verifyMyInfoVals",
     verifyMyInfoVals    |-> "saving"]

EncryptChecks ==
    [formById            |-> "isFormPublic",
     isFormPublic        |-> "captchaCheck",
     captchaCheck        |-> "validateSubmission",
     validateSubmission  |-> "isSpcpAuthenticated",
     isSpcpAuthenticated |-> "verifyMyInfoVals",
     verifyMyInfoVals    |-> "encryptedVerifiedFields",
     encryptedVerifiedFields |-> "saving"]

Checks == IF form.responseMode = "email" THEN EmailChecks ELSE EncryptChecks

CheckStages == DOMAIN EmailChecks \cup DOMAIN EncryptChecks

Stages == CheckStages \cup
          {"unsent", "saving", "sendAdminEmail", "confirming", "done"}

Replies == {"none", "OK", "REFUSED", "MALFORMED", "NOT_SENT", "CLOSED"}

AutoReplies == [status : {"none", "sending", "waiting", "ended"},
                retryCount : 0..maxRetryCount]

Mails == [request : Requests,
          emailType : {"adminResponse", "emailConfirmation"},
          to : Recipients \cup {Admin}]

AdminMail(r) == [request |-> r, emailType |-> "adminResponse", to |-> Admin]

ConfirmationMail(r, c) ==
    [request |-> r, emailType |-> "emailConfirmation", to |-> c]

Init ==
    /\ form \in Forms
    /\ page = [view |-> "filling", request |-> None]
    /\ stage = [r \in Requests |-> "unsent"]
    /\ seen = [r \in Requests |-> None]
    /\ authenticated = [r \in Requests |-> FALSE]
    /\ attachments = [r \in Requests |-> {}]
    /\ uploading = [r \in Requests |-> {}]
    /\ reply = [r \in Requests |-> "none"]
    /\ autoReply = [p \in Requests \X Recipients |->
                       [status |-> "none", retryCount |-> 0]]
    /\ webhook = [r \in Requests |-> "none"]
    /\ submissions = [r \in Requests |-> None]
    /\ bucket = {}
    /\ mails = {}
    /\ bounced = {}
    /\ posted = {}

-----------------------------------------------------------------------------
(* The respondent's page *)

(* The page posts to the route of the form's response mode, which no edit  *)
(* changes.  In email mode the attachments are part of the admin's mail    *)
(* and have no life of their own.                                          *)
ClickSubmit(r, files) ==
    /\ page.view = "filling"
    /\ stage[r] = "unsent"
    /\ form.responseMode = "email" => files = {}
    /\ page' = [view |-> "submitting", request |-> r]
    /\ stage' = [stage EXCEPT ![r] = "formById"]
    /\ attachments' = [attachments EXCEPT ![r] = files]
    /\ UNCHANGED <<form, seen, authenticated, uploading, reply,
                   backgroundVars, storeVars>>

(* Mutant: an answer of any kind is a success.                             *)
PageSucceeds_AnyAnswer ==
    /\ page.view = "submitting"
    /\ reply[page.request] # "none"
    /\ page' = [page EXCEPT !.view = "submitted"]
    /\ UNCHANGED <<form, handlerVars, backgroundVars, storeVars>>

(* handleSubmitSuccess *)
PageSucceeds ==
    /\ page.view = "submitting"
    /\ reply[page.request] = "OK"
    /\ page' = [page EXCEPT !.view = "submitted"]
    /\ UNCHANGED <<form, handlerVars, backgroundVars, storeVars>>

(* handleSubmitFailure: an error, or the answer is lost on its way.  The   *)
(* form can be submitted once more.                                        *)
PageFails ==
    /\ page.view = "submitting"
    /\ page' = [view |-> "filling", request |-> None]
    /\ UNCHANGED <<form, handlerVars, backgroundVars, storeVars>>

-----------------------------------------------------------------------------
(* The checks *)

InFlight(r) == stage[r] \notin {"unsent", "done"}

(* formById reads the form, once for the whole request.                    *)
ReadForm(r) ==
    /\ stage[r] = "formById"
    /\ seen' = [seen EXCEPT ![r] = form]
    /\ stage' = [stage EXCEPT ![r] = "isFormPublic"]
    /\ UNCHANGED <<form, page, authenticated, attachments, uploading, reply,
                   backgroundVars, storeVars>>

(* What a check refuses depends on the request, too, which is left out: a  *)
(* check that can refuse a request for this form may also let it pass.     *)
CanPass(check, f) == check = "isFormPublic" => f.status = "PUBLIC"

CanRefuse(check, f) ==
    \/ check \in {"formById", "receiveEmailSubmission", "validateSubmission"}
    \/ check = "isFormPublic" /\ f.status # "PUBLIC"
    \/ check = "captchaCheck" /\ f.hasCaptcha
    \/ check = "isSpcpAuthenticated" /\ f.authType # "NIL"
    \/ check = "verifyMyInfoVals" /\ f.authType = "SP"
    \/ check = "encryptedVerifiedFields" /\ f.authType # "NIL"

(* The token of isSpcpAuthenticated is verified only if the form asks for  *)
(* it.  After the last check saveResponseToDb starts every upload.         *)
PassCheck(r) ==
    /\ stage[r] \in DOMAIN Checks \ {"formById"}
    /\ CanPass(stage[r], seen[r])
    /\ stage' = [stage EXCEPT ![r] = Checks[stage[r]]]
    /\ authenticated' = [authenticated EXCEPT ![r] =
           @ \/ (stage[r] = "isSpcpAuthenticated" /\ seen[r].authType # "NIL")]
    /\ uploading' = [uploading EXCEPT ![r] =
           IF Checks[stage[r]] = "saving" THEN attachments[r] ELSE {}]
    /\ UNCHANGED <<form, page, seen, attachments, reply, backgroundVars,
                   storeVars>>

(* A request that has been answered before ends without an answer to this: *)
(* sending it throws.                                                      *)
RefuseCheck(r) ==
    /\ stage[r] \in DOMAIN Checks
    /\ CanRefuse(stage[r], seen[r])
    /\ reply' = [reply EXCEPT ![r] = IF @ = "none" THEN "REFUSED" ELSE @]
    /\ stage' = [stage EXCEPT ![r] = "done"]
    /\ UNCHANGED <<form, page, seen, authenticated, attachments, uploading,
                   backgroundVars, storeVars>>

(* A part of an email-mode body that does not parse is answered as it      *)
(* comes, and does not stop the handler: if another part has parsed, the   *)
(* request can pass this check and all that follow.  At a second such part *)
(* the answer throws in an event listener, which takes the server down     *)
(* (Crash).                                                                *)
MalformedPart(r) ==
    /\ stage[r] = "receiveEmailSubmission"
    /\ reply[r] = "none"
    /\ reply' = [reply EXCEPT ![r] = "MALFORMED"]
    /\ UNCHANGED <<form, page, stage, seen, authenticated, attachments,
                   uploading, backgroundVars, storeVars>>

(* The connection ends before the body does, and busboy never finishes.    *)
BodyCutOff(r) ==
    /\ stage[r] = "receiveEmailSubmission"
    /\ reply' = [reply EXCEPT ![r] = IF @ = "none" THEN "CLOSED" ELSE @]
    /\ stage' = [stage EXCEPT ![r] = "done"]
    /\ UNCHANGED <<form, page, seen, authenticated, attachments, uploading,
                   backgroundVars, storeVars>>

-----------------------------------------------------------------------------
(* Saving: saveMetadataToDb and saveResponseToDb *)

(* onSubmissionEmailFailure, onEncryptSubmissionFailure: a second answer   *)
(* is an exception, which nobody hears.                                    *)
NotSent(r) ==
    reply' = [reply EXCEPT ![r] = IF @ = "none" THEN "NOT_SENT" ELSE @]

(* Mutant: the form is read again when the submission is built.            *)
AuthTypeOf_ReadsAgain(r) == form.authType

AuthTypeOf(r) == seen[r].authType

Saved(r) ==
    [submissions EXCEPT ![r] =
        [authType |-> AuthTypeOf(r), attachmentMetadata |-> attachments[r],
         hasBounced |-> FALSE, webhookResponses |-> {}]]

UploadSucceeds(r, a) ==
    /\ stage[r] = "saving"
    /\ a \in uploading[r]
    /\ bucket' = bucket \cup {<<r, a>>}
    /\ uploading' = [uploading EXCEPT ![r] = @ \ {a}]
    /\ UNCHANGED <<form, page, stage, seen, authenticated, attachments,
                   reply, backgroundVars, submissions, mails, bounced,
                   posted>>

(* The first failure is answered and caught, and its promise resolves: the *)
(* submission is saved all the same.  At the second one the answer throws, *)
(* Promise.all rejects, and nothing is saved.                              *)
UploadFails(r, a) ==
    /\ stage[r] = "saving"
    /\ a \in uploading[r]
    /\ bucket' \in {bucket, bucket \cup {<<r, a>>}}
    /\ IF reply[r] = "none"
       THEN /\ uploading' = [uploading EXCEPT ![r] = @ \ {a}]
            /\ UNCHANGED stage
       ELSE /\ uploading' = [uploading EXCEPT ![r] = {}]
            /\ stage' = [stage EXCEPT ![r] = "done"]
    /\ NotSent(r)
    /\ UNCHANGED <<form, page, seen, authenticated, attachments,
                   backgroundVars, submissions, mails, bounced, posted>>

SaveMetadataToDb(r) ==
    /\ stage[r] = "saving"
    /\ form.responseMode = "email"
    /\ submissions' = Saved(r)
    /\ stage' = [stage EXCEPT ![r] = "sendAdminEmail"]
    /\ UNCHANGED <<form, page, seen, authenticated, attachments, uploading,
                   reply, backgroundVars, bucket, mails, bounced, posted>>

(* Mutant: the uploads are started and not waited for.                     *)
SaveResponseToDb_DoesNotWait(r) ==
    /\ stage[r] = "saving"
    /\ form.responseMode = "encrypt"
    /\ submissions' = Saved(r)
    /\ stage' = [stage EXCEPT ![r] = "confirming"]
    /\ UNCHANGED <<form, page, seen, authenticated, attachments, uploading,
                   reply, backgroundVars, bucket, mails, bounced, posted>>

SaveResponseToDb(r) ==
    /\ stage[r] = "saving"
    /\ form.responseMode = "encrypt"
    /\ uploading[r] = {}
    /\ submissions' = Saved(r)
    /\ stage' = [stage EXCEPT ![r] = "confirming"]
    /\ UNCHANGED <<form, page, seen, authenticated, attachments, uploading,
                   reply, backgroundVars, bucket, mails, bounced, posted>>

SaveFails(r) ==
    /\ stage[r] = "saving"
    /\ uploading[r] = {}
    /\ submissions' \in {submissions, Saved(r)}
    /\ stage' = [stage EXCEPT ![r] = "done"]
    /\ NotSent(r)
    /\ UNCHANGED <<form, page, seen, authenticated, attachments, uploading,
                   backgroundVars, bucket, mails, bounced, posted>>

-----------------------------------------------------------------------------
(* The admin's mail, which is not retried: sendAdminEmail *)

AdminEmailAccepted(r) ==
    /\ stage[r] = "sendAdminEmail"
    /\ mails' = mails \cup {AdminMail(r)}
    /\ stage' = [stage EXCEPT ![r] = "confirming"]
    /\ UNCHANGED <<form, page, seen, authenticated, attachments, uploading,
                   reply, backgroundVars, submissions, bucket, bounced,
                   posted>>

AdminEmailFails(r) ==
    /\ stage[r] = "sendAdminEmail"
    /\ mails' \in {mails, mails \cup {AdminMail(r)}}
    /\ stage' = [stage EXCEPT ![r] = "done"]
    /\ NotSent(r)
    /\ UNCHANGED <<form, page, seen, authenticated, attachments, uploading,
                   backgroundVars, submissions, bucket, bounced, posted>>

-----------------------------------------------------------------------------
(* The answer, and what goes on behind it *)

StartAutoReplies(r, to) ==
    autoReply' = [p \in Requests \X Recipients |->
        IF p[1] = r /\ p[2] \in to
        THEN [status |-> "sending", retryCount |-> maxRetryCount]
        ELSE autoReply[p]]

(* Mutant: the confirmation mails are sent before the answer.              *)
Confirm_MailsFirst(r) ==
    /\ stage[r] = "confirming"
    /\ stage' = [stage EXCEPT ![r] = "done"]
    /\ webhook' = [webhook EXCEPT ![r] =
           IF seen[r].responseMode = "encrypt" /\ seen[r].webhook
           THEN "posting" ELSE @]
    /\ reply' = [reply EXCEPT ![r] = IF @ = "none" THEN "OK" ELSE @]
    /\ \E to \in SUBSET Recipients : StartAutoReplies(r, to)
    /\ UNCHANGED <<form, page, seen, authenticated, attachments, uploading,
                   storeVars>>

(* One turn of the event loop: the webhook is started, the respondent gets *)
(* the answer, and the confirmation mails are started, to the recipients   *)
(* in the answers; to none of them when making the PDF fails.  If the      *)
(* request has been answered before, sending the answer throws, and the    *)
(* mails are never started.                                                *)
Confirm(r) ==
    /\ stage[r] = "confirming"
    /\ stage' = [stage EXCEPT ![r] = "done"]
    /\ webhook' = [webhook EXCEPT ![r] =
           IF seen[r].responseMode = "encrypt" /\ seen[r].webhook
           THEN "posting" ELSE @]
    /\ IF reply[r] = "none"
       THEN /\ reply' = [reply EXCEPT ![r] = "OK"]
            /\ \E to \in SUBSET Recipients : StartAutoReplies(r, to)
       ELSE UNCHANGED <<reply, autoReply>>
    /\ UNCHANGED <<form, page, seen, authenticated, attachments, uploading,
                   storeVars>>

(* sendNodeMail *)
WithStatus(attempt, status) == [attempt EXCEPT !.status = status]

AutoReplyAccepted(r, c) ==
    /\ autoReply[<<r, c>>].status = "sending"
    /\ mails' = mails \cup {ConfirmationMail(r, c)}
    /\ autoReply' = [autoReply EXCEPT ![<<r, c>>] = WithStatus(@, "ended")]
    /\ UNCHANGED <<form, page, handlerVars, webhook, submissions, bucket,
                   bounced, posted>>

(* An error other than a 4xx, after which the mail may be on its way.      *)
AutoReplyFails(r, c) ==
    /\ autoReply[<<r, c>>].status = "sending"
    /\ mails' \in {mails, mails \cup {ConfirmationMail(r, c)}}
    /\ autoReply' = [autoReply EXCEPT ![<<r, c>>] = WithStatus(@, "ended")]
    /\ UNCHANGED <<form, page, handlerVars, webhook, submissions, bucket,
                   bounced, posted>>

(* Mutant: the mail to retry keeps its number of retries.                  *)
AfterRejection_KeepsCount(attempt) ==
    IF attempt.retryCount > 0
    THEN WithStatus(attempt, "waiting")
    ELSE WithStatus(attempt, "ended")

(* The mail server refuses the mail for now (4xx).                         *)
AfterRejection(attempt) ==
    IF attempt.retryCount > 0
    THEN [status |-> "waiting", retryCount |-> attempt.retryCount - 1]
    ELSE WithStatus(attempt, "ended")

AutoReplyRejected(r, c) ==
    /\ autoReply[<<r, c>>].status = "sending"
    /\ autoReply' = [autoReply EXCEPT ![<<r, c>>] = AfterRejection(@)]
    /\ UNCHANGED <<form, page, handlerVars, webhook, storeVars>>

(* retryNodeMail: the timeout after calcEmailRetryDuration.                *)
RetryAutoReply(r, c) ==
    /\ autoReply[<<r, c>>].status = "waiting"
    /\ autoReply' = [autoReply EXCEPT ![<<r, c>>] = WithStatus(@, "sending")]
    /\ UNCHANGED <<form, page, handlerVars, webhook, storeVars>>

(* postWebhook, on a best-effort basis: one attempt, whose outcome is      *)
(* recorded.  A failed post may have arrived.                              *)
WebhookSucceeds(r) ==
    /\ webhook[r] = "posting"
    /\ posted' = posted \cup {r}
    /\ webhook' = [webhook EXCEPT ![r] = "succeeded"]
    /\ UNCHANGED <<form, page, handlerVars, autoReply, submissions, bucket,
                   mails, bounced>>

WebhookFails(r) ==
    /\ webhook[r] = "posting"
    /\ posted' \in {posted, posted \cup {r}}
    /\ webhook' = [webhook EXCEPT ![r] = "failed"]
    /\ UNCHANGED <<form, page, handlerVars, autoReply, submissions, bucket,
                   mails, bounced>>

Recorded(submission, outcome) ==
    [submission EXCEPT !.webhookResponses = @ \cup {outcome}]

(* updateSubmissionsDb, whose failure is only logged.                      *)
RecordWebhook(r) ==
    /\ webhook[r] \in {"succeeded", "failed"}
    /\ submissions' \in {submissions,
           [submissions EXCEPT ![r] = Recorded(@, webhook[r])]}
    /\ webhook' = [webhook EXCEPT ![r] = "ended"]
    /\ UNCHANGED <<form, page, handlerVars, autoReply, bucket, mails,
                   bounced, posted>>

-----------------------------------------------------------------------------
(* The world around the requests *)

(* Mutant: the type of the mail is not looked at.                          *)
MarksBounce_AnyMail(m) == form.responseMode = "email"

(* confirmOnNotification updates email-mode submissions only.              *)
MarksBounce(m) ==
    form.responseMode = "email" /\ m.emailType = "adminResponse"

Marked(submission) == [submission EXCEPT !.hasBounced = TRUE]

(* A mail comes back, and SNS notifies the server.  The notification may   *)
(* be lost, or come again for a mail that came back before.                *)
Bounce(m) ==
    /\ m \in mails
    /\ bounced' = bounced \cup {m}
    /\ \/ UNCHANGED submissions
       \/ /\ MarksBounce(m)
          /\ submissions' = [submissions EXCEPT ![m.request] = Marked(@)]
    /\ UNCHANGED <<form, page, handlerVars, backgroundVars, bucket, mails,
                   posted>>

(* The form's admin saves other settings.  The setter that keeps authType  *)
(* while the form is public judges by what the editing handler read, which *)
(* another edit may have changed since.  An archived form stays archived,  *)
(* and nothing changes the response mode.                                  *)
EditForm(f) ==
    /\ form.status # "ARCHIVED"
    /\ f.responseMode = form.responseMode
    /\ form' = f
    /\ UNCHANGED <<page, handlerVars, backgroundVars, storeVars>>

(* The server goes down and comes up again: what was in memory is gone,    *)
(* and the connections that wait for an answer are closed.                 *)
Crash ==
    /\ stage' = [r \in Requests |-> IF InFlight(r) THEN "done" ELSE stage[r]]
    /\ reply' = [r \in Requests |->
                    IF InFlight(r) /\ reply[r] = "none" THEN "CLOSED"
                    ELSE reply[r]]
    /\ uploading' = [r \in Requests |-> {}]
    /\ autoReply' = [p \in Requests \X Recipients |->
                        IF autoReply[p].status = "none" THEN autoReply[p]
                        ELSE WithStatus(autoReply[p], "ended")]
    /\ webhook' = [r \in Requests |->
                      IF webhook[r] = "none" THEN "none" ELSE "ended"]
    /\ UNCHANGED <<form, page, seen, authenticated, attachments, storeVars>>

-----------------------------------------------------------------------------

Respond(r) ==
    \/ ReadForm(r)
    \/ PassCheck(r)
    \/ RefuseCheck(r)
    \/ MalformedPart(r)
    \/ BodyCutOff(r)
    \/ \E a \in Attachments : UploadSucceeds(r, a) \/ UploadFails(r, a)
    \/ SaveMetadataToDb(r)
    \/ SaveResponseToDb(r)
    \/ SaveFails(r)
    \/ AdminEmailAccepted(r)
    \/ AdminEmailFails(r)
    \/ Confirm(r)

SendAutoReply(r, c) ==
    \/ AutoReplyAccepted(r, c)
    \/ AutoReplyFails(r, c)
    \/ AutoReplyRejected(r, c)
    \/ RetryAutoReply(r, c)

PostWebhook(r) == WebhookSucceeds(r) \/ WebhookFails(r)

Next ==
    \/ \E r \in Requests, files \in SUBSET Attachments : ClickSubmit(r, files)
    \/ PageSucceeds
    \/ PageFails
    \/ \E r \in Requests : Respond(r) \/ PostWebhook(r) \/ RecordWebhook(r)
    \/ \E r \in Requests, c \in Recipients : SendAutoReply(r, c)
    \/ \E m \in mails : Bounce(m)
    \/ \E f \in Forms : EditForm(f)
    \/ Crash

Spec == Init /\ [][Next]_vars

(* captchaCheck waits for Google's answer, without a limit.                *)
AwaitsCaptcha(r) == stage[r] = "captchaCheck" /\ seen[r].hasCaptcha

(* The database, S3 and the mail server are assumed to answer a call or to *)
(* fail it, and the server to close a connection that has fallen silent;   *)
(* the event loop runs what follows.  Nothing is assumed of the captcha    *)
(* service and of a webhook's receiver: axios has no timeout unless it is  *)
(* given one, and a call to them may stay open for ever.                   *)
Fairness ==
    /\ \A r \in Requests : /\ WF_vars(~AwaitsCaptcha(r) /\ Respond(r))
                           /\ WF_vars(RecordWebhook(r))
    /\ \A r \in Requests, c \in Recipients : WF_vars(SendAutoReply(r, c))

FairSpec == Spec /\ Fairness

-----------------------------------------------------------------------------
(* Properties *)

TypeOK ==
    /\ form \in Forms
    /\ page \in [view : {"filling", "submitting", "submitted"},
                 request : Requests \cup {None}]
    /\ stage \in [Requests -> Stages]
    /\ seen \in [Requests -> Forms \cup {None}]
    /\ authenticated \in [Requests -> BOOLEAN]
    /\ attachments \in [Requests -> SUBSET Attachments]
    /\ uploading \in [Requests -> SUBSET Attachments]
    /\ reply \in [Requests -> Replies]
    /\ autoReply \in [Requests \X Recipients -> AutoReplies]
    /\ webhook \in [Requests -> {"none", "posting", "succeeded", "failed",
                                 "ended"}]
    /\ submissions \in [Requests -> Submission \cup {None}]
    /\ bucket \subseteq Requests \X Attachments
    /\ mails \subseteq Mails
    /\ bounced \subseteq Mails
    /\ posted \subseteq Requests

(* The response has reached the admin: the mail is on its way, or the      *)
(* stored submission can be decrypted with every attachment it lists.      *)
Received(r) ==
    /\ submissions[r] # None
    /\ IF form.responseMode = "email"
       THEN AdminMail(r) \in mails
       ELSE \A a \in submissions[r].attachmentMetadata : <<r, a>> \in bucket

Outcome(answer) ==
    CASE answer = "none" -> "none"
      [] answer = "OK" -> "success"
      [] OTHER -> "failure"

Receipt == INSTANCE SubmissionReceipt
    WITH received <- {r \in Requests : Received(r)},
         answer <- [r \in Requests |-> Outcome(reply[r])]

(* "Form submission successful." (sendAutoReply) is said only of a         *)
(* response that has reached the admin, in either mode, whatever failed,   *)
(* was half done or went down on the way, and no request is answered       *)
(* twice.                                                                  *)
ImplementsReceipt == Receipt!RSpec

(* The thank-you page stands for a response that has reached the admin,    *)
(* also for a respondent who submitted again after a lost answer.          *)
ThanksAreDue == page.view = "submitted" => Received(page.request)

(* A request that a check refused has left nothing behind: no submission,  *)
(* no upload, no mail and no post.  (Not so one that was answered 400 for  *)
(* a part of its body, see MalformedPart: it may be saved and mailed.)     *)
RefusedLeavesNothing ==
    \A r \in Requests : reply[r] = "REFUSED" =>
        /\ submissions[r] = None
        /\ \A a \in Attachments : <<r, a>> \notin bucket
        /\ \A m \in mails : m.request # r
        /\ r \notin posted

(* A respondent gets a confirmation mail only for a submission that was    *)
(* answered with success ("Return the reply early to the submitter",       *)
(* sendAutoReply), although the mails go out long after.                   *)
ConfirmedAfterSuccess ==
    \A m \in mails : m.emailType = "emailConfirmation" =>
        /\ reply[m.request] = "OK"
        /\ submissions[m.request] # None

(* What has come of a request agrees with what it was answered.            *)
OutcomesAgree == RefusedLeavesNothing /\ ConfirmedAfterSuccess

(* A submission's authType says how the respondent was authenticated: one  *)
(* stored as SP or CP went through isSpcpAuthenticated with a valid token, *)
(* although the form's authType may change while the request is under way. *)
AuthTypeWasChecked ==
    \A r \in Requests :
        submissions[r] # None /\ submissions[r].authType # "NIL" =>
            authenticated[r]

(* hasBounced tells the admin's mail from the respondents' mails           *)
(* (confirmOnNotification): it is set only when the admin's mail came      *)
(* back.                                                                   *)
BouncedMeansAdminMail ==
    \A r \in Requests : submissions[r] # None /\ submissions[r].hasBounced =>
        AdminMail(r) \in bounced

(* "the next expressjs callback, invoked once attachments are processed"   *)
(* (saveResponseToDb): a stored submission lists only attachments that are *)
(* in S3.                                                                  *)
StoredAttachmentsUploaded ==
    \A r \in Requests : submissions[r] # None =>
        \A a \in submissions[r].attachmentMetadata : <<r, a>> \in bucket

(* Every request is answered in the end, or its connection is closed,      *)
(* through all the branches of two chains of callbacks and promises,       *)
(* unless it waits for the captcha service for ever; and once that has     *)
(* told, the request is answered, too.                                     *)
RequestsAnswered ==
    \A r \in Requests :
        stage[r] # "unsent" ~> reply[r] # "none" \/ AwaitsCaptcha(r)

(* The work behind the answer comes to its end: no mail is retried for     *)
(* ever, and the outcome of a webhook's post is recorded or given up.  The *)
(* post itself may stay open for ever.                                     *)
BackgroundEnds ==
    /\ \A r \in Requests :
           webhook[r] \in {"succeeded", "failed"} ~> webhook[r] = "ended"
    /\ \A p \in Requests \X Recipients :
           autoReply[p].status = "sending" ~> autoReply[p].status = "ended"

(* What the server does for a submission comes to an end, but for the two  *)
(* calls that are made without a timeout.                                  *)
EverythingEnds == RequestsAnswered /\ BackgroundEnds
=============================================================================
