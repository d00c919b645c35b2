----------------------- MODULE SubmissionPipeline_proofs -----------------------
(***************************************************************************)
(* Proofs about SubmissionPipeline, for any number of requests,            *)
(* attachments, recipients, retries and settings of the form.              *)
(*                                                                         *)
(* The inductive invariant follows a request along its stages: before the  *)
(* checks are over it has left nothing anywhere; what saving waits for and *)
(* has not failed is in S3; whoever is about to be told of success has     *)
(* been received.                                                          *)
(***************************************************************************)
EXTENDS SubmissionPipeline, TLAPS

Early == CheckStages \cup {"unsent"}

(* A request has left nothing behind, and nothing goes on for it.          *)
Nothing(r) ==
    /\ submissions[r] = None
    /\ \A a \in Attachments : <<r, a>> \notin bucket
    /\ \A m \in mails : m.request # r
    /\ r \notin posted
    /\ webhook[r] = "none"
    /\ \A c \in Recipients : autoReply[<<r, c>>].status = "none"

EarlyLeavesNothing ==
    \A r \in Requests : stage[r] \in Early \/ reply[r] = "REFUSED" =>
        Nothing(r)

(* How far a request may have been answered at each stage: no check has    *)
(* refused it while it is under way.                                       *)
AnswersFollowStages ==
    \A r \in Requests :
        /\ stage[r] \in Early => reply[r] \in {"none", "MALFORMED"}
        /\ stage[r] \in {"saving", "sendAdminEmail", "confirming"} =>
               reply[r] \in {"none", "MALFORMED", "NOT_SENT"}

(* What may become of a request at a check but passing it.                 *)
AnswersCheck(r) == RefuseCheck(r) \/ MalformedPart(r) \/ BodyCutOff(r)

(* A request that is past formById has a form, and is past                 *)
(* isSpcpAuthenticated only with a token if that form asks for one.        *)
PastSpcp == {"receiveEmailSubmission", "verifyMyInfoVals",
             "encryptedVerifiedFields", "saving"}

ChecksInOrder ==
    \A r \in Requests :
        /\ stage[r] \in Stages \ {"unsent", "formById", "done"} =>
               seen[r] \in Forms
        /\ \/ stage[r] \in PastSpcp
           \/ stage[r] = "validateSubmission" /\ form.responseMode = "email"
           => seen[r].authType = "NIL" \/ authenticated[r]

(* What saving has done so far.                                            *)
SavedInOrder ==
    \A r \in Requests :
        /\ stage[r] = "saving" =>
              /\ submissions[r] = None
              /\ reply[r] = "none" =>
                    \A a \in attachments[r] \ uploading[r] : <<r, a>> \in bucket
        /\ stage[r] \in {"sendAdminEmail", "confirming"} =>
              submissions[r] # None
        /\ stage[r] = "sendAdminEmail" => form.responseMode = "email"
        /\ submissions[r] # None =>
              submissions[r].attachmentMetadata = attachments[r]

(* Success is told, or about to be told, of received responses only.       *)
ToldIsReceived ==
    \A r \in Requests :
        \/ reply[r] = "OK"
        \/ stage[r] = "confirming" /\ reply[r] = "none"
        => Received(r)

PageFollows ==
    /\ page.view # "filling" => page.request \in Requests
    /\ page.view = "submitted" => reply[page.request] = "OK"

(* Mails and posts are of stored submissions; confirmation mails go with   *)
(* success.                                                                *)
EffectsFollow ==
    /\ \A m \in mails : submissions[m.request] # None
    /\ \A m \in mails : m.emailType = "adminResponse" => m.to = Admin
    /\ \A m \in mails : m.emailType = "emailConfirmation" =>
          reply[m.request] = "OK"
    /\ \A r \in Requests : r \in posted \/ webhook[r] # "none" =>
          submissions[r] # None
    /\ \A r \in Requests, c \in Recipients :
          autoReply[<<r, c>>].status # "none" => reply[r] = "OK"
    /\ \A r \in Requests : reply[r] = "OK" => submissions[r] # None

IInv ==
    /\ TypeOK
    /\ EarlyLeavesNothing
    /\ AnswersFollowStages
    /\ ChecksInOrder
    /\ SavedInOrder
    /\ ToldIsReceived
    /\ PageFollows
    /\ EffectsFollow
    /\ AuthTypeWasChecked
    /\ BouncedMeansAdminMail

-----------------------------------------------------------------------------
(* The chains of checks *)

(* From one check to the next: a request stays among the checks until it   *)
(* is saved, and does not go past isSpcpAuthenticated but through it.      *)
LEMMA CheckSteps ==
  ASSUME NEW s \in DOMAIN Checks \ {"formById"}, TypeOK
  PROVE  /\ s \in CheckStages
         /\ Checks[s] \in CheckStages \cup {"saving"}
         /\ Checks[s] # "formById"
         /\ \/ Checks[s] \in PastSpcp
            \/ Checks[s] = "validateSubmission" /\ form.responseMode = "email"
            => \/ s \in PastSpcp \cup {"isSpcpAuthenticated"}
               \/ s = "validateSubmission" /\ form.responseMode = "email"
<1>1. CASE form.responseMode = "email"
  BY <1>1 DEF Checks, EmailChecks, CheckStages, PastSpcp
<1>2. CASE form.responseMode # "email"
  BY <1>2 DEF Checks, EncryptChecks, CheckStages, PastSpcp
<1>. QED  BY <1>1, <1>2

LEMMA StageNames ==
  /\ CheckStages = {"formById", "isFormPublic", "captchaCheck",
                    "isSpcpAuthenticated", "receiveEmailSubmission",
                    "validateSubmission", "verifyMyInfoVals",
                    "encryptedVerifiedFields"}
  /\ DOMAIN Checks \subseteq CheckStages
BY DEF CheckStages, Checks, EmailChecks, EncryptChecks

-----------------------------------------------------------------------------
(* Types *)

LEMMA AttemptTypes ==
  ASSUME NEW attempt \in AutoReplies
  PROVE  /\ \A status \in {"sending", "waiting", "ended"} :
               /\ WithStatus(attempt, status) \in AutoReplies
               /\ WithStatus(attempt, status).status = status
         /\ AfterRejection(attempt) \in AutoReplies
         /\ AfterRejection(attempt).status # "none"
<1>1. attempt.retryCount > 0 => attempt.retryCount - 1 \in 0..maxRetryCount
  BY PipelineAssumption DEF AutoReplies
<1>. QED  BY <1>1 DEF AutoReplies, AfterRejection, WithStatus

(* What bounces and webhooks write leaves the rest of a submission alone.  *)
LEMMA SubmissionTypes ==
  ASSUME NEW s \in Submission
  PROVE  /\ Marked(s) \in Submission
         /\ Marked(s).authType = s.authType
         /\ Marked(s).attachmentMetadata = s.attachmentMetadata
         /\ \A outcome \in {"succeeded", "failed"} :
               /\ Recorded(s, outcome) \in Submission
               /\ Recorded(s, outcome).authType = s.authType
               /\ Recorded(s, outcome).hasBounced = s.hasBounced
               /\ Recorded(s, outcome).attachmentMetadata =
                      s.attachmentMetadata
BY DEF Submission, Marked, Recorded

LEMMA TypesKept ==
  ASSUME IInv, [Next]_vars
  PROVE  TypeOK'
<1>. USE PipelineAssumption DEF IInv, TypeOK, handlerVars, backgroundVars,
                                storeVars
<1>1. CASE UNCHANGED vars
  BY <1>1 DEF vars
<1>2. ASSUME NEW r \in Requests, NEW files \in SUBSET Attachments,
             ClickSubmit(r, files)
      PROVE  TypeOK'
  BY <1>2, StageNames DEF ClickSubmit, Stages
<1>3. CASE PageSucceeds
  BY <1>3 DEF PageSucceeds
<1>4. CASE PageFails
  BY <1>4 DEF PageFails
<1>5. ASSUME NEW r \in Requests, ReadForm(r)
      PROVE  TypeOK'
  BY <1>5, StageNames DEF ReadForm, Stages
<1>6. ASSUME NEW r \in Requests, PassCheck(r)
      PROVE  TypeOK'
  <2>1. Checks[stage[r]] \in Stages
    BY <1>6, CheckSteps DEF PassCheck, Stages
  <2>. QED  BY <1>6, <2>1 DEF PassCheck
<1>7. ASSUME NEW r \in Requests, AnswersCheck(r)
      PROVE  TypeOK'
  BY <1>7
  DEF AnswersCheck, RefuseCheck, MalformedPart, BodyCutOff, Stages, Replies
<1>8. ASSUME NEW r \in Requests, NEW a \in Attachments, UploadSucceeds(r, a)
      PROVE  TypeOK'
  BY <1>8 DEF UploadSucceeds
<1>9. ASSUME NEW r \in Requests, NEW a \in Attachments, UploadFails(r, a)
      PROVE  TypeOK'
  BY <1>9 DEF UploadFails, NotSent, Stages, Replies
<1>10. ASSUME NEW r \in Requests, stage[r] = "saving"
       PROVE  Saved(r) \in [Requests -> Submission \cup {None}]
  BY <1>10 DEF Saved, AuthTypeOf, Submission, ChecksInOrder, Form, Stages
<1>11. ASSUME NEW r \in Requests, SaveMetadataToDb(r)
       PROVE  TypeOK'
  BY <1>10, <1>11 DEF SaveMetadataToDb, Stages
<1>12. ASSUME NEW r \in Requests, SaveResponseToDb(r)
       PROVE  TypeOK'
  BY <1>10, <1>12 DEF SaveResponseToDb, Stages
<1>13. ASSUME NEW r \in Requests, SaveFails(r)
       PROVE  TypeOK'
  BY <1>10, <1>13 DEF SaveFails, NotSent, Stages, Replies
<1>14. ASSUME NEW r \in Requests, AdminEmailAccepted(r) \/ AdminEmailFails(r)
       PROVE  TypeOK'
  BY <1>14 DEF AdminEmailAccepted, AdminEmailFails, AdminMail, Mails, NotSent,
               Stages, Replies
<1>15. ASSUME NEW r \in Requests, Confirm(r)
       PROVE  TypeOK'
  <2>1. stage' \in [Requests -> Stages] /\ reply' \in [Requests -> Replies]
    BY <1>15 DEF Confirm, Stages, Replies
  <2>2. autoReply' \in [Requests \X Recipients -> AutoReplies]
    BY <1>15 DEF Confirm, StartAutoReplies, AutoReplies
  <2>. QED  BY <1>15, <2>1, <2>2 DEF Confirm
<1>16. ASSUME NEW r \in Requests, NEW c \in Recipients, SendAutoReply(r, c)
       PROVE  TypeOK'
  <2>1. mails' \subseteq Mails
    BY <1>16 DEF SendAutoReply, AutoReplyAccepted, AutoReplyFails,
                 AutoReplyRejected, RetryAutoReply, ConfirmationMail, Mails
  <2>2. autoReply' \in [Requests \X Recipients -> AutoReplies]
    BY <1>16, AttemptTypes
    DEF SendAutoReply, AutoReplyAccepted, AutoReplyFails, AutoReplyRejected,
        RetryAutoReply
  <2>. QED  BY <1>16, <2>1, <2>2
            DEF SendAutoReply, AutoReplyAccepted, AutoReplyFails,
                AutoReplyRejected, RetryAutoReply
<1>17. ASSUME NEW r \in Requests, PostWebhook(r) \/ RecordWebhook(r)
       PROVE  TypeOK'
  <2>1. CASE RecordWebhook(r)
    <3>1. submissions[r] \in Submission /\ webhook[r] \in {"succeeded", "failed"}
      BY <2>1 DEF RecordWebhook, EffectsFollow
    <3>2. submissions' \in [Requests -> Submission \cup {None}]
      BY <2>1, <3>1, SubmissionTypes DEF RecordWebhook
    <3>. QED  BY <2>1, <3>2 DEF RecordWebhook
  <2>2. CASE WebhookSucceeds(r) \/ WebhookFails(r)
    BY <2>2 DEF WebhookSucceeds, WebhookFails
  <2>. QED  BY <1>17, <2>1, <2>2 DEF PostWebhook
<1>18. ASSUME NEW m \in mails, Bounce(m)
       PROVE  TypeOK'
  <2>1. m.request \in Requests /\ submissions[m.request] \in Submission
    BY <1>18 DEF Mails, EffectsFollow
  <2>2. submissions' \in [Requests -> Submission \cup {None}]
    BY <1>18, <2>1, SubmissionTypes DEF Bounce
  <2>. QED  BY <1>18, <2>2 DEF Bounce
<1>19. ASSUME NEW f \in Forms, EditForm(f)
       PROVE  TypeOK'
  BY <1>19 DEF EditForm
<1>20. CASE Crash
  <2>1. \A p \in Requests \X Recipients :
          WithStatus(autoReply[p], "ended") \in AutoReplies
    BY AttemptTypes
  <2>2. stage' \in [Requests -> Stages] /\ reply' \in [Requests -> Replies]
    BY <1>20 DEF Crash, Stages, Replies
  <2>. QED  BY <1>20, <2>1, <2>2 DEF Crash
<1>. QED
  BY <1>1, <1>2, <1>3, <1>4, <1>5, <1>6, <1>7, <1>8, <1>9, <1>11, <1>12,
     <1>13, <1>14, <1>15, <1>16, <1>17, <1>18, <1>19, <1>20
  DEF Next, Respond, AnswersCheck

-----------------------------------------------------------------------------
(* The other parts of the invariant, each kept by every step *)

(* What saving writes.                                                     *)
LEMMA SaveFacts ==
  ASSUME IInv, NEW r \in Requests, stage[r] = "saving"
  PROVE  /\ Saved(r)[r] \in Submission
         /\ Saved(r)[r] # None
         /\ Saved(r)[r].authType = seen[r].authType
         /\ Saved(r)[r].attachmentMetadata = attachments[r]
         /\ ~Saved(r)[r].hasBounced
         /\ \A q \in Requests \ {r} : Saved(r)[q] = submissions[q]
<1>. DEFINE s == [authType |-> seen[r].authType,
                  attachmentMetadata |-> attachments[r],
                  hasBounced |-> FALSE, webhookResponses |-> {}]
<1>1. s \in Submission
  BY PipelineAssumption DEF IInv, TypeOK, ChecksInOrder, Form, Submission,
                            Stages
<1>2. Saved(r) = [submissions EXCEPT ![r] = s]
  BY DEF Saved, AuthTypeOf
<1>3. /\ s.authType = seen[r].authType /\ ~s.hasBounced
      /\ s.attachmentMetadata = attachments[r]
  OBVIOUS
<1>4. s # None /\ submissions \in [Requests -> Submission \cup {None}]
  BY <1>1, PipelineAssumption DEF IInv, TypeOK
<1>. HIDE DEF s
<1>. QED  BY <1>1, <1>2, <1>3, <1>4

(* A request that is not past its checks, or was refused, leaves nothing.  *)
LEMMA EarlyKept ==
  ASSUME IInv, [Next]_vars
  PROVE  EarlyLeavesNothing'
<1>. USE DEF IInv, TypeOK, EarlyLeavesNothing, Nothing, AnswersFollowStages,
             EffectsFollow, Early
<1>1. CASE UNCHANGED vars
  BY <1>1 DEF vars, handlerVars, backgroundVars, storeVars
<1>2. ASSUME NEW r \in Requests, NEW files \in SUBSET Attachments,
            ClickSubmit(r, files)
     PROVE  EarlyLeavesNothing'
  BY <1>2, StageNames DEF ClickSubmit, backgroundVars, storeVars
<1>3. CASE PageSucceeds \/ PageFails
  BY <1>3 DEF PageSucceeds, PageFails, handlerVars, backgroundVars,
      storeVars
<1>4. ASSUME NEW r \in Requests, ReadForm(r)
     PROVE  EarlyLeavesNothing'
  BY <1>4, StageNames DEF ReadForm, backgroundVars, storeVars
<1>5. ASSUME NEW r \in Requests, PassCheck(r)
     PROVE  EarlyLeavesNothing'
  BY <1>5, CheckSteps DEF PassCheck, backgroundVars, storeVars
<1>6. ASSUME NEW r \in Requests, AnswersCheck(r)
     PROVE  EarlyLeavesNothing'
  BY <1>6, StageNames
  DEF AnswersCheck, RefuseCheck, MalformedPart, BodyCutOff, backgroundVars,
      storeVars
<1>7. ASSUME NEW r \in Requests, NEW a \in Attachments, UploadSucceeds(r, a)
     PROVE  EarlyLeavesNothing'
  BY <1>7, StageNames DEF UploadSucceeds, backgroundVars
<1>8. ASSUME NEW r \in Requests, NEW a \in Attachments, UploadFails(r, a)
     PROVE  EarlyLeavesNothing'
  BY <1>8, StageNames DEF UploadFails, NotSent, backgroundVars
<1>9. ASSUME NEW r \in Requests, SaveMetadataToDb(r) \/ SaveResponseToDb(r)
     PROVE  EarlyLeavesNothing'
  BY <1>9, StageNames, SaveFacts DEF SaveMetadataToDb, SaveResponseToDb,
      backgroundVars
<1>10. ASSUME NEW r \in Requests, SaveFails(r)
     PROVE  EarlyLeavesNothing'
  BY <1>10, StageNames, SaveFacts DEF SaveFails, NotSent, backgroundVars
<1>11. ASSUME NEW r \in Requests, AdminEmailAccepted(r)
     PROVE  EarlyLeavesNothing'
  BY <1>11, StageNames DEF AdminEmailAccepted, backgroundVars, AdminMail
<1>12. ASSUME NEW r \in Requests, AdminEmailFails(r)
     PROVE  EarlyLeavesNothing'
  BY <1>12, StageNames DEF AdminEmailFails, NotSent, backgroundVars,
      AdminMail
<1>13. ASSUME NEW r \in Requests, Confirm(r)
     PROVE  EarlyLeavesNothing'
  BY <1>13, StageNames DEF Confirm, StartAutoReplies, storeVars
<1>14. ASSUME NEW r \in Requests, NEW c \in Recipients, SendAutoReply(r, c)
     PROVE  EarlyLeavesNothing'
  BY <1>14, AttemptTypes DEF SendAutoReply, AutoReplyAccepted,
      AutoReplyFails, AutoReplyRejected, RetryAutoReply, handlerVars,
      storeVars, ConfirmationMail
<1>15. ASSUME NEW r \in Requests, PostWebhook(r) \/ RecordWebhook(r)
     PROVE  EarlyLeavesNothing'
  BY <1>15 DEF PostWebhook, WebhookSucceeds, WebhookFails, RecordWebhook,
      handlerVars
<1>16. ASSUME NEW m \in mails, Bounce(m)
     PROVE  EarlyLeavesNothing'
  BY <1>16 DEF Bounce, handlerVars, backgroundVars, Mails
<1>17. ASSUME NEW f \in Forms, EditForm(f)
     PROVE  EarlyLeavesNothing'
  BY <1>17 DEF EditForm, handlerVars, backgroundVars, storeVars
<1>18. CASE Crash
  BY <1>18, StageNames DEF Crash, InFlight, storeVars
<1>. QED
  BY <1>1, <1>2, <1>3, <1>4, <1>5, <1>6, <1>7, <1>8, <1>9, <1>10, <1>11,
      <1>12, <1>13, <1>14, <1>15, <1>16, <1>17, <1>18
      DEF Next, Respond, AnswersCheck

(* Answers follow the stages.                                             *)
LEMMA AnswersKept ==
  ASSUME IInv, [Next]_vars
  PROVE  AnswersFollowStages'
<1>. USE DEF IInv, TypeOK, AnswersFollowStages, Early
<1>1. CASE UNCHANGED vars
  BY <1>1 DEF vars, handlerVars, backgroundVars, storeVars
<1>2. ASSUME NEW r \in Requests, NEW files \in SUBSET Attachments,
            ClickSubmit(r, files)
     PROVE  AnswersFollowStages'
  BY <1>2, StageNames DEF ClickSubmit, backgroundVars, storeVars
<1>3. CASE PageSucceeds \/ PageFails
  BY <1>3 DEF PageSucceeds, PageFails, handlerVars, backgroundVars,
      storeVars
<1>4. ASSUME NEW r \in Requests, ReadForm(r)
     PROVE  AnswersFollowStages'
  BY <1>4, StageNames DEF ReadForm, backgroundVars, storeVars
<1>5. ASSUME NEW r \in Requests, PassCheck(r)
     PROVE  AnswersFollowStages'
  BY <1>5, CheckSteps, StageNames DEF PassCheck, backgroundVars, storeVars
<1>6. ASSUME NEW r \in Requests, AnswersCheck(r)
     PROVE  AnswersFollowStages'
  BY <1>6, StageNames
  DEF AnswersCheck, RefuseCheck, MalformedPart, BodyCutOff, backgroundVars,
      storeVars
<1>7. ASSUME NEW r \in Requests, NEW a \in Attachments, UploadSucceeds(r, a)
     PROVE  AnswersFollowStages'
  BY <1>7, StageNames DEF UploadSucceeds, backgroundVars
<1>8. ASSUME NEW r \in Requests, NEW a \in Attachments, UploadFails(r, a)
     PROVE  AnswersFollowStages'
  BY <1>8, StageNames DEF UploadFails, NotSent, backgroundVars
<1>9. ASSUME NEW r \in Requests, SaveMetadataToDb(r) \/ SaveResponseToDb(r)
     PROVE  AnswersFollowStages'
  BY <1>9, StageNames DEF SaveMetadataToDb, SaveResponseToDb, backgroundVars
<1>10. ASSUME NEW r \in Requests, SaveFails(r)
     PROVE  AnswersFollowStages'
  BY <1>10, StageNames DEF SaveFails, NotSent, backgroundVars
<1>11. ASSUME NEW r \in Requests, AdminEmailAccepted(r)
     PROVE  AnswersFollowStages'
  BY <1>11, StageNames DEF AdminEmailAccepted, backgroundVars
<1>12. ASSUME NEW r \in Requests, AdminEmailFails(r)
     PROVE  AnswersFollowStages'
  BY <1>12, StageNames DEF AdminEmailFails, NotSent, backgroundVars
<1>13. ASSUME NEW r \in Requests, Confirm(r)
     PROVE  AnswersFollowStages'
  BY <1>13, StageNames DEF Confirm, StartAutoReplies, storeVars
<1>14. ASSUME NEW r \in Requests, NEW c \in Recipients, SendAutoReply(r, c)
     PROVE  AnswersFollowStages'
  BY <1>14 DEF SendAutoReply, AutoReplyAccepted, AutoReplyFails,
      AutoReplyRejected, RetryAutoReply, handlerVars, storeVars
<1>15. ASSUME NEW r \in Requests, PostWebhook(r) \/ RecordWebhook(r)
     PROVE  AnswersFollowStages'
  BY <1>15 DEF PostWebhook, WebhookSucceeds, WebhookFails, RecordWebhook,
      handlerVars
<1>16. ASSUME NEW m \in mails, Bounce(m)
     PROVE  AnswersFollowStages'
  BY <1>16 DEF Bounce, handlerVars, backgroundVars
<1>17. ASSUME NEW f \in Forms, EditForm(f)
     PROVE  AnswersFollowStages'
  BY <1>17 DEF EditForm, handlerVars, backgroundVars, storeVars
<1>18. CASE Crash
  BY <1>18, StageNames DEF Crash, InFlight, storeVars
<1>. QED
  BY <1>1, <1>2, <1>3, <1>4, <1>5, <1>6, <1>7, <1>8, <1>9, <1>10, <1>11,
      <1>12, <1>13, <1>14, <1>15, <1>16, <1>17, <1>18
      DEF Next, Respond, AnswersCheck

(* Requests keep their form, and pass the check for tokens.               *)
LEMMA ChecksKept ==
  ASSUME IInv, [Next]_vars
  PROVE  ChecksInOrder'
<1>. USE DEF IInv, TypeOK, ChecksInOrder, PastSpcp
<1>1. CASE UNCHANGED vars
  BY <1>1 DEF vars, handlerVars, backgroundVars, storeVars
<1>2. ASSUME NEW r \in Requests, NEW files \in SUBSET Attachments,
            ClickSubmit(r, files)
     PROVE  ChecksInOrder'
  BY <1>2, StageNames DEF ClickSubmit, backgroundVars, storeVars, Stages
<1>3. CASE PageSucceeds \/ PageFails
  BY <1>3 DEF PageSucceeds, PageFails, handlerVars, backgroundVars,
      storeVars
<1>4. ASSUME NEW r \in Requests, ReadForm(r)
     PROVE  ChecksInOrder'
  BY <1>4, StageNames DEF ReadForm, backgroundVars, storeVars, Stages
<1>5. ASSUME NEW r \in Requests, PassCheck(r)
     PROVE  ChecksInOrder'
  <2>1. stage'[r] \in CheckStages \cup {"saving"} /\ stage'[r] # "formById"
    BY <1>5, CheckSteps DEF PassCheck, TypeOK
  <2>2. stage[r] \in CheckStages \ {"formById"}
    BY <1>5, CheckSteps DEF PassCheck
  <2>3. seen[r] \in Forms
    BY <2>2, StageNames DEF Stages
  <2>4. ASSUME \/ stage'[r] \in PastSpcp
               \/ /\ stage'[r] = "validateSubmission"
                  /\ form.responseMode = "email"
        PROVE  seen[r].authType = "NIL" \/ authenticated'[r]
    <3>1. \/ stage[r] \in PastSpcp \cup {"isSpcpAuthenticated"}
          \/ /\ stage[r] = "validateSubmission"
             /\ form.responseMode = "email"
      BY <1>5, <2>4, CheckSteps DEF PassCheck
    <3>. QED  BY <1>5, <3>1 DEF PassCheck
  <2>. QED  BY <1>5, <2>3, <2>4 DEF PassCheck
<1>6. ASSUME NEW r \in Requests, AnswersCheck(r)
     PROVE  ChecksInOrder'
  BY <1>6, StageNames
  DEF AnswersCheck, RefuseCheck, MalformedPart, BodyCutOff, backgroundVars,
      storeVars, Stages
<1>7. ASSUME NEW r \in Requests, NEW a \in Attachments, UploadSucceeds(r, a)
     PROVE  ChecksInOrder'
  BY <1>7, StageNames DEF UploadSucceeds, backgroundVars, Stages
<1>8. ASSUME NEW r \in Requests, NEW a \in Attachments, UploadFails(r, a)
     PROVE  ChecksInOrder'
  BY <1>8, StageNames DEF UploadFails, NotSent, backgroundVars, Stages
<1>9. ASSUME NEW r \in Requests, SaveMetadataToDb(r) \/ SaveResponseToDb(r)
     PROVE  ChecksInOrder'
  BY <1>9, StageNames DEF SaveMetadataToDb, SaveResponseToDb,
      backgroundVars, Stages
<1>10. ASSUME NEW r \in Requests, SaveFails(r)
     PROVE  ChecksInOrder'
  BY <1>10, StageNames DEF SaveFails, NotSent, backgroundVars, Stages
<1>11. ASSUME NEW r \in Requests, AdminEmailAccepted(r)
     PROVE  ChecksInOrder'
  BY <1>11, StageNames DEF AdminEmailAccepted, backgroundVars, Stages
<1>12. ASSUME NEW r \in Requests, AdminEmailFails(r)
     PROVE  ChecksInOrder'
  BY <1>12, StageNames DEF AdminEmailFails, NotSent, backgroundVars, Stages
<1>13. ASSUME NEW r \in Requests, Confirm(r)
     PROVE  ChecksInOrder'
  BY <1>13, StageNames DEF Confirm, StartAutoReplies, storeVars, Stages
<1>14. ASSUME NEW r \in Requests, NEW c \in Recipients, SendAutoReply(r, c)
     PROVE  ChecksInOrder'
  BY <1>14 DEF SendAutoReply, AutoReplyAccepted, AutoReplyFails,
      AutoReplyRejected, RetryAutoReply, handlerVars, storeVars
<1>15. ASSUME NEW r \in Requests, PostWebhook(r) \/ RecordWebhook(r)
     PROVE  ChecksInOrder'
  BY <1>15 DEF PostWebhook, WebhookSucceeds, WebhookFails, RecordWebhook,
      handlerVars
<1>16. ASSUME NEW m \in mails, Bounce(m)
     PROVE  ChecksInOrder'
  BY <1>16 DEF Bounce, handlerVars, backgroundVars
<1>17. ASSUME NEW f \in Forms, EditForm(f)
     PROVE  ChecksInOrder'
  BY <1>17 DEF EditForm, handlerVars, backgroundVars, storeVars
<1>18. CASE Crash
  BY <1>18, StageNames DEF Crash, InFlight, storeVars, Stages
<1>. QED
  BY <1>1, <1>2, <1>3, <1>4, <1>5, <1>6, <1>7, <1>8, <1>9, <1>10, <1>11,
      <1>12, <1>13, <1>14, <1>15, <1>16, <1>17, <1>18
      DEF Next, Respond, AnswersCheck

(* What saving has done stays done.                                        *)
LEMMA SavedKept ==
  ASSUME IInv, [Next]_vars
  PROVE  SavedInOrder'
<1>. USE DEF IInv, TypeOK, SavedInOrder, EffectsFollow, EarlyLeavesNothing,
             Nothing, Early
<1>1. CASE UNCHANGED vars
  BY <1>1 DEF vars, handlerVars, backgroundVars, storeVars
<1>2. ASSUME NEW r \in Requests, NEW files \in SUBSET Attachments,
            ClickSubmit(r, files)
     PROVE  SavedInOrder'
  BY <1>2, StageNames DEF ClickSubmit, backgroundVars, storeVars
<1>3. CASE PageSucceeds \/ PageFails
  BY <1>3 DEF PageSucceeds, PageFails, handlerVars, backgroundVars,
      storeVars
<1>4. ASSUME NEW r \in Requests, ReadForm(r)
     PROVE  SavedInOrder'
  BY <1>4, StageNames DEF ReadForm, backgroundVars, storeVars
<1>5. ASSUME NEW r \in Requests, PassCheck(r)
     PROVE  SavedInOrder'
  BY <1>5, CheckSteps, StageNames DEF PassCheck, backgroundVars, storeVars
<1>6. ASSUME NEW r \in Requests, AnswersCheck(r)
     PROVE  SavedInOrder'
  BY <1>6, StageNames
  DEF AnswersCheck, RefuseCheck, MalformedPart, BodyCutOff, backgroundVars,
      storeVars
<1>7. ASSUME NEW r \in Requests, NEW a \in Attachments, UploadSucceeds(r, a)
     PROVE  SavedInOrder'
  BY <1>7, StageNames DEF UploadSucceeds, backgroundVars
<1>8. ASSUME NEW r \in Requests, NEW a \in Attachments, UploadFails(r, a)
     PROVE  SavedInOrder'
  BY <1>8, StageNames DEF UploadFails, NotSent, backgroundVars
<1>9. ASSUME NEW r \in Requests, SaveMetadataToDb(r) \/ SaveResponseToDb(r)
     PROVE  SavedInOrder'
  BY <1>9, StageNames, SaveFacts DEF SaveMetadataToDb, SaveResponseToDb,
      backgroundVars
<1>10. ASSUME NEW r \in Requests, SaveFails(r)
     PROVE  SavedInOrder'
  BY <1>10, StageNames, SaveFacts DEF SaveFails, NotSent, backgroundVars
<1>11. ASSUME NEW r \in Requests, AdminEmailAccepted(r)
     PROVE  SavedInOrder'
  BY <1>11, StageNames DEF AdminEmailAccepted, backgroundVars
<1>12. ASSUME NEW r \in Requests, AdminEmailFails(r)
     PROVE  SavedInOrder'
  BY <1>12, StageNames DEF AdminEmailFails, NotSent, backgroundVars
<1>13. ASSUME NEW r \in Requests, Confirm(r)
     PROVE  SavedInOrder'
  BY <1>13, StageNames DEF Confirm, StartAutoReplies, storeVars
<1>14. ASSUME NEW r \in Requests, NEW c \in Recipients, SendAutoReply(r, c)
     PROVE  SavedInOrder'
  BY <1>14 DEF SendAutoReply, AutoReplyAccepted, AutoReplyFails,
      AutoReplyRejected, RetryAutoReply, handlerVars, storeVars
<1>15. ASSUME NEW r \in Requests, PostWebhook(r) \/ RecordWebhook(r)
     PROVE  SavedInOrder'
  BY <1>15, SubmissionTypes, PipelineAssumption DEF PostWebhook,
      WebhookSucceeds, WebhookFails, RecordWebhook, handlerVars
<1>16. ASSUME NEW m \in mails, Bounce(m)
     PROVE  SavedInOrder'
  BY <1>16, SubmissionTypes, PipelineAssumption DEF Bounce, handlerVars,
      backgroundVars, Mails
<1>17. ASSUME NEW f \in Forms, EditForm(f)
     PROVE  SavedInOrder'
  BY <1>17 DEF EditForm, handlerVars, backgroundVars, storeVars
<1>18. CASE Crash
  BY <1>18, StageNames DEF Crash, InFlight, storeVars
<1>. QED
  BY <1>1, <1>2, <1>3, <1>4, <1>5, <1>6, <1>7, <1>8, <1>9, <1>10, <1>11,
      <1>12, <1>13, <1>14, <1>15, <1>16, <1>17, <1>18
      DEF Next, Respond, AnswersCheck

(* A response that was received stays received, and success is told of it. *)
LEMMA ToldKept ==
  ASSUME IInv, [Next]_vars
  PROVE  ToldIsReceived'
<1>. USE DEF IInv, TypeOK, SavedInOrder, EffectsFollow, EarlyLeavesNothing,
             Nothing, Early, ToldIsReceived, Received, AnswersFollowStages
<1>1. CASE UNCHANGED vars
  BY <1>1 DEF vars, handlerVars, backgroundVars, storeVars
<1>2. ASSUME NEW r \in Requests, NEW files \in SUBSET Attachments,
            ClickSubmit(r, files)
     PROVE  ToldIsReceived'
  BY <1>2, StageNames DEF ClickSubmit, backgroundVars, storeVars
<1>3. CASE PageSucceeds \/ PageFails
  BY <1>3 DEF PageSucceeds, PageFails, handlerVars, backgroundVars,
      storeVars
<1>4. ASSUME NEW r \in Requests, ReadForm(r)
     PROVE  ToldIsReceived'
  BY <1>4, StageNames DEF ReadForm, backgroundVars, storeVars
<1>5. ASSUME NEW r \in Requests, PassCheck(r)
     PROVE  ToldIsReceived'
  BY <1>5, CheckSteps, StageNames DEF PassCheck, backgroundVars, storeVars
<1>6. ASSUME NEW r \in Requests, AnswersCheck(r)
     PROVE  ToldIsReceived'
  BY <1>6, StageNames
  DEF AnswersCheck, RefuseCheck, MalformedPart, BodyCutOff, backgroundVars,
      storeVars
<1>7. ASSUME NEW r \in Requests, NEW a \in Attachments, UploadSucceeds(r, a)
     PROVE  ToldIsReceived'
  BY <1>7, StageNames DEF UploadSucceeds, backgroundVars
<1>8. ASSUME NEW r \in Requests, NEW a \in Attachments, UploadFails(r, a)
     PROVE  ToldIsReceived'
  BY <1>8, StageNames DEF UploadFails, NotSent, backgroundVars
<1>9. ASSUME NEW r \in Requests, SaveMetadataToDb(r) \/ SaveResponseToDb(r)
     PROVE  ToldIsReceived'
  BY <1>9, StageNames, SaveFacts DEF SaveMetadataToDb, SaveResponseToDb,
      backgroundVars
<1>10. ASSUME NEW r \in Requests, SaveFails(r)
     PROVE  ToldIsReceived'
  BY <1>10, StageNames, SaveFacts DEF SaveFails, NotSent, backgroundVars
<1>11. ASSUME NEW r \in Requests, AdminEmailAccepted(r)
     PROVE  ToldIsReceived'
  BY <1>11, StageNames DEF AdminEmailAccepted, backgroundVars
<1>12. ASSUME NEW r \in Requests, AdminEmailFails(r)
     PROVE  ToldIsReceived'
  BY <1>12, StageNames DEF AdminEmailFails, NotSent, backgroundVars
<1>13. ASSUME NEW r \in Requests, Confirm(r)
     PROVE  ToldIsReceived'
  BY <1>13, StageNames DEF Confirm, StartAutoReplies, storeVars
<1>14. ASSUME NEW r \in Requests, NEW c \in Recipients, SendAutoReply(r, c)
     PROVE  ToldIsReceived'
  BY <1>14 DEF SendAutoReply, AutoReplyAccepted, AutoReplyFails,
      AutoReplyRejected, RetryAutoReply, handlerVars, storeVars
<1>15. ASSUME NEW r \in Requests, PostWebhook(r) \/ RecordWebhook(r)
     PROVE  ToldIsReceived'
  BY <1>15, SubmissionTypes, PipelineAssumption DEF PostWebhook,
      WebhookSucceeds, WebhookFails, RecordWebhook, handlerVars
<1>16. ASSUME NEW m \in mails, Bounce(m)
     PROVE  ToldIsReceived'
  BY <1>16, SubmissionTypes, PipelineAssumption DEF Bounce, handlerVars,
      backgroundVars, Mails
<1>17. ASSUME NEW f \in Forms, EditForm(f)
     PROVE  ToldIsReceived'
  BY <1>17 DEF EditForm, handlerVars, backgroundVars, storeVars
<1>18. CASE Crash
  BY <1>18, StageNames DEF Crash, InFlight, storeVars
<1>. QED
  BY <1>1, <1>2, <1>3, <1>4, <1>5, <1>6, <1>7, <1>8, <1>9, <1>10, <1>11,
      <1>12, <1>13, <1>14, <1>15, <1>16, <1>17, <1>18
      DEF Next, Respond, AnswersCheck

(* The page shows success only after it was told of it.                    *)
LEMMA PageKept ==
  ASSUME IInv, [Next]_vars
  PROVE  PageFollows'
<1>. USE DEF IInv, TypeOK, PageFollows, AnswersFollowStages
<1>1. CASE UNCHANGED vars
  BY <1>1 DEF vars, handlerVars, backgroundVars, storeVars
<1>2. ASSUME NEW r \in Requests, NEW files \in SUBSET Attachments,
            ClickSubmit(r, files)
     PROVE  PageFollows'
  BY <1>2 DEF ClickSubmit, backgroundVars, storeVars
<1>3. CASE PageSucceeds \/ PageFails
  BY <1>3 DEF PageSucceeds, PageFails, handlerVars, backgroundVars,
      storeVars
<1>4. ASSUME NEW r \in Requests, ReadForm(r)
     PROVE  PageFollows'
  BY <1>4 DEF ReadForm, backgroundVars, storeVars
<1>5. ASSUME NEW r \in Requests, PassCheck(r)
     PROVE  PageFollows'
  BY <1>5 DEF PassCheck, backgroundVars, storeVars
<1>6. ASSUME NEW r \in Requests, AnswersCheck(r)
     PROVE  PageFollows'
  BY <1>6, StageNames
  DEF AnswersCheck, RefuseCheck, MalformedPart, BodyCutOff, backgroundVars,
      storeVars, Early
<1>7. ASSUME NEW r \in Requests, NEW a \in Attachments, UploadSucceeds(r, a)
     PROVE  PageFollows'
  BY <1>7 DEF UploadSucceeds, backgroundVars
<1>8. ASSUME NEW r \in Requests, NEW a \in Attachments, UploadFails(r, a)
     PROVE  PageFollows'
  BY <1>8, StageNames DEF UploadFails, NotSent, backgroundVars, Early
<1>9. ASSUME NEW r \in Requests, SaveMetadataToDb(r) \/ SaveResponseToDb(r)
     PROVE  PageFollows'
  BY <1>9 DEF SaveMetadataToDb, SaveResponseToDb, backgroundVars
<1>10. ASSUME NEW r \in Requests, SaveFails(r)
     PROVE  PageFollows'
  BY <1>10, StageNames DEF SaveFails, NotSent, backgroundVars, Early
<1>11. ASSUME NEW r \in Requests, AdminEmailAccepted(r)
     PROVE  PageFollows'
  BY <1>11 DEF AdminEmailAccepted, backgroundVars
<1>12. ASSUME NEW r \in Requests, AdminEmailFails(r)
     PROVE  PageFollows'
  BY <1>12, StageNames DEF AdminEmailFails, NotSent, backgroundVars, Early
<1>13. ASSUME NEW r \in Requests, Confirm(r)
     PROVE  PageFollows'
  BY <1>13 DEF Confirm, StartAutoReplies, storeVars
<1>14. ASSUME NEW r \in Requests, NEW c \in Recipients, SendAutoReply(r, c)
     PROVE  PageFollows'
  BY <1>14 DEF SendAutoReply, AutoReplyAccepted, AutoReplyFails,
      AutoReplyRejected, RetryAutoReply, handlerVars, storeVars
<1>15. ASSUME NEW r \in Requests, PostWebhook(r) \/ RecordWebhook(r)
     PROVE  PageFollows'
  BY <1>15 DEF PostWebhook, WebhookSucceeds, WebhookFails, RecordWebhook,
      handlerVars
<1>16. ASSUME NEW m \in mails, Bounce(m)
     PROVE  PageFollows'
  BY <1>16 DEF Bounce, handlerVars, backgroundVars
<1>17. ASSUME NEW f \in Forms, EditForm(f)
     PROVE  PageFollows'
  BY <1>17 DEF EditForm, handlerVars, backgroundVars, storeVars
<1>18. CASE Crash
  BY <1>18, StageNames DEF Crash, InFlight, storeVars, Early
<1>. QED
  BY <1>1, <1>2, <1>3, <1>4, <1>5, <1>6, <1>7, <1>8, <1>9, <1>10, <1>11,
      <1>12, <1>13, <1>14, <1>15, <1>16, <1>17, <1>18
      DEF Next, Respond, AnswersCheck

(* Mails and posts go with stored submissions.                             *)
LEMMA EffectsKept ==
  ASSUME IInv, [Next]_vars
  PROVE  EffectsFollow'
<1>. USE DEF IInv, TypeOK, SavedInOrder, EffectsFollow, EarlyLeavesNothing,
             Nothing, Early, AnswersFollowStages
<1>1. CASE UNCHANGED vars
  BY <1>1 DEF vars, handlerVars, backgroundVars, storeVars
<1>2. ASSUME NEW r \in Requests, NEW files \in SUBSET Attachments,
            ClickSubmit(r, files)
     PROVE  EffectsFollow'
  BY <1>2, StageNames DEF ClickSubmit, backgroundVars, storeVars
<1>3. CASE PageSucceeds \/ PageFails
  BY <1>3 DEF PageSucceeds, PageFails, handlerVars, backgroundVars,
      storeVars
<1>4. ASSUME NEW r \in Requests, ReadForm(r)
     PROVE  EffectsFollow'
  BY <1>4, StageNames DEF ReadForm, backgroundVars, storeVars
<1>5. ASSUME NEW r \in Requests, PassCheck(r)
     PROVE  EffectsFollow'
  BY <1>5, CheckSteps, StageNames DEF PassCheck, backgroundVars, storeVars
<1>6. ASSUME NEW r \in Requests, AnswersCheck(r)
     PROVE  EffectsFollow'
  <2>1. \A q \in Requests : reply'[q] = "OK" <=> reply[q] = "OK"
    BY <1>6 DEF AnswersCheck, RefuseCheck, MalformedPart, BodyCutOff
  <2>2. UNCHANGED <<submissions, mails, posted, autoReply, webhook>>
    BY <1>6 DEF AnswersCheck, RefuseCheck, MalformedPart, BodyCutOff,
                backgroundVars, storeVars
  <2>3. \A m \in mails : m.request \in Requests
    BY DEF Mails
  <2>. QED  BY <2>1, <2>2, <2>3
<1>7. ASSUME NEW r \in Requests, NEW a \in Attachments, UploadSucceeds(r, a)
     PROVE  EffectsFollow'
  BY <1>7, StageNames DEF UploadSucceeds, backgroundVars
<1>8. ASSUME NEW r \in Requests, NEW a \in Attachments, UploadFails(r, a)
     PROVE  EffectsFollow'
  BY <1>8, StageNames DEF UploadFails, NotSent, backgroundVars
<1>9. ASSUME NEW r \in Requests, SaveMetadataToDb(r) \/ SaveResponseToDb(r)
     PROVE  EffectsFollow'
  <2>1. submissions' = Saved(r) /\ UNCHANGED <<reply, mails, posted>>
    BY <1>9 DEF SaveMetadataToDb, SaveResponseToDb
  <2>2. \A q \in Requests : submissions[q] # None => submissions'[q] # None
    BY <1>9, <2>1, SaveFacts DEF SaveMetadataToDb, SaveResponseToDb
  <2>3. \A m \in mails : m.request \in Requests
    BY DEF Mails
  <2>4. UNCHANGED <<autoReply, webhook>>
    BY <1>9 DEF SaveMetadataToDb, SaveResponseToDb, backgroundVars
  <2>. QED  BY <2>1, <2>2, <2>3, <2>4
<1>10. ASSUME NEW r \in Requests, SaveFails(r)
     PROVE  EffectsFollow'
  <2>1. \A q \in Requests : reply[q] = "OK" <=> reply'[q] = "OK"
    BY <1>10, StageNames DEF SaveFails, NotSent
  <2>2. \A q \in Requests : submissions[q] # None => submissions'[q] # None
    BY <1>10, SaveFacts DEF SaveFails
  <2>3. \A m \in mails : m.request \in Requests
    BY DEF Mails
  <2>4. UNCHANGED <<autoReply, webhook, mails, posted>>
    BY <1>10 DEF SaveFails, backgroundVars
  <2>. QED  BY <2>1, <2>2, <2>3, <2>4
<1>11. ASSUME NEW r \in Requests, AdminEmailAccepted(r)
     PROVE  EffectsFollow'
  BY <1>11, StageNames DEF AdminEmailAccepted, backgroundVars, AdminMail
<1>12. ASSUME NEW r \in Requests, AdminEmailFails(r)
     PROVE  EffectsFollow'
  BY <1>12, StageNames DEF AdminEmailFails, NotSent, backgroundVars,
      AdminMail
<1>13. ASSUME NEW r \in Requests, Confirm(r)
     PROVE  EffectsFollow'
  <2>1. submissions[r] # None /\ reply'[r] \in {"OK", "MALFORMED", "NOT_SENT"}
    BY <1>13, StageNames DEF Confirm, Stages
  <2>2. \A q \in Requests : reply[q] = "OK" => reply'[q] = "OK"
    BY <1>13 DEF Confirm
  <2>3. \A q \in Requests : reply'[q] = "OK" => submissions[q] # None
    BY <1>13, <2>1 DEF Confirm
  <2>4. \A q \in Requests, c \in Recipients :
          autoReply'[<<q, c>>].status # "none" => reply'[q] = "OK"
    <3>1. CASE reply[r] = "none"
      BY <1>13, <3>1, <2>2 DEF Confirm, StartAutoReplies
    <3>2. CASE reply[r] # "none"
      BY <1>13, <3>2 DEF Confirm
    <3>. QED  BY <3>1, <3>2
  <2>5. \A q \in Requests : q \in posted \/ webhook'[q] # "none" =>
          submissions[q] # None
    BY <1>13, <2>1 DEF Confirm
  <2>6. UNCHANGED <<submissions, mails, posted>>
    BY <1>13 DEF Confirm, storeVars
  <2>7. \A m \in mails : m.request \in Requests
    BY DEF Mails
  <2>. QED  BY <2>2, <2>3, <2>4, <2>5, <2>6, <2>7
<1>14. ASSUME NEW r \in Requests, NEW c \in Recipients, SendAutoReply(r, c)
     PROVE  EffectsFollow'
  BY <1>14, AttemptTypes DEF SendAutoReply, AutoReplyAccepted,
      AutoReplyFails, AutoReplyRejected, RetryAutoReply, handlerVars,
      storeVars, ConfirmationMail
<1>15. ASSUME NEW r \in Requests, PostWebhook(r) \/ RecordWebhook(r)
     PROVE  EffectsFollow'
  <2>1. CASE RecordWebhook(r)
    <3>1. submissions[r] \in Submission /\ webhook[r] \in {"succeeded", "failed"}
      BY <2>1 DEF RecordWebhook
    <3>2. \A q \in Requests : submissions[q] # None => submissions'[q] # None
      BY <2>1, <3>1, SubmissionTypes, PipelineAssumption DEF RecordWebhook
    <3>3. \A m \in mails : m.request \in Requests
      BY DEF Mails
    <3>. QED  BY <2>1, <3>1, <3>2, <3>3 DEF RecordWebhook, handlerVars
  <2>2. CASE WebhookSucceeds(r) \/ WebhookFails(r)
    BY <2>2 DEF WebhookSucceeds, WebhookFails, handlerVars
  <2>. QED  BY <1>15, <2>1, <2>2 DEF PostWebhook
<1>16. ASSUME NEW m \in mails, Bounce(m)
     PROVE  EffectsFollow'
  BY <1>16, SubmissionTypes, PipelineAssumption DEF Bounce, handlerVars,
      backgroundVars, Mails
<1>17. ASSUME NEW f \in Forms, EditForm(f)
     PROVE  EffectsFollow'
  BY <1>17 DEF EditForm, handlerVars, backgroundVars, storeVars
<1>18. CASE Crash
  <2>1. \A q \in Requests : reply[q] = "OK" <=> reply'[q] = "OK"
    BY <1>18, StageNames DEF Crash
  <2>2. \A p \in Requests \X Recipients :
          autoReply'[p].status # "none" => autoReply[p].status # "none"
    BY <1>18 DEF Crash
  <2>3. \A q \in Requests : webhook'[q] # "none" => webhook[q] # "none"
    BY <1>18 DEF Crash
  <2>4. UNCHANGED <<submissions, mails, posted>>
    BY <1>18 DEF Crash, storeVars
  <2>5. \A m \in mails : m.request \in Requests
    BY DEF Mails
  <2>. QED  BY <2>1, <2>2, <2>3, <2>4, <2>5
<1>. QED
  BY <1>1, <1>2, <1>3, <1>4, <1>5, <1>6, <1>7, <1>8, <1>9, <1>10, <1>11,
      <1>12, <1>13, <1>14, <1>15, <1>16, <1>17, <1>18
      DEF Next, Respond, AnswersCheck

(* The form whose token was checked is the form that is stored.            *)
LEMMA AuthTypeKept ==
  ASSUME IInv, [Next]_vars
  PROVE  AuthTypeWasChecked'
<1>. USE DEF IInv, TypeOK, AuthTypeWasChecked, ChecksInOrder, EffectsFollow
<1>1. CASE UNCHANGED vars
  BY <1>1 DEF vars, handlerVars, backgroundVars, storeVars
<1>2. ASSUME NEW r \in Requests, NEW files \in SUBSET Attachments,
            ClickSubmit(r, files)
     PROVE  AuthTypeWasChecked'
  BY <1>2 DEF ClickSubmit, backgroundVars, storeVars
<1>3. CASE PageSucceeds \/ PageFails
  BY <1>3 DEF PageSucceeds, PageFails, handlerVars, backgroundVars,
      storeVars
<1>4. ASSUME NEW r \in Requests, ReadForm(r)
     PROVE  AuthTypeWasChecked'
  BY <1>4 DEF ReadForm, backgroundVars, storeVars
<1>5. ASSUME NEW r \in Requests, PassCheck(r)
     PROVE  AuthTypeWasChecked'
  BY <1>5 DEF PassCheck, backgroundVars, storeVars
<1>6. ASSUME NEW r \in Requests, AnswersCheck(r)
     PROVE  AuthTypeWasChecked'
  BY <1>6
  DEF AnswersCheck, RefuseCheck, MalformedPart, BodyCutOff, backgroundVars,
      storeVars
<1>7. ASSUME NEW r \in Requests, NEW a \in Attachments, UploadSucceeds(r, a)
     PROVE  AuthTypeWasChecked'
  BY <1>7 DEF UploadSucceeds, backgroundVars
<1>8. ASSUME NEW r \in Requests, NEW a \in Attachments, UploadFails(r, a)
     PROVE  AuthTypeWasChecked'
  BY <1>8 DEF UploadFails, NotSent, backgroundVars
<1>9. ASSUME NEW r \in Requests, SaveMetadataToDb(r) \/ SaveResponseToDb(r)
     PROVE  AuthTypeWasChecked'
  BY <1>9, SaveFacts DEF SaveMetadataToDb, SaveResponseToDb, backgroundVars,
      PastSpcp, Stages
<1>10. ASSUME NEW r \in Requests, SaveFails(r)
     PROVE  AuthTypeWasChecked'
  BY <1>10, SaveFacts DEF SaveFails, NotSent, backgroundVars, PastSpcp,
      Stages
<1>11. ASSUME NEW r \in Requests, AdminEmailAccepted(r)
     PROVE  AuthTypeWasChecked'
  BY <1>11 DEF AdminEmailAccepted, backgroundVars
<1>12. ASSUME NEW r \in Requests, AdminEmailFails(r)
     PROVE  AuthTypeWasChecked'
  BY <1>12 DEF AdminEmailFails, NotSent, backgroundVars
<1>13. ASSUME NEW r \in Requests, Confirm(r)
     PROVE  AuthTypeWasChecked'
  BY <1>13 DEF Confirm, StartAutoReplies, storeVars
<1>14. ASSUME NEW r \in Requests, NEW c \in Recipients, SendAutoReply(r, c)
     PROVE  AuthTypeWasChecked'
  BY <1>14 DEF SendAutoReply, AutoReplyAccepted, AutoReplyFails,
      AutoReplyRejected, RetryAutoReply, handlerVars, storeVars
<1>15. ASSUME NEW r \in Requests, PostWebhook(r) \/ RecordWebhook(r)
     PROVE  AuthTypeWasChecked'
  BY <1>15, SubmissionTypes, PipelineAssumption DEF PostWebhook,
      WebhookSucceeds, WebhookFails, RecordWebhook, handlerVars
<1>16. ASSUME NEW m \in mails, Bounce(m)
     PROVE  AuthTypeWasChecked'
  BY <1>16, SubmissionTypes, PipelineAssumption DEF Bounce, handlerVars,
      backgroundVars, Mails
<1>17. ASSUME NEW f \in Forms, EditForm(f)
     PROVE  AuthTypeWasChecked'
  BY <1>17 DEF EditForm, handlerVars, backgroundVars, storeVars
<1>18. CASE Crash
  BY <1>18 DEF Crash, InFlight, storeVars
<1>. QED
  BY <1>1, <1>2, <1>3, <1>4, <1>5, <1>6, <1>7, <1>8, <1>9, <1>10, <1>11,
      <1>12, <1>13, <1>14, <1>15, <1>16, <1>17, <1>18
      DEF Next, Respond, AnswersCheck

(* Only the admin's mail marks a submission.                               *)
LEMMA BouncesKept ==
  ASSUME IInv, [Next]_vars
  PROVE  BouncedMeansAdminMail'
<1>. USE DEF IInv, TypeOK, BouncedMeansAdminMail, EffectsFollow
<1>1. CASE UNCHANGED vars
  BY <1>1 DEF vars, handlerVars, backgroundVars, storeVars
<1>2. ASSUME NEW r \in Requests, NEW files \in SUBSET Attachments,
            ClickSubmit(r, files)
     PROVE  BouncedMeansAdminMail'
  BY <1>2 DEF ClickSubmit, backgroundVars, storeVars
<1>3. CASE PageSucceeds \/ PageFails
  BY <1>3 DEF PageSucceeds, PageFails, handlerVars, backgroundVars,
      storeVars
<1>4. ASSUME NEW r \in Requests, ReadForm(r)
     PROVE  BouncedMeansAdminMail'
  BY <1>4 DEF ReadForm, backgroundVars, storeVars
<1>5. ASSUME NEW r \in Requests, PassCheck(r)
     PROVE  BouncedMeansAdminMail'
  BY <1>5 DEF PassCheck, backgroundVars, storeVars
<1>6. ASSUME NEW r \in Requests, AnswersCheck(r)
     PROVE  BouncedMeansAdminMail'
  BY <1>6
  DEF AnswersCheck, RefuseCheck, MalformedPart, BodyCutOff, backgroundVars,
      storeVars
<1>7. ASSUME NEW r \in Requests, NEW a \in Attachments, UploadSucceeds(r, a)
     PROVE  BouncedMeansAdminMail'
  BY <1>7 DEF UploadSucceeds, backgroundVars
<1>8. ASSUME NEW r \in Requests, NEW a \in Attachments, UploadFails(r, a)
     PROVE  BouncedMeansAdminMail'
  BY <1>8 DEF UploadFails, NotSent, backgroundVars
<1>9. ASSUME NEW r \in Requests, SaveMetadataToDb(r) \/ SaveResponseToDb(r)
     PROVE  BouncedMeansAdminMail'
  BY <1>9, SaveFacts DEF SaveMetadataToDb, SaveResponseToDb, backgroundVars
<1>10. ASSUME NEW r \in Requests, SaveFails(r)
     PROVE  BouncedMeansAdminMail'
  BY <1>10, SaveFacts DEF SaveFails, NotSent, backgroundVars
<1>11. ASSUME NEW r \in Requests, AdminEmailAccepted(r)
     PROVE  BouncedMeansAdminMail'
  BY <1>11 DEF AdminEmailAccepted, backgroundVars
<1>12. ASSUME NEW r \in Requests, AdminEmailFails(r)
     PROVE  BouncedMeansAdminMail'
  BY <1>12 DEF AdminEmailFails, NotSent, backgroundVars
<1>13. ASSUME NEW r \in Requests, Confirm(r)
     PROVE  BouncedMeansAdminMail'
  BY <1>13 DEF Confirm, StartAutoReplies, storeVars
<1>14. ASSUME NEW r \in Requests, NEW c \in Recipients, SendAutoReply(r, c)
     PROVE  BouncedMeansAdminMail'
  BY <1>14 DEF SendAutoReply, AutoReplyAccepted, AutoReplyFails,
      AutoReplyRejected, RetryAutoReply, handlerVars, storeVars
<1>15. ASSUME NEW r \in Requests, PostWebhook(r) \/ RecordWebhook(r)
     PROVE  BouncedMeansAdminMail'
  BY <1>15, SubmissionTypes, PipelineAssumption DEF PostWebhook,
      WebhookSucceeds, WebhookFails, RecordWebhook, handlerVars
<1>16. ASSUME NEW m \in mails, Bounce(m)
     PROVE  BouncedMeansAdminMail'
  BY <1>16, SubmissionTypes, PipelineAssumption DEF Bounce, handlerVars,
      backgroundVars, Mails, MarksBounce, AdminMail
<1>17. ASSUME NEW f \in Forms, EditForm(f)
     PROVE  BouncedMeansAdminMail'
  BY <1>17 DEF EditForm, handlerVars, backgroundVars, storeVars
<1>18. CASE Crash
  BY <1>18 DEF Crash, InFlight, storeVars
<1>. QED
  BY <1>1, <1>2, <1>3, <1>4, <1>5, <1>6, <1>7, <1>8, <1>9, <1>10, <1>11,
      <1>12, <1>13, <1>14, <1>15, <1>16, <1>17, <1>18
      DEF Next, Respond, AnswersCheck

-----------------------------------------------------------------------------
(* Theorems *)

LEMMA Initially == Init => IInv
<1>. SUFFICES ASSUME Init PROVE IInv
  OBVIOUS
<1>. USE DEF Init
<1>1. TypeOK
  BY PipelineAssumption DEF TypeOK, Stages, Replies, AutoReplies
<1>2. EarlyLeavesNothing /\ AnswersFollowStages /\ SavedInOrder
  BY StageNames DEF EarlyLeavesNothing, Nothing, AnswersFollowStages,
                    SavedInOrder, Early
<1>3. ChecksInOrder /\ ToldIsReceived /\ PageFollows /\ EffectsFollow
  BY DEF ChecksInOrder, PastSpcp, ToldIsReceived, PageFollows, EffectsFollow
<1>4. AuthTypeWasChecked /\ BouncedMeansAdminMail
  BY DEF AuthTypeWasChecked, BouncedMeansAdminMail
<1>. QED  BY <1>1, <1>2, <1>3, <1>4 DEF IInv

(* The invariant is inductive, and so it always holds.                     *)
THEOREM InvariantHolds == Spec => []IInv
<1>1. Init => IInv
  BY Initially
<1>2. IInv /\ [Next]_vars => IInv'
  BY TypesKept, EarlyKept, AnswersKept, ChecksKept, SavedKept, ToldKept,
     PageKept, EffectsKept, AuthTypeKept, BouncesKept
  DEF IInv
<1>. QED  BY <1>1, <1>2, PTL DEF Spec

(* Type correctness of the pipeline: every variable keeps its type, for    *)
(* any number of requests.                                                 *)
THEOREM PipelineTypesHold == Spec => []TypeOK
<1>1. IInv => TypeOK
  BY DEF IInv
<1>. QED  BY <1>1, InvariantHolds, PTL

(* The thank-you page is only shown for a response that has reached the    *)
(* admin (handleSubmitSuccess after sendAutoReply).                        *)
THEOREM ThanksDue == Spec => []ThanksAreDue
<1>1. IInv => ThanksAreDue
  BY DEF IInv, ThanksAreDue, PageFollows, ToldIsReceived
<1>. QED  BY <1>1, InvariantHolds, PTL

(* A request whose first answer is the refusal of a check leaves no        *)
(* submission, upload, mail or post behind (the early returns of the       *)
(* middlewares).  A malformed part of a body is answered without ending    *)
(* the request, and nothing is claimed of what it leaves.                  *)
THEOREM RefusalsLeaveNothing == Spec => []RefusedLeavesNothing
<1>1. IInv => RefusedLeavesNothing
  BY DEF IInv, RefusedLeavesNothing, EarlyLeavesNothing, Nothing
<1>. QED  BY <1>1, InvariantHolds, PTL

(* Confirmation mails go with stored submissions whose respondent was told *)
(* of success (sendAutoReply).                                             *)
THEOREM ConfirmationsJustified == Spec => []ConfirmedAfterSuccess
<1>1. IInv => ConfirmedAfterSuccess
  BY DEF IInv, TypeOK, Mails, ConfirmedAfterSuccess, EffectsFollow
<1>. QED  BY <1>1, InvariantHolds, PTL

(* What has come of a request agrees with what it was answered.            *)
THEOREM OutcomesAgreed == Spec => []OutcomesAgree
<1>1. RefusedLeavesNothing /\ ConfirmedAfterSuccess => OutcomesAgree
  BY DEF OutcomesAgree
<1>. QED  BY <1>1, RefusalsLeaveNothing, ConfirmationsJustified, PTL

(* The authType that is stored was checked (isSpcpAuthenticated), however  *)
(* the form is edited meanwhile.                                           *)
THEOREM AuthTypeChecked == Spec => []AuthTypeWasChecked
<1>1. IInv => AuthTypeWasChecked
  BY DEF IInv
<1>. QED  BY <1>1, InvariantHolds, PTL

(* Only a bounce of the admin's mail marks a submission                    *)
(* (confirmOnNotification).                                                *)
THEOREM BouncesOfAdminMail == Spec => []BouncedMeansAdminMail
<1>1. IInv => BouncedMeansAdminMail
  BY DEF IInv
<1>. QED  BY <1>1, InvariantHolds, PTL

-----------------------------------------------------------------------------
(* The pipeline implements the promise of SubmissionReceipt *)

LEMMA Outcomes ==
  /\ Outcome("none") = "none"
  /\ Outcome("OK") = "success"
  /\ \A answer : answer \notin {"none", "OK"} => Outcome(answer) = "failure"
BY DEF Outcome

(* A step that receives no response and answers nobody.                    *)
LEMMA QuietStep ==
  ASSUME UNCHANGED reply,
         \A q \in Requests : Received(q)' <=> Received(q)
  PROVE  UNCHANGED Receipt!rvars
BY DEF Receipt!rvars

(* A step that may receive one response and answers nobody.                *)
LEMMA ReceivingStep ==
  ASSUME NEW r \in Requests,
         UNCHANGED reply,
         Received(r) => Received(r)',
         \A q \in Requests \ {r} : Received(q)' <=> Received(q)
  PROVE  [Receipt!RNext]_(Receipt!rvars)
<1>1. CASE Received(r)' /\ ~Received(r)
  <2>1. {q \in Requests : Received(q)}' = {q \in Requests : Received(q)} \cup {r}
    BY <1>1
  <2>2. Receipt!Receive(r)
    BY <2>1 DEF Receipt!Receive
  <2>. QED  BY <2>2 DEF Receipt!RNext
<1>2. CASE Received(r)' <=> Received(r)
  BY <1>2, QuietStep
<1>. QED  BY <1>1, <1>2

(* A step that fails the requests in F, unless they have an answer.        *)
LEMMA FailingStep ==
  ASSUME NEW F \in SUBSET Requests,
         TypeOK, TypeOK',
         \A q \in Requests :
             \/ reply'[q] = reply[q] /\ (q \in F => reply[q] # "none")
             \/ q \in F /\ reply[q] = "none" /\ reply'[q] \notin {"none", "OK"},
         \A q \in Requests : Received(q) => Received(q)',
         \A q \in Requests \ F : Received(q)' => Received(q)
  PROVE  Receipt!RNext
<1>. DEFINE answer == [q \in Requests |-> Outcome(reply[q])]
<1>1. answer' = [q \in Requests |->
                    IF q \in F /\ answer[q] = "none" THEN "failure"
                    ELSE answer[q]]
  <2>1. ASSUME NEW q \in Requests
        PROVE  Outcome(reply'[q]) =
                   IF q \in F /\ Outcome(reply[q]) = "none" THEN "failure"
                   ELSE Outcome(reply[q])
    <3>1. Outcome(reply[q]) = "none" <=> reply[q] = "none"
      BY Outcomes
    <3>. QED  BY <2>1, <3>1, Outcomes
  <2>. QED  BY <2>1
<1>2. /\ {q \in Requests : Received(q)} \subseteq {q \in Requests : Received(q)}'
      /\ {q \in Requests : Received(q)}' \subseteq
             {q \in Requests : Received(q)} \cup F
  OBVIOUS
<1>3. Receipt!Fail(F)
  BY <1>1, <1>2 DEF Receipt!Fail
<1>. QED  BY <1>3 DEF Receipt!RNext

(* The step that tells a respondent of success.                            *)
LEMMA SucceedingStep ==
  ASSUME NEW r \in Requests,
         TypeOK,
         reply[r] = "none", Received(r),
         reply' = [reply EXCEPT ![r] = "OK"],
         \A q \in Requests : Received(q)' <=> Received(q)
  PROVE  Receipt!RNext
<1>. DEFINE answer == [q \in Requests |-> Outcome(reply[q])]
<1>1. answer' = [answer EXCEPT ![r] = "success"]
  BY Outcomes DEF TypeOK
<1>2. answer[r] = "none"
  BY Outcomes
<1>3. {q \in Requests : Received(q)}' = {q \in Requests : Received(q)}
  OBVIOUS
<1>4. Receipt!Succeed(r)
  BY <1>1, <1>2, <1>3 DEF Receipt!Succeed
<1>. QED  BY <1>4 DEF Receipt!RNext

(* Steps that leave the stored submissions, the attachments and the mails  *)
(* to the admin alone receive nothing.                                     *)
LEMMA SameReceived ==
  ASSUME form'.responseMode = form.responseMode,
         submissions' = submissions, bucket' = bucket, mails' = mails,
         NEW q \in Requests
  PROVE  Received(q)' <=> Received(q)
BY DEF Received, AdminMail

LEMMA StepsImplementReceipt ==
  ASSUME IInv, [Next]_vars
  PROVE  [Receipt!RNext]_(Receipt!rvars)
<1>. USE DEF handlerVars, backgroundVars, storeVars
<1>t. TypeOK /\ TypeOK'
  BY TypesKept DEF IInv
<1>1. CASE UNCHANGED vars
  BY <1>1, SameReceived, QuietStep DEF vars
<1>2. ASSUME NEW r \in Requests, NEW files \in SUBSET Attachments,
             ClickSubmit(r, files)
      PROVE  UNCHANGED Receipt!rvars
  BY <1>2, SameReceived, QuietStep DEF ClickSubmit
<1>3. CASE PageSucceeds \/ PageFails
  BY <1>3, SameReceived, QuietStep DEF PageSucceeds, PageFails
<1>4. ASSUME NEW r \in Requests, ReadForm(r) \/ PassCheck(r)
      PROVE  UNCHANGED Receipt!rvars
  BY <1>4, SameReceived, QuietStep DEF ReadForm, PassCheck
<1>5. ASSUME NEW r \in Requests, AnswersCheck(r)
      PROVE  Receipt!RNext
  <2>1. \A q \in Requests :
          \/ reply'[q] = reply[q] /\ (q \in {r} => reply[q] # "none")
          \/ /\ q \in {r} /\ reply[q] = "none"
             /\ reply'[q] \notin {"none", "OK"}
    BY <1>5, <1>t
    DEF AnswersCheck, RefuseCheck, MalformedPart, BodyCutOff, TypeOK
  <2>2. \A q \in Requests : Received(q)' <=> Received(q)
    BY <1>5, SameReceived
    DEF AnswersCheck, RefuseCheck, MalformedPart, BodyCutOff
  <2>. QED  BY <1>t, <2>1, <2>2, FailingStep, {r} \in SUBSET Requests
<1>6. ASSUME NEW r \in Requests, NEW a \in Attachments, UploadSucceeds(r, a)
      PROVE  UNCHANGED Receipt!rvars
  <2>1. \A q \in Requests : Received(q)' <=> Received(q)
    BY <1>6 DEF UploadSucceeds, IInv, SavedInOrder, Received, AdminMail
  <2>. QED  BY <1>6, <2>1, QuietStep DEF UploadSucceeds
<1>7. ASSUME NEW r \in Requests, NotSent(r),
             \A q \in Requests \ {r} : Received(q)' <=> Received(q),
             Received(r) => Received(r)'
      PROVE  Receipt!RNext
  <2>1. CASE reply[r] = "none"
    BY <1>t, <1>7, <2>1, FailingStep, {r} \in SUBSET Requests
    DEF NotSent, TypeOK
  <2>2. CASE reply[r] # "none"
    BY <1>t, <1>7, <2>2, FailingStep, {r} \in SUBSET Requests
    DEF NotSent, TypeOK
  <2>. QED  BY <2>1, <2>2
<1>8. ASSUME NEW r \in Requests, NEW a \in Attachments, UploadFails(r, a)
      PROVE  Receipt!RNext
  <2>1. \A q \in Requests : Received(q)' <=> Received(q)
    BY <1>8 DEF UploadFails, IInv, SavedInOrder, Received, AdminMail
  <2>. QED  BY <1>7, <1>8, <2>1 DEF UploadFails
<1>9. ASSUME NEW r \in Requests, stage[r] = "saving",
             form' = form, bucket' = bucket, mails' = mails,
             submissions' \in {submissions, Saved(r)}
      PROVE  /\ \A q \in Requests \ {r} : Received(q)' <=> Received(q)
             /\ Received(r) => Received(r)'
  BY <1>9, SaveFacts DEF IInv, SavedInOrder, Received, AdminMail
<1>10. ASSUME NEW r \in Requests, SaveMetadataToDb(r) \/ SaveResponseToDb(r)
       PROVE  [Receipt!RNext]_(Receipt!rvars)
  BY <1>9, <1>10, ReceivingStep DEF SaveMetadataToDb, SaveResponseToDb
<1>11. ASSUME NEW r \in Requests, SaveFails(r)
       PROVE  Receipt!RNext
  BY <1>7, <1>9, <1>11 DEF SaveFails
<1>12. ASSUME NEW r \in Requests, form' = form, bucket' = bucket,
              submissions' = submissions,
              mails' \in {mails, mails \cup {AdminMail(r)}}
       PROVE  /\ \A q \in Requests \ {r} : Received(q)' <=> Received(q)
              /\ Received(r) => Received(r)'
  BY <1>12 DEF Received, AdminMail
<1>13. ASSUME NEW r \in Requests, AdminEmailAccepted(r)
       PROVE  [Receipt!RNext]_(Receipt!rvars)
  BY <1>12, <1>13, ReceivingStep DEF AdminEmailAccepted
<1>14. ASSUME NEW r \in Requests, AdminEmailFails(r)
       PROVE  Receipt!RNext
  BY <1>7, <1>12, <1>14 DEF AdminEmailFails
<1>15. ASSUME NEW r \in Requests, Confirm(r)
       PROVE  [Receipt!RNext]_(Receipt!rvars)
  <2>1. \A q \in Requests : Received(q)' <=> Received(q)
    BY <1>15, SameReceived DEF Confirm
  <2>2. CASE reply[r] = "none"
    <3>1. Received(r)
      BY <1>15, <2>2 DEF Confirm, IInv, ToldIsReceived
    <3>2. reply' = [reply EXCEPT ![r] = "OK"]
      BY <1>15, <2>2 DEF Confirm
    <3>. QED  BY <1>t, <2>1, <2>2, <3>1, <3>2, SucceedingStep
  <2>3. CASE reply[r] # "none"
    BY <1>15, <2>1, <2>3, QuietStep DEF Confirm
  <2>. QED  BY <2>2, <2>3
<1>16. ASSUME NEW r \in Requests, NEW c \in Recipients, SendAutoReply(r, c)
       PROVE  UNCHANGED Receipt!rvars
  <2>1. \A q \in Requests : Received(q)' <=> Received(q)
    BY <1>16 DEF SendAutoReply, AutoReplyAccepted, AutoReplyFails,
                 AutoReplyRejected, RetryAutoReply, Received, AdminMail,
                 ConfirmationMail
  <2>. QED  BY <1>16, <2>1, QuietStep
            DEF SendAutoReply, AutoReplyAccepted, AutoReplyFails,
                AutoReplyRejected, RetryAutoReply
<1>17. ASSUME NEW r \in Requests, PostWebhook(r) \/ RecordWebhook(r)
       PROVE  UNCHANGED Receipt!rvars
  <2>1. \A q \in Requests : Received(q)' <=> Received(q)
    <3>1. CASE WebhookSucceeds(r) \/ WebhookFails(r)
      BY <3>1, SameReceived DEF WebhookSucceeds, WebhookFails
    <3>2. CASE RecordWebhook(r)
      <4>1. submissions[r] \in Submission
        BY <3>2 DEF RecordWebhook, IInv, TypeOK, EffectsFollow
      <4>. QED  BY <3>2, <4>1, <1>t, SubmissionTypes, PipelineAssumption
                DEF RecordWebhook, Received, AdminMail, TypeOK
    <3>. QED  BY <1>17, <3>1, <3>2 DEF PostWebhook
  <2>. QED  BY <1>17, <2>1, QuietStep
            DEF PostWebhook, WebhookSucceeds, WebhookFails, RecordWebhook
<1>18. ASSUME NEW m \in mails, Bounce(m)
       PROVE  UNCHANGED Receipt!rvars
  <2>1. m.request \in Requests /\ submissions[m.request] \in Submission
    BY <1>18 DEF IInv, TypeOK, Mails, EffectsFollow
  <2>2. \A q \in Requests : Received(q)' <=> Received(q)
    BY <1>18, <1>t, <2>1, SubmissionTypes, PipelineAssumption
    DEF Bounce, Received, AdminMail, TypeOK
  <2>. QED  BY <1>18, <2>2, QuietStep DEF Bounce
<1>19. ASSUME NEW f \in Forms, EditForm(f)
       PROVE  UNCHANGED Receipt!rvars
  BY <1>19, SameReceived, QuietStep DEF EditForm
<1>20. CASE Crash
  <2>. DEFINE F == {q \in Requests : InFlight(q) /\ reply[q] = "none"}
  <2>1. \A q \in Requests : Received(q)' <=> Received(q)
    BY <1>20, SameReceived DEF Crash
  <2>2. \A q \in Requests :
          \/ reply'[q] = reply[q] /\ (q \in F => reply[q] # "none")
          \/ q \in F /\ reply[q] = "none" /\ reply'[q] \notin {"none", "OK"}
    BY <1>20 DEF Crash
  <2>. QED  BY <1>t, <2>1, <2>2, FailingStep
<1>. QED
  BY <1>1, <1>2, <1>3, <1>4, <1>5, <1>6, <1>8, <1>10, <1>11, <1>13, <1>14,
     <1>15, <1>16, <1>17, <1>18, <1>19, <1>20 DEF Next, Respond, AnswersCheck

(* Success is told of received responses only, and once ("Form submission  *)
(* successful.", sendAutoReply), whatever fails or crashes on the way.     *)
THEOREM PipelineImplementsReceipt == Spec => ImplementsReceipt
<1>1. Init => Receipt!RInit
  BY Outcomes DEF Init, Received, Receipt!RInit
<1>2. IInv /\ [Next]_vars => [Receipt!RNext]_(Receipt!rvars)
  BY StepsImplementReceipt
<1>. QED
  BY <1>1, <1>2, InvariantHolds, PTL DEF Spec, ImplementsReceipt, Receipt!RSpec

=============================================================================
